----------------------------- MODULE NameProofs -----------------------------
(***************************************************************************)
(* Lemmas about the operators on records, names and zone maps that         *)
(* Publication is built from, for every sequence, name and record.         *)
(*                                                                         *)
(* What recursion computes is proved for the numbers it has reached, of    *)
(* which there is a largest (Reaches), in place of the library's induction *)
(* rules.                                                                  *)
(***************************************************************************)
EXTENDS ZoneFiles, FiniteSetTheorems, FunctionTheorems, TLAPS

-----------------------------------------------------------------------------
(* Numbers *)

\* Finitely many numbers have a largest.
LEMMA LargestExists ==
    ASSUME NEW T, IsFiniteSet(T), T # {}, T \subseteq Nat
    PROVE  \E i \in T : \A j \in T : j <= i
  <1> DEFINE Above(i) == {j \in T : j > i}
             Aboves == {Above(i) : i \in T}
  <1>1. Aboves \subseteq FiniteSubsetsOf(T)
    <2>1. \A i \in T : IsFiniteSet(Above(i))
      BY FS_Subset
    <2> QED
      BY <2>1 DEF FiniteSubsetsOf
  <1>2. PICK A \in Aboves : \A B \in Aboves : <<B, A>> \notin StrictSubsetOrdering(T)
    <2>1. IsWellFoundedOn(StrictSubsetOrdering(T), FiniteSubsetsOf(T))
      BY FS_StrictSubsetOrderingWellFounded
    <2>2. Aboves # {}
      OBVIOUS
    <2> HIDE DEF Aboves
    <2> QED
      BY <1>1, <2>1, <2>2, WFMin
  <1>3. PICK i \in T : A = Above(i)
    BY <1>2
  <1>4. ASSUME NEW j \in T, ~(j <= i)
        PROVE  FALSE
    <2>1. \A k \in T : k \in Int
      OBVIOUS
    <2>2. Above(j) \subseteq Above(i)
      <3> SUFFICES ASSUME NEW k \in T, k > j
                   PROVE  k > i
        OBVIOUS
      <3>1. k \in Int /\ j \in Int /\ i \in Int
        BY <2>1
      <3> QED
        BY <1>4, <3>1
    <2>3. j \in Above(i) /\ j \notin Above(j)
      BY <1>4, <2>1
    <2>4. Above(j) # Above(i)
      BY <2>3
    <2>5. Above(j) \in SUBSET T /\ Above(i) \in SUBSET T
      OBVIOUS
    <2>6. Above(j) \in Aboves
      OBVIOUS
    <2> HIDE DEF Above, Aboves
    <2>7. <<Above(j), A>> \in StrictSubsetOrdering(T)
      BY <1>3, <2>2, <2>4, <2>5 DEF StrictSubsetOrdering
    <2> QED
      BY <1>2, <2>6, <2>7
  <1> QED
    BY <1>4

\* Numbers that there are have a smallest.
LEMMA SmallestExists ==
    ASSUME NEW T, T # {}, T \subseteq Nat
    PROVE  \E i \in T : \A j \in T : i <= j
  <1>1. PICK top \in T : TRUE
    OBVIOUS
  <1> DEFINE Below == {b \in 0..top : \A t \in T : b <= t}
  <1>2. 0 \in Below /\ Below \subseteq Nat
    BY <1>1
  <1>3. IsFiniteSet(Below)
    <2>1. IsFiniteSet(0..top)
      BY <1>1, FS_Interval
    <2>2. Below \subseteq 0..top
      OBVIOUS
    <2> QED
      BY <2>1, <2>2, FS_Subset
  <1>4. PICK b \in Below : \A c \in Below : c <= b
    <2> HIDE DEF Below
    <2> QED
      BY <1>2, <1>3, LargestExists
  <1>5. b \in Nat /\ b <= top /\ \A t \in T : b <= t
    BY <1>1
  <1>6. b \in T
    <2>1. SUFFICES ASSUME b \notin T PROVE FALSE
      OBVIOUS
    <2>2. \A t \in T : b + 1 <= t
      BY <1>5, <2>1
    <2>3. b + 1 \in Below
      BY <1>1, <1>5, <2>2
    <2> QED
      BY <1>4, <1>5, <2>3
  <1> QED
    BY <1>5, <1>6

\* Induction up to a bound.
LEMMA Reaches ==
    ASSUME NEW N \in Nat, NEW T, 0 \in T,
           \A n \in 0..N : (n < N /\ n \in T) => n + 1 \in T
    PROVE  0..N \subseteq T
  <1> DEFINE Reached == {n \in 0..N : 0..n \subseteq T}
  <1>1. 0 \in Reached
    OBVIOUS
  <1>2. IsFiniteSet(Reached)
    <2>1. IsFiniteSet(0..N) /\ Reached \in SUBSET (0..N)
      BY FS_Interval
    <2> HIDE DEF Reached
    <2> QED
      BY <2>1, FS_Subset
  <1>3. Reached \subseteq Nat
    OBVIOUS
  <1> HIDE DEF Reached
  <1>4. PICK n \in Reached : \A m \in Reached : m <= n
    BY <1>1, <1>2, <1>3, LargestExists
  <1>5. n \in 0..N /\ 0..n \subseteq T
    BY <1>4 DEF Reached
  <1>6. CASE n < N
    <2>1. n + 1 \in T
      BY <1>5, <1>6
    <2>2. n + 1 \in 0..N /\ 0..(n + 1) \subseteq T
      BY <1>5, <1>6, <2>1
    <2>3. n + 1 \in Reached
      BY <2>2 DEF Reached
    <2> QED
      BY <1>4, <1>5, <2>3
  <1> QED
    BY <1>5, <1>6

\* A function takes finitely many arguments to finitely many values.
LEMMA FiniteImage ==
    ASSUME NEW f, IsFiniteSet(DOMAIN f)
    PROVE  IsFiniteSet({f[x] : x \in DOMAIN f})
  <1> DEFINE T == {f[x] : x \in DOMAIN f}
             g == [x \in DOMAIN f |-> f[x]]
  <1>1. g \in Surjection(DOMAIN f, T)
    BY DEF Surjection
  <1> HIDE DEF T, g
  <1>2. IsFiniteSet(T)
    BY <1>1, FS_Surjection
  <1> QED
    BY <1>2 DEF T

\* Of names that are finitely many or of bounded length one is the longest, and
\* Longest is such a one.
LEMMA LongestIs ==
    ASSUME NEW zs, zs # {}, \A z \in zs : Len(z) \in Nat,
           IsFiniteSet(zs) \/ \E b \in Nat : \A z \in zs : Len(z) <= b
    PROVE  Longest(zs) \in zs /\ \A y \in zs : Len(y) <= Len(Longest(zs))
  <1> DEFINE lens == {Len(z) : z \in zs}
  <1>1. lens # {} /\ lens \subseteq Nat
    OBVIOUS
  <1>2. ASSUME IsFiniteSet(zs)
        PROVE  IsFiniteSet(lens)
    <2> DEFINE f == [z \in zs |-> Len(z)]
    <2>1. IsFiniteSet({f[z] : z \in DOMAIN f})
      <3> HIDE DEF f
      <3>1. IsFiniteSet(DOMAIN f)
        BY <1>2 DEF f
      <3> QED
        BY <3>1, FiniteImage
    <2>2. {f[z] : z \in DOMAIN f} = lens
      OBVIOUS
    <2> QED
      BY <2>1, <2>2
  <1>3. ASSUME NEW b \in Nat, \A z \in zs : Len(z) <= b
        PROVE  IsFiniteSet(lens)
    <2>1. lens \in SUBSET (0..b) /\ IsFiniteSet(0..b)
      BY <1>3, FS_Interval
    <2> HIDE DEF lens
    <2> QED
      BY <2>1, FS_Subset
  <1>4. IsFiniteSet(lens)
    BY <1>2, <1>3
  <1> HIDE DEF lens
  <1>5. PICK l \in lens : \A k \in lens : k <= l
    BY <1>1, <1>4, LargestExists
  <1>6. \E z \in zs : \A y \in zs : Len(y) <= Len(z)
    BY <1>5 DEF lens
  <1> QED
    BY <1>6 DEF Longest

-----------------------------------------------------------------------------
(* What is computed by recursion *)

\* Some function gives x and what N steps in a row make of it.
HasIterates(N, V, x, F) ==
    \E g \in [0..N -> V] : g[0] = x /\ \A k \in 1..N : g[k] = F[k][g[k - 1]]

\* Every step F[k] that stays in V can be repeated up to a bound.
LEMMA RecursionExists ==
    ASSUME NEW N \in Nat, NEW V, NEW x \in V, NEW F \in [1..N -> [V -> V]]
    PROVE  HasIterates(N, V, x, F)
  <1> DEFINE Follows(g, n) == g[0] = x /\ \A k \in 1..n : g[k] = F[k][g[k - 1]]
             T == {n \in 0..N : \E g \in [0..n -> V] : Follows(g, n)}
  <1>1. 0 \in T
    <2> DEFINE g == [k \in 0..0 |-> x]
    <2>1. g \in [0..0 -> V] /\ Follows(g, 0)
      OBVIOUS
    <2> HIDE DEF g, Follows
    <2>2. \E h \in [0..0 -> V] : Follows(h, 0)
      BY <2>1
    <2> QED
      BY <2>2
  <1>2. ASSUME NEW n \in 0..N, n < N, n \in T
        PROVE  n + 1 \in T
    <2>1. PICK g \in [0..n -> V] : Follows(g, n)
      BY <1>2
    <2>2. n \in Nat /\ n + 1 \in 1..N /\ n + 1 \in 0..N
      BY <1>2
    <2>3. g[n] \in V /\ F[n + 1][g[n]] \in V
      BY <2>1, <2>2
    <2> DEFINE h == [k \in 0..(n + 1) |-> IF k = n + 1 THEN F[n + 1][g[n]] ELSE g[k]]
    <2>4. h \in [0..(n + 1) -> V] /\ h[0] = x
      BY <2>1, <2>2, <2>3
    <2>5. ASSUME NEW k \in 1..(n + 1)
          PROVE  h[k] = F[k][h[k - 1]]
      <3>1. k - 1 \in 0..(n + 1) /\ k - 1 # n + 1 /\ k \in 0..(n + 1)
        BY <2>2
      <3>2. h[k - 1] = g[k - 1]
        BY <3>1
      <3>3. CASE k = n + 1
        <4>1. k - 1 = n
          BY <2>2, <3>3
        <4> QED
          BY <3>1, <3>2, <3>3, <4>1
      <3>4. CASE k # n + 1
        <4>1. k \in 1..n
          BY <2>2, <3>4
        <4> QED
          BY <2>1, <3>1, <3>2, <3>4, <4>1
      <3> QED
        BY <3>3, <3>4
    <2> HIDE DEF h
    <2>6. Follows(h, n + 1)
      BY <2>4, <2>5
    <2> HIDE DEF Follows
    <2> QED
      BY <2>2, <2>4, <2>6
  <1> HIDE DEF T
  <1>3. 0..N \subseteq T
    BY <1>1, <1>2, Reaches
  <1>4. N \in 0..N
    OBVIOUS
  <1> QED
    BY <1>3, <1>4 DEF T, HasIterates

\* Those, step by step.
ThoseSteps(s, S, kept) ==
    /\ kept[0] = <<>>
    /\ \A k \in 1..Len(s) :
          kept[k] = IF s[k] \in S THEN Append(kept[k - 1], s[k]) ELSE kept[k - 1]
    /\ Those(s, S) = kept[Len(s)]

LEMMA ThoseHasSteps ==
    ASSUME NEW U, NEW s \in Seq(U), NEW S
    PROVE  \E kept : ThoseSteps(s, S, kept)
  <1> DEFINE N == Len(s)
             F == [k \in 1..N |-> [v \in Seq(U) |->
                    IF s[k] \in S THEN Append(v, s[k]) ELSE v]]
             Def(g) == g = [k \in 0..N |->
                    IF k = 0 THEN <<>>
                    ELSE IF s[k] \in S THEN Append(g[k - 1], s[k]) ELSE g[k - 1]]
             kept == CHOOSE g : Def(g)
  <1>1. N \in Nat /\ \A k \in 1..N : s[k] \in U
    OBVIOUS
  <1>2. \E g : Def(g)
    <2>1. <<>> \in Seq(U)
      OBVIOUS
    <2>2. F \in [1..N -> [Seq(U) -> Seq(U)]]
      BY <1>1
    <2> HIDE DEF F
    <2>3. HasIterates(N, Seq(U), <<>>, F)
      BY <1>1, <2>1, <2>2, RecursionExists
    <2>4. PICK g \in [0..N -> Seq(U)] :
                g[0] = <<>> /\ \A k \in 1..N : g[k] = F[k][g[k - 1]]
      BY <2>3 DEF HasIterates
    <2>5. ASSUME NEW k \in 0..N, k # 0
          PROVE  g[k] = IF s[k] \in S THEN Append(g[k - 1], s[k]) ELSE g[k - 1]
      <3>1. k \in 1..N /\ k - 1 \in 0..N
        BY <1>1, <2>5
      <3>2. g[k - 1] \in Seq(U)
        BY <3>1
      <3> QED
        BY <2>4, <3>1, <3>2 DEF F
    <2>6. Def(g)
      BY <2>4, <2>5
    <2> QED
      BY <2>6
  <1>3. Def(kept)
    <2> HIDE DEF Def
    <2> QED
      BY <1>2
  <1>4. Those(s, S) = kept[N]
    BY DEF Those, kept
  <1> HIDE DEF kept
  <1>5. kept[0] = <<>>
    BY <1>1, <1>3
  <1>6. ASSUME NEW k \in 1..N
        PROVE  kept[k] = IF s[k] \in S THEN Append(kept[k - 1], s[k]) ELSE kept[k - 1]
    <2>1. k \in 0..N /\ k # 0
      BY <1>1
    <2> QED
      BY <1>3, <2>1
  <1>7. ThoseSteps(s, S, kept)
    BY <1>4, <1>5, <1>6 DEF ThoseSteps
  <1> QED
    BY <1>7

\* Those keeps what is in S and nothing else.
LEMMA ThoseAre ==
    ASSUME NEW U, NEW s \in Seq(U), NEW S
    PROVE  Those(s, S) \in Seq(U) /\ ToSet(Those(s, S)) = ToSet(s) \cap S
  <1> DEFINE N == Len(s)
             First(k) == {s[i] : i \in 1..k} \cap S
  <1>1. N \in Nat /\ \A k \in 1..N : s[k] \in U
    OBVIOUS
  <1>2. PICK kept : ThoseSteps(s, S, kept)
    BY ThoseHasSteps
  <1> DEFINE T == {k \in 0..N : kept[k] \in Seq(U) /\ ToSet(kept[k]) = First(k)}
  <1>3. 0 \in T
    <2>1. kept[0] = <<>>
      BY <1>2 DEF ThoseSteps
    <2>2. First(0) = {} /\ ToSet(<<>>) = {} /\ <<>> \in Seq(U) /\ 0 \in 0..N
      BY <1>1 DEF ToSet
    <2> HIDE DEF First
    <2> QED
      BY <2>1, <2>2
  <1>4. ASSUME NEW n \in 0..N, n < N, n \in T
        PROVE  n + 1 \in T
    <2>1. n + 1 \in 0..N /\ n + 1 # 0 /\ n + 1 \in 1..N /\ (n + 1) - 1 = n /\ n \in Nat
      BY <1>1, <1>4
    <2>2. kept[n + 1] = IF s[n + 1] \in S THEN Append(kept[n], s[n + 1]) ELSE kept[n]
      BY <1>2, <2>1 DEF ThoseSteps
    <2>3. 1..(n + 1) = (1..n) \cup {n + 1}
      BY <2>1
    <2>4. First(n + 1) = First(n) \cup ({s[n + 1]} \cap S)
      BY <2>3
    <2>5. CASE s[n + 1] \in S
      <3>1. kept[n] \in Seq(U) /\ s[n + 1] \in U
        BY <1>1, <1>4, <2>1
      <3>2. ToSet(Append(kept[n], s[n + 1])) = ToSet(kept[n]) \cup {s[n + 1]}
        <4> DEFINE v == kept[n]
        <4>1. v \in Seq(U) /\ s[n + 1] \in U
          BY <3>1
        <4> HIDE DEF v
        <4>2. /\ Len(v) \in Nat
              /\ DOMAIN Append(v, s[n + 1]) = 1..(Len(v) + 1)
              /\ DOMAIN v = 1..Len(v)
              /\ \A i \in 1..Len(v) : Append(v, s[n + 1])[i] = v[i]
              /\ Append(v, s[n + 1])[Len(v) + 1] = s[n + 1]
          BY <4>1
        <4>3. 1..(Len(v) + 1) = (1..Len(v)) \cup {Len(v) + 1}
          BY <4>2
        <4>4. ToSet(Append(v, s[n + 1])) = ToSet(v) \cup {s[n + 1]}
          BY <4>2, <4>3 DEF ToSet
        <4> QED
          BY <4>4 DEF v
      <3>3. Append(kept[n], s[n + 1]) \in Seq(U)
        BY <3>1
      <3> QED
        BY <1>4, <2>1, <2>2, <2>4, <2>5, <3>2, <3>3
    <2>6. CASE s[n + 1] \notin S
      BY <1>4, <2>1, <2>2, <2>4, <2>6
    <2> QED
      BY <2>5, <2>6
  <1> HIDE DEF T
  <1>5. N \in T
    <2>1. 0..N \subseteq T
      BY <1>1, <1>3, <1>4, Reaches
    <2> QED
      BY <1>1, <2>1
  <1>6. Those(s, S) = kept[N]
    BY <1>2 DEF ThoseSteps
  <1>7. First(N) = ToSet(s) \cap S
    BY <1>1 DEF ToSet
  <1> QED
    BY <1>5, <1>6, <1>7 DEF T

\* Appending joins the elements.
LEMMA JoinedAre ==
    ASSUME NEW U, NEW s \in Seq(U), NEW t \in Seq(U)
    PROVE  s \o t \in Seq(U) /\ ToSet(s \o t) = ToSet(s) \cup ToSet(t)
  <1>1. /\ Len(s) \in Nat /\ Len(t) \in Nat
        /\ DOMAIN s = 1..Len(s) /\ DOMAIN t = 1..Len(t)
        /\ DOMAIN (s \o t) = 1..(Len(s) + Len(t))
        /\ \A i \in 1..Len(s) : (s \o t)[i] = s[i]
        /\ \A i \in 1..Len(t) : (s \o t)[i + Len(s)] = t[i]
    OBVIOUS
  <1>2. s \o t \in Seq(U)
    OBVIOUS
  <1>3. ASSUME NEW e \in ToSet(s \o t)
        PROVE  e \in ToSet(s) \cup ToSet(t)
    <2>1. PICK i \in 1..(Len(s) + Len(t)) : e = (s \o t)[i]
      BY <1>1 DEF ToSet
    <2>2. CASE i \in 1..Len(s)
      BY <1>1, <2>1, <2>2 DEF ToSet
    <2>3. CASE i \notin 1..Len(s)
      <3>1. i - Len(s) \in 1..Len(t) /\ (i - Len(s)) + Len(s) = i
        BY <1>1, <2>1, <2>3
      <3>2. e = t[i - Len(s)]
        BY <1>1, <2>1, <3>1
      <3> QED
        BY <1>1, <3>1, <3>2 DEF ToSet
    <2> QED
      BY <2>2, <2>3
  <1>4. ASSUME NEW e \in ToSet(s)
        PROVE  e \in ToSet(s \o t)
    <2>1. PICK i \in 1..Len(s) : e = s[i]
      BY <1>1 DEF ToSet
    <2>2. i \in 1..(Len(s) + Len(t)) /\ e = (s \o t)[i]
      BY <1>1, <2>1
    <2> QED
      BY <1>1, <2>2 DEF ToSet
  <1>5. ASSUME NEW e \in ToSet(t)
        PROVE  e \in ToSet(s \o t)
    <2>1. PICK i \in 1..Len(t) : e = t[i]
      BY <1>1 DEF ToSet
    <2>2. i + Len(s) \in 1..(Len(s) + Len(t)) /\ e = (s \o t)[i + Len(s)]
      BY <1>1, <2>1
    <2> QED
      BY <1>1, <2>2 DEF ToSet
  <1> QED
    BY <1>2, <1>3, <1>4, <1>5

\* FlattenSeq, step by step.
FlattenSteps(parts, flatten) ==
    /\ flatten[1] = parts[1]
    /\ \A k \in 1..(Len(parts) - 1) : flatten[k + 1] = flatten[k] \o parts[k + 1]
    /\ FlattenSeq(parts) = flatten[Len(parts)]

LEMMA FlattenHasSteps ==
    ASSUME NEW U, NEW parts \in Seq(Seq(U)), parts # <<>>
    PROVE  \E flatten : FlattenSteps(parts, flatten)
  <1> DEFINE N == Len(parts)
             M == N - 1
             Def(g) == g = [i \in 1..N |->
                            IF i = 1 THEN parts[i] ELSE g[i - 1] \o parts[i]]
             flatten == CHOOSE g : Def(g)
  <1>1. N \in Nat /\ DOMAIN parts = 1..N /\ \A i \in 1..N : parts[i] \in Seq(U)
    OBVIOUS
  <1>2. N # 0 /\ M \in Nat /\ 1 \in 1..N
    BY <1>1
  <1>3. \E g : Def(g)
    <2> DEFINE F == [k \in 1..M |-> [v \in Seq(U) |-> v \o parts[k + 1]]]
    <2>1. F \in [1..M -> [Seq(U) -> Seq(U)]]
      <3>1. ASSUME NEW k \in 1..M, NEW v \in Seq(U) PROVE v \o parts[k + 1] \in Seq(U)
        <4>1. k + 1 \in 1..N
          BY <1>1
        <4>2. parts[k + 1] \in Seq(U)
          BY <1>1, <4>1
        <4> QED
          BY <4>2
      <3> QED
        BY <3>1
    <2>2. parts[1] \in Seq(U)
      BY <1>1, <1>2
    <2> HIDE DEF F
    <2>3. HasIterates(M, Seq(U), parts[1], F)
      BY <1>2, <2>1, <2>2, RecursionExists
    <2>4. PICK g \in [0..M -> Seq(U)] :
            g[0] = parts[1] /\ \A k \in 1..M : g[k] = F[k][g[k - 1]]
      BY <2>3 DEF HasIterates
    <2> DEFINE h == [i \in 1..N |-> g[i - 1]]
    <2>5. ASSUME NEW i \in 1..N, i # 1
          PROVE  h[i] = h[i - 1] \o parts[i]
      <3>1. /\ i - 1 \in 1..M /\ (i - 1) + 1 = i /\ i - 1 \in 1..N
            /\ (i - 1) - 1 \in 0..M
        BY <1>1, <2>5
      <3>2. g[(i - 1) - 1] \in Seq(U)
        BY <3>1
      <3>3. g[i - 1] = g[(i - 1) - 1] \o parts[i]
        BY <2>4, <3>1, <3>2 DEF F
      <3>4. h[i] = g[i - 1] /\ h[i - 1] = g[(i - 1) - 1]
        BY <3>1
      <3> QED
        BY <3>3, <3>4
    <2>6. h[1] = parts[1]
      <3>1. h[1] = g[1 - 1] /\ 1 - 1 = 0
        BY <1>2
      <3> QED
        BY <2>4, <3>1
    <2>7. h = [i \in 1..N |-> h[i]]
      OBVIOUS
    <2> HIDE DEF h
    <2>8. Def(h)
      BY <2>5, <2>6, <2>7
    <2> QED
      BY <2>8
  <1>4. Def(flatten)
    <2> HIDE DEF Def
    <2> QED
      BY <1>3
  <1>5. FlattenSeq(parts) = flatten[N]
    BY <1>2 DEF FlattenSeq, flatten
  <1> HIDE DEF flatten
  <1>6. flatten[1] = parts[1]
    BY <1>2, <1>4
  <1>7. ASSUME NEW k \in 1..M
        PROVE  flatten[k + 1] = flatten[k] \o parts[k + 1]
    <2>1. k + 1 \in 1..N /\ k + 1 # 1 /\ (k + 1) - 1 = k
      BY <1>1
    <2> QED
      BY <1>4, <2>1
  <1>8. FlattenSteps(parts, flatten)
    BY <1>5, <1>6, <1>7 DEF FlattenSteps
  <1> QED
    BY <1>8

\* FlattenSeq joins its parts.
LEMMA FlattenIs ==
    ASSUME NEW U, NEW parts \in Seq(Seq(U))
    PROVE  /\ FlattenSeq(parts) \in Seq(U)
           /\ ToSet(FlattenSeq(parts)) = UNION {ToSet(parts[i]) : i \in DOMAIN parts}
  <1> DEFINE N == Len(parts)
  <1>1. N \in Nat /\ DOMAIN parts = 1..N /\ \A i \in 1..N : parts[i] \in Seq(U)
    OBVIOUS
  <1>2. CASE N = 0
    <2>1. FlattenSeq(parts) = <<>> /\ DOMAIN parts = {}
      BY <1>1, <1>2 DEF FlattenSeq
    <2>2. ToSet(<<>>) = {} /\ <<>> \in Seq(U)
      BY DEF ToSet
    <2> QED
      BY <2>1, <2>2
  <1>3. CASE N # 0
    <2> DEFINE First(k) == UNION {ToSet(parts[i]) : i \in 1..(k + 1)}
               M == N - 1
    <2>1. M \in Nat /\ 1 \in 1..N /\ parts # <<>>
      BY <1>1, <1>3
    <2>2. PICK flatten : FlattenSteps(parts, flatten)
      BY <2>1, FlattenHasSteps
    <2> DEFINE T == {k \in 0..M : /\ flatten[k + 1] \in Seq(U)
                                  /\ ToSet(flatten[k + 1]) = First(k)}
    <2>3. 0 \in T
      <3>1. flatten[1] = parts[1] /\ 1 \in 1..N
        BY <2>1, <2>2 DEF FlattenSteps
      <3>2. First(0) = ToSet(parts[1]) /\ 0 + 1 = 1 /\ 0 \in 0..M /\ parts[1] \in Seq(U)
        BY <1>1, <2>1
      <3> HIDE DEF First
      <3> QED
        BY <3>1, <3>2
    <2>4. ASSUME NEW n \in 0..M, n < M, n \in T
          PROVE  n + 1 \in T
      <3>1. /\ n + 1 \in 0..M /\ (n + 1) + 1 \in 1..N
            /\ n + 1 \in 1..(N - 1) /\ n \in Nat
        BY <1>1, <2>1, <2>4
      <3>2. flatten[(n + 1) + 1] = flatten[n + 1] \o parts[(n + 1) + 1]
        BY <2>2, <2>4, <3>1 DEF FlattenSteps
      <3>3. flatten[n + 1] \in Seq(U) /\ parts[(n + 1) + 1] \in Seq(U)
        BY <1>1, <2>4, <3>1
      <3>4. 1..((n + 1) + 1) = (1..(n + 1)) \cup {(n + 1) + 1}
        BY <3>1
      <3>5. First(n + 1) = First(n) \cup ToSet(parts[(n + 1) + 1])
        BY <3>4
      <3>6. ToSet(flatten[n + 1]) = First(n)
        BY <2>4
      <3> HIDE DEF First
      <3> DEFINE s == flatten[n + 1]
                 t == parts[(n + 1) + 1]
      <3>7. s \in Seq(U) /\ t \in Seq(U)
        BY <3>3
      <3> HIDE DEF s, t
      <3>8. s \o t \in Seq(U) /\ ToSet(s \o t) = ToSet(s) \cup ToSet(t)
        BY <3>7, JoinedAre
      <3>9. /\ flatten[(n + 1) + 1] \in Seq(U)
            /\ ToSet(flatten[(n + 1) + 1]) = First(n + 1)
        BY <3>2, <3>5, <3>6, <3>8 DEF s, t
      <3> QED
        BY <3>1, <3>9
    <2>5. M \in T
      <3> HIDE DEF T
      <3>1. 0..M \subseteq T
        BY <2>1, <2>3, <2>4, Reaches
      <3>2. M \in 0..M
        BY <2>1
      <3> QED
        BY <3>1, <3>2
    <2>6. FlattenSeq(parts) = flatten[N]
      BY <2>2 DEF FlattenSteps
    <2>7. M + 1 = N
      BY <1>1
    <2> QED
      BY <1>1, <2>5, <2>6, <2>7
  <1> QED
    BY <1>2, <1>3

\* SetToSeq of a finite set holds its elements.
LEMMA SetToSeqIs ==
    ASSUME NEW S, IsFiniteSet(S)
    PROVE  SetToSeq(S) \in Seq(S) /\ ToSet(SetToSeq(S)) = S
  <1> DEFINE n == Cardinality(S)
             f == SetToSeq(S)
  <1>1. n \in Nat /\ ExistsBijection(1..n, S)
    BY FS_CardinalityType
  <1>2. \E g \in [1..n -> S] : IsInjective(g)
    BY <1>1 DEF ExistsBijection, Bijection, Injection
  <1>3. f \in [1..n -> S] /\ IsInjective(f)
    BY <1>2 DEF SetToSeq
  <1>4. f \in Injection(1..n, S)
    BY <1>3 DEF Injection
  <1>5. IsFiniteSet(1..n) /\ Cardinality(1..n) = n
    BY <1>1, FS_Interval
  <1> HIDE DEF f, n
  <1>6. f \in Surjection(1..n, S)
    BY <1>4, <1>5, FS_Injection DEF n
  <1>7. f \in Seq(S)
    BY <1>1, <1>3
  <1>8. ToSet(f) = S
    BY <1>3, <1>6 DEF Surjection, ToSet
  <1> QED
    BY <1>7, <1>8 DEF f

\* Following a name that leads to one that leads to itself ends there
\* (zone.answer).
LEMMA EndsThere ==
    ASSUME NEW F, NEW x, F[F[x]] = F[x], NEW k \in Nat
    PROVE  Iterate(F, x, k) = IF k = 0 THEN x ELSE F[x]
  <1> DEFINE Def(g) == g = [i \in 0..k |-> IF i = 0 THEN x ELSE F[g[i - 1]]]
             Ends(i) == IF i = 0 THEN x ELSE F[x]
             f == CHOOSE g : Def(g)
             T == {i \in 0..k : f[i] = Ends(i)}
  <1>1. \E g : Def(g)
    <2> DEFINE g == [i \in 0..k |-> Ends(i)]
    <2>1. \A i \in 0..k : i # 0 => F[g[i - 1]] = F[x]
      OBVIOUS
    <2>2. Def(g)
      BY <2>1
    <2> QED
      BY <2>2
  <1>2. Def(f)
    <2> HIDE DEF Def
    <2> QED
      BY <1>1
  <1> HIDE DEF f
  <1>3. 0 \in T
    BY <1>2
  <1>4. ASSUME NEW n \in 0..k, n < k, n \in T
        PROVE  n + 1 \in T
    <2>1. n + 1 \in 0..k /\ n + 1 # 0 /\ (n + 1) - 1 = n
      BY <1>4
    <2>2. f[n + 1] = F[f[n]]
      BY <1>2, <2>1
    <2> QED
      BY <1>4, <2>1, <2>2
  <1> HIDE DEF T
  <1>5. 0..k \subseteq T
    BY <1>3, <1>4, Reaches
  <1>6. k \in T
    BY <1>5
  <1>7. Iterate(F, x, k) = f[k]
    BY DEF Iterate, f
  <1> QED
    BY <1>6, <1>7 DEF T

\* A name that leads to itself is where following it ends.
LEMMA StaysThere ==
    ASSUME NEW F, NEW x, F[x] = x, NEW k \in Nat
    PROVE  Iterate(F, x, k) = x
  BY EndsThere

-----------------------------------------------------------------------------
(* Names *)

LEMMA SeqFacts ==
    ASSUME NEW n, IsSeq(n)
    PROVE  Len(n) \in Nat /\ DOMAIN n = 1..Len(n) /\ n = [i \in 1..Len(n) |-> n[i]]
  BY DEF IsSeq

\* What is given per position is a sequence.
LEMMA FunIsSeq ==
    ASSUME NEW k \in Nat, NEW f, f = [i \in 1..k |-> f[i]]
    PROVE  IsSeq(f) /\ Len(f) = k /\ DOMAIN f = 1..k
  <1>1. DOMAIN f = 1..k /\ \A i \in 1..k : f[i] \in ToSet(f)
    BY DEF ToSet
  <1>2. f \in [1..k -> ToSet(f)]
    BY <1>1
  <1>3. f \in Seq(ToSet(f)) /\ Len(f) = k
    BY <1>2
  <1> QED
    BY <1>1, <1>3 DEF IsSeq

\* A sequence of elements of any set is one.
LEMMA AnySeq ==
    ASSUME NEW U, NEW s \in Seq(U)
    PROVE  IsSeq(s) /\ ToSet(s) \subseteq U
  <1>1. Len(s) \in Nat /\ s = [i \in 1..Len(s) |-> s[i]] /\ \A i \in 1..Len(s) : s[i] \in U
    OBVIOUS
  <1>2. DOMAIN s = 1..Len(s)
    OBVIOUS
  <1> QED
    BY <1>1, <1>2, FunIsSeq DEF ToSet

LEMMA SubSeqIs ==
    ASSUME NEW n, IsSeq(n), NEW a \in 1..(Len(n) + 1), NEW b \in 0..Len(n), a <= b + 1
    PROVE  /\ IsSeq(SubSeq(n, a, b)) /\ Len(SubSeq(n, a, b)) = b - a + 1
           /\ \A i \in 1..(b - a + 1) : SubSeq(n, a, b)[i] = n[a + i - 1]
  <1>1. n \in Seq(ToSet(n)) /\ Len(n) \in Nat /\ b - a + 1 \in Nat
    BY DEF IsSeq
  <1>2. \A i \in 1..(b - a + 1) : a + i - 1 \in 1..Len(n)
    BY <1>1
  <1>3. /\ SubSeq(n, a, b) = [i \in 1..(b - a + 1) |-> n[a + i - 1]]
    BY <1>1
  <1> DEFINE f == SubSeq(n, a, b)
  <1>4. f = [i \in 1..(b - a + 1) |-> f[i]]
    BY <1>3
  <1> HIDE DEF f
  <1>5. IsSeq(f) /\ Len(f) = b - a + 1
    BY <1>1, <1>4, FunIsSeq
  <1> QED
    BY <1>3, <1>5 DEF f

LEMMA ReverseIs ==
    ASSUME NEW n, IsSeq(n)
    PROVE  /\ IsSeq(Reverse(n)) /\ Len(Reverse(n)) = Len(n)
           /\ \A i \in 1..Len(n) : Reverse(n)[i] = n[Len(n) - i + 1]
  <1>1. Len(n) \in Nat
    BY SeqFacts
  <1> DEFINE f == Reverse(n)
  <1>2. f = [i \in 1..Len(n) |-> n[Len(n) - i + 1]]
    BY <1>1 DEF Reverse
  <1>3. f = [i \in 1..Len(n) |-> f[i]]
    BY <1>2
  <1> HIDE DEF f
  <1>4. IsSeq(f) /\ Len(f) = Len(n)
    BY <1>1, <1>3, FunIsSeq
  <1> QED
    BY <1>2, <1>4 DEF f

LEMMA PrefixIs ==
    ASSUME NEW p, IsSeq(p), NEW n, IsSeq(n)
    PROVE  IsPrefix(p, n) <=> Len(p) <= Len(n) /\ \A i \in 1..Len(p) : p[i] = n[i]
  <1>1. Len(p) \in Nat /\ Len(n) \in Nat
    BY SeqFacts
  <1>2. SubSeq(p, 1, Len(p)) = [i \in 1..Len(p) |-> p[i]]
    BY <1>1 DEF IsSeq
  <1>3. Len(p) <= Len(n) => SubSeq(n, 1, Len(p)) = [i \in 1..Len(p) |-> n[i]]
    BY <1>1 DEF IsSeq
  <1> QED
    BY <1>1, <1>2, <1>3 DEF IsPrefix

\* A name below a zone ends with the zone's labels.
LEMMA SuffixIs ==
    ASSUME NEW z, IsSeq(z), NEW n, IsSeq(n)
    PROVE  IsSuffix(z, n) <=>
              Len(z) <= Len(n) /\ \A i \in 1..Len(z) : z[i] = n[Len(n) - Len(z) + i]
  <1>1. Len(z) \in Nat /\ Len(n) \in Nat
    BY SeqFacts
  <1>2. /\ IsSeq(Reverse(z)) /\ Len(Reverse(z)) = Len(z)
        /\ \A i \in 1..Len(z) : Reverse(z)[i] = z[Len(z) - i + 1]
        /\ IsSeq(Reverse(n)) /\ Len(Reverse(n)) = Len(n)
        /\ \A i \in 1..Len(n) : Reverse(n)[i] = n[Len(n) - i + 1]
    BY ReverseIs
  <1>3. IsSuffix(z, n) <=>
            Len(z) <= Len(n) /\ \A i \in 1..Len(z) : Reverse(z)[i] = Reverse(n)[i]
    BY <1>2, PrefixIs DEF IsSuffix
  <1>4. ASSUME Len(z) <= Len(n), \A i \in 1..Len(z) : Reverse(z)[i] = Reverse(n)[i],
               NEW i \in 1..Len(z)
        PROVE  z[i] = n[Len(n) - Len(z) + i]
    <2>1. /\ Len(z) - i + 1 \in 1..Len(z) /\ Len(z) - i + 1 \in 1..Len(n)
          /\ Len(z) - (Len(z) - i + 1) + 1 = i
          /\ Len(n) - (Len(z) - i + 1) + 1 = Len(n) - Len(z) + i
      BY <1>1, <1>4
    <2> QED
      BY <1>2, <1>4, <2>1
  <1>5. ASSUME Len(z) <= Len(n), \A i \in 1..Len(z) : z[i] = n[Len(n) - Len(z) + i],
               NEW i \in 1..Len(z)
        PROVE  Reverse(z)[i] = Reverse(n)[i]
    <2>1. /\ Len(z) - i + 1 \in 1..Len(z) /\ i \in 1..Len(n)
          /\ Len(n) - Len(z) + (Len(z) - i + 1) = Len(n) - i + 1
      BY <1>1, <1>5
    <2> QED
      BY <1>2, <1>5, <2>1
  <1> QED
    BY <1>3, <1>4, <1>5

\* Of the zones over a name one only has a given length.
LEMMA SuffixesAgree ==
    ASSUME NEW n, IsSeq(n), NEW y, IsSeq(y), NEW z, IsSeq(z),
           IsSuffix(y, n), IsSuffix(z, n), Len(y) = Len(z)
    PROVE  y = z
  <1>1. \A i \in 1..Len(z) : y[i] = z[i]
    BY SuffixIs
  <1> QED
    BY <1>1, SeqFacts

\* What is in a zone and ends a name, ends the longer names over it too.
LEMMA SuffixNests ==
    ASSUME NEW n, IsSeq(n), NEW t, IsSeq(t), NEW y, IsSeq(y), NEW z, IsSeq(z),
           IsSuffix(t, y), IsSuffix(y, n), IsSuffix(z, n), Len(y) <= Len(z)
    PROVE  IsSuffix(t, z)
  <1>1. /\ Len(n) \in Nat /\ Len(t) \in Nat /\ Len(y) \in Nat /\ Len(z) \in Nat
        /\ Len(t) <= Len(y) /\ Len(y) <= Len(n) /\ Len(z) <= Len(n)
    BY SeqFacts, SuffixIs
  <1>2. /\ \A i \in 1..Len(t) : t[i] = y[Len(y) - Len(t) + i]
        /\ \A i \in 1..Len(y) : y[i] = n[Len(n) - Len(y) + i]
        /\ \A i \in 1..Len(z) : z[i] = n[Len(n) - Len(z) + i]
    BY SuffixIs
  <1>3. \A i \in 1..Len(t) : t[i] = z[Len(z) - Len(t) + i]
    <2> SUFFICES ASSUME NEW i \in 1..Len(t)
                 PROVE  t[i] = z[Len(z) - Len(t) + i]
      OBVIOUS
    <2> DEFINE j == Len(y) - Len(t) + i
               k == Len(z) - Len(t) + i
    <2>1. /\ j \in 1..Len(y) /\ k \in 1..Len(z)
          /\ Len(n) - Len(y) + j = Len(n) - Len(z) + k
      BY <1>1
    <2>2. t[i] = y[j]
      BY <1>2
    <2> HIDE DEF j, k
    <2>3. y[j] = n[Len(n) - Len(y) + j] /\ z[k] = n[Len(n) - Len(z) + k]
      BY <1>2, <2>1
    <2>4. t[i] = z[k]
      BY <2>1, <2>2, <2>3
    <2> QED
      BY <2>4 DEF k
  <1> QED
    BY <1>1, <1>3, SuffixIs

LEMMA NameTypes ==
    ASSUME NEW n, IsSeq(n)
    PROVE  IsSeq(TrimDot(n)) /\ IsSeq(Lower(n)) /\ IsSeq(Key(n))
  <1>1. ASSUME NEW m, IsSeq(m)
        PROVE  IsSeq(Lower(m))
    <2> DEFINE f == Lower(m)
    <2>1. f = [i \in 1..Len(m) |-> f[i]] /\ Len(m) \in Nat
      BY <1>1, SeqFacts DEF Lower
    <2> HIDE DEF f
    <2>2. IsSeq(f)
      BY <2>1, FunIsSeq
    <2> QED
      BY <2>2 DEF f
  <1>2. IsSeq(TrimDot(n))
    <2>1. CASE n = NoName
      BY <2>1 DEF TrimDot
    <2>2. CASE n # NoName
      <3>1. Len(n) \in Nat /\ Len(n) # 0
        BY <2>2 DEF IsSeq, NoName
      <3>2. IsSeq(SubSeq(n, 1, Len(n) - 1))
        BY <3>1, SubSeqIs
      <3> QED
        BY <3>2 DEF TrimDot, Front
    <2> QED
      BY <2>1, <2>2
  <1> QED
    BY <1>1, <1>2 DEF Key

\* The last labels of a name that has enough of them.
LEMMA LastLabelsAre ==
    ASSUME NEW n, IsSeq(n), NEW k \in Nat, k <= Len(n)
    PROVE  /\ IsSeq(LastLabels(n, k)) /\ Len(LastLabels(n, k)) = k
           /\ k # 0 => Last(LastLabels(n, k)) = Last(n)
  <1>1. Len(n) \in Nat
    BY SeqFacts
  <1>2. CASE Len(n) <= k
    BY <1>1, <1>2 DEF LastLabels
  <1>3. CASE ~(Len(n) <= k)
    <2> DEFINE a == Len(n) - k + 1
               m == SubSeq(n, a, Len(n))
    <2>1. /\ a \in 1..(Len(n) + 1) /\ Len(n) \in 0..Len(n) /\ a <= Len(n) + 1
          /\ Len(n) - a + 1 = k /\ a + k - 1 = Len(n)
      BY <1>1, <1>3
    <2>2. /\ IsSeq(m) /\ Len(m) = k
          /\ \A i \in 1..k : m[i] = n[a + i - 1]
      <3> HIDE DEF a
      <3> QED
        BY <1>1, <2>1, SubSeqIs
    <2>3. k # 0 => m[k] = n[Len(n)]
      BY <2>1, <2>2
    <2>4. LastLabels(n, k) = m
      BY <1>3 DEF LastLabels
    <2> HIDE DEF m, a
    <2> QED
      BY <2>2, <2>3, <2>4 DEF Last
  <1> QED
    BY <1>2, <1>3

\* Whatever suffix names of two labels or more share, it ends as they do
\* (common-suffix).
LEMMA CommonSuffixIs ==
    ASSUME NEW names, IsSeq(names), names # <<>>, NEW tld,
           \A n \in ToSet(names) : IsSeq(n) /\ Len(n) >= 2 /\ Last(n) = tld
    PROVE  /\ IsSeq(CommonSuffix(names)) /\ Len(CommonSuffix(names)) >= 2
           /\ Last(CommonSuffix(names)) = tld
  <1> DEFINE all == ToSet(names)
             turned == {Reverse(n) : n \in all}
             p == LongestCommonPrefix(turned)
             common == Reverse(p)
             zone == IF Len(common) >= 2 THEN common ELSE LastLabels(names[1], 2)
  <1>1. names[1] \in all /\ IsSeq(names[1]) /\ Len(names[1]) >= 2 /\ Last(names[1]) = tld
    <2>1. Len(names) \in Nat /\ Len(names) # 0 /\ DOMAIN names = 1..Len(names)
      BY DEF IsSeq
    <2>2. 1 \in DOMAIN names
      BY <2>1
    <2>3. names[1] \in ToSet(names)
      BY <2>2 DEF ToSet
    <2> QED
      BY <2>3
  <1>2. \A t \in turned : IsSeq(t) /\ Len(t) >= 2 /\ t[1] = tld
    <2> SUFFICES ASSUME NEW n \in all
                 PROVE  /\ IsSeq(Reverse(n)) /\ Len(Reverse(n)) >= 2
                        /\ Reverse(n)[1] = tld
      OBVIOUS
    <2>1. IsSeq(n) /\ Len(n) \in Nat /\ Len(n) >= 2 /\ n[Len(n)] = tld
      BY SeqFacts DEF Last
    <2>2. 1 \in 1..Len(n) /\ Len(n) - 1 + 1 = Len(n)
      BY <2>1
    <2> QED
      BY <2>1, <2>2, ReverseIs
  <1>3. PICK t \in turned : TRUE
    BY <1>1
  <1> HIDE DEF turned
  <1>4. \A q \in CommonPrefixes(turned) :
            IsSeq(q) /\ Len(q) \in Nat /\ Len(q) <= Len(t) /\ IsPrefix(q, t)
    <2> SUFFICES ASSUME NEW q \in CommonPrefixes(turned)
                 PROVE  IsSeq(q) /\ Len(q) \in Nat /\ Len(q) <= Len(t) /\ IsPrefix(q, t)
      OBVIOUS
    <2>1. IsPrefix(q, t)
      BY DEF CommonPrefixes
    <2>2. PICK u \in turned : q \in Prefixes(u)
      BY DEF CommonPrefixes
    <2>3. PICK l \in 0..Len(u) : q = SubSeq(u, 1, l)
      BY <2>2 DEF Prefixes
    <2>4. IsSeq(u) /\ Len(u) \in Nat
      BY <1>2, SeqFacts
    <2>5. 1 \in 1..(Len(u) + 1) /\ 1 <= l + 1
      BY <2>4
    <2>6. IsSeq(q)
      BY <2>3, <2>4, <2>5, SubSeqIs
    <2>7. Len(q) \in Nat
      BY <2>6, SeqFacts
    <2> QED
      BY <2>1, <2>6, <2>7 DEF IsPrefix
  <1>5. CommonPrefixes(turned) # {}
    <2>1. IsSeq(<<>>) /\ Len(<<>>) = 0
      BY DEF IsSeq
    <2>2. \A u \in turned : IsPrefix(<<>>, u)
      <3> SUFFICES ASSUME NEW u \in turned PROVE IsPrefix(<<>>, u)
        OBVIOUS
      <3>1. IsSeq(u) /\ Len(u) \in Nat
        BY <1>2, SeqFacts
      <3> QED
        BY <2>1, <3>1, PrefixIs
    <2>3. SubSeq(t, 1, 0) = <<>>
      <3>1. t \in Seq(ToSet(t))
        BY <1>2 DEF IsSeq
      <3> QED
        BY <3>1
    <2>4. <<>> \in Prefixes(t)
      <3>1. Len(t) \in Nat
        BY <1>2, SeqFacts
      <3>2. 0 \in 0..Len(t)
        BY <3>1
      <3> QED
        BY <2>3, <3>2 DEF Prefixes
    <2> QED
      BY <2>2, <2>4 DEF CommonPrefixes
  <1>6. p \in CommonPrefixes(turned)
    <2>1. Len(t) \in Nat
      BY <1>2, SeqFacts
    <2>2. Longest(CommonPrefixes(turned)) \in CommonPrefixes(turned) /\
          \A q \in CommonPrefixes(turned) :
                Len(q) <= Len(Longest(CommonPrefixes(turned)))
      BY <1>4, <1>5, <2>1, LongestIs
    <2>3. \E longest \in CommonPrefixes(turned) :
              \A other \in CommonPrefixes(turned) : Len(other) <= Len(longest)
      BY <2>2
    <2> QED
      BY <2>3 DEF LongestCommonPrefix
  <1> HIDE DEF p
  <1>7. /\ IsSeq(p) /\ Len(p) \in Nat /\ IsPrefix(p, t)
        /\ IsSeq(common) /\ Len(common) = Len(p)
        /\ \A i \in 1..Len(p) : common[i] = p[Len(p) - i + 1]
    BY <1>4, <1>6, ReverseIs
  <1>8. Len(p) >= 2 => p[1] = tld
    <2>1. IsSeq(t) /\ t[1] = tld
      BY <1>2
    <2>2. Len(p) >= 2 => 1 \in 1..Len(p)
      BY <1>7
    <2> QED
      BY <1>7, <2>1, <2>2, PrefixIs
  <1>9. Len(common) >= 2 => Last(common) = tld
    <2> SUFFICES ASSUME Len(common) >= 2 PROVE common[Len(common)] = tld
      BY DEF Last
    <2>1. Len(p) \in 1..Len(p) /\ Len(p) - Len(p) + 1 = 1
      BY <1>7
    <2> QED
      BY <1>7, <1>8, <2>1
  <1> HIDE DEF common
  <1>10. IsSeq(zone) /\ Len(zone) >= 2 /\ Last(zone) = tld
    <2>1. Len(names[1]) \in Nat /\ 2 \in Nat /\ 2 # 0
      BY <1>1, SeqFacts
    <2>2. /\ IsSeq(LastLabels(names[1], 2)) /\ Len(LastLabels(names[1], 2)) = 2
          /\ Last(LastLabels(names[1], 2)) = tld
      BY <1>1, <2>1, LastLabelsAre
    <2> QED
      BY <1>7, <1>9, <2>2
  <1>11. CommonSuffix(names) = IF all = {zone} THEN LastLabels(zone, 2) ELSE zone
    BY DEF CommonSuffix, common, p, turned
  <1> HIDE DEF zone
  <1>12. Len(zone) \in Nat /\ 2 \in Nat /\ 2 # 0
    BY <1>10, SeqFacts
  <1>13. /\ IsSeq(LastLabels(zone, 2)) /\ Len(LastLabels(zone, 2)) = 2
         /\ Last(LastLabels(zone, 2)) = tld
    BY <1>10, <1>12, LastLabelsAre
  <1> QED
    BY <1>10, <1>11, <1>12, <1>13

-----------------------------------------------------------------------------
(* Zone maps *)

LEMMA FiniteSeq ==
    ASSUME NEW s, IsSeq(s)
    PROVE  IsFiniteSet(DOMAIN s) /\ IsFiniteSet(ToSet(s))
  <1>1. Len(s) \in Nat /\ DOMAIN s = 1..Len(s)
    BY SeqFacts
  <1>2. IsFiniteSet(DOMAIN s)
    BY <1>1, FS_Interval
  <1> QED
    BY <1>2, FiniteImage DEF ToSet

LEMMA JoinIsSeq ==
    ASSUME NEW s, IsSeq(s), NEW t, IsSeq(t)
    PROVE  /\ IsSeq(s \o t) /\ ToSet(s \o t) = ToSet(s) \cup ToSet(t)
           /\ Len(s \o t) = Len(s) + Len(t)
  <1> DEFINE U == ToSet(s) \cup ToSet(t)
  <1>1. s \in Seq(U) /\ t \in Seq(U)
    <2>1. Len(s) \in Nat /\ Len(t) \in Nat /\ DOMAIN s = 1..Len(s) /\ DOMAIN t = 1..Len(t)
          /\ s = [i \in 1..Len(s) |-> s[i]] /\ t = [i \in 1..Len(t) |-> t[i]]
      BY SeqFacts
    <2>2. (\A i \in 1..Len(s) : s[i] \in U) /\ (\A i \in 1..Len(t) : t[i] \in U)
      BY <2>1 DEF ToSet
    <2> HIDE DEF U
    <2>3. s \in [1..Len(s) -> U] /\ t \in [1..Len(t) -> U]
      BY <2>1, <2>2
    <2> QED
      BY <2>1, <2>3
  <1> HIDE DEF U
  <1>2. s \o t \in Seq(U) /\ ToSet(s \o t) = ToSet(s) \cup ToSet(t)
    BY <1>1, JoinedAre
  <1>3. Len(s \o t) = Len(s) + Len(t)
    BY <1>1
  <1> QED
    BY <1>2, <1>3, AnySeq

LEMMA ThoseOf ==
    ASSUME NEW s, IsSeq(s), NEW S
    PROVE  IsSeq(Those(s, S)) /\ ToSet(Those(s, S)) = ToSet(s) \cap S
  <1>1. s \in Seq(ToSet(s))
    BY DEF IsSeq
  <1>2. Those(s, S) \in Seq(ToSet(s)) /\ ToSet(Those(s, S)) = ToSet(s) \cap S
    BY <1>1, ThoseAre
  <1> QED
    BY <1>2, AnySeq

\* Records, as long as their names are names.
NamedRecords(records) == IsSeq(records) /\ \A r \in ToSet(records) : IsSeq(r.name)

\* Finitely many zones, none without a name, each with some of the records.
Filed(zones, records) ==
    /\ IsFiniteSet(DOMAIN zones)
    /\ \A z \in DOMAIN zones :
         /\ z # NoZone /\ IsSeq(z)
         /\ IsSeq(zones[z]) /\ ToSet(zones[z]) \subseteq ToSet(records)

\* No record has its zone inside another zone over its name.
InDeepest(zones) ==
    \A z, y \in DOMAIN zones : \A r \in ToSet(zones[z]) :
        IsSuffix(y, TrimDot(r.name)) => Len(y) <= Len(z)

LEMMA GroupedIs ==
    ASSUME NEW records, NamedRecords(records), NEW zone, DOMAIN zone = ToSet(records),
           \A r \in ToSet(records) : IsSeq(zone[r]),
           \A r, q \in ToSet(records) :
                /\ zone[r] # NoZone /\ zone[q] # NoZone
                /\ IsSuffix(zone[q], TrimDot(r.name))
                => Len(zone[q]) <= Len(zone[r])
    PROVE  Filed(GroupBy(records, zone), records) /\ InDeepest(GroupBy(records, zone))
  <1> DEFINE G == GroupBy(records, zone)
             Of(z) == {r \in ToSet(records) : zone[r] = z}
  <1>1. DOMAIN G = {zone[r] : r \in ToSet(records)} \ {NoZone}
    BY DEF GroupBy
  <1>2. \A z \in DOMAIN G : G[z] = Those(records, Of(z))
    BY DEF GroupBy
  <1>3. IsSeq(records)
    BY DEF NamedRecords
  <1>4. \A z \in DOMAIN G : IsSeq(G[z]) /\ ToSet(G[z]) = Of(z)
    <2> HIDE DEF G
    <2> SUFFICES ASSUME NEW z \in DOMAIN G
                 PROVE  IsSeq(G[z]) /\ ToSet(G[z]) = Of(z)
      OBVIOUS
    <2>1. Of(z) \subseteq ToSet(records)
      OBVIOUS
    <2> HIDE DEF Of
    <2>2. IsSeq(Those(records, Of(z))) /\ ToSet(Those(records, Of(z))) = ToSet(records) \cap Of(z)
      BY <1>3, ThoseOf
    <2> QED
      BY <1>2, <2>1, <2>2
  <1>5. IsFiniteSet(DOMAIN G)
    <2>1. IsFiniteSet({zone[r] : r \in DOMAIN zone})
      BY <1>3, FiniteSeq, FiniteImage
    <2> HIDE DEF G
    <2>2. DOMAIN G \in SUBSET {zone[r] : r \in DOMAIN zone}
      BY <1>1
    <2> QED
      BY <2>1, <2>2, FS_Subset
  <1> HIDE DEF G
  <1>6. Filed(G, records)
    BY <1>1, <1>4, <1>5 DEF Filed
  <1>7. InDeepest(G)
    BY <1>1, <1>4 DEF InDeepest
  <1> QED
    BY <1>6, <1>7 DEF G

\* A way of discovering zones that the configuration can name.
IsMode(mode) ==
    /\ mode.by \in {"zone-depth", "netbox-dns", "common-suffix"}
    /\ mode.by = "zone-depth" => mode.depth \in Nat
    /\ mode.by = "netbox-dns" => \A z \in mode.zones : IsSeq(z)

\* zone-depth: all zones have the same depth.
LEMMA DepthIs ==
    ASSUME NEW records, NamedRecords(records), NEW depth \in Nat
    PROVE  Filed(ByDepth(depth, records), records) /\ InDeepest(ByDepth(depth, records))
  <1> DEFINE zone == [r \in ToSet(records) |->
                LET n == TrimDot(r.name)
                IN  IF Len(n) < depth THEN NoZone ELSE LastLabels(n, depth)]
  <1>1. ASSUME NEW r \in ToSet(records)
        PROVE  zone[r] = NoZone \/ (IsSeq(zone[r]) /\ Len(zone[r]) = depth)
    <2>1. IsSeq(TrimDot(r.name))
      BY NameTypes DEF NamedRecords
    <2>2. Len(TrimDot(r.name)) \in Nat
      BY <2>1, SeqFacts
    <2>3. CASE Len(TrimDot(r.name)) < depth
      BY <2>3
    <2>4. CASE ~(Len(TrimDot(r.name)) < depth)
      <3>1. depth <= Len(TrimDot(r.name))
        BY <2>2, <2>4
      <3>2. zone[r] = LastLabels(TrimDot(r.name), depth)
        BY <2>4
      <3> QED
        BY <2>1, <3>1, <3>2, LastLabelsAre
    <2> QED
      BY <2>3, <2>4
  <1>2. IsSeq(NoZone)
    BY DEF IsSeq, NoZone
  <1>3. DOMAIN zone = ToSet(records) /\ ByDepth(depth, records) = GroupBy(records, zone)
    BY DEF ByDepth
  <1> HIDE DEF zone
  <1>4. \A r \in ToSet(records) : IsSeq(zone[r])
    BY <1>1, <1>2
  <1>5. \A r, q \in ToSet(records) :
            zone[r] # NoZone /\ zone[q] # NoZone => Len(zone[q]) <= Len(zone[r])
    BY <1>1
  <1> QED
    BY <1>3, <1>4, <1>5, GroupedIs

\* netbox-dns: of the zones over a name the longest is taken.
LEMMA NetboxDNSIs ==
    ASSUME NEW records, NamedRecords(records), NEW zs, \A z \in zs : IsSeq(z)
    PROVE  Filed(ByNetboxDNS(zs, records), records) /\ InDeepest(ByNetboxDNS(zs, records))
  <1> DEFINE zone == [r \in ToSet(records) |-> LongestMatch(r.name, zs)]
             Match(n) == {z \in {TrimDot(z) : z \in zs} : InZone(TrimDot(n), z)}
  <1>1. ASSUME NEW r \in ToSet(records), zone[r] # NoZone
        PROVE  /\ zone[r] \in Match(r.name) /\ IsSeq(zone[r])
               /\ \A y \in Match(r.name) : Len(y) <= Len(zone[r])
    <2>1. IsSeq(TrimDot(r.name)) /\ Len(TrimDot(r.name)) \in Nat
      BY NameTypes, SeqFacts DEF NamedRecords
    <2>2. ASSUME NEW z \in Match(r.name)
          PROVE  IsSeq(z) /\ Len(z) \in Nat /\ Len(z) <= Len(TrimDot(r.name))
      <3>1. IsSeq(z)
        BY NameTypes
      <3>2. IsSuffix(z, TrimDot(r.name))
        BY DEF InZone
      <3> QED
        BY <2>1, <3>1, <3>2, SuffixIs, SeqFacts
    <2>3. zone[r] = IF Match(r.name) = {} THEN NoZone ELSE Longest(Match(r.name))
      BY DEF LongestMatch
    <2> DEFINE M == Match(r.name)
    <2>4. M # {} /\ zone[r] = Longest(M)
      BY <1>1, <2>3
    <2>5. \A z \in M : IsSeq(z) /\ Len(z) \in Nat /\ Len(z) <= Len(TrimDot(r.name))
      BY <2>2
    <2> HIDE DEF M
    <2>6. Longest(M) \in M /\ \A y \in M : Len(y) <= Len(Longest(M))
      BY <2>1, <2>4, <2>5, LongestIs
    <2> QED
      BY <2>4, <2>5, <2>6 DEF M
  <1>2. IsSeq(NoZone)
    BY DEF IsSeq, NoZone
  <1>3. DOMAIN zone = ToSet(records) /\ ByNetboxDNS(zs, records) = GroupBy(records, zone)
    BY DEF ByNetboxDNS
  <1> HIDE DEF zone
  <1>4. \A r \in ToSet(records) : IsSeq(zone[r])
    BY <1>1, <1>2
  <1>5. \A r, q \in ToSet(records) :
            /\ zone[r] # NoZone /\ zone[q] # NoZone
            /\ IsSuffix(zone[q], TrimDot(r.name))
            => Len(zone[q]) <= Len(zone[r])
    <2> SUFFICES ASSUME NEW r \in ToSet(records), NEW q \in ToSet(records),
                        zone[r] # NoZone, zone[q] # NoZone,
                        IsSuffix(zone[q], TrimDot(r.name))
                 PROVE  Len(zone[q]) <= Len(zone[r])
      OBVIOUS
    <2>1. zone[q] \in Match(r.name)
      BY <1>1 DEF InZone
    <2> QED
      BY <1>1, <2>1
  <1> QED
    BY <1>3, <1>4, <1>5, GroupedIs

\* common-suffix: a name lies in no zone of another top-level domain.
LEMMA SuffixZonesAre ==
    ASSUME NEW records, NamedRecords(records)
    PROVE  Filed(ByCommonSuffix(records), records) /\ InDeepest(ByCommonSuffix(records))
  <1> DEFINE names == [i \in DOMAIN records |-> TrimDot(records[i].name)]
             Under(tld) == {n \in ToSet(names) : Len(n) >= 2 /\ Last(n) = tld}
             Names(tld) == Those(names, Under(tld))
             zone == [r \in ToSet(records) |->
                LET n == TrimDot(r.name)
                IN  IF Len(n) < 2 THEN NoZone ELSE CommonSuffix(Names(Last(n)))]
  <1>1. IsSeq(records) /\ Len(records) \in Nat /\ DOMAIN records = 1..Len(records)
    BY SeqFacts DEF NamedRecords
  <1>2. IsSeq(names) /\ \A n \in ToSet(names) : IsSeq(n)
    <2>1. names = [i \in 1..Len(records) |-> names[i]]
      BY <1>1
    <2>2. \A i \in DOMAIN records : IsSeq(names[i])
      BY NameTypes DEF NamedRecords, ToSet
    <2>3. DOMAIN names = DOMAIN records
      OBVIOUS
    <2> HIDE DEF names
    <2> QED
      BY <1>1, <2>1, <2>2, <2>3, FunIsSeq DEF ToSet
  <1>3. \A r \in ToSet(records) : TrimDot(r.name) \in ToSet(names)
    <2> SUFFICES ASSUME NEW i \in DOMAIN records
                 PROVE  TrimDot(records[i].name) \in ToSet(names)
      BY DEF ToSet
    <2>1. i \in DOMAIN names /\ names[i] = TrimDot(records[i].name)
      OBVIOUS
    <2> HIDE DEF names
    <2> QED
      BY <2>1 DEF ToSet
  <1> HIDE DEF names
  <1>4. ASSUME NEW r \in ToSet(records), zone[r] # NoZone
        PROVE  /\ IsSeq(zone[r]) /\ Len(zone[r]) >= 2
               /\ Last(zone[r]) = Last(TrimDot(r.name))
               /\ zone[r] = CommonSuffix(Names(Last(TrimDot(r.name))))
    <2> DEFINE n == TrimDot(r.name)
               tld == Last(n)
               these == Names(tld)
    <2>1. n \in ToSet(names) /\ IsSeq(n) /\ Len(n) \in Nat
      BY <1>2, <1>3, SeqFacts
    <2>2. Len(n) >= 2 /\ zone[r] = CommonSuffix(these)
      BY <1>4, <2>1
    <2>3. Under(tld) \subseteq ToSet(names) /\ n \in Under(tld)
      BY <2>1, <2>2
    <2>4. \A m \in Under(tld) : IsSeq(m) /\ Len(m) >= 2 /\ Last(m) = tld
      BY <1>2
    <2>5. IsSeq(these) /\ ToSet(these) = Under(tld)
      <3> HIDE DEF Under, tld
      <3>1. /\ IsSeq(Those(names, Under(tld)))
            /\ ToSet(Those(names, Under(tld))) = ToSet(names) \cap Under(tld)
        BY <1>2, ThoseOf
      <3> QED
        BY <2>3, <3>1
    <2> HIDE DEF Under, n, tld, these
    <2>6. these # <<>>
      <3>1. ToSet(<<>>) = {}
        BY DEF ToSet
      <3> QED
        BY <2>3, <2>5, <3>1
    <2>7. IsSeq(CommonSuffix(these)) /\ Len(CommonSuffix(these)) >= 2
          /\ Last(CommonSuffix(these)) = tld
      BY <2>4, <2>5, <2>6, CommonSuffixIs
    <2> QED
      BY <2>2, <2>7 DEF these, tld, n
  <1>5. IsSeq(NoZone)
    BY DEF IsSeq, NoZone
  <1>6. DOMAIN zone = ToSet(records) /\ ByCommonSuffix(records) = GroupBy(records, zone)
    BY DEF ByCommonSuffix, names
  <1> HIDE DEF zone
  <1>7. \A r \in ToSet(records) : IsSeq(zone[r])
    BY <1>4, <1>5
  <1>8. \A r, q \in ToSet(records) :
            /\ zone[r] # NoZone /\ zone[q] # NoZone
            /\ IsSuffix(zone[q], TrimDot(r.name))
            => Len(zone[q]) <= Len(zone[r])
    <2> SUFFICES ASSUME NEW r \in ToSet(records), NEW q \in ToSet(records),
                        zone[r] # NoZone, zone[q] # NoZone,
                        IsSuffix(zone[q], TrimDot(r.name))
                 PROVE  Len(zone[q]) <= Len(zone[r])
      OBVIOUS
    <2> DEFINE n == TrimDot(r.name)
               y == zone[q]
    <2>1. IsSeq(n) /\ Len(n) \in Nat /\ IsSeq(y) /\ Len(y) \in Nat /\ Len(y) >= 2
      BY <1>2, <1>3, <1>4, SeqFacts
    <2>2. Last(y) = Last(n)
      <3>1. Len(y) \in 1..Len(y) /\ Len(n) - Len(y) + Len(y) = Len(n)
        BY <2>1
      <3>2. y[Len(y)] = n[Len(n) - Len(y) + Len(y)]
        <4>1. IsSuffix(y, n)
          OBVIOUS
        <4> HIDE DEF y, n
        <4>2. \A i \in 1..Len(y) : y[i] = n[Len(n) - Len(y) + i]
          BY <2>1, <4>1, SuffixIs
        <4> QED
          BY <3>1, <4>2
      <3> QED
        BY <3>1, <3>2 DEF Last
    <2>3. Last(y) = Last(TrimDot(q.name))
      BY <1>4
    <2>4. zone[q] = zone[r]
      BY <1>4, <2>2, <2>3
    <2> QED
      BY <2>1, <2>4
  <1> QED
    BY <1>6, <1>7, <1>8, GroupedIs

\* However zones are discovered, each record is filed in the deepest of them over
\* its name (discoverer.go).
LEMMA DiscoverIs ==
    ASSUME NEW mode, IsMode(mode), NEW records, NamedRecords(records)
    PROVE  Filed(Discover(mode, records), records) /\ InDeepest(Discover(mode, records))
  <1>1. CASE mode.by = "zone-depth"
    <2>1. Discover(mode, records) = ByDepth(mode.depth, records)
      BY <1>1 DEF Discover
    <2> QED
      BY <1>1, <2>1, DepthIs DEF IsMode
  <1>2. CASE mode.by = "netbox-dns"
    <2>1. Discover(mode, records) = ByNetboxDNS(mode.zones, records)
      BY <1>2 DEF Discover
    <2> QED
      BY <1>2, <2>1, NetboxDNSIs DEF IsMode
  <1>3. CASE mode.by = "common-suffix"
    <2>1. Discover(mode, records) = ByCommonSuffix(records)
      BY <1>3 DEF Discover
    <2> QED
      BY <2>1, SuffixZonesAre
  <1> QED
    BY <1>1, <1>2, <1>3 DEF IsMode

\* An address's reverse zone is the deepest configured over its name (reverseIPv4,
\* reverseIPv6).
LEMMA ReverseZoneIs ==
    ASSUME NEW a, ReverseZoneOf(a) # NoZone
    PROVE  /\ ReverseZoneOf(a) \in ReverseZones /\ InZone(ReverseName[a], ReverseZoneOf(a))
           /\ \A z \in ReverseZones :
                InZone(ReverseName[a], z) => Len(z) <= Len(ReverseZoneOf(a))
  <1> DEFINE match == {z \in ReverseZones : InZone(ReverseName[a], z)}
  <1>1. match # {} /\ ReverseZoneOf(a) = Longest(match)
    BY DEF ReverseZoneOf
  <1>2. match \in SUBSET ReverseZones
    OBVIOUS
  <1> HIDE DEF match
  <1>3. IsFiniteSet(match) /\ \A z \in match : Len(z) \in Nat
    BY <1>2, ZoneNamesAssumption, FS_Subset, SeqFacts
  <1>4. Longest(match) \in match /\ \A z \in match : Len(z) <= Len(Longest(match))
    BY <1>1, <1>3, LongestIs
  <1> QED
    BY <1>1, <1>4 DEF match

\* A reverse zone is written without a trailing dot.
LEMMA ReverseZoneHasNoDot ==
    ASSUME NEW z \in ReverseZones
    PROVE  TrimDot(z) = z
  <1> DEFINE v4 == << <<"in", "addr">>, <<"arpa">> >>
             v6 == << <<"ip6">>, <<"arpa">> >>
  <1>1. IsSeq(z) /\ Len(z) \in Nat
    BY ZoneNamesAssumption, SeqFacts
  <1>2. PICK t \in {v4, v6} : IsSuffix(t, z)
    BY ReverseAssumption DEF IsReverseZone, IsStrictSuffix
  <1>3. IsSeq(t) /\ Len(t) = 2 /\ t[2] = <<"arpa">>
    BY DEF IsSeq, ToSet
  <1>4. 2 <= Len(z) /\ \A i \in 1..2 : t[i] = z[Len(z) - 2 + i]
    BY <1>1, <1>2, <1>3, SuffixIs
  <1>5. z[Len(z)] = <<"arpa">>
    <2>1. t[2] = z[Len(z) - 2 + 2] /\ Len(z) - 2 + 2 = Len(z)
      BY <1>1, <1>4
    <2> QED
      BY <1>3, <2>1
  <1>6. z[Len(z)] # <<>>
    BY <1>5
  <1> QED
    BY <1>6 DEF TrimDot, Last

\* The label and the zone make the address's name (Discover's ptrName).
LEMMA PtrNameIs ==
    ASSUME NEW a \in DOMAIN ReverseName, ReverseZoneOf(a) # NoZone
    PROVE  PtrLabel(a) \o ReverseZoneOf(a) = ReverseName[a]
  <1> DEFINE n == ReverseName[a]
             z == ReverseZoneOf(a)
             k == Len(n) - Len(z)
  <1>1. IsSeq(n) /\ IsSeq(z) /\ IsSuffix(z, n)
    BY ReverseZoneIs, ZoneNamesAssumption DEF InZone
  <1>2. PtrLabel(a) = SubSeq(n, 1, k)
    BY DEF PtrLabel
  <1> HIDE DEF n, z
  <1>3. /\ Len(n) \in Nat /\ Len(z) \in Nat /\ Len(z) <= Len(n)
        /\ n \in Seq(ToSet(n)) /\ DOMAIN n = 1..Len(n) /\ DOMAIN z = 1..Len(z)
        /\ \A i \in 1..Len(z) : z[i] = n[k + i]
    BY <1>1, SuffixIs, SeqFacts DEF IsSeq
  <1>4. z \in Seq(ToSet(n))
    <2>1. \A i \in 1..Len(z) : z[i] \in ToSet(n)
      BY <1>3 DEF ToSet
    <2>2. z = [i \in 1..Len(z) |-> z[i]]
      BY <1>1, SeqFacts
    <2>3. z \in [1..Len(z) -> ToSet(n)]
      BY <2>1, <2>2
    <2> QED
      BY <1>3, <2>3
  <1>5. k \in 0..Len(n) /\ Len(z) = Len(n) - k
    BY <1>3
  <1> HIDE DEF k
  <1> DEFINE l == SubSeq(n, 1, k)
  <1>6. l \in Seq(ToSet(n)) /\ Len(l) = k /\ \A i \in 1..k : l[i] = n[i]
    <2>1. /\ 1 \in 1..(Len(n) + 1) /\ 1 <= k + 1 /\ k - 1 + 1 = k
          /\ \A i \in 1..k : 1 + i - 1 = i
      BY <1>3, <1>5
    <2>2. IsSeq(l) /\ Len(l) = k /\ \A i \in 1..k : l[i] = n[i]
      BY <1>1, <1>5, <2>1, SubSeqIs
    <2> HIDE DEF l
    <2>3. \A i \in 1..k : l[i] \in ToSet(n)
      BY <1>3, <1>5, <2>2 DEF ToSet
    <2>4. k \in Nat /\ l = [i \in 1..k |-> l[i]]
      BY <1>5, <2>2, SeqFacts
    <2>5. l \in [1..k -> ToSet(n)]
      BY <2>3, <2>4
    <2> QED
      BY <2>2, <2>4, <2>5
  <1> HIDE DEF l
  <1>7. /\ IsSeq(l \o z) /\ Len(l \o z) = Len(n)
        /\ \A i \in 1..Len(n) : (l \o z)[i] = IF i <= k THEN l[i] ELSE z[i - k]
    <2>1. IsSeq(l \o z) /\ Len(l \o z) = Len(l) + Len(z)
      BY <1>1, <1>6, AnySeq, JoinIsSeq
    <2>2. \A i \in 1..(Len(l) + Len(z)) :
            (l \o z)[i] = IF i <= Len(l) THEN l[i] ELSE z[i - Len(l)]
      BY <1>4, <1>6
    <2>3. Len(l) + Len(z) = Len(n)
      BY <1>3, <1>5, <1>6
    <2> QED
      BY <1>6, <2>1, <2>2, <2>3
  <1>8. \A i \in 1..Len(n) : (l \o z)[i] = n[i]
    <2> SUFFICES ASSUME NEW i \in 1..Len(n)
                 PROVE  (l \o z)[i] = n[i]
      OBVIOUS
    <2>1. CASE i <= k
      BY <1>3, <1>6, <1>7, <2>1
    <2>2. CASE ~(i <= k)
      <3>1. i - k \in 1..Len(z) /\ k + (i - k) = i
        BY <1>3, <1>5, <2>2
      <3>2. z[i - k] = n[k + (i - k)]
        BY <1>3, <3>1
      <3> QED
        BY <1>7, <2>2, <3>1, <3>2
    <2> QED
      BY <2>1, <2>2
  <1>9. l \o z = n
    <2> DEFINE m == l \o z
    <2>1. m = [i \in 1..Len(n) |-> m[i]] /\ n = [i \in 1..Len(n) |-> n[i]]
      BY <1>1, <1>7, SeqFacts
    <2>2. \A i \in 1..Len(n) : m[i] = n[i]
      BY <1>8
    <2> HIDE DEF m
    <2>3. m = n
      BY <2>1, <2>2
    <2> QED
      BY <2>3 DEF m
  <1> QED
    BY <1>2, <1>9 DEF l, n, z, k

\* PTRs are filed in the configured reverse zones: one for each address that has a
\* name and such a zone, and nothing else (ReverseZoneDiscoverer.Discover).
LEMMA ReverseIsReverse ==
    ASSUME NEW records, IsSeq(records)
    PROVE  /\ DOMAIN DiscoverReverse(records) \subseteq ReverseZones
           /\ \A z \in DOMAIN DiscoverReverse(records) :
                IsSeq(DiscoverReverse(records)[z])
           /\ \A z \in DOMAIN DiscoverReverse(records) :
                \A p \in ToSet(DiscoverReverse(records)[z]) : \E r \in ToSet(records) :
                    /\ ~IsAlias(r) /\ ReverseZoneOf(r.addr) = z
                    /\ p = PtrRecord(r, PtrLabel(r.addr))
           /\ \A r \in ToSet(records) :
                ~IsAlias(r) /\ r.name # NoName /\ ReverseZoneOf(r.addr) # NoZone =>
                    /\ ReverseZoneOf(r.addr) \in DOMAIN DiscoverReverse(records)
                    /\ PtrRecord(r, PtrLabel(r.addr))
                        \in ToSet(DiscoverReverse(records)[ReverseZoneOf(r.addr)])
  <1> DEFINE Due == {r \in ToSet(records) :
                        ~IsAlias(r) /\ r.name # NoName /\ ReverseZoneOf(r.addr) # NoZone}
             addresses == Those(records, Due)
             Its(z) == {r \in ToSet(addresses) : ReverseZoneOf(r.addr) = z}
             Here(z) == Those(addresses, Its(z))
             Ptrs(h) == [i \in DOMAIN h |-> PtrRecord(h[i], PtrLabel(h[i].addr))]
             ptrs == DiscoverReverse(records)
  <1>1. /\ DOMAIN ptrs = {ReverseZoneOf(r.addr) : r \in ToSet(addresses)}
        /\ \A z \in DOMAIN ptrs : ptrs[z] = Ptrs(Here(z))
    BY DEF DiscoverReverse
  <1>2. IsSeq(addresses) /\ ToSet(addresses) = Due
    <2>1. Due \subseteq ToSet(records)
      OBVIOUS
    <2> HIDE DEF Due
    <2>2. IsSeq(addresses) /\ ToSet(addresses) = ToSet(records) \cap Due
      BY ThoseOf
    <2> QED
      BY <2>1, <2>2
  <1>3. DOMAIN ptrs \subseteq ReverseZones
    BY <1>1, <1>2, ReverseZoneIs
  <1> HIDE DEF addresses
  <1>4. \A z : IsSeq(Here(z)) /\ ToSet(Here(z)) = Its(z)
    <2> SUFFICES ASSUME NEW z
                 PROVE  IsSeq(Here(z)) /\ ToSet(Here(z)) = Its(z)
      OBVIOUS
    <2>1. Its(z) \subseteq ToSet(addresses)
      OBVIOUS
    <2> HIDE DEF Its
    <2>2. IsSeq(Here(z)) /\ ToSet(Here(z)) = ToSet(addresses) \cap Its(z)
      BY <1>2, ThoseOf
    <2> QED
      BY <2>1, <2>2
  <1> HIDE DEF Here, ptrs
  <1>5. ASSUME NEW h, IsSeq(h)
        PROVE  IsSeq(Ptrs(h))
               /\ ToSet(Ptrs(h)) = {PtrRecord(r, PtrLabel(r.addr)) : r \in ToSet(h)}
    <2>1. Len(h) \in Nat /\ DOMAIN h = 1..Len(h)
      BY <1>5, SeqFacts
    <2> DEFINE f == Ptrs(h)
    <2>2. /\ f = [i \in 1..Len(h) |-> f[i]] /\ DOMAIN f = DOMAIN h
          /\ \A i \in DOMAIN h : f[i] = PtrRecord(h[i], PtrLabel(h[i].addr))
      BY <2>1
    <2> HIDE DEF f
    <2>3. IsSeq(f)
      BY <2>1, <2>2, FunIsSeq
    <2>4. ToSet(f) = {PtrRecord(r, PtrLabel(r.addr)) : r \in ToSet(h)}
      BY <2>2 DEF ToSet
    <2> QED
      BY <2>3, <2>4 DEF f
  <1> HIDE DEF Ptrs
  <1>6. \A z \in DOMAIN ptrs :
            /\ IsSeq(ptrs[z])
            /\ ToSet(ptrs[z]) = {PtrRecord(r, PtrLabel(r.addr)) : r \in Its(z)}
    BY <1>1, <1>4, <1>5
  <1>7. \A r \in Due : ReverseZoneOf(r.addr) \in DOMAIN ptrs /\ r \in Its(ReverseZoneOf(r.addr))
    BY <1>1, <1>2
  <1>8. \A z : \A r \in Its(z) :
            r \in ToSet(records) /\ ~IsAlias(r) /\ ReverseZoneOf(r.addr) = z
    BY <1>2
  <1>9. \A r \in ToSet(records) :
            ~IsAlias(r) /\ r.name # NoName /\ ReverseZoneOf(r.addr) # NoZone => r \in Due
    OBVIOUS
  <1> HIDE DEF Due, Its
  <1>10. \A z \in DOMAIN ptrs : \A p \in ToSet(ptrs[z]) : \E r \in ToSet(records) :
            /\ ~IsAlias(r) /\ ReverseZoneOf(r.addr) = z
            /\ p = PtrRecord(r, PtrLabel(r.addr))
    BY <1>6, <1>8
  <1>11. \A r \in Due : PtrRecord(r, PtrLabel(r.addr)) \in ToSet(ptrs[ReverseZoneOf(r.addr)])
    BY <1>6, <1>7
  <1> QED
    BY <1>3, <1>6, <1>7, <1>9, <1>10, <1>11 DEF ptrs

-----------------------------------------------------------------------------
(* The records a poll makes of NetBox's rows *)

\* A label in front of a name.
LEMMA LabelIsSeq ==
    ASSUME NEW x, NEW n, IsSeq(n)
    PROVE  IsSeq(<<x>> \o n) /\ <<x>> \o n # <<>>
  <1>1. IsSeq(<<x>>) /\ Len(<<x>>) = 1
    <2>1. <<x>> \in Seq({x})
      OBVIOUS
    <2> QED
      BY <2>1, AnySeq
  <1>2. IsSeq(<<x>> \o n) /\ Len(<<x>> \o n) = 1 + Len(n) /\ Len(n) \in Nat
    BY <1>1, JoinIsSeq, SeqFacts
  <1> DEFINE m == <<x>> \o n
  <1> HIDE DEF m
  <1>3. IsSeq(m) /\ Len(m) # 0
    BY <1>2 DEF m
  <1>4. m # <<>>
    BY <1>3
  <1> QED
    BY <1>3, <1>4 DEF m

IsRecord(r) ==
    /\ r = [name |-> r.name, addr |-> r.addr, type |-> r.type, target |-> r.target]
    /\ IsSeq(r.name) /\ IsSeq(r.target) /\ r.type \in {"A", "AAAA", "CNAME"}
    /\ r.type # "CNAME" => r.addr \in DOMAIN ReverseName

Records(s) == IsSeq(s) /\ \A r \in ToSet(s) : IsRecord(r)

LEMMA NewRecords ==
    ASSUME NEW n, IsSeq(n), NEW a
    PROVE  /\ a \in DOMAIN ReverseName => IsRecord(AddressRecord(n, a))
           /\ IsSeq(a) => IsRecord(AliasRecord(n, a))
  <1>1. IsSeq(NoName)
    BY DEF IsSeq, NoName, ToSet
  <1> QED
    BY <1>1 DEF IsRecord, AddressRecord, AliasRecord

LEMMA JoinRecords ==
    ASSUME NEW s, Records(s), NEW t, Records(t)
    PROVE  Records(s \o t)
  BY JoinIsSeq DEF Records

\* Parts as a sequence of sequences of what any of them has.
LEMMA AreParts ==
    ASSUME NEW parts, IsSeq(parts), \A i \in DOMAIN parts : IsSeq(parts[i])
    PROVE  parts \in Seq(Seq(UNION {ToSet(parts[i]) : i \in DOMAIN parts}))
  <1> DEFINE U == UNION {ToSet(parts[i]) : i \in DOMAIN parts}
  <1>1. \A i \in DOMAIN parts : parts[i] \in Seq(U)
    <2> SUFFICES ASSUME NEW i \in DOMAIN parts
                 PROVE  parts[i] \in Seq(U)
      OBVIOUS
    <2>1. /\ Len(parts[i]) \in Nat /\ DOMAIN parts[i] = 1..Len(parts[i])
          /\ parts[i] = [j \in 1..Len(parts[i]) |-> parts[i][j]]
      BY SeqFacts
    <2>2. \A j \in 1..Len(parts[i]) : parts[i][j] \in U
      BY <2>1 DEF ToSet
    <2> HIDE DEF U
    <2> QED
      BY <2>1, <2>2
  <1> HIDE DEF U
  <1>2. /\ Len(parts) \in Nat /\ DOMAIN parts = 1..Len(parts)
        /\ parts = [i \in 1..Len(parts) |-> parts[i]]
    BY SeqFacts
  <1>3. parts \in Seq(Seq(U))
    BY <1>1, <1>2
  <1> QED
    BY <1>3 DEF U

LEMMA FlattenRecords ==
    ASSUME NEW parts, IsSeq(parts), \A i \in DOMAIN parts : Records(parts[i])
    PROVE  /\ Records(FlattenSeq(parts))
           /\ ToSet(FlattenSeq(parts)) = UNION {ToSet(parts[i]) : i \in DOMAIN parts}
  <1> DEFINE U == UNION {ToSet(parts[i]) : i \in DOMAIN parts}
  <1>1. parts \in Seq(Seq(U))
    BY AreParts DEF Records
  <1>2. \A r \in U : IsRecord(r)
    BY DEF Records
  <1> HIDE DEF U
  <1>3. /\ FlattenSeq(parts) \in Seq(U)
        /\ ToSet(FlattenSeq(parts)) = UNION {ToSet(parts[i]) : i \in DOMAIN parts}
    BY <1>1, FlattenIs
  <1> QED
    BY <1>2, <1>3, AnySeq DEF Records

\* NetBox's rows: each has a name, an address and the number of its interface.
Rows(rows) ==
    /\ IsSeq(rows)
    /\ \A r \in ToSet(rows) : IsSeq(r.name) /\ r.addr \in DOMAIN ReverseName /\ r.iface \in Nat

\* FirstOf finds one row or none.
AtMostOne(row) == row = <<>> \/ \E x : row = <<x>> /\ x.addr \in DOMAIN ReverseName

\* Of rows that there are one comes first.
LEMMA FirstExists ==
    ASSUME NEW s, Rows(s), s # <<>>
    PROVE  \E i \in DOMAIN s : \A j \in DOMAIN s :
                s[i].iface < s[j].iface \/ (s[i].iface = s[j].iface /\ i <= j)
  <1> DEFINE D == DOMAIN s
             T == {s[i].iface : i \in D}
  <1>1. D \subseteq Nat /\ D # {} /\ T \subseteq Nat /\ T # {}
    <2>1. IsSeq(s) /\ Len(s) \in Nat /\ D = 1..Len(s) /\ Len(s) # 0
      BY SeqFacts DEF Rows, IsSeq
    <2>2. 1 \in D
      BY <2>1
    <2> QED
      BY <2>1, <2>2 DEF Rows, ToSet
  <1> HIDE DEF D
  <1>2. PICK m \in T : \A t \in T : m <= t
    <2> HIDE DEF T
    <2> QED
      BY <1>1, SmallestExists
  <1> DEFINE I == {i \in D : s[i].iface = m}
  <1>3. I # {} /\ I \subseteq Nat
    BY <1>1, <1>2
  <1>4. PICK i \in I : \A j \in I : i <= j
    <2> HIDE DEF I
    <2> QED
      BY <1>3, SmallestExists
  <1>5. i \in D /\ s[i].iface = m /\ m \in Nat
    BY <1>1, <1>4
  <1>6. ASSUME NEW j \in D
        PROVE  m < s[j].iface \/ (m = s[j].iface /\ i <= j)
    <2>1. s[j].iface \in T
      OBVIOUS
    <2>2. s[j].iface \in Nat /\ m <= s[j].iface
      BY <1>1, <1>2, <2>1
    <2>3. s[j].iface = m => i <= j
      BY <1>4
    <2> QED
      BY <1>5, <2>2, <2>3
  <1> QED
    BY <1>5, <1>6 DEF D

LEMMA FoundIs ==
    ASSUME NEW rows, Rows(rows), NEW device
    PROVE  AtMostOne(PrimaryIP(rows, device)) /\ AtMostOne(BMCIP(rows, device))
  <1>1. ASSUME NEW category
        PROVE  AtMostOne(FirstOf(rows, device, category))
    <2> DEFINE S == {r \in ToSet(rows) : r.device = device /\ Category(r) = category}
               these == Those(rows, S)
               best == {i \in DOMAIN these : \A j \in DOMAIN these :
                            \/ these[i].iface < these[j].iface
                            \/ these[i].iface = these[j].iface /\ i <= j}
    <2>1. FirstOf(rows, device, category)
            = IF these = <<>> THEN <<>> ELSE <<these[CHOOSE i \in best : TRUE]>>
      BY DEF FirstOf
    <2> HIDE DEF S
    <2>2. IsSeq(these) /\ ToSet(these) = ToSet(rows) \cap S
      BY ThoseOf DEF Rows
    <2> HIDE DEF these
    <2>3. CASE these = <<>>
      BY <2>1, <2>3 DEF AtMostOne
    <2>4. CASE these # <<>>
      <3>1. Rows(these)
        BY <2>2 DEF Rows
      <3>2. best # {}
        BY <2>4, <3>1, FirstExists
      <3> DEFINE k == CHOOSE i \in best : TRUE
      <3>3. k \in best /\ best \subseteq DOMAIN these
        BY <3>2
      <3> HIDE DEF k, best
      <3>4. these[k] \in ToSet(these)
        BY <3>3 DEF ToSet
      <3> QED
        BY <2>1, <2>4, <3>1, <3>4 DEF AtMostOne, Rows, k, best
    <2> QED
      BY <2>3, <2>4
  <1> QED
    BY <1>1 DEF PrimaryIP, BMCIP

LEMMA ForRowIs ==
    ASSUME NEW row, AtMostOne(row), NEW r, IsRecord(r)
    PROVE  Records(ForRow(row, r))
  <1> DEFINE f == ForRow(row, r)
  <1>1. PICK k \in {0, 1} : DOMAIN row = 1..k
    BY DEF AtMostOne
  <1>2. k \in Nat /\ f = [i \in 1..k |-> f[i]] /\ \A i \in 1..k : f[i] = r
    BY <1>1 DEF ForRow
  <1> HIDE DEF f
  <1>3. IsSeq(f) /\ DOMAIN f = 1..k
    BY <1>2, FunIsSeq
  <1>4. Records(f)
    BY <1>2, <1>3 DEF Records, ToSet
  <1> QED
    BY <1>4 DEF f

IsName(n) == IsSeq(n) /\ n # <<>>

LEMMA SafeIsName ==
    ASSUME NEW n, IsSeq(n), SafeName(n)
    PROVE  IsName(n)
  BY DEF SafeName, TrimDot, NoName, IsName

\* A fit name is fit without its trailing dot.
LEMMA SafeStays ==
    ASSUME NEW n, IsSeq(n), SafeName(n)
    PROVE  SafeName(TrimDot(n))
  <1> DEFINE m == TrimDot(n)
  <1>1. IsSeq(m) /\ m # NoName /\ \A i \in DOMAIN m : m[i] # <<>>
    BY NameTypes DEF SafeName
  <1>2. SafeName(n) <=> /\ m # NoName
                        /\ \A i \in DOMAIN m : m[i] # <<>> /\ ToSet(m[i]) \cap UnsafePart = {}
    BY DEF SafeName
  <1> HIDE DEF m
  <1>3. TrimDot(m) = m
    <2>1. Len(m) \in DOMAIN m
      BY <1>1, SeqFacts DEF NoName
    <2>2. Last(m) # <<>>
      BY <1>1, <2>1 DEF Last
    <2> QED
      BY <2>2 DEF TrimDot
  <1> QED
    BY <1>2, <1>3 DEF SafeName, m

LEMMA BMCNameIs ==
    ASSUME NEW n, IsName(n)
    PROVE  IsName(BMCName(n))
  <1>1. n \in Seq(ToSet(n)) /\ n # <<>>
    BY DEF IsName, IsSeq
  <1>2. Tail(n) \in Seq(ToSet(n))
    BY <1>1
  <1>3. IsSeq(Tail(n))
    BY <1>2, AnySeq
  <1> QED
    BY <1>3, LabelIsSeq DEF BMCName, IsName

LEMMA LowerIsName ==
    ASSUME NEW n, IsSeq(n)
    PROVE  IsSeq(Lower(n))
  BY NameTypes

LEMMA CanonicalIs ==
    ASSUME NEW device
    PROVE  IsName(Canonical(device))
  <1>1. CASE Formatted(device)
    <2>1. device \in DOMAIN Rendered /\ SafeName(Lower(Rendered[device].canonical))
      BY <1>1 DEF Formatted
    <2>2. IsSeq(Lower(Rendered[device].canonical))
      BY <2>1, DeviceNamesAssumption, LowerIsName
    <2> QED
      BY <1>1, <2>1, <2>2, SafeIsName DEF Canonical
  <1>2. CASE ~Formatted(device)
    <2>1. IsSeq(DomainSuffix)
      BY ZoneNamesAssumption
    <2>2. ExtractZone(device) = DomainSuffix \/ \E x : ExtractZone(device) = <<x>> \o DomainSuffix
      BY DEF ExtractZone
    <2>3. IsSeq(ExtractZone(device))
      BY <2>1, <2>2, LabelIsSeq
    <2> QED
      BY <1>2, <2>3, LabelIsSeq DEF Canonical, IsName
  <1> QED
    BY <1>1, <1>2

LEMMA AliasesAre ==
    ASSUME NEW device
    PROVE  IsSeq(Aliases(device)) /\ \A a \in ToSet(Aliases(device)) : IsName(a)
  <1>1. CASE Formatted(device)
    <2> DEFINE given == Rendered[device].aliases
               lower == [i \in DOMAIN given |-> Lower(given[i])]
               Fit == {a \in ToSet(lower) : SafeName(a) /\ a # Canonical(device)}
    <2>1. IsSeq(given) /\ \A i \in DOMAIN given : IsSeq(given[i])
      BY <1>1, DeviceNamesAssumption DEF Formatted
    <2>2. Aliases(device) = Those(lower, Fit)
      BY <1>1 DEF Aliases
    <2> HIDE DEF given
    <2>3. Len(given) \in Nat /\ DOMAIN given = 1..Len(given)
      BY <2>1, SeqFacts
    <2>4. lower = [i \in 1..Len(given) |-> lower[i]] /\ DOMAIN lower = DOMAIN given
      BY <2>3
    <2>5. \A i \in DOMAIN given : lower[i] = Lower(given[i]) /\ IsSeq(Lower(given[i]))
      BY <2>1, LowerIsName
    <2> HIDE DEF lower
    <2>6. IsSeq(lower)
      BY <2>3, <2>4, FunIsSeq
    <2>7. \A a \in ToSet(lower) : IsSeq(a)
      BY <2>4, <2>5 DEF ToSet
    <2>8. \A a \in Fit : IsName(a)
      BY <2>7, SafeIsName
    <2> HIDE DEF Fit
    <2>9. IsSeq(Those(lower, Fit)) /\ ToSet(Those(lower, Fit)) = ToSet(lower) \cap Fit
      BY <2>6, ThoseOf
    <2> QED
      BY <2>2, <2>8, <2>9
  <1>2. CASE ~Formatted(device)
    <2>1. Aliases(device) = <<>>
      BY <1>2 DEF Aliases
    <2>2. IsSeq(<<>>) /\ ToSet(<<>>) = {}
      BY DEF IsSeq, ToSet
    <2> QED
      BY <2>1, <2>2
  <1> QED
    BY <1>1, <1>2

LEMMA DeviceRecordsAre ==
    ASSUME NEW rows, Rows(rows), NEW device
    PROVE  Records(DeviceRecords(rows, device))
  <1> DEFINE primary == PrimaryIP(rows, device)
             bmc     == BMCIP(rows, device)
             name    == Canonical(device)
             aliases == Aliases(device)
             ForAlias(a) ==
                ForRow(primary, AliasRecord(a, name))
                    \o ForRow(bmc, AliasRecord(BMCName(a), BMCName(name)))
             parts == [i \in DOMAIN aliases |-> ForAlias(aliases[i])]
             address == ForRow(primary, AddressRecord(name, primary[1].addr))
             control == ForRow(bmc, AddressRecord(BMCName(name), bmc[1].addr))
  <1>1. DeviceRecords(rows, device) = address \o control \o FlattenSeq(parts)
    BY DEF DeviceRecords
  <1>2. AtMostOne(primary) /\ AtMostOne(bmc)
    BY FoundIs
  <1>3. IsName(name) /\ IsSeq(aliases) /\ \A a \in ToSet(aliases) : IsName(a)
    BY CanonicalIs, AliasesAre
  <1> HIDE DEF primary, bmc, name, aliases
  <1>4. Records(address) /\ Records(control)
    <2>1. IsSeq(name) /\ IsSeq(BMCName(name))
      BY <1>3, BMCNameIs DEF IsName
    <2>2. ASSUME NEW row, AtMostOne(row), NEW n, IsSeq(n)
          PROVE  Records(ForRow(row, AddressRecord(n, row[1].addr)))
      <3>1. CASE row = <<>>
        <4>1. ForRow(row, AddressRecord(n, row[1].addr)) = <<>>
          BY <3>1 DEF ForRow
        <4> QED
          BY <4>1 DEF Records, IsSeq, ToSet
      <3>2. CASE row # <<>>
        <4>1. row[1].addr \in DOMAIN ReverseName
          BY <2>2, <3>2 DEF AtMostOne
        <4> QED
          BY <2>2, <4>1, NewRecords, ForRowIs
      <3> QED
        BY <3>1, <3>2
    <2> QED
      BY <1>2, <2>1, <2>2
  <1>5. ASSUME NEW a, IsName(a)
        PROVE  Records(ForAlias(a))
    <2>1. IsSeq(a) /\ IsSeq(BMCName(a)) /\ IsSeq(name) /\ IsSeq(BMCName(name))
      BY <1>3, <1>5, BMCNameIs DEF IsName
    <2>2. /\ IsRecord(AliasRecord(a, name))
          /\ IsRecord(AliasRecord(BMCName(a), BMCName(name)))
      BY <2>1, NewRecords
    <2>3. /\ Records(ForRow(primary, AliasRecord(a, name)))
          /\ Records(ForRow(bmc, AliasRecord(BMCName(a), BMCName(name))))
      BY <1>2, <2>2, ForRowIs
    <2> QED
      BY <2>3, JoinRecords
  <1>6. Records(FlattenSeq(parts))
    <2>1. Len(aliases) \in Nat /\ DOMAIN aliases = 1..Len(aliases)
      BY <1>3, SeqFacts
    <2>2. parts = [i \in 1..Len(aliases) |-> parts[i]] /\ DOMAIN parts = DOMAIN aliases
      BY <2>1
    <2>3. ASSUME NEW i \in DOMAIN aliases
          PROVE  Records(parts[i])
      <3>1. IsName(aliases[i])
        BY <1>3 DEF ToSet
      <3>2. parts[i] = ForAlias(aliases[i])
        OBVIOUS
      <3> HIDE DEF parts, ForAlias
      <3> QED
        BY <1>5, <3>1, <3>2
    <2> HIDE DEF parts
    <2>4. IsSeq(parts)
      BY <2>1, <2>2, FunIsSeq
    <2> QED
      BY <2>2, <2>3, <2>4, FlattenRecords
  <1> HIDE DEF address, control, parts
  <1> QED
    BY <1>1, <1>4, <1>6, JoinRecords

LEMMA QualifiedIs ==
    ASSUME NEW n, IsSeq(n)
    PROVE  IsSeq(QualifyDNSName(n))
  <1>1. IsSeq(TrimDot(n)) /\ IsSeq(DomainSuffix)
    BY NameTypes, ZoneNamesAssumption
  <1>2. IsSeq(TrimDot(n) \o DomainSuffix)
    BY <1>1, JoinIsSeq
  <1> QED
    BY <1>2 DEF QualifyDNSName

\* Whatever the rows, what a poll publishes are records with names
\* (enrichRecordsWithDeviceNames).
LEMMA EnrichIs ==
    ASSUME NEW rows, Rows(rows)
    PROVE  Records(Enrich(rows))
  <1> DEFINE WithName == {r \in ToSet(rows) : r.name # NoName}
             Without == {r \in ToSet(rows) : r.name = NoName /\ r.device # NoDevice}
             named == Those(rows, WithName)
             unnamed == Those(rows, Without)
             first == [i \in DOMAIN named |->
                        AddressRecord(QualifyDNSName(named[i].name), named[i].addr)]
             parts == [d \in DOMAIN Device |-> DeviceRecords(unnamed, Device[d])]
  <1>1. Enrich(rows) = first \o FlattenSeq(parts)
    BY DEF Enrich
  <1>2. Rows(named) /\ Rows(unnamed)
    <2> HIDE DEF WithName, Without
    <2> QED
      BY ThoseOf DEF Rows
  <1> HIDE DEF named, unnamed
  <1>3. Records(first)
    <2>1. Len(named) \in Nat /\ DOMAIN named = 1..Len(named)
      BY <1>2, SeqFacts DEF Rows
    <2>2. first = [i \in 1..Len(named) |-> first[i]] /\ DOMAIN first = DOMAIN named
      BY <2>1
    <2>3. ASSUME NEW i \in DOMAIN named
          PROVE  IsRecord(first[i])
      <3>1. named[i] \in ToSet(named)
        BY DEF ToSet
      <3>2. IsSeq(named[i].name) /\ named[i].addr \in DOMAIN ReverseName
        BY <1>2, <3>1 DEF Rows
      <3>3. IsSeq(QualifyDNSName(named[i].name))
        BY <3>2, QualifiedIs
      <3>4. first[i] = AddressRecord(QualifyDNSName(named[i].name), named[i].addr)
        OBVIOUS
      <3> HIDE DEF first
      <3> QED
        BY <3>2, <3>3, <3>4, NewRecords
    <2> HIDE DEF first
    <2>4. IsSeq(first)
      BY <2>1, <2>2, FunIsSeq
    <2> QED
      BY <2>2, <2>3, <2>4 DEF Records, ToSet
  <1>4. Records(FlattenSeq(parts))
    <2>1. Len(Device) \in Nat /\ DOMAIN Device = 1..Len(Device)
      BY DeviceNamesAssumption, SeqFacts
    <2>2. parts = [i \in 1..Len(Device) |-> parts[i]] /\ DOMAIN parts = DOMAIN Device
      BY <2>1
    <2>3. \A d \in DOMAIN Device : parts[d] = DeviceRecords(unnamed, Device[d])
      OBVIOUS
    <2> HIDE DEF parts
    <2>4. IsSeq(parts)
      BY <2>1, <2>2, FunIsSeq
    <2> QED
      BY <1>2, <2>2, <2>3, <2>4, DeviceRecordsAre, FlattenRecords
  <1> HIDE DEF first, parts
  <1> QED
    BY <1>1, <1>3, <1>4, JoinRecords

LEMMA StrippedIs ==
    ASSUME NEW n, IsSeq(n)
    PROVE  IsSeq(StripName(n))
  <1> DEFINE bare == TrimDot(n)
             domain == Len(DomainSuffix)
             i == Len(bare) - domain
  <1>1. CASE StripName(n) = n
    BY <1>1
  <1>2. CASE StripName(n) # n
    <2>1. StripName(n) = RemoveAt(bare, i) /\ ~(Len(bare) < domain + 2)
      BY <1>2 DEF StripName
    <2>2. IsSeq(bare) /\ Len(bare) \in Nat /\ domain \in Nat
      BY NameTypes, SeqFacts, ZoneNamesAssumption
    <2>3. i \in 2..Len(bare)
      BY <2>1, <2>2
    <2> HIDE DEF i, bare
    <2>4. /\ 1 \in 1..(Len(bare) + 1) /\ i - 1 \in 0..Len(bare) /\ 1 <= (i - 1) + 1
          /\ i + 1 \in 1..(Len(bare) + 1) /\ Len(bare) \in 0..Len(bare)
          /\ i + 1 <= Len(bare) + 1
      BY <2>2, <2>3
    <2>5. IsSeq(SubSeq(bare, 1, i - 1)) /\ IsSeq(SubSeq(bare, i + 1, Len(bare)))
      BY <2>2, <2>4, SubSeqIs
    <2>6. IsSeq(SubSeq(bare, 1, i - 1) \o SubSeq(bare, i + 1, Len(bare)))
      BY <2>5, JoinIsSeq
    <2> QED
      BY <2>1, <2>6 DEF RemoveAt
  <1> QED
    BY <1>1, <1>2

-----------------------------------------------------------------------------
(* The plugin's answers *)

\* The zone that answers is the deepest over the name (findZone).
LEMMA FindZoneIs ==
    ASSUME NEW fs, \A y \in DOMAIN fs : IsSeq(y), NEW n, IsSeq(n),
           NEW z \in DOMAIN fs, z # NoZone, InZone(n, z),
           \A y \in DOMAIN fs : InZone(n, y) => Len(y) <= Len(z)
    PROVE  FindZone(fs, n) = z
  <1> DEFINE match == {y \in DOMAIN fs : y # NoZone /\ InZone(n, y)}
             found == Longest(match)
  <1>1. z \in match /\ FindZone(fs, n) = found
    BY DEF FindZone
  <1>2. \A y \in match : /\ IsSeq(y) /\ Len(y) \in Nat /\ IsSuffix(y, n)
                         /\ Len(y) <= Len(z)
    BY SeqFacts DEF InZone
  <1> HIDE DEF match
  <1>3. found \in match /\ \A y \in match : Len(y) <= Len(found)
    BY <1>1, <1>2, LongestIs
  <1> HIDE DEF found
  <1>4. Len(found) = Len(z)
    <2>1. Len(found) \in Nat /\ Len(z) \in Nat /\ Len(found) <= Len(z) /\ Len(z) <= Len(found)
      BY <1>1, <1>2, <1>3
    <2> QED
      BY <2>1
  <1>5. found = z
    BY <1>1, <1>2, <1>3, <1>4, SuffixesAgree
  <1> QED
    BY <1>1, <1>5

\* Inside a zone the walk ends at a name with data, and at one the zone knows
\* nothing of; from an alias it goes to what its CNAMEs agree on (zone.answer).
LEMMA WalkStays ==
    ASSUME NEW file, IsFiniteSet(file.rrs), NEW n, NEW types,
           OfType(file, n, types) # {} \/ At(file, n) = {}
    PROVE  Walk(file, n, types) = n
  <1> DEFINE step == [m \in {n} \cup {Lower(rr.data) : rr \in CNAMEs(file)} |->
                    LET here == At(file, m)
                        to   == {rr.data : rr \in {rr \in here : rr.type = "CNAME"}}
                    IN  IF to = {} \/ \E rr \in here : rr.type \in types THEN m
                        ELSE Lower(CHOOSE t \in to : TRUE)]
  <1>1. (\E rr \in At(file, n) : rr.type \in types) \/ At(file, n) = {}
    BY DEF OfType
  <1>2. step[n] = n
    BY <1>1
  <1>3. Cardinality(CNAMEs(file)) \in Nat
    <2>1. CNAMEs(file) \in SUBSET file.rrs
      BY DEF CNAMEs
    <2> QED
      BY <2>1, FS_Subset, FS_CardinalityType
  <1>4. Walk(file, n, types) = Iterate(step, n, Cardinality(CNAMEs(file)))
    BY DEF Walk
  <1> HIDE DEF step
  <1> QED
    BY <1>2, <1>3, <1>4, StaysThere

\* The name n is an alias for t in the file, and nothing else that was asked for.
LeadsTo(file, n, t, types) ==
    /\ \E rr \in At(file, n) : rr.type = "CNAME"
    /\ \A rr \in At(file, n) : /\ rr.type \notin types
                               /\ rr.type = "CNAME" => Lower(rr.data) = t

LEMMA WalkFollows ==
    ASSUME NEW file, IsFiniteSet(file.rrs), NEW n, NEW t, NEW types,
           LeadsTo(file, n, t, types),
           OfType(file, t, types) # {} \/ At(file, t) = {}
    PROVE  Walk(file, n, types) = t
  <1> DEFINE To(m) == {rr.data : rr \in {rr \in At(file, m) : rr.type = "CNAME"}}
             step == [m \in {n} \cup {Lower(rr.data) : rr \in CNAMEs(file)} |->
                    LET here == At(file, m)
                        to   == {rr.data : rr \in {rr \in here : rr.type = "CNAME"}}
                    IN  IF to = {} \/ \E rr \in here : rr.type \in types THEN m
                        ELSE Lower(CHOOSE t1 \in to : TRUE)]
  <1>1. PICK c \in At(file, n) : c.type = "CNAME"
    BY DEF LeadsTo
  <1>2. c \in CNAMEs(file) /\ Lower(c.data) = t
    BY <1>1 DEF LeadsTo, CNAMEs, At
  <1>3. To(n) # {} /\ \A d \in To(n) : Lower(d) = t
    BY <1>1 DEF LeadsTo
  <1>4. step[n] = t
    <2>1. ~ \E rr \in At(file, n) : rr.type \in types
      BY DEF LeadsTo
    <2>2. step[n] = Lower(CHOOSE d \in To(n) : TRUE)
      BY <1>3, <2>1
    <2>3. (CHOOSE d \in To(n) : TRUE) \in To(n)
      BY <1>3
    <2> HIDE DEF To, step
    <2> QED
      BY <1>3, <2>2, <2>3
  <1>5. step[t] = t
    <2>1. (\E rr \in At(file, t) : rr.type \in types) \/ At(file, t) = {}
      BY DEF OfType
    <2>2. t \in {Lower(rr.data) : rr \in CNAMEs(file)}
      BY <1>2
    <2> QED
      BY <2>1, <2>2
  <1>6. Cardinality(CNAMEs(file)) \in Nat \ {0}
    <2>1. CNAMEs(file) \in SUBSET file.rrs
      BY DEF CNAMEs
    <2>2. IsFiniteSet(CNAMEs(file))
      BY <2>1, FS_Subset
    <2> QED
      BY <1>2, <2>2, FS_CardinalityType, FS_EmptySet
  <1>7. Walk(file, n, types) = Iterate(step, n, Cardinality(CNAMEs(file)))
    BY DEF Walk
  <1> HIDE DEF step
  <1> QED
    BY <1>4, <1>5, <1>6, <1>7, EndsThere

\* A name that has data in its zone is answered with it, all of it and nothing else
\* (zone.answer).
LEMMA LookupFinds ==
    ASSUME NEW fs, \A y \in DOMAIN fs : IsSeq(y), IsFiniteSet(DOMAIN fs),
           NEW n, IsSeq(Lower(n)), NEW types,
           NEW z \in DOMAIN fs, FindZone(fs, Lower(n)) = z, z # NoZone,
           IsFiniteSet(fs[z].rrs), OfType(fs[z], Lower(n), types) # {}
    PROVE  Resolve(fs, n, types) = {rr.data : rr \in OfType(fs[z], Lower(n), types)}
  <1> DEFINE k == Lower(n)
             file == fs[z]
  <1>1. Walk(file, k, types) = k
    BY WalkStays
  <1>2. ServeDNS(fs, k, types) = {rr.data : rr \in OfType(file, k, types)}
    BY <1>1 DEF ServeDNS
  <1> DEFINE asked == {k} \cup
                {Lower(rr.data) : rr \in UNION {CNAMEs(fs[y]) : y \in DOMAIN fs}}
             again == [m \in asked |->
                    LET y   == FindZone(fs, m)
                        end == Walk(fs[y], m, types)
                    IN  IF y = NoZone \/ OfType(fs[y], end, types) # {} THEN m ELSE end]
  <1>3. again[k] = k
    <2>1. OfType(fs[z], Walk(fs[z], k, types), types) # {}
      BY <1>1
    <2>2. k \in asked
      OBVIOUS
    <2> HIDE DEF asked
    <2> QED
      BY <2>1, <2>2
  <1>4. Resolve(fs, n, types) =
            ServeDNS(fs, Iterate(again, k, Cardinality(DOMAIN fs)), types)
    BY DEF Resolve
  <1>5. Cardinality(DOMAIN fs) \in Nat
    BY FS_CardinalityType
  <1> HIDE DEF again
  <1>6. Iterate(again, k, Cardinality(DOMAIN fs)) = k
    BY <1>3, <1>5, StaysThere
  <1> QED
    BY <1>2, <1>4, <1>6

\* An alias is answered with the data of what it leads to, also from another zone
\* unless its own has other data of that name (ServeDNS and the client's second
\* question).
LEMMA AliasFinds ==
    ASSUME NEW fs, IsFiniteSet(DOMAIN fs), NEW n, NEW t, NEW types,
           NEW z \in DOMAIN fs, FindZone(fs, Lower(n)) = z, z # NoZone,
           IsFiniteSet(fs[z].rrs), LeadsTo(fs[z], Lower(n), t, types),
           NEW y \in DOMAIN fs, FindZone(fs, t) = y, y # NoZone, IsFiniteSet(fs[y].rrs),
           OfType(fs[y], t, types) # {}, y = z \/ At(fs[z], t) = {}
    PROVE  Resolve(fs, n, types) = {rr.data : rr \in OfType(fs[y], t, types)}
  <1> DEFINE k == Lower(n)
             asked == {k} \cup
                {Lower(rr.data) : rr \in UNION {CNAMEs(fs[x]) : x \in DOMAIN fs}}
             again == [m \in asked |->
                    LET x   == FindZone(fs, m)
                        end == Walk(fs[x], m, types)
                    IN  IF x = NoZone \/ OfType(fs[x], end, types) # {} THEN m ELSE end]
  <1>1. Walk(fs[z], k, types) = t
    BY WalkFollows
  <1>2. Walk(fs[y], t, types) = t
    BY WalkStays
  <1>3. Resolve(fs, n, types) =
            ServeDNS(fs, Iterate(again, k, Cardinality(DOMAIN fs)), types)
    BY DEF Resolve
  <1>4. k \in asked /\ t \in asked
    <2>1. PICK c \in At(fs[z], k) : c.type = "CNAME" /\ Lower(c.data) = t
      BY DEF LeadsTo
    <2>2. c \in UNION {CNAMEs(fs[x]) : x \in DOMAIN fs}
      BY <2>1 DEF At, CNAMEs
    <2> QED
      BY <2>1, <2>2
  <1>5. Cardinality(DOMAIN fs) \in Nat \ {0}
    BY FS_CardinalityType, FS_EmptySet
  <1> HIDE DEF asked
  <1>6. CASE OfType(fs[z], t, types) # {}
    <2>1. y = z
      BY <1>6 DEF OfType
    <2>2. again[k] = k
      BY <1>1, <1>4, <1>6
    <2>3. ServeDNS(fs, k, types) = {rr.data : rr \in OfType(fs[z], t, types)}
      BY <1>1 DEF ServeDNS
    <2> HIDE DEF again
    <2>4. Iterate(again, k, Cardinality(DOMAIN fs)) = k
      BY <1>5, <2>2, StaysThere
    <2> QED
      BY <1>3, <2>1, <2>3, <2>4
  <1>7. CASE OfType(fs[z], t, types) = {}
    <2>1. again[k] = t
      BY <1>1, <1>4, <1>7
    <2>2. again[t] = t
      BY <1>2, <1>4
    <2>3. ServeDNS(fs, t, types) = {rr.data : rr \in OfType(fs[y], t, types)}
      BY <1>2 DEF ServeDNS
    <2> HIDE DEF again
    <2>4. Iterate(again, k, Cardinality(DOMAIN fs)) = t
      BY <1>5, <2>1, <2>2, EndsThere
    <2> QED
      BY <1>3, <2>3, <2>4
  <1> QED
    BY <1>6, <1>7

-----------------------------------------------------------------------------
(* More rows, more records *)

\* Each element of s has one of t's to itself, of its name.
NamesAmong(s, t) ==
    \E f \in [DOMAIN s -> DOMAIN t] :
        /\ \A i, j \in DOMAIN s : f[i] = f[j] => i = j
        /\ \A i \in DOMAIN s : t[f[i]].name = s[i].name

LEMMA AmongIsShorter ==
    ASSUME NEW s, IsSeq(s), NEW t, IsSeq(t), NamesAmong(s, t)
    PROVE  Len(s) <= Len(t)
  <1>1. /\ Len(s) \in Nat /\ DOMAIN s = 1..Len(s)
        /\ Len(t) \in Nat /\ DOMAIN t = 1..Len(t)
    BY SeqFacts
  <1>2. PICK f \in [1..Len(s) -> 1..Len(t)] :
            \A i, j \in 1..Len(s) : f[i] = f[j] => i = j
    BY <1>1 DEF NamesAmong
  <1>3. f \in Injection(1..Len(s), 1..Len(t))
    BY <1>2, Fun_IsInj
  <1>4. ExistsInjection(1..Len(s), 1..Len(t))
    BY <1>3 DEF ExistsInjection
  <1> QED
    BY <1>1, <1>4, Fun_NatInjLeq

\* How many places a sequence has for an element.
Places(s, x) == {i \in DOMAIN s : s[i] = x}

LEMMA PlacesAreFinite ==
    ASSUME NEW s, IsSeq(s), NEW x
    PROVE  IsFiniteSet(Places(s, x))
  <1>1. Places(s, x) \in SUBSET DOMAIN s
    BY DEF Places
  <1> QED
    BY <1>1, FiniteSeq, FS_Subset

LEMMA FewerGoInto ==
    ASSUME NEW S, IsFiniteSet(S), NEW T, IsFiniteSet(T), Cardinality(S) <= Cardinality(T)
    PROVE  \E f \in [S -> T] : \A i, j \in S : f[i] = f[j] => i = j
  <1> DEFINE m == Cardinality(S)
             n == Cardinality(T)
  <1>1. m \in Nat /\ n \in Nat /\ ExistsBijection(1..m, S) /\ ExistsBijection(1..n, T)
    BY FS_CardinalityType
  <1>2. m <= n
    OBVIOUS
  <1>3. ExistsBijection(S, 1..m)
    BY <1>1, Fun_ExistsBijSymmetric
  <1> HIDE DEF m, n
  <1>4. ExistsInjection(S, 1..m) /\ ExistsInjection(1..n, T)
    BY <1>1, <1>3 DEF ExistsInjection, ExistsBijection, Bijection
  <1>5. ExistsInjection(1..m, 1..n)
    BY <1>1, <1>2, Fun_NatInjLeq
  <1>6. ExistsInjection(S, T)
    BY <1>4, <1>5, Fun_ExistsInjTransitive
  <1>7. PICK f : f \in Injection(S, T)
    BY <1>6 DEF ExistsInjection
  <1>8. f \in [S -> T] /\ \A i, j \in S : f[i] = f[j] => i = j
    BY <1>7, Fun_InjectionProperties
  <1> QED
    BY <1>8

LEMMA BagIsAmong ==
    ASSUME NEW s, IsSeq(s), NEW t, IsSeq(t), ToBag(s) \sqsubseteq ToBag(t)
    PROVE  NamesAmong(s, t) /\ ToSet(s) \subseteq ToSet(t)
  <1>1. /\ DOMAIN ToBag(s) = ToSet(s) /\ DOMAIN ToBag(t) = ToSet(t)
        /\ \A x \in ToSet(s) : ToBag(s)[x] = Cardinality(Places(s, x))
        /\ \A x \in ToSet(t) : ToBag(t)[x] = Cardinality(Places(t, x))
    BY DEF ToBag, Range, ToSet, Places
  <1>2. /\ ToSet(s) \subseteq ToSet(t)
        /\ \A x \in ToSet(s) : Cardinality(Places(s, x)) <= Cardinality(Places(t, x))
    BY <1>1 DEF \sqsubseteq
  <1> DEFINE Into(x, f) == /\ f \in [Places(s, x) -> Places(t, x)]
                           /\ \A i, j \in Places(s, x) : f[i] = f[j] => i = j
             h == [x \in ToSet(s) |-> CHOOSE f : Into(x, f)]
             f == [i \in DOMAIN s |-> h[s[i]][i]]
  <1>3. ASSUME NEW x \in ToSet(s)
        PROVE  Into(x, h[x])
    <2>1. \E g : Into(x, g)
      BY <1>2, PlacesAreFinite, FewerGoInto
    <2> QED
      BY <2>1
  <1> HIDE DEF h
  <1>4. ASSUME NEW i \in DOMAIN s
        PROVE  f[i] \in DOMAIN t /\ t[f[i]] = s[i]
    <2>1. s[i] \in ToSet(s) /\ i \in Places(s, s[i])
      BY DEF ToSet, Places
    <2>2. h[s[i]][i] \in Places(t, s[i])
      BY <1>3, <2>1
    <2> QED
      BY <2>2 DEF Places
  <1>5. ASSUME NEW i \in DOMAIN s, NEW j \in DOMAIN s, f[i] = f[j]
        PROVE  i = j
    <2>1. s[i] = s[j]
      BY <1>4, <1>5
    <2>2. s[i] \in ToSet(s) /\ i \in Places(s, s[i]) /\ j \in Places(s, s[i])
      BY <2>1 DEF ToSet, Places
    <2>3. h[s[i]][i] = h[s[i]][j]
      BY <1>5, <2>1
    <2> QED
      BY <1>3, <2>2, <2>3
  <1>6. f \in [DOMAIN s -> DOMAIN t]
    BY <1>4
  <1> HIDE DEF f
  <1>7. NamesAmong(s, t)
    BY <1>4, <1>5, <1>6 DEF NamesAmong
  <1> QED
    BY <1>2, <1>7

\* v has the elements of s at the places in D, in one-to-one correspondence.
TakenFrom(v, s, D) ==
    \E g \in [DOMAIN v -> D] :
        /\ \A i, j \in DOMAIN v : g[i] = g[j] => i = j
        /\ \A d \in D : \E i \in DOMAIN v : g[i] = d
        /\ \A i \in DOMAIN v : v[i] = s[g[i]]

LEMMA TakeOneMore ==
    ASSUME NEW U, NEW v \in Seq(U), NEW s, NEW D, NEW d, d \notin D, s[d] \in U,
           TakenFrom(v, s, D)
    PROVE  TakenFrom(Append(v, s[d]), s, D \cup {d})
  <1> DEFINE w == Append(v, s[d])
             n == Len(v)
  <1>1. /\ n \in Nat /\ DOMAIN v = 1..n /\ DOMAIN w = 1..(n + 1)
        /\ \A i \in 1..n : w[i] = v[i]
        /\ w[n + 1] = s[d]
    OBVIOUS
  <1>2. PICK g \in [1..n -> D] :
            /\ \A i, j \in 1..n : g[i] = g[j] => i = j
            /\ \A e \in D : \E i \in 1..n : g[i] = e
            /\ \A i \in 1..n : v[i] = s[g[i]]
    <2>1. DOMAIN v = 1..n
      BY <1>1
    <2> HIDE DEF n
    <2>2. PICK g \in [DOMAIN v -> D] :
              /\ \A i, j \in DOMAIN v : g[i] = g[j] => i = j
              /\ \A e \in D : \E i \in DOMAIN v : g[i] = e
              /\ \A i \in DOMAIN v : v[i] = s[g[i]]
      BY Zenon DEF TakenFrom
    <2>3. g \in [1..n -> D]
      BY <2>1
    <2>4. \A i, j \in 1..n : g[i] = g[j] => i = j
      BY <2>1, <2>2
    <2>5. \A e \in D : \E i \in 1..n : g[i] = e
      BY <2>1, <2>2
    <2>6. \A i \in 1..n : v[i] = s[g[i]]
      BY <2>1, <2>2
    <2> QED
      BY <2>3, <2>4, <2>5, <2>6
  <1> HIDE DEF w, n
  <1> DEFINE h == [i \in 1..(n + 1) |-> IF i = n + 1 THEN d ELSE g[i]]
  <1>3. \A i \in 1..(n + 1) : i \in 1..n \/ i = n + 1
    BY <1>1
  <1>4. /\ n + 1 \in 1..(n + 1) /\ n + 1 \notin 1..n /\ 1..n \subseteq 1..(n + 1)
    BY <1>1
  <1>5. h[n + 1] = d /\ \A i \in 1..n : h[i] = g[i] /\ g[i] \in D
    BY <1>4
  <1>6. h \in [1..(n + 1) -> D \cup {d}]
    BY <1>3, <1>5
  <1> HIDE DEF h
  <1>7. \A i, j \in 1..(n + 1) : h[i] = h[j] => i = j
    BY <1>2, <1>3, <1>5
  <1>8. \A e \in D \cup {d} : \E i \in 1..(n + 1) : h[i] = e
    BY <1>2, <1>4, <1>5
  <1>9. \A i \in 1..(n + 1) : w[i] = s[h[i]]
    BY <1>1, <1>2, <1>3, <1>5
  <1>10. /\ h \in [DOMAIN w -> D \cup {d}]
         /\ \A i, j \in DOMAIN w : h[i] = h[j] => i = j
         /\ \A e \in D \cup {d} : \E i \in DOMAIN w : h[i] = e
         /\ \A i \in DOMAIN w : w[i] = s[h[i]]
    BY <1>1, <1>6, <1>7, <1>8, <1>9
  <1>11. TakenFrom(w, s, D \cup {d})
    BY <1>10 DEF TakenFrom
  <1> QED
    BY <1>11 DEF w

\* Those takes exactly the places at which s has an element of S.
LEMMA ThoseAreTaken ==
    ASSUME NEW s, IsSeq(s), NEW S
    PROVE  TakenFrom(Those(s, S), s, {i \in DOMAIN s : s[i] \in S})
  <1> DEFINE U == ToSet(s)
             N == Len(s)
             First(k) == {i \in 1..k : s[i] \in S}
  <1>1. s \in Seq(U) /\ N \in Nat /\ DOMAIN s = 1..N /\ \A k \in 1..N : s[k] \in U
    BY SeqFacts DEF IsSeq, ToSet
  <1>2. PICK kept : ThoseSteps(s, S, kept)
    BY <1>1, ThoseHasSteps
  <1> DEFINE T == {k \in 0..N : kept[k] \in Seq(U) /\ TakenFrom(kept[k], s, First(k))}
  <1>3. 0 \in T
    <2>1. kept[0] = <<>> /\ First(0) = {} /\ <<>> \in Seq(U) /\ 0 \in 0..N
      BY <1>1, <1>2 DEF ThoseSteps
    <2>2. TakenFrom(<<>>, s, {})
      <3> DEFINE g == [i \in {} |-> i]
      <3>1. DOMAIN <<>> = {} /\ g \in [{} -> {}]
        OBVIOUS
      <3> HIDE DEF g
      <3> QED
        BY <3>1 DEF TakenFrom
    <2> HIDE DEF First
    <2> QED
      BY <2>1, <2>2
  <1>4. ASSUME NEW n \in 0..N, n < N, n \in T
        PROVE  n + 1 \in T
    <2>1. n + 1 \in 1..N /\ n + 1 \in 0..N /\ (n + 1) - 1 = n /\ n \in Nat
      BY <1>1, <1>4
    <2>2. kept[n + 1] = IF s[n + 1] \in S THEN Append(kept[n], s[n + 1]) ELSE kept[n]
      BY <1>2, <2>1 DEF ThoseSteps
    <2>3. First(n + 1) = IF s[n + 1] \in S THEN First(n) \cup {n + 1} ELSE First(n)
      BY <2>1
    <2>4. n + 1 \notin First(n)
      BY <2>1
    <2>5. kept[n] \in Seq(U) /\ TakenFrom(kept[n], s, First(n)) /\ s[n + 1] \in U
      BY <1>1, <1>4, <2>1
    <2> HIDE DEF First, U
    <2>6. CASE s[n + 1] \in S
      <3>1. TakenFrom(Append(kept[n], s[n + 1]), s, First(n) \cup {n + 1})
        BY <2>4, <2>5, TakeOneMore
      <3>2. Append(kept[n], s[n + 1]) \in Seq(U)
        BY <2>5
      <3> QED
        BY <2>1, <2>2, <2>3, <2>6, <3>1, <3>2
    <2>7. CASE s[n + 1] \notin S
      BY <2>1, <2>2, <2>3, <2>5, <2>7
    <2> QED
      BY <2>6, <2>7
  <1> HIDE DEF T
  <1>5. N \in T
    <2>1. 0..N \subseteq T
      BY <1>1, <1>3, <1>4, Reaches
    <2> QED
      BY <1>1, <2>1
  <1> QED
    BY <1>1, <1>2, <1>5 DEF T, ThoseSteps

\* What is chosen by name from more is more.
LEMMA ThoseAmong ==
    ASSUME NEW s, IsSeq(s), NEW t, IsSeq(t), NamesAmong(s, t), NEW S, NEW T,
           \A x \in ToSet(s), y \in ToSet(t) : (x.name = y.name /\ x \in S) => y \in T
    PROVE  NamesAmong(Those(s, S), Those(t, T))
  <1> DEFINE v == Those(s, S)
             w == Those(t, T)
             I == {i \in DOMAIN s : s[i] \in S}
             J == {j \in DOMAIN t : t[j] \in T}
  <1>1. TakenFrom(v, s, I) /\ TakenFrom(w, t, J)
    BY ThoseAreTaken
  <1> HIDE DEF v, w
  <1>2. PICK f \in [DOMAIN s -> DOMAIN t] :
            /\ \A i, j \in DOMAIN s : f[i] = f[j] => i = j
            /\ \A i \in DOMAIN s : t[f[i]].name = s[i].name
    BY DEF NamesAmong
  <1>3. PICK g \in [DOMAIN v -> I] :
            /\ \A i, j \in DOMAIN v : g[i] = g[j] => i = j
            /\ \A i \in DOMAIN v : v[i] = s[g[i]]
    BY <1>1 DEF TakenFrom
  <1>4. PICK h \in [DOMAIN w -> J] :
            /\ \A j \in J : \E k \in DOMAIN w : h[k] = j
            /\ \A k \in DOMAIN w : w[k] = t[h[k]]
    BY <1>1 DEF TakenFrom
  <1>5. \A i \in DOMAIN v : g[i] \in DOMAIN s /\ f[g[i]] \in J
    BY <1>2, <1>3 DEF ToSet
  <1> DEFINE e == [i \in DOMAIN v |-> CHOOSE k \in DOMAIN w : h[k] = f[g[i]]]
  <1>6. \A i \in DOMAIN v : e[i] \in DOMAIN w /\ h[e[i]] = f[g[i]]
    BY <1>4, <1>5
  <1>7. e \in [DOMAIN v -> DOMAIN w]
    BY <1>6
  <1> HIDE DEF e
  <1>8. \A i, j \in DOMAIN v : e[i] = e[j] => i = j
    BY <1>2, <1>3, <1>5, <1>6
  <1>9. \A i \in DOMAIN v : w[e[i]].name = v[i].name
    BY <1>2, <1>3, <1>4, <1>5, <1>6
  <1>10. NamesAmong(v, w)
    BY <1>7, <1>8, <1>9 DEF NamesAmong
  <1> QED
    BY <1>10 DEF v, w

LEMMA JoinedAt ==
    ASSUME NEW s, IsSeq(s), NEW t, IsSeq(t)
    PROVE  /\ DOMAIN (s \o t) = 1..(Len(s) + Len(t))
           /\ \A i \in 1..Len(s) : (s \o t)[i] = s[i]
           /\ \A i \in 1..Len(t) : (s \o t)[Len(s) + i] = t[i]
  <1> DEFINE U == ToSet(s) \cup ToSet(t)
  <1>1. s \in Seq(U) /\ t \in Seq(U)
    <2>1. Len(s) \in Nat /\ Len(t) \in Nat /\ DOMAIN s = 1..Len(s) /\ DOMAIN t = 1..Len(t)
          /\ s = [i \in 1..Len(s) |-> s[i]] /\ t = [i \in 1..Len(t) |-> t[i]]
      BY SeqFacts
    <2>2. \A i \in 1..Len(s) : s[i] \in U
      BY <2>1 DEF ToSet
    <2>3. \A i \in 1..Len(t) : t[i] \in U
      BY <2>1 DEF ToSet
    <2> HIDE DEF U
    <2> QED
      BY <2>1, <2>2, <2>3
  <1> HIDE DEF U
  <1> QED
    BY <1>1

LEMMA JoinAmong ==
    ASSUME NEW s, IsSeq(s), NEW t, IsSeq(t), NamesAmong(s, t),
           NEW v, IsSeq(v), NEW w, IsSeq(w), NamesAmong(v, w)
    PROVE  NamesAmong(s \o v, t \o w)
  <1> DEFINE m == Len(s)
             n == Len(t)
             x == s \o v
             y == t \o w
  <1>1. /\ m \in Nat /\ DOMAIN s = 1..m /\ n \in Nat /\ DOMAIN t = 1..n
        /\ Len(v) \in Nat /\ DOMAIN v = 1..Len(v) /\ Len(w) \in Nat /\ DOMAIN w = 1..Len(w)
    BY SeqFacts
  <1>2. /\ DOMAIN x = 1..(m + Len(v)) /\ DOMAIN y = 1..(n + Len(w))
        /\ \A i \in 1..m : x[i] = s[i]
        /\ \A i \in 1..Len(v) : x[m + i] = v[i]
        /\ \A i \in 1..n : y[i] = t[i]
        /\ \A i \in 1..Len(w) : y[n + i] = w[i]
    BY JoinedAt
  <1> HIDE DEF m, n, x, y
  <1>3. PICK f \in [1..m -> 1..n] :
            /\ \A i, j \in 1..m : f[i] = f[j] => i = j
            /\ \A i \in 1..m : t[f[i]].name = s[i].name
    BY <1>1 DEF NamesAmong
  <1>4. PICK g \in [1..Len(v) -> 1..Len(w)] :
            /\ \A i, j \in 1..Len(v) : g[i] = g[j] => i = j
            /\ \A i \in 1..Len(v) : w[g[i]].name = v[i].name
    BY <1>1 DEF NamesAmong
  <1> DEFINE h == [i \in DOMAIN x |-> IF i <= m THEN f[i] ELSE n + g[i - m]]
  <1>5. ASSUME NEW i \in DOMAIN x, i <= m
        PROVE  i \in 1..m /\ h[i] = f[i] /\ f[i] \in 1..n /\ f[i] \in DOMAIN y
    BY <1>1, <1>2, <1>3, <1>5
  <1>6. ASSUME NEW i \in DOMAIN x, ~(i <= m)
        PROVE  /\ i - m \in 1..Len(v) /\ i = m + (i - m) /\ h[i] = n + g[i - m]
               /\ g[i - m] \in 1..Len(w) /\ n + g[i - m] \in DOMAIN y
               /\ n + g[i - m] \notin 1..n
    <2>1. i - m \in 1..Len(v) /\ i = m + (i - m) /\ h[i] = n + g[i - m]
      BY <1>1, <1>2, <1>6
    <2>2. g[i - m] \in 1..Len(w)
      BY <1>4, <2>1
    <2> QED
      BY <1>1, <1>2, <2>1, <2>2
  <1> HIDE DEF h
  <1>7. h \in [DOMAIN x -> DOMAIN y]
    <2>1. \A i \in DOMAIN x : h[i] \in DOMAIN y
      BY <1>5, <1>6
    <2>2. h = [i \in DOMAIN x |-> h[i]]
      BY DEF h
    <2> QED
      BY <2>1, <2>2
  <1>8. ASSUME NEW i \in DOMAIN x, NEW j \in DOMAIN x, h[i] = h[j]
        PROVE  i = j
    <2>1. CASE i <= m /\ j <= m
      BY <1>3, <1>5, <1>8, <2>1
    <2>2. CASE ~(i <= m) /\ ~(j <= m)
      <3>1. g[i - m] = g[j - m] /\ i - m \in 1..Len(v) /\ j - m \in 1..Len(v)
        BY <1>1, <1>6, <1>8, <2>2
      <3>2. i - m = j - m
        BY <1>4, <3>1
      <3> QED
        BY <1>6, <2>2, <3>2
    <2>3. CASE i <= m /\ ~(j <= m)
      BY <1>5, <1>6, <1>8, <2>3
    <2>4. CASE ~(i <= m) /\ j <= m
      BY <1>5, <1>6, <1>8, <2>4
    <2> QED
      BY <2>1, <2>2, <2>3, <2>4
  <1>9. ASSUME NEW i \in DOMAIN x
        PROVE  y[h[i]].name = x[i].name
    <2>1. CASE i <= m
      BY <1>2, <1>3, <1>5, <2>1
    <2>2. CASE ~(i <= m)
      <3>1. x[i] = v[i - m] /\ y[h[i]] = w[g[i - m]]
        BY <1>2, <1>6, <2>2
      <3> QED
        BY <1>4, <1>6, <2>2, <3>1
    <2> QED
      BY <2>1, <2>2
  <1>10. NamesAmong(x, y)
    BY <1>7, <1>8, <1>9 DEF NamesAmong
  <1> QED
    BY <1>10 DEF x, y

\* Sequences that are given per position, part of one another position by position.
LEMMA FlattenAmong ==
    ASSUME NEW parts, IsSeq(parts), \A i \in DOMAIN parts : IsSeq(parts[i]),
           NEW more, IsSeq(more), \A i \in DOMAIN more : IsSeq(more[i]),
           Len(parts) = Len(more),
           \A i \in DOMAIN parts : NamesAmong(parts[i], more[i])
    PROVE  NamesAmong(FlattenSeq(parts), FlattenSeq(more))
  <1> DEFINE N == Len(parts)
             U == UNION {ToSet(parts[i]) : i \in DOMAIN parts}
             V == UNION {ToSet(more[i]) : i \in DOMAIN more}
  <1>1. N \in Nat /\ DOMAIN parts = 1..N /\ DOMAIN more = 1..N
    BY SeqFacts
  <1>2. parts \in Seq(Seq(U)) /\ more \in Seq(Seq(V))
    BY AreParts
  <1>3. CASE N = 0
    <2>1. FlattenSeq(parts) = <<>> /\ FlattenSeq(more) = <<>>
      BY <1>1, <1>3 DEF FlattenSeq
    <2> DEFINE f == [i \in {} |-> i]
    <2>2. DOMAIN <<>> = {} /\ f \in [{} -> {}]
      OBVIOUS
    <2> HIDE DEF f
    <2>3. NamesAmong(<<>>, <<>>)
      BY <2>2 DEF NamesAmong
    <2> QED
      BY <2>1, <2>3
  <1>4. CASE N # 0
    <2> DEFINE M == N - 1
    <2>1. M \in Nat /\ M + 1 = N /\ 1 \in 1..N /\ parts # <<>> /\ more # <<>>
      BY <1>1, <1>4
    <2> HIDE DEF U, V
    <2>2. PICK a : FlattenSteps(parts, a)
      BY <1>2, <2>1, FlattenHasSteps
    <2>3. PICK b : FlattenSteps(more, b)
      BY <1>2, <2>1, FlattenHasSteps
    <2> DEFINE T == {k \in 0..M : /\ IsSeq(a[k + 1]) /\ IsSeq(b[k + 1])
                                  /\ NamesAmong(a[k + 1], b[k + 1])}
    <2>4. 0 \in T
      <3>1. 0 \in 0..M /\ 0 + 1 = 1
        BY <2>1
      <3>2. a[1] = parts[1] /\ b[1] = more[1]
        BY <2>2, <2>3 DEF FlattenSteps
      <3> QED
        BY <1>1, <2>1, <3>1, <3>2
    <2>5. ASSUME NEW n \in 0..M, n < M, n \in T
          PROVE  n + 1 \in T
      <3> DEFINE k == n + 1
      <3>1. k \in 0..M /\ k \in 1..M /\ k + 1 \in 1..N
        BY <1>1, <2>1, <2>5
      <3>2. a[k + 1] = a[k] \o parts[k + 1]
        BY <2>2, <3>1 DEF FlattenSteps
      <3>3. b[k + 1] = b[k] \o more[k + 1]
        BY <2>3, <3>1 DEF FlattenSteps
      <3>4. IsSeq(a[k]) /\ IsSeq(b[k]) /\ NamesAmong(a[k], b[k])
        BY <2>5
      <3>5. /\ IsSeq(parts[k + 1]) /\ IsSeq(more[k + 1])
            /\ NamesAmong(parts[k + 1], more[k + 1])
        BY <1>1, <3>1
      <3> HIDE DEF k
      <3>6. IsSeq(a[k + 1]) /\ IsSeq(b[k + 1])
        BY <3>2, <3>3, <3>4, <3>5, JoinIsSeq
      <3>7. NamesAmong(a[k + 1], b[k + 1])
        BY <3>2, <3>3, <3>4, <3>5, JoinAmong
      <3> QED
        BY <3>1, <3>6, <3>7 DEF k
    <2>6. M \in T
      <3> HIDE DEF T
      <3>1. 0..M \subseteq T
        BY <2>1, <2>4, <2>5, Reaches
      <3>2. M \in 0..M
        BY <2>1
      <3> QED
        BY <3>1, <3>2
    <2>7. FlattenSeq(parts) = a[N] /\ FlattenSeq(more) = b[N]
      BY <2>2, <2>3 DEF FlattenSteps
    <2> QED
      BY <2>1, <2>6, <2>7
  <1> QED
    BY <1>3, <1>4

\* A device for which a row is found has one among more rows too.
LEMMA FoundInMore ==
    ASSUME NEW rows, Rows(rows), NEW more, Rows(more), ToSet(rows) \subseteq ToSet(more),
           NEW device
    PROVE  /\ PrimaryIP(rows, device) # <<>> => PrimaryIP(more, device) # <<>>
           /\ BMCIP(rows, device) # <<>> => BMCIP(more, device) # <<>>
  <1>1. ASSUME NEW category, NEW some, Rows(some)
        PROVE  FirstOf(some, device, category) # <<>>
                <=> \E r \in ToSet(some) : r.device = device /\ Category(r) = category
    <2> DEFINE S == {r \in ToSet(some) : r.device = device /\ Category(r) = category}
               these == Those(some, S)
               best == {i \in DOMAIN these : \A j \in DOMAIN these :
                            \/ these[i].iface < these[j].iface
                            \/ these[i].iface = these[j].iface /\ i <= j}
    <2>1. FirstOf(some, device, category)
            = IF these = <<>> THEN <<>> ELSE <<these[CHOOSE i \in best : TRUE]>>
      BY DEF FirstOf
    <2>2. S \subseteq ToSet(some)
      OBVIOUS
    <2>3. IsSeq(these) /\ ToSet(these) = S
      <3> HIDE DEF S
      <3>1. IsSeq(these) /\ ToSet(these) = ToSet(some) \cap S
        BY <1>1, ThoseOf DEF Rows
      <3> QED
        BY <2>2, <3>1
    <2> HIDE DEF these, best
    <2>4. these = <<>> <=> ToSet(these) = {}
      <3>1. /\ Len(these) \in Nat /\ DOMAIN these = 1..Len(these)
            /\ these = [i \in 1..Len(these) |-> these[i]]
        BY <2>3, SeqFacts
      <3>2. Len(these) = 0 <=> ToSet(these) = {}
        <4>1. Len(these) = 0 => DOMAIN these = {}
          BY <3>1
        <4>2. Len(these) # 0 => 1 \in DOMAIN these
          BY <3>1
        <4> QED
          BY <4>1, <4>2 DEF ToSet
      <3>3. these \in Seq(ToSet(these))
        BY <2>3 DEF IsSeq
      <3> QED
        BY <3>2, <3>3
    <2>5. FirstOf(some, device, category) = <<>> <=> these = <<>>
      BY <2>1
    <2>6. S = {} <=> ~\E r \in ToSet(some) : r.device = device /\ Category(r) = category
      OBVIOUS
    <2> HIDE DEF S
    <2> QED
      BY <2>3, <2>4, <2>5, <2>6
  <1>2. ASSUME NEW category, FirstOf(rows, device, category) # <<>>
        PROVE  FirstOf(more, device, category) # <<>>
    BY <1>1, <1>2
  <1> QED
    BY <1>2 DEF PrimaryIP, BMCIP

LEMMA ForRowAmong ==
    ASSUME NEW p, AtMostOne(p), NEW q, AtMostOne(q), p # <<>> => q # <<>>,
           NEW r, NEW x, r.name = x.name
    PROVE  /\ NamesAmong(ForRow(p, r), ForRow(q, x))
           /\ IsSeq(ForRow(p, r)) /\ IsSeq(ForRow(q, x))
  <1>1. PICK k \in {0, 1} : DOMAIN p = 1..k
    BY DEF AtMostOne
  <1>2. PICK l \in {0, 1} : DOMAIN q = 1..l
    BY DEF AtMostOne
  <1>3. k <= l
    BY <1>1, <1>2 DEF AtMostOne
  <1> DEFINE v == ForRow(p, r)
             w == ForRow(q, x)
             f == [i \in 1..k |-> i]
  <1>4. /\ v = [i \in 1..k |-> v[i]] /\ DOMAIN v = 1..k /\ \A i \in 1..k : v[i] = r
        /\ w = [i \in 1..l |-> w[i]] /\ DOMAIN w = 1..l /\ \A i \in 1..l : w[i] = x
    BY <1>1, <1>2 DEF ForRow
  <1>5. f \in [1..k -> 1..l] /\ \A i \in 1..k : f[i] = i /\ i \in 1..l
    BY <1>3
  <1>6. k \in Nat /\ l \in Nat
    OBVIOUS
  <1> HIDE DEF v, w, f
  <1>7. IsSeq(v) /\ IsSeq(w)
    BY <1>4, <1>6, FunIsSeq
  <1>8. NamesAmong(v, w)
    <2>1. f \in [DOMAIN v -> DOMAIN w]
      BY <1>4, <1>5
    <2>2. \A i, j \in DOMAIN v : f[i] = f[j] => i = j
      BY <1>4, <1>5
    <2>3. \A i \in DOMAIN v : w[f[i]].name = v[i].name
      BY <1>4, <1>5
    <2> QED
      BY <2>1, <2>2, <2>3 DEF NamesAmong
  <1> QED
    BY <1>7, <1>8 DEF v, w

\* The names a device's records get among more rows include those they get among
\* fewer.
LEMMA DeviceAmong ==
    ASSUME NEW rows, Rows(rows), NEW more, Rows(more), ToSet(rows) \subseteq ToSet(more),
           NEW device
    PROVE  NamesAmong(DeviceRecords(rows, device), DeviceRecords(more, device))
  <1> DEFINE p    == PrimaryIP(rows, device)
             q    == PrimaryIP(more, device)
             b    == BMCIP(rows, device)
             c    == BMCIP(more, device)
             name == Canonical(device)
             all  == Aliases(device)
             ForAlias(x, y, a) ==
                ForRow(x, AliasRecord(a, name))
                    \o ForRow(y, AliasRecord(BMCName(a), BMCName(name)))
             First(x)  == ForRow(x, AddressRecord(name, x[1].addr))
             Second(y) == ForRow(y, AddressRecord(BMCName(name), y[1].addr))
             Third(x, y) == [i \in DOMAIN all |-> ForAlias(x, y, all[i])]
  <1>1. /\ DeviceRecords(rows, device) = First(p) \o Second(b) \o FlattenSeq(Third(p, b))
        /\ DeviceRecords(more, device) = First(q) \o Second(c) \o FlattenSeq(Third(q, c))
    BY DEF DeviceRecords
  <1>2. AtMostOne(p) /\ AtMostOne(b) /\ AtMostOne(q) /\ AtMostOne(c)
    BY FoundIs
  <1>3. (p # <<>> => q # <<>>) /\ (b # <<>> => c # <<>>)
    BY FoundInMore
  <1>4. IsSeq(all) /\ Len(all) \in Nat /\ DOMAIN all = 1..Len(all)
    BY AliasesAre, SeqFacts
  <1> HIDE DEF p, q, b, c, name, all
  <1>5. \A n, x, y : AddressRecord(n, x).name = n /\ AliasRecord(n, y).name = n
    BY DEF AddressRecord, AliasRecord
  <1>6. /\ NamesAmong(First(p), First(q)) /\ IsSeq(First(p)) /\ IsSeq(First(q))
        /\ NamesAmong(Second(b), Second(c)) /\ IsSeq(Second(b)) /\ IsSeq(Second(c))
    BY <1>2, <1>3, <1>5, ForRowAmong
  <1>7. ASSUME NEW a
        PROVE  /\ NamesAmong(ForAlias(p, b, a), ForAlias(q, c, a))
               /\ IsSeq(ForAlias(p, b, a)) /\ IsSeq(ForAlias(q, c, a))
    <2> DEFINE r == AliasRecord(a, name)
               s == AliasRecord(BMCName(a), BMCName(name))
    <2>1. /\ NamesAmong(ForRow(p, r), ForRow(q, r))
          /\ IsSeq(ForRow(p, r)) /\ IsSeq(ForRow(q, r))
      BY <1>2, <1>3, ForRowAmong
    <2>2. /\ NamesAmong(ForRow(b, s), ForRow(c, s))
          /\ IsSeq(ForRow(b, s)) /\ IsSeq(ForRow(c, s))
      BY <1>2, <1>3, ForRowAmong
    <2> HIDE DEF r, s
    <2>3. /\ IsSeq(ForRow(p, r) \o ForRow(b, s)) /\ IsSeq(ForRow(q, r) \o ForRow(c, s))
          /\ NamesAmong(ForRow(p, r) \o ForRow(b, s), ForRow(q, r) \o ForRow(c, s))
      BY <2>1, <2>2, JoinIsSeq, JoinAmong
    <2> QED
      BY <2>3 DEF r, s
  <1> HIDE DEF First, Second, ForAlias
  <1>8. ASSUME NEW x, NEW y, \A a : IsSeq(ForAlias(x, y, a))
        PROVE  /\ IsSeq(Third(x, y)) /\ Len(Third(x, y)) = Len(all)
               /\ DOMAIN Third(x, y) = DOMAIN all
               /\ \A i \in DOMAIN all : /\ Third(x, y)[i] = ForAlias(x, y, all[i])
                                        /\ IsSeq(Third(x, y)[i])
               /\ IsSeq(FlattenSeq(Third(x, y)))
    <2> DEFINE t == Third(x, y)
    <2>1. t = [i \in 1..Len(all) |-> t[i]] /\ DOMAIN t = DOMAIN all
      BY <1>4
    <2>2. \A i \in DOMAIN all : t[i] = ForAlias(x, y, all[i]) /\ IsSeq(t[i])
      BY <1>8
    <2> HIDE DEF t
    <2>3. IsSeq(t) /\ Len(t) = Len(all)
      BY <1>4, <2>1, FunIsSeq
    <2>4. IsSeq(FlattenSeq(t))
      <3>1. t \in Seq(Seq(UNION {ToSet(t[i]) : i \in DOMAIN t}))
        BY <2>1, <2>2, <2>3, AreParts
      <3> QED
        BY <3>1, FlattenIs, AnySeq
    <2> QED
      BY <2>1, <2>2, <2>3, <2>4 DEF t
  <1>9. /\ NamesAmong(FlattenSeq(Third(p, b)), FlattenSeq(Third(q, c)))
        /\ IsSeq(FlattenSeq(Third(p, b))) /\ IsSeq(FlattenSeq(Third(q, c)))
    <2> DEFINE t == Third(p, b)
               u == Third(q, c)
    <2>1. /\ IsSeq(t) /\ IsSeq(u) /\ Len(t) = Len(u) /\ DOMAIN t = DOMAIN u
          /\ IsSeq(FlattenSeq(t)) /\ IsSeq(FlattenSeq(u))
          /\ \A i \in DOMAIN t : IsSeq(t[i]) /\ IsSeq(u[i])
      BY <1>7, <1>8
    <2>2. \A i \in DOMAIN t : NamesAmong(t[i], u[i])
      BY <1>7, <1>8
    <2> HIDE DEF t, u
    <2>3. NamesAmong(FlattenSeq(t), FlattenSeq(u))
      BY <2>1, <2>2, FlattenAmong
    <2> QED
      BY <2>1, <2>3 DEF t, u
  <1> HIDE DEF Third
  <1>10. /\ IsSeq(First(p) \o Second(b)) /\ IsSeq(First(q) \o Second(c))
         /\ NamesAmong(First(p) \o Second(b), First(q) \o Second(c))
    BY <1>6, JoinIsSeq, JoinAmong
  <1> QED
    BY <1>1, <1>9, <1>10, JoinAmong

\* More rows make the names that fewer make, and as often.
LEMMA EnrichAmong ==
    ASSUME NEW rows, Rows(rows), NEW more, Rows(more),
           NamesAmong(rows, more), ToSet(rows) \subseteq ToSet(more)
    PROVE  NamesAmong(Enrich(rows), Enrich(more))
  <1> DEFINE WithName(s) == {r \in ToSet(s) : r.name # NoName}
             Without(s) == {r \in ToSet(s) : r.name = NoName /\ r.device # NoDevice}
             named(s) == Those(s, WithName(s))
             unnamed(s) == Those(s, Without(s))
             first(s) == [i \in DOMAIN named(s) |->
                    AddressRecord(QualifyDNSName(named(s)[i].name), named(s)[i].addr)]
             parts(s) == [d \in DOMAIN Device |-> DeviceRecords(unnamed(s), Device[d])]
  <1>1. \A s : Enrich(s) = first(s) \o FlattenSeq(parts(s))
    BY DEF Enrich
  <1>2. ASSUME NEW s, Rows(s)
        PROVE  /\ IsSeq(named(s)) /\ Rows(unnamed(s))
               /\ ToSet(unnamed(s)) = ToSet(s) \cap Without(s)
    <2>1. IsSeq(named(s)) /\ IsSeq(unnamed(s)) /\ ToSet(unnamed(s)) = ToSet(s) \cap Without(s)
      <3> HIDE DEF WithName, Without
      <3> QED
        BY <1>2, ThoseOf DEF Rows
    <2> HIDE DEF unnamed, named
    <2> QED
      BY <1>2, <2>1 DEF Rows
  <1>3. NamesAmong(named(rows), named(more))
    <2>1. \A x \in ToSet(rows), y \in ToSet(more) :
            (x.name = y.name /\ x \in WithName(rows)) => y \in WithName(more)
      OBVIOUS
    <2> HIDE DEF WithName
    <2> QED
      BY <2>1, ThoseAmong DEF Rows
  <1>4. ToSet(unnamed(rows)) \subseteq ToSet(unnamed(more))
    <2>1. Without(rows) \subseteq Without(more)
      OBVIOUS
    <2> HIDE DEF unnamed
    <2> QED
      BY <1>2, <2>1
  <1> HIDE DEF named, unnamed
  <1>5. ASSUME NEW s, Rows(s)
        PROVE  /\ IsSeq(first(s)) /\ DOMAIN first(s) = DOMAIN named(s)
               /\ \A i \in DOMAIN named(s) :
                    first(s)[i].name = QualifyDNSName(named(s)[i].name)
    <2>1. Len(named(s)) \in Nat /\ DOMAIN named(s) = 1..Len(named(s))
      BY <1>2, <1>5, SeqFacts
    <2> DEFINE t == first(s)
    <2>2. t = [i \in 1..Len(named(s)) |-> t[i]] /\ DOMAIN t = DOMAIN named(s)
      BY <2>1
    <2>3. \A i \in DOMAIN named(s) : t[i].name = QualifyDNSName(named(s)[i].name)
      BY DEF AddressRecord
    <2> HIDE DEF t
    <2>4. IsSeq(t)
      BY <2>1, <2>2, FunIsSeq
    <2> QED
      BY <2>2, <2>3, <2>4 DEF t
  <1> HIDE DEF first
  <1>6. NamesAmong(first(rows), first(more))
    <2>1. PICK f \in [DOMAIN named(rows) -> DOMAIN named(more)] :
            /\ \A i, j \in DOMAIN named(rows) : f[i] = f[j] => i = j
            /\ \A i \in DOMAIN named(rows) : named(more)[f[i]].name = named(rows)[i].name
      BY <1>3 DEF NamesAmong
    <2>2. f \in [DOMAIN first(rows) -> DOMAIN first(more)]
      BY <1>5, <2>1
    <2>3. \A i, j \in DOMAIN first(rows) : f[i] = f[j] => i = j
      BY <1>5, <2>1
    <2>4. \A i \in DOMAIN first(rows) : first(more)[f[i]].name = first(rows)[i].name
      BY <1>5, <2>1
    <2> QED
      BY <2>2, <2>3, <2>4 DEF NamesAmong
  <1>7. ASSUME NEW s, Rows(s)
        PROVE  /\ IsSeq(parts(s)) /\ Len(parts(s)) = Len(Device)
               /\ DOMAIN parts(s) = DOMAIN Device
               /\ \A d \in DOMAIN Device :
                    /\ parts(s)[d] = DeviceRecords(unnamed(s), Device[d])
                    /\ IsSeq(parts(s)[d])
               /\ IsSeq(FlattenSeq(parts(s)))
    <2> DEFINE t == parts(s)
    <2>1. Len(Device) \in Nat /\ DOMAIN Device = 1..Len(Device)
      BY DeviceNamesAssumption, SeqFacts
    <2>2. t = [d \in 1..Len(Device) |-> t[d]] /\ DOMAIN t = DOMAIN Device
      BY <2>1
    <2>3. \A d \in DOMAIN Device : t[d] = DeviceRecords(unnamed(s), Device[d])
      OBVIOUS
    <2> HIDE DEF t
    <2>4. \A d \in DOMAIN Device : IsSeq(t[d])
      BY <1>2, <1>7, <2>3, DeviceRecordsAre DEF Records
    <2>5. IsSeq(t) /\ Len(t) = Len(Device)
      BY <2>1, <2>2, FunIsSeq
    <2>6. t \in Seq(Seq(UNION {ToSet(t[i]) : i \in DOMAIN t}))
      BY <2>2, <2>4, <2>5, AreParts
    <2>7. IsSeq(FlattenSeq(t))
      BY <2>6, FlattenIs, AnySeq
    <2> QED
      BY <2>2, <2>3, <2>4, <2>5, <2>7 DEF t
  <1> HIDE DEF parts
  <1>8. \A d \in DOMAIN Device : NamesAmong(parts(rows)[d], parts(more)[d])
    BY <1>2, <1>4, <1>7, DeviceAmong
  <1>9. NamesAmong(FlattenSeq(parts(rows)), FlattenSeq(parts(more)))
    BY <1>7, <1>8, FlattenAmong
  <1> QED
    BY <1>1, <1>5, <1>6, <1>7, <1>9, JoinAmong

\* Where records are filed by their names, each zone keeps as many as it had.
LEMMA GroupedAmong ==
    ASSUME NEW s, IsSeq(s), NEW t, IsSeq(t), NamesAmong(s, t),
           NEW zone, DOMAIN zone = ToSet(s), NEW zones, DOMAIN zones = ToSet(t),
           \A x \in ToSet(s), y \in ToSet(t) : x.name = y.name => zones[y] = zone[x],
           NEW z \in DOMAIN GroupBy(s, zone)
    PROVE  /\ z \in DOMAIN GroupBy(t, zones)
           /\ Len(GroupBy(s, zone)[z]) <= Len(GroupBy(t, zones)[z])
  <1> DEFINE S == {r \in ToSet(s) : zone[r] = z}
             T == {r \in ToSet(t) : zones[r] = z}
  <1>1. PICK x \in ToSet(s) : zone[x] = z /\ z # NoZone
    BY DEF GroupBy
  <1>2. PICK i \in DOMAIN s : s[i] = x
    BY DEF ToSet
  <1>3. PICK y \in ToSet(t) : y.name = x.name
    <2>1. PICK f \in [DOMAIN s -> DOMAIN t] : \A j \in DOMAIN s : t[f[j]].name = s[j].name
      BY DEF NamesAmong
    <2>2. t[f[i]] \in ToSet(t) /\ t[f[i]].name = x.name
      BY <1>2, <2>1 DEF ToSet
    <2> QED
      BY <2>2
  <1>4. zones[y] = z
    BY <1>1, <1>3
  <1>5. z \in DOMAIN GroupBy(t, zones)
    BY <1>1, <1>4 DEF GroupBy
  <1>6. GroupBy(s, zone)[z] = Those(s, S) /\ GroupBy(t, zones)[z] = Those(t, T)
    BY <1>5 DEF GroupBy
  <1>7. \A a \in ToSet(s), b \in ToSet(t) : (a.name = b.name /\ a \in S) => b \in T
    OBVIOUS
  <1> HIDE DEF S, T
  <1>8. NamesAmong(Those(s, S), Those(t, T))
    BY <1>7, ThoseAmong
  <1>9. IsSeq(Those(s, S)) /\ IsSeq(Those(t, T))
    BY ThoseOf
  <1> QED
    BY <1>5, <1>6, <1>8, <1>9, AmongIsShorter

LEMMA DiscoverAmong ==
    ASSUME NEW mode, mode.by \in {"zone-depth", "netbox-dns"},
           NEW s, IsSeq(s), NEW t, IsSeq(t), NamesAmong(s, t), NEW z \in DOMAIN Discover(mode, s)
    PROVE  /\ z \in DOMAIN Discover(mode, t)
           /\ Len(Discover(mode, s)[z]) <= Len(Discover(mode, t)[z])
  <1>1. CASE mode.by = "zone-depth"
    <2> DEFINE zone(u) == [r \in ToSet(u) |->
                    LET n == TrimDot(r.name)
                    IN  IF Len(n) < mode.depth THEN NoZone ELSE LastLabels(n, mode.depth)]
    <2>1. \A u : Discover(mode, u) = GroupBy(u, zone(u)) /\ DOMAIN zone(u) = ToSet(u)
      BY <1>1 DEF Discover, ByDepth
    <2>2. \A x \in ToSet(s), y \in ToSet(t) : x.name = y.name => zone(t)[y] = zone(s)[x]
      OBVIOUS
    <2> HIDE DEF zone
    <2> QED
      BY <2>1, <2>2, GroupedAmong
  <1>2. CASE mode.by = "netbox-dns"
    <2> DEFINE zone(u) == [r \in ToSet(u) |-> LongestMatch(r.name, mode.zones)]
    <2>1. \A u : Discover(mode, u) = GroupBy(u, zone(u)) /\ DOMAIN zone(u) = ToSet(u)
      BY <1>2 DEF Discover, ByNetboxDNS
    <2>2. \A x \in ToSet(s), y \in ToSet(t) : x.name = y.name => zone(t)[y] = zone(s)[x]
      OBVIOUS
    <2> HIDE DEF zone
    <2> QED
      BY <2>1, <2>2, GroupedAmong
  <1> QED
    BY <1>1, <1>2
=============================================================================
