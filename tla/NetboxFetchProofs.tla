------------------------- MODULE NetboxFetchProofs -------------------------
(***************************************************************************)
(* What a paginated fetch returns, for every contents of NetBox, page size *)
(* and number of requests at a time: the pages of an undisturbed fetch,    *)
(* put together in their order, are NetBox's records, each once.           *)
(*                                                                         *)
(* What recursion computes is proved with the least counterexample (Least) *)
(* in place of the library's induction rules.                              *)
(***************************************************************************)
EXTENDS NetboxFetch, FiniteSetTheorems, SequenceTheorems, TLAPS

-----------------------------------------------------------------------------
(* Numbers *)

\* Of the sets of what is up to some number in T, the smallest ends with T's least.
LEMMA Least ==
    ASSUME NEW T \in SUBSET Nat, T # {}
    PROVE  \E n \in T : \A m \in T : n <= m
<1> DEFINE UpTo(n) == T \cap (0..n)
           Initial == {UpTo(n) : n \in T}
<1>1. Initial \subseteq FiniteSubsetsOf(Nat) /\ Initial # {}
  <2>1. ASSUME NEW n \in T PROVE IsFiniteSet(UpTo(n)) /\ UpTo(n) \subseteq Nat
    <3>1. IsFiniteSet(0..n) /\ n \in Nat
      BY FS_Interval
    <3> QED
      BY <3>1, FS_Subset
  <2> QED
    BY <2>1 DEF FiniteSubsetsOf
<1> HIDE DEF Initial
<1>2. PICK X \in Initial : \A Y \in Initial : <<Y, X>> \notin StrictSubsetOrdering(Nat)
  BY <1>1, FS_StrictSubsetOrderingWellFounded, WFMin
<1>3. PICK n \in T : X = UpTo(n)
  BY DEF Initial
<1>4. ASSUME NEW m \in T, m < n PROVE FALSE
  <2>1. UpTo(m) \in Initial /\ UpTo(m) \in SUBSET Nat /\ UpTo(n) \in SUBSET Nat
    BY DEF Initial
  <2>2. UpTo(m) \subseteq UpTo(n) /\ n \in UpTo(n) /\ n \notin UpTo(m)
    BY <1>4
  <2> QED
    BY <1>2, <1>3, <2>1, <2>2 DEF StrictSubsetOrdering
<1> QED
  BY <1>4

\* A set of numbers that holds zero and with each number below N the next one
\* holds all the numbers up to N.
LEMMA Reaches ==
    ASSUME NEW N \in Nat, NEW T, 0 \in T,
           \A n \in 0..N : (n < N /\ n \in T) => n + 1 \in T
    PROVE  0..N \subseteq T
<1> DEFINE Missing == {n \in 0..N : n \notin T}
<1>1. CASE Missing = {}
  BY <1>1
<1>2. CASE Missing # {}
  <2>1. Missing \in SUBSET Nat
    OBVIOUS
  <2>2. PICK n \in Missing : \A m \in Missing : n <= m
    BY <1>2, <2>1, Least
  <2>3. n # 0 /\ n - 1 \in 0..N /\ n - 1 < N /\ n - 1 \in T
    BY <2>2
  <2>4. (n - 1) + 1 \in T
    BY <2>3
  <2> QED
    BY <2>2, <2>3, <2>4
<1> QED
  BY <1>1, <1>2

LEMMA MinOfTwo ==
    ASSUME NEW a \in Int, NEW b \in Int
    PROVE  Min({a, b}) = IF a <= b THEN a ELSE b
BY DEF Min

\* The pages hold all the records, and all but the last are full (totalPages).
LEMMA PagesCover ==
    ASSUME NEW total \in Nat
    PROVE  /\ TotalPages(total) \in Nat
           /\ total <= TotalPages(total) * PageSize
           /\ TotalPages(total) * PageSize < total + PageSize
BY NetboxFetchAssumption DEF TotalPages

LEMMA MorePages ==
    ASSUME NEW total \in Nat, NEW more \in Nat, total <= more
    PROVE  TotalPages(total) <= TotalPages(more)
<1>1. PageSize \in Nat \ {0}
  BY NetboxFetchAssumption
<1>2. /\ TotalPages(total) \in Nat /\ TotalPages(more) \in Nat
      /\ TotalPages(total) * PageSize < total + PageSize
      /\ more <= TotalPages(more) * PageSize
  BY PagesCover
<1>3. ASSUME TotalPages(more) + 1 <= TotalPages(total) PROVE FALSE
  <2>1. (TotalPages(more) + 1) * PageSize <= TotalPages(total) * PageSize
    BY <1>1, <1>2, <1>3
  <2>2. (TotalPages(more) + 1) * PageSize = TotalPages(more) * PageSize + PageSize
    BY <1>1, <1>2
  <2> QED
    BY <1>1, <1>2, <2>1, <2>2
<1> QED
  BY <1>2, <1>3

-----------------------------------------------------------------------------
(* NetBox's listing *)

\* There is a record in every place.
LEMMA PlacesFilled ==
    ASSUME NEW S \in SUBSET Nat, IsFiniteSet(S), NEW k \in 1..Cardinality(S)
    PROVE  \E r \in S : Rank(S, r) = k
<1> DEFINE Lacks(k_) == \E A \in SUBSET Nat :
                           /\ IsFiniteSet(A) /\ k_ <= Cardinality(A)
                           /\ \A r \in A : Rank(A, r) # k_
           Lacking == {k_ \in Nat \ {0} : Lacks(k_)}
<1>1. ASSUME Lacking # {} PROVE FALSE
  <2>1. PICK n \in Lacking : \A m \in Lacking : n <= m
    BY <1>1, Least
  <2>2. PICK A \in SUBSET Nat : /\ IsFiniteSet(A) /\ n <= Cardinality(A)
                                /\ \A r \in A : Rank(A, r) # n
    OBVIOUS
  <2>3. Cardinality(A) \in Nat /\ A # {}
    BY <2>2, FS_CardinalityType, FS_EmptySet
  <2>4. PICK first \in A : \A r \in A : first <= r
    BY <2>3, Least
  <2>5. Rank(A, first) = 1
    <3>1. {x \in A : x <= first} = {first}
      <4>1. \A x \in A : x \in Nat
        OBVIOUS
      <4>2. \A x \in A : x <= first <=> x = first
        BY <2>4, <4>1
      <4> QED
        BY <4>2
    <3> QED
      BY <3>1, FS_Singleton DEF Rank
  <2> DEFINE B == A \ {first}
  <2>6. B \in SUBSET Nat /\ IsFiniteSet(B) /\ Cardinality(B) = Cardinality(A) - 1
    BY <2>2, FS_RemoveElement
  <2>7. \A r \in B : Rank(B, r) \in Nat /\ Rank(A, r) = Rank(B, r) + 1
    <3> TAKE r \in B
    <3>1. {x \in A : x <= r} = {x \in B : x <= r} \cup {first}
      BY <2>4
    <3>2. IsFiniteSet({x \in B : x <= r})
      BY <2>6, FS_Subset
    <3>3. first \notin {x \in B : x <= r}
      OBVIOUS
    <3> QED
      BY <3>1, <3>2, <3>3, FS_AddElement, FS_CardinalityType DEF Rank
  <2>8. n # 1
    BY <2>2, <2>5
  <2>9. Lacks(n - 1)
    <3>1. n - 1 <= Cardinality(B)
      BY <2>2, <2>3, <2>6
    <3>2. ASSUME NEW r \in B PROVE Rank(B, r) # n - 1
      <4>1. Rank(B, r) \in Nat /\ Rank(B, r) + 1 # n /\ n \in Nat
        BY <2>2, <2>7
      <4> QED
        BY <4>1
    <3> QED
      BY <2>6, <3>1, <3>2
  <2>10. n - 1 \in Lacking
    BY <2>8, <2>9
  <2> QED
    BY <2>1, <2>10
<1>2. ~Lacks(k)
  <2>1. k \in Nat \ {0}
    BY FS_CardinalityType
  <2> QED
    BY <1>1, <2>1
<1> QED
  BY <1>2, FS_CardinalityType

\* The listing has every record once, in increasing order.
LEMMA ListingIsExact ==
    ASSUME NEW S \in SUBSET Nat, IsFiniteSet(S)
    PROVE  /\ Cardinality(S) \in Nat
           /\ Listing(S) \in Seq(S) /\ Len(Listing(S)) = Cardinality(S)
           /\ \A i, j \in 1..Cardinality(S) : i < j => Listing(S)[i] < Listing(S)[j]
           /\ \A r \in S : /\ Rank(S, r) \in 1..Cardinality(S)
                          /\ Listing(S)[Rank(S, r)] = r
<1>0. \A r \in S : r \in Nat
  OBVIOUS
<1>1. Cardinality(S) \in Nat
  BY FS_CardinalityType
<1>2. \A k \in 1..Cardinality(S) : Listing(S)[k] \in S /\ Rank(S, Listing(S)[k]) = k
  BY PlacesFilled DEF Listing
<1>3. Listing(S) \in [1..Cardinality(S) -> S]
  BY <1>2 DEF Listing
<1>4. Listing(S) \in Seq(S) /\ Len(Listing(S)) = Cardinality(S)
  BY <1>1, <1>3
<1>5. \A q, r \in S : q <= r => Rank(S, q) <= Rank(S, r)
  <2> SUFFICES ASSUME NEW q \in S, NEW r \in S, q <= r
               PROVE  Rank(S, q) <= Rank(S, r)
    OBVIOUS
  <2>1. \A x \in S : x <= q => x <= r
    BY <1>0
  <2>2. IsFiniteSet({x \in S : x <= r})
    BY FS_Subset
  <2>3. {x \in S : x <= q} \in SUBSET {x \in S : x <= r}
    BY <2>1
  <2> QED
    BY <2>1, <2>2, <2>3, FS_Subset DEF Rank
<1>6. \A q, r \in S : q < r => Rank(S, q) < Rank(S, r)
  <2> SUFFICES ASSUME NEW q \in S, NEW r \in S, q < r
               PROVE  Rank(S, q) < Rank(S, r)
    OBVIOUS
  <2> DEFINE Q == {x \in S : x <= q}
             R == {x \in S : x <= r}
  <2>1. Q \in SUBSET R /\ r \in R /\ r \notin Q
    <3>1. q \in Nat /\ r \in Nat /\ ~(r <= q) /\ r <= r
      BY <1>0
    <3>2. \A x \in S : x <= q => x <= r
      BY <1>0, <3>1
    <3> QED
      BY <3>1, <3>2
  <2>2. IsFiniteSet(R)
    BY FS_Subset
  <2>3. Cardinality(Q) <= Cardinality(R) /\ Cardinality(Q) # Cardinality(R)
    BY <2>1, <2>2, FS_Subset
  <2>4. Cardinality(Q) \in Nat /\ Cardinality(R) \in Nat
    BY <2>1, <2>2, FS_Subset, FS_CardinalityType
  <2> QED
    BY <2>3, <2>4 DEF Rank
<1>7. ASSUME NEW i \in 1..Cardinality(S), NEW j \in 1..Cardinality(S), i < j
      PROVE  Listing(S)[i] < Listing(S)[j]
  <2>1. Listing(S)[i] \in S /\ Listing(S)[j] \in S
    BY <1>2
  <2>2. ~(Listing(S)[j] <= Listing(S)[i])
    <3>1. ~(j <= i)
      BY <1>7
    <3>2. Rank(S, Listing(S)[i]) = i /\ Rank(S, Listing(S)[j]) = j
      BY <1>2
    <3> QED
      BY <1>5, <2>1, <3>1, <3>2
  <2>3. Listing(S)[i] \in Nat /\ Listing(S)[j] \in Nat
    BY <1>0, <2>1
  <2> QED
    BY <2>2, <2>3
<1>8. ASSUME NEW r \in S
      PROVE  Rank(S, r) \in 1..Cardinality(S) /\ Listing(S)[Rank(S, r)] = r
  <2>1. Rank(S, r) \in 1..Cardinality(S)
    <3> DEFINE R == {x \in S : x <= r}
    <3>1. R \in SUBSET S /\ r \in R
      OBVIOUS
    <3>2. IsFiniteSet(R) /\ Cardinality(R) <= Cardinality(S)
      BY <3>1, FS_Subset
    <3>3. Cardinality(R) \in Nat /\ Cardinality(R) # 0
      BY <3>1, <3>2, FS_CardinalityType, FS_EmptySet
    <3> QED
      BY <1>1, <3>2, <3>3 DEF Rank
  <2>2. /\ Listing(S)[Rank(S, r)] \in S
        /\ Rank(S, Listing(S)[Rank(S, r)]) = Rank(S, r)
    BY <1>2, <2>1
  <2>3. Rank(S, r) \in Nat
    BY <2>1
  <2>4. Listing(S)[Rank(S, r)] = r
    <3> DEFINE q == Listing(S)[Rank(S, r)]
    <3>1. q \in S /\ Rank(S, q) = Rank(S, r) /\ Rank(S, r) \in Nat
      BY <2>2, <2>3
    <3> HIDE DEF q
    <3>2. ~(q < r) /\ ~(r < q)
      BY <1>6, <3>1
    <3>3. q = r
      BY <1>0, <3>1, <3>2
    <3> QED
      BY <3>3 DEF q
  <2> QED
    BY <2>1, <2>4
<1> QED
  BY <1>1, <1>4, <1>7, <1>8

-----------------------------------------------------------------------------
(* The pages put together *)

\* Appended is what its definition says: such a function exists.
LEMMA AppendedDef ==
    ASSUME Cardinality(Pages) \in Nat
    PROVE  \A n \in 0..Cardinality(Pages) :
              Appended[n] = IF n = 0 THEN <<>> ELSE Appended[n - 1] \o results[n - 1]
<1> DEFINE N == Cardinality(Pages)
           Next_(g, k) == IF k = 0 THEN <<>> ELSE g[k - 1] \o results[k - 1]
           Upto(n) == \E g : g = [k \in 0..n |-> Next_(g, k)]
           T == {n \in 0..N : Upto(n)}
<1>1. 0 \in T
  <2> DEFINE g == [k \in 0..0 |-> <<>>]
  <2>1. g = [k \in 0..0 |-> Next_(g, k)]
    OBVIOUS
  <2>2. Upto(0)
    BY <2>1
  <2> QED
    BY <2>2
<1>2. ASSUME NEW n \in 0..N, n < N, n \in T PROVE n + 1 \in T
  <2>1. PICK g : g = [k \in 0..n |-> Next_(g, k)]
    BY <1>2
  <2> DEFINE h == [k \in 0..(n + 1) |->
                      IF k = n + 1 THEN g[n] \o results[n] ELSE g[k]]
  <2>2. \A k \in 0..(n + 1) : h[k] = Next_(h, k)
    <3>1. ASSUME NEW k \in 0..n PROVE h[k] = Next_(h, k)
      <4>1. n \in Nat /\ k \in Nat /\ k <= n
        OBVIOUS
      <4>2. h[k] = g[k] /\ (k # 0 => h[k - 1] = g[k - 1])
        BY <4>1
      <4> HIDE DEF h
      <4>3. g[k] = IF k = 0 THEN <<>> ELSE g[k - 1] \o results[k - 1]
        BY <2>1
      <4> QED
        BY <4>2, <4>3
    <3>2. h[n + 1] = Next_(h, n + 1)
      BY <1>2
    <3> HIDE DEF h, Next_
    <3>3. \A k \in 0..(n + 1) : k \in 0..n \/ k = n + 1
      OBVIOUS
    <3> QED
      BY <3>1, <3>2, <3>3
  <2>3. h = [k \in 0..(n + 1) |-> h[k]]
    OBVIOUS
  <2> HIDE DEF h, Next_
  <2>4. h = [k \in 0..(n + 1) |-> Next_(h, k)]
    BY <2>2, <2>3
  <2> QED
    BY <1>2, <2>4
<1>3. Upto(N)
  <2> HIDE DEF T
  <2>1. 0..N \subseteq T
    BY <1>1, <1>2, Reaches
  <2> HIDE DEF Upto
  <2>2. N \in 0..N
    OBVIOUS
  <2> QED
    BY <2>1, <2>2 DEF T
<1>4. Appended = [k \in 0..N |-> Next_(Appended, k)]
  BY <1>3 DEF Appended
<1> HIDE DEF Next_
<1>5. \A n \in 0..N : Appended[n] = Next_(Appended, n)
  BY <1>4
<1> QED
  BY <1>5 DEF Next_

\* Whatever the pages hold, records come out.
LEMMA CollectedType ==
    ASSUME Cardinality(Pages) \in Nat, results \in [Pages -> Seq(Record)],
           Pages = 0..(Cardinality(Pages) - 1)
    PROVE  Collected \in Seq(Record)
<1> DEFINE N == Cardinality(Pages)
           T == {n \in 0..N : Appended[n] \in Seq(Record)}
<1>1. 0 \in T
  BY AppendedDef
<1>2. ASSUME NEW n \in 0..N, n < N, n \in T PROVE n + 1 \in T
  <2>1. n \in Nat /\ n + 1 \in 0..N /\ n + 1 # 0 /\ (n + 1) - 1 = n
    BY <1>2
  <2>2. Appended[n + 1] = Appended[n] \o results[n]
    BY <2>1, AppendedDef
  <2>3. results[n] \in Seq(Record) /\ Appended[n] \in Seq(Record)
    BY <1>2, <2>1
  <2>4. Appended[n] \o results[n] \in Seq(Record)
    BY <2>3, ConcatProperties
  <2> QED
    BY <2>1, <2>2, <2>4
<1> HIDE DEF T
<1>3. 0..N \subseteq T
  BY <1>1, <1>2, Reaches
<1> QED
  BY <1>3 DEF T, Collected

\* The records up to the end of page n - 1.
FirstPages(S, n) == SubSeq(Listing(S), 1, Min({Offset(n), Cardinality(S)}))

\* Pages of one and the same contents, put together, are its listing: no record
\* falls between two pages and none is on both (offset and limit of fetchPage).
LEMMA PagesMakeListing ==
    ASSUME NEW S \in SUBSET Nat, IsFiniteSet(S),
           Cardinality(Pages) = TotalPages(Cardinality(S)),
           \A p \in 0..(TotalPages(Cardinality(S)) - 1) :
              results[p] = PageOf(S, Offset(p), PageSize)
    PROVE  Collected = Listing(S)
<1> DEFINE C == Cardinality(S)
           N == TotalPages(C)
           L == Listing(S)
           T == {n \in 0..N : Appended[n] = FirstPages(S, n)}
<1>1. /\ C \in Nat /\ L \in Seq(S) /\ Len(L) = C
      /\ PageSize \in Nat \ {0}
      /\ N \in Nat /\ C <= N * PageSize /\ N * PageSize < C + PageSize
  BY ListingIsExact, PagesCover, NetboxFetchAssumption
<1> HIDE DEF L, C, N
<1>2. \A n \in 0..N : Appended[n] = IF n = 0 THEN <<>>
                                    ELSE Appended[n - 1] \o results[n - 1]
  BY <1>1, AppendedDef DEF N, C
<1>3. \A n \in Nat : Offset(n) = n * PageSize /\ Offset(n) \in Nat
  BY <1>1 DEF Offset
<1>4. 0 \in T
  <2>1. Min({Offset(0), C}) = 0
    <3>1. Offset(0) = 0
      BY <1>1, <1>3
    <3> QED
      BY <1>1, <3>1, MinOfTwo
  <2>2. SubSeq(L, 1, 0) = <<>>
    BY SubSeqEmpty
  <2>3. FirstPages(S, 0) = <<>>
    BY <2>1, <2>2 DEF FirstPages, L, C
  <2>4. 0 \in 0..N
    BY <1>1
  <2> QED
    BY <1>2, <2>3, <2>4
<1>5. ASSUME NEW n \in 0..N, n < N, n \in T PROVE n + 1 \in T
  <2> DEFINE a == Offset(n)
             b == Min({a + PageSize, C})
  <2>1. n \in Nat /\ n <= N - 1
    BY <1>1, <1>5
  <2>2. a \in Nat /\ a = n * PageSize /\ a < C
    <3>1. n * PageSize <= (N - 1) * PageSize
      BY <1>1, <2>1
    <3>2. (N - 1) * PageSize = N * PageSize - PageSize
      BY <1>1
    <3>3. n * PageSize \in Nat /\ N * PageSize \in Nat
      BY <1>1, <2>1
    <3>4. n * PageSize < C
      BY <1>1, <3>1, <3>2, <3>3
    <3> QED
      BY <1>3, <2>1, <3>3, <3>4
  <2>3. Offset(n + 1) = a + PageSize
    <3>1. (n + 1) * PageSize = n * PageSize + PageSize
      BY <1>1, <2>1
    <3> QED
      BY <1>3, <2>1, <2>2, <3>1
  <2>4. Min({a, C}) = a
    BY <1>1, <2>2, MinOfTwo
  <2> HIDE DEF a
  <2>5. b \in Nat /\ a <= b /\ b <= C
    BY <1>1, <2>2, MinOfTwo
  <2> HIDE DEF b
  <2>6. Appended[n] = SubSeq(L, 1, a)
    BY <1>5, <2>4 DEF FirstPages, a, L, C
  <2>7. results[n] = SubSeq(L, a + 1, b)
    <3>1. n \in 0..(N - 1)
      BY <1>1, <2>1
    <3>2. results[n] = PageOf(S, Offset(n), PageSize)
      BY <3>1 DEF N, C
    <3> QED
      BY <3>2 DEF PageOf, a, b, L, C
  <2>8. SubSeq(L, 1, a) \o SubSeq(L, a + 1, b) = SubSeq(L, 1, b)
    BY <1>1, <2>2, <2>5, ConcatAdjacentSubSeq
  <2>9. Appended[n + 1] = Appended[n] \o results[n]
    <3>1. n + 1 \in 0..N /\ n + 1 # 0 /\ (n + 1) - 1 = n
      BY <1>1, <2>1
    <3> QED
      BY <1>2, <3>1
  <2>10. FirstPages(S, n + 1) = SubSeq(L, 1, b)
    BY <2>3 DEF FirstPages, b, L, C
  <2>11. n + 1 \in 0..N
    BY <1>1, <2>1
  <2> QED
    BY <2>6, <2>7, <2>8, <2>9, <2>10, <2>11
<1> HIDE DEF T
<1>6. 0..N \subseteq T
  BY <1>1, <1>4, <1>5, Reaches
<1>7. Appended[N] = FirstPages(S, N)
  BY <1>1, <1>6 DEF T
<1>8. Min({Offset(N), C}) = C
  <2>1. Offset(N) \in Nat /\ C <= Offset(N)
    BY <1>1, <1>3
  <2> QED
    BY <1>1, <2>1, MinOfTwo
<1>9. SubSeq(L, 1, C) = L
  BY <1>1, SubSeqFull
<1> QED
  BY <1>7, <1>8, <1>9 DEF FirstPages, Collected, L, C, N

\* A page holds records.
LEMMA PageType ==
    ASSUME NEW S \in SUBSET Record, NEW p \in Nat
    PROVE  PageOf(S, Offset(p), PageSize) \in Seq(Record)
<1>1. S \in SUBSET Nat /\ IsFiniteSet(S) /\ PageSize \in Nat /\ Offset(p) \in Nat
  <2>1. S \in SUBSET Nat /\ PageSize \in Nat /\ IsFiniteSet(Record)
    BY NetboxFetchAssumption
  <2>2. IsFiniteSet(S)
    BY <2>1, FS_Subset
  <2>3. p * PageSize \in Nat
    BY <2>1
  <2> QED
    BY <2>1, <2>2, <2>3 DEF Offset
<1> DEFINE C == Cardinality(S)
           last == Min({Offset(p) + PageSize, C})
<1>2. C \in Nat /\ Listing(S) \in Seq(S) /\ Len(Listing(S)) = C
  BY <1>1, ListingIsExact
<1> HIDE DEF C
<1>3. last \in Int /\ last <= C
  BY <1>1, <1>2, MinOfTwo
<1> HIDE DEF last
<1>4. \A i \in (Offset(p) + 1)..last : Listing(S)[i] \in Record
  <2> TAKE i \in (Offset(p) + 1)..last
  <2>1. i \in 1..Len(Listing(S))
    BY <1>1, <1>2, <1>3
  <2>2. Listing(S)[i] \in S
    BY <1>2, <2>1, ElementOfSeq
  <2> QED
    BY <2>2
<1>5. SubSeq(Listing(S), Offset(p) + 1, last) \in Seq(Record)
  BY <1>1, <1>3, <1>4, SubSeqProperties
<1> QED
  BY <1>5 DEF PageOf, last, C

-----------------------------------------------------------------------------
(* Types *)

\* The environment, and the fetch without its pages: another attempt is only
\* waited for while there is one left.
RestOK ==
    /\ netbox \in SUBSET Record /\ always \in SUBSET Record
    /\ reachable \in BOOLEAN /\ cancelled \in BOOLEAN
    /\ changes \in 0..MaxChanges /\ shifts \in 0..changes
    /\ pc \in {"idle", "probing", "paging", "backoff", "ok", "failed"}
    /\ attempt \in 0..RetryCount /\ (pc = "backoff" => attempt < RetryCount)

\* The pages are those of some number of records NetBox has had.
PagesOK ==
    /\ \E total \in 0..Cardinality(Record) : Pages = 0..(TotalPages(total) - 1)
    /\ page \in [Pages -> {"queued", "reading", "done", "failed"}]
    /\ IsFiniteSet(Reading) /\ Cardinality(Reading) <= MaxConcurrency
    /\ results \in [Pages -> Seq(Record)]
    /\ \A p \in Pages : page[p] # "done" => results[p] = <<>>

TypeInv == RestOK /\ PagesOK /\ answer \in Seq(Record)

\* Before the probe is answered there are no pages.
LEMMA EmptyPages ==
    ASSUME page' = NoPages, results' = [p \in {} |-> <<>>]
    PROVE  PagesOK'
<1>1. Pages' = {}
  BY DEF Pages, NoPages
<1>2. TotalPages(0) = 0
  BY NetboxFetchAssumption, PagesCover
<1>3. Cardinality(Record) \in Nat
  BY NetboxFetchAssumption, FS_CardinalityType
<1>4. Pages' = 0..(TotalPages(0) - 1) /\ 0 \in 0..Cardinality(Record)
  BY <1>1, <1>2, <1>3
<1>5. Reading' = {}
  BY <1>1 DEF Reading
<1>6. IsFiniteSet(Reading') /\ Cardinality(Reading') <= MaxConcurrency
  BY <1>5, FS_EmptySet, NetboxFetchAssumption
<1> QED
  BY <1>1, <1>4, <1>6 DEF PagesOK, NoPages

\* A request leaves sem, or never was in it.
LEMMA FewerReading ==
    ASSUME PagesOK, Reading' \subseteq Reading
    PROVE  IsFiniteSet(Reading') /\ Cardinality(Reading') <= MaxConcurrency
<1>1. /\ IsFiniteSet(Reading') /\ Cardinality(Reading') <= Cardinality(Reading)
      /\ Cardinality(Reading') \in Nat /\ Cardinality(Reading) \in Nat
  BY FS_Subset, FS_CardinalityType DEF PagesOK
<1> QED
  BY <1>1, NetboxFetchAssumption DEF PagesOK

LEMMA RestStep ==
    ASSUME TypeInv, [Next]_vars
    PROVE  RestOK'
<1> USE DEF RestOK
<1>0. RestOK /\ {MaxChanges, RetryCount} \subseteq Nat
  BY NetboxFetchAssumption DEF TypeInv
<1>1. CASE UNCHANGED vars
  BY <1>0, <1>1 DEF vars, envVars, historyVars
<1>2. CASE Fetch \/ Retry
  BY <1>0, <1>2 DEF Fetch, Retry, BeginAttempt, envVars
<1>3. CASE ProbeAnswered
  BY <1>0, <1>3 DEF ProbeAnswered, envVars
<1>4. CASE ProbeFails \/ Collect
  BY <1>0, <1>4 DEF ProbeFails, Collect, AttemptFails, MoreAttempts, envVars, historyVars
<1>5. CASE StopRetrying
  BY <1>0, <1>5 DEF StopRetrying, envVars, historyVars
<1>6. ASSUME NEW p \in Pages, Acquire(p) \/ PageAnswered(p) \/ PageFails(p)
      PROVE  RestOK'
  BY <1>0, <1>6 DEF Acquire, PageAnswered, PageFails, envVars, historyVars
<1>7. ASSUME NEW r \in Record, NetboxChanges(r)
      PROVE  RestOK'
  BY <1>0, <1>7 DEF NetboxChanges, clientVars, historyVars
<1>8. CASE ReachabilityChanges \/ Cancel
  BY <1>0, <1>8 DEF ReachabilityChanges, Cancel, clientVars, historyVars
<1> QED
  BY <1>1, <1>2, <1>3, <1>4, <1>5, <1>6, <1>7, <1>8 DEF Next, Client

LEMMA PagesStep ==
    ASSUME TypeInv, [Next]_vars
    PROVE  PagesOK'
<1>0. PagesOK
  BY DEF TypeInv
<1>1. ASSUME UNCHANGED <<page, results>> PROVE PagesOK'
  BY <1>0, <1>1 DEF PagesOK, Pages, Reading
<1>2. CASE Fetch \/ Retry
  BY <1>2, EmptyPages DEF Fetch, Retry, BeginAttempt
<1>3. CASE ProbeAnswered
  <2> DEFINE total == Cardinality(netbox)
  <2>1. total \in 0..Cardinality(Record)
    <3>1. netbox \in SUBSET Record /\ IsFiniteSet(Record)
      BY NetboxFetchAssumption DEF TypeInv, RestOK
    <3>2. IsFiniteSet(netbox) /\ total <= Cardinality(Record)
      BY <3>1, FS_Subset
    <3>3. total \in Nat /\ Cardinality(Record) \in Nat
      BY <3>1, <3>2, FS_CardinalityType
    <3> QED
      BY <3>2, <3>3
  <2>2. /\ page' = [p \in 0..(TotalPages(total) - 1) |-> "queued"]
        /\ results' = [p \in 0..(TotalPages(total) - 1) |-> <<>>]
    BY <1>3 DEF ProbeAnswered
  <2> HIDE DEF total
  <2>3. Pages' = 0..(TotalPages(total) - 1) /\ Reading' = {}
    BY <2>2 DEF Pages, Reading
  <2>4. IsFiniteSet(Reading') /\ Cardinality(Reading') <= MaxConcurrency
    BY <2>3, FS_EmptySet, NetboxFetchAssumption
  <2>5. /\ page' \in [Pages' -> {"queued", "reading", "done", "failed"}]
        /\ results' \in [Pages' -> Seq(Record)]
        /\ \A p \in Pages' : results'[p] = <<>>
    BY <2>2, <2>3
  <2> QED
    BY <2>1, <2>3, <2>4, <2>5 DEF PagesOK
<1>4. ASSUME NEW p \in Pages, Acquire(p) PROVE PagesOK'
  <2>1. page' = [page EXCEPT ![p] = "reading"] /\ page[p] = "queued" /\ UNCHANGED results
    BY <1>4 DEF Acquire
  <2>2. Pages' = Pages /\ Reading' = Reading \cup {p} /\ p \notin Reading
    BY <1>0, <2>1 DEF Pages, Reading, PagesOK
  <2>3. /\ IsFiniteSet(Reading')
        /\ Cardinality(Reading') = Cardinality(Reading) + 1
        /\ Cardinality(Reading) \in Nat
    BY <1>0, <2>2, FS_AddElement, FS_CardinalityType DEF PagesOK
  <2>4. Cardinality(Reading') <= MaxConcurrency
    BY <1>4, <2>3, NetboxFetchAssumption DEF Acquire, MayRead
  <2>5. page' \in [Pages -> {"queued", "reading", "done", "failed"}]
    BY <1>0, <2>1 DEF PagesOK
  <2>6. \A q \in Pages : page'[q] # "done" => results[q] = <<>>
    BY <1>0, <2>1 DEF PagesOK
  <2> QED
    BY <1>0, <2>1, <2>2, <2>3, <2>4, <2>5, <2>6 DEF PagesOK
<1>5. ASSUME NEW p \in Pages, PageAnswered(p) PROVE PagesOK'
  <2> DEFINE got == PageOf(netbox, Offset(p), PageSize)
  <2>1. /\ page' = [page EXCEPT ![p] = "done"]
        /\ results' = [results EXCEPT ![p] = got]
    BY <1>5 DEF PageAnswered
  <2>2. got \in Seq(Record)
    <3>1. p \in Nat
      BY <1>0 DEF PagesOK
    <3> QED
      BY <3>1, PageType DEF TypeInv, RestOK
  <2> HIDE DEF got
  <2>3. Pages' = Pages /\ Reading' \subseteq Reading
    BY <1>0, <2>1 DEF Pages, Reading, PagesOK
  <2>4. /\ page' \in [Pages -> {"queued", "reading", "done", "failed"}]
        /\ results' \in [Pages -> Seq(Record)]
        /\ \A q \in Pages : page'[q] # "done" => results'[q] = <<>>
    BY <1>0, <2>1, <2>2 DEF PagesOK
  <2> QED
    BY <1>0, <2>3, <2>4, FewerReading DEF PagesOK
<1>6. ASSUME NEW p \in Pages, PageFails(p) PROVE PagesOK'
  <2>1. /\ page' = [page EXCEPT ![p] = "failed"] /\ page[p] = "reading"
        /\ UNCHANGED results
    BY <1>6 DEF PageFails
  <2>2. Pages' = Pages /\ Reading' \subseteq Reading
    BY <1>0, <2>1 DEF Pages, Reading, PagesOK
  <2>3. /\ page' \in [Pages -> {"queued", "reading", "done", "failed"}]
        /\ \A q \in Pages : page'[q] # "done" => results'[q] = <<>>
    BY <1>0, <2>1 DEF PagesOK
  <2> QED
    BY <1>0, <2>1, <2>2, <2>3, FewerReading DEF PagesOK
<1>7. CASE UNCHANGED vars \/ ProbeFails \/ Collect \/ StopRetrying
  BY <1>1, <1>7 DEF vars, ProbeFails, Collect, StopRetrying
<1>8. CASE (\E r \in Record : NetboxChanges(r)) \/ ReachabilityChanges \/ Cancel
  BY <1>1, <1>8 DEF NetboxChanges, ReachabilityChanges, Cancel, clientVars
<1> QED
  BY <1>2, <1>3, <1>4, <1>5, <1>6, <1>7, <1>8 DEF Next, Client

\* How many pages there are.
LEMMA PagesCounted ==
    ASSUME PagesOK, NEW total \in Nat, Pages = 0..(TotalPages(total) - 1)
    PROVE  Cardinality(Pages) = TotalPages(total) /\ TotalPages(total) \in Nat
<1>1. TotalPages(total) \in Nat
  BY PagesCover
<1> QED
  BY <1>1, FS_Interval

LEMMA AnswerStep ==
    ASSUME TypeInv, [Next]_vars
    PROVE  answer' \in Seq(Record)
<1>1. Collected \in Seq(Record)
  <2>1. PICK total \in 0..Cardinality(Record) : Pages = 0..(TotalPages(total) - 1)
    BY DEF TypeInv, PagesOK
  <2>2. total \in Nat
    OBVIOUS
  <2>3. Cardinality(Pages) = TotalPages(total) /\ TotalPages(total) \in Nat
    BY <2>1, <2>2, PagesCounted DEF TypeInv
  <2> QED
    BY <2>1, <2>3, CollectedType DEF TypeInv, PagesOK
<1>2. answer' \in {answer, <<>>, Collected}
  BY DEF Next, vars, Client, Fetch, BeginAttempt, ProbeAnswered, ProbeFails, Collect,
         AttemptFails, Retry, StopRetrying, Acquire, PageAnswered, PageFails,
         NetboxChanges, ReachabilityChanges, Cancel, clientVars
<1>3. <<>> \in Seq(Record)
  OBVIOUS
<1>4. answer \in Seq(Record)
  BY DEF TypeInv
<1> QED
  BY <1>1, <1>2, <1>3, <1>4

LEMMA TypeInvariant == Spec => []TypeInv
<1>1. Init => TypeInv
  <2> SUFFICES ASSUME Init PROVE TypeInv
    OBVIOUS
  <2>1. Pages = {} /\ Reading = {}
    BY DEF Init, Pages, Reading, NoPages
  <2>2. TotalPages(0) = 0
    BY NetboxFetchAssumption, PagesCover
  <2>3. Cardinality(Record) \in Nat
    BY NetboxFetchAssumption, FS_CardinalityType
  <2>4. PagesOK
    BY <2>1, <2>2, <2>3, FS_EmptySet, NetboxFetchAssumption DEF PagesOK, Init, NoPages
  <2>5. RestOK
    <3>1. {MaxChanges, RetryCount} \subseteq Nat /\ NetboxContents \subseteq SUBSET Record
      BY NetboxFetchAssumption
    <3>2. /\ netbox \in NetboxContents /\ always = netbox /\ reachable \in BOOLEAN
          /\ changes = 0 /\ shifts = 0 /\ cancelled = FALSE /\ pc = "idle"
          /\ attempt = 0
      BY DEF Init
    <3>3. cancelled \in BOOLEAN
      BY <3>2
    <3>4. netbox \in SUBSET Record /\ always \in SUBSET Record
      BY <3>1, <3>2
    <3>5. /\ changes \in 0..MaxChanges /\ shifts \in 0..changes
          /\ attempt \in 0..RetryCount
      BY <3>1, <3>2
    <3> QED
      BY <3>2, <3>3, <3>4, <3>5 DEF RestOK
  <2> QED
    BY <2>4, <2>5 DEF TypeInv, Init
<1>2. TypeInv /\ [Next]_vars => TypeInv'
  BY RestStep, PagesStep, AnswerStep DEF TypeInv
<1> QED
  BY <1>1, <1>2, PTL DEF Spec

\* At most MaxConcurrency requests are out at a time, for no more pages than the
\* records can fill, and no more than RetryCount attempts follow the first (sem;
\* fetchIPAddressesOnce; FetchIPAddresses).
THEOREM TypeCorrect == Spec => []TypeOK
<1>1. TypeInv => TypeOK
  <2> SUFFICES ASSUME TypeInv PROVE TypeOK
    OBVIOUS
  <2>1. PICK total \in 0..Cardinality(Record) : Pages = 0..(TotalPages(total) - 1)
    BY DEF TypeInv, PagesOK
  <2>2. Cardinality(Record) \in Nat
    BY NetboxFetchAssumption, FS_CardinalityType
  <2>3. /\ TotalPages(total) \in Nat /\ TotalPages(Cardinality(Record)) \in Nat
        /\ TotalPages(total) <= TotalPages(Cardinality(Record))
    BY <2>2, PagesCover, MorePages
  <2>4. Pages \subseteq 0..(TotalPages(Cardinality(Record)) - 1)
    BY <2>1, <2>3
  <2> QED
    BY <2>4 DEF TypeInv, RestOK, PagesOK, TypeOK
<1> QED
  BY <1>1, TypeInvariant, PTL

-----------------------------------------------------------------------------
(* Undisturbed fetches *)

\* While NetBox has not changed since the probe, the pages are cut from what it
\* holds; what has been answered of them is exact.
PagesExact ==
    /\ always = netbox
    /\ Pages = 0..(TotalPages(Cardinality(netbox)) - 1)
    /\ \A p \in Pages : page[p] = "done"
                          => results[p] = PageOf(netbox, Offset(p), PageSize)

QuietInv ==
    /\ pc \in {"probing", "paging", "backoff"} => answer = <<>>
    /\ (pc = "paging" /\ shifts = 0) => PagesExact
    /\ QuietIsExact

LEMMA QuietStep ==
    ASSUME TypeInv, QuietInv, [Next]_vars
    PROVE  QuietInv'
<1> USE DEF QuietInv
<1>0. RestOK /\ PagesOK
  BY DEF TypeInv
<1>1. ASSUME UNCHANGED <<netbox, always, shifts, pc, page, results, answer>>
      PROVE  QuietInv'
  BY <1>1 DEF QuietIsExact, PagesExact, Pages
<1>2. CASE Fetch \/ Retry
  BY <1>2 DEF Fetch, Retry, BeginAttempt, QuietIsExact
<1>3. CASE ProbeAnswered
  <2> DEFINE total == Cardinality(netbox)
  <2>1. /\ page' = [p \in 0..(TotalPages(total) - 1) |-> "queued"]
        /\ UNCHANGED <<netbox, answer>> /\ always' = netbox /\ answer = <<>>
        /\ pc' = IF total = 0 THEN "ok" ELSE "paging"
    BY <1>3 DEF ProbeAnswered, envVars
  <2>2. Pages' = 0..(TotalPages(total) - 1) /\ \A p \in Pages' : page'[p] = "queued"
    BY <2>1 DEF Pages
  <2>3. PagesExact'
    BY <2>1, <2>2 DEF PagesExact
  <2>4. total = 0 => Listing(netbox) = <<>>
    <3>1. netbox \in SUBSET Nat /\ IsFiniteSet(netbox)
      <4>1. netbox \in SUBSET Record /\ Record \subseteq Nat /\ IsFiniteSet(Record)
        BY <1>0, NetboxFetchAssumption DEF RestOK
      <4> QED
        BY <4>1, FS_Subset
    <3>2. Listing(netbox) \in Seq(netbox) /\ Len(Listing(netbox)) = total
      BY <3>1, ListingIsExact
    <3> QED
      BY <3>2, EmptySeq
  <2> HIDE DEF total
  <2> QED
    BY <2>1, <2>3, <2>4 DEF QuietIsExact
<1>4. CASE ProbeFails \/ StopRetrying
  BY <1>4 DEF ProbeFails, StopRetrying, AttemptFails, QuietIsExact
<1>5. ASSUME NEW p \in Pages, Acquire(p) \/ PageFails(p)
      PROVE  QuietInv'
  <2>1. /\ page' \in {[page EXCEPT ![p] = "reading"], [page EXCEPT ![p] = "failed"]}
        /\ pc = "paging" /\ UNCHANGED <<netbox, always, shifts, pc, results, answer>>
    BY <1>5 DEF Acquire, PageFails, envVars, historyVars
  <2>2. Pages' = Pages /\ \A q \in Pages : page'[q] = "done" => page[q] = "done"
    BY <1>0, <2>1 DEF Pages, PagesOK
  <2>3. shifts = 0 => PagesExact'
    BY <2>1, <2>2 DEF PagesExact
  <2> QED
    BY <2>1, <2>3 DEF QuietIsExact
<1>6. ASSUME NEW p \in Pages, PageAnswered(p)
      PROVE  QuietInv'
  <2> DEFINE got == PageOf(netbox, Offset(p), PageSize)
  <2>1. /\ page' = [page EXCEPT ![p] = "done"] /\ results' = [results EXCEPT ![p] = got]
        /\ pc = "paging" /\ UNCHANGED <<netbox, always, shifts, pc, answer>>
    BY <1>6 DEF PageAnswered, envVars, historyVars
  <2>2. /\ Pages' = Pages /\ results'[p] = got
        /\ \A q \in Pages \ {p} : page'[q] = page[q] /\ results'[q] = results[q]
    BY <1>0, <2>1 DEF Pages, PagesOK
  <2>3. shifts = 0 => PagesExact'
    BY <2>1, <2>2 DEF PagesExact
  <2> QED
    BY <2>1, <2>3 DEF QuietIsExact
<1>7. CASE Collect
  <2>1. CASE PageFailed
    BY <1>7, <2>1 DEF Collect, AttemptFails, QuietIsExact
  <2>2. CASE ~PageFailed
    <3>1. /\ pc = "paging" /\ pc' = "ok" /\ answer' = Collected
          /\ UNCHANGED <<always, shifts>> /\ \A p \in Pages : page[p] = "done"
      BY <1>7, <2>2 DEF Collect, AllSettled, PageFailed, historyVars
    <3>2. ASSUME shifts = 0 PROVE Collected = Listing(always)
      <4>1. PagesExact
        BY <3>1, <3>2
      <4>2. netbox \in SUBSET Record /\ Record \subseteq Nat /\ IsFiniteSet(Record)
        BY <1>0, NetboxFetchAssumption DEF RestOK
      <4>3. netbox \in SUBSET Nat /\ IsFiniteSet(netbox) /\ Cardinality(netbox) \in Nat
        BY <4>2, FS_Subset, FS_CardinalityType
      <4>4. Cardinality(Pages) = TotalPages(Cardinality(netbox))
        BY <1>0, <4>1, <4>3, PagesCounted DEF PagesExact
      <4>5. \A p \in 0..(TotalPages(Cardinality(netbox)) - 1) :
               results[p] = PageOf(netbox, Offset(p), PageSize)
        BY <3>1, <4>1 DEF PagesExact
      <4>6. Collected = Listing(netbox)
        BY <4>3, <4>4, <4>5, PagesMakeListing
      <4> QED
        BY <4>1, <4>6 DEF PagesExact
    <3> QED
      BY <3>1, <3>2 DEF QuietIsExact
  <2> QED
    BY <2>1, <2>2
<1>8. ASSUME NEW r \in Record, NetboxChanges(r)
      PROVE  QuietInv'
  <2>1. UNCHANGED <<pc, page, results, answer>>
    BY <1>8 DEF NetboxChanges, clientVars
  <2>2. CASE pc = "paging"
    <3>1. shifts' # 0
      BY <1>0, <1>8, <2>2 DEF NetboxChanges, RestOK
    <3> QED
      BY <2>1, <2>2, <3>1 DEF QuietIsExact
  <2>3. CASE pc # "paging"
    BY <1>8, <2>1, <2>3 DEF NetboxChanges, historyVars, QuietIsExact
  <2> QED
    BY <2>2, <2>3
<1>9. CASE UNCHANGED vars \/ ReachabilityChanges \/ Cancel
  BY <1>1, <1>9 DEF vars, envVars, ReachabilityChanges, Cancel, clientVars, historyVars
<1> QED
  BY <1>2, <1>3, <1>4, <1>5, <1>6, <1>7, <1>8, <1>9 DEF Next, Client

\* What a fetch returns that NetBox did not change under is NetBox's listing, by
\* ListingIsExact every record once and in order: whatever the page size, the number
\* of requests at a time and the order of their answers, and whatever earlier
\* attempts had got (N18: a truncated set is never returned).
THEOREM QuietFetchIsExact == Spec => []QuietIsExact
<1>1. Init => QuietInv
  BY DEF Init, QuietInv, QuietIsExact
<1>2. TypeInv /\ QuietInv /\ [Next]_vars => QuietInv'
  BY QuietStep
<1>3. QuietInv => QuietIsExact
  BY DEF QuietInv
<1> QED
  BY <1>1, <1>2, <1>3, TypeInvariant, PTL DEF Spec

-----------------------------------------------------------------------------
(* Disturbed fetches *)

\* What one page holds the fetch returns.
LEMMA CollectedHolds ==
    ASSUME Cardinality(Pages) \in Nat, results \in [Pages -> Seq(Record)],
           Pages = 0..(Cardinality(Pages) - 1), NEW p \in Pages
    PROVE  ToSet(results[p]) \subseteq ToSet(Collected)
<1> DEFINE N == Cardinality(Pages)
           Holds(n) == /\ Appended[n] \in Seq(Record)
                       /\ p < n => ToSet(results[p]) \subseteq ToSet(Appended[n])
           T == {n \in 0..N : Holds(n)}
<1>0. p \in Nat /\ p < N
  OBVIOUS
<1>1. 0 \in T
  <2>1. ~(p < 0) /\ 0 \in 0..N
    BY <1>0
  <2>2. Appended[0] = <<>>
    BY <2>1, AppendedDef
  <2>3. Holds(0)
    BY <2>1, <2>2
  <2> HIDE DEF Holds
  <2> QED
    BY <2>1, <2>3
<1>2. ASSUME NEW n \in 0..N, n < N, n \in T PROVE n + 1 \in T
  <2>1. n \in Nat /\ n + 1 \in 0..N /\ n + 1 # 0 /\ (n + 1) - 1 = n
    BY <1>2
  <2>2. Appended[n + 1] = Appended[n] \o results[n]
    BY <2>1, AppendedDef
  <2>3. results[n] \in Seq(Record) /\ Appended[n] \in Seq(Record)
    BY <1>2, <2>1
  <2>4. /\ Appended[n + 1] \in Seq(Record)
        /\ ToSet(Appended[n + 1]) = ToSet(Appended[n]) \cup ToSet(results[n])
    <3>1. Appended[n + 1] \in Seq(Record)
      BY <2>2, <2>3, ConcatProperties
    <3> DEFINE a == Appended[n]
               b == results[n]
    <3>2. a \in Seq(Record) /\ b \in Seq(Record)
      BY <2>3
    <3> HIDE DEF a, b
    <3>3. ToSet(a \o b) = ToSet(a) \cup ToSet(b)
      <4>1. Range(a \o b) = Range(a) \cup Range(b)
        BY <3>2, RangeConcatenation
      <4> QED
        BY <4>1 DEF Range, ToSet
    <3> QED
      BY <2>2, <3>1, <3>3 DEF a, b
  <2>5. p < n + 1 => p < n \/ p = n
    BY <1>0, <2>1
  <2>6. Holds(n)
    BY <1>2
  <2>7. p < n + 1 => ToSet(results[p]) \subseteq ToSet(Appended[n + 1])
    BY <2>4, <2>5, <2>6
  <2> QED
    BY <2>1, <2>4, <2>7
<1> HIDE DEF T
<1>3. 0..N \subseteq T
  BY <1>1, <1>2, Reaches
<1>4. N \in T
  BY <1>3
<1> QED
  BY <1>0, <1>4 DEF T, Collected

\* A record is on the page of its place.
LEMMA OnItsPage ==
    ASSUME NEW S \in SUBSET Nat, IsFiniteSet(S), NEW r \in S, NEW p \in Nat,
           Offset(p) < Rank(S, r), Rank(S, r) <= Offset(p) + PageSize
    PROVE  r \in ToSet(PageOf(S, Offset(p), PageSize))
<1> DEFINE L == Listing(S)
           C == Cardinality(S)
           k == Rank(S, r)
           last == Min({Offset(p) + PageSize, C})
<1>1. /\ C \in Nat /\ L \in Seq(S) /\ Len(L) = C
      /\ k \in 1..C /\ L[k] = r
  BY ListingIsExact
<1>2. Offset(p) \in Nat /\ PageSize \in Nat
  BY NetboxFetchAssumption DEF Offset
<1> HIDE DEF L, C
<1>3. last \in Nat /\ last <= C /\ k <= last
  BY <1>1, <1>2, MinOfTwo
<1>4. Offset(p) + 1 <= k
  BY <1>1, <1>2
<1> HIDE DEF last, k
<1> DEFINE s == SubSeq(L, Offset(p) + 1, last)
<1>5. \A i \in (Offset(p) + 1)..last : L[i] \in S
  BY <1>1, <1>2, <1>3, ElementOfSeq
<1>6. /\ s \in Seq(S) /\ Len(s) = last - Offset(p)
      /\ \A i \in 1..(last - Offset(p)) : s[i] = L[Offset(p) + i]
  <2>1. /\ s \in Seq(S)
        /\ Len(s) = IF Offset(p) + 1 <= last THEN last - (Offset(p) + 1) + 1 ELSE 0
        /\ \A i \in 1..(last - (Offset(p) + 1) + 1) : s[i] = L[(Offset(p) + 1) + i - 1]
    BY <1>2, <1>3, <1>5, SubSeqProperties
  <2>2. Offset(p) + 1 <= last /\ last - (Offset(p) + 1) + 1 = last - Offset(p)
    BY <1>1, <1>2, <1>3, <1>4
  <2>3. \A i \in 1..(last - Offset(p)) : (Offset(p) + 1) + i - 1 = Offset(p) + i
    BY <1>2, <1>3
  <2> HIDE DEF s
  <2> QED
    BY <2>1, <2>2, <2>3
<1> HIDE DEF s
<1>7. k - Offset(p) \in 1..(last - Offset(p)) /\ Offset(p) + (k - Offset(p)) = k
  BY <1>1, <1>2, <1>3, <1>4
<1>8. s[k - Offset(p)] = r /\ k - Offset(p) \in DOMAIN s
  BY <1>1, <1>6, <1>7
<1> QED
  BY <1>8 DEF ToSet, PageOf, s, last, L, C

\* Places change by at most one for each record that comes or goes.
LEMMA PlaceDrifts ==
    ASSUME NEW A \in SUBSET Nat, NEW D \in SUBSET Nat, NEW S \in SUBSET Nat, NEW r \in A,
           IsFiniteSet(A), IsFiniteSet(D), A \subseteq S, S \subseteq A \cup D
    PROVE  /\ Rank(S, r) \in Nat /\ Rank(A, r) <= Rank(S, r)
           /\ Rank(S, r) <= Rank(A, r) + Cardinality(D)
<1> DEFINE a == {x \in A : x <= r}
           s == {x \in S : x <= r}
<1>1. a \in SUBSET A /\ a \in SUBSET s /\ s \in SUBSET (a \cup D)
  OBVIOUS
<1>2. /\ IsFiniteSet(a) /\ Cardinality(a) \in Nat /\ Cardinality(D) \in Nat
  BY <1>1, FS_Subset, FS_CardinalityType
<1>3. /\ IsFiniteSet(a \cup D) /\ Cardinality(a \cup D) \in Nat
      /\ Cardinality(a \cup D) <= Cardinality(a) + Cardinality(D)
  <2>1. /\ IsFiniteSet(a \cup D)
        /\ Cardinality(a \cup D) = Cardinality(a) + Cardinality(D) - Cardinality(a \cap D)
    BY <1>2, FS_Union
  <2>2. Cardinality(a \cap D) \in Nat /\ Cardinality(a \cup D) \in Nat
    BY <1>2, <2>1, FS_Intersection, FS_CardinalityType
  <2> QED
    BY <1>2, <2>1, <2>2
<1>4. /\ IsFiniteSet(s) /\ Cardinality(s) \in Nat
      /\ Cardinality(s) <= Cardinality(a \cup D)
  BY <1>1, <1>3, FS_Subset, FS_CardinalityType
<1>5. Cardinality(a) <= Cardinality(s)
  BY <1>1, <1>4, FS_Subset
<1> QED
  BY <1>2, <1>3, <1>4, <1>5 DEF Rank

\* A record that every page has missed was pushed off the page of its place, whose
\* last places are as many as there were changes.
LEMMA FewMissed ==
    ASSUME NEW A \in SUBSET Record, NEW D \in SUBSET Record, NEW N \in Nat,
           Cardinality(A) <= N * PageSize, NEW Out \in SUBSET A,
           \A r \in Out, p \in 0..(N - 1) :
              \E S \in SUBSET Record :
                 /\ A \subseteq S /\ S \subseteq A \cup D
                 /\ r \notin ToSet(PageOf(S, Offset(p), PageSize))
    PROVE  IsFiniteSet(Out) /\ Cardinality(Out) <= Cardinality(D) * N
<1> DEFINE d == Cardinality(D)
           PageAt(i) == (i - 1) \div PageSize
           f == [r \in Out |-> <<PageAt(Rank(A, r)),
                                 Offset(PageAt(Rank(A, r))) + PageSize + 1 - Rank(A, r)>>]
           Slots == (0..(N - 1)) \X (1..d)
<1>1. /\ Record \subseteq Nat /\ PageSize \in Nat \ {0}
      /\ A \in SUBSET Nat /\ D \in SUBSET Nat
      /\ IsFiniteSet(A) /\ IsFiniteSet(D) /\ d \in Nat /\ Cardinality(A) \in Nat
      /\ \A S \in SUBSET Record : S \in SUBSET Nat /\ IsFiniteSet(S)
  <2>1. Record \subseteq Nat /\ PageSize \in Nat \ {0} /\ IsFiniteSet(Record)
    BY NetboxFetchAssumption
  <2>2. \A S \in SUBSET Record : S \in SUBSET Nat /\ IsFiniteSet(S)
    BY <2>1, FS_Subset
  <2> QED
    BY <2>1, <2>2, FS_CardinalityType
<1> HIDE DEF d
<1>2. ASSUME NEW i \in 1..Cardinality(A)
      PROVE  /\ PageAt(i) \in 0..(N - 1) /\ Offset(PageAt(i)) \in Nat
             /\ Offset(PageAt(i)) < i /\ i <= Offset(PageAt(i)) + PageSize
  <2> DEFINE p == PageAt(i)
  <2>1. /\ p \in Nat /\ PageSize * p <= i - 1 /\ i - 1 < PageSize * p + PageSize
    <3>1. i - 1 \in Nat /\ PageSize \in Nat \ {0}
      BY <1>1
    <3> QED
      BY <3>1
  <2> HIDE DEF p
  <2>2. Offset(p) = PageSize * p /\ Offset(p) \in Nat
    <3>1. p * PageSize = PageSize * p /\ p * PageSize \in Nat
      BY <1>1, <2>1
    <3> QED
      BY <3>1 DEF Offset
  <2>3. ~(N <= p)
    <3>1. N <= p => N * PageSize <= p * PageSize
      BY <1>1, <2>1
    <3>2. p * PageSize = PageSize * p /\ N * PageSize \in Nat /\ PageSize * p \in Nat
      BY <1>1, <2>1
    <3>3. PageSize * p < N * PageSize
      BY <1>1, <2>1, <3>2
    <3> QED
      BY <3>1, <3>2, <3>3
  <2>4. p \in 0..(N - 1)
    BY <2>1, <2>3
  <2>5. Offset(p) < i /\ i <= Offset(p) + PageSize
    BY <1>1, <2>1, <2>2
  <2> QED
    BY <2>2, <2>4, <2>5 DEF p
<1> HIDE DEF PageAt
<1>3. ASSUME NEW r \in Out
      PROVE  /\ Rank(A, r) \in 1..Cardinality(A) /\ Listing(A)[Rank(A, r)] = r
             /\ f[r] \in Slots
  <2> DEFINE i == Rank(A, r)
             p == PageAt(i)
  <2>1. i \in 1..Cardinality(A) /\ Listing(A)[i] = r
    BY <1>1, ListingIsExact
  <2>2. /\ p \in 0..(N - 1) /\ Offset(p) \in Nat
        /\ Offset(p) < i /\ i <= Offset(p) + PageSize
    BY <1>2, <2>1
  <2> HIDE DEF i, p
  <2>3. PICK S \in SUBSET Record :
           /\ A \subseteq S /\ S \subseteq A \cup D
           /\ r \notin ToSet(PageOf(S, Offset(p), PageSize))
    BY <2>2
  <2>4. Rank(S, r) \in Nat /\ i <= Rank(S, r) /\ Rank(S, r) <= i + d
    BY <1>1, <2>3, PlaceDrifts DEF i, d
  <2>5. Offset(p) + PageSize < Rank(S, r)
    <3>1. p \in Nat /\ Offset(p) < Rank(S, r) /\ S \in SUBSET Nat /\ IsFiniteSet(S) /\ r \in S
      BY <1>1, <2>1, <2>2, <2>3, <2>4
    <3>2. ~(Rank(S, r) <= Offset(p) + PageSize)
      BY <2>3, <3>1, OnItsPage
    <3> QED
      BY <1>1, <2>2, <2>4, <3>2
  <2>6. Offset(p) + PageSize + 1 - i \in 1..d
    BY <1>1, <2>1, <2>2, <2>4, <2>5
  <2>7. f[r] = <<p, Offset(p) + PageSize + 1 - i>>
    BY DEF p, i
  <2> HIDE DEF f
  <2>8. f[r] \in Slots
    BY <2>2, <2>6, <2>7
  <2> QED
    BY <2>1, <2>8 DEF i
<1>4. ASSUME NEW q \in Out, NEW r \in Out, f[q] = f[r] PROVE q = r
  <2> DEFINE i == Rank(A, q)
             j == Rank(A, r)
  <2>1. PageAt(i) = PageAt(j)
    BY <1>4
  <2>2. Offset(PageAt(i)) + PageSize + 1 - i = Offset(PageAt(j)) + PageSize + 1 - j
    BY <1>4
  <2>3. i \in 1..Cardinality(A) /\ j \in 1..Cardinality(A)
    BY <1>3
  <2> HIDE DEF i, j
  <2>5. i \in Nat /\ j \in Nat /\ Offset(PageAt(i)) \in Nat
    BY <1>1, <1>2, <2>3
  <2>4. i = j
    BY <1>1, <2>1, <2>2, <2>5
  <2> QED
    BY <1>3, <2>4 DEF i, j
<1>5. f \in Injection(Out, Slots)
  <2>1. f \in [Out -> Slots]
    BY <1>3
  <2> HIDE DEF f, Slots
  <2> QED
    BY <1>4, <2>1 DEF Injection, IsInjective
<1>6. IsFiniteSet(Slots) /\ Cardinality(Slots) = N * d
  <2>1. /\ IsFiniteSet(0..(N - 1)) /\ Cardinality(0..(N - 1)) = N
        /\ IsFiniteSet(1..d) /\ Cardinality(1..d) = d
    <3>1. 0 \in Int /\ N - 1 \in Int /\ 1 \in Int /\ d \in Int
      BY <1>1
    <3>2. /\ IsFiniteSet(0..(N - 1))
          /\ Cardinality(0..(N - 1)) = IF 0 > N - 1 THEN 0 ELSE (N - 1) - 0 + 1
      BY <3>1, FS_Interval
    <3>3. IsFiniteSet(1..d) /\ Cardinality(1..d) = IF 1 > d THEN 0 ELSE d - 1 + 1
      BY <3>1, FS_Interval
    <3> QED
      BY <1>1, <3>2, <3>3
  <2> DEFINE P == 0..(N - 1)
             Q == 1..d
  <2> HIDE DEF P, Q
  <2>2. IsFiniteSet(P \X Q) /\ Cardinality(P \X Q) = Cardinality(P) * Cardinality(Q)
    BY <2>1, FS_Product DEF P, Q
  <2> QED
    BY <2>1, <2>2 DEF P, Q
<1> HIDE DEF f, Slots
<1>7. IsFiniteSet(Out) /\ Cardinality(Out) <= N * d
  BY <1>5, <1>6, FS_Injection
<1>8. N * d = d * N
  BY <1>1
<1> QED
  BY <1>7, <1>8 DEF d

\* D holds the records that have come or gone since the probe: each page was cut from
\* the records that stayed and some of D, and there were pages enough for those
\* that stayed.
Drifted(D) ==
    /\ Cardinality(D) <= shifts
    /\ always \subseteq netbox /\ netbox \subseteq always \cup D
    /\ Cardinality(always) <= Cardinality(Pages) * PageSize
    /\ \A p \in Pages : page[p] = "done" =>
          \E S \in SUBSET Record :
             /\ always \subseteq S /\ S \subseteq always \cup D
             /\ results[p] = PageOf(S, Offset(p), PageSize)

DriftInv == (pc = "paging" => \E D \in SUBSET Record : Drifted(D)) /\ LossBounded

LEMMA DriftStep ==
    ASSUME TypeInv, DriftInv, [Next]_vars
    PROVE  DriftInv'
<1> USE DEF DriftInv
<1>0. /\ RestOK /\ PagesOK
      /\ \A S \in SUBSET Record : IsFiniteSet(S) /\ Cardinality(S) \in Nat
      /\ \A S \in SUBSET Record : \A T \in SUBSET S : Cardinality(T) <= Cardinality(S)
  <2>1. IsFiniteSet(Record)
    BY NetboxFetchAssumption
  <2>2. \A S \in SUBSET Record : IsFiniteSet(S)
    BY <2>1, FS_Subset
  <2> QED
    BY <2>2, FS_Subset, FS_CardinalityType DEF TypeInv
<1>1. ASSUME UNCHANGED <<netbox, always, shifts, pc, page, results, answer>>
      PROVE  DriftInv'
  BY <1>1 DEF LossBounded, Drifted, Pages
<1>2. CASE Fetch \/ Retry
  BY <1>2 DEF Fetch, Retry, BeginAttempt, LossBounded
<1>3. CASE ProbeAnswered
  <2> DEFINE total == Cardinality(netbox)
  <2>1. /\ page' = [p \in 0..(TotalPages(total) - 1) |-> "queued"]
        /\ UNCHANGED netbox /\ always' = netbox /\ shifts' = 0
        /\ pc' = IF total = 0 THEN "ok" ELSE "paging"
    BY <1>3 DEF ProbeAnswered, envVars
  <2>2. netbox \in SUBSET Record /\ IsFiniteSet(netbox) /\ total \in Nat
    BY <1>0 DEF RestOK
  <2>3. Pages' = 0..(TotalPages(total) - 1) /\ \A p \in Pages' : page'[p] = "queued"
    BY <2>1 DEF Pages
  <2>4. /\ Cardinality(Pages') = TotalPages(total) /\ TotalPages(total) \in Nat
        /\ total <= TotalPages(total) * PageSize
    <3>1. TotalPages(total) \in Nat /\ total <= TotalPages(total) * PageSize
      BY <2>2, PagesCover
    <3>2. Cardinality(0..(TotalPages(total) - 1)) = TotalPages(total)
      BY <3>1, FS_Interval
    <3> QED
      BY <2>3, <3>1, <3>2
  <2>5. Drifted({})'
    BY <2>1, <2>3, <2>4, FS_EmptySet DEF Drifted
  <2>6. total = 0 => LossBounded'
    <3>1. ASSUME total = 0 PROVE always' \ ToSet(answer') = {}
      BY <2>1, <2>2, <3>1, FS_EmptySet
    <3>2. shifts' * Cardinality(Pages') = 0
      BY <2>1, <2>4
    <3> QED
      BY <3>1, <3>2, FS_EmptySet DEF LossBounded
  <2> HIDE DEF total
  <2> QED
    BY <2>1, <2>5, <2>6 DEF LossBounded
<1>4. CASE ProbeFails \/ StopRetrying
  BY <1>4 DEF ProbeFails, StopRetrying, AttemptFails, LossBounded
<1>5. ASSUME NEW p \in Pages, Acquire(p) \/ PageFails(p)
      PROVE  DriftInv'
  <2>1. /\ page' \in {[page EXCEPT ![p] = "reading"], [page EXCEPT ![p] = "failed"]}
        /\ pc = "paging" /\ UNCHANGED <<netbox, always, shifts, pc, results>>
    BY <1>5 DEF Acquire, PageFails, envVars, historyVars
  <2>2. Pages' = Pages /\ \A q \in Pages : page'[q] = "done" => page[q] = "done"
    BY <1>0, <2>1 DEF Pages, PagesOK
  <2>3. \A D \in SUBSET Record : Drifted(D) => Drifted(D)'
    BY <2>1, <2>2 DEF Drifted
  <2> QED
    BY <2>1, <2>3 DEF LossBounded
<1>6. ASSUME NEW p \in Pages, PageAnswered(p)
      PROVE  DriftInv'
  <2> DEFINE got == PageOf(netbox, Offset(p), PageSize)
  <2>1. /\ page' = [page EXCEPT ![p] = "done"] /\ results' = [results EXCEPT ![p] = got]
        /\ pc = "paging" /\ UNCHANGED <<netbox, always, shifts, pc>>
    BY <1>6 DEF PageAnswered, envVars, historyVars
  <2>2. /\ Pages' = Pages /\ results'[p] = got
        /\ \A q \in Pages \ {p} : page'[q] = page[q] /\ results'[q] = results[q]
    BY <1>0, <2>1 DEF Pages, PagesOK
  <2>3. PICK D \in SUBSET Record : Drifted(D)
    BY <2>1
  <2>4. /\ netbox \in SUBSET Record /\ always \subseteq netbox
        /\ netbox \subseteq always \cup D
    BY <1>0, <2>3 DEF RestOK, Drifted
  <2>5. Drifted(D)'
    <3>1. ASSUME NEW q \in Pages, page'[q] = "done"
          PROVE  \E S \in SUBSET Record :
                    /\ always \subseteq S /\ S \subseteq always \cup D
                    /\ results'[q] = PageOf(S, Offset(q), PageSize)
      <4>1. CASE q = p
        BY <2>2, <2>4, <4>1
      <4>2. CASE q # p
        BY <2>2, <2>3, <3>1, <4>2 DEF Drifted
      <4> QED
        BY <4>1, <4>2
    <3> QED
      BY <2>1, <2>2, <2>3, <3>1 DEF Drifted
  <2> QED
    BY <2>1, <2>5 DEF LossBounded
<1>7. CASE Collect
  <2>1. CASE PageFailed
    BY <1>7, <2>1 DEF Collect, AttemptFails, LossBounded
  <2>2. CASE ~PageFailed
    <3>1. /\ pc = "paging" /\ pc' = "ok" /\ answer' = Collected
          /\ UNCHANGED <<always, shifts, page>> /\ \A p \in Pages : page[p] = "done"
      BY <1>7, <2>2 DEF Collect, AllSettled, PageFailed, historyVars
    <3>2. PICK D \in SUBSET Record : Drifted(D)
      BY <3>1
    <3> DEFINE N == Cardinality(Pages)
               Out == always \ ToSet(Collected)
    <3>3. N \in Nat /\ Pages = 0..(N - 1) /\ results \in [Pages -> Seq(Record)]
      <4>1. PICK total \in 0..Cardinality(Record) : Pages = 0..(TotalPages(total) - 1)
        BY <1>0 DEF PagesOK
      <4>2. total \in Nat
        OBVIOUS
      <4> QED
        BY <1>0, <4>1, <4>2, PagesCounted DEF PagesOK
    <3>4. ASSUME NEW r \in Out, NEW p \in 0..(N - 1)
          PROVE  \E S \in SUBSET Record :
                    /\ always \subseteq S /\ S \subseteq always \cup D
                    /\ r \notin ToSet(PageOf(S, Offset(p), PageSize))
      <4>1. p \in Pages /\ ToSet(results[p]) \subseteq ToSet(Collected)
        BY <3>3, CollectedHolds
      <4>2. PICK S \in SUBSET Record :
               /\ always \subseteq S /\ S \subseteq always \cup D
               /\ results[p] = PageOf(S, Offset(p), PageSize)
        BY <3>1, <3>2, <4>1 DEF Drifted
      <4> QED
        BY <4>1, <4>2
    <3>5. /\ always \in SUBSET Record /\ Out \in SUBSET always
          /\ Cardinality(always) <= N * PageSize
      BY <1>0, <3>2 DEF RestOK, Drifted
    <3> HIDE DEF N, Out
    <3>6. Cardinality(Out) <= Cardinality(D) * N /\ IsFiniteSet(Out)
      BY <3>3, <3>4, <3>5, FewMissed
    <3>7. Cardinality(D) * N <= shifts * N
      <4>1. Cardinality(D) \in Nat /\ shifts \in Nat /\ Cardinality(D) <= shifts
        BY <1>0, <3>2 DEF RestOK, Drifted
      <4> QED
        BY <3>3, <4>1
    <3>8. Cardinality(Out) <= shifts * N
      <4>1. /\ Cardinality(Out) \in Nat /\ Cardinality(D) \in Nat /\ shifts \in Nat
        BY <1>0, <3>6, FS_CardinalityType DEF RestOK
      <4>2. Cardinality(D) * N \in Nat /\ shifts * N \in Nat
        BY <3>3, <4>1
      <4> QED
        BY <3>6, <3>7, <4>1, <4>2
    <3> QED
      BY <3>1, <3>8 DEF LossBounded, Out, N, Pages
  <2> QED
    BY <2>1, <2>2
<1>8. ASSUME NEW r \in Record, NetboxChanges(r)
      PROVE  DriftInv'
  <2>1. UNCHANGED <<pc, page, results, answer>> /\ Pages' = Pages
    BY <1>8 DEF NetboxChanges, clientVars, Pages
  <2>2. CASE pc = "paging"
    <3>1. PICK D \in SUBSET Record : Drifted(D)
      BY <2>2
    <3> DEFINE E == D \cup {r}
    <3>2. /\ netbox' = IF r \in netbox THEN netbox \ {r} ELSE netbox \cup {r}
          /\ always' = always \ {r} /\ shifts' = shifts + 1
      BY <1>8, <2>2 DEF NetboxChanges
    <3>3. E \in SUBSET Record /\ always \subseteq always' \cup E /\ always' \subseteq always
      BY <3>2
    <3>4. Cardinality(E) <= shifts'
      <4>1. /\ IsFiniteSet(D) /\ Cardinality(D) \in Nat /\ shifts \in Nat
            /\ Cardinality(D) <= shifts
        BY <1>0, <3>1 DEF RestOK, Drifted
      <4>2. Cardinality(E) = IF r \in D THEN Cardinality(D) ELSE Cardinality(D) + 1
        BY <4>1, FS_AddElement
      <4> QED
        BY <3>2, <4>1, <4>2
    <3>5. always' \subseteq netbox' /\ netbox' \subseteq always' \cup E
      BY <3>1, <3>2 DEF Drifted
    <3>6. Cardinality(always') <= Cardinality(Pages') * PageSize
      <4>1. Cardinality(always') <= Cardinality(always)
        BY <1>0, <3>3 DEF RestOK
      <4>2. Cardinality(always') \in Nat /\ Cardinality(always) \in Nat
        BY <1>0, <3>3 DEF RestOK
      <4>3. Cardinality(always) <= Cardinality(Pages) * PageSize
        BY <3>1 DEF Drifted
      <4>4. Cardinality(Pages) * PageSize \in Nat
        <5>1. PICK total \in 0..Cardinality(Record) : Pages = 0..(TotalPages(total) - 1)
          BY <1>0 DEF PagesOK
        <5>2. total \in Nat
          OBVIOUS
        <5>3. Cardinality(Pages) \in Nat /\ PageSize \in Nat
          BY <1>0, <5>1, <5>2, PagesCounted, NetboxFetchAssumption
        <5> QED
          BY <5>3
      <4> QED
        BY <2>1, <4>1, <4>2, <4>3, <4>4
    <3>7. ASSUME NEW p \in Pages, page[p] = "done"
          PROVE  \E S \in SUBSET Record :
                    /\ always' \subseteq S /\ S \subseteq always' \cup E
                    /\ results[p] = PageOf(S, Offset(p), PageSize)
      <4>1. PICK S \in SUBSET Record :
               /\ always \subseteq S /\ S \subseteq always \cup D
               /\ results[p] = PageOf(S, Offset(p), PageSize)
        BY <3>1, <3>7 DEF Drifted
      <4>2. always' \subseteq S /\ S \subseteq always' \cup E
        BY <3>3, <4>1
      <4> QED
        BY <4>1, <4>2
    <3> HIDE DEF E
    <3>8. Drifted(E)'
      BY <2>1, <3>4, <3>5, <3>6, <3>7 DEF Drifted
    <3> QED
      BY <2>1, <2>2, <3>3, <3>8 DEF LossBounded
  <2>3. CASE pc # "paging"
    BY <1>8, <2>1, <2>3 DEF NetboxChanges, historyVars, LossBounded
  <2> QED
    BY <2>2, <2>3
<1>9. CASE UNCHANGED vars \/ ReachabilityChanges \/ Cancel
  BY <1>1, <1>9 DEF vars, envVars, ReachabilityChanges, Cancel, clientVars, historyVars
<1> QED
  BY <1>2, <1>3, <1>4, <1>5, <1>6, <1>7, <1>8, <1>9 DEF Next, Client

\* Each change in NetBox costs a fetch at most one record per page of those that
\* NetBox held all along, wherever between the requests it falls (the pages are cut
\* by offset; nothing compares the total of the probe with what has arrived).
THEOREM LossIsBounded == Spec => []LossBounded
<1>1. Init => DriftInv
  BY DEF Init, DriftInv, LossBounded
<1>2. TypeInv /\ DriftInv /\ [Next]_vars => DriftInv'
  BY DriftStep
<1>3. DriftInv => LossBounded
  BY DEF DriftInv
<1> QED
  BY <1>1, <1>2, <1>3, TypeInvariant, PTL DEF Spec
=============================================================================
