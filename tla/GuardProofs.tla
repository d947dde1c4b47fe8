---------------------------- MODULE GuardProofs ----------------------------
(***************************************************************************)
(* What the shrink guard comes to: its verdict is monotone, the files on   *)
(* disk never shrink further than it allows without a consent, and no      *)
(* answer of NetBox empties them.                                          *)
(***************************************************************************)
EXTENDS SidecarProofs

-----------------------------------------------------------------------------
(* Counts *)

\* A part of a record set has no zone with more records.
LEMMA CountsMonotone ==
    ASSUME NEW S \in SUBSET Name, NEW T \in SUBSET S
    PROVE  /\ CountsOf(T).total \in Nat /\ CountsOf(S).total \in Nat
           /\ CountsOf(T).total <= CountsOf(S).total
           /\ \A z \in Zone : /\ CountsOf(T).zones[z] \in Nat
                              /\ CountsOf(S).zones[z] \in Nat
                              /\ CountsOf(T).zones[z] <= CountsOf(S).zones[z]
<1>1. IsFiniteSet(S)
  BY FS_Subset, SidecarAssumption
<1>2. ASSUME NEW A \in SUBSET S, NEW B \in SUBSET A
      PROVE  /\ Cardinality(A) \in Nat /\ Cardinality(B) \in Nat
             /\ Cardinality(B) <= Cardinality(A)
  BY <1>1, FS_Subset, FS_CardinalityType
<1>3. Routed(S) \in SUBSET S /\ Routed(T) \in SUBSET Routed(S)
  BY DEF Routed
<1>4. \A z \in Zone : InZone(z, S) \in SUBSET S /\ InZone(z, T) \in SUBSET InZone(z, S)
  BY DEF InZone
<1> QED
  BY <1>2, <1>3, <1>4 DEF CountsOf

\* The records that map to no zone do not count (Discover, countZoneRecords).
LEMMA OnlyRoutedCounts ==
    ASSUME NEW S \in SUBSET Name
    PROVE  CountsOf(Routed(S)) = CountsOf(S)
<1>1. Routed(Routed(S)) = Routed(S)
  BY DEF Routed
<1>2. \A z \in Zone : InZone(z, Routed(S)) = InZone(z, S)
  BY ZoneAssumption DEF InZone, Routed, NoZone
<1> QED
  BY <1>1, <1>2 DEF CountsOf

\* Only a record set without routed records counts nothing.
LEMMA ZeroIsEmpty ==
    ASSUME NEW S \in SUBSET Name
    PROVE  CountsOf(S).total = 0 <=> Routed(S) = {}
<1>1. IsFiniteSet(Routed(S))
  BY FS_Subset, SidecarAssumption DEF Routed
<1> QED
  BY <1>1, FS_EmptySet DEF CountsOf

-----------------------------------------------------------------------------
(* The verdict *)

\* A larger loss trips whatever a smaller one trips (trips).
LEMMA TripsMonotone ==
    ASSUME NEW d \in Int, NEW e \in Int, d <= e, NEW was \in Nat,
           NEW drop \in Fraction, NEW min \in Int, Trips(d, was, drop, min)
    PROVE  Trips(e, was, drop, min)
<1>1. drop.num \in Int /\ drop.den \in Nat \ {0}
  BY DEF Fraction
<1>2. d * drop.den <= e * drop.den
  BY <1>1
<1>3. /\ d * drop.den \in Int /\ e * drop.den \in Int /\ drop.num * was \in Int
      /\ d * drop.den > drop.num * was
  BY <1>1 DEF Trips
<1>4. e * drop.den > drop.num * was
  BY <1>2, <1>3
<1>5. e > 0 /\ e > min
  BY DEF Trips
<1> QED
  BY <1>4, <1>5 DEF Trips

\* What Evaluate refuses, it refuses of every part of the candidate too.
LEMMA EvaluateMonotone ==
    ASSUME NEW prev \in Baseline, NEW S \in SUBSET Name, NEW T \in SUBSET S,
           Evaluate(prev, CountsOf(S)).refuse
    PROVE  Evaluate(prev, CountsOf(T)).refuse
<1> DEFINE s == CountsOf(S)
           t == CountsOf(T)
<1>1. /\ s.total \in Nat /\ t.total \in Nat /\ t.total <= s.total
      /\ \A z \in Zone : /\ s.zones[z] \in Nat /\ t.zones[z] \in Nat
                         /\ t.zones[z] <= s.zones[z]
  BY CountsMonotone
<1>2. /\ prev.total \in Nat /\ \A z \in Zone : prev.zones[z] \in Nat
      /\ Guard.globalDrop \in Fraction /\ Guard.globalMin \in Int
      /\ Guard.zoneDrop \in Fraction /\ Guard.zoneMin \in Int
  BY GuardAssumption DEF Baseline, Config
<1> HIDE DEF s, t
<1>3. EmptyResult(prev, s.total).refuse => EmptyResult(prev, t.total).refuse
  BY <1>1 DEF EmptyResult, Refusal, Pass
<1>4. GlobalTrips(prev, s) => GlobalTrips(prev, t)
  <2>1. prev.total - s.total <= prev.total - t.total
    BY <1>1, <1>2
  <2> QED
    BY <1>1, <1>2, <2>1, TripsMonotone DEF GlobalTrips
<1>5. ZonesTripping(prev, s) \subseteq ZonesTripping(prev, t)
  <2> SUFFICES ASSUME NEW z \in Zone,
                      Trips(Dropped(prev, s, z), prev.zones[z], Guard.zoneDrop, Guard.zoneMin)
               PROVE  Trips(Dropped(prev, t, z), prev.zones[z], Guard.zoneDrop, Guard.zoneMin)
    BY DEF ZonesTripping
  <2>1. /\ Dropped(prev, s, z) \in Int /\ Dropped(prev, t, z) \in Int
        /\ Dropped(prev, s, z) <= Dropped(prev, t, z)
    BY <1>1, <1>2 DEF Dropped
  <2> QED
    BY <1>2, <2>1, TripsMonotone
<1>6. Evaluate(prev, s).refuse
  BY DEF s
<1>7. Evaluate(prev, t).refuse
  BY <1>3, <1>4, <1>5, <1>6 DEF Evaluate, EmptyResult, Refusal, Pass
<1> QED
  BY <1>7 DEF t

\* A record set replaces itself.
LEMMA SamePasses ==
    ASSUME NEW c \in Baseline, ~c.onDisk
    PROVE  ~Evaluate(c, c).refuse
<1>1. c.total - c.total = 0 /\ \A z \in Zone : Dropped(c, c, z) = 0
  BY DEF Baseline, Dropped
<1>2. ~GlobalTrips(c, c) /\ ZonesTripping(c, c) = {}
  BY <1>1 DEF GlobalTrips, ZonesTripping, Trips
<1>3. ~EmptyResult(c, c.total).refuse
  BY DEF EmptyResult, Pass, Baseline
<1> QED
  BY <1>2, <1>3 DEF Evaluate, Pass

\* No part of a record set that a poll is refused for would have passed: losing
\* more is never safer, whatever the policy's fractions and floors (Evaluate).
THEOREM RefusalsAreMonotone == Spec => []RefusalMonotone
<1>1. TypeOK => RefusalMonotone
  <2> SUFFICES ASSUME TypeOK, Verdict.refuse, NEW S \in SUBSET fetched
               PROVE  Evaluate(lastBaseline, CountsOf(S)).refuse
    BY DEF RefusalMonotone
  <2>1. lastBaseline \in Baseline /\ fetched \in SUBSET Name
    BY DEF TypeOK
  <2> QED
    BY <2>1, EvaluateMonotone DEF Verdict, Candidate
<1> QED
  BY <1>1, TypeCorrect, PTL

-----------------------------------------------------------------------------
(* The baseline *)

\* Once a poll has been accepted the baseline counts the records the loop merges;
\* before that there are none of either.
BaselineInv ==
    /\ lastNetboxZones \subseteq Routed(Name)
    /\ IF fetchSucceededOnce THEN lastBaseline = CountsOf(lastNetboxZones)
       ELSE lastBaseline.total = 0 /\ lastNetboxZones = {}
    /\ pc = "down" => ~fetchSucceededOnce

\* A refused poll moves neither the baseline nor the zones (doFetchNetbox), an
\* accepted one moves both.
LEMMA BaselineStep ==
    ASSUME TypeOK, BaselineInv, [Next]_vars
    PROVE  BaselineInv'
<1> USE DEF BaselineInv
<1>1. ASSUME UNCHANGED <<lastNetboxZones, lastBaseline, fetchSucceededOnce>>,
             pc' = "down" => pc = "down"
      PROVE  BaselineInv'
  BY <1>1
<1>2. CASE Start
  BY <1>2 DEF Start, BeginFetch, StartBaseline, NoBaseline
<1>3. CASE AcceptPoll
  <2>1. fetched \in SUBSET Name
    BY DEF TypeOK
  <2>2. Candidate = CountsOf(Routed(fetched))
    BY <2>1, OnlyRoutedCounts DEF Candidate
  <2> QED
    BY <1>3, <2>1, <2>2 DEF AcceptPoll, Routed
<1>4. CASE RefuseEmpty \/ RefuseShrink
  BY <1>1, <1>4 DEF RefuseEmpty, RefuseShrink, BaselineAfterRefusal, PollError
<1>5. CASE FetchFails \/ DiscoverFails
  BY <1>1, <1>5 DEF FetchFails, DiscoverFails, PollError
<1>6. CASE TickerFires \/ TakeNetboxSignal \/ TakeWebhookPollSignal
           \/ TakeMergeSignal \/ FetchReads
  BY <1>1, <1>6 DEF TickerFires, TakeNetboxSignal, TakeWebhookPollSignal,
                    TakeMergeSignal, FetchReads, BeginFetch
<1>7. CASE MergeGated \/ ListZones \/ (\E z \in unread : ReadZone(z)) \/ MergeWrites
           \/ MergeFails \/ Push
  BY <1>1, <1>7 DEF MergeGated, ListZones, ReadZone, MergeWrites, MergeFails, Push,
                    EndCycle
<1>8. CASE Handlers
  BY <1>1, <1>8, HandlersLeaveLoop DEF loopUnchanged, loopVars
<1>9. CASE Crash
  BY <1>9 DEF Crash, NoBaseline
<1>10. CASE \/ NetboxChanges \/ NetboxOutage \/ CooldownPasses
            \/ \E r \in Replica : PodPolls(r)
            \/ UNCHANGED vars
  BY <1>1, <1>10 DEF NetboxChanges, NetboxOutage, CooldownPasses, PodPolls, vars,
                     loopVars
<1> QED
  BY <1>2, <1>3, <1>4, <1>5, <1>6, <1>7, <1>8, <1>9, <1>10
  DEF Next, Loop, Environment

LEMMA BaselineInvariant == Spec => []BaselineInv
<1>1. Init => BaselineInv
  BY DEF Init, BaselineInv, NoBaseline
<1>2. TypeOK /\ BaselineInv /\ [Next]_vars => BaselineInv'
  BY BaselineStep
<1> QED
  BY <1>1, <1>2, TypeCorrect, PTL DEF Spec

-----------------------------------------------------------------------------
(* What the files serve *)

\* Every record that maps to a zone is in the merge, as NetBox's or as the store's
\* (merge.Write).
LEMMA MergeServes ==
    ASSUME NEW nb \in SUBSET Routed(Name), NEW dyn, NEW bk, NEW n \in nb
    PROVE  /\ ZoneOf[n] \in Zone
           /\ Merged(nb, dyn, bk)[ZoneOf[n]] = MergedZone(ZoneOf[n], nb, dyn)
           /\ n \in dyn => <<n, "dynamic">> \in MergedZone(ZoneOf[n], nb, dyn)
           /\ n \notin dyn => <<n, "netbox">> \in MergedZone(ZoneOf[n], nb, dyn)
<1>1. n \in Name /\ ZoneOf[n] \in Zone
  BY SidecarAssumption DEF Routed
<1>2. n \in InZone(ZoneOf[n], nb)
  BY DEF InZone
<1> QED
  BY <1>1, <1>2 DEF Merged, MergedZone, InZone

\* The NetBox records that a merge's files serve are those the store does not
\* shadow.
LEMMA MergedNetbox ==
    ASSUME NEW nb \in SUBSET Routed(Name), NEW dyn \in SUBSET Name, NEW bk
    PROVE  {n \in Name : <<n, "netbox">> \in FilesOf(Merged(nb, dyn, bk))}
                = nb \ dyn
<1> DEFINE m == Merged(nb, dyn, bk)
<1>0. ASSUME NEW z \in Zone
      PROVE  MergedZone(z, nb, dyn) # Missing
  <2>1. MergedZone(z, nb, dyn) \in Content
    BY DEF MergedZone, Content, InZone, Routed
  <2> QED
    BY <2>1, SidecarAssumption
<1>1. ASSUME NEW n \in Name, <<n, "netbox">> \in FilesOf(m)
      PROVE  n \in nb \ dyn
  <2>1. PICK z \in Zone : m[z] # Missing /\ <<n, "netbox">> \in m[z]
    BY <1>1 DEF FilesOf
  <2>2. m[z] = MergedZone(z, nb, dyn)
    BY <2>1 DEF Merged
  <2> QED
    BY <2>1, <2>2 DEF MergedZone, InZone
<1>2. ASSUME NEW n \in nb \ dyn
      PROVE  n \in Name /\ <<n, "netbox">> \in FilesOf(m)
  <2>1. n \in Name
    BY DEF Routed
  <2>2. n \notin dyn
    OBVIOUS
  <2>3. /\ ZoneOf[n] \in Zone
        /\ m[ZoneOf[n]] = MergedZone(ZoneOf[n], nb, dyn)
        /\ <<n, "netbox">> \in MergedZone(ZoneOf[n], nb, dyn)
    <3>1. n \in nb
      OBVIOUS
    <3> HIDE DEF m
    <3> QED
      BY <2>2, <3>1, MergeServes DEF m
  <2>4. m[ZoneOf[n]] # Missing
    BY <1>0, <2>3
  <2> HIDE DEF m
  <2> QED
    BY <2>1, <2>3, <2>4 DEF FilesOf
<1> QED
  BY <1>1, <1>2

-----------------------------------------------------------------------------
(* No shrink without consent *)

\* What the guard has let through: while the files and the records to merge
\* differ, it is the step from the one to the other.  The store is empty here.
GuardInv ==
    /\ view = {} /\ \A n \in Name : store[n] = "absent"
    /\ (fetchSucceededOnce /\ pc \notin {"merging", "reading"})
            => NetboxOnDisk = lastNetboxZones
    /\ grounds = "guarded" =>
         /\ fetchSucceededOnce
         /\ ~Evaluate(CountsOf(NetboxOnDisk), CountsOf(lastNetboxZones)).refuse

\* Steps that leave the files and the records to merge alone.
LEMMA GuardCalm ==
    ASSUME GuardInv,
           UNCHANGED <<disk, lastNetboxZones, fetchSucceededOnce, grounds>>,
           view' = {}, \A n \in Name : store'[n] = "absent",
           \/ pc' \in {"merging", "reading"} \/ pc \notin {"merging", "reading"}
           \/ ~fetchSucceededOnce
    PROVE  GuardInv'
BY DEF GuardInv, NetboxOnDisk

\* Without dynamic names the store stays empty: fetches age and reconcile what is
\* not there.
LEMMA StoreEmpty ==
    ASSUME DynName = {}, TypeOK, \A n \in Name : store[n] = "absent", [Next]_vars
    PROVE  \A n \in Name : store'[n] = "absent"
<1>1. CASE store' = store
  BY <1>1
<1>2. CASE Start \/ TickerFires \/ TakeNetboxSignal \/ TakeWebhookPollSignal
  BY <1>2 DEF Start, TickerFires, TakeNetboxSignal, TakeWebhookPollSignal,
              BeginFetch, Aged
<1>3. CASE AcceptPoll
  BY <1>3 DEF AcceptPoll, Reconciled
<1>4. CASE TakeMergeSignal \/ FetchFails \/ FetchReads \/ RefuseEmpty \/ DiscoverFails
           \/ RefuseShrink \/ MergeGated \/ ListZones
           \/ (\E z \in unread : ReadZone(z)) \/ MergeWrites \/ MergeFails \/ Push
  BY <1>1, <1>4
  DEF TakeMergeSignal, FetchFails, FetchReads, RefuseEmpty, DiscoverFails,
      RefuseShrink, MergeGated, ListZones, ReadZone, MergeWrites, MergeFails, Push,
      PollError, storeVars
<1>5. CASE \E z \in DynZone : CreateZone(z) \/ DeleteZone(z)
  BY <1>5 DEF CreateZone, DeleteZone
<1>6. CASE ArmConsent \/ SendArmedPoll \/ ForceNetboxPoll \/ ForceMergeWrite
           \/ HookTriggersPoll \/ SendMerge
  BY <1>1, <1>6 DEF ArmConsent, SendArmedPoll, ForceNetboxPoll, ForceMergeWrite,
                    HookTriggersPoll, SendMerge, storeVars
<1>7. CASE Environment \/ UNCHANGED vars
  BY <1>1, <1>7 DEF Environment, NetboxChanges, NetboxOutage, CooldownPasses, Crash,
                    PodPolls, vars, storeVars
<1> QED
  BY <1>2, <1>3, <1>4, <1>5, <1>6, <1>7 DEF Next, Loop, Handlers

\* The guard compares with what is on disk, and what it lets through is what the
\* next merge writes.
LEMMA GuardStep ==
    ASSUME DynName = {}, ~WriteMayFail, TypeOK, GenInv, BaselineInv, GuardInv,
           [Next]_vars
    PROVE  GuardInv'
<1>0. \A n \in Name : store'[n] = "absent"
  BY StoreEmpty DEF GuardInv
<1>1. CASE \/ Start \/ TickerFires \/ TakeNetboxSignal \/ TakeWebhookPollSignal
           \/ TakeMergeSignal \/ FetchReads
  BY <1>0, <1>1, GuardCalm
  DEF Start, TickerFires, TakeNetboxSignal, TakeWebhookPollSignal, TakeMergeSignal,
      FetchReads, BeginFetch, fileVars, readVars, GuardInv
<1>2. CASE FetchFails \/ RefuseEmpty \/ DiscoverFails \/ RefuseShrink
  BY <1>0, <1>2, GuardCalm
  DEF FetchFails, RefuseEmpty, DiscoverFails, RefuseShrink, PollError, fileVars,
      readVars, GuardInv
<1>3. CASE AcceptPoll
  <2>1. NetboxOnDisk' = NetboxOnDisk /\ lastNetboxZones' = Routed(fetched)
    BY <1>3 DEF AcceptPoll, fileVars, NetboxOnDisk
  <2>2. ASSUME grounds' = "guarded"
        PROVE  /\ NetboxOnDisk = lastNetboxZones /\ ~Verdict.refuse
               /\ lastBaseline = CountsOf(lastNetboxZones)
    BY <1>3, <2>2 DEF AcceptPoll, BaselineInv, GuardInv
  <2>3. CountsOf(Routed(fetched)) = Candidate
    BY OnlyRoutedCounts DEF TypeOK, Candidate
  <2> QED
    BY <1>0, <1>3, <2>1, <2>2, <2>3 DEF AcceptPoll, GuardInv, Verdict, readVars
<1>4. CASE MergeGated
  BY <1>0, <1>4, GuardCalm DEF MergeGated, GateOpen, MergeAllowed,
                                fileVars, readVars, GuardInv
<1>5. CASE MergeWrites
  <2>1. disk' = ToPublish /\ UNCHANGED <<lastNetboxZones, fetchSucceededOnce, grounds>>
    BY <1>5, ToPublishType, UpdateIsComplete DEF MergeWrites
  <2>2. view = {} /\ view' = {}
    BY <1>5 DEF MergeWrites, EndRead, GuardInv
  <2>3. lastNetboxZones \in SUBSET Routed(Name)
    BY DEF BaselineInv
  <2>4. NetboxOnDisk' = lastNetboxZones'
    BY <2>1, <2>2, <2>3, MergedNetbox DEF NetboxOnDisk, ToPublish
  <2>5. /\ CountsOf(lastNetboxZones) \in Baseline
        /\ ~CountsOf(lastNetboxZones).onDisk
    BY CountsType DEF TypeOK, CountsOf
  <2> QED
    BY <1>0, <2>1, <2>2, <2>4, <2>5, SamePasses DEF GuardInv
<1>6. CASE Push
  BY <1>0, <1>6, GuardCalm DEF Push, EndCycle, fileVars, readVars, GuardInv
<1>7. CASE Handlers
  BY <1>0, <1>7, GuardCalm, HandlersLeaveLoop
  DEF loopUnchanged, fileVars, loopVars, readVars, GuardInv
<1>8. CASE Crash
  BY <1>0, <1>8 DEF Crash, EndRead, GuardInv
<1>9. CASE \/ NetboxChanges \/ NetboxOutage \/ CooldownPasses
           \/ \E r \in Replica : PodPolls(r)
           \/ UNCHANGED vars
  BY <1>0, <1>9, GuardCalm
  DEF NetboxChanges, NetboxOutage, CooldownPasses, PodPolls, vars, fileVars, loopVars,
      readVars, GuardInv
<1>10. CASE ListZones \/ \E z \in unread : ReadZone(z)
  <2>1. Dynamic(store) = {}
    BY DEF Dynamic, GuardInv
  <2>2. view' = {}
    BY <1>10, <2>1 DEF ListZones, ReadZone, InZone, GuardInv
  <2> QED
    BY <1>0, <1>10, <2>2, GuardCalm DEF ListZones, ReadZone, fileVars
<1> QED
  BY <1>1, <1>2, <1>3, <1>4, <1>5, <1>6, <1>7, <1>8, <1>9, <1>10
  DEF Next, Loop, Environment, MergeFails

\* The files never go from one NetBox record set to another that the guard refuses
\* without a consent, whatever the policy and however many polls are refused, fail
\* or are never merged in between (fetchNetbox, refuseShrink, Evaluate).
THEOREM ShrinksAreGuarded ==
    ASSUME DynName = {}, ~WriteMayFail
    PROVE  Spec => ShrinkNeedsConsent
<1>1. Init => GuardInv
  BY DEF Init, GuardInv
<1>2. TypeOK /\ GenInv /\ BaselineInv /\ GuardInv /\ [Next]_vars => GuardInv'
  BY GuardStep
<1>3. TypeOK /\ GenInv /\ BaselineInv /\ GuardInv /\ GuardInv' /\ [Next]_vars
        => [(pc' # "down" /\ grounds = "guarded")
              => ~Evaluate(CountsOf(NetboxOnDisk), CountsOf(NetboxOnDisk')).refuse]_disk
  <2> SUFFICES ASSUME TypeOK, GenInv, BaselineInv, GuardInv, GuardInv', [Next]_vars,
                      disk' # disk, pc' # "down", grounds = "guarded"
               PROVE  ~Evaluate(CountsOf(NetboxOnDisk), CountsOf(NetboxOnDisk')).refuse
    OBVIOUS
  <2>1. MergeWrites
    BY WhoWritesFiles DEF MergeFails, Crash
  <2>2. pc' \notin {"merging", "reading"} /\ UNCHANGED <<lastNetboxZones, fetchSucceededOnce>>
    BY <2>1 DEF MergeWrites, EndCycle
  <2>3. NetboxOnDisk' = lastNetboxZones
    BY <2>2 DEF GuardInv
  <2> QED
    BY <2>3 DEF GuardInv
<1> QED
  BY <1>1, <1>2, <1>3, TypeCorrect, GenInvariant, BaselineInvariant, PTL
  DEF Spec, ShrinkNeedsConsent

-----------------------------------------------------------------------------
(* No answer empties the files *)

\* Where nobody consents: if the loop has no records to merge, the files have none
\* to lose, unless the process has found files and not yet fetched.
EmptyInv ==
    /\ ~armed
    /\ (Up /\ lastNetboxZones = {} /\ ~lastBaseline.onDisk) => NetboxOnDisk = {}

\* An answer without records passes only where none were published (EmptyResult).
LEMMA EmptyPasses ==
    ASSUME TypeOK, BaselineInv, ~armed, AcceptPoll, Routed(fetched) = {}
    PROVE  lastNetboxZones = {} /\ ~lastBaseline.onDisk
<1>1. Candidate.total = 0
  BY ZeroIsEmpty DEF Candidate, TypeOK
<1>2. lastBaseline.total = 0 /\ ~lastBaseline.onDisk
  <2>1. ~Verdict.refuse
    BY DEF AcceptPoll
  <2>2. lastBaseline.total \in Nat
    BY DEF TypeOK, Baseline
  <2> QED
    BY <1>1, <2>1, <2>2 DEF Verdict, Evaluate, EmptyResult, Refusal
<1>3. Routed(lastNetboxZones) = lastNetboxZones /\ lastNetboxZones \in SUBSET Name
  BY DEF BaselineInv, Routed
<1> QED
  BY <1>2, <1>3, ZeroIsEmpty DEF BaselineInv

LEMMA EmptyStep ==
    ASSUME ~AllowShrink, ~WriteMayFail, TypeOK, GenInv, BaselineInv, EmptyInv,
           [Next]_vars
    PROVE  EmptyInv'
<1> USE DEF Up
<1>1. ASSUME ~armed', UNCHANGED <<disk, lastNetboxZones, lastBaseline>>,
             pc' # "down" => pc # "down"
      PROVE  EmptyInv'
  BY <1>1 DEF EmptyInv, NetboxOnDisk
<1>2. CASE Start
  <2>1. ~armed' /\ UNCHANGED disk /\ lastBaseline' = StartBaseline(disk, tmp)
    BY <1>2 DEF Start, fileVars, signalVars, EmptyInv
  <2>2. ~lastBaseline'.onDisk => ~HasZoneFile(disk)
    BY <2>1 DEF StartBaseline, NoBaseline, HasExistingZones
  <2>3. ~HasZoneFile(disk) => NetboxOnDisk = {}
    BY DEF HasZoneFile, NetboxOnDisk, FilesOf
  <2> QED
    BY <2>1, <2>2, <2>3 DEF EmptyInv, NetboxOnDisk
<1>3. CASE AcceptPoll
  <2>1. /\ ~armed' /\ UNCHANGED disk /\ pc # "down"
        /\ lastNetboxZones' = Routed(fetched)
    BY <1>3 DEF AcceptPoll, ArmedAfter, fileVars
  <2>2. Routed(fetched) = {} => NetboxOnDisk = {}
    BY <1>3, <2>1, EmptyPasses DEF EmptyInv
  <2> QED
    BY <2>1, <2>2 DEF EmptyInv, NetboxOnDisk
<1>4. CASE MergeWrites
  <2>1. ~armed' /\ disk' = ToPublish /\ UNCHANGED lastNetboxZones
    BY <1>4, ToPublishType, UpdateIsComplete DEF MergeWrites, signalVars, EmptyInv
  <2>2. lastNetboxZones \in SUBSET Routed(Name)
    BY DEF BaselineInv
  <2>3. NetboxOnDisk' \subseteq lastNetboxZones'
    BY <2>1, <2>2, MergedNetbox DEF NetboxOnDisk, ToPublish, TypeOK
  <2> QED
    BY <2>1, <2>3 DEF EmptyInv
<1>5. CASE FetchFails \/ RefuseEmpty \/ DiscoverFails \/ RefuseShrink
  BY <1>1, <1>5
  DEF FetchFails, RefuseEmpty, DiscoverFails, RefuseShrink, PollError, fileVars,
      ArmedAfter, BaselineAfterRefusal, EmptyInv
<1>6. CASE TickerFires \/ TakeNetboxSignal \/ TakeWebhookPollSignal
           \/ TakeMergeSignal \/ FetchReads
  BY <1>1, <1>6
  DEF TickerFires, TakeNetboxSignal, TakeWebhookPollSignal, TakeMergeSignal,
      FetchReads, BeginFetch, fileVars, signalVars, EmptyInv
<1>7. CASE MergeGated \/ ListZones \/ (\E z \in unread : ReadZone(z)) \/ Push
  BY <1>1, <1>7
  DEF MergeGated, ListZones, ReadZone, Push, EndCycle, fileVars, signalVars, EmptyInv
<1>8. CASE Handlers
  <2>1. ~armed'
    BY <1>8
    DEF EmptyInv, Handlers, ArmConsent, SendArmedPoll, ForceNetboxPoll,
        ForceMergeWrite, HookTriggersPoll, SendMerge, UpsertRecord, DeleteRecord,
        HookDelete, HookUpsert, CreateZone, DeleteZone, PutRecord, HandlerWrote
  <2> QED
    BY <1>1, <1>8, <2>1, HandlersLeaveLoop DEF loopUnchanged, fileVars, loopVars
<1>9. CASE Crash
  BY <1>9 DEF Crash, EmptyInv
<1>10. CASE \/ NetboxChanges \/ NetboxOutage \/ CooldownPasses
            \/ \E r \in Replica : PodPolls(r)
            \/ UNCHANGED vars
  BY <1>1, <1>10
  DEF NetboxChanges, NetboxOutage, CooldownPasses, PodPolls, vars, fileVars,
      loopVars, signalVars, EmptyInv
<1> QED
  BY <1>2, <1>3, <1>4, <1>5, <1>6, <1>7, <1>8, <1>9, <1>10
  DEF Next, Loop, Environment, MergeFails

\* A zone that is in a merge by its records is not empty there.
LEMMA RecordsAreServed ==
    ASSUME TypeOK, BaselineInv, NEW z \in Zone, InZone(z, lastNetboxZones) # {}
    PROVE  ToPublish[z] # Missing /\ ToPublish[z] # {}
<1>1. PICK n \in lastNetboxZones : ZoneOf[n] = z
  BY DEF InZone
<1>2. lastNetboxZones \in SUBSET Routed(Name)
  BY DEF BaselineInv
<1>3. ToPublish[z] = MergedZone(z, lastNetboxZones, view) /\ ToPublish[z] # {}
  <2>1. /\ ToPublish[z] = MergedZone(z, lastNetboxZones, view)
        /\ \/ <<n, "dynamic">> \in MergedZone(z, lastNetboxZones, view)
           \/ <<n, "netbox">> \in MergedZone(z, lastNetboxZones, view)
    BY <1>1, <1>2, MergeServes DEF ToPublish
  <2> HIDE DEF ToPublish
  <2> QED
    BY <2>1
<1>4. MergedZone(z, lastNetboxZones, view) \in Content
  BY DEF TypeOK, MergedZone, InZone, Content
<1> QED
  BY <1>3, <1>4, SidecarAssumption

\* An Update that is cut off has not emptied anything: it writes before it removes,
\* and without zone entries of the store it writes no empty file.
LEMMA CutOffServes ==
    ASSUME TypeOK, GenInv, BaselineInv, EmptyInv, listed = {},
           NetboxOnDisk # {}, lastNetboxZones # {},
           NEW u \in InterruptedUpdates(ToPublish)
    PROVE  FilesOf(u.disk) # {}
<1>1. \A z \in Zone : ToPublish[z] # Missing => ToPublish[z] # {}
  BY RecordsAreServed DEF ToPublish, Merged
<1>2. ASSUME NEW f \in ToWrite(ToPublish), u \in InterruptedWrites(ToPublish, f)
      PROVE  FilesOf(u.disk) # {}
  <2>1. u.disk = Written(ToPublish, BeforeZone(ToPublish, f))
    BY <1>2 DEF InterruptedWrites
  <2>2. PICK y \in Zone : disk[y] # Missing /\ disk[y] # {}
    BY DEF NetboxOnDisk, FilesOf
  <2>3. u.disk[y] # Missing /\ u.disk[y] # {}
    BY <1>1, <2>1, <2>2 DEF Written, BeforeZone, ToWrite
  <2> QED
    BY <2>3 DEF FilesOf
<1>3. ASSUME u \in InterruptedRemovals(ToPublish)
      PROVE  FilesOf(u.disk) # {}
  <2>1. PICK R \in SUBSET Orphans(ToPublish) :
            u.disk = Without(Written(ToPublish, ToWrite(ToPublish)), R)
    BY <1>3 DEF InterruptedRemovals
  <2>2. PICK n : n \in lastNetboxZones
    OBVIOUS
  <2>3. ZoneOf[n] \in Zone /\ InZone(ZoneOf[n], lastNetboxZones) # {}
    BY <2>2, SidecarAssumption DEF BaselineInv, Routed, InZone
  <2>4. PICK y \in Zone : ToPublish[y] # Missing /\ ToPublish[y] # {}
    BY <2>3, RecordsAreServed
  <2>5. Written(ToPublish, ToWrite(ToPublish))[y] = ToPublish[y] /\ y \notin R
    BY <2>1, <2>4, ToPublishType, UpdateIsComplete DEF Orphans
  <2>6. u.disk[y] # Missing /\ u.disk[y] # {}
    BY <2>1, <2>4, <2>5 DEF Without
  <2> QED
    BY <2>6 DEF FilesOf
<1> QED
  BY <1>2, <1>3 DEF InterruptedUpdates

\* Files that serve NetBox records never come to serve nothing, unless an operator
\* consents: not by an answer of NetBox, not across restarts, not by a merge that
\* is killed between any two of its file operations (EmptyResult, mergeAllowed,
\* Update).
THEOREM NeverEmptied ==
    ASSUME ~AllowShrink, ~WriteMayFail
    PROVE  Spec => ServedNeverEmptied
<1>1. Init => EmptyInv
  BY DEF Init, EmptyInv, Up
<1>2. TypeOK /\ GenInv /\ BaselineInv /\ EmptyInv /\ [Next]_vars => EmptyInv'
  BY EmptyStep
<1>3. TypeOK /\ GenInv /\ GateInv /\ BaselineInv /\ EmptyInv /\ [Next]_vars
        => [(NetboxOnDisk # {} /\ (Up' \/ listed = {})) => FilesOf(disk') # {}]_disk
  <2> SUFFICES ASSUME TypeOK, GenInv, GateInv, BaselineInv, EmptyInv, [Next]_vars,
                      disk' # disk, NetboxOnDisk # {}, Up' \/ listed = {}
               PROVE  FilesOf(disk') # {}
    OBVIOUS
  <2>1. MergeWrites \/ (Crash /\ StoreRead)
    BY WhoWritesFiles DEF MergeFails
  <2>2. StoreRead /\ fetchSucceededOnce
    <3>1. HasZoneFile(disk)
      BY DEF NetboxOnDisk, FilesOf, HasZoneFile
    <3>2. StoreRead /\ GateOpen
      BY <2>1 DEF MergeWrites, StoreRead, GateInv
    <3> QED
      BY <3>1, <3>2 DEF GateOpen, MergeAllowed, HasExistingZones
  <2>3. lastNetboxZones # {}
    BY <2>2 DEF BaselineInv, EmptyInv, CountsOf, StoreRead, Up
  <2>4. CASE MergeWrites
    <3>1. disk' = ToPublish
      BY <2>4, ToPublishType, UpdateIsComplete DEF MergeWrites
    <3>2. PICK n : n \in lastNetboxZones
      BY <2>3
    <3>3. ZoneOf[n] \in Zone /\ InZone(ZoneOf[n], lastNetboxZones) # {}
      BY <3>2, SidecarAssumption DEF BaselineInv, Routed, InZone
    <3>4. ToPublish[ZoneOf[n]] # Missing /\ ToPublish[ZoneOf[n]] # {}
      BY <3>3, RecordsAreServed
    <3> QED
      BY <3>1, <3>3, <3>4 DEF FilesOf
  <2>5. CASE Crash
    <3>1. listed = {}
      BY <2>5 DEF Crash, Up
    <3>2. PICK u \in InterruptedUpdates(ToPublish) : disk' = u.disk
      BY <2>5 DEF Crash
    <3> QED
      BY <2>3, <3>1, <3>2, CutOffServes
  <2> QED
    BY <2>1, <2>4, <2>5
<1> QED
  BY <1>1, <1>2, <1>3, TypeCorrect, GenInvariant, GateInvariant,
     BaselineInvariant, PTL
  DEF Spec, ServedNeverEmptied
=============================================================================
