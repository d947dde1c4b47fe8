--------------------------- MODULE SidecarProofs ---------------------------
(***************************************************************************)
(* What holds of the sidecar for every set of zones, names, pods and NetBox *)
(* contents, every guard policy and every number of crashes; from the      *)
(* generators on, of what the zone files serve where writing them does not *)
(* fail.                                                                   *)
(***************************************************************************)
EXTENDS Sidecar, FiniteSetTheorems, TLAPS

-----------------------------------------------------------------------------
(* Counts and zone maps *)

\* The counts of any record set are a baseline (FromZoneCounts).
LEMMA CountsType ==
    ASSUME NEW S \in SUBSET Name
    PROVE  CountsOf(S) \in Baseline
<1>1. IsFiniteSet(S)
  BY FS_Subset, SidecarAssumption
<1>2. Cardinality(Routed(S)) \in Nat
  BY <1>1, FS_Subset, FS_CardinalityType DEF Routed
<1>3. ASSUME NEW z \in Zone
      PROVE  Cardinality(InZone(z, S)) \in Nat
  BY <1>1, FS_Subset, FS_CardinalityType DEF InZone
<1> QED
  BY <1>2, <1>3 DEF CountsOf, Baseline

\* What the loop publishes is a zone map.
LEMMA ToPublishType ==
    ASSUME TypeOK
    PROVE  ToPublish \in [Zone -> Content \cup {Missing}]
<1>1. ASSUME NEW z \in Zone
      PROVE  MergedZone(z, lastNetboxZones, view) \in Content
  BY DEF TypeOK, MergedZone, InZone, Content
<1> QED
  BY <1>1 DEF ToPublish, Merged

\* Whatever a merge does to the files, they stay a zone map.
LEMMA FilesType ==
    ASSUME TypeOK, NEW m \in [Zone -> Content \cup {Missing}]
    PROVE  /\ \A W : Written(m, W) \in [Zone -> Content \cup {Missing}]
           /\ UpdatedDisk(m) \in [Zone -> Content \cup {Missing}]
           /\ \A f \in Zone :
                 /\ FailedGenerators(m, f) \in [Zone -> Content \cup {Missing}]
                 /\ \A u \in InterruptedWrites(m, f) :
                       /\ u.disk \in [Zone -> Content \cup {Missing}]
                       /\ u.tmp \subseteq Zone
           /\ \A u \in InterruptedUpdates(m) :
                 /\ u.disk \in [Zone -> Content \cup {Missing}]
                 /\ u.tmp \subseteq Zone
<1>1. ASSUME NEW W
      PROVE  Written(m, W) \in [Zone -> Content \cup {Missing}]
  BY DEF Written, TypeOK
<1>2. ASSUME NEW d \in [Zone -> Content \cup {Missing}], NEW R
      PROVE  Without(d, R) \in [Zone -> Content \cup {Missing}]
  BY DEF Without
<1>3. UpdatedDisk(m) \in [Zone -> Content \cup {Missing}]
  BY <1>1, <1>2 DEF UpdatedDisk
<1>4. ASSUME NEW f \in Zone
      PROVE  FailedGenerators(m, f) \in [Zone -> Content \cup {Missing}]
  BY DEF FailedGenerators, TypeOK
<1>5. ASSUME NEW f \in Zone, NEW u \in InterruptedWrites(m, f)
      PROVE  /\ u.disk \in [Zone -> Content \cup {Missing}]
             /\ u.tmp \subseteq Zone
  BY <1>1, <1>5 DEF InterruptedWrites, TypeOK
<1>6. ASSUME NEW u \in InterruptedRemovals(m)
      PROVE  /\ u.disk \in [Zone -> Content \cup {Missing}]
             /\ u.tmp \subseteq Zone
  BY <1>1, <1>2, <1>6 DEF InterruptedRemovals, TypeOK
<1>7. \A f \in ToWrite(m) : f \in Zone
  BY DEF ToWrite
<1> QED
  BY <1>1, <1>3, <1>4, <1>5, <1>6, <1>7 DEF InterruptedUpdates

-----------------------------------------------------------------------------
(* Type correctness *)

\* The initial states are type correct (main, run).
LEMMA InitType == Init => TypeOK
<1> SUFFICES ASSUME Init PROVE TypeOK
  OBVIOUS
<1>1. \A S \in {{}} \cup NetboxContents :
        Merged(S, {}, {}) \in [Zone -> Content \cup {Missing}]
  <2> TAKE S \in {{}} \cup NetboxContents
  <2>1. S \subseteq Name
    BY SidecarAssumption
  <2>2. \A z \in Zone : MergedZone(z, S, {}) \in Content
    BY <2>1 DEF MergedZone, InZone, Content
  <2> QED
    BY <2>2 DEF Merged
<1>2. disk \in [Zone -> Content \cup {Missing}]
  BY <1>1 DEF Init
<1>3. NoBaseline \in Baseline
  BY DEF NoBaseline, Baseline
<1>4. reachable \in BOOLEAN
  BY DEF Init
<1>5. {arming, writers} \subseteq 0..MaxHandlers /\ crashes \in 0..MaxCrashes
  BY SidecarAssumption DEF Init
<1>6. /\ store \in [Name -> StoreState]
      /\ generators \in [Zone -> Content \cup {Missing}]
  BY DEF Init, StoreState, NoGenerators
<1>7. /\ {fetchSucceededOnce, cooling, staleGauge, healthy} \subseteq BOOLEAN
      /\ {armed, netboxSignal, mergeSignal, webhookPollSignal} \subseteq BOOLEAN
  BY DEF Init
<1> QED
  BY <1>2, <1>3, <1>4, <1>5, <1>6, <1>7 DEF Init, TypeOK, Cycle

\* The steps that end a poll without publishing.
LEMMA PollErrorType ==
    ASSUME TypeOK, PollError, pc # "reading", lastBaseline' \in Baseline,
           armed' \in BOOLEAN
    PROVE  TypeOK'
BY DEF TypeOK, PollError, netboxVars, storeVars, fileVars, readVars, pushVars

\* So is every step of the select loop (run) ...
LEMMA LoopType == TypeOK /\ Loop => TypeOK'
<1> SUFFICES ASSUME TypeOK, Loop PROVE TypeOK'
  OBVIOUS
<1> USE DEF TypeOK
<1>1. CASE Start
  <2>1. StartBaseline(disk, tmp) \in Baseline
    BY DEF StartBaseline, NoBaseline, Baseline, HasExistingZones, HasZoneFile
  <2>2. ReadyToServe(FALSE, HasExistingZones(disk, tmp)) \in BOOLEAN
    BY DEF ReadyToServe, HasExistingZones, HasZoneFile
  <2> QED
    BY <1>1, <2>1, <2>2
    DEF Start, BeginFetch, Aged, StoreState, Cycle,
        netboxVars, fileVars, readVars, signalVars, pushVars
<1>2. CASE TickerFires
  BY <1>2 DEF TickerFires, BeginFetch, Aged, StoreState, Cycle,
              netboxVars, fileVars, readVars, statusVars, signalVars, pushVars
<1>3. CASE TakeNetboxSignal
  BY <1>3 DEF TakeNetboxSignal, BeginFetch, Aged, StoreState, Cycle,
              netboxVars, fileVars, readVars, statusVars, pushVars
<1>4. CASE TakeWebhookPollSignal
  BY <1>4 DEF TakeWebhookPollSignal, BeginFetch, Aged, StoreState, Cycle,
              netboxVars, fileVars, readVars, statusVars, pushVars
<1>5. CASE TakeMergeSignal
  BY <1>5 DEF TakeMergeSignal, Cycle,
              netboxVars, storeVars, fileVars, readVars, statusVars, pushVars
<1>6. CASE FetchFails
  BY <1>6, PollErrorType DEF FetchFails
<1>7. CASE FetchReads
  BY <1>7, SidecarAssumption
  DEF FetchReads, netboxVars, storeVars, fileVars, readVars, statusVars,
      signalVars, pushVars
<1>8. CASE RefuseEmpty
  BY <1>8, PollErrorType DEF RefuseEmpty, ArmedAfter, BaselineAfterRefusal
<1>9. CASE DiscoverFails
  BY <1>9, PollErrorType DEF DiscoverFails
<1>10. CASE RefuseShrink
  BY <1>10, PollErrorType DEF RefuseShrink, ArmedAfter, BaselineAfterRefusal
<1>11. CASE AcceptPoll
  <2>1. Candidate \in Baseline
    BY CountsType DEF Candidate
  <2>2. Routed(fetched) \subseteq Name
    BY DEF Routed
  <2> QED
    BY <1>11, <2>1, <2>2
    DEF AcceptPoll, ArmedAfter, Reconciled, StoreState,
        netboxVars, fileVars, readVars, statusVars, pushVars
<1>12. CASE MergeGated
  BY <1>12 DEF MergeGated, EndCycle, netboxVars, storeVars, fileVars, readVars,
               statusVars, signalVars, pushVars
<1>13. CASE MergeWrites
  <2>1. /\ ToPublish \in [Zone -> Content \cup {Missing}]
        /\ UpdatedDisk(ToPublish) \in [Zone -> Content \cup {Missing}]
    BY ToPublishType, FilesType
  <2>2. /\ ReadyAfterMerge(cycle, healthy) \in BOOLEAN
        /\ StaleAfterMerge(cycle, fetchErr, staleGauge) \in BOOLEAN
    BY DEF ReadyAfterMerge, StaleAfterMerge
  <2>3. behind' \subseteq Replica /\ dirty' \subseteq Replica
    BY <1>13 DEF MergeWrites, BehindAfter
  <2> QED
    BY <1>13, <2>1, <2>2, <2>3
    DEF MergeWrites, EndCycle, EndRead, netboxVars, storeVars, signalVars
<1>14. CASE MergeFails
  <2>1. PICK f \in Zone :
          /\ \E u \in InterruptedWrites(ToPublish, f) :
                disk' = u.disk /\ tmp' = u.tmp
          /\ generators' = FailedGenerators(ToPublish, f)
    BY <1>14 DEF MergeFails, ToWrite
  <2>2. /\ disk' \in [Zone -> Content \cup {Missing}]
        /\ tmp' \subseteq Zone
        /\ generators' \in [Zone -> Content \cup {Missing}]
    <3>1. ToPublish \in [Zone -> Content \cup {Missing}]
      BY ToPublishType
    <3>2. \A u \in InterruptedWrites(ToPublish, f) :
             u.disk \in [Zone -> Content \cup {Missing}] /\ u.tmp \subseteq Zone
      BY <3>1, FilesType
    <3>3. FailedGenerators(ToPublish, f) \in [Zone -> Content \cup {Missing}]
      BY <3>1, FilesType
    <3> QED
      BY <2>1, <3>2, <3>3
  <2>3. behind' \subseteq Replica
    BY <1>14 DEF MergeFails, BehindAfter
  <2> QED
    BY <1>14, <2>2, <2>3
    DEF MergeFails, EndCycle, EndRead, netboxVars, storeVars, statusVars, signalVars
<1>15. CASE Push
  BY <1>15 DEF Push, EndCycle, netboxVars, storeVars, fileVars, readVars,
               statusVars, signalVars
<1>16. CASE ListZones
  BY <1>16 DEF ListZones, netboxVars, storeVars, fileVars, statusVars, signalVars,
               pushVars
<1>17. ASSUME NEW z \in unread, ReadZone(z)
       PROVE  TypeOK'
  <2>1. InZone(z, Dynamic(store)) \subseteq Name
    BY DEF InZone, Dynamic
  <2> QED
    BY <1>17, <2>1 DEF ReadZone, netboxVars, storeVars, fileVars, statusVars,
                       signalVars, pushVars
<1> QED
  BY <1>1, <1>2, <1>3, <1>4, <1>5, <1>6, <1>7, <1>8, <1>9, <1>10, <1>11, <1>12,
     <1>13, <1>14, <1>15, <1>16, <1>17 DEF Loop

\* ... of the gRPC and webhook handlers ...
LEMMA HandlersType == TypeOK /\ Handlers => TypeOK'
<1> SUFFICES ASSUME TypeOK, Handlers PROVE TypeOK'
  OBVIOUS
<1>1. ASSUME loopUnchanged, store' \in [Name -> StoreState],
             buckets' \subseteq Zone,
             {armed', netboxSignal', mergeSignal', webhookPollSignal'}
                \subseteq BOOLEAN,
             {arming', writers'} \subseteq 0..MaxHandlers
      PROVE  TypeOK'
  BY <1>1 DEF TypeOK, loopUnchanged, netboxVars, fileVars, loopVars, readVars,
              statusVars, pushVars
<1>2. ASSUME HandlerWrote, store' \in [Name -> StoreState],
             buckets' \subseteq Zone
      PROVE  TypeOK'
  <2>1. writers' \in 0..MaxHandlers
    BY <1>2, SidecarAssumption DEF HandlerWrote, TypeOK
  <2> QED
    BY <1>1, <1>2, <2>1 DEF HandlerWrote, TypeOK
<1>3. ASSUME NEW n \in DynName, NEW how \in StoreState, PutRecord(n, how)
      PROVE  TypeOK'
  <2>1. store' \in [Name -> StoreState]
    BY <1>3 DEF PutRecord, TypeOK
  <2>2. buckets' \subseteq Zone
    BY <1>3, SidecarAssumption, ZenonT(60) DEF PutRecord, TypeOK
  <2> QED
    BY <1>2, <1>3, <2>1, <2>2 DEF PutRecord
<1>4. CASE ArmConsent
  <2>1. arming' \in 0..MaxHandlers
    BY <1>4, SidecarAssumption DEF ArmConsent, TypeOK
  <2> QED
    BY <1>1, <1>4, <2>1 DEF ArmConsent, TypeOK, storeVars
<1>5. CASE SendArmedPoll
  <2>1. arming' \in 0..MaxHandlers
    BY <1>5, SidecarAssumption DEF SendArmedPoll, TypeOK
  <2> QED
    BY <1>1, <1>5, <2>1 DEF SendArmedPoll, TypeOK, storeVars
<1>6. CASE ForceNetboxPoll
  BY <1>1, <1>6 DEF ForceNetboxPoll, TypeOK, storeVars
<1>7. CASE ForceMergeWrite
  BY <1>1, <1>7 DEF ForceMergeWrite, TypeOK, storeVars
<1>8. CASE HookTriggersPoll
  BY <1>1, <1>8 DEF HookTriggersPoll, TypeOK, storeVars
<1>9. CASE SendMerge
  <2>1. writers' \in 0..MaxHandlers
    BY <1>9, SidecarAssumption DEF SendMerge, TypeOK
  <2> QED
    BY <1>1, <1>9, <2>1 DEF SendMerge, TypeOK, storeVars
<1>10. ASSUME NEW n \in DynName,
              \/ UpsertRecord(n) \/ DeleteRecord(n) \/ HookDelete(n)
              \/ \E age \in {"old", "new"} : HookUpsert(n, age)
       PROVE  TypeOK'
  BY <1>3, <1>10 DEF UpsertRecord, DeleteRecord, HookDelete, HookUpsert, StoreState
<1>11. ASSUME NEW z \in DynZone, CreateZone(z) \/ DeleteZone(z)
       PROVE  TypeOK'
  <2>1. store' \in [Name -> StoreState]
    BY <1>11 DEF CreateZone, DeleteZone, TypeOK, StoreState
  <2>2. buckets' \subseteq Zone
    BY <1>11, SidecarAssumption DEF CreateZone, DeleteZone, TypeOK
  <2> QED
    BY <1>2, <1>11, <2>1, <2>2 DEF CreateZone, DeleteZone
<1> QED
  BY <1>4, <1>5, <1>6, <1>7, <1>8, <1>9, <1>10, <1>11 DEF Handlers

\* ... of NetBox, time and restarts ...
LEMMA EnvironmentType == TypeOK /\ Environment => TypeOK'
<1> SUFFICES ASSUME TypeOK, Environment PROVE TypeOK'
  OBVIOUS
<1>1. CASE NetboxChanges
  BY <1>1 DEF NetboxChanges, TypeOK, storeVars, fileVars, loopVars, readVars,
              statusVars, signalVars, pushVars
<1>2. CASE NetboxOutage
  BY <1>2 DEF NetboxOutage, TypeOK, storeVars, fileVars, loopVars, readVars,
              statusVars, signalVars, pushVars
<1>3. CASE CooldownPasses
  BY <1>3 DEF CooldownPasses, TypeOK, netboxVars, storeVars, fileVars, readVars,
              statusVars, signalVars, pushVars
<1>4. CASE Crash
  <2>1. disk' \in [Zone -> Content \cup {Missing}] /\ tmp' \subseteq Zone
    <3>1. ToPublish \in [Zone -> Content \cup {Missing}]
      BY ToPublishType
    <3>2. \A u \in InterruptedUpdates(ToPublish) :
             u.disk \in [Zone -> Content \cup {Missing}] /\ u.tmp \subseteq Zone
      BY <3>1, FilesType
    <3> QED
      BY <1>4, <3>2 DEF Crash, TypeOK
  <2>2. behind' \subseteq Replica /\ dirty' \subseteq Replica
    BY <1>4 DEF Crash, BehindAfter, TypeOK
  <2>3. /\ lastBaseline' \in Baseline
        /\ generators' \in [Zone -> Content \cup {Missing}]
    BY <1>4 DEF Crash, NoBaseline, Baseline, NoGenerators
  <2>4. crashes' \in 0..MaxCrashes /\ {arming', writers'} \subseteq 0..MaxHandlers
    BY <1>4, SidecarAssumption DEF Crash, TypeOK
  <2>5. /\ {fetchSucceededOnce', cooling', staleGauge', healthy'} \subseteq BOOLEAN
        /\ {armed', netboxSignal', mergeSignal', webhookPollSignal'}
              \subseteq BOOLEAN
    BY <1>4 DEF Crash
  <2> QED
    BY <1>4, <2>1, <2>2, <2>3, <2>4, <2>5
    DEF Crash, EndRead, TypeOK, netboxVars, storeVars
<1>5. ASSUME NEW r \in Replica, PodPolls(r)
      PROVE  TypeOK'
  BY <1>5 DEF PodPolls, TypeOK, netboxVars, storeVars, fileVars, loopVars,
              readVars, statusVars, signalVars
<1> QED
  BY <1>1, <1>2, <1>3, <1>4, <1>5 DEF Environment

\* ... and no step at all.
LEMMA StutterType == TypeOK /\ UNCHANGED vars => TypeOK'
BY DEF TypeOK, vars, netboxVars, storeVars, fileVars, loopVars, readVars,
       statusVars, signalVars, pushVars

\* Every variable keeps its type for good: the zone directory stays a zone map,
\* the counters stay within their bounds, through every failure and restart.
THEOREM TypeCorrect == Spec => []TypeOK
<1>1. TypeOK /\ [Next]_vars => TypeOK'
  BY LoopType, HandlersType, EnvironmentType, StutterType DEF Next
<1> QED
  BY InitType, <1>1, PTL DEF Spec

-----------------------------------------------------------------------------
(* The gate *)

\* No handler touches the files, the loop's variables or what is owed to the pods.
LEMMA HandlersLeaveLoop == Handlers => loopUnchanged
BY DEF Handlers, ArmConsent, SendArmedPoll, ForceNetboxPoll, ForceMergeWrite,
       HookTriggersPoll, SendMerge, UpsertRecord, DeleteRecord, HookDelete,
       HookUpsert, CreateZone, DeleteZone, PutRecord, HandlerWrote

\* Only a merge, whole or interrupted, touches the zone files.
LEMMA WhoWritesFiles ==
    ASSUME [Next]_vars, disk' # disk
    PROVE  MergeWrites \/ MergeFails \/ (Crash /\ StoreRead)
<1>1. CASE UNCHANGED vars
  BY <1>1 DEF vars, fileVars
<1>2. CASE Loop
  BY <1>2 DEF Loop, Start, TickerFires, TakeNetboxSignal, TakeWebhookPollSignal,
              TakeMergeSignal, FetchFails, FetchReads, RefuseEmpty,
              DiscoverFails, RefuseShrink, AcceptPoll, MergeGated, ListZones,
              ReadZone, Push, PollError, fileVars
<1>3. CASE Handlers
  <2>1. loopUnchanged
    BY <1>3, HandlersLeaveLoop
  <2> QED
    BY <2>1 DEF loopUnchanged, fileVars
<1>4. CASE Environment
  BY <1>4 DEF Environment, NetboxChanges, NetboxOutage, CooldownPasses,
              PodPolls, Crash, fileVars
<1> QED
  BY <1>1, <1>2, <1>3, <1>4 DEF Next

\* What guardedMergeAndWrite found still holds when Update begins: only a merge
\* changes what the gate looks at.
GateInv == pc = "reading" => GateOpen

LEMMA GateStep == GateInv /\ [Next]_vars => GateInv'
<1> SUFFICES ASSUME GateInv, [Next]_vars, pc' = "reading" PROVE GateOpen'
  BY DEF GateInv
<1>1. ASSUME UNCHANGED <<disk, tmp, fetchSucceededOnce>>, GateOpen
      PROVE  GateOpen'
  BY <1>1 DEF GateOpen
<1>2. CASE Loop
  <2>1. ListZones \/ \E z \in unread : ReadZone(z)
    BY <1>2
    DEF Loop, Start, TickerFires, TakeNetboxSignal, TakeWebhookPollSignal,
        TakeMergeSignal, BeginFetch, FetchFails, FetchReads, RefuseEmpty,
        DiscoverFails, RefuseShrink, AcceptPoll, MergeGated, MergeWrites,
        MergeFails, Push, PollError, EndCycle
  <2> QED
    BY <1>1, <2>1 DEF ListZones, ReadZone, GateInv, fileVars
<1>3. CASE Handlers
  BY <1>1, <1>3, HandlersLeaveLoop DEF loopUnchanged, fileVars, loopVars, GateInv
<1>4. CASE Environment
  BY <1>1, <1>4 DEF Environment, NetboxChanges, NetboxOutage, CooldownPasses,
                    PodPolls, Crash, fileVars, loopVars, GateInv
<1>5. CASE UNCHANGED vars
  BY <1>1, <1>5 DEF vars, fileVars, loopVars, GateInv
<1> QED
  BY <1>2, <1>3, <1>4, <1>5 DEF Next

LEMMA GateInvariant == Spec => []GateInv
<1>1. Init => GateInv
  BY DEF Init, GateInv
<1> QED
  BY <1>1, GateStep, PTL DEF Spec

\* Until the process has fetched from NetBox once, no step of any actor changes
\* or removes a zone file that is there (mergeAllowed, the G4 gate).
THEOREM CacheSurvives == Spec => CacheSurvivesUntilFetch
<1>1. ASSUME GateInv, [Next]_vars, disk' # disk, ~fetchSucceededOnce, NEW z \in Zone
      PROVE  disk[z] = Missing
  <2>1. GateOpen
    BY <1>1, WhoWritesFiles DEF MergeWrites, MergeFails, StoreRead, GateInv
  <2> QED
    BY <1>1, <2>1 DEF GateOpen, MergeAllowed, HasExistingZones, HasZoneFile
<1>2. GateInv /\ [Next]_vars =>
        [~fetchSucceededOnce
           => \A z \in Zone : disk[z] # Missing => disk'[z] = disk[z]]_disk
  BY <1>1
<1> QED
  BY <1>2, GateInvariant, PTL DEF Spec, CacheSurvivesUntilFetch

-----------------------------------------------------------------------------
(* The consent *)

ConsentInv == reachable /\ ConsentNotWaiting

\* Where every fetch gets an answer, an armed consent always has a poll requested
\* or under way that will spend it (ForceNetboxPoll, ConsumeIfArmed).
THEOREM ConsentIsSpent ==
    ASSUME ~FetchMayFail
    PROVE  Spec => []ConsentNotWaiting
<1>1. Init => ConsentInv
  BY DEF Init, ConsentInv, ConsentNotWaiting
<1>2. TypeOK /\ ConsentInv /\ [Next]_vars => ConsentInv'
  <2> SUFFICES ASSUME TypeOK, ConsentInv, [Next]_vars PROVE ConsentInv'
    OBVIOUS
  <2> USE DEF ConsentInv, ConsentNotWaiting
  <2>1. CASE UNCHANGED vars
    BY <2>1 DEF vars, netboxVars, loopVars, signalVars
  <2>2. CASE Loop
    <3>1. CASE Start
      BY <3>1 DEF Start, BeginFetch, netboxVars, signalVars
    <3>2. CASE TickerFires
      BY <3>2 DEF TickerFires, BeginFetch, netboxVars, signalVars
    <3>3. CASE TakeNetboxSignal
      BY <3>3 DEF TakeNetboxSignal, BeginFetch, netboxVars
    <3>4. CASE TakeWebhookPollSignal
      BY <3>4 DEF TakeWebhookPollSignal, BeginFetch, netboxVars
    <3>5. CASE TakeMergeSignal
      BY <3>5 DEF TakeMergeSignal, netboxVars
    <3>6. CASE FetchReads
      BY <3>6 DEF FetchReads, netboxVars, signalVars
    <3>7. CASE RefuseEmpty
      BY <3>7 DEF RefuseEmpty, PollError, ArmedAfter, netboxVars
    <3>8. CASE RefuseShrink
      BY <3>8 DEF RefuseShrink, PollError, ArmedAfter, netboxVars
    <3>9. CASE AcceptPoll
      BY <3>9 DEF AcceptPoll, ArmedAfter, netboxVars
    <3>10. CASE MergeGated
      BY <3>10 DEF MergeGated, EndCycle, netboxVars, signalVars
    <3>11. CASE MergeWrites
      BY <3>11 DEF MergeWrites, StoreRead, EndCycle, netboxVars, signalVars
    <3>12. CASE MergeFails
      BY <3>12 DEF MergeFails, StoreRead, EndCycle, netboxVars, signalVars
    <3>13. CASE Push
      BY <3>13 DEF Push, EndCycle, netboxVars, signalVars
    <3>14. CASE ListZones
      BY <3>14 DEF ListZones, netboxVars, signalVars
    <3>15. ASSUME NEW z \in unread, ReadZone(z)
          PROVE  ConsentInv'
      BY <3>15 DEF ReadZone, netboxVars, signalVars
    <3> QED
      BY <2>2, <3>1, <3>2, <3>3, <3>4, <3>5, <3>6, <3>7, <3>8, <3>9, <3>10,
         <3>11, <3>12, <3>13, <3>14, <3>15 DEF Loop, FetchFails, DiscoverFails
  <2>3. CASE Handlers
    <3>1. reachable' = reachable /\ pc' = pc
      BY <2>3 DEF Handlers, ArmConsent, SendArmedPoll, ForceNetboxPoll,
                  ForceMergeWrite, HookTriggersPoll, SendMerge, UpsertRecord,
                  DeleteRecord, HookDelete, HookUpsert, CreateZone, DeleteZone,
                  PutRecord, HandlerWrote, loopUnchanged, netboxVars, loopVars
    <3>2. CASE ArmConsent
      BY <3>1, <3>2, SidecarAssumption DEF ArmConsent, TypeOK
    <3>3. CASE SendArmedPoll \/ ForceNetboxPoll
      BY <3>1, <3>3 DEF SendArmedPoll, ForceNetboxPoll
    <3>4. CASE ~(ArmConsent \/ SendArmedPoll \/ ForceNetboxPoll)
      BY <2>3, <3>1, <3>4
      DEF Handlers, ForceMergeWrite, HookTriggersPoll, SendMerge, UpsertRecord,
          DeleteRecord, HookDelete, HookUpsert, CreateZone, DeleteZone,
          PutRecord, HandlerWrote
    <3> QED
      BY <3>2, <3>3, <3>4
  <2>4. CASE Environment
    <3>1. CASE NetboxChanges
      BY <3>1 DEF NetboxChanges, loopVars, signalVars
    <3>2. ~NetboxOutage
      BY DEF NetboxOutage
    <3>3. CASE CooldownPasses
      BY <3>3 DEF CooldownPasses, netboxVars, signalVars
    <3>4. CASE Crash
      BY <3>4 DEF Crash, netboxVars
    <3>5. ASSUME NEW r \in Replica, PodPolls(r)
          PROVE  ConsentInv'
      BY <3>5 DEF PodPolls, netboxVars, loopVars, signalVars
    <3> QED
      BY <2>4, <3>1, <3>2, <3>3, <3>4, <3>5 DEF Environment
  <2> QED
    BY <2>1, <2>2, <2>3, <2>4 DEF Next
<1>3. ConsentInv => ConsentNotWaiting
  BY DEF ConsentInv
<1> QED
  BY <1>1, <1>2, <1>3, TypeCorrect, PTL DEF Spec

-----------------------------------------------------------------------------
(* Generators and files *)

\* A zone's generator remembers the file that is on disk, so "unchanged" means
\* that the file is already the one to publish.  A failed write breaks this.
GenInv == \A z \in Zone : generators[z] # Missing => disk[z] = generators[z]

\* After an Update that succeeds the files are the zone map it was given.
LEMMA UpdateIsComplete ==
    ASSUME TypeOK, GenInv, NEW m \in [Zone -> Content \cup {Missing}]
    PROVE  /\ UpdatedDisk(m) = m
           /\ \A z \in Zone : m[z] # Missing => Written(m, ToWrite(m))[z] = m[z]
<1>1. ASSUME NEW z \in Zone, m[z] # Missing
      PROVE  Written(m, ToWrite(m))[z] = m[z]
  <2>1. CASE z \in ToWrite(m)
    BY <2>1 DEF Written
  <2>2. CASE z \notin ToWrite(m)
    <3>1. LastContent(z) = m[z]
      BY <1>1, <2>2 DEF ToWrite
    <3>2. disk[z] = m[z]
      BY <3>1 DEF LastContent, GenInv
    <3> QED
      BY <2>2, <3>2 DEF Written
  <2> QED
    BY <2>1, <2>2
<1>2. ASSUME NEW z \in Zone
      PROVE  UpdatedDisk(m)[z] = m[z]
  <2>1. CASE m[z] # Missing
    BY <1>1, <2>1 DEF UpdatedDisk, Without, Orphans
  <2>2. CASE m[z] = Missing /\ z \in Orphans(m)
    BY <2>2 DEF UpdatedDisk, Without
  <2>3. CASE m[z] = Missing /\ z \notin Orphans(m)
    <3>1. disk[z] = Missing
      BY <2>3 DEF Orphans
    <3> QED
      BY <2>3, <3>1 DEF UpdatedDisk, Without, Written, ToWrite
  <2> QED
    BY <2>1, <2>2, <2>3
<1>3. UpdatedDisk(m) \in [Zone -> Content \cup {Missing}]
  BY FilesType
<1> QED
  BY <1>1, <1>2, <1>3

\* What leaves generators and files alone, or forgets the generators.
LEMMA GenStep ==
    ASSUME ~WriteMayFail, TypeOK, GenInv, [Next]_vars
    PROVE  GenInv'
<1>1. CASE MergeWrites
  <2>1. UpdatedDisk(ToPublish) = ToPublish
    BY ToPublishType, UpdateIsComplete
  <2> QED
    BY <1>1, <2>1 DEF MergeWrites, GenInv
<1>2. CASE Crash
  BY <1>2 DEF Crash, NoGenerators, GenInv
<1>3. CASE ~MergeWrites /\ ~Crash
  <2>1. disk' = disk
    BY <1>3, WhoWritesFiles DEF MergeFails
  <2>2. generators' = generators
    <3>1. CASE UNCHANGED vars
      BY <3>1 DEF vars, fileVars
    <3>2. CASE Loop
      BY <1>3, <3>2
      DEF Loop, Start, TickerFires, TakeNetboxSignal, TakeWebhookPollSignal,
          TakeMergeSignal, FetchFails, FetchReads, RefuseEmpty, DiscoverFails,
          RefuseShrink, AcceptPoll, MergeGated, ListZones, ReadZone, MergeFails,
          Push, PollError, fileVars
    <3>3. CASE Handlers
      <4>1. loopUnchanged
        BY <3>3, HandlersLeaveLoop
      <4> QED
        BY <4>1 DEF loopUnchanged, fileVars
    <3>4. CASE Environment
      BY <1>3, <3>4 DEF Environment, NetboxChanges, NetboxOutage,
                        CooldownPasses, PodPolls, fileVars
    <3> QED
      BY <3>1, <3>2, <3>3, <3>4 DEF Next
  <2> QED
    BY <2>1, <2>2 DEF GenInv
<1> QED
  BY <1>1, <1>2, <1>3

\* A generator that knows its zone's content knows the file's (generators,
\* NewGenerator).
LEMMA GenInvariant ==
    ASSUME ~WriteMayFail
    PROVE  Spec => []GenInv
<1>1. Init => GenInv
  BY DEF Init, GenInv, NoGenerators
<1>2. TypeOK /\ GenInv /\ [Next]_vars => GenInv'
  BY GenStep
<1> QED
  BY <1>1, <1>2, TypeCorrect, PTL DEF Spec

\* A merge that reports success leaves on disk exactly what it merged
\* (merge.Write, Manager.Update).
THEOREM MergePublishes ==
    ASSUME ~WriteMayFail
    PROVE  Spec => SuccessfulMergePublishes
<1>1. TypeOK /\ GenInv /\ [Next]_vars
        => [MergeWrites => disk' = ToPublish]_vars
  <2> SUFFICES ASSUME TypeOK, GenInv, MergeWrites PROVE disk' = ToPublish
    OBVIOUS
  <2> QED
    BY ToPublishType, UpdateIsComplete DEF MergeWrites
<1> QED
  BY <1>1, TypeCorrect, GenInvariant, PTL DEF Spec, SuccessfulMergePublishes

-----------------------------------------------------------------------------
(* The files follow the store *)

\* The store's records lie in zones that have an entry.
StoreInv ==
    \A n \in Name : store[n] # "absent" => n \in DynName /\ ZoneOf[n] \in buckets

\* Every handler that writes a record makes its zone an entry, and a zone goes with
\* its records (PutRecord, DeleteZone).
LEMMA StoreHasBuckets ==
    ASSUME TypeOK, StoreInv, [Next]_vars
    PROVE  StoreInv'
<1> USE DEF StoreInv
<1>1. CASE UNCHANGED <<store, buckets>>
  BY <1>1
<1>2. CASE Start \/ TickerFires \/ TakeNetboxSignal \/ TakeWebhookPollSignal
  BY <1>2 DEF Start, TickerFires, TakeNetboxSignal, TakeWebhookPollSignal,
              BeginFetch, Aged
<1>3. CASE AcceptPoll
  BY <1>3 DEF AcceptPoll, Reconciled
<1>4. CASE TakeMergeSignal \/ FetchFails \/ FetchReads \/ RefuseEmpty \/ DiscoverFails
           \/ RefuseShrink \/ MergeGated \/ ListZones
           \/ (\E z \in unread : ReadZone(z)) \/ MergeWrites \/ MergeFails \/ Push
  BY <1>1, <1>4
  DEF TakeMergeSignal, FetchFails, FetchReads, RefuseEmpty, DiscoverFails,
      RefuseShrink, MergeGated, ListZones, ReadZone, MergeWrites, MergeFails, Push,
      PollError, storeVars
<1>5. ASSUME NEW n \in DynName, NEW how, PutRecord(n, how)
      PROVE  \A x \in Name : store'[x] # "absent" => x \in DynName /\ ZoneOf[x] \in buckets'
  BY <1>5 DEF PutRecord, TypeOK
<1>6. CASE \E z \in DynZone : CreateZone(z) \/ DeleteZone(z)
  BY <1>6 DEF CreateZone, DeleteZone
<1>7. CASE ArmConsent \/ SendArmedPoll \/ ForceNetboxPoll \/ ForceMergeWrite
           \/ HookTriggersPoll \/ SendMerge
  BY <1>1, <1>7 DEF ArmConsent, SendArmedPoll, ForceNetboxPoll, ForceMergeWrite,
                    HookTriggersPoll, SendMerge, storeVars
<1>8. CASE Environment \/ UNCHANGED vars
  BY <1>1, <1>8 DEF Environment, NetboxChanges, NetboxOutage, CooldownPasses, Crash,
                    PodPolls, vars, storeVars
<1> QED
  BY <1>2, <1>3, <1>4, <1>5, <1>6, <1>7, <1>8
  DEF Next, Loop, Handlers, UpsertRecord, DeleteRecord, HookUpsert, HookDelete

LEMMA StoreInvariant == Spec => []StoreInv
<1>1. Init => StoreInv
  BY DEF Init, StoreInv
<1>2. TypeOK /\ StoreInv /\ [Next]_vars => StoreInv'
  BY StoreHasBuckets
<1> QED
  BY <1>1, <1>2, TypeCorrect, PTL DEF Spec

\* As long as no handler has written since the merge began, what it has read of
\* the store is what is there.
ReadSoFar ==
    /\ listed = buckets
    /\ view = {n \in Dynamic(store) : ZoneOf[n] \in listed \ unread}

ReadInv == (pc = "reading" /\ ~mergeSignal /\ writers = 0) => ReadSoFar

\* A handler that writes owes a signal from then on; nothing else changes the store
\* during a merge (merge.Write, HandlerWrote).
LEMMA ReadStep ==
    ASSUME TypeOK, ReadInv, [Next]_vars
    PROVE  ReadInv'
<1> SUFFICES ASSUME pc' = "reading", ~mergeSignal', writers' = 0
             PROVE  ReadSoFar'
  BY DEF ReadInv
<1>1. ASSUME UNCHANGED <<store, buckets, listed, unread, view>>,
             pc = "reading", ~mergeSignal, writers = 0
      PROVE  ReadSoFar'
  BY <1>1 DEF ReadInv, ReadSoFar, Dynamic
<1>2. CASE ListZones
  BY <1>2 DEF ListZones, ReadSoFar, storeVars
<1>3. ASSUME NEW z \in unread, ReadZone(z)
      PROVE  ReadSoFar'
  <2>1. /\ UNCHANGED <<store, buckets, listed, mergeSignal, writers>>
        /\ pc = "reading" /\ unread' = unread \ {z}
        /\ view' = view \cup InZone(z, Dynamic(store))
    BY <1>3 DEF ReadZone, storeVars, signalVars
  <2>2. ReadSoFar /\ z \in listed
    BY <2>1 DEF ReadInv, TypeOK
  <2>3. Dynamic(store)' = Dynamic(store)
    BY <2>1 DEF Dynamic
  <2>4. view' = {n \in Dynamic(store) : ZoneOf[n] \in listed \ unread'}
    BY <2>1, <2>2 DEF ReadSoFar, InZone
  <2> QED
    BY <2>1, <2>2, <2>3, <2>4 DEF ReadSoFar
<1>4. CASE Loop
  <2>1. ListZones \/ \E z \in unread : ReadZone(z)
    BY <1>4
    DEF Loop, Start, TickerFires, TakeNetboxSignal, TakeWebhookPollSignal,
        TakeMergeSignal, BeginFetch, FetchFails, FetchReads, RefuseEmpty,
        DiscoverFails, RefuseShrink, AcceptPoll, MergeGated, MergeWrites,
        MergeFails, Push, PollError, EndCycle
  <2> QED
    BY <1>2, <1>3, <2>1
<1>5. CASE Handlers
  <2>1. UNCHANGED <<pc, listed, unread, view>>
    BY <1>5, HandlersLeaveLoop DEF loopUnchanged, loopVars, readVars
  <2>2. writers \in Nat
    BY SidecarAssumption DEF TypeOK
  <2>3. ~HandlerWrote
    BY <2>2 DEF HandlerWrote
  <2>4. ArmConsent \/ SendArmedPoll \/ ForceNetboxPoll \/ HookTriggersPoll
    BY <1>5, <2>3 DEF Handlers, ForceMergeWrite, SendMerge, UpsertRecord, DeleteRecord,
            HookDelete, HookUpsert, CreateZone, DeleteZone, PutRecord
  <2>5. UNCHANGED <<store, buckets, mergeSignal, writers>>
    BY <2>4 DEF ArmConsent, SendArmedPoll, ForceNetboxPoll, HookTriggersPoll, storeVars
  <2> QED
    BY <1>1, <2>1, <2>5
<1>6. CASE Environment
  BY <1>1, <1>6 DEF Environment, NetboxChanges, NetboxOutage, CooldownPasses, Crash,
                    PodPolls, storeVars, loopVars, readVars, signalVars
<1>7. CASE UNCHANGED vars
  BY <1>1, <1>7 DEF vars, storeVars, loopVars, readVars, signalVars
<1> QED
  BY <1>4, <1>5, <1>6, <1>7 DEF Next

\* A merge no handler has disturbed publishes the store.
LEMMA UndisturbedRead ==
    ASSUME TypeOK, StoreInv, ReadInv, StoreRead, ~mergeSignal, writers = 0
    PROVE  ToPublish = MergedNow
<1>1. ReadSoFar /\ unread = {}
  BY DEF ReadInv, StoreRead
<1>2. \A n \in Dynamic(store) : ZoneOf[n] \in buckets
  BY DEF Dynamic, StoreInv
<1>3. view = Dynamic(store) /\ listed = buckets
  BY <1>1, <1>2 DEF ReadSoFar
<1> QED
  BY <1>3 DEF ToPublish, MergedNow

\* QuiescentDisk, also while a push is under way.
PublishedInv ==
    (pc \in {"idle", "pushing"} /\ ~mergeSignal /\ writers = 0 /\ GateOpen)
        => disk = MergedNow

\* Every step keeps the files at the merge of NetBox and the store, or owes a
\* merge signal.
LEMMA PublishedStep ==
    ASSUME ~WriteMayFail, TypeOK, GenInv, StoreInv, ReadInv, PublishedInv, [Next]_vars
    PROVE  PublishedInv'
<1> USE DEF PublishedInv, MergedNow, GateOpen, Dynamic
<1>1. CASE UNCHANGED vars
  BY <1>1 DEF vars, storeVars, fileVars, loopVars, signalVars
<1>2. CASE Loop
  <2>1. CASE Start \/ TickerFires \/ TakeNetboxSignal
    BY <2>1 DEF Start, TickerFires, TakeNetboxSignal, BeginFetch
  <2>2. CASE TakeWebhookPollSignal
    BY <2>2 DEF TakeWebhookPollSignal, BeginFetch, fileVars
  <2>3. CASE TakeMergeSignal \/ FetchReads
    BY <2>3 DEF TakeMergeSignal, FetchReads
  <2>4. CASE FetchFails \/ RefuseEmpty \/ DiscoverFails \/ RefuseShrink
    BY <2>4 DEF FetchFails, RefuseEmpty, DiscoverFails, RefuseShrink, PollError
  <2>5. CASE AcceptPoll
    BY <2>5 DEF AcceptPoll
  <2>6. CASE MergeGated
    BY <2>6 DEF MergeGated, EndCycle, fileVars
  <2>7. CASE MergeWrites
    <3>1. UpdatedDisk(ToPublish) = ToPublish
      BY ToPublishType, UpdateIsComplete
    <3>2. ASSUME ~mergeSignal, writers = 0
          PROVE  ToPublish = MergedNow
      BY <2>7, <3>2, UndisturbedRead DEF MergeWrites
    <3>3. MergedNow' = MergedNow /\ UNCHANGED <<mergeSignal, writers>>
      BY <2>7 DEF MergeWrites, storeVars, signalVars
    <3>4. disk' = ToPublish
      BY <2>7, <3>1 DEF MergeWrites
    <3> QED
      BY <3>2, <3>3, <3>4
  <2>8. CASE MergeFails
    BY <2>8 DEF MergeFails
  <2>9. CASE Push
    BY <2>9 DEF Push, EndCycle, storeVars, fileVars, signalVars
  <2>10. CASE ListZones \/ \E z \in unread : ReadZone(z)
    BY <2>10 DEF ListZones, ReadZone
  <2> QED
    BY <1>2, <2>1, <2>2, <2>3, <2>4, <2>5, <2>6, <2>7, <2>8, <2>9, <2>10
    DEF Loop
<1>3. CASE Handlers
  <2>1. writers \in Nat
    BY SidecarAssumption DEF TypeOK
  <2>2. CASE ForceMergeWrite \/ SendMerge
    BY <2>2 DEF ForceMergeWrite, SendMerge
  <2>3. CASE ArmConsent \/ SendArmedPoll \/ ForceNetboxPoll \/ HookTriggersPoll
    BY <2>3 DEF ArmConsent, SendArmedPoll, ForceNetboxPoll, HookTriggersPoll,
                loopUnchanged, storeVars, fileVars, loopVars
  <2>4. ASSUME HandlerWrote
        PROVE  writers' # 0
    BY <2>1, <2>4 DEF HandlerWrote
  <2>5. CASE HandlerWrote
    BY <2>4, <2>5
  <2> QED
    BY <1>3, <2>2, <2>3, <2>5
    DEF Handlers, UpsertRecord, DeleteRecord, HookDelete, HookUpsert,
        CreateZone, DeleteZone, PutRecord
<1>4. CASE Environment
  BY <1>4 DEF Environment, NetboxChanges, NetboxOutage, CooldownPasses, Crash,
              PodPolls, storeVars, fileVars, loopVars, signalVars
<1> QED
  BY <1>1, <1>2, <1>3, <1>4 DEF Next

\* Whenever the loop is idle and nobody owes it a merge signal, the files are
\* the merge of the last NetBox zones with the store: signals that coalesce
\* lose no dynamic write (mergeSignal, dynamicZoneService.signal).
THEOREM FilesFollowStore ==
    ASSUME ~WriteMayFail
    PROVE  Spec => []QuiescentDisk
<1>1. Init => PublishedInv
  BY DEF Init, PublishedInv
<1>2. TypeOK /\ GenInv /\ StoreInv /\ ReadInv /\ PublishedInv /\ [Next]_vars
        => PublishedInv'
  BY PublishedStep
<1>3. PublishedInv => QuiescentDisk
  BY DEF PublishedInv, QuiescentDisk
<1>4. Init => ReadInv
  BY DEF Init, ReadInv
<1>5. TypeOK /\ ReadInv /\ [Next]_vars => ReadInv'
  BY ReadStep
<1> QED
  BY <1>1, <1>2, <1>3, <1>4, <1>5, TypeCorrect, GenInvariant, StoreInvariant, PTL
  DEF Spec

-----------------------------------------------------------------------------
(* The pods are told *)

\* Who is owed a push is no matter of where the loop is.
OwedInv == crashes = 0 => behind \subseteq dirty

\* Files change only in an Update that says so (Update's stats).
LEMMA ChangesAreCounted ==
    ASSUME TypeOK, NEW m \in [Zone -> Content \cup {Missing}], ~UpdateChanged(m)
    PROVE  UpdatedDisk(m) = disk
<1>1. ToWrite(m) = {} /\ Orphans(m) = {}
  BY DEF UpdateChanged
<1>2. \A z \in Zone : UpdatedDisk(m)[z] = disk[z]
  BY <1>1 DEF UpdatedDisk, Without, Written
<1>3. UpdatedDisk(m) \in [Zone -> Content \cup {Missing}]
  BY FilesType
<1> QED
  BY <1>2, <1>3 DEF TypeOK

\* Every step that leaves a pod behind owes it a push.
LEMMA OwedStep ==
    ASSUME ~WriteMayFail, TypeOK, OwedInv, [Next]_vars
    PROVE  OwedInv'
<1>1. CASE MergeWrites
  <2>1. CASE UpdateChanged(ToPublish)
    BY <1>1, <2>1 DEF MergeWrites, BehindAfter, OwedInv, TypeOK
  <2>2. CASE ~UpdateChanged(ToPublish)
    <3>1. disk' = disk
      BY <1>1, <2>2, ToPublishType, ChangesAreCounted DEF MergeWrites
    <3> QED
      BY <1>1, <2>2, <3>1 DEF MergeWrites, BehindAfter, OwedInv
  <2> QED
    BY <2>1, <2>2
<1>2. CASE Crash
  <2>1. crashes \in Nat
    BY SidecarAssumption DEF TypeOK
  <2> QED
    BY <1>2, <2>1 DEF Crash, OwedInv
<1>3. CASE Push
  BY <1>3 DEF Push, OwedInv
<1>4. ASSUME NEW r \in Replica, PodPolls(r)
      PROVE  OwedInv'
  BY <1>4 DEF PodPolls, OwedInv
<1>5. CASE UNCHANGED <<dirty, behind, crashes>>
  BY <1>5 DEF OwedInv
<1>6. CASE Loop /\ ~MergeWrites /\ ~Push
  <2>1. UNCHANGED <<dirty, behind, crashes>>
    BY <1>6
    DEF Loop, Start, TickerFires, TakeNetboxSignal, TakeWebhookPollSignal,
        TakeMergeSignal, FetchFails, FetchReads, RefuseEmpty, DiscoverFails,
        RefuseShrink, AcceptPoll, MergeGated, ListZones, ReadZone, MergeFails,
        PollError, pushVars
  <2> QED
    BY <1>5, <2>1
<1>7. CASE Handlers
  <2>1. loopUnchanged
    BY <1>7, HandlersLeaveLoop
  <2> QED
    BY <1>5, <2>1 DEF loopUnchanged, pushVars
<1>8. CASE NetboxChanges \/ NetboxOutage \/ CooldownPasses \/ UNCHANGED vars
  BY <1>5, <1>8 DEF NetboxChanges, NetboxOutage, CooldownPasses, vars, pushVars
<1> QED
  BY <1>1, <1>2, <1>3, <1>4, <1>6, <1>7, <1>8 DEF Next, Environment

\* Until the process restarts, a pod that has not loaded the files on disk is owed
\* a push whenever the loop is idle (MergeWrites' push of what Update changed,
\* Reloader.dirty).
THEOREM PodsAreOwed ==
    ASSUME ~WriteMayFail
    PROVE  Spec => []PushOwed
<1>1. Init => OwedInv
  BY DEF Init, OwedInv
<1>2. TypeOK /\ OwedInv /\ [Next]_vars => OwedInv'
  BY OwedStep
<1>3. OwedInv => PushOwed
  BY DEF OwedInv, PushOwed
<1> QED
  BY <1>1, <1>2, <1>3, TypeCorrect, PTL DEF Spec

\* A process that is up and not ready is still in its initial cycle, and has
\* nothing to serve.
ReadyInv ==
    (Up /\ ~healthy) => /\ cycle = "initial"
                        /\ pc \in {"fetching", "read", "merging", "reading"}
                        /\ ~HasExistingZones(disk, tmp)

\* Nothing but the initial cycle runs before the sidecar is ready, and what ends
\* that cycle makes it ready.
LEMMA ReadyStep ==
    ASSUME ~WriteMayFail, ReadyInv, [Next]_vars
    PROVE  ReadyInv'
<1> USE DEF ReadyInv, Up
<1>1. ASSUME UNCHANGED <<pc, cycle, healthy, disk, tmp>>
      PROVE  ReadyInv'
  BY <1>1
<1>2. CASE Start
  BY <1>2 DEF Start, BeginFetch, ReadyToServe, fileVars
<1>3. CASE TickerFires \/ TakeNetboxSignal \/ TakeWebhookPollSignal \/ TakeMergeSignal
  BY <1>3 DEF TickerFires, TakeNetboxSignal, TakeWebhookPollSignal,
              TakeMergeSignal, BeginFetch, statusVars
<1>4. CASE FetchFails \/ RefuseEmpty \/ DiscoverFails \/ RefuseShrink
  BY <1>4 DEF FetchFails, RefuseEmpty, DiscoverFails, RefuseShrink, PollError,
              fileVars
<1>5. CASE FetchReads \/ AcceptPoll
  BY <1>5 DEF FetchReads, AcceptPoll, fileVars, statusVars
<1>6. CASE MergeGated \/ ListZones \/ \E z \in unread : ReadZone(z)
  BY <1>6 DEF MergeGated, ListZones, ReadZone, GateOpen, MergeAllowed, fileVars,
              statusVars
<1>7. CASE MergeWrites
  BY <1>7 DEF MergeWrites, StoreRead, ReadyAfterMerge
<1>8. CASE MergeFails
  BY <1>8 DEF MergeFails
<1>9. CASE Push
  BY <1>9 DEF Push, statusVars
<1>10. CASE Crash
  BY <1>10 DEF Crash
<1>11. CASE Handlers
  <2>1. loopUnchanged
    BY <1>11, HandlersLeaveLoop
  <2> QED
    BY <1>1, <2>1 DEF loopUnchanged, fileVars, loopVars, statusVars
<1>12. CASE \/ NetboxChanges \/ NetboxOutage \/ CooldownPasses
            \/ \E r \in Replica : PodPolls(r)
            \/ UNCHANGED vars
  BY <1>1, <1>12 DEF NetboxChanges, NetboxOutage, CooldownPasses, PodPolls, vars,
                     fileVars, loopVars, statusVars
<1> QED
  BY <1>2, <1>3, <1>4, <1>5, <1>6, <1>7, <1>8, <1>9, <1>10, <1>11, <1>12
  DEF Next, Loop, Environment

\* The pods are told to reload only by a sidecar that is ready, whose Service has
\* an endpoint to fetch the files from (run, readyToServe, markReady).
THEOREM PushesAreReady ==
    ASSUME ~WriteMayFail
    PROVE  Spec => []PushOnlyWhenReady
<1>1. Init => ReadyInv
  BY DEF Init, ReadyInv, Up
<1>2. ReadyInv /\ [Next]_vars => ReadyInv'
  BY ReadyStep
<1>3. ReadyInv => PushOnlyWhenReady
  BY DEF ReadyInv, PushOnlyWhenReady, Up
<1> QED
  BY <1>1, <1>2, <1>3, PTL DEF Spec
=============================================================================
