------------------------- MODULE PropagationProofs -------------------------
(***************************************************************************)
(* What a successful push means, for any number of zones, replicas and     *)
(* secondaries, and what a serial guarantees.                              *)
(***************************************************************************)
EXTENDS Propagation, TLAPS

-----------------------------------------------------------------------------
(* Serials *)

\* A zone's next serial is a later one as long as the current one is not
\* further ahead of the clock than maxSerialDrift, also when the clock has been
\* set back (NextSerial).
THEOREM SerialAdvances ==
    ASSUME clock \in Nat, NEW current \in Nat,
           current - clock <= MaxSerialDrift
    PROVE  NextSerial(current) \in Nat /\ NextSerial(current) > current
BY PropagationAssumption DEF NextSerial

\* A serial stays a natural number (NextSerial).
LEMMA SerialType ==
    ASSUME clock \in Nat, NEW current \in Nat
    PROVE  NextSerial(current) \in Nat
BY DEF NextSerial

-----------------------------------------------------------------------------
(* Pushes *)

Slots == [Trigger -> UnderWay \cup {Off}]

\* The types the argument needs: TypeOK without the bounds of an instance.
Shape ==
    /\ clock \in Nat /\ writes \in Nat
    /\ file \in Files /\ served \in [Replica -> Files]
    /\ dirty \subseteq Replica
    /\ push \in [Replica -> {"none", "todo", "sent", "running", "failed", "acked",
                             "gave up"}]
    /\ reload \in [Replica -> Slots]

\* While a push is under way the files stay as they are.
PushingOnly == \A r \in Replica : push[r] # "none" => loop = "pushing"

\* reloadMu.
OneReload ==
    \A r \in Replica, by, other \in Trigger :
        (Running(r, by) /\ Running(r, other)) => by = other

\* A reload that will answer a push is the push's.
CallsMatch ==
    \A r \in Replica, by \in Trigger :
        (Running(r, by) /\ reload[r][by].call) => by = "grpc" /\ push[r] = "running"

\* What a reload has read so far is what the sidecar's files hold now.
UpToDate(r, by) ==
    IF reload[r][by].phase = "get"
    THEN \A z \in Zone : IF z \in reload[r][by].todo THEN file[z] # NoZone
                         ELSE reload[r][by].got[z] = file[z]
    ELSE reload[r][by].got = Nothing

\* So it is for a reload that began after the push it is to answer, or after
\* one that has been answered.
ReadsAreFresh ==
    \A r \in Replica, by \in Trigger :
        (Running(r, by) /\ (reload[r][by].call \/ push[r] = "acked"))
            => UpToDate(r, by)

PushInv == /\ Shape /\ PushingOnly /\ OneReload /\ CallsMatch /\ ReadsAreFresh
           /\ PushedIsLoaded

-----------------------------------------------------------------------------
(* Steps *)

\* A reload ends with a failure.
Failure(r, by) ==
    /\ Running(r, by) /\ Ended(r, by, "failed")
    /\ UNCHANGED <<file, loop, dirty, served, clock, writes>>

\* A step that leaves files, pushes and reloads alone, and the loop if it pushes.
Quiet == /\ UNCHANGED <<file, dirty, push, served, reload, writes>> /\ clock' \in Nat
         /\ loop' = loop \/ loop # "pushing"

\* A request for one of the listed files is answered.
Step(r, by) == \/ List(r, by)
               \/ \E z \in Zone : Get(r, by, z) \/ GetTemp(r, by, z)

\* Every step is one of those named here, or leaves files, pushes and reloads
\* alone.
LEMMA Steps ==
    ASSUME Shape, [Next]_vars
    PROVE  \/ Quiet
           \/ \E z \in Zone : WriteZone(z) \/ RemoveZone(z)
           \/ Reload \/ Reconcile \/ EndPush \/ SidecarRestart
           \/ \E r \in Replica :
                \/ SendPush(r) \/ PushRefused(r) \/ PushSucceeds(r) \/ PushFails(r)
                \/ PollReload(r) \/ GrpcReload(r) \/ ReplicaRestart(r)
                \/ \E by \in Trigger :
                     Step(r, by) \/ Swap(r, by) \/ Failure(r, by)
<1>1. ASSUME UNCHANGED vars PROVE Quiet
  BY <1>1 DEF vars, Quiet, sidecarVars, boundVars, Shape
<1>2. ASSUME Tick \/ StepBack PROVE Quiet
  <2>1. clock \in Nat
    BY DEF Shape
  <2>2. clock' \in Nat
    BY <1>2, <2>1 DEF Tick, StepBack
  <2> QED
    BY <1>2, <2>2 DEF Tick, StepBack, Quiet, sidecarVars, boundVars
<1>3. ASSUME NEW r \in Replica, NEW z \in Zone, SendNotify(r, z) PROVE Quiet
  BY <1>3 DEF SendNotify, Quiet, sidecarVars, Shape
<1>4. ASSUME NEW s \in Secondary,
             StartSending(s) \/ EndTransfer(s) \/ \E z \in Zone, r \in Replica : Check(s, r, z)
      PROVE  Quiet
  BY <1>4 DEF StartSending, EndTransfer, Check, Quiet, sidecarVars, boundVars, Shape
<1>5. ASSUME NEW r \in Replica, NEW by \in Trigger,
             \/ Faulty(r, by)
             \/ \E z \in Zone : GetMissing(r, by, z) \/ GetTempFails(r, by, z)
      PROVE  Failure(r, by)
  BY <1>5 DEF Faulty, ListFails, GetFails, GetMissing, GetTempFails, AfterFailedGet,
              Failure, InPhase, sidecarVars, boundVars
<1>6. ASSUME RemoveTemp \/ \E z \in Zone : BeginWrite(z) \/ WriteFails(z)
      PROVE  Quiet
  BY <1>6 DEF RemoveTemp, BeginWrite, WriteFails, Quiet, boundVars, Shape
<1> QED
  BY <1>1, <1>2, <1>3, <1>4, <1>5, <1>6 DEF Next, Pushing, Reloading, Step

-----------------------------------------------------------------------------

\* Every step keeps the shape of files, pushes and reloads (File, UnderWay).
LEMMA ShapeStep ==
    ASSUME Shape, [Next]_vars
    PROVE  Shape'
<1>0. writes + 1 \in Nat
  <2>1. writes \in Nat
    BY DEF Shape
  <2> QED
    BY <2>1
<1> USE DEF Shape
<1>1. CASE Quiet
  BY <1>1 DEF Quiet
<1>2. ASSUME NEW z \in Zone, WriteZone(z) \/ RemoveZone(z)
      PROVE  Shape'
  <2>1. CASE WriteZone(z)
    <3>1. Serial(z) \in Nat
      BY DEF Serial, Files, File
    <3>2. NextSerial(Serial(z)) \in Nat
      BY <3>1, SerialType
    <3>3. writes' \in Nat
      BY <1>0, <2>1 DEF WriteZone
    <3>4. [serial |-> NextSerial(Serial(z)), content |-> writes', at |-> clock]
            \in File
      BY <3>2, <3>3 DEF File
    <3>5. file' \in Files
      BY <2>1, <3>4 DEF WriteZone, Files
    <3> QED
      BY <2>1, <3>3, <3>5 DEF WriteZone
  <2>2. CASE RemoveZone(z)
    <3>1. file' \in Files
      BY <2>2 DEF RemoveZone, Files
    <3> QED
      BY <2>2, <3>1 DEF RemoveZone, boundVars
  <2> QED
    BY <1>2, <2>1, <2>2
<1>3. CASE Reload \/ Reconcile
  BY <1>3 DEF Reload, Reconcile, StartPush, boundVars
<1>4. CASE EndPush
  BY <1>4 DEF EndPush, boundVars
<1>5. ASSUME NEW r \in Replica
      PROVE  Disowned(r) \in Slots
  <2>1. CASE Running(r, "grpc")
    <3>1. reload[r]["grpc"] \in UnderWay
      BY <2>1 DEF Running, Slots, Trigger
    <3>2. [reload[r]["grpc"] EXCEPT !.call = FALSE] \in UnderWay
      BY <3>1 DEF UnderWay
    <3> QED
      BY <2>1, <3>2 DEF Disowned, Slots
  <2>2. CASE ~Running(r, "grpc")
    BY <2>2 DEF Disowned
  <2> QED
    BY <2>1, <2>2
<1>6. CASE SidecarRestart
  BY <1>5, <1>6 DEF SidecarRestart
<1>7. ASSUME NEW by \in Trigger
      PROVE  Listing(by) \in UnderWay
  BY DEF Listing, UnderWay, Nothing, Files
<1>8. ASSUME NEW r \in Replica,
             \/ SendPush(r) \/ PushRefused(r) \/ PushSucceeds(r) \/ PushFails(r)
             \/ PollReload(r) \/ GrpcReload(r) \/ ReplicaRestart(r)
      PROVE  Shape'
  <2>1. CASE SendPush(r) \/ PushRefused(r) \/ PushSucceeds(r)
    BY <2>1 DEF SendPush, PushRefused, PushSucceeds, sidecarVars, boundVars
  <2>2. CASE PushFails(r)
    BY <1>5, <2>2 DEF PushFails, sidecarVars
  <2>3. ASSUME NEW by \in Trigger, StartReload(r, by)
        PROVE  reload' \in [Replica -> Slots]
    BY <1>7, <2>3 DEF StartReload, Slots
  <2>4. CASE PollReload(r) \/ GrpcReload(r)
    BY <2>3, <2>4 DEF PollReload, GrpcReload, StartReload, Trigger, sidecarVars,
                      boundVars
  <2>5. CASE ReplicaRestart(r)
    <3>1. Nothing \in Files
      BY DEF Nothing, Files
    <3>2. [NoReload EXCEPT !["startup"] = Listing("startup")] \in Slots
      BY <1>7 DEF NoReload, Slots, Trigger
    <3> QED
      BY <2>5, <3>1, <3>2 DEF ReplicaRestart, sidecarVars
  <2> QED
    BY <1>8, <2>1, <2>2, <2>4, <2>5
<1>9. ASSUME NEW r \in Replica, NEW by \in Trigger,
             Step(r, by) \/ Swap(r, by) \/ Failure(r, by)
      PROVE  Shape'
  <2>1. ASSUME Running(r, by) PROVE reload[r][by] \in UnderWay
    BY <2>1 DEF Running, Slots
  <2>2. CASE List(r, by)
    <3>1. reload' \in [Replica -> Slots]
      BY <2>1, <2>2 DEF List, InPhase, UnderWay, Slots
    <3> QED
      BY <2>2, <3>1 DEF List, sidecarVars, boundVars
  <2>3. ASSUME NEW z \in Zone, Get(r, by, z) PROVE Shape'
    <3>1. reload[r][by] \in UnderWay
      BY <2>1, <2>3 DEF Get, InPhase
    <3>2. Fetched(r, z) \in File \cup {NoZone}
      BY DEF Fetched, Files
    <3>3. [reload[r][by] EXCEPT !.todo = reload[r][by].todo \ {z},
                                !.got[z] = Fetched(r, z)] \in UnderWay
      BY <3>1, <3>2 DEF UnderWay, Files
    <3>4. reload[r] \in Slots
      OBVIOUS
    <3>5. reload' \in [Replica -> Slots]
      BY <2>3, <3>3, <3>4 DEF Get, Slots
    <3> QED
      BY <2>3, <3>5 DEF Get, sidecarVars, boundVars
  <2>31. ASSUME NEW z \in Zone, GetTemp(r, by, z) PROVE Shape'
    <3>1. reload[r][by] \in UnderWay
      BY <2>1, <2>31 DEF GetTemp, InPhase
    <3>2. [reload[r][by] EXCEPT !.temps = reload[r][by].temps \ {z}] \in UnderWay
      BY <3>1 DEF UnderWay
    <3>3. reload' = [reload EXCEPT ![r][by] =
                       [reload[r][by] EXCEPT !.temps = reload[r][by].temps \ {z}]]
      BY <2>31 DEF GetTemp, Slots
    <3>4. reload' \in [Replica -> Slots]
      BY <3>2, <3>3 DEF Slots
    <3> QED
      BY <2>31, <3>4 DEF GetTemp, sidecarVars, boundVars
  <2>4. ASSUME NEW answer \in {"failed", "acked"}, Ended(r, by, answer)
        PROVE  /\ reload' \in [Replica -> Slots]
               /\ push' \in [Replica -> {"none", "todo", "sent", "running", "failed",
                                         "acked", "gave up"}]
    BY <1>7, <2>4 DEF Ended, Slots
  <2>5. CASE Swap(r, by)
    <3>1. reload[r][by].got \in Files
      BY <2>1, <2>5 DEF Swap, Loaded, InPhase, UnderWay
    <3> QED
      BY <2>4, <2>5, <3>1 DEF Swap, sidecarVars, boundVars
  <2>6. CASE Failure(r, by)
    BY <2>4, <2>6 DEF Failure
  <2> QED
    BY <1>9, <2>2, <2>3, <2>31, <2>5, <2>6 DEF Step
<1> QED
  BY <1>1, <1>2, <1>3, <1>4, <1>6, <1>8, <1>9, Steps

\* Pushes are under way only while the loop pushes, and then it writes no file
\* (pushDirty waits for its calls).
LEMMA PushingOnlyStep ==
    ASSUME Shape, PushingOnly, CallsMatch, [Next]_vars
    PROVE  PushingOnly'
<1> USE DEF PushingOnly
<1>1. CASE Quiet
  BY <1>1 DEF Quiet
<1>2. CASE \E z \in Zone : WriteZone(z) \/ RemoveZone(z)
  BY <1>2 DEF WriteZone, RemoveZone
<1>3. CASE Reload \/ Reconcile
  BY <1>3 DEF Reload, Reconcile, StartPush
<1>4. CASE EndPush \/ SidecarRestart
  BY <1>4 DEF EndPush, SidecarRestart
<1>5. ASSUME NEW r \in Replica,
             \/ SendPush(r) \/ PushRefused(r) \/ PushSucceeds(r) \/ PushFails(r)
             \/ PollReload(r) \/ GrpcReload(r) \/ ReplicaRestart(r)
      PROVE  PushingOnly'
  BY <1>5 DEF SendPush, PushRefused, PushSucceeds, PushFails, PollReload, GrpcReload,
              StartReload, ReplicaRestart, sidecarVars, Shape
<1>6. ASSUME NEW r \in Replica, NEW by \in Trigger,
             Step(r, by)
      PROVE  PushingOnly'
  BY <1>6 DEF Step, List, Get, GetTemp, sidecarVars
<1>7. ASSUME NEW r \in Replica, NEW by \in Trigger,
             Swap(r, by) \/ Failure(r, by)
      PROVE  PushingOnly'
  BY <1>7 DEF Swap, Failure, Loaded, InPhase, Ended, CallsMatch, sidecarVars, Shape
<1> QED
  BY <1>1, <1>2, <1>3, <1>4, <1>5, <1>6, <1>7, Steps

\* What a reload holds before it has asked for anything (reloadZones).
LEMMA ListingFields ==
    ASSUME Shape, NEW by \in Trigger
    PROVE  /\ Listing(by) \in UnderWay
           /\ Listing(by).phase = "list" /\ Listing(by).got = Nothing
           /\ by # "grpc" => ~Listing(by).call
<1>1. Shape => Listing(by) \in UnderWay
  BY DEF Listing, UnderWay, Nothing, Files, Shape
<1> QED
  BY <1>1 DEF Listing

\* A step that touches only one of a replica's reloads.
Only(r, by) == \A s \in Replica, other \in Trigger :
                  (s # r \/ other # by) => reload'[s][other] = reload[s][other]

\* An update of one reload leaves the replica's other reloads, and those of
\* other replicas, alone.
LEMMA OnlyOne ==
    ASSUME Shape, NEW r \in Replica, NEW by \in Trigger, NEW x,
           reload' = [reload EXCEPT ![r][by] = x]
    PROVE  Only(r, by) /\ reload'[r][by] = x
BY DEF Only, Shape, Slots

\* A request that succeeds takes the reload under way one step further.
LEMMA Requests ==
    ASSUME Shape, NEW r \in Replica, NEW by \in Trigger,
           Step(r, by)
    PROVE  /\ Running(r, by) /\ reload[r][by] \in UnderWay
           /\ Only(r, by) /\ reload'[r][by] \in UnderWay
           /\ reload'[r][by].call = reload[r][by].call
           /\ UNCHANGED <<push, served, file, loop>>
<1>1. Running(r, by) /\ UNCHANGED <<push, served, file, loop>>
  BY DEF Step, List, Get, GetTemp, InPhase, sidecarVars
<1>2. reload[r][by] \in UnderWay
  BY <1>1 DEF Running, Shape, Slots
<1>3. CASE List(r, by)
  <2> DEFINE x == [reload[r][by] EXCEPT !.phase = "get",
                                        !.todo = {z \in Zone : file[z] # NoZone},
                                        !.temps = {z \in Zone : temp[z] # "none"}]
  <2>1. reload' = [reload EXCEPT ![r][by] = x]
    BY <1>3 DEF List
  <2>2. x \in UnderWay /\ x.call = reload[r][by].call
    BY <1>2 DEF UnderWay
  <2> HIDE DEF x
  <2>3. Only(r, by) /\ reload'[r][by] = x
    BY <2>1, OnlyOne
  <2> QED
    BY <1>1, <1>2, <2>2, <2>3
<1>4. ASSUME NEW z \in Zone, Get(r, by, z)
      PROVE  /\ Only(r, by) /\ reload'[r][by] \in UnderWay
             /\ reload'[r][by].call = reload[r][by].call
  <2> DEFINE x == [reload[r][by] EXCEPT !.todo = reload[r][by].todo \ {z},
                                        !.got[z] = Fetched(r, z)]
  <2>1. reload' = [reload EXCEPT ![r][by] = x]
    BY <1>4 DEF Get
  <2>2. Fetched(r, z) \in File \cup {NoZone}
    BY DEF Fetched, Files, Shape
  <2>3. x \in UnderWay /\ x.call = reload[r][by].call
    BY <1>2, <2>2 DEF UnderWay, Files
  <2> HIDE DEF x
  <2>4. Only(r, by) /\ reload'[r][by] = x
    BY <2>1, OnlyOne
  <2> QED
    BY <2>3, <2>4
<1>5. ASSUME NEW z \in Zone, GetTemp(r, by, z)
      PROVE  /\ Only(r, by) /\ reload'[r][by] \in UnderWay
             /\ reload'[r][by].call = reload[r][by].call
  <2> DEFINE x == [reload[r][by] EXCEPT !.temps = reload[r][by].temps \ {z}]
  <2>1. reload' = [reload EXCEPT ![r][by] = x]
    BY <1>5 DEF GetTemp, Shape, Slots
  <2>2. x \in UnderWay /\ x.call = reload[r][by].call
    BY <1>2 DEF UnderWay
  <2> HIDE DEF x
  <2>3. Only(r, by) /\ reload'[r][by] = x
    BY <2>1, OnlyOne
  <2> QED
    BY <2>2, <2>3
<1> QED
  BY <1>1, <1>2, <1>3, <1>4, <1>5 DEF Step

\* When a reload ends it is no longer running, unless startup begins again.
LEMMA Ends ==
    ASSUME Shape, NEW r \in Replica, NEW by \in Trigger, NEW answer,
           Ended(r, by, answer)
    PROVE  /\ Only(r, by)
           /\ reload'[r][by] \in {Off, Listing("startup")}
           /\ \A s \in Replica : s # r => push'[s] = push[s]
           /\ push'[r] \in {push[r], answer}
           /\ ~reload[r][by].call => UNCHANGED push
<1> DEFINE x == IF by = "startup" /\ answer = "failed" THEN Listing(by) ELSE Off
<1>1. reload' = [reload EXCEPT ![r][by] = x]
  BY DEF Ended
<1>2. x \in {Off, Listing("startup")}
  OBVIOUS
<1>3. /\ \A s \in Replica : s # r => push'[s] = push[s]
      /\ push'[r] \in {push[r], answer}
      /\ ~reload[r][by].call => UNCHANGED push
  BY DEF Ended, Shape
<1> HIDE DEF x
<1>4. Only(r, by) /\ reload'[r][by] = x
  BY <1>1, OnlyOne
<1> QED
  BY <1>2, <1>3, <1>4

\* A replica runs one reload at a time (reloadMu).
LEMMA OneReloadStep ==
    ASSUME Shape, OneReload, [Next]_vars
    PROVE  OneReload'
\* Most steps start no reload.
<1>1. ASSUME \A r \in Replica, by \in Trigger : reload'[r][by] # Off => Running(r, by)
      PROVE  OneReload'
  BY <1>1 DEF OneReload, Running
<1>2. ASSUME UNCHANGED reload
      PROVE  OneReload'
  BY <1>1, <1>2 DEF Running
<1>3. ASSUME NEW z \in Zone, WriteZone(z) \/ RemoveZone(z)
      PROVE  OneReload'
  BY <1>2, <1>3 DEF WriteZone, RemoveZone
<1>4. CASE Reload \/ Reconcile \/ EndPush
  BY <1>2, <1>4 DEF Reload, Reconcile, StartPush, EndPush
<1>5. ASSUME NEW r \in Replica, NEW by \in Trigger, Disowned(r)[by] # Off
      PROVE  Running(r, by)
  BY <1>5 DEF Disowned, Running, Shape, Slots
<1>6. CASE SidecarRestart
  BY <1>1, <1>5, <1>6 DEF SidecarRestart
<1>7. ASSUME NEW r \in Replica, SendPush(r) \/ PushRefused(r) \/ PushSucceeds(r)
      PROVE  OneReload'
  BY <1>2, <1>7 DEF SendPush, PushRefused, PushSucceeds
<1>8. ASSUME NEW r \in Replica, PushFails(r)
      PROVE  OneReload'
  BY <1>1, <1>5, <1>8 DEF PushFails, Running, Shape
<1>9. ASSUME NEW r \in Replica, NEW by \in Trigger, StartReload(r, by)
      PROVE  OneReload'
  BY <1>9 DEF StartReload, MayReload, NoReload, OneReload, Running, Shape, Slots
<1>10. ASSUME NEW r \in Replica, PollReload(r) \/ GrpcReload(r)
       PROVE  OneReload'
  BY <1>9, <1>10 DEF PollReload, GrpcReload, Trigger
<1>11. ASSUME NEW r \in Replica, ReplicaRestart(r)
       PROVE  OneReload'
  BY <1>11 DEF ReplicaRestart, NoReload, OneReload, Running, Shape, Slots
<1>12. ASSUME NEW r \in Replica, NEW by \in Trigger,
              Step(r, by) \/ Swap(r, by) \/ Failure(r, by)
       PROVE  OneReload'
  <2>1. Running(r, by)
    BY <1>12 DEF Step, List, Swap, Failure, Get, GetTemp, Loaded, InPhase
  <2>2. Only(r, by)
    BY <1>12, Requests, Ends DEF Swap, Failure
  <2> QED
    BY <1>1, <2>1, <2>2 DEF Only, Running
<1> QED
  BY <1>2, <1>3, <1>4, <1>6, <1>7, <1>8, <1>10, <1>11, <1>12, Steps DEF Quiet

\* No reload answers a push whose caller is gone.
LEMMA NobodyWaits ==
    ASSUME Shape, CallsMatch, NEW r \in Replica, NEW by \in Trigger,
           Disowned(r)[by] # Off
    PROVE  ~Disowned(r)[by].call
<1>1. CASE by = "grpc"
  <2>1. Running(r, "grpc")
    BY <1>1 DEF Disowned, Running
  <2>2. reload[r]["grpc"] \in UnderWay
    BY <2>1 DEF Running, Shape, Slots, Trigger
  <2>3. ~[reload[r]["grpc"] EXCEPT !.call = FALSE].call
    BY <2>2 DEF UnderWay
  <2> QED
    BY <1>1, <2>1, <2>3 DEF Disowned, Shape, Slots, Trigger
<1>2. CASE by # "grpc"
  BY <1>2 DEF Disowned, Running, CallsMatch, Shape, Slots
<1> QED
  BY <1>1, <1>2

\* A reload that will answer a push was started by that push's own call, and the
\* push still waits (the Reload handler; Disowned).
LEMMA CallsMatchStep ==
    ASSUME Shape, OneReload, CallsMatch, PushingOnly, [Next]_vars
    PROVE  CallsMatch'
\* The reloads of no replica change, and no push that is being reloaded.
<1>1. ASSUME UNCHANGED reload,
             \A r \in Replica : push[r] = "running" => push'[r] = "running"
      PROVE  CallsMatch'
  BY <1>1 DEF CallsMatch, Running
<1>2. ASSUME NEW z \in Zone, WriteZone(z) \/ RemoveZone(z)
      PROVE  CallsMatch'
  BY <1>1, <1>2 DEF WriteZone, RemoveZone
<1>3. CASE Reload \/ Reconcile \/ EndPush
  <2>1. \A r \in Replica : push[r] # "running"
    BY <1>3 DEF Reload, Reconcile, EndPush, PushingOnly
  <2> QED
    BY <1>1, <1>3, <2>1 DEF Reload, Reconcile, StartPush, EndPush
<1>5. CASE SidecarRestart
  BY <1>5, NobodyWaits DEF SidecarRestart, CallsMatch, Running
<1>6. ASSUME NEW r \in Replica, SendPush(r) \/ PushRefused(r) \/ PushSucceeds(r)
      PROVE  CallsMatch'
  BY <1>1, <1>6 DEF SendPush, PushRefused, PushSucceeds, Shape
<1>7. ASSUME NEW r \in Replica, PushFails(r)
      PROVE  CallsMatch'
  BY <1>7, NobodyWaits, ZenonT(60) DEF PushFails, CallsMatch, Running, Shape
<1>8. ASSUME NEW r \in Replica, PollReload(r)
      PROVE  CallsMatch'
  BY <1>8 DEF PollReload, StartReload, Listing, CallsMatch, Running, Trigger, Shape,
              Slots
<1>9. ASSUME NEW r \in Replica, GrpcReload(r)
      PROVE  CallsMatch'
  BY <1>9 DEF GrpcReload, StartReload, MayReload, NoReload, CallsMatch, Running,
              Trigger, Shape, Slots
<1>10. ASSUME NEW r \in Replica, ReplicaRestart(r)
       PROVE  CallsMatch'
  BY <1>10 DEF ReplicaRestart, NoReload, Listing, CallsMatch, Running, Shape, Slots,
               Trigger
<1>11. ASSUME NEW r \in Replica, NEW by \in Trigger,
              Step(r, by)
       PROVE  CallsMatch'
  <2>1. /\ Running(r, by) /\ Only(r, by)
        /\ reload'[r][by].call = reload[r][by].call
        /\ UNCHANGED push
    BY <1>11, Requests
  <2> QED
    BY <2>1 DEF CallsMatch, Only, Running
<1>12. ASSUME NEW r \in Replica, NEW by \in Trigger, NEW answer, Ended(r, by, answer),
              Running(r, by)
       PROVE  CallsMatch'
  <2>1. ASSUME NEW other \in Trigger, reload'[r][other] # Off
        PROVE  ~reload'[r][other].call
    <3>1. ASSUME other # by PROVE FALSE
      <4>1. reload'[r][other] = reload[r][other]
        BY <1>12, <3>1, Ends DEF Only
      <4> QED
        BY <1>12, <2>1, <3>1, <4>1 DEF OneReload, Running
    <3>2. reload'[r][by] = Listing("startup")
      BY <1>12, <2>1, <3>1, Ends
    <3> QED
      BY <3>1, <3>2, ListingFields DEF Trigger
  <2>2. ASSUME NEW s \in Replica, s # r
        PROVE  /\ push'[s] = push[s]
               /\ \A other \in Trigger : reload'[s][other] = reload[s][other]
    BY <1>12, <2>2, Ends DEF Only
  <2> QED
    BY <2>1, <2>2 DEF CallsMatch, Running
<1>13. ASSUME NEW r \in Replica, NEW by \in Trigger, Swap(r, by) \/ Failure(r, by)
       PROVE  CallsMatch'
  BY <1>12, <1>13 DEF Swap, Failure, Loaded, InPhase
<1> QED
  BY <1>1, <1>2, <1>3, <1>5, <1>6, <1>7, <1>8, <1>9, <1>10, <1>11, <1>13, Steps
  DEF Quiet

-----------------------------------------------------------------------------
(* What is read *)

\* A request that succeeds leaves what has been read up to date.
LEMMA RequestsStayFresh ==
    ASSUME Shape, NEW r \in Replica, NEW by \in Trigger, UpToDate(r, by),
           Step(r, by)
    PROVE  UpToDate(r, by)'
<1>1. reload[r][by] \in UnderWay /\ UNCHANGED file
  BY Requests
<1>2. CASE List(r, by)
  <2> DEFINE x == [reload[r][by] EXCEPT !.phase = "get",
                                        !.todo = {z \in Zone : file[z] # NoZone},
                                        !.temps = {z \in Zone : temp[z] # "none"}]
  <2>0. reload' = [reload EXCEPT ![r][by] = x]
    BY <1>2 DEF List
  <2>1. reload'[r][by] = x
    <3> HIDE DEF x
    <3> QED
      BY <2>0, OnlyOne
  <2>2. reload[r][by].got = Nothing
    BY <1>2 DEF List, InPhase, UpToDate
  <2>3. x.todo = {z \in Zone : file[z] # NoZone} /\ x.got = Nothing /\ x.phase = "get"
    BY <1>1, <2>2 DEF UnderWay
  <2> HIDE DEF x
  <2> QED
    BY <1>1, <2>1, <2>3 DEF UpToDate, Nothing
<1>3. ASSUME NEW z \in Zone, Get(r, by, z)
      PROVE  UpToDate(r, by)'
  <2> DEFINE d == reload[r][by]
             x == [reload[r][by] EXCEPT !.todo = reload[r][by].todo \ {z},
                                        !.got[z] = Fetched(r, z)]
  <2>0. reload' = [reload EXCEPT ![r][by] = x]
    BY <1>3 DEF Get
  <2>1. reload'[r][by] = x
    <3> HIDE DEF x
    <3> QED
      BY <2>0, OnlyOne
  <2>2. d.phase = "get" /\ z \in d.todo
    BY <1>3 DEF Get, InPhase
  <2>3. Fetched(r, z) = file[z]
    BY DEF Fetched, NotModified
  <2>4. /\ x.phase = "get" /\ x.todo = d.todo \ {z}
        /\ x.got = [d.got EXCEPT ![z] = file[z]] /\ d.got \in Files
    BY <1>1, <2>2, <2>3 DEF UnderWay
  <2>5. \A y \in Zone : IF y \in d.todo THEN file[y] # NoZone ELSE d.got[y] = file[y]
    BY <2>2 DEF UpToDate
  <2> HIDE DEF x, d
  <2>6. \A y \in Zone : IF y \in x.todo THEN file[y] # NoZone ELSE x.got[y] = file[y]
    BY <2>4, <2>5 DEF Files
  <2> QED
    BY <1>1, <2>1, <2>4, <2>6 DEF UpToDate
<1>4. ASSUME NEW z \in Zone, GetTemp(r, by, z)
      PROVE  UpToDate(r, by)'
  <2> DEFINE x == [reload[r][by] EXCEPT !.temps = reload[r][by].temps \ {z}]
  <2>1. reload' = [reload EXCEPT ![r][by] = x]
    BY <1>4 DEF GetTemp, Shape, Slots
  <2>2. reload'[r][by] = x
    <3> HIDE DEF x
    <3> QED
      BY <2>1, OnlyOne
  <2>3. /\ x.phase = reload[r][by].phase /\ x.todo = reload[r][by].todo
        /\ x.got = reload[r][by].got
    BY <1>1 DEF UnderWay
  <2> HIDE DEF x
  <2> QED
    BY <1>1, <2>2, <2>3 DEF UpToDate
<1> QED
  BY <1>2, <1>3, <1>4 DEF Step

\* What a reload has read is what the files are, if a push waits for it or it
\* began after one was answered (fetchZonesFromURL).
LEMMA ReadsAreFreshStep ==
    ASSUME PushInv, [Next]_vars
    PROVE  ReadsAreFresh'
<1> USE DEF PushInv
<1>1. ASSUME UNCHANGED <<reload, file>>,
             \A r \in Replica : push'[r] = "acked" => push[r] = "acked"
      PROVE  ReadsAreFresh'
  BY <1>1 DEF ReadsAreFresh, UpToDate, Running
\* One replica does something, to its own reloads.
<1>2. ASSUME NEW r \in Replica, UNCHANGED file,
             \A s \in Replica : s # r => reload'[s] = reload[s] /\ push'[s] = push[s],
             \A by \in Trigger :
                (reload'[r][by] # Off /\ (reload'[r][by].call \/ push'[r] = "acked"))
                   => UpToDate(r, by)'
      PROVE  ReadsAreFresh'
  <2>1. ASSUME NEW s \in Replica, s # r, NEW by \in Trigger, Running(s, by)',
               reload'[s][by].call \/ push'[s] = "acked"
        PROVE  UpToDate(s, by)'
    BY <1>2, <2>1 DEF ReadsAreFresh, UpToDate, Running
  <2> QED
    BY <1>2, <2>1 DEF ReadsAreFresh, Running
\* A reload that begins has read nothing.
<1>3. ASSUME NEW r \in Replica, NEW by \in Trigger, NEW other \in Trigger,
             reload'[r][by] = Listing(other)
      PROVE  UpToDate(r, by)'
  BY <1>3, ListingFields DEF UpToDate, Nothing
<1>4. ASSUME NEW z \in Zone, WriteZone(z) \/ RemoveZone(z)
      PROVE  ReadsAreFresh'
  <2>1. \A r \in Replica : push[r] = "none"
    BY <1>4 DEF WriteZone, RemoveZone, PushingOnly
  <2> QED
    BY <1>4, <2>1 DEF WriteZone, RemoveZone, ReadsAreFresh, CallsMatch, Running
<1>5. CASE Reload \/ Reconcile \/ EndPush
  BY <1>1, <1>5 DEF Reload, Reconcile, StartPush, EndPush
<1>6. CASE SidecarRestart
  BY <1>6, NobodyWaits DEF SidecarRestart, ReadsAreFresh, Running
<1>7. ASSUME NEW r \in Replica, SendPush(r) \/ PushRefused(r) \/ PushSucceeds(r)
      PROVE  ReadsAreFresh'
  BY <1>1, <1>7 DEF SendPush, PushRefused, PushSucceeds, sidecarVars, Shape
<1>8. ASSUME NEW r \in Replica, PushFails(r)
      PROVE  ReadsAreFresh'
  <2>1. push'[r] # "acked" /\ reload'[r] = Disowned(r) /\ UNCHANGED file
    BY <1>8 DEF PushFails, Shape, sidecarVars
  <2>2. \A s \in Replica : s # r => reload'[s] = reload[s] /\ push'[s] = push[s]
    BY <1>8 DEF PushFails, Shape
  <2> QED
    BY <1>2, <2>1, <2>2, NobodyWaits
<1>9. ASSUME NEW r \in Replica, NEW by \in Trigger, StartReload(r, by),
             \A s \in Replica : s # r => push'[s] = push[s]
      PROVE  ReadsAreFresh'
  <2>1. reload' = [reload EXCEPT ![r][by] = Listing(by)] /\ UNCHANGED file
    BY <1>9 DEF StartReload, sidecarVars
  <2>2. Only(r, by) /\ reload'[r][by] = Listing(by)
    BY <2>1, OnlyOne
  <2>3. \A other \in Trigger : other # by => reload'[r][other] = Off
    BY <1>9, <2>2 DEF StartReload, MayReload, NoReload, Only
  <2>4. \A s \in Replica : s # r => reload'[s] = reload[s]
    BY <2>1 DEF Shape
  <2> QED
    BY <1>2, <1>3, <1>9, <2>1, <2>2, <2>3, <2>4
<1>10. ASSUME NEW r \in Replica, PollReload(r) \/ GrpcReload(r)
       PROVE  ReadsAreFresh'
  BY <1>9, <1>10 DEF PollReload, GrpcReload, Trigger, Shape
<1>11. ASSUME NEW r \in Replica, ReplicaRestart(r)
       PROVE  ReadsAreFresh'
  <2>1. /\ \A s \in Replica : s # r => reload'[s] = reload[s] /\ push'[s] = push[s]
        /\ UNCHANGED file
    BY <1>11 DEF ReplicaRestart, Shape, sidecarVars
  <2>2. /\ reload'[r]["startup"] = Listing("startup")
        /\ \A by \in Trigger : by # "startup" => reload'[r][by] = Off
    BY <1>11 DEF ReplicaRestart, NoReload, Shape, Trigger
  <2> QED
    BY <1>2, <1>3, <2>1, <2>2 DEF Trigger
<1>12. ASSUME NEW r \in Replica, NEW by \in Trigger,
              Step(r, by)
       PROVE  ReadsAreFresh'
  <2>1. /\ Running(r, by) /\ Only(r, by) /\ reload'[r][by].call = reload[r][by].call
        /\ UNCHANGED <<push, file>>
    BY <1>12, Requests
  <2>2. (reload[r][by].call \/ push[r] = "acked") => UpToDate(r, by)'
    BY <1>12, <2>1, RequestsStayFresh DEF ReadsAreFresh
  <2>3. ASSUME NEW s \in Replica, NEW other \in Trigger, s # r \/ other # by,
               Running(s, other)', reload'[s][other].call \/ push'[s] = "acked"
        PROVE  UpToDate(s, other)'
    BY <2>1, <2>3 DEF Only, ReadsAreFresh, UpToDate, Running
  <2> QED
    BY <2>1, <2>2, <2>3 DEF ReadsAreFresh
<1>13. ASSUME NEW r \in Replica, NEW by \in Trigger, Swap(r, by) \/ Failure(r, by)
       PROVE  ReadsAreFresh'
  <2>1. PICK answer : Ended(r, by, answer)
    BY <1>13 DEF Swap, Failure
  <2>2. Running(r, by) /\ UNCHANGED file
    BY <1>13 DEF Swap, Failure, Loaded, InPhase, sidecarVars
  <2>3. /\ \A s \in Replica : s # r => push'[s] = push[s]
        /\ Only(r, by) /\ reload'[r][by] \in {Off, Listing("startup")}
    BY <2>1, Ends
  <2>4. \A other \in Trigger : other # by => reload'[r][other] = Off
    BY <2>2, <2>3 DEF Only, OneReload, Running
  <2>5. \A s \in Replica : s # r => reload'[s] = reload[s]
    BY <2>1 DEF Ended, Shape
  <2> QED
    BY <1>2, <1>3, <2>2, <2>3, <2>4, <2>5 DEF Trigger
<1> QED
  BY <1>1, <1>4, <1>5, <1>6, <1>7, <1>8, <1>10, <1>11, <1>12, <1>13, Steps DEF Quiet

-----------------------------------------------------------------------------

\* PushedIsLoaded is kept by every step (Swap, and whoever changes what is
\* served).
LEMMA PushedStep ==
    ASSUME PushInv, [Next]_vars
    PROVE  PushedIsLoaded'
<1> USE DEF PushInv
<1>1. ASSUME UNCHANGED <<served, file>>,
             \A r \in Replica : push'[r] = "acked" => push[r] = "acked",
             \A r \in Replica : Running(r, "startup") => reload'[r]["startup"] # Off
      PROVE  PushedIsLoaded'
  BY <1>1 DEF PushedIsLoaded, Running
<1>2. ASSUME NEW z \in Zone, WriteZone(z) \/ RemoveZone(z)
      PROVE  PushedIsLoaded'
  <2>1. \A r \in Replica : push'[r] = "none"
    BY <1>2 DEF WriteZone, RemoveZone, PushingOnly
  <2> QED
    BY <2>1 DEF PushedIsLoaded
<1>3. CASE Reload \/ Reconcile \/ EndPush
  BY <1>1, <1>3 DEF Reload, Reconcile, StartPush, EndPush, Running
<1>4. CASE SidecarRestart
  BY <1>4 DEF SidecarRestart, PushedIsLoaded
<1>5. ASSUME NEW r \in Replica, SendPush(r) \/ PushRefused(r) \/ PushSucceeds(r)
      PROVE  PushedIsLoaded'
  BY <1>1, <1>5 DEF SendPush, PushRefused, PushSucceeds, sidecarVars, Shape, Running
<1>6. ASSUME NEW r \in Replica, PushFails(r)
      PROVE  PushedIsLoaded'
  <2>1. \A s \in Replica : Running(s, "startup") => reload'[s]["startup"] # Off
    BY <1>6, ZenonT(60) DEF PushFails, Disowned, Running, Shape, Slots, Trigger
  <2>2. \A s \in Replica : push'[s] = "acked" => push[s] = "acked"
    BY <1>6 DEF PushFails, Shape
  <2> QED
    BY <1>1, <1>6, <2>1, <2>2 DEF PushFails, sidecarVars
<1>7. ASSUME NEW r \in Replica, PollReload(r) \/ GrpcReload(r)
      PROVE  PushedIsLoaded'
  <2>1. PICK by \in Trigger : by # "startup" /\ StartReload(r, by)
    BY <1>7 DEF PollReload, GrpcReload, Trigger
  <2>2. Only(r, by)
    BY <2>1, OnlyOne DEF StartReload
  <2>3. \A s \in Replica : push'[s] = "acked" => push[s] = "acked"
    BY <1>7 DEF PollReload, GrpcReload, Shape
  <2> QED
    BY <1>1, <2>1, <2>2, <2>3 DEF StartReload, Only, Running, sidecarVars, Trigger
\* A replica that restarts serves nothing, but it is in its startup reload.
<1>8. ASSUME NEW r \in Replica, ReplicaRestart(r)
      PROVE  PushedIsLoaded'
  <2>1. reload'[r]["startup"] # Off
    <3>1. reload'[r]["startup"] = Listing("startup")
      BY <1>8 DEF ReplicaRestart, NoReload, Shape, Trigger
    <3> QED
      BY <3>1, ListingFields, OffAssumption DEF Trigger
  <2>2. \A s \in Replica : s # r => /\ reload'[s] = reload[s] /\ push'[s] = push[s]
                                    /\ served'[s] = served[s]
    BY <1>8 DEF ReplicaRestart, Shape
  <2> QED
    BY <1>8, <2>1, <2>2 DEF ReplicaRestart, PushedIsLoaded, Running, sidecarVars
<1>9. ASSUME NEW r \in Replica, NEW by \in Trigger,
             Step(r, by)
      PROVE  PushedIsLoaded'
  <2>1. Only(r, by) /\ UNCHANGED <<push, served, file>>
    BY <1>9, Requests
  <2>2. reload'[r][by] # Off
    BY <1>9, Requests, OffAssumption
  <2> QED
    BY <1>1, <2>1, <2>2 DEF Only, Running, Trigger
<1>10. ASSUME NEW r \in Replica, NEW by \in Trigger, Failure(r, by)
       PROVE  PushedIsLoaded'
  <2>1. /\ Only(r, by) /\ UNCHANGED <<served, file>>
        /\ \A s \in Replica : push'[s] = "acked" => push[s] = "acked"
    BY <1>10, Ends DEF Failure
  <2>2. by = "startup" => reload'[r][by] # Off
    <3>1. by = "startup" => reload'[r][by] = Listing(by)
      BY <1>10, OnlyOne DEF Failure, Ended
    <3> QED
      BY <3>1, ListingFields, OffAssumption
  <2> QED
    BY <1>1, <2>1, <2>2 DEF Only, Running, Trigger
\* The step that answers a push, or reloads once more before the answer is taken:
\* either way what it has read is what the files hold.
<1>11. ASSUME NEW r \in Replica, NEW by \in Trigger, Swap(r, by)
       PROVE  PushedIsLoaded'
  <2>1. /\ Running(r, by) /\ reload[r][by].phase = "get" /\ reload[r][by].todo = {}
        /\ Ended(r, by, "acked") /\ UNCHANGED file
        /\ served' = [served EXCEPT ![r] = reload[r][by].got]
    BY <1>11 DEF Swap, Loaded, InPhase, sidecarVars
  <2>2. ASSUME push'[r] = "acked"
        PROVE  served'[r] = file'
    <3>1. reload[r][by].call \/ push[r] = "acked"
      BY <2>1, <2>2, Ends
    <3>2. UpToDate(r, by)
      BY <2>1, <3>1 DEF ReadsAreFresh
    <3>3. \A z \in Zone : reload[r][by].got[z] = file[z]
      BY <2>1, <3>2 DEF UpToDate
    <3>4. reload[r][by].got \in Files /\ file \in Files
      <4>1. reload[r][by] \in UnderWay
        BY <2>1, ZenonT(60) DEF Running, Shape, Slots
      <4> QED
        BY <4>1 DEF UnderWay, Shape
    <3>5. reload[r][by].got = file
      <4> DEFINE g == reload[r][by].got
      <4>1. \A z \in Zone : g[z] = file[z]
        BY <3>3
      <4>2. g \in Files /\ file \in Files
        BY <3>4
      <4> HIDE DEF g
      <4>3. g = file
        BY <4>1, <4>2 DEF Files
      <4> QED
        BY <4>3 DEF g
    <3>6. served'[r] = reload[r][by].got
      BY <2>1 DEF Shape
    <3> QED
      BY <2>1, <3>5, <3>6
  <2>3. ASSUME NEW s \in Replica, s # r
        PROVE  /\ served'[s] = served[s] /\ push'[s] = push[s]
               /\ reload'[s]["startup"] = reload[s]["startup"]
    <3>1. Only(r, by) /\ push'[s] = push[s]
      BY <2>1, <2>3, Ends
    <3> QED
      BY <2>1, <2>3, <3>1 DEF Only, Shape, Trigger
  <2> SUFFICES ASSUME NEW s \in Replica, push'[s] = "acked", ~Running(s, "startup")'
               PROVE  served'[s] = file'
    BY DEF PushedIsLoaded
  <2>4. CASE s = r
    BY <2>2, <2>4
  <2>5. CASE s # r
    <3>1. push[s] = "acked" /\ ~Running(s, "startup")
      BY <2>3, <2>5 DEF Running
    <3>2. served[s] = file
      BY <3>1 DEF PushedIsLoaded
    <3> QED
      BY <2>1, <2>3, <2>5, <3>2
  <2> QED
    BY <2>4, <2>5
<1> QED
  BY <1>1, <1>2, <1>3, <1>4, <1>5, <1>6, <1>7, <1>8, <1>9, <1>10, <1>11, Steps
  DEF Quiet, Running

-----------------------------------------------------------------------------
(* Theorem *)

\* The invariant holds of the initial states.
LEMMA PushInit == Init => PushInv
<1> SUFFICES ASSUME Init PROVE PushInv
  OBVIOUS
<1>1. file \in Files
  BY DEF Init, Files, File
<1>2. Shape
  BY <1>1 DEF Init, Shape, NoReload, Slots
<1>3. \A r \in Replica, by \in Trigger : ~Running(r, by)
  BY DEF Init, NoReload, Running
<1> QED
  BY <1>2, <1>3 DEF Init, PushInv, PushingOnly, OneReload, CallsMatch, ReadsAreFresh,
                    PushedIsLoaded

\* The invariant is inductive.
LEMMA PushStep == PushInv /\ [Next]_vars => PushInv'
BY ShapeStep, PushingOnlyStep, OneReloadStep, CallsMatchStep, ReadsAreFreshStep,
   PushedStep DEF PushInv

\* A push that succeeds means that the replica serves the sidecar's files, for any
\* number of zones and replicas, whatever fails, restarts or runs concurrently
\* (reloadMu, the ETag's comparison, pushDirty's wait for its calls).
THEOREM PushMeansLoaded == Spec => []PushedIsLoaded
<1>1. PushInv => PushedIsLoaded
  BY DEF PushInv
<1> QED
  BY PushInit, PushStep, <1>1, PTL DEF Spec
=============================================================================
