--------------------------- MODULE ReplicaProofs ---------------------------
(***************************************************************************)
(* What a replica serves over time, and what its secondaries are told, for *)
(* any number of zones and secondaries, whatever fails, restarts or runs   *)
(* concurrently.                                                           *)
(***************************************************************************)
EXTENDS PropagationProofs

-----------------------------------------------------------------------------
(* How files, reloads and served zones move *)

\* The sidecar's files change by one write or one removal at a time.
Wrote(z) == /\ writes' = writes + 1 /\ file[z]' \in File /\ file[z]'.content = writes'
            /\ file' = [file EXCEPT ![z] = file[z]'] /\ UNCHANGED <<served, reload>>

Removed(z) == /\ file' = [file EXCEPT ![z] = NoZone]
              /\ UNCHANGED <<writes, served, reload>>

\* What can become of the reload that by has started on r.
Began(r, by) ==
    /\ reload'[r][by].phase = "list" /\ reload'[r][by].got = Nothing
    /\ reload'[r][by].since = writes

Same(r, by) ==
    /\ Running(r, by)
    /\ reload'[r][by].phase = reload[r][by].phase
    /\ reload'[r][by].todo = reload[r][by].todo
    /\ reload'[r][by].got = reload[r][by].got
    /\ reload'[r][by].since = reload[r][by].since

Listed(r, by) ==
    /\ Running(r, by) /\ UNCHANGED served
    /\ reload'[r][by].todo = {z \in Zone : file[z] # NoZone}
    /\ reload'[r][by].got = reload[r][by].got
    /\ reload'[r][by].since = reload[r][by].since

Took(r, by, z) ==
    /\ Running(r, by) /\ UNCHANGED served
    /\ z \in Zone /\ file[z] # NoZone
    /\ reload[r][by].phase = "get"
    /\ reload'[r][by].todo = reload[r][by].todo \ {z}
    /\ reload'[r][by].got = [reload[r][by].got EXCEPT ![z] = file[z]]
    /\ reload'[r][by].since = reload[r][by].since

\* A request is answered by the file itself or by the copy that is equal to it.
LEMMA StepMoves ==
    ASSUME Shape, NEW r \in Replica, NEW by \in Trigger, Step(r, by)
    PROVE  \/ Same(r, by) \/ Listed(r, by)
           \/ \E z \in Zone : Took(r, by, z)
<1>1. Running(r, by) /\ reload[r][by] \in UnderWay /\ UNCHANGED served
  BY Requests
<1>2. CASE List(r, by)
  <2> DEFINE x == [reload[r][by] EXCEPT !.phase = "get",
                                        !.todo = {z \in Zone : file[z] # NoZone},
                                        !.temps = {z \in Zone : temp[z] # "none"}]
  <2>1. reload' = [reload EXCEPT ![r][by] = x]
    BY <1>2 DEF List
  <2>2. /\ x.todo = {z \in Zone : file[z] # NoZone}
        /\ x.got = reload[r][by].got /\ x.since = reload[r][by].since
    BY <1>1 DEF UnderWay
  <2> HIDE DEF x
  <2>3. reload'[r][by] = x
    BY <2>1, OnlyOne
  <2> QED
    BY <1>1, <2>2, <2>3 DEF Listed
<1>3. ASSUME NEW z \in Zone, Get(r, by, z)
      PROVE  Took(r, by, z)
  <2> DEFINE x == [reload[r][by] EXCEPT !.todo = reload[r][by].todo \ {z},
                                        !.got[z] = Fetched(r, z)]
  <2>1. reload' = [reload EXCEPT ![r][by] = x]
    BY <1>3 DEF Get
  <2>2. Fetched(r, z) = file[z]
    BY DEF Fetched, NotModified
  <2>3. /\ x.todo = reload[r][by].todo \ {z}
        /\ x.got = [reload[r][by].got EXCEPT ![z] = file[z]]
        /\ x.since = reload[r][by].since
    BY <1>1, <2>2 DEF UnderWay
  <2> HIDE DEF x
  <2>4. reload'[r][by] = x
    BY <2>1, OnlyOne
  <2> QED
    BY <1>1, <1>3, <2>3, <2>4 DEF Took, Get, InPhase
<1>4. ASSUME NEW z \in Zone, GetTemp(r, by, z)
      PROVE  Same(r, by)
  <2> DEFINE x == [reload[r][by] EXCEPT !.temps = reload[r][by].temps \ {z}]
  <2>1. reload' = [reload EXCEPT ![r][by] = x]
    BY <1>4 DEF GetTemp, Shape, Slots
  <2>2. /\ x.phase = reload[r][by].phase /\ x.todo = reload[r][by].todo
        /\ x.got = reload[r][by].got /\ x.since = reload[r][by].since
    BY <1>1 DEF UnderWay
  <2> HIDE DEF x
  <2>3. reload'[r][by] = x
    BY <2>1, OnlyOne
  <2> QED
    BY <1>1, <2>2, <2>3 DEF Same
<1> QED
  BY <1>2, <1>3, <1>4 DEF Step

LEMMA DisownedMoves ==
    ASSUME Shape, NEW r \in Replica, NEW by \in Trigger,
           reload'[r] = Disowned(r), Running(r, by)'
    PROVE  Same(r, by)
<1>1. CASE by = "grpc" /\ Running(r, "grpc")
  <2>1. reload[r] \in Slots /\ reload[r]["grpc"] \in UnderWay
    BY <1>1 DEF Shape, Running, Slots
  <2>2. reload'[r][by] = [reload[r]["grpc"] EXCEPT !.call = FALSE]
    BY <1>1, <2>1 DEF Disowned, Slots
  <2> QED
    BY <1>1, <2>1, <2>2 DEF Same, UnderWay
<1>2. CASE by # "grpc" \/ ~Running(r, "grpc")
  <2>1. reload'[r][by] = reload[r][by]
    BY <1>2 DEF Disowned, Shape, Slots
  <2> QED
    BY <2>1 DEF Same, Running
<1> QED
  BY <1>1, <1>2

\* Files change while no reload takes a step, and a reload that is running after
\* a step has begun, is unchanged or has taken one answer.
LEMMA Moves ==
    ASSUME Shape, [Next]_vars
    PROVE  \/ \E z \in Zone : Wrote(z) \/ Removed(z)
           \/ /\ UNCHANGED <<file, writes>>
              /\ \A r \in Replica, by \in Trigger : Running(r, by)' =>
                    \/ Began(r, by) \/ Same(r, by) \/ Listed(r, by)
                    \/ \E z \in Zone : Took(r, by, z)
<1> DEFINE Moved == \A r \in Replica, by \in Trigger : Running(r, by)' =>
                       \/ Began(r, by) \/ Same(r, by) \/ Listed(r, by)
                       \/ \E z \in Zone : Took(r, by, z)
<1>1. ASSUME UNCHANGED reload PROVE Moved
  BY <1>1 DEF Same, Running
<1>2. ASSUME NEW z \in Zone, WriteZone(z) PROVE Wrote(z)
  <2> DEFINE v == [serial |-> NextSerial(Serial(z)), content |-> writes', at |-> clock]
  <2>1. file' = [file EXCEPT ![z] = v] /\ writes' = writes + 1
        /\ UNCHANGED <<served, reload>>
    BY <1>2 DEF WriteZone
  <2>2. Serial(z) \in Nat /\ writes' \in Nat /\ clock \in Nat
    <3>1. Serial(z) \in Nat
      BY DEF Serial, Shape, Files, File
    <3>2. Shape'
      BY ShapeStep
    <3> QED
      BY <3>1, <3>2 DEF Shape
  <2>3. v \in File /\ v.content = writes'
    BY <2>2, SerialType DEF File
  <2>4. file'[z] = v
    BY <2>1 DEF Shape, Files
  <2> QED
    BY <2>1, <2>3, <2>4 DEF Wrote
<1>3. ASSUME NEW z \in Zone, RemoveZone(z) PROVE Removed(z)
  BY <1>3 DEF RemoveZone, Removed, boundVars
<1>4. CASE Quiet
  BY <1>1, <1>4 DEF Quiet
<1>5. CASE Reload \/ Reconcile \/ EndPush
  BY <1>1, <1>5 DEF Reload, Reconcile, StartPush, EndPush, boundVars
<1>6. CASE SidecarRestart
  BY <1>6, DisownedMoves DEF SidecarRestart
<1>7. ASSUME NEW r \in Replica, SendPush(r) \/ PushRefused(r) \/ PushSucceeds(r)
      PROVE  Moved /\ UNCHANGED <<file, writes>>
  BY <1>1, <1>7 DEF SendPush, PushRefused, PushSucceeds, sidecarVars, boundVars
<1>8. ASSUME NEW r \in Replica, PushFails(r)
      PROVE  Moved /\ UNCHANGED <<file, writes>>
  <2>1. /\ reload'[r] = Disowned(r) /\ UNCHANGED <<file, writes>>
        /\ \A q \in Replica \ {r} : reload'[q] = reload[q]
    BY <1>8 DEF PushFails, sidecarVars, Shape
  <2> QED
    BY <2>1, DisownedMoves DEF Same, Running
<1>9. ASSUME NEW r \in Replica, NEW by \in Trigger, StartReload(r, by)
      PROVE  Moved /\ UNCHANGED <<file, writes>>
  <2>1. Only(r, by) /\ reload'[r][by] = Listing(by) /\ UNCHANGED <<file, writes>>
    BY <1>9, OnlyOne DEF StartReload, sidecarVars, boundVars
  <2>2. Began(r, by)
    BY <2>1 DEF Began, Listing
  <2> QED
    BY <2>1, <2>2 DEF Only, Same, Running
<1>10. ASSUME NEW r \in Replica, ReplicaRestart(r)
       PROVE  Moved /\ UNCHANGED <<file, writes>>
  <2>1. /\ reload'[r] = [NoReload EXCEPT !["startup"] = Listing("startup")]
        /\ \A q \in Replica \ {r} : reload'[q] = reload[q]
        /\ UNCHANGED <<file, writes>>
    BY <1>10 DEF ReplicaRestart, sidecarVars, Shape
  <2>2. ASSUME NEW by \in Trigger, reload'[r][by] # Off
        PROVE  reload'[r][by] = Listing("startup")
    BY <2>1, <2>2 DEF NoReload
  <2>3. ASSUME NEW by \in Trigger, Running(r, by)'
        PROVE  Began(r, by)
    BY <2>2, <2>3 DEF Running, Began, Listing
  <2> QED
    BY <2>1, <2>3 DEF Same, Running
<1>11. ASSUME NEW r \in Replica, NEW by \in Trigger, Step(r, by)
       PROVE  Moved /\ UNCHANGED <<file, writes>>
  <2>1. Only(r, by) /\ UNCHANGED <<file, writes>>
    BY <1>11, Requests DEF Step, List, Get, GetTemp, boundVars
  <2> QED
    BY <1>11, <2>1, StepMoves DEF Only, Same, Running
<1>12. ASSUME NEW r \in Replica, NEW by \in Trigger, Swap(r, by) \/ Failure(r, by)
       PROVE  Moved /\ UNCHANGED <<file, writes>>
  <2>1. PICK answer : Ended(r, by, answer)
    BY <1>12 DEF Swap, Failure
  <2>2. Only(r, by) /\ reload'[r][by] \in {Off, Listing("startup")}
    BY <2>1, Ends
  <2>3. Running(r, by)' => Began(r, by)
    BY <2>2 DEF Running, Began, Listing
  <2>4. UNCHANGED <<file, writes>>
    BY <1>12 DEF Swap, Failure, sidecarVars, boundVars
  <2> QED
    BY <2>2, <2>3, <2>4 DEF Only, Same, Running
<1> HIDE DEF Moved
<1>13. CASE SidecarRestart \/ Quiet \/ Reload \/ Reconcile \/ EndPush
  <2>1. UNCHANGED <<file, writes>>
    BY <1>13 DEF SidecarRestart, Quiet, Reload, Reconcile, StartPush, EndPush, boundVars
  <2> QED
    BY <1>4, <1>5, <1>6, <1>13, <2>1 DEF Moved
<1> QED
  BY <1>2, <1>3, <1>7, <1>8, <1>9, <1>10, <1>11, <1>12, <1>13, Steps
  DEF PollReload, GrpcReload, Trigger, Moved

\* What replicas serve changes when one of them ends a reload or restarts.
LEMMA ServedMoves ==
    ASSUME Shape, OneReload, [Next]_vars
    PROVE  \/ UNCHANGED served
           \/ /\ crashes' = crashes + 1
              /\ \E r \in Replica :
                   /\ served' = [served EXCEPT ![r] = Nothing]
                   /\ \A by \in Trigger : Running(r, by)' => Began(r, by)
           \/ \E r \in Replica, by \in Trigger :
                /\ Loaded(r, by) /\ served' = [served EXCEPT ![r] = reload[r][by].got]
                /\ \A other \in Trigger : ~Running(r, other)'
<1>1. ASSUME NEW r \in Replica, ReplicaRestart(r)
      PROVE  /\ crashes' = crashes + 1 /\ served' = [served EXCEPT ![r] = Nothing]
             /\ \A by \in Trigger : Running(r, by)' => Began(r, by)
  <2>1. reload'[r] = [NoReload EXCEPT !["startup"] = Listing("startup")]
    BY <1>1 DEF ReplicaRestart, Shape
  <2>2. ASSUME NEW by \in Trigger, Running(r, by)'
        PROVE  reload'[r][by] = Listing("startup")
    BY <2>1, <2>2 DEF NoReload, Running
  <2> QED
    BY <1>1, <2>2 DEF ReplicaRestart, Began, Listing
<1>2. ASSUME NEW r \in Replica, NEW by \in Trigger, Swap(r, by)
      PROVE  /\ Loaded(r, by) /\ served' = [served EXCEPT ![r] = reload[r][by].got]
             /\ \A other \in Trigger : ~Running(r, other)'
  <2>1. reload' = [reload EXCEPT ![r][by] = Off]
    BY <1>2 DEF Swap, Ended
  <2>2. Only(r, by) /\ reload'[r][by] = Off
    BY <2>1, OnlyOne
  <2>3. Running(r, by)
    BY <1>2 DEF Swap, Loaded, InPhase
  <2> QED
    BY <1>2, <2>2, <2>3 DEF Swap, OneReload, Only, Running
<1>3. CASE Quiet \/ Reload \/ Reconcile \/ EndPush \/ SidecarRestart
  BY <1>3 DEF Quiet, Reload, Reconcile, StartPush, EndPush, SidecarRestart
<1>4. ASSUME NEW z \in Zone, WriteZone(z) \/ RemoveZone(z)
      PROVE  UNCHANGED served
  BY <1>4 DEF WriteZone, RemoveZone
<1>5. ASSUME NEW r \in Replica,
             \/ SendPush(r) \/ PushRefused(r) \/ PushSucceeds(r) \/ PushFails(r)
             \/ PollReload(r) \/ GrpcReload(r)
      PROVE  UNCHANGED served
  BY <1>5 DEF SendPush, PushRefused, PushSucceeds, PushFails, PollReload, GrpcReload,
              StartReload
<1>6. ASSUME NEW r \in Replica, NEW by \in Trigger, Step(r, by) \/ Failure(r, by)
      PROVE  UNCHANGED served
  BY <1>6, Requests DEF Failure
<1> QED
  BY <1>1, <1>2, <1>3, <1>4, <1>5, <1>6, Steps

-----------------------------------------------------------------------------
(* Types *)

\* The variables no reload writes.
RestOK ==
    /\ clock \in 1..MaxClock
    /\ held \in [Secondary -> Versions]
    /\ loop \in {"idle", "writing", "removing", "pushing"}
    /\ notifies \in [Replica -> SUBSET Zone]
    /\ toCheck \in [Secondary -> SUBSET Zone]
    /\ transfer \in [Secondary -> Sending \cup {Off}]
    /\ \A s \in Secondary : transfer[s] # Off => transfer[s].data \in Version
    /\ faults \in 0..MaxFaults /\ crashes \in 0..MaxCrashes

\* The files: one is written at a time, and every write adds at most one second to
\* what the clock may have shown.
FilesOK ==
    /\ file \in Versions /\ writes \in 0..MaxWrites
    /\ \A z \in Zone : file[z] # NoZone => file[z].serial <= MaxClock + writes
    /\ temp \in [Zone -> {"none", "filling", "left"}]
    /\ \A z \in Zone : temp[z] = "filling" => writes < MaxWrites
    /\ \A y, z \in Zone : (temp[y] = "filling" /\ temp[z] = "filling") => y = z

\* What replicas serve and what their reloads have read.
ServedOK ==
    /\ served \in [Replica -> Versions]
    /\ \A r \in Replica, by \in Trigger : Running(r, by)
                                           => reload[r][by].got \in Versions

TypeInv == Shape /\ OneReload /\ RestOK /\ FilesOK /\ ServedOK

\* A new serial is within the bound (NextSerial).
LEMMA NewVersion ==
    ASSUME RestOK, FilesOK, NEW z \in Zone, temp[z] = "filling"
    PROVE  /\ writes + 1 \in 0..MaxWrites
           /\ NextSerial(Serial(z)) <= MaxClock + (writes + 1)
           /\ [serial |-> NextSerial(Serial(z)), content |-> writes + 1, at |-> clock]
                \in Version
<1>1. /\ clock \in Nat /\ 1 <= clock /\ clock <= MaxClock /\ MaxClock \in Nat
      /\ writes \in Nat /\ writes < MaxWrites /\ MaxWrites \in Nat
      /\ MaxSerialDrift \in Nat
  BY PropagationAssumption DEF RestOK, FilesOK
<1>2. Serial(z) \in Nat /\ Serial(z) <= MaxClock + writes
  BY <1>1 DEF Serial, FilesOK, Versions, Version
<1>3. /\ NextSerial(Serial(z)) \in Nat /\ 1 <= NextSerial(Serial(z))
      /\ NextSerial(Serial(z)) <= MaxClock + (writes + 1)
  BY <1>1, <1>2 DEF NextSerial
<1> QED
  BY <1>1, <1>3 DEF Version

LEMMA RestStep ==
    ASSUME TypeInv, [Next]_vars
    PROVE  RestOK'
<1> USE DEF RestOK
<1>0. RestOK /\ Shape
  BY DEF TypeInv
<1>1. /\ clock \in Nat /\ MaxClock \in Nat /\ MaxClock >= 1 /\ clock <= MaxClock /\ 1 <= clock
      /\ faults \in Nat /\ crashes \in Nat /\ MaxFaults \in Nat /\ MaxCrashes \in Nat
  BY <1>0, PropagationAssumption
<1>2. /\ faults < MaxFaults => faults + 1 \in 0..MaxFaults
      /\ crashes < MaxCrashes => crashes + 1 \in 0..MaxCrashes
      /\ clock < MaxClock => clock + 1 \in 1..MaxClock
      /\ 1 \in 1..MaxClock
  BY <1>1
<1>3. CASE UNCHANGED vars
  BY <1>0, <1>3 DEF vars, secondaryVars, sidecarVars, boundVars
<1>4. CASE Tick \/ StepBack
  BY <1>0, <1>2, <1>4 DEF Tick, StepBack, sidecarVars, secondaryVars, boundVars
<1>5. ASSUME NEW z \in Zone,
             BeginWrite(z) \/ WriteZone(z) \/ WriteFails(z) \/ RemoveZone(z)
      PROVE  RestOK'
  BY <1>0, <1>2, <1>5 DEF BeginWrite, WriteZone, WriteFails, RemoveZone, secondaryVars,
                          boundVars
<1>6. CASE RemoveTemp \/ Reload \/ Reconcile \/ EndPush \/ SidecarRestart
  BY <1>0, <1>2, <1>6 DEF RemoveTemp, Reload, Reconcile, StartPush, EndPush,
                          SidecarRestart, secondaryVars, boundVars
<1>7. ASSUME NEW r \in Replica, Pushing(r) \/ PushFails(r) \/ PollReload(r) \/ GrpcReload(r)
      PROVE  RestOK'
  BY <1>0, <1>2, <1>7 DEF Pushing, SendPush, PushRefused, PushSucceeds, PushFails,
                          PollReload, GrpcReload, StartReload, sidecarVars,
                          secondaryVars, boundVars
<1>8. ASSUME NEW r \in Replica, ReplicaRestart(r)
      PROVE  RestOK'
  BY <1>0, <1>2, <1>8 DEF ReplicaRestart, sidecarVars
<1>9. ASSUME NEW r \in Replica, NEW by \in Trigger,
             \/ List(r, by) \/ Faulty(r, by)
             \/ \E z \in Zone : \/ Get(r, by, z) \/ GetMissing(r, by, z)
                                \/ GetTemp(r, by, z) \/ GetTempFails(r, by, z)
      PROVE  RestOK'
  BY <1>0, <1>2, <1>9 DEF List, Faulty, ListFails, GetFails, Get, GetMissing, GetTemp,
                          GetTempFails, sidecarVars, secondaryVars, boundVars
<1>10. ASSUME NEW r \in Replica, NEW by \in Trigger, Swap(r, by)
       PROVE  RestOK'
  <2>1. SerialChanged(served[r], reload[r][by].got) \in SUBSET Zone
    BY DEF SerialChanged
  <2>2. notifies' \in [Replica -> SUBSET Zone]
    BY <1>0, <1>10, <2>1 DEF Swap
  <2> QED
    BY <1>0, <1>10, <2>2 DEF Swap, sidecarVars, secondaryVars, boundVars
<1>11. ASSUME NEW r \in Replica, NEW z \in Zone, SendNotify(r, z)
       PROVE  RestOK'
  BY <1>0, <1>2, <1>11 DEF SendNotify, sidecarVars
<1>12. ASSUME NEW s \in Secondary, EndTransfer(s)
       PROVE  RestOK'
  <2>1. /\ transfer[s] \in Sending /\ transfer[s].data \in Version
        /\ transfer[s].zone \in Zone
    BY <1>0, <1>12 DEF EndTransfer, Sending
  <2>2. held' \in [Secondary -> Versions]
    <3>1. [held[s] EXCEPT ![transfer[s].zone] = transfer[s].data] \in Versions
      BY <1>0, <2>1 DEF Versions
    <3>2. held' = [held EXCEPT ![s] =
                     [held[s] EXCEPT ![transfer[s].zone] = transfer[s].data]]
      BY <1>12 DEF EndTransfer
    <3> QED
      BY <1>0, <3>1, <3>2
  <2>3. /\ transfer' \in [Secondary -> Sending \cup {Off}]
        /\ \A t \in Secondary : transfer'[t] # Off => transfer'[t].data \in Version
    BY <1>0, <1>12 DEF EndTransfer
  <2> QED
    BY <1>0, <1>12, <2>2, <2>3 DEF EndTransfer, sidecarVars, boundVars
<1>13. ASSUME NEW s \in Secondary, NEW r \in Replica, NEW z \in Zone, Check(s, r, z)
       PROVE  RestOK'
  <2> DEFINE sent == [from |-> r, zone |-> z, data |-> served[r][z], sending |-> FALSE]
  <2>1. served[r][z] # NoZone => served[r][z] \in File /\ served[r][z] \in Version
    <3>1. served[r] \in Files /\ served[r] \in Versions
      BY DEF TypeInv, Shape, ServedOK
    <3> QED
      BY <3>1 DEF Files, Versions
  <2>2. served[r][z] # NoZone => sent \in Sending /\ sent.data \in Version
    BY <2>1 DEF Sending
  <2>3. \/ UNCHANGED transfer
        \/ served[r][z] # NoZone /\ transfer' = [transfer EXCEPT ![s] = sent]
    BY <1>13 DEF Check
  <2> HIDE DEF sent
  <2>4. /\ transfer' \in [Secondary -> Sending \cup {Off}]
        /\ \A t \in Secondary : transfer'[t] # Off => transfer'[t].data \in Version
    BY <1>0, <2>2, <2>3
  <2> QED
    BY <1>0, <1>13, <2>4 DEF Check, sidecarVars, boundVars
<1>14. ASSUME NEW s \in Secondary, StartSending(s)
       PROVE  RestOK'
  <2> DEFINE sent == [transfer[s] EXCEPT !.sending = TRUE]
  <2>1. transfer[s] \in Sending /\ transfer[s].data \in Version
    BY <1>0, <1>14 DEF StartSending
  <2>2. sent \in Sending /\ sent.data \in Version
    BY <2>1 DEF Sending
  <2>3. transfer' = [transfer EXCEPT ![s] = sent]
    BY <1>14 DEF StartSending
  <2> HIDE DEF sent
  <2>4. /\ transfer' \in [Secondary -> Sending \cup {Off}]
        /\ \A t \in Secondary : transfer'[t] # Off => transfer'[t].data \in Version
    BY <1>0, <2>2, <2>3
  <2> QED
    BY <1>0, <1>14, <2>4 DEF StartSending, sidecarVars, boundVars
<1> QED
  BY <1>3, <1>4, <1>5, <1>6, <1>7, <1>8, <1>9, <1>10, <1>11, <1>12, <1>13, <1>14
  DEF Next, Reloading

LEMMA FilesStep ==
    ASSUME TypeInv, [Next]_vars
    PROVE  FilesOK'
<1> USE DEF FilesOK
<1>0. FilesOK /\ RestOK /\ Shape /\ writes \in Nat /\ MaxClock \in Nat
  BY PropagationAssumption DEF TypeInv, Shape
<1>1. ASSUME NEW z \in Zone, BeginWrite(z)
      PROVE  FilesOK'
  BY <1>0, <1>1 DEF BeginWrite, Filling, boundVars
<1>2. ASSUME NEW z \in Zone, WriteZone(z)
      PROVE  FilesOK'
  <2> DEFINE v == [serial |-> NextSerial(Serial(z)), content |-> writes + 1, at |-> clock]
  <2>1. /\ writes' = writes + 1 /\ file' = [file EXCEPT ![z] = v]
        /\ temp' = [temp EXCEPT ![z] = "none"] /\ temp[z] = "filling"
    BY <1>2 DEF WriteZone
  <2>2. /\ writes + 1 \in 0..MaxWrites /\ v \in Version
        /\ v.serial <= MaxClock + (writes + 1)
    BY <1>0, <2>1, NewVersion
  <2> HIDE DEF v
  <2>3. file' \in Versions
    BY <1>0, <2>1, <2>2 DEF Versions
  <2>4. ASSUME NEW y \in Zone, file'[y] # NoZone
        PROVE  file'[y].serial <= MaxClock + writes'
    <3>1. CASE y = z
      BY <1>0, <2>1, <2>2, <3>1 DEF Versions
    <3>2. CASE y # z
      <4>1. file'[y] = file[y] /\ file[y].serial \in Nat
        BY <1>0, <2>1, <2>4, <3>2 DEF Versions, Version
      <4> QED
        BY <1>0, <2>1, <2>4, <4>1
    <3> QED
      BY <3>1, <3>2
  <2>5. \A y \in Zone : temp'[y] # "filling"
    BY <1>0, <2>1
  <2> QED
    BY <1>0, <2>1, <2>2, <2>3, <2>4, <2>5
<1>3. ASSUME NEW z \in Zone, WriteFails(z) \/ RemoveZone(z)
      PROVE  FilesOK'
  BY <1>0, <1>3 DEF WriteFails, RemoveZone, boundVars, Versions
<1>4. CASE RemoveTemp \/ SidecarRestart
  BY <1>0, <1>4 DEF RemoveTemp, SidecarRestart, NoTemp, boundVars
<1>5. ASSUME UNCHANGED <<file, temp, writes>>
      PROVE  FilesOK'
  BY <1>0, <1>5
<1>6. CASE UNCHANGED vars
  BY <1>5, <1>6 DEF vars, sidecarVars, boundVars
<1>7. CASE Tick \/ StepBack \/ Reload \/ Reconcile \/ EndPush
  BY <1>5, <1>7 DEF Tick, StepBack, Reload, Reconcile, StartPush, EndPush, sidecarVars,
                    boundVars
<1>8. ASSUME NEW r \in Replica,
             \/ Pushing(r) \/ PushFails(r) \/ PollReload(r) \/ GrpcReload(r)
             \/ ReplicaRestart(r) \/ \E z \in Zone : SendNotify(r, z)
      PROVE  FilesOK'
  BY <1>5, <1>8 DEF Pushing, SendPush, PushRefused, PushSucceeds, PushFails, PollReload,
                    GrpcReload, StartReload, ReplicaRestart, SendNotify, sidecarVars,
                    boundVars
<1>9. ASSUME NEW r \in Replica, NEW by \in Trigger,
             \/ List(r, by) \/ Faulty(r, by) \/ Swap(r, by)
             \/ \E z \in Zone : \/ Get(r, by, z) \/ GetMissing(r, by, z)
                                \/ GetTemp(r, by, z) \/ GetTempFails(r, by, z)
      PROVE  FilesOK'
  BY <1>5, <1>9 DEF List, Faulty, ListFails, GetFails, Swap, Get, GetMissing, GetTemp,
                    GetTempFails, sidecarVars, boundVars
<1>10. ASSUME NEW s \in Secondary,
              \/ StartSending(s) \/ EndTransfer(s)
              \/ \E z \in Zone, r \in Replica : Check(s, r, z)
       PROVE  FilesOK'
  BY <1>5, <1>10 DEF StartSending, EndTransfer, Check, sidecarVars, boundVars
<1> QED
  BY <1>1, <1>2, <1>3, <1>4, <1>6, <1>7, <1>8, <1>9, <1>10 DEF Next, Reloading

LEMMA ServedStep ==
    ASSUME TypeInv, [Next]_vars
    PROVE  ServedOK'
<1>0. /\ Shape /\ OneReload /\ ServedOK /\ file \in Versions /\ Nothing \in Versions
  BY DEF TypeInv, FilesOK, Nothing, Versions
<1>1. served' \in [Replica -> Versions]
  <2>1. ASSUME NEW r \in Replica, NEW by \in Trigger, Loaded(r, by)
        PROVE  reload[r][by].got \in Versions
    BY <1>0, <2>1 DEF Loaded, InPhase, ServedOK
  <2> QED
    BY <1>0, <2>1, ServedMoves DEF ServedOK
<1>2. ASSUME NEW r \in Replica, NEW by \in Trigger, Running(r, by)'
      PROVE  reload'[r][by].got \in Versions
  <2>1. CASE UNCHANGED reload
    BY <1>0, <1>2, <2>1 DEF ServedOK, Running
  <2>2. CASE Began(r, by)
    BY <1>0, <2>2 DEF Began
  <2>3. CASE Same(r, by) \/ Listed(r, by)
    BY <1>0, <2>3 DEF Same, Listed, ServedOK
  <2>4. ASSUME NEW z \in Zone, Took(r, by, z)
        PROVE  reload'[r][by].got \in Versions
    <3>1. reload[r][by].got \in Versions /\ file[z] \in Version \cup {NoZone}
      BY <1>0, <2>4 DEF Took, ServedOK, Versions
    <3> QED
      BY <2>4, <3>1 DEF Took, Versions
  <2> QED
    BY <1>0, <1>2, <2>1, <2>2, <2>3, <2>4, Moves DEF Wrote, Removed
<1> QED
  BY <1>1, <1>2 DEF ServedOK

LEMMA TypeInvariant == Spec => []TypeInv
<1>1. Init => RestOK /\ FilesOK /\ ServedOK
  <2> SUFFICES ASSUME Init PROVE RestOK /\ FilesOK /\ ServedOK
    OBVIOUS
  <2>1. [serial |-> 1, content |-> 0, at |-> 1] \in Version
    BY PropagationAssumption DEF Version
  <2>2. file \in Versions
    BY <2>1 DEF Init, Versions
  <2>3. RestOK
    BY <2>2, PropagationAssumption DEF Init, RestOK
  <2>4. FilesOK
    BY <2>2, PropagationAssumption DEF Init, FilesOK, NoTemp
  <2>5. ServedOK
    BY <2>2 DEF Init, ServedOK, Running, NoReload
  <2> QED
    BY <2>3, <2>4, <2>5
<1>2. PushInv => Shape /\ OneReload
  BY DEF PushInv
<1>3. Shape /\ OneReload /\ RestOK /\ FilesOK /\ ServedOK /\ [Next]_vars
        => RestOK' /\ FilesOK' /\ ServedOK'
  BY RestStep, FilesStep, ServedStep DEF TypeInv
<1>4. Shape /\ OneReload /\ RestOK /\ FilesOK /\ ServedOK => TypeInv
  BY DEF TypeInv
<1> QED
  BY <1>1, <1>2, <1>3, <1>4, PushInit, PushStep, PTL DEF Spec

\* Files, served zones, reloads and transfers hold numbered versions, whatever the
\* clock does, and no serial is further ahead of what the clock has shown than
\* there were writes (NextSerial).
THEOREM TypeCorrect == Spec => []TypeOK
<1>1. TypeInv => TypeOK
  <2> SUFFICES ASSUME TypeInv PROVE TypeOK
    OBVIOUS
  <2>1. \A r \in Replica, by \in Trigger : Running(r, by) =>
          reload[r][by] \in UnderWay /\ reload[r][by].got \in Versions
    BY DEF TypeInv, Shape, Slots, Running, ServedOK
  <2> QED
    BY <2>1 DEF TypeInv, Shape, RestOK, FilesOK, ServedOK, TypeOK
<1> QED
  BY <1>1, TypeInvariant, PTL

-----------------------------------------------------------------------------
(* Versions *)

NotAhead(v, w) == (v # NoZone /\ w # NoZone) => v.content <= w.content

Within(v, k) == v # NoZone => v.content <= k

\* Contents are numbered by the writes so far: no replica is ahead of the sidecar,
\* a reload is between the two, and what a reload has not been given was not there
\* when it asked, or has been written since it began.
Behind(r, by) ==
    /\ reload[r][by].since <= writes
    /\ \A z \in Zone :
         LET got == reload[r][by].got[z] IN
         /\ Within(got, writes) /\ NotAhead(got, file[z])
         /\ NotAhead(served[r][z], got)
         /\ (reload[r][by].phase = "get" /\ z \notin reload[r][by].todo
               /\ got = NoZone /\ file[z] # NoZone)
              => file[z].content > reload[r][by].since

VersionInv ==
    /\ \A z \in Zone : Within(file[z], writes)
    /\ \A r \in Replica, z \in Zone :
         Within(served[r][z], writes) /\ NotAhead(served[r][z], file[z])
    /\ \A r \in Replica, by \in Trigger : Running(r, by) => Behind(r, by)

\* The contents are numbers.
LEMMA Numbers ==
    ASSUME Shape
    PROVE  /\ writes \in Nat
           /\ \A z \in Zone : file[z] # NoZone => file[z].content \in Nat
           /\ \A r \in Replica, z \in Zone :
                served[r][z] # NoZone => served[r][z].content \in Nat
           /\ \A r \in Replica, by \in Trigger : Running(r, by) =>
                /\ reload[r][by].since \in Nat
                /\ reload[r][by].got \in Files
                /\ \A z \in Zone : reload[r][by].got[z] # NoZone
                                     => reload[r][by].got[z].content \in Nat
<1>1. ASSUME NEW f \in Files, NEW z \in Zone, f[z] # NoZone
      PROVE  f[z].content \in Nat
  BY <1>1 DEF Files, File
<1>2. ASSUME NEW r \in Replica, NEW by \in Trigger, Running(r, by)
      PROVE  reload[r][by].since \in Nat /\ reload[r][by].got \in Files
  BY <1>2 DEF Shape, Running, Slots, UnderWay
<1> QED
  BY <1>1, <1>2 DEF Shape

\* A write is later than everything there is (Manager.Update, WriteFile).
LEMMA WriteIsLatest ==
    ASSUME Shape, VersionInv, NEW z \in Zone, Wrote(z) \/ Removed(z)
    PROVE  VersionInv'
<1>1. /\ UNCHANGED <<served, reload>> /\ writes <= writes' /\ writes' \in Nat
      /\ \A y \in Zone : y # z => file'[y] = file[y]
      /\ \/ file'[z] = NoZone
         \/ file'[z] # NoZone /\ writes < writes' /\ file'[z].content = writes'
  <2>0. writes \in Nat
    BY DEF Shape
  <2>1. writes + 1 \in Nat /\ writes < writes + 1 /\ writes <= writes + 1
    BY <2>0
  <2>2. NoZone \notin File
    BY OffAssumption
  <2>3. CASE Wrote(z)
    <3>1. /\ UNCHANGED <<served, reload>> /\ writes' = writes + 1
          /\ file'[z] # NoZone /\ file'[z].content = writes'
      BY <2>2, <2>3 DEF Wrote
    <3>2. \A y \in Zone : y # z => file'[y] = file[y]
      BY <2>3 DEF Wrote, Shape, Files
    <3> QED
      BY <2>1, <3>1, <3>2
  <2>4. CASE Removed(z)
    <3>1. /\ UNCHANGED <<served, reload, writes>> /\ file'[z] = NoZone
          /\ \A y \in Zone : y # z => file'[y] = file[y]
      BY <2>4 DEF Removed, Shape, Files
    <3> QED
      BY <2>0, <3>1
  <2> QED
    BY <2>3, <2>4
<1>2. \A y \in Zone : Within(file'[y], writes')
  BY <1>1, Numbers DEF VersionInv, Within
<1>3. ASSUME NEW r \in Replica, NEW y \in Zone
      PROVE  Within(served[r][y], writes') /\ NotAhead(served[r][y], file'[y])
  BY <1>1, Numbers DEF VersionInv, Within, NotAhead
<1>4. ASSUME NEW r \in Replica, NEW by \in Trigger, Running(r, by)
      PROVE  Behind(r, by)'
  <2> DEFINE x == reload[r][by]
  <2>1. /\ x.since \in Nat /\ x.since <= writes /\ writes \in Nat
    BY <1>4, Numbers DEF VersionInv, Behind
  <2>2. ASSUME NEW y \in Zone
        PROVE  /\ Within(x.got[y], writes') /\ NotAhead(x.got[y], file'[y])
               /\ NotAhead(served[r][y], x.got[y])
               /\ (x.phase = "get" /\ y \notin x.todo /\ x.got[y] = NoZone
                     /\ file'[y] # NoZone) => file'[y].content > x.since
    <3>1. /\ x.got[y] # NoZone => x.got[y].content \in Nat /\ x.got[y].content <= writes
          /\ NotAhead(x.got[y], file[y]) /\ NotAhead(served[r][y], x.got[y])
          /\ (x.phase = "get" /\ y \notin x.todo /\ x.got[y] = NoZone
               /\ file[y] # NoZone) => file[y].content > x.since
      BY <1>4, Numbers DEF VersionInv, Behind, Within
    <3>2. CASE y # z
      BY <1>1, <2>1, <3>1, <3>2 DEF Within, NotAhead
    <3>3. CASE y = z
      BY <1>1, <2>1, <3>1, <3>3 DEF Within, NotAhead
    <3> QED
      BY <3>2, <3>3
  <2> QED
    BY <1>1, <2>1, <2>2 DEF Behind
<1> QED
  BY <1>1, <1>2, <1>3, <1>4 DEF VersionInv, Running

\* A reload keeps between the files and what its replica serves.
LEMMA ReloadKeepsBetween ==
    ASSUME Shape, VersionInv, NEW r \in Replica, NEW by \in Trigger,
           UNCHANGED <<file, writes>>,
           \/ Began(r, by)
           \/ /\ Same(r, by) \/ Listed(r, by) \/ \E z \in Zone : Took(r, by, z)
              /\ served'[r] = served[r]
    PROVE  Behind(r, by)'
<1>1. writes \in Nat
  BY Numbers
<1>2. CASE Began(r, by)
  BY <1>1, <1>2 DEF Began, Behind, Nothing, Within, NotAhead
<1>3. CASE Same(r, by) /\ served'[r] = served[r]
  BY <1>3 DEF Same, VersionInv, Behind
<1>4. CASE Listed(r, by) /\ served'[r] = served[r]
  BY <1>4 DEF Listed, VersionInv, Behind
<1>5. ASSUME NEW z \in Zone, Took(r, by, z), served'[r] = served[r]
      PROVE  Behind(r, by)'
  <2>1. Running(r, by) /\ reload[r][by].got \in Files /\ Behind(r, by)
    BY <1>5, Numbers DEF Took, VersionInv
  <2>2. /\ reload'[r][by].got[z] = file[z] /\ file[z] # NoZone
        /\ \A y \in Zone : y # z => reload'[r][by].got[y] = reload[r][by].got[y]
    BY <1>5, <2>1 DEF Took, Files
  <2>3. NotAhead(file[z], file[z]) /\ Within(file[z], writes)
        /\ NotAhead(served[r][z], file[z])
    BY Numbers DEF NotAhead, VersionInv
  <2>4. /\ reload'[r][by].since = reload[r][by].since
        /\ \A y \in Zone \ {z} : y \notin reload'[r][by].todo => y \notin reload[r][by].todo
        /\ reload[r][by].phase = "get"
    BY <1>5 DEF Took
  <2> QED
    BY <1>5, <2>1, <2>2, <2>3, <2>4 DEF Behind
<1> QED
  BY <1>2, <1>3, <1>4, <1>5

LEMMA VersionStep ==
    ASSUME Shape, OneReload, VersionInv, [Next]_vars
    PROVE  VersionInv'
<1>1. CASE \E z \in Zone : Wrote(z) \/ Removed(z)
  BY <1>1, WriteIsLatest
<1>2. CASE /\ UNCHANGED <<file, writes>>
           /\ \A r \in Replica, by \in Trigger : Running(r, by)' =>
                 \/ Began(r, by) \/ Same(r, by) \/ Listed(r, by)
                 \/ \E z \in Zone : Took(r, by, z)
  <2>1. CASE UNCHANGED served
    BY <1>2, <2>1, ReloadKeepsBetween DEF VersionInv
  <2>2. ASSUME NEW r \in Replica, served' = [served EXCEPT ![r] = Nothing],
               \A by \in Trigger : Running(r, by)' => Began(r, by)
        PROVE  VersionInv'
    <3>1. /\ \A z \in Zone : served'[r][z] = NoZone
          /\ \A q \in Replica : q # r => served'[q] = served[q]
      BY <2>2 DEF Shape, Nothing
    <3>2. \A q \in Replica, by \in Trigger : Running(q, by)' => Behind(q, by)'
      BY <1>2, <2>2, <3>1, ReloadKeepsBetween
    <3> QED
      BY <1>2, <3>1, <3>2 DEF VersionInv, Within, NotAhead
  <2>3. ASSUME NEW r \in Replica, NEW by \in Trigger, Loaded(r, by),
               served' = [served EXCEPT ![r] = reload[r][by].got],
               \A other \in Trigger : ~Running(r, other)'
        PROVE  VersionInv'
    <3>1. /\ served'[r] = reload[r][by].got
          /\ \A q \in Replica : q # r => served'[q] = served[q]
      BY <2>3 DEF Shape
    <3>2. Behind(r, by)
      BY <2>3 DEF Loaded, InPhase, VersionInv
    <3>3. \A q \in Replica, other \in Trigger : Running(q, other)' => Behind(q, other)'
      BY <1>2, <2>3, <3>1, ReloadKeepsBetween
    <3> QED
      BY <1>2, <3>1, <3>2, <3>3 DEF VersionInv, Behind
  <2> QED
    BY <2>1, <2>2, <2>3, ServedMoves
<1> QED
  BY <1>1, <1>2, Moves

\* What the pushes' invariant gives, and the versions on top of it.
LEMMA VersionInvariant == Spec => [](Shape /\ OneReload /\ VersionInv)
<1>1. Init => VersionInv
  <2> SUFFICES ASSUME Init PROVE VersionInv
    OBVIOUS
  <2>1. \A r \in Replica, by \in Trigger : ~Running(r, by)
    BY DEF Init, NoReload, Running
  <2> QED
    BY <2>1 DEF Init, VersionInv, Within, NotAhead
<1>2. PushInv => Shape /\ OneReload
  BY DEF PushInv
<1>3. Shape /\ OneReload /\ VersionInv /\ [Next]_vars => VersionInv'
  BY VersionStep
<1> QED
  BY <1>1, <1>2, <1>3, PushInit, PushStep, PTL DEF Spec

\* A replica never goes from a version of a zone to an older one, however its
\* reloads overlap with writes, failures and each other (reloadMu: a reload that
\* read earlier cannot swap later).
THEOREM VersionsAdvance == Spec => NoStepBack
<1>1. Shape /\ OneReload /\ VersionInv /\ [Next]_vars
        => [\A r \in Replica, z \in Zone :
              (served[r][z] # NoZone /\ served'[r][z] # NoZone)
                => served'[r][z].content >= served[r][z].content]_served
  <2> SUFFICES ASSUME Shape, OneReload, VersionInv, [Next]_vars, served' # served,
                      NEW r \in Replica, NEW z \in Zone,
                      served[r][z] # NoZone, served'[r][z] # NoZone
               PROVE  served'[r][z].content >= served[r][z].content
    OBVIOUS
  <2>1. served[r][z].content \in Nat
    BY Numbers
  <2>2. ASSUME NEW q \in Replica, served' = [served EXCEPT ![q] = Nothing]
        PROVE  served'[r][z] = served[r][z]
    BY <2>2 DEF Shape, Nothing
  <2>3. ASSUME NEW q \in Replica, NEW by \in Trigger, Loaded(q, by),
               served' = [served EXCEPT ![q] = reload[q][by].got]
        PROVE  served'[r][z].content >= served[r][z].content
    <3>1. CASE q = r
      <4>1. served'[r][z] = reload[r][by].got[z] /\ Running(r, by)
        BY <2>3, <3>1 DEF Shape, Loaded, InPhase
      <4>2. NotAhead(served[r][z], reload[r][by].got[z])
        BY <4>1 DEF VersionInv, Behind
      <4>3. reload[r][by].got[z].content \in Nat
        BY <4>1, Numbers
      <4> QED
        BY <2>1, <4>1, <4>2, <4>3 DEF NotAhead
    <3>2. CASE q # r
      <4>1. served'[r] = served[r]
        BY <2>3, <3>2 DEF Shape
      <4> QED
        BY <2>1, <4>1
    <3> QED
      BY <3>1, <3>2
  <2> QED
    BY <2>1, <2>2, <2>3, ServedMoves
<1> QED
  BY <1>1, VersionInvariant, PTL DEF Spec, NoStepBack

\* The step formula of DroppedOnlyIfGone, under a name.
LeavesOnlyIfGone ==
    \A r \in Replica, z \in Zone :
        (served[r][z] # NoZone /\ served'[r][z] = NoZone /\ crashes' = crashes)
            => \/ file[z] = NoZone
               \/ \E by \in Trigger : /\ Running(r, by)
                                      /\ file[z].content > reload[r][by].since

LEMMA Named == [][LeavesOnlyIfGone]_served => DroppedOnlyIfGone
BY PTL DEF LeavesOnlyIfGone, DroppedOnlyIfGone

\* A zone leaves a replica only with a reload that finds its file missing at the
\* end or began before its last write: never because a request failed or broke off
\* (reloadZones is fail-fast).
THEOREM ZonesAreNotDropped == Spec => DroppedOnlyIfGone
<1>1. TypeInv => crashes \in Nat
  BY DEF TypeInv, RestOK
<1>2. TypeInv /\ VersionInv /\ [Next]_vars => [LeavesOnlyIfGone]_served
  <2> SUFFICES ASSUME TypeInv, VersionInv, [Next]_vars,
                      NEW r \in Replica, NEW z \in Zone, served[r][z] # NoZone,
                      served'[r][z] = NoZone, crashes' = crashes, file[z] # NoZone
               PROVE  \E by \in Trigger : /\ Running(r, by)
                                         /\ file[z].content > reload[r][by].since
    BY DEF LeavesOnlyIfGone
  <2>1. Shape /\ OneReload /\ crashes' # crashes + 1
    BY <1>1 DEF TypeInv
  <2>2. PICK q \in Replica, by \in Trigger :
            Loaded(q, by) /\ served' = [served EXCEPT ![q] = reload[q][by].got]
    BY <2>1, ServedMoves
  <2>3. q = r /\ Running(r, by) /\ reload[r][by].got[z] = NoZone
    BY <2>1, <2>2 DEF Shape, Loaded, InPhase
  <2>4. reload[r][by].phase = "get" /\ z \notin reload[r][by].todo
    BY <2>2, <2>3 DEF Loaded, InPhase
  <2> QED
    BY <2>3, <2>4 DEF VersionInv, Behind
<1> QED
  BY <1>2, TypeInvariant, VersionInvariant, Named, PTL DEF Spec

-----------------------------------------------------------------------------
(* Announcements *)

\* What a secondary has been told, or will be, or missed, of a zone.
Told(r, s, z) == z \in notifies[r] \cup toCheck[s] \/ <<s, z>> \in lost

\* A transfer sends the serial its replica serves, unless the zone was replaced or
\* dropped before the transfer took the lock (Plugin.mu, released by Transfer
\* between the lookup and the goroutine) and the secondary hears of that.
SentOrTold ==
    \A s \in Secondary : transfer[s] # Off =>
        LET t   == transfer[s]
            now == served[t.from][t.zone]
        IN  now = NoZone \/ now.serial = t.data.serial \/ Told(t.from, s, t.zone)

\* Only these steps touch what replicas announce and secondaries know.
LEMMA AnnouncingSteps ==
    ASSUME Shape, [Next]_vars
    PROVE  \/ UNCHANGED <<served, notifies, held, toCheck, transfer, lost>>
           \/ \E r \in Replica :
                \/ ReplicaRestart(r) \/ \E by \in Trigger : Swap(r, by)
                \/ \E z \in Zone : SendNotify(r, z)
           \/ \E s \in Secondary :
                \/ StartSending(s) \/ EndTransfer(s)
                \/ \E z \in Zone, r \in Replica : Check(s, r, z)
<1>1. CASE UNCHANGED vars \/ Tick \/ StepBack
  BY <1>1 DEF vars, Tick, StepBack, secondaryVars
<1>2. ASSUME NEW z \in Zone,
             BeginWrite(z) \/ WriteZone(z) \/ WriteFails(z) \/ RemoveZone(z)
      PROVE  UNCHANGED <<served, notifies, held, toCheck, transfer, lost>>
  BY <1>2 DEF BeginWrite, WriteZone, WriteFails, RemoveZone, secondaryVars
<1>3. CASE RemoveTemp \/ Reload \/ Reconcile \/ EndPush \/ SidecarRestart
  BY <1>3 DEF RemoveTemp, Reload, Reconcile, StartPush, EndPush, SidecarRestart,
              secondaryVars
<1>4. ASSUME NEW r \in Replica,
             Pushing(r) \/ PushFails(r) \/ PollReload(r) \/ GrpcReload(r)
      PROVE  UNCHANGED <<served, notifies, held, toCheck, transfer, lost>>
  BY <1>4 DEF Pushing, SendPush, PushRefused, PushSucceeds, PushFails, PollReload,
              GrpcReload, StartReload, secondaryVars
<1>5. ASSUME NEW r \in Replica, NEW by \in Trigger,
             \/ List(r, by) \/ Faulty(r, by)
             \/ \E z \in Zone : \/ Get(r, by, z) \/ GetMissing(r, by, z)
                                \/ GetTemp(r, by, z) \/ GetTempFails(r, by, z)
      PROVE  UNCHANGED <<served, notifies, held, toCheck, transfer, lost>>
  BY <1>5 DEF List, Faulty, ListFails, GetFails, Get, GetMissing, GetTemp,
              GetTempFails, secondaryVars
<1> QED
  BY <1>1, <1>2, <1>3, <1>4, <1>5 DEF Next, Reloading

LEMMA SentOrToldStep ==
    ASSUME \A r, q \in Replica : r = q,
           TypeInv, SentOrTold, [Next]_vars
    PROVE  SentOrTold'
<1>0. /\ served \in [Replica -> Files] /\ Shape
      /\ transfer \in [Secondary -> Sending \cup {Off}]
      /\ notifies \in [Replica -> SUBSET Zone] /\ toCheck \in [Secondary -> SUBSET Zone]
  BY DEF TypeInv, Shape, RestOK
<1> DEFINE Fine(t, s) == \/ served[t.from][t.zone] = NoZone
                         \/ served[t.from][t.zone].serial = t.data.serial
                         \/ Told(t.from, s, t.zone)
<1> SUFFICES ASSUME NEW s \in Secondary, transfer'[s] # Off
             PROVE  Fine(transfer[s], s)'
  BY DEF SentOrTold
<1>1. transfer[s] # Off => /\ Fine(transfer[s], s)
                           /\ transfer[s] \in Sending
                           /\ transfer[s].from \in Replica
                           /\ transfer[s].zone \in Zone
  BY <1>0 DEF SentOrTold, Sending
<1>2. CASE UNCHANGED <<served, notifies, held, toCheck, transfer, lost>>
  BY <1>1, <1>2 DEF Told
<1>3. ASSUME NEW q \in Replica, ReplicaRestart(q)
      PROVE  FALSE
  <2>1. transfer[s] # Off /\ transfer[s].from # q
    BY <1>3 DEF ReplicaRestart
  <2> QED
    BY <1>1, <2>1
<1>4. ASSUME NEW q \in Replica, NEW by \in Trigger, Swap(q, by)
      PROVE  Fine(transfer[s], s)'
  <2> DEFINE z == transfer[s].zone
  <2>1. /\ served'[q] = reload[q][by].got
        /\ notifies'[q] = notifies[q] \cup SerialChanged(served[q], served'[q])
        /\ UNCHANGED <<toCheck, transfer, lost>>
    BY <1>0, <1>4 DEF Swap, secondaryVars
  <2>2. transfer[s] # Off /\ transfer[s].from = q /\ z \in Zone
    BY <1>1, <2>1
  <2>3. CASE z \in SerialChanged(served[q], served'[q])
    BY <2>1, <2>2, <2>3 DEF Told
  <2>4. CASE served'[q][z] = NoZone
    BY <2>1, <2>2, <2>4
  <2>5. CASE served'[q][z] # NoZone /\ z \notin SerialChanged(served[q], served'[q])
    <3>1. served[q][z] # NoZone /\ served[q][z].serial = served'[q][z].serial
      BY <2>2, <2>5 DEF SerialChanged
    <3>2. served[q][z].serial = transfer[s].data.serial \/ Told(q, s, z)
      BY <1>1, <2>2, <3>1
    <3> QED
      BY <2>1, <2>2, <3>1, <3>2 DEF Told
  <2> QED
    BY <2>3, <2>4, <2>5
<1>5. ASSUME NEW q \in Replica, NEW y \in Zone, SendNotify(q, y)
      PROVE  Fine(transfer[s], s)'
  <2> DEFINE z == transfer[s].zone
  <2>1. PICK to \in SUBSET Secondary :
          /\ toCheck' = [t \in Secondary |-> toCheck[t] \cup (IF t \in to THEN {y} ELSE {})]
          /\ lost' = (lost \ (to \X {y})) \cup ((Secondary \ to) \X {y})
    BY <1>5 DEF SendNotify
  <2>2. UNCHANGED <<served, transfer>>
    BY <1>5 DEF SendNotify
  <2>3. transfer[s] # Off /\ transfer[s].from = q /\ z \in Zone
    BY <1>1, <2>2
  <2>4. notifies'[q] = notifies[q] \ {y}
    BY <1>0, <1>5 DEF SendNotify
  <2>5. CASE z = y
    <3>1. s \in to => z \in toCheck'[s]
      BY <2>1, <2>5
    <3>2. s \notin to => <<s, z>> \in lost'
      BY <2>1, <2>5
    <3> QED
      BY <2>2, <2>3, <3>1, <3>2 DEF Told
  <2>6. CASE z # y
    <3>1. /\ z \in notifies[q] => z \in notifies'[q]
          /\ z \in toCheck[s] => z \in toCheck'[s]
          /\ <<s, z>> \in lost => <<s, z>> \in lost'
      BY <2>1, <2>4, <2>6
    <3>2. transfer'[s] = transfer[s] /\ served' = served
      BY <2>2
    <3> QED
      BY <1>1, <2>3, <3>1, <3>2 DEF Told
  <2> QED
    BY <2>5, <2>6
<1>6. ASSUME NEW t \in Secondary, EndTransfer(t)
      PROVE  Fine(transfer[s], s)'
  <2>1. transfer'[s] = transfer[s] /\ UNCHANGED <<served, notifies, toCheck, lost>>
    BY <1>0, <1>6 DEF EndTransfer
  <2> QED
    BY <1>1, <2>1 DEF Told
<1>7. ASSUME NEW t \in Secondary, StartSending(t)
      PROVE  Fine(transfer[s], s)'
  <2>1. UNCHANGED <<served, notifies, toCheck, lost>> /\ transfer[s] # Off
    BY <1>0, <1>7 DEF StartSending
  <2>2. transfer[s] \in Sending
    BY <1>1, <2>1
  <2>3. /\ transfer'[s].from = transfer[s].from /\ transfer'[s].zone = transfer[s].zone
        /\ transfer'[s].data = transfer[s].data
    BY <1>0, <1>7, <2>2 DEF StartSending, Sending
  <2> QED
    BY <1>1, <2>1, <2>3 DEF Told
<1>8. ASSUME NEW t \in Secondary, NEW y \in Zone, NEW q \in Replica, Check(t, q, y)
      PROVE  Fine(transfer[s], s)'
  <2>1. /\ UNCHANGED <<served, notifies, lost>> /\ transfer[t] = Off
        /\ toCheck' = [toCheck EXCEPT ![t] = @ \ {y}]
    BY <1>8 DEF Check
  <2>2. CASE t = s
    <3> DEFINE sent == [from |-> q, zone |-> y, data |-> served[q][y], sending |-> FALSE]
    <3>1. transfer'[s] = sent
      BY <1>0, <1>8, <2>1, <2>2 DEF Check
    <3> QED
      BY <2>1, <3>1
  <2>3. CASE t # s
    <3>1. transfer'[s] = transfer[s] /\ toCheck'[s] = toCheck[s]
      BY <1>0, <1>8, <2>1, <2>3 DEF Check
    <3> QED
      BY <1>1, <2>1, <3>1 DEF Told
  <2> QED
    BY <2>2, <2>3
<1> QED
  BY <1>0, <1>2, <1>3, <1>4, <1>5, <1>6, <1>7, <1>8, AnnouncingSteps

\* With one replica a secondary that is behind is always about to hear of it. With
\* several the last one asked may itself be behind, and the timer is all that is left.
LEMMA NotifyOwedStep ==
    ASSUME \A r, q \in Replica : r = q,
           TypeInv, SentOrTold, NotifyOwed, [Next]_vars
    PROVE  NotifyOwed'
<1> DEFINE Owed(r, s, z) == \/ z \in notifies[r] \cup toCheck[s] \/ <<s, z>> \in lost
                            \/ transfer[s] # Off /\ transfer[s].zone = z
           IsBehind(r, s, z) == served[r][z] # NoZone /\ Newer(served[r][z], held[s][z])
<1>0. /\ served \in [Replica -> Files] /\ Shape /\ held \in [Secondary -> Versions]
      /\ transfer \in [Secondary -> Sending \cup {Off}]
      /\ notifies \in [Replica -> SUBSET Zone] /\ toCheck \in [Secondary -> SUBSET Zone]
  BY DEF TypeInv, Shape, RestOK
<1> SUFFICES ASSUME NEW r \in Replica, NEW s \in Secondary, NEW z \in Zone,
                    IsBehind(r, s, z)'
             PROVE  Owed(r, s, z)'
  BY DEF NotifyOwed
<1>1. IsBehind(r, s, z) => Owed(r, s, z)
  BY DEF NotifyOwed
<1>2. CASE UNCHANGED <<served, notifies, held, toCheck, transfer, lost>>
  BY <1>1, <1>2 DEF Newer
<1>3. ASSUME NEW q \in Replica, ReplicaRestart(q)
      PROVE  FALSE
  <2>1. served'[r] = Nothing
    BY <1>0, <1>3 DEF ReplicaRestart
  <2> QED
    BY <2>1 DEF Nothing
<1>4. ASSUME NEW q \in Replica, NEW by \in Trigger, Swap(q, by)
      PROVE  Owed(r, s, z)'
  <2>1. q = r
    OBVIOUS
  <2>2. /\ served'[r] = reload[r][by].got
        /\ notifies'[r] = notifies[r] \cup SerialChanged(served[r], served'[r])
        /\ UNCHANGED <<held, toCheck, transfer, lost>>
    BY <1>0, <1>4, <2>1 DEF Swap, secondaryVars
  <2>3. CASE z \in SerialChanged(served[r], served'[r])
    BY <2>2, <2>3
  <2>4. CASE z \notin SerialChanged(served[r], served'[r])
    <3>1. served[r][z] # NoZone /\ served[r][z].serial = served'[r][z].serial
      BY <2>4 DEF SerialChanged
    <3>2. IsBehind(r, s, z)
      BY <2>2, <3>1 DEF Newer
    <3> QED
      BY <1>1, <2>2, <3>2
  <2> QED
    BY <2>3, <2>4
<1>5. ASSUME NEW q \in Replica, NEW y \in Zone, SendNotify(q, y)
      PROVE  Owed(r, s, z)'
  <2>1. PICK to \in SUBSET Secondary :
          /\ toCheck' = [t \in Secondary |-> toCheck[t] \cup (IF t \in to THEN {y} ELSE {})]
          /\ lost' = (lost \ (to \X {y})) \cup ((Secondary \ to) \X {y})
    BY <1>5 DEF SendNotify
  <2>2. UNCHANGED <<served, held, transfer>>
    BY <1>5 DEF SendNotify
  <2>3. notifies'[r] = IF q = r THEN notifies[r] \ {y} ELSE notifies[r]
    BY <1>0, <1>5 DEF SendNotify
  <2>4. toCheck[s] \subseteq toCheck'[s]
    BY <2>1
  <2>5. IsBehind(r, s, z)
    BY <2>2 DEF Newer
  <2>6. CASE z = y
    <3>1. CASE s \in to
      BY <2>1, <2>6, <3>1
    <3>2. CASE s \notin to
      BY <2>1, <2>6, <3>2
    <3> QED
      BY <3>1, <3>2
  <2>7. CASE z # y
    BY <1>1, <2>1, <2>2, <2>3, <2>4, <2>5, <2>7
  <2> QED
    BY <2>6, <2>7
<1>6. ASSUME NEW t \in Secondary, EndTransfer(t)
      PROVE  Owed(r, s, z)'
  <2>1. /\ UNCHANGED <<served, notifies, toCheck, lost>>
        /\ held' = [held EXCEPT ![t][transfer[t].zone] = transfer[t].data]
        /\ transfer' = [transfer EXCEPT ![t] = Off]
        /\ transfer[t] \in Sending
    BY <1>0, <1>6 DEF EndTransfer
  <2>2. CASE t = s /\ transfer[s].zone = z
    <3>1. transfer[s].from = r
      BY <2>1, <2>2 DEF Sending
    <3>2. held'[s][z] = transfer[s].data
      <4>1. held[s] \in [Zone -> Version \cup {NoZone}]
        BY <1>0 DEF Versions
      <4>2. held'[s] = [held[s] EXCEPT ![z] = transfer[s].data]
        BY <1>0, <2>1, <2>2
      <4> QED
        BY <4>1, <4>2
    <3>3. served[r][z] # NoZone /\ served[r][z].serial \in Nat
      <4>1. served[r][z] # NoZone /\ served[r] \in Files
        BY <1>0, <2>1
      <4> QED
        BY <4>1 DEF Files, File
    <3>4. transfer[s] # Off /\ transfer[s].data \in File
      BY <1>6, <2>1, <2>2 DEF EndTransfer, Sending
    <3>5. served[r][z].serial > transfer[s].data.serial
      BY <2>1, <3>2, <3>4, OffAssumption DEF Newer
    <3>6. served[r][z].serial # transfer[s].data.serial
      <4>1. transfer[s].data.serial \in Nat
        BY <3>4 DEF File
      <4> QED
        BY <3>3, <3>5, <4>1
    <3>7. Told(r, s, z)
      BY <2>2, <3>1, <3>3, <3>4, <3>6 DEF SentOrTold
    <3> QED
      BY <2>1, <3>7 DEF Told
  <2>3. CASE ~(t = s /\ transfer[s].zone = z)
    <3>1. held'[s][z] = held[s][z]
      BY <1>0, <2>1, <2>3 DEF Versions
    <3>2. IsBehind(r, s, z)
      BY <2>1, <3>1 DEF Newer
    <3>3. t # s => transfer'[s] = transfer[s]
      BY <1>0, <2>1
    <3> QED
      BY <1>1, <2>1, <2>3, <3>2, <3>3
  <2> QED
    BY <2>2, <2>3
<1>7. ASSUME NEW t \in Secondary, NEW y \in Zone, NEW q \in Replica, Check(t, q, y)
      PROVE  Owed(r, s, z)'
  <2>1. /\ UNCHANGED <<served, held, notifies, lost>> /\ q = r /\ transfer[t] = Off
        /\ toCheck' = [toCheck EXCEPT ![t] = @ \ {y}]
    BY <1>7 DEF Check
  <2>2. IsBehind(r, s, z)
    BY <2>1 DEF Newer
  <2>3. CASE t = s /\ y = z
    <3> DEFINE sent == [from |-> r, zone |-> z, data |-> served[r][z], sending |-> FALSE]
    <3>1. transfer' = [transfer EXCEPT ![s] = sent]
      BY <1>7, <2>1, <2>2, <2>3 DEF Check
    <3>2. sent.zone = z /\ sent \in Sending
      <4>1. served[r][z] \in File
        BY <1>0, <2>2 DEF Files
      <4> QED
        BY <4>1 DEF Sending
    <3> HIDE DEF sent
    <3>3. sent # Off
      BY <3>2, OffAssumption
    <3> QED
      BY <1>0, <3>1, <3>2, <3>3
  <2>4. CASE ~(t = s /\ y = z)
    <3>1. z \in toCheck[s] => z \in toCheck'[s]
      BY <1>0, <2>1, <2>4
    <3>2. transfer[s] # Off => transfer'[s] = transfer[s]
      BY <1>0, <1>7, <2>1 DEF Check
    <3> QED
      BY <1>1, <2>1, <2>2, <3>1, <3>2
  <2> QED
    BY <2>3, <2>4
<1>8. ASSUME NEW t \in Secondary, StartSending(t)
      PROVE  Owed(r, s, z)'
  <2>1. /\ UNCHANGED <<served, notifies, held, toCheck, lost>>
        /\ transfer[t] \in Sending
        /\ transfer' = [transfer EXCEPT ![t] = [transfer[t] EXCEPT !.sending = TRUE]]
    BY <1>0, <1>8 DEF StartSending
  <2>2. IsBehind(r, s, z)
    BY <2>1 DEF Newer
  <2>3. transfer[s] # Off => transfer'[s] # Off /\ transfer'[s].zone = transfer[s].zone
    <3> DEFINE sent == [transfer[t] EXCEPT !.sending = TRUE]
    <3>1. sent \in Sending /\ sent.zone = transfer[t].zone
      BY <2>1 DEF Sending
    <3>2. sent # Off
      BY <3>1, OffAssumption
    <3>3. transfer' = [transfer EXCEPT ![t] = sent]
      BY <2>1
    <3> HIDE DEF sent
    <3> QED
      BY <1>0, <3>1, <3>2, <3>3
  <2> QED
    BY <1>1, <2>1, <2>2, <2>3
<1> QED
  BY <1>0, <1>2, <1>3, <1>4, <1>5, <1>6, <1>7, <1>8, AnnouncingSteps

\* With one replica, every secondary that is behind has been told, is about to be,
\* has a transfer of that zone under way, or its last NOTIFY was lost
\* (serialChangedZones, also of zones that appear; the startup reload).
THEOREM ChangesAreAnnounced ==
    ASSUME \A r, q \in Replica : r = q
    PROVE  Spec => []NotifyOwed
<1>1. Init => SentOrTold /\ NotifyOwed
  <2> SUFFICES ASSUME Init PROVE SentOrTold /\ NotifyOwed
    OBVIOUS
  <2>1. \A r \in Replica, s \in Secondary, z \in Zone :
           served[r][z] = [serial |-> 1, content |-> 0, at |-> 1]
             /\ held[s][z] = [serial |-> 1, content |-> 0, at |-> 1]
    BY DEF Init
  <2>2. [serial |-> 1, content |-> 0, at |-> 1] \in File
    BY DEF File
  <2>3. NotifyOwed
    BY <2>1, <2>2, OffAssumption DEF NotifyOwed, Newer, File
  <2> QED
    BY <2>3 DEF Init, SentOrTold
<1>2. TypeInv /\ SentOrTold /\ NotifyOwed /\ [Next]_vars
        => SentOrTold' /\ NotifyOwed'
  BY SentOrToldStep, NotifyOwedStep
<1> QED
  BY <1>1, <1>2, TypeInvariant, PTL DEF Spec
=============================================================================
