---------------------------- MODULE Propagation ----------------------------
(***************************************************************************)
(* From the sidecar's zone files to the secondaries: the sidecar writes    *)
(* files and pushes Reload to the CoreDNS replicas (internal/zonemanager,  *)
(* zonegen, reloader), each replica fetches the files over HTTP and swaps  *)
(* its zones in memory (internal/zoneserver, the netboxreload plugin), and *)
(* secondaries transfer them when told to or when their refresh timer      *)
(* fires.  Why the sidecar writes is in Sidecar.tla: here a write gives a  *)
(* zone a new content, numbered by the writes so far.                      *)
(*                                                                         *)
(* A reload reads the listing and then one file at a time while the        *)
(* sidecar goes on writing; HTTP requests fail, a push times out although  *)
(* its reload goes on, NOTIFYs get lost, both sides restart.               *)
(***************************************************************************)
EXTENDS Integers, FiniteSets

CONSTANTS
    Zone, Replica, Secondary,
    NoZone, Off,    \* no such zone; no reload or transfer under way
    ZonesMayGo,     \* zones may lose their last record
    MaxSerialDrift, \* maxSerialDrift, in seconds
    MaxClock,       \* bound: seconds
    MaxWrites,      \* bound: zone file writes
    MaxFaults,      \* bound: failed requests and time-outs
    MaxCrashes      \* bound: restarts of the sidecar and of replicas

ASSUME PropagationAssumption ==
    /\ {MaxSerialDrift, MaxClock, MaxWrites, MaxFaults, MaxCrashes} \subseteq Nat
    /\ MaxClock >= 1
    /\ ZonesMayGo \in BOOLEAN

VARIABLES
    clock,
    file,      \* per zone, the sidecar's file: serial, content, time of writing
    temp,      \* per zone, its temporary file db.z.tmp: none, being filled, left
    loop,      \* the sidecar: idle, writing, removing or pushing
    dirty,     \* Reloader.dirty
    push,      \* per replica, the Reload call under way
    served,    \* per replica, Plugin.zones (and fileCache, which agrees with it)
    reload,    \* per replica and trigger, how far reloadZones is
    notifies,  \* per replica, zones sendNotifies has still to announce
    held,      \* per secondary, the zones it serves
    toCheck,   \* per secondary, the zones it has been told to ask about
    transfer,  \* per secondary, the transfer under way
    writes, faults, crashes,
    lost       \* history: the secondaries and zones whose last NOTIFY was lost

sidecarVars   == <<file, temp, loop, dirty>>
secondaryVars == <<held, toCheck, transfer, lost>>
boundVars     == <<writes, faults, crashes>>

vars == <<clock, sidecarVars, push, served, reload, notifies, secondaryVars,
          boundVars>>

-----------------------------------------------------------------------------
(* The sidecar *)

\* Faulty variants: the clock alone; a guard that overshoots.
NextSerialClock(current) == clock
NextSerialSkips(current) == current + clock + 1

\* Seconds since the epoch, kept strictly increasing unless the current serial
\* is not from this clock at all.
NextSerial(current) ==
    IF current > clock /\ current - clock > MaxSerialDrift THEN clock
    ELSE IF clock <= current THEN current + 1
    ELSE clock

\* The serial a generator goes on from: that of the file, also after a restart.
Serial(z) == IF file[z] = NoZone THEN 0 ELSE file[z].serial

Tick == /\ clock < MaxClock /\ clock' = clock + 1
        /\ UNCHANGED <<sidecarVars, push, served, reload, notifies, secondaryVars,
                       boundVars>>

\* The system clock is set back.
StepBack == /\ clock = MaxClock /\ faults < MaxFaults
            /\ clock' = 1 /\ faults' = faults + 1
            /\ UNCHANGED <<sidecarVars, push, served, reload, notifies,
                           secondaryVars, writes, crashes>>

NoTemp == [z \in Zone |-> "none"]

\* A temporary file is being filled; one can be left by a restart or a failed write.
Filling == \E z \in Zone : temp[z] = "filling"

\* Manager.Update writes the zones whose records changed (sorted there, in any
\* order here): WriteFile fills a temporary file in the zone directory ...
BeginWrite(z) ==
    /\ loop \in {"idle", "writing"} /\ ~Filling /\ writes < MaxWrites
    /\ loop' = "writing" /\ temp' = [temp EXCEPT ![z] = "filling"]
    /\ UNCHANGED <<clock, file, dirty, push, served, reload, notifies,
                   secondaryVars, boundVars>>

\* ... and renames it.
WriteZone(z) ==
    /\ loop = "writing" /\ temp[z] = "filling"
    /\ writes' = writes + 1 /\ temp' = [temp EXCEPT ![z] = "none"]
    /\ file' = [file EXCEPT ![z] = [serial |-> NextSerial(Serial(z)),
                                    content |-> writes', at |-> clock]]
    /\ UNCHANGED <<clock, loop, dirty, push, served, reload, notifies,
                   secondaryVars, faults, crashes>>

\* The volume is full: Update ends there, and with it the cycle.
WriteFails(z) ==
    /\ loop = "writing" /\ temp[z] = "filling" /\ faults < MaxFaults
    /\ faults' = faults + 1
    /\ loop' = "idle" /\ temp' = [temp EXCEPT ![z] = "left"]
    /\ UNCHANGED <<clock, file, dirty, push, served, reload, notifies,
                   secondaryVars, writes, crashes>>

\* Then removeOrphans removes the files of zones without records ...
RemoveZone(z) ==
    /\ ZonesMayGo /\ file[z] # NoZone
    /\ loop \in {"idle", "writing", "removing"} /\ ~Filling
    /\ loop' = "removing" /\ file' = [file EXCEPT ![z] = NoZone]
    /\ UNCHANGED <<clock, temp, dirty, push, served, reload, notifies,
                   secondaryVars, boundVars>>

\* ... and the temporary files that have been left.
RemoveTemp ==
    /\ loop \in {"idle", "writing", "removing"} /\ ~Filling /\ temp # NoTemp
    /\ loop' = "removing" /\ temp' = NoTemp
    /\ UNCHANGED <<clock, file, dirty, push, served, reload, notifies,
                   secondaryVars, boundVars>>

StartPush(d) ==
    /\ loop' = "pushing" /\ dirty' = d
    /\ push' = [r \in Replica |-> IF r \in d THEN "todo" ELSE "none"]
    /\ UNCHANGED <<clock, file, temp, served, reload, notifies, secondaryVars,
                   boundVars>>

\* Reload, after an Update that changed something: every address is owed a push.
Reload == loop \in {"writing", "removing"} /\ temp = NoTemp /\ StartPush(Replica)

\* Reconcile, on a poll whose Update found nothing to change.
Reconcile == loop = "idle" /\ temp = NoTemp /\ dirty # {} /\ StartPush(dirty)

SendPush(r) ==
    /\ push[r] = "todo" /\ push' = [push EXCEPT ![r] = "sent"]
    /\ UNCHANGED <<clock, sidecarVars, served, reload, notifies, secondaryVars,
                   boundVars>>

Running(r, by) == reload[r][by] # Off

\* The replica's reloads, when the caller of the push is gone.
Disowned(r) == IF Running(r, "grpc") THEN [reload[r] EXCEPT !["grpc"].call = FALSE]
               ELSE reload[r]

\* The call fails or runs out of its five seconds, in which case the replica
\* goes on reloading.  reloadOne retries or gives up.
PushFails(r) ==
    /\ push[r] \in {"sent", "running", "acked"} /\ faults < MaxFaults
    /\ faults' = faults + 1
    /\ \E next \in {"todo", "gave up"} : push' = [push EXCEPT ![r] = next]
    /\ reload' = [reload EXCEPT ![r] = Disowned(r)]
    /\ UNCHANGED <<clock, sidecarVars, served, notifies, secondaryVars, writes,
                   crashes>>

\* The call finds nobody listening, or is answered with the reload's error.
PushRefused(r) ==
    /\ \/ push[r] = "sent" /\ Running(r, "startup")
       \/ push[r] = "failed"
    /\ \E next \in {"todo", "gave up"} : push' = [push EXCEPT ![r] = next]
    /\ UNCHANGED <<clock, sidecarVars, served, reload, notifies, secondaryVars,
                   boundVars>>

PushSucceeds(r) ==
    /\ push[r] = "acked"
    /\ push' = [push EXCEPT ![r] = "none"] /\ dirty' = dirty \ {r}
    /\ UNCHANGED <<clock, file, temp, loop, served, reload, notifies, secondaryVars,
                   boundVars>>

EndPush ==
    /\ loop = "pushing" /\ \A r \in Replica : push[r] \in {"none", "gave up"}
    /\ loop' = "idle" /\ push' = [r \in Replica |-> "none"]
    /\ UNCHANGED <<clock, file, temp, dirty, served, reload, notifies,
                   secondaryVars, boundVars>>

\* The sidecar restarts on its volume; what it owed the replicas is forgotten.
SidecarRestart ==
    /\ crashes < MaxCrashes /\ crashes' = crashes + 1
    /\ loop' = "idle" /\ dirty' = {}
    /\ temp' = [z \in Zone |-> IF temp[z] = "filling" THEN "left" ELSE temp[z]]
    /\ push' = [r \in Replica |-> "none"]
    /\ reload' = [r \in Replica |-> Disowned(r)]
    /\ UNCHANGED <<clock, file, served, notifies, secondaryVars, writes, faults>>

-----------------------------------------------------------------------------
(* A replica *)

Nothing == [z \in Zone |-> NoZone]

Trigger == {"startup", "poll", "grpc"}

\* The sidecar's files and a replica's zones; a reload and a transfer under way.
File  == [serial : Nat, content : Nat, at : Nat]
Files == [Zone -> File \cup {NoZone}]
UnderWay == [phase : {"list", "get"}, todo : SUBSET Zone, temps : SUBSET Zone,
             got : Files, since : Nat, call : BOOLEAN]
Sending == [from : Replica, zone : Zone, data : File, sending : BOOLEAN]

ASSUME OffAssumption == Off \notin UnderWay \cup Sending /\ NoZone \notin File

NoReload == [by \in Trigger |-> Off]

\* A reload about to ask for the listing; call is set while a push waits for it.
Listing(by) == [phase |-> "list", todo |-> {}, temps |-> {}, got |-> Nothing,
                since |-> writes, call |-> by = "grpc"]

\* Faulty variant: no mutex.
MayReloadAnyTime(r, by) == ~Running(r, "startup") /\ ~Running(r, by)

\* reloadMu
MayReload(r, by) == reload[r] = NoReload

StartReload(r, by) ==
    /\ MayReload(r, by)
    /\ reload' = [reload EXCEPT ![r][by] = Listing(by)]
    /\ UNCHANGED <<clock, sidecarVars, served, notifies, secondaryVars, boundVars>>

PollReload(r) == StartReload(r, "poll") /\ UNCHANGED push

GrpcReload(r) == /\ push[r] = "sent" /\ StartReload(r, "grpc")
                 /\ push' = [push EXCEPT ![r] = "running"]

InPhase(r, by, phase) == Running(r, by) /\ reload[r][by].phase = phase

\* GET /zones/, which lists whatever is called db.*
List(r, by) ==
    /\ InPhase(r, by, "list")
    /\ reload' = [reload EXCEPT ![r][by] =
                    [@ EXCEPT !.phase = "get",
                              !.todo = {z \in Zone : file[z] # NoZone},
                              !.temps = {z \in Zone : temp[z] # "none"}]]
    /\ UNCHANGED <<clock, sidecarVars, push, served, notifies, secondaryVars,
                   boundVars>>

\* Faulty variant: Last-Modified, in whole seconds.
NotModifiedSince(cached, current) == cached # NoZone /\ cached.at = current.at

\* If-None-Match: the ETag is a hash of the file.
NotModified(cached, current) == cached = current

Fetched(r, z) == IF NotModified(served[r][z], file[z]) THEN served[r][z] ELSE file[z]

\* GET /zones/db.z
Get(r, by, z) ==
    /\ InPhase(r, by, "get") /\ z \in reload[r][by].todo
    /\ file[z] # NoZone
    /\ LET done == reload[r][by].todo \ {z} IN
       reload' = [reload EXCEPT ![r][by] =
                    [@ EXCEPT !.todo = done, !.got[z] = Fetched(r, z)]]
    /\ UNCHANGED <<clock, sidecarVars, push, served, notifies, secondaryVars,
                   boundVars>>

\* A reload ends and its caller, if there is one, is answered; a process whose
\* startup fails exits and begins again.
Ended(r, by, answer) ==
    /\ reload' = [reload EXCEPT ![r][by] =
                    IF by = "startup" /\ answer = "failed" THEN Listing(by) ELSE Off]
    /\ push' = IF reload[r][by].call THEN [push EXCEPT ![r] = answer] ELSE push

\* Faulty variant: a file that cannot be fetched is passed over.
AfterFailedGetSkips(r, by, z) ==
    reload' = [reload EXCEPT ![r][by].todo = @ \ {z}] /\ UNCHANGED push

\* One failed request fails the reload: the zones stay as they are.
AfterFailedGet(r, by, z) == Ended(r, by, "failed")

\* The file is gone since it was listed.
GetMissing(r, by, z) ==
    /\ InPhase(r, by, "get") /\ z \in reload[r][by].todo /\ file[z] = NoZone
    /\ AfterFailedGet(r, by, z)
    /\ UNCHANGED <<clock, sidecarVars, served, notifies, secondaryVars, boundVars>>

\* A temporary file that is there may parse, as the zone z.tmp that nobody asks
\* for.
GetTemp(r, by, z) ==
    /\ InPhase(r, by, "get") /\ z \in reload[r][by].temps /\ temp[z] # "none"
    /\ reload' = [reload EXCEPT ![r][by].temps = @ \ {z}]
    /\ UNCHANGED <<clock, sidecarVars, push, served, notifies, secondaryVars,
                   boundVars>>

\* If it breaks off in the middle of a record, or has been renamed since it was
\* listed, the reload fails.
GetTempFails(r, by, z) ==
    /\ InPhase(r, by, "get") /\ z \in reload[r][by].temps
    /\ AfterFailedGet(r, by, z)
    /\ UNCHANGED <<clock, sidecarVars, served, notifies, secondaryVars, boundVars>>

\* The request itself fails.
GetFails(r, by, z) ==
    /\ InPhase(r, by, "get") /\ z \in reload[r][by].todo
    /\ faults < MaxFaults /\ faults' = faults + 1
    /\ AfterFailedGet(r, by, z)
    /\ UNCHANGED <<clock, sidecarVars, served, notifies, secondaryVars, writes,
                   crashes>>

ListFails(r, by) ==
    /\ InPhase(r, by, "list")
    /\ faults < MaxFaults /\ faults' = faults + 1
    /\ Ended(r, by, "failed")
    /\ UNCHANGED <<clock, sidecarVars, served, notifies, secondaryVars, writes,
                   crashes>>

Loaded(r, by) == /\ InPhase(r, by, "get")
                 /\ reload[r][by].todo = {} /\ reload[r][by].temps = {}

\* Plugin.mu: a transfer that sends reads under it until its last record is taken,
\* and a reload that waits for it keeps new readers out.
WantsLock(r) ==
    \E by \in Trigger : Loaded(r, by) /\ reload[r][by].got # served[r]
Streaming(r) ==
    \E s \in Secondary : /\ transfer[s] # Off /\ transfer[s].from = r
                          /\ transfer[s].sending

\* Faulty variant: zones that appear are not announced.
SerialChangedKnown(old, new) ==
    {z \in Zone : old[z] # NoZone /\ new[z] # NoZone /\ old[z].serial # new[z].serial}

\* serialChangedZones
SerialChanged(old, new) ==
    {z \in Zone : /\ new[z] # NoZone
                  /\ old[z] = NoZone \/ old[z].serial # new[z].serial}

Swap(r, by) ==
    LET got == reload[r][by].got IN
    /\ Loaded(r, by)
    /\ got # served[r] => ~Streaming(r)
    /\ served' = [served EXCEPT ![r] = got]
    /\ notifies' = [notifies EXCEPT ![r] = @ \cup SerialChanged(served[r], got)]
    /\ Ended(r, by, "acked")
    /\ UNCHANGED <<clock, sidecarVars, secondaryVars, boundVars>>

\* sendNotifies
SendNotify(r, z) ==
    /\ z \in notifies[r] /\ notifies' = [notifies EXCEPT ![r] = @ \ {z}]
    /\ \E to \in SUBSET Secondary :
         /\ IF to = Secondary THEN UNCHANGED faults
            ELSE faults < MaxFaults /\ faults' = faults + 1
         /\ toCheck' = [s \in Secondary |->
                          toCheck[s] \cup (IF s \in to THEN {z} ELSE {})]
         /\ lost' = (lost \ (to \X {z})) \cup ((Secondary \ to) \X {z})
    /\ UNCHANGED <<clock, sidecarVars, push, served, reload, held, transfer,
                   writes, crashes>>

\* The process restarts: it serves nothing, takes no calls and does not poll
\* before its first reload has succeeded.
ReplicaRestart(r) ==
    /\ crashes < MaxCrashes /\ crashes' = crashes + 1
    /\ served' = [served EXCEPT ![r] = Nothing]
    /\ reload' = [reload EXCEPT ![r] = [NoReload EXCEPT !["startup"] = Listing("startup")]]
    /\ notifies' = [notifies EXCEPT ![r] = {}]
    /\ push' = [push EXCEPT ![r] = IF @ = "running" THEN "failed" ELSE @]
    /\ transfer' = [s \in Secondary |->
                      IF transfer[s] # Off /\ transfer[s].from = r
                      THEN Off ELSE transfer[s]]
    /\ UNCHANGED <<clock, sidecarVars, held, toCheck, lost,
                   writes, faults>>

-----------------------------------------------------------------------------
(* A secondary *)

Newer(zone, than) == than = NoZone \/ zone.serial > than.serial

\* Told to, or because its refresh timer has fired, it asks a replica for the SOA,
\* and for the zone if its serial is newer.  Transfer looks the zone up ...
Check(s, r, z) ==
    /\ transfer[s] = Off
    /\ ~WantsLock(r)
    /\ toCheck' = [toCheck EXCEPT ![s] = @ \ {z}]
    /\ IF served[r][z] # NoZone /\ Newer(served[r][z], held[s][z])
       THEN transfer' = [transfer EXCEPT ![s] =
                           [from |-> r, zone |-> z, data |-> served[r][z],
                            sending |-> FALSE]]
       ELSE UNCHANGED transfer
    /\ UNCHANGED <<clock, sidecarVars, push, served, reload, notifies, held,
                   lost, boundVars>>

\* ... and its goroutine locks again to send what was found, by then perhaps replaced.
StartSending(s) ==
    /\ transfer[s] # Off /\ ~transfer[s].sending
    /\ ~WantsLock(transfer[s].from)
    /\ transfer' = [transfer EXCEPT ![s].sending = TRUE]
    /\ UNCHANGED <<clock, sidecarVars, push, served, reload, notifies, held, toCheck,
                   lost, boundVars>>

\* The last record has been taken.
EndTransfer(s) ==
    /\ transfer[s] # Off /\ transfer[s].sending
    /\ held' = [held EXCEPT ![s][transfer[s].zone] = transfer[s].data]
    /\ transfer' = [transfer EXCEPT ![s] = Off]
    /\ UNCHANGED <<clock, sidecarVars, push, served, reload, notifies, toCheck,
                   lost, boundVars>>

-----------------------------------------------------------------------------
Init ==
    /\ clock = 1 /\ loop = "idle" /\ dirty = {} /\ temp = NoTemp
    /\ file = [z \in Zone |-> [serial |-> 1, content |-> 0, at |-> 1]]
    /\ push = [r \in Replica |-> "none"]
    /\ served = [r \in Replica |-> file]
    /\ reload = [r \in Replica |-> NoReload]
    /\ notifies = [r \in Replica |-> {}]
    /\ held = [s \in Secondary |-> file]
    /\ toCheck = [s \in Secondary |-> {}]
    /\ transfer = [s \in Secondary |-> Off]
    /\ writes = 0 /\ faults = 0 /\ crashes = 0 /\ lost = {}

Pushing(r) == SendPush(r) \/ PushRefused(r) \/ PushSucceeds(r)

Reloading(r) ==
    \/ GrpcReload(r)
    \/ \E by \in Trigger : \/ List(r, by) \/ Swap(r, by)
                          \/ \E z \in Zone :
                               \/ Get(r, by, z) \/ GetMissing(r, by, z)
                               \/ GetTemp(r, by, z) \/ GetTempFails(r, by, z)

Faulty(r, by) == ListFails(r, by) \/ \E z \in Zone : GetFails(r, by, z)

Next ==
    \/ Tick \/ StepBack
    \/ \E z \in Zone : BeginWrite(z) \/ WriteZone(z) \/ WriteFails(z) \/ RemoveZone(z)
    \/ RemoveTemp \/ Reload \/ Reconcile \/ EndPush \/ SidecarRestart
    \/ \E r \in Replica :
         \/ Pushing(r) \/ PushFails(r)
         \/ PollReload(r) \/ Reloading(r) \/ ReplicaRestart(r)
         \/ \E by \in Trigger : Faulty(r, by)
         \/ \E z \in Zone : SendNotify(r, z)
    \/ \E s \in Secondary :
         \/ StartSending(s) \/ EndTransfer(s)
         \/ \E z \in Zone : \E r \in Replica : Check(s, r, z)

\* Nobody stops for good, timers fire, and a secondary takes what it asked for.
\* RemoveTemp is part of every cycle, once NetBox has answered the first time.
Fairness ==
    /\ WF_vars(\E z \in Zone : WriteZone(z)) /\ WF_vars(RemoveTemp)
    /\ WF_vars(Reload) /\ WF_vars(EndPush)
    /\ \A r \in Replica : /\ WF_vars(Pushing(r)) /\ WF_vars(Reloading(r))
                          /\ WF_vars(PollReload(r))
    /\ \A s \in Secondary :
         /\ WF_vars(StartSending(s)) /\ WF_vars(EndTransfer(s))
         /\ \A z \in Zone, r \in Replica : SF_vars(Check(s, r, z))

Spec == Init /\ [][Next]_vars /\ Fairness

-----------------------------------------------------------------------------
(* Properties *)

Version == [serial : 1..(MaxClock + MaxWrites), content : 0..MaxWrites,
            at : 1..MaxClock]
Versions == [Zone -> Version \cup {NoZone}]

\* Files, served zones and secondaries hold numbered versions, and no serial
\* runs further ahead of the clock than there were writes (NextSerial: one
\* second per extra write).
TypeOK ==
    /\ clock \in 1..MaxClock
    /\ file \in Versions /\ served \in [Replica -> Versions]
    /\ held \in [Secondary -> Versions]
    /\ loop \in {"idle", "writing", "removing", "pushing"}
    /\ temp \in [Zone -> {"none", "filling", "left"}]
    /\ dirty \subseteq Replica
    /\ push \in [Replica -> {"none", "todo", "sent", "running", "failed", "acked",
                             "gave up"}]
    /\ notifies \in [Replica -> SUBSET Zone]
    /\ toCheck \in [Secondary -> SUBSET Zone]
    /\ \A r \in Replica, by \in Trigger : Running(r, by) =>
         reload[r][by] \in UnderWay /\ reload[r][by].got \in Versions
    /\ \A s \in Secondary : transfer[s] # Off => transfer[s].data \in Version
    /\ writes \in 0..MaxWrites /\ faults \in 0..MaxFaults /\ crashes \in 0..MaxCrashes

\* When a push is answered the replica serves the sidecar's files, whatever
\* reloads ran before it and however quickly the files were rewritten
\* (reloadMu; the ETag's comparison).
PushedIsLoaded ==
    \A r \in Replica : (push[r] = "acked" /\ ~Running(r, "startup"))
                          => served[r] = file

\* A replica never goes from a version of a zone to an older one.
NoStepBack ==
    [][\A r \in Replica, z \in Zone :
         (served[r][z] # NoZone /\ served'[r][z] # NoZone)
            => served'[r][z].content >= served[r][z].content]_served

\* A reload drops a zone only if its file is missing when it swaps or has been
\* written since it began, so that its listing may have had no file yet: no failed
\* request makes a zone disappear (reloadZones is fail-fast).
DroppedOnlyIfGone ==
    [][\A r \in Replica, z \in Zone :
         (served[r][z] # NoZone /\ served'[r][z] = NoZone /\ crashes' = crashes)
            => \/ file[z] = NoZone
               \/ \E by \in Trigger : /\ Running(r, by)
                                      /\ file[z].content > reload[r][by].since]_served

\* With one replica, a secondary that is behind has been told or is about to be,
\* unless the last NOTIFY was lost: also of zones that appear, and after a restart of the
\* replica (serialChangedZones; the startup reload).
NotifyOwed ==
    \A r \in Replica, s \in Secondary, z \in Zone :
        (served[r][z] # NoZone /\ Newer(served[r][z], held[s][z]))
            => \/ z \in notifies[r] \cup toCheck[s] \/ <<s, z>> \in lost
               \/ transfer[s] # Off /\ transfer[s].zone = z

\* Every replica comes to serve the sidecar's files, whatever becomes of the
\* pushes (pollLoop as the fallback).
ReplicasCatchUp == <>[](\A r \in Replica : served[r] = file)

\* Every secondary comes to hold the last content of every zone, although the
\* clock may be set back and several writes may fall into one second
\* (NextSerial).
SecondariesConverge ==
    <>[](\A s \in Secondary, z \in Zone : file[z] # NoZone => held[s][z] = file[z])
=============================================================================
