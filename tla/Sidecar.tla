------------------------------ MODULE Sidecar ------------------------------
(***************************************************************************)
(* The sidecar process: cmd/sidecar/main.go's poll loop with everything it *)
(* drives.  One goroutine runs the loop; gRPC and webhook handlers run     *)
(* beside it and reach it only through three channels of capacity one, the *)
(* dynamic store and the shrink-guard consent.                             *)
(*                                                                         *)
(* One cycle of the loop is                                                *)
(*                                                                         *)
(*   idle -> fetching -> read -> merging -> reading -> pushing -> idle     *)
(*                                                                         *)
(* with the fetch skipped for a merge signal and the push skipped when     *)
(* there is nothing to push; the merge reads the store zone by zone.       *)
(* NetBox, the handlers, a crash and CoreDNS's own polling interleave with *)
(* every one of these steps.                                               *)
(*                                                                         *)
(* A record is a name; ZoneOf says where discovery puts it.  A zone file   *)
(* is the set of its records, each tagged with where it came from.         *)
(***************************************************************************)
EXTENDS ShrinkGuard, FiniteSets

CONSTANTS
    Name,           \* the DNS names in play
    ZoneOf,         \* the zone each name is discovered into, or NoZone
    NetboxContents, \* the record sets NetBox may hold
    DynName,        \* the names dynamic writes (gRPC, webhook) touch
    DynZone,        \* the zones CreateZone and DeleteZone touch
    Calls,          \* the calls without data that are made: see ControlCall
    Replica,        \* CORE_DNS_RELOAD_ADDRS, one CoreDNS pod each
    Missing,        \* no zone file, no generator
    AllowShrink,    \* operators use ForceNetboxPoll(allow_shrink=true)
    FetchMayFail,   \* NetBox may be unreachable
    WriteMayFail,   \* writing a zone file may fail
    MaxCrashes,     \* bound: crashes in a behaviour
    MaxHandlers     \* bound: handlers between their write and their signal

\* The zone files' possible contents: records that came from the NetBox poll
\* and records of the dynamic store.
Content == SUBSET (Name \X {"netbox", "dynamic"})

\* ForceNetboxPoll, ForceMergeWrite, a webhook event without a dns_name.
ControlCall == {"poll", "merge", "hook"}

ASSUME SidecarAssumption ==
    /\ IsFiniteSet(Name) /\ IsFiniteSet(Zone)
    /\ ZoneOf \in [Name -> Zone \cup {NoZone}]
    /\ NetboxContents \subseteq SUBSET Name
    /\ DynName \subseteq {n \in Name : ZoneOf[n] # NoZone}
    /\ DynZone \subseteq Zone /\ Calls \subseteq ControlCall
    /\ \A c \in Content : c # Missing
    /\ {AllowShrink, FetchMayFail, WriteMayFail} \subseteq BOOLEAN
    /\ {MaxCrashes, MaxHandlers} \subseteq Nat

VARIABLES
    \* NetBox
    netbox,           \* the records it holds
    reachable,        \* whether a fetch succeeds
    \* internal/dynamicstore; survives a restart in dynamic.json
    store,            \* per name: absent, manual, or a webhook record's age
    buckets,          \* the zones the store has an entry for, empty or not
    \* ZONE_DIR; survives a restart
    disk,             \* db.<zone>
    tmp,              \* zones whose db.<zone>.tmp was left behind
    \* internal/zonemanager
    generators,       \* per zone: the record set of the last Generate
    \* run()
    pc, cycle, fetched, fetchErr,
    lastNetboxZones, lastBaseline, fetchSucceededOnce,
    cooling,          \* WEBHOOK_POLL_MIN_INTERVAL has not passed yet
    listed, unread,   \* merge.Write: the store's zones, those still to be read
    view,             \* and the names read so far
    staleGauge,       \* zone_staleness_seconds is not zero
    healthy,          \* /healthz answers 200
    \* shared with the handlers
    armed,            \* shrinkguard.Override
    netboxSignal, mergeSignal, webhookPollSignal,
    arming,           \* ForceNetboxPoll calls between Arm and the send
    writers,          \* handlers between their store write and the send
    \* internal/reloader, and the CoreDNS pods
    dirty,            \* addresses a push is owed to
    behind,           \* pods that have not loaded the files on disk
    \* history, for the properties only
    grounds,          \* why the next merge may change what is on disk: the
                      \* guard passed it, an operator consented, or the process
                      \* had no baseline; kept until a merge gets through
    crashes

netboxVars == <<netbox, reachable>>
storeVars  == <<store, buckets>>
fileVars   == <<disk, tmp, generators>>
readVars   == <<listed, unread, view>>
loopVars   == <<pc, cycle, fetched, fetchErr, lastNetboxZones, lastBaseline,
                fetchSucceededOnce, cooling, readVars, grounds>>
statusVars == <<staleGauge, healthy>>
signalVars == <<armed, netboxSignal, mergeSignal, webhookPollSignal,
                arming, writers>>
pushVars   == <<dirty, behind>>

vars == <<netboxVars, storeVars, fileVars, loopVars, statusVars, signalVars,
          pushVars, crashes>>

Cycle == {"initial", "ticker", "forced", "webhook", "merge"}

-----------------------------------------------------------------------------
(* Records, zone maps and counts *)

InZone(z, S) == {n \in S : ZoneOf[n] = z}

\* What Discover keeps: a record that maps to no zone is dropped.
Routed(S) == {n \in S : ZoneOf[n] # NoZone}

\* FromZoneCounts(countZoneRecords(S)).  A name is in one zone, so the sum of
\* the zone counts is the number of routed names.
CountsOf(S) == [total  |-> Cardinality(Routed(S)),
                zones  |-> [z \in Zone |-> Cardinality(InZone(z, S))],
                onDisk |-> FALSE]

Dynamic(st) == {n \in Name : st[n] # "absent"}

\* merge.Write: dynamic records shadow NetBox records of the same name, and a
\* zone exists when a record or an (even empty) bucket puts it there.
MergedZone(z, nb, dyn) ==
    (InZone(z, dyn) \X {"dynamic"}) \cup (InZone(z, nb \ dyn) \X {"netbox"})

Merged(nb, dyn, bk) ==
    [z \in Zone |-> IF InZone(z, nb) # {} \/ z \in bk
                    THEN MergedZone(z, nb, dyn)
                    ELSE Missing]

HasZoneFile(d) == \E z \in Zone : d[z] # Missing

\* Manager.HasExistingZones looks for the prefix "db.", which a temporary file
\* has too.
HasExistingZones(d, t) == HasZoneFile(d) \/ t # {}

FilesOf(d) == UNION {d[z] : z \in {y \in Zone : d[y] # Missing}}

\* The NetBox records the files on disk serve.
NetboxOnDisk == {n \in Name : <<n, "netbox">> \in FilesOf(disk)}

-----------------------------------------------------------------------------
(* zonemanager.Manager.Update *)

\* The record set a zone's generator compares with: its own last one, or for a
\* new generator the fingerprint of the file it finds (NewGenerator).
LastContent(z) == IF generators[z] # Missing THEN generators[z] ELSE disk[z]

\* Faulty variant: only the files of new generators are written.
ToWriteNewOnly(m) == {z \in Zone : /\ m[z] # Missing /\ generators[z] = Missing
                                   /\ disk[z] # m[z]}

ToWrite(m) == {z \in Zone : m[z] # Missing /\ LastContent(z) # m[z]}

\* The files after every zone of W has been written.
Written(m, W) == [z \in Zone |-> IF z \in W THEN m[z] ELSE disk[z]]

\* Faulty variant: the directory is not scanned, so what an earlier process left
\* stays.
OrphansTrackedOnly(m) ==
    {z \in Zone : m[z] = Missing /\ generators[z] # Missing}

\* removeOrphans: the zones that still have a generator, and what else is in
\* the directory.
Orphans(m) ==
    {z \in Zone : m[z] = Missing /\ (generators[z] # Missing \/ disk[z] # Missing)}

Without(d, R) == [z \in Zone |-> IF z \in R THEN Missing ELSE d[z]]

\* Update to the end.  Temporary files are never the file of an active zone, so
\* removeOrphans takes them too, and counts them.
UpdatedDisk(m) == Without(Written(m, ToWrite(m)), Orphans(m))

\* Faulty variant: deletions do not count as a change.
UpdateChangedNoDeletes(m) == ToWrite(m) # {}

\* stats.Created + stats.Updated + stats.Deleted > 0
UpdateChanged(m) ==
    ToWrite(m) # {} \/ Orphans(m) # {} \/ tmp \ ToWrite(m) # {}

\* The write of zone f fails: the zones before it are on disk, and the
\* generators up to and including f have recorded their new content.
FailedGenerators(m, f) ==
    [z \in Zone |-> IF m[z] # Missing /\ z <= f THEN m[z] ELSE generators[z]]

\* What interrupting Update can leave on the volume: the writes before zone f,
\* with or without f's temporary file; or, after the last write, some removals.
BeforeZone(m, f) == {z \in ToWrite(m) : z < f}

InterruptedWrites(m, f) ==
    {[disk |-> Written(m, BeforeZone(m, f)),
      tmp  |-> (tmp \ BeforeZone(m, f)) \cup t] : t \in {{}, {f}}}

InterruptedRemovals(m) ==
    {[disk |-> Without(Written(m, ToWrite(m)), R),
      tmp  |-> tmp \ ToWrite(m)] : R \in SUBSET Orphans(m)}

InterruptedUpdates(m) ==
    InterruptedRemovals(m)
        \cup (UNION {InterruptedWrites(m, f) : f \in ToWrite(m)})

-----------------------------------------------------------------------------
(* Decisions of the loop *)

\* Faulty variant: no gate.
MergeAlwaysAllowed(succeededOnce, hasExisting) == TRUE

\* mergeAllowed, the G4 gate.
MergeAllowed(succeededOnce, hasExisting) == succeededOnce \/ ~hasExisting

\* Faulty variant: ready only after a publish (before G13).
ReadyOncePublished(published, hasExisting) == published

\* readyToServe, asked once before the first fetch.
ReadyToServe(published, hasExisting) == published \/ hasExisting

NoBaseline == [total |-> 0, zones |-> [z \in Zone |-> 0], onDisk |-> FALSE]

\* The baseline of a process that has published nothing yet.
StartBaseline(d, t) == [NoBaseline EXCEPT !.onDisk = HasExistingZones(d, t)]

\* ReconcileWebhookSourced(fetchStart) drops what was applied before that.
Reconciled(st) ==
    [n \in Name |-> IF st[n] = "old" THEN "absent" ELSE st[n]]

\* A new fetch starts: every webhook record so far was applied before it.
Aged(st) == [n \in Name |-> IF st[n] = "new" THEN "old" ELSE st[n]]

\* Faulty variant: the initial cycle pushes without having marked ready.
ReadyAfterTicker(c, h) == h \/ c = "ticker"

\* /healthz after a merge that succeeded: the initial cycle and the ticker mark
\* the sidecar ready, the forced and signalled ones do not.
ReadyAfterMerge(c, h) == h \/ c \in {"initial", "ticker"}

\* Faulty variant: every successful ticker merge resets the gauge (before G6).
StaleUntilMerge(c, err, g) == IF c = "ticker" THEN FALSE ELSE g

\* zone_staleness_seconds after a merge that succeeded (G6).
StaleAfterMerge(c, err, g) == IF c = "ticker" /\ ~err THEN FALSE ELSE g

\* Faulty variant: only a refusal consumes the consent.
ArmedUntilRefusal(verdict) == armed /\ ~verdict.refuse

\* ConsumeIfArmed: the first evaluation after the Arm spends the consent,
\* whatever its verdict.
ArmedAfter(verdict) == FALSE

\* Faulty variants: the refused set becomes the new normal; fetchNetbox's zero
\* Baseline, with its nil map, is installed although it returned an error.
BaselineFollowsRefusal(candidate) == candidate
BaselineZeroOnRefusal(candidate) ==
    [total |-> 0, zones |-> [z \in {} |-> 0], onDisk |-> FALSE]

\* lastBaseline after a poll was refused.
BaselineAfterRefusal(candidate) == lastBaseline

-----------------------------------------------------------------------------
EndCycle == /\ pc' = "idle"
            /\ cycle' = "none"
            /\ fetched' = {}
            /\ fetchErr' = FALSE

NoGenerators == [z \in Zone |-> Missing]

\* The volume is new, or holds what an earlier process published.
Init ==
    /\ netbox \in NetboxContents
    /\ reachable \in IF FetchMayFail THEN BOOLEAN ELSE {TRUE}
    /\ store = [n \in Name |-> "absent"] /\ buckets = {}
    /\ disk \in {Merged(S, {}, {}) : S \in {{}} \cup NetboxContents}
    /\ tmp = {}
    /\ pc = "down"
    /\ cycle = "none" /\ fetched = {} /\ fetchErr = FALSE
    /\ lastNetboxZones = {} /\ lastBaseline = NoBaseline
    /\ fetchSucceededOnce = FALSE /\ cooling = FALSE /\ grounds = "none"
    /\ listed = {} /\ unread = {} /\ view = {}
    /\ generators = NoGenerators
    /\ staleGauge = FALSE /\ healthy = FALSE
    /\ armed = FALSE /\ netboxSignal = FALSE /\ mergeSignal = FALSE
    /\ webhookPollSignal = FALSE /\ arming = 0 /\ writers = 0
    /\ dirty = {} /\ behind = {} /\ crashes = 0

-----------------------------------------------------------------------------
(* The poll loop *)

\* doFetchNetbox starts: fetchStart := now.
BeginFetch(c) ==
    /\ pc' = "fetching"
    /\ cycle' = c
    /\ store' = Aged(store)
    /\ UNCHANGED <<fetched, fetchErr>>

\* run() up to the initial fetch.
Start ==
    /\ pc = "down"
    /\ lastBaseline' = StartBaseline(disk, tmp)
    /\ healthy' = ReadyToServe(FALSE, HasExistingZones(disk, tmp))
    /\ BeginFetch("initial")
    /\ UNCHANGED <<netboxVars, buckets, fileVars, lastNetboxZones,
                   fetchSucceededOnce, cooling, readVars, grounds, staleGauge,
                   signalVars, pushVars, crashes>>

TickerFires ==
    /\ pc = "idle"
    /\ BeginFetch("ticker")
    /\ UNCHANGED <<netboxVars, buckets, fileVars, lastNetboxZones, lastBaseline,
                   fetchSucceededOnce, cooling, readVars, grounds, statusVars,
                   signalVars, pushVars, crashes>>

TakeNetboxSignal ==
    /\ pc = "idle" /\ netboxSignal
    /\ netboxSignal' = FALSE
    /\ BeginFetch("forced")
    /\ UNCHANGED <<netboxVars, buckets, fileVars, lastNetboxZones, lastBaseline,
                   fetchSucceededOnce, cooling, readVars, grounds, statusVars,
                   armed, mergeSignal, webhookPollSignal, arming, writers,
                   pushVars, crashes>>

\* A webhook poll signal inside the cooldown is dropped.
TakeWebhookPollSignal ==
    /\ pc = "idle" /\ webhookPollSignal
    /\ webhookPollSignal' = FALSE
    /\ \/ /\ ~cooling
          /\ cooling' = TRUE
          /\ BeginFetch("webhook")
       \/ /\ cooling
          /\ UNCHANGED <<store, pc, cycle, fetched, fetchErr, cooling>>
    /\ UNCHANGED <<netboxVars, buckets, fileVars, lastNetboxZones, lastBaseline,
                   fetchSucceededOnce, readVars, grounds, statusVars, armed,
                   netboxSignal, mergeSignal, arming, writers, pushVars, crashes>>

TakeMergeSignal ==
    /\ pc = "idle" /\ mergeSignal
    /\ mergeSignal' = FALSE
    /\ pc' = "merging" /\ cycle' = "merge"
    /\ UNCHANGED <<netboxVars, storeVars, fileVars, fetched, fetchErr,
                   lastNetboxZones, lastBaseline, fetchSucceededOnce, cooling,
                   readVars, grounds, statusVars, armed, netboxSignal,
                   webhookPollSignal, arming, writers, pushVars, crashes>>

-----------------------------------------------------------------------------
(* fetchNetbox and the bookkeeping around it *)

\* The poll ends in an error: nothing it learned is kept, and a ticker cycle
\* reports the age of the data.
PollError ==
    /\ fetchErr' = TRUE
    /\ fetched' = {}
    /\ pc' = "merging"
    /\ staleGauge' = (staleGauge \/ cycle = "ticker")
    /\ UNCHANGED <<netboxVars, storeVars, fileVars, cycle, lastNetboxZones,
                   fetchSucceededOnce, cooling, readVars, grounds, healthy,
                   netboxSignal, mergeSignal, webhookPollSignal, arming, writers,
                   pushVars, crashes>>

FetchFails ==
    /\ pc = "fetching" /\ ~reachable
    /\ PollError
    /\ UNCHANGED <<lastBaseline, armed>>

FetchReads ==
    /\ pc = "fetching" /\ reachable
    /\ fetched' = netbox
    /\ pc' = "read"
    /\ UNCHANGED <<netboxVars, storeVars, fileVars, cycle, fetchErr,
                   lastNetboxZones, lastBaseline, fetchSucceededOnce, cooling,
                   readVars, grounds, statusVars, signalVars, pushVars, crashes>>

EmptyFetch == EmptyResult(lastBaseline, Cardinality(fetched))

\* An empty response spends the consent without honouring it.
RefuseEmpty ==
    /\ pc = "read" /\ EmptyFetch.refuse
    /\ armed' = ArmedAfter(EmptyFetch)
    /\ lastBaseline' = BaselineAfterRefusal(CountsOf({}))
    /\ PollError

\* NetBox-backed zone discovery asks NetBox again, and may get no answer.
DiscoverFails ==
    /\ pc = "read" /\ ~EmptyFetch.refuse /\ ~reachable
    /\ PollError
    /\ UNCHANGED <<lastBaseline, armed>>

Candidate == CountsOf(fetched)
Verdict   == Evaluate(lastBaseline, Candidate)

RefuseShrink ==
    /\ pc = "read" /\ ~EmptyFetch.refuse
    /\ Verdict.refuse /\ ~armed
    /\ armed' = ArmedAfter(Verdict)
    /\ lastBaseline' = BaselineAfterRefusal(Candidate)
    /\ PollError

\* The poll succeeds: doFetchNetbox installs the baseline and reconciles the
\* store, and every caller keeps the zones for later merges.
AcceptPoll ==
    /\ pc = "read" /\ ~EmptyFetch.refuse
    /\ ~Verdict.refuse \/ armed
    /\ armed' = ArmedAfter(Verdict)
    /\ lastBaseline' = Candidate
    /\ lastNetboxZones' = Routed(fetched)
    /\ fetchSucceededOnce' = TRUE
    /\ store' = Reconciled(store)
    /\ grounds' = IF Verdict.refuse THEN "override"
                  ELSE IF lastBaseline.total = 0 THEN "bootstrap"
                  ELSE IF NetboxOnDisk = lastNetboxZones THEN "guarded"
                  ELSE grounds
    /\ fetched' = {}
    /\ pc' = "merging"
    /\ UNCHANGED <<netboxVars, buckets, fileVars, cycle, fetchErr, cooling,
                   readVars, statusVars, netboxSignal, mergeSignal, webhookPollSignal,
                   arming, writers, pushVars, crashes>>

-----------------------------------------------------------------------------
(* guardedMergeAndWrite, the push, and the end of the cycle *)

\* What a merge of the store as it is now would publish.
MergedNow == Merged(lastNetboxZones, Dynamic(store), buckets)

\* What the merge under way publishes.
ToPublish == Merged(lastNetboxZones, view, listed)

GateOpen == MergeAllowed(fetchSucceededOnce, HasExistingZones(disk, tmp))

\* Every pod is behind once the files change.
BehindAfter(d) == IF d # disk THEN Replica ELSE behind

MergeGated ==
    /\ pc = "merging" /\ ~GateOpen
    /\ EndCycle
    /\ UNCHANGED <<netboxVars, storeVars, fileVars, lastNetboxZones,
                   lastBaseline, fetchSucceededOnce, cooling, readVars, grounds,
                   statusVars, signalVars, pushVars, crashes>>

\* merge.Write lists the store's zones ...
ListZones ==
    /\ pc = "merging" /\ GateOpen
    /\ pc' = "reading"
    /\ listed' = buckets /\ unread' = buckets /\ view' = {}
    /\ UNCHANGED <<netboxVars, storeVars, fileVars, cycle, fetched, fetchErr,
                   lastNetboxZones, lastBaseline, fetchSucceededOnce, cooling,
                   grounds, statusVars, signalVars, pushVars, crashes>>

\* ... and reads them one after the other, in any order; handlers write between.
ReadZone(z) ==
    /\ pc = "reading" /\ z \in unread
    /\ unread' = unread \ {z}
    /\ view' = view \cup InZone(z, Dynamic(store))
    /\ UNCHANGED <<netboxVars, storeVars, fileVars, pc, cycle, fetched, fetchErr,
                   lastNetboxZones, lastBaseline, fetchSucceededOnce, cooling,
                   listed, grounds, statusVars, signalVars, pushVars, crashes>>

\* All of it has been read, and Update begins.
StoreRead == pc = "reading" /\ unread = {}

EndRead == listed' = {} /\ unread' = {} /\ view' = {}

\* Update succeeds.  A change is pushed to every address; a ticker cycle
\* without one still pushes to the addresses that are owed a push (Reconcile).
MergeWrites ==
    /\ StoreRead
    /\ disk' = UpdatedDisk(ToPublish)
    /\ tmp' = {}
    /\ generators' = ToPublish
    /\ behind' = BehindAfter(disk')
    /\ healthy' = ReadyAfterMerge(cycle, healthy)
    /\ staleGauge' = StaleAfterMerge(cycle, fetchErr, staleGauge)
    /\ dirty' = IF UpdateChanged(ToPublish) THEN Replica ELSE dirty
    /\ IF UpdateChanged(ToPublish) \/ cycle = "ticker"
       THEN pc' = "pushing" /\ UNCHANGED <<cycle, fetched, fetchErr>>
       ELSE EndCycle
    /\ EndRead
    /\ UNCHANGED <<netboxVars, storeVars, lastNetboxZones, lastBaseline,
                   fetchSucceededOnce, cooling, grounds, signalVars, crashes>>

\* One zone file cannot be written: Update returns at once.
MergeFails ==
    /\ StoreRead /\ WriteMayFail
    /\ \E f \in ToWrite(ToPublish) :
         /\ \E u \in InterruptedWrites(ToPublish, f) :
              disk' = u.disk /\ tmp' = u.tmp
         /\ generators' = FailedGenerators(ToPublish, f)
    /\ behind' = BehindAfter(disk')
    /\ EndCycle /\ EndRead
    /\ UNCHANGED <<netboxVars, storeVars, lastNetboxZones, lastBaseline,
                   fetchSucceededOnce, cooling, grounds, statusVars, signalVars,
                   dirty, crashes>>

\* pushDirty returns when every address has answered or exhausted its retries.
\* A pod's Reload fetches the files back through the sidecar's Service, which
\* has no endpoint while the sidecar is not ready.
Push ==
    /\ pc = "pushing"
    /\ \E loaded \in SUBSET dirty :
         /\ loaded # {} => healthy
         /\ dirty' = dirty \ loaded
         /\ behind' = behind \ loaded
    /\ EndCycle
    /\ UNCHANGED <<netboxVars, storeVars, fileVars, lastNetboxZones,
                   lastBaseline, fetchSucceededOnce, cooling, readVars, grounds,
                   statusVars, signalVars, crashes>>

-----------------------------------------------------------------------------
(* The handlers *)

Up == pc # "down"

loopUnchanged == UNCHANGED <<netboxVars, fileVars, loopVars, statusVars,
                             pushVars, crashes>>

\* ForceNetboxPoll(allow_shrink=true): Arm, then the send.
ArmConsent ==
    /\ Up /\ AllowShrink /\ arming < MaxHandlers
    /\ armed' = TRUE
    /\ arming' = arming + 1
    /\ loopUnchanged
    /\ UNCHANGED <<storeVars, netboxSignal, mergeSignal, webhookPollSignal,
                   writers>>

SendArmedPoll ==
    /\ Up /\ arming > 0
    /\ arming' = arming - 1
    /\ netboxSignal' = TRUE
    /\ loopUnchanged
    /\ UNCHANGED <<storeVars, armed, mergeSignal, webhookPollSignal, writers>>

ForceNetboxPoll ==
    /\ Up /\ "poll" \in Calls
    /\ netboxSignal' = TRUE
    /\ loopUnchanged
    /\ UNCHANGED <<storeVars, armed, mergeSignal, webhookPollSignal, arming,
                   writers>>

ForceMergeWrite ==
    /\ Up /\ "merge" \in Calls
    /\ mergeSignal' = TRUE
    /\ loopUnchanged
    /\ UNCHANGED <<storeVars, armed, netboxSignal, webhookPollSignal, arming,
                   writers>>

\* A webhook event without a dns_name.
HookTriggersPoll ==
    /\ Up /\ "hook" \in Calls
    /\ webhookPollSignal' = TRUE
    /\ loopUnchanged
    /\ UNCHANGED <<storeVars, armed, netboxSignal, mergeSignal, arming, writers>>

\* A handler has written the store and will signal next.
HandlerWrote ==
    /\ Up /\ writers < MaxHandlers
    /\ writers' = writers + 1
    /\ loopUnchanged
    /\ UNCHANGED <<armed, netboxSignal, mergeSignal, webhookPollSignal, arming>>

PutRecord(n, how) ==
    /\ store' = [store EXCEPT ![n] = how]
    /\ buckets' = buckets \cup {ZoneOf[n]}
    /\ HandlerWrote

\* UpsertRecord and BatchUpsert.  The conflict check only ever rejects a call
\* without force; what it lets through is this write.
UpsertRecord(n) == PutRecord(n, "manual")

\* DeleteRecord and BatchDelete; deleteByNames leaves the zone an entry, and
\* makes one where there was none.
DeleteRecord(n) == PutRecord(n, "absent")

CreateZone(z) ==
    /\ buckets' = buckets \cup {z}
    /\ UNCHANGED store
    /\ HandlerWrote

DeleteZone(z) ==
    /\ buckets' = buckets \ {z}
    /\ store' = [n \in Name |-> IF ZoneOf[n] = z THEN "absent" ELSE store[n]]
    /\ HandlerWrote

\* upsertGuarded: a manual record is never replaced, nor a newer event's.
HookUpsert(n, age) ==
    /\ store[n] # "manual"
    /\ ~(store[n] = "new" /\ age = "old")
    /\ PutRecord(n, age)

\* applyDelete, removeUnpublished and a rename's old name.
HookDelete(n) ==
    /\ store[n] # "manual"
    /\ PutRecord(n, "absent")

SendMerge ==
    /\ Up /\ writers > 0
    /\ writers' = writers - 1
    /\ mergeSignal' = TRUE
    /\ loopUnchanged
    /\ UNCHANGED <<storeVars, armed, netboxSignal, webhookPollSignal, arming>>

-----------------------------------------------------------------------------
(* The environment *)

NetboxChanges ==
    /\ netbox' \in NetboxContents \ {netbox}
    /\ UNCHANGED <<reachable, storeVars, fileVars, loopVars, statusVars,
                   signalVars, pushVars, crashes>>

NetboxOutage ==
    /\ FetchMayFail
    /\ reachable' = ~reachable
    /\ UNCHANGED <<netbox, storeVars, fileVars, loopVars, statusVars,
                   signalVars, pushVars, crashes>>

\* Time passes since the last webhook-triggered poll (webhookPollAllowed).
CooldownPasses ==
    /\ cooling
    /\ cooling' = FALSE
    /\ UNCHANGED <<netboxVars, storeVars, fileVars, pc, cycle, fetched, fetchErr,
                   lastNetboxZones, lastBaseline, fetchSucceededOnce, readVars,
                   grounds, statusVars, signalVars, pushVars, crashes>>

\* CoreDNS's own fallback poll.
PodPolls(r) ==
    /\ Up /\ healthy /\ r \in behind
    /\ behind' = behind \ {r}
    /\ UNCHANGED <<netboxVars, storeVars, fileVars, loopVars, statusVars,
                   signalVars, dirty, crashes>>

\* The process ends, by a signal or a crash, at any step: only what is on the
\* volume survives, and a merge may have got halfway.
Crash ==
    /\ Up /\ crashes < MaxCrashes
    /\ crashes' = crashes + 1
    /\ pc' = "down"
    /\ \/ UNCHANGED <<disk, tmp>>
       \/ /\ StoreRead
          /\ \E u \in InterruptedUpdates(ToPublish) :
               disk' = u.disk /\ tmp' = u.tmp
    /\ behind' = BehindAfter(disk')
    /\ cycle' = "none" /\ fetched' = {} /\ fetchErr' = FALSE
    /\ lastNetboxZones' = {} /\ lastBaseline' = NoBaseline
    /\ fetchSucceededOnce' = FALSE /\ cooling' = FALSE /\ grounds' = "none"
    /\ EndRead
    /\ generators' = NoGenerators
    /\ staleGauge' = FALSE /\ healthy' = FALSE
    /\ armed' = FALSE /\ netboxSignal' = FALSE /\ mergeSignal' = FALSE
    /\ webhookPollSignal' = FALSE /\ arming' = 0 /\ writers' = 0
    /\ dirty' = {}
    /\ UNCHANGED <<netboxVars, storeVars>>

Loop == \/ Start
        \/ TickerFires \/ TakeNetboxSignal \/ TakeWebhookPollSignal
        \/ TakeMergeSignal
        \/ FetchFails \/ FetchReads
        \/ RefuseEmpty \/ DiscoverFails \/ RefuseShrink \/ AcceptPoll
        \/ MergeGated \/ ListZones \/ (\E z \in unread : ReadZone(z))
        \/ MergeWrites \/ MergeFails
        \/ Push

Handlers ==
    \/ ArmConsent \/ SendArmedPoll \/ ForceNetboxPoll \/ ForceMergeWrite
    \/ HookTriggersPoll \/ SendMerge
    \/ \E n \in DynName :
         \/ UpsertRecord(n) \/ DeleteRecord(n) \/ HookDelete(n)
         \/ \E age \in {"old", "new"} : HookUpsert(n, age)
    \/ \E z \in DynZone : CreateZone(z) \/ DeleteZone(z)

Environment ==
    \/ NetboxChanges \/ NetboxOutage \/ CooldownPasses \/ Crash
    \/ \E r \in Replica : PodPolls(r)

Next == Loop \/ Handlers \/ Environment

\* The loop never stops between two steps of a cycle, and the process is
\* restarted.  select picks at random among the ready cases, so a case that is
\* ready again and again is taken.  A volume that refuses writes takes one now
\* and again: of ticker cycles without end, not every write fails.
Fairness ==
    /\ WF_vars(Start \/ FetchFails \/ FetchReads \/ RefuseEmpty \/ RefuseShrink
               \/ AcceptPoll \/ MergeGated \/ ListZones
               \/ (\E z \in unread : ReadZone(z)) \/ MergeWrites \/ Push)
    /\ SF_vars(TickerFires)
    /\ SF_vars(MergeWrites /\ cycle = "ticker")
    /\ SF_vars(TakeNetboxSignal)
    /\ SF_vars(TakeMergeSignal)

Spec == Init /\ [][Next]_vars /\ Fairness

-----------------------------------------------------------------------------
(* Properties *)

StoreState == {"absent", "manual", "old", "new"}

\* Every variable keeps its type, in every state of the process.
TypeOK ==
    /\ netbox \in NetboxContents /\ reachable \in BOOLEAN
    /\ store \in [Name -> StoreState] /\ buckets \subseteq Zone
    /\ disk \in [Zone -> Content \cup {Missing}] /\ tmp \subseteq Zone
    /\ generators \in [Zone -> Content \cup {Missing}]
    /\ pc \in {"down", "idle", "fetching", "read", "merging", "reading", "pushing"}
    /\ cycle \in Cycle \cup {"none"}
    /\ fetched \subseteq Name /\ fetchErr \in BOOLEAN
    /\ lastNetboxZones \subseteq Name /\ lastBaseline \in Baseline
    /\ {fetchSucceededOnce, cooling, staleGauge, healthy} \subseteq BOOLEAN
    /\ {armed, netboxSignal, mergeSignal, webhookPollSignal} \subseteq BOOLEAN
    /\ {arming, writers} \subseteq 0..MaxHandlers
    /\ listed \subseteq Zone /\ unread \subseteq listed /\ view \subseteq Name
    /\ pc # "reading" => listed = {} /\ view = {}
    /\ dirty \subseteq Replica /\ behind \subseteq Replica
    /\ grounds \in {"none", "bootstrap", "guarded", "override"}
    /\ crashes \in 0..MaxCrashes

\* An operator's consent never waits with no poll asked for or under way, so it
\* cannot lie about for a change to come (control_service's Arm-before-signal,
\* fetchNetbox's ConsumeIfArmed).  Fails when a poll ends before its evaluation.
\* Which poll spends the consent it does not say: one that was under way when the
\* consent was given may.
ConsentNotWaiting ==
    armed => arming > 0 \/ netboxSignal \/ pc \in {"fetching", "read"}

\* Losing more is never safer: no part of a record set the guard refuses would
\* have passed (Evaluate's rules together, against the baseline of this poll).
RefusalMonotone ==
    (pc = "read" /\ Verdict.refuse)
        => \A S \in SUBSET fetched : Evaluate(lastBaseline, CountsOf(S)).refuse

\* The files on disk never go from one NetBox record set to another that the
\* shrink guard refuses, unless an operator consented or the process had no
\* baseline yet (fetchNetbox, refuseShrink).  States the guard's promise on the
\* files, over as many refused polls as there are between two merges.  Dynamic
\* records are left out: they may shadow any number of NetBox records.
ShrinkNeedsConsent ==
    [][(pc' # "down" /\ grounds = "guarded")
         => ~Evaluate(CountsOf(NetboxOnDisk), CountsOf(NetboxOnDisk')).refuse]_disk

\* Files that serve NetBox records are never replaced by files that serve
\* nothing: not by an empty or unroutable NetBox result, not across a restart,
\* not by a merge that is killed halfway (EmptyResult, the G4 gate, Update's
\* writes before its removals).  A crash is left out when the merge has found a
\* zone entry in the store: an empty one can make Update write an empty file first.
ServedNeverEmptied ==
    [][(NetboxOnDisk # {} /\ (Up' \/ listed = {})) => FilesOf(disk') # {}]_disk

\* Until this process has fetched from NetBox, every zone file it found or
\* wrote stays as it is (mergeAllowed, G4).
CacheSurvivesUntilFetch ==
    [][~fetchSucceededOnce
         => \A z \in Zone : disk[z] # Missing => disk'[z] = disk[z]]_disk

\* When the loop is idle and no handler still owes it a merge signal, the files
\* are exactly the merge of the last NetBox zones with the store: no dynamic
\* write is lost between two signals that coalesce, and nothing a restart or a
\* reconciliation dropped stays published.
QuiescentDisk ==
    (pc = "idle" /\ ~mergeSignal /\ writers = 0 /\ GateOpen) => disk = MergedNow

\* A pod that has not loaded the files on disk is owed a push whenever the loop
\* is idle, so the next ticker cycle's Reconcile reaches it (Reloader.dirty).
\* Only a restart forgets who is owed one: a new process that finds the files
\* already written pushes nothing, and the pods are left to their own poll.
PushOwed == (pc = "idle" /\ crashes = 0) => behind \subseteq dirty

\* The reload is pushed only once the sidecar is ready, because the pods fetch
\* the files back through its Service (run's "ready before push").
PushOnlyWhenReady == pc = "pushing" => healthy

\* A merge that reports success leaves the files it merged (Manager.Update).
SuccessfulMergePublishes == [][MergeWrites => disk' = ToPublish]_vars

\* A sidecar with zone files becomes ready even if NetBox never answers (G13).
ReadyOffCache == (Up /\ HasZoneFile(disk)) ~> (healthy \/ ~Up)

\* If NetBox stays unreachable the staleness gauge climbs and stays up, however
\* many merges of the old data succeed meanwhile (G6).
StalenessAlarm == (<>[]~reachable /\ <>[]Up) => <>[]staleGauge

Refuses(S) == \/ EmptyResult(lastBaseline, Cardinality(S)).refuse
              \/ Evaluate(lastBaseline, CountsOf(S)).refuse

\* Once NetBox stays reachable and unchanged, its records end up on disk for
\* good, or the guard is refusing them, or a write that failed has left a
\* generator that claims what its file does not hold (see write_not_retried).
Converges ==
    \A S \in NetboxContents :
        <>[](Up /\ reachable /\ netbox = S)
            => <>[](\/ NetboxOnDisk = Routed(S)
                    \/ Refuses(S)
                    \/ \E z \in Zone : generators[z] \notin {Missing, disk[z]})
=============================================================================
