------------------------------ MODULE Webhook ------------------------------
(***************************************************************************)
(* The dynamic record store and its three writers: webhook handlers        *)
(* (internal/netboxwebhook), gRPC calls (internal/grpcserver) and the poll *)
(* loop's reconciliation (internal/dynamicstore's                          *)
(* ReconcileWebhookSourced).  Sidecar.tla has the poll loop in full and    *)
(* one handler step per write; this module has one step per store call of  *)
(* a handler, NetBox's events with their timestamps, and what is on disk.  *)
(*                                                                         *)
(* A handler holds a mutex while it applies an event, but only handlers    *)
(* do: gRPC calls and the poll loop come between its read of the store and *)
(* its write.  Likewise the merge reads the store zone by zone, each under *)
(* the store's own lock, and all of them write in between.  Events are     *)
(* delivered in any order, more than once, or never.                       *)
(*                                                                         *)
(* Time is the number of changes NetBox has seen.  An event is stamped     *)
(* with its own change; a fetch that starts now lies after every change so *)
(* far.  NetBox's clock and the sidecar's are taken to agree.              *)
(***************************************************************************)
EXTENDS Integers, Sequences

CONSTANTS
    Name,           \* DNS names
    RoutedName,     \* those that map to a zone
    Zone,           \* the store's zones
    ZoneOf,         \* zoneFor: the zone of a routed name
    Object,         \* NetBox IP addresses
    Handler,        \* webhook requests in flight at once
    NoName,         \* an address without dns_name
    AddressState,   \* the states an address may be in: see States
    InitialState,   \* those it may start in
    GrpcName,       \* the names gRPC calls write
    PersistMayFail, \* writing dynamic.json may fail
    MaxChanges,     \* bound: changes in NetBox
    MaxGrpc,        \* bound: gRPC writes
    MaxCrashes      \* bound: restarts

\* An address in NetBox: published, outside PublishStatuses, or deleted.
Gone   == [status |-> "gone", name |-> NoName]
States == [status : {"published", "reserved"}, name : Name \cup {NoName}]
              \cup {Gone}

ASSUME WebhookAssumption ==
    /\ AddressState \subseteq States /\ InitialState \subseteq AddressState
    /\ RoutedName \subseteq Name /\ GrpcName \subseteq RoutedName
    /\ ZoneOf \in [RoutedName -> Zone]
    /\ NoName \notin Name
    /\ PersistMayFail \in BOOLEAN
    /\ {MaxChanges, MaxGrpc, MaxCrashes} \subseteq Nat

VARIABLES
    netbox,      \* per address: its dns_name and status, or gone
    changes,     \* the clock
    events,      \* webhook deliveries that may still arrive
    store,       \* FileStore.data
    file,        \* dynamic.json
    request,     \* per handler: the request it serves
    mergeSignal,
    pc,          \* the poll loop: idle, fetching, read or merging
    cutoff,      \* fetchStart of the poll under way
    fetched,     \* what that poll has read
    lastNetbox,  \* lastNetboxZones: per name, its addresses
    gate,        \* fetchSucceededOnce
    unread,      \* the zones the merge under way has still to read
    view,        \* what it has read: per name, its record
    published,   \* the zone files: per name, what it resolves to
    grpcs, crashes,
    \* history
    readAt,      \* the clock when fetched was read
    lastReadAt   \* the clock when lastNetbox was read

netboxVars  == <<netbox, changes>>
mergeVars   == <<unread, view>>
pollVars    == <<pc, cutoff, fetched, lastNetbox, gate, readAt, lastReadAt,
                 mergeVars>>
historyVars == <<grpcs, crashes>>

vars == <<netboxVars, events, store, file, request, mergeSignal, pollVars,
          published, historyVars>>

-----------------------------------------------------------------------------
(* NetBox and its events *)

Publishes(nb, o, n) == nb[o].status = "published" /\ nb[o].name = n

\* fetchNetbox: the names and their addresses.
Addresses(nb) ==
    [n \in Name |-> {o \in Object : n \in RoutedName /\ Publishes(nb, o, n)}]

\* The delivery of a change of o from old to new.  prechange is null when the
\* address was created; data is null when it was deleted.
Event(o, old, new, at) ==
    [object |-> o, at |-> at, status |-> new.status, name |-> new.name,
     prechange |-> old.name]

\* A store call for a name; a name without a zone is passed over (zoneFor).
Call(op, n) == IF n \in RoutedName THEN <<[op |-> op, name |-> n]>> ELSE <<>>

Delete(n) == Call("delete", n)
Upsert(n) == Call("upsert", n)

\* apply: the store calls an event makes, in order.  An event whose address has
\* no dns_name makes none.
Operations(e) ==
    LET renamed == e.prechange # e.name /\ e.prechange # NoName
        old     == IF renamed THEN Delete(e.prechange) ELSE <<>>
    IN CASE e.status = "gone"                            -> Delete(e.prechange)
         [] e.status # "gone" /\ e.name = NoName         -> <<>>
         [] e.status = "reserved" /\ e.name # NoName     -> Delete(e.name) \o old
         [] e.status = "published" /\ e.name # NoName    -> old \o Upsert(e.name)

-----------------------------------------------------------------------------
(* The store *)

Absent     == [source |-> "none"]
Manual     == [source |-> "manual"]

\* Faulty variant: recordFromPayload forgets the event's timestamp.
HookUnstamped(o, t) == [source |-> "webhook", object |-> o, at |-> 0]

Hook(o, t) == [source |-> "webhook", object |-> o, at |-> t]

IsHook(rec) == rec.source = "webhook"

\* A mutation changes the memory first; when persist fails it stays changed.
Mutate(new) ==
    /\ store' = new
    /\ file' \in {new} \cup (IF PersistMayFail THEN {file} ELSE {})

PersistOK == file' = store'

\* Faulty variants: nothing is dropped; the cutoff is taken when the fetch is
\* done.
ReconciledNever(st) == st
ReconciledLate(st) ==
    [n \in Name |-> IF IsHook(st[n]) /\ st[n].at <= changes THEN Absent ELSE st[n]]

\* ReconcileWebhookSourced(fetchStart): drop what was applied before.
Reconciled(st) ==
    [n \in Name |-> IF IsHook(st[n]) /\ st[n].at <= cutoff THEN Absent ELSE st[n]]

\* A dynamic record shadows every NetBox record of its name.
Merged(nb, st) ==
    [n \in Name |-> CASE st[n] = Manual   -> {"manual"}
                      [] IsHook(st[n])    -> {st[n].object}
                      [] st[n] = Absent   -> nb[n]]

-----------------------------------------------------------------------------
Idle    == [step |-> "idle"]
Nothing == [n \in Name |-> {}]
NoView  == [n \in Name |-> Absent]

\* GetRecords: the store's records of the zone z, over what was read before.
Seen(z) ==
    [n \in Name |-> IF n \in RoutedName /\ ZoneOf[n] = z THEN store[n] ELSE view[n]]

Locked == \E h \in Handler : request[h].step \in {"check", "write"}

\* Faulty variant: no mutex.
MayApplyAnyTime == TRUE

\* handler.mu
MayApply == ~Locked

\* Faulty variant: only the last store call decides whether to signal.
SignalsIfLast(r, applied) == applied

\* outcomeApplied: some store call of the event has written.
Signals(r, applied) == r.mutated \/ applied

\* A store call of r is done, or was skipped; the next one, or the outcome.
Advance(h, applied) ==
    LET r == request[h] IN
    request' = [request EXCEPT ![h] =
        IF Tail(r.ops) # <<>>
        THEN [r EXCEPT !.step = "check", !.ops = Tail(r.ops),
                       !.mutated = r.mutated \/ applied]
        ELSE IF Signals(r, applied) THEN [step |-> "signal"] ELSE Idle]

Init ==
    /\ netbox \in [Object -> InitialState] /\ changes = 0
    /\ events = {}
    /\ store = [n \in Name |-> Absent] /\ file = store
    /\ request = [h \in Handler |-> Idle]
    /\ mergeSignal = FALSE
    /\ pc = "idle" /\ cutoff = 0 /\ fetched = Nothing
    /\ lastNetbox = Addresses(netbox) /\ gate = TRUE
    /\ unread = Zone /\ view = NoView
    /\ published = lastNetbox
    /\ grpcs = 0 /\ crashes = 0
    /\ readAt = 0 /\ lastReadAt = 0

-----------------------------------------------------------------------------
(* NetBox *)

\* Also an edit that leaves dns_name and status alone: NetBox reports it too.
NetboxChanges(o) ==
    /\ changes < MaxChanges
    /\ changes' = changes + 1
    /\ \E new \in AddressState :
         /\ {netbox[o], new} # {Gone}
         /\ netbox' = [netbox EXCEPT ![o] = new]
         /\ events' = events \cup {Event(o, netbox[o], new, changes')}
    /\ UNCHANGED <<store, file, request, mergeSignal, pollVars, published,
                   historyVars>>

-----------------------------------------------------------------------------
(* ServeHTTP and apply *)

\* A delivery arrives and takes the mutex.  An event without store calls is
\* answered at once: the poll it asks for may come at any time here.
Receive(h, e) ==
    /\ e \in events /\ Operations(e) # <<>>
    /\ request[h] = Idle /\ MayApply
    /\ request' = [request EXCEPT ![h] =
                     [step |-> "check", ops |-> Operations(e), mutated |-> FALSE,
                      object |-> e.object, at |-> e.at]]
    /\ UNCHANGED <<netboxVars, events, store, file, mergeSignal, pollVars,
                   published, historyVars>>

\* isManuallyPinned, or upsertGuarded's own look at the store.
Skips(r) ==
    LET existing == store[Head(r.ops).name] IN
    \/ existing = Manual
    \/ Head(r.ops).op = "upsert" /\ IsHook(existing) /\ r.at <= existing.at

Check(h) ==
    /\ request[h].step = "check"
    /\ IF Skips(request[h]) THEN Advance(h, FALSE)
       ELSE request' = [request EXCEPT ![h].step = "write"]
    /\ UNCHANGED <<netboxVars, events, store, file, mergeSignal, pollVars,
                   published, historyVars>>

\* DeleteRecords or UpsertRecords.  When it fails ServeHTTP answers 500 and
\* signals nothing, whatever was written before.
Write(h) ==
    LET r == request[h]
        n == Head(r.ops).name IN
    /\ r.step = "write"
    /\ IF Head(r.ops).op = "delete"
       THEN Mutate([store EXCEPT ![n] = Absent])
       ELSE Mutate([store EXCEPT ![n] = Hook(r.object, r.at)])
    /\ IF PersistOK THEN Advance(h, TRUE)
       ELSE request' = [request EXCEPT ![h] = Idle]
    /\ UNCHANGED <<netboxVars, events, mergeSignal, pollVars, published,
                   historyVars>>

SendMerge(h) ==
    /\ request[h].step = "signal"
    /\ request' = [request EXCEPT ![h] = Idle]
    /\ mergeSignal' = TRUE
    /\ UNCHANGED <<netboxVars, events, store, file, pollVars, published,
                   historyVars>>

\* UpsertRecord and DeleteRecord; a call that cannot persist does not signal.
Grpc(n, rec) ==
    /\ grpcs < MaxGrpc
    /\ grpcs' = grpcs + 1
    /\ Mutate([store EXCEPT ![n] = rec])
    /\ mergeSignal' = (mergeSignal \/ PersistOK)
    /\ UNCHANGED <<netboxVars, events, request, pollVars, published, crashes>>

-----------------------------------------------------------------------------
(* The poll loop *)

BeginFetch ==
    /\ pc = "idle"
    /\ pc' = "fetching" /\ cutoff' = changes
    /\ UNCHANGED <<netboxVars, events, store, file, request, mergeSignal, fetched,
                   lastNetbox, gate, readAt, lastReadAt, mergeVars, published,
                   historyVars>>

FetchReads ==
    /\ pc = "fetching"
    /\ pc' = "read" /\ fetched' = Addresses(netbox) /\ readAt' = changes
    /\ UNCHANGED <<netboxVars, events, store, file, request, mergeSignal, cutoff,
                   lastNetbox, gate, lastReadAt, mergeVars, published, historyVars>>

\* The poll is over; its own variables go out of scope.
EndPoll == pc' = "merging" /\ fetched' = Nothing /\ cutoff' = 0 /\ readAt' = 0

FetchFails ==
    /\ pc = "fetching"
    /\ EndPoll
    /\ UNCHANGED <<netboxVars, events, store, file, request, mergeSignal,
                   lastNetbox, gate, lastReadAt, mergeVars, published, historyVars>>

\* A reconciliation that cannot persist is logged and the poll goes on.
AcceptPoll ==
    /\ pc = "read"
    /\ EndPoll
    /\ lastNetbox' = fetched /\ lastReadAt' = readAt /\ gate' = TRUE
    /\ IF Reconciled(store) = store THEN UNCHANGED <<store, file>>
       ELSE Mutate(Reconciled(store))
   
    /\ UNCHANGED <<netboxVars, events, request, mergeSignal, mergeVars, published,
                   historyVars>>

TakeMergeSignal ==
    /\ pc = "idle" /\ mergeSignal
    /\ pc' = "merging" /\ mergeSignal' = FALSE
    /\ UNCHANGED <<netboxVars, events, store, file, request, cutoff, fetched,
                   lastNetbox, gate, readAt, lastReadAt, mergeVars, published,
                   historyVars>>

\* No merge before the first poll has succeeded.
MergeGated ==
    /\ pc = "merging" /\ ~gate
    /\ pc' = "idle"
    /\ UNCHANGED <<netboxVars, events, store, file, request, mergeSignal, cutoff,
                   fetched, lastNetbox, gate, readAt, lastReadAt, mergeVars,
                   published, historyVars>>

\* merge.Write reads the store one zone after the other, in any order.  A zone
\* that ListZones did not find had no records then: it was read first.
ReadZone(z) ==
    /\ pc = "merging" /\ gate /\ z \in unread
    /\ unread' = unread \ {z} /\ view' = Seen(z)
    /\ UNCHANGED <<netboxVars, events, store, file, request, mergeSignal, pc,
                   cutoff, fetched, lastNetbox, gate, readAt, lastReadAt,
                   published, historyVars>>

\* The read is over; what was read goes out of scope.
EndRead == unread' = Zone /\ view' = NoView

\* merge.Write: what it has read goes to the zone files.
Merge ==
    /\ pc = "merging" /\ gate /\ unread = {}
    /\ pc' = "idle"
    /\ published' = Merged(lastNetbox, view)
    /\ EndRead
    /\ UNCHANGED <<netboxVars, events, store, file, request, mergeSignal, cutoff,
                   fetched, lastNetbox, gate, readAt, lastReadAt, historyVars>>

\* The process restarts with dynamic.json and the zone files, and polls.
Restart ==
    /\ crashes < MaxCrashes
    /\ crashes' = crashes + 1
    /\ store' = file
    /\ request' = [h \in Handler |-> Idle]
    /\ mergeSignal' = FALSE /\ gate' = FALSE
    /\ pc' = "fetching" /\ cutoff' = changes
    /\ fetched' = Nothing /\ readAt' = 0
    /\ lastNetbox' = Nothing /\ lastReadAt' = 0
    /\ EndRead
    /\ UNCHANGED <<netboxVars, events, file, published, grpcs>>

PollLoop == \/ BeginFetch \/ FetchReads \/ FetchFails \/ AcceptPoll
            \/ TakeMergeSignal \/ MergeGated \/ Merge \/ \E z \in Zone : ReadZone(z)

Next ==
    \/ \E o \in Object : NetboxChanges(o)
    \/ \E h \in Handler : \/ \E e \in events : Receive(h, e)
                          \/ Check(h) \/ Write(h) \/ SendMerge(h)
    \/ \E n \in GrpcName : Grpc(n, Manual) \/ Grpc(n, Absent)
    \/ PollLoop \/ Restart

\* The loop does not stop, and NetBox answers now and again.  Nothing is assumed of
\* the handlers: Settles speaks of the time after the last one is done.
Fairness ==
    /\ WF_vars(\/ BeginFetch \/ FetchReads \/ AcceptPoll
               \/ MergeGated \/ Merge \/ \E z \in Zone : ReadZone(z))
    /\ SF_vars(FetchReads)

Spec == Init /\ [][Next]_vars /\ Fairness

-----------------------------------------------------------------------------
(* Properties *)

Record == {Absent, Manual}
    \cup [source : {"webhook"}, object : Object, at : 1..MaxChanges]

\* The store holds records of the three kinds only, in memory and on disk, and
\* the poll loop's variables keep their types.
TypeOK ==
    /\ netbox \in [Object -> AddressState] /\ changes \in 0..MaxChanges
    /\ store \in [Name -> Record] /\ file \in [Name -> Record]
    /\ mergeSignal \in BOOLEAN /\ gate \in BOOLEAN
    /\ pc \in {"idle", "fetching", "read", "merging"}
    /\ cutoff \in 0..changes /\ readAt \in 0..changes /\ lastReadAt \in 0..changes
    /\ {fetched, lastNetbox} \subseteq [Name -> SUBSET Object]
    /\ unread \subseteq Zone /\ view \in [Name -> Record]
    /\ published \in [Name -> SUBSET (Object \cup {"manual"})]

\* A webhook record is never replaced by one of an older event, however the
\* deliveries overlap and whenever the process restarts (handler.mu around
\* read and write; persist before the answer).
NewestWins ==
    [][\A n \in Name : (IsHook(store[n]) /\ IsHook(store'[n]))
                          => store'[n].at >= store[n].at]_store

\* How recent what a name resolves to is, once merged.
Version(n) == IF IsHook(store[n]) THEN store[n].at ELSE lastReadAt

\* A poll never takes a name back behind an event that was already applied:
\* what reconciliation drops, the fetched records contain (fetchStart is taken
\* before the fetch; ReconcileWebhookSourced).
\* OverlaySpec implies it.
PollNeverGoesBack ==
    [][AcceptPoll => \A n \in Name : store[n] # Manual
                                       => Version(n)' >= Version(n)]_vars

\* A handler that has written and not yet signalled.
Owes(h) == \/ request[h].step = "signal"
           \/ request[h].step \in {"check", "write"} /\ request[h].mutated

\* When the loop is idle and nobody owes it a signal, the zone files are the
\* merge of the last NetBox records with the store: also after a rename that
\* did only half of its work (apply's mutated).
PublishOwed ==
    (pc = "idle" /\ ~mergeSignal /\ gate /\ \A h \in Handler : ~Owes(h))
        => published = Merged(lastNetbox, store)

\* A handler that has written never ends without the signal (applyUpsert:
\* mergeSignal must fire whenever a real write happened).
MutationIsSignalled ==
    [][\A h \in Handler :
         (Owes(h) /\ request'[h] = Idle /\ crashes' = crashes) => mergeSignal']_request

Accurate == \A n \in Name : store[n] # Manual => published[n] = Addresses(netbox)[n]

\* Lost, late, repeated and reordered deliveries heal: once they stop arriving,
\* every name that is not pinned resolves to what NetBox says (the periodic poll
\* as the backstop).
Settles == <>[](\A h \in Handler : request[h] = Idle) => <>[]Accurate

\* The handlers' separate store calls, the poll loop and the mutexes amount to a
\* store whose writes are atomic, and whose publications are made of zones each
\* read at one moment: it keeps what OverlayPromise says.
Overlay == INSTANCE OverlayPromise
           WITH overlay <- store, kept <- file, seen <- lastNetbox,
                asof <- lastReadAt, known <- gate,
                Clock <- 0..MaxChanges, KeepMayFail <- PersistMayFail

OverlaySpec == Overlay!Spec
=============================================================================
