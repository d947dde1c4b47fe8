--------------------------- MODULE WebhookProofs ---------------------------
(***************************************************************************)
(* What holds of the record store, its handlers and the poll loop for any  *)
(* number of names, addresses, handlers, NetBox changes and restarts, and  *)
(* for every order in which deliveries arrive.                             *)
(***************************************************************************)
EXTENDS Webhook, SequenceTheorems, TLAPS

-----------------------------------------------------------------------------
(* Types *)

StoreCall == [op : {"delete", "upsert"}, name : RoutedName]

\* A handler between the mutex and its answer.
Working == [step : {"check", "write"}, ops : Seq(StoreCall) \ {<<>>},
            mutated : BOOLEAN, object : Object, at : 1..MaxChanges]

Signalling == [step |-> "signal"]

Delivery == [object : Object, at : 1..MaxChanges,
             status : {"published", "reserved", "gone"},
             name : Name \cup {NoName}, prechange : Name \cup {NoName}]

TypeInv ==
    /\ TypeOK
    /\ events \subseteq Delivery
    /\ request \in [Handler -> Working \cup {Idle, Signalling}]

InFlight(h) == request[h].step \in {"check", "write"}

\* A delivery makes store calls for names that have a zone, and no others (apply).
LEMMA OperationsType ==
    ASSUME NEW e \in Delivery
    PROVE  Operations(e) \in Seq(StoreCall)
<1>1. ASSUME NEW n \in Name \cup {NoName}
      PROVE  Delete(n) \in Seq(StoreCall) /\ Upsert(n) \in Seq(StoreCall)
  <2>1. \A c \in StoreCall : <<c>> \in Seq(StoreCall)
    OBVIOUS
  <2>2. <<>> \in Seq(StoreCall)
    OBVIOUS
  <2>3. n \in RoutedName => /\ [op |-> "delete", name |-> n] \in StoreCall
                            /\ [op |-> "upsert", name |-> n] \in StoreCall
    BY DEF StoreCall
  <2> QED
    BY <2>1, <2>2, <2>3 DEF Delete, Upsert, Call
<1>2. <<>> \in Seq(StoreCall)
  OBVIOUS
<1>3. e.name \in Name \cup {NoName} /\ e.prechange \in Name \cup {NoName}
  BY DEF Delivery
<1> DEFINE renamed == e.prechange # e.name /\ e.prechange # NoName
           old     == IF renamed THEN Delete(e.prechange) ELSE <<>>
<1>4. old \in Seq(StoreCall)
  BY <1>1, <1>2, <1>3
<1>5. /\ Delete(e.name) \o old \in Seq(StoreCall)
      /\ old \o Upsert(e.name) \in Seq(StoreCall)
  BY <1>1, <1>3, <1>4, ConcatProperties
<1>6. e.status \in {"published", "reserved", "gone"}
  BY DEF Delivery
<1> HIDE DEF old
<1> QED
  BY <1>1, <1>2, <1>3, <1>5, <1>6 DEF Operations, old

\* The end of a store call moves its own handler only: to the next call, to the
\* signal when something has been written, or else to the end.
LEMMA AdvanceIs ==
    ASSUME TypeInv, NEW h \in Handler, InFlight(h), NEW applied \in BOOLEAN,
           Advance(h, applied)
    PROVE  \E q \in Working \cup {Idle, Signalling} :
              /\ request' = [request EXCEPT ![h] = q]
              /\ q.step # "write"
              /\ q.step = "check"
                   => /\ q.at = request[h].at
                      /\ q.mutated = (request[h].mutated \/ applied)
              /\ (request[h].mutated \/ applied) => q # Idle
<1> DEFINE r == request[h]
<1>1. r \in Working
  BY DEF TypeInv, InFlight, Idle, Signalling
<1>2. r.ops \in Seq(StoreCall) /\ r.ops # <<>> /\ r.mutated \in BOOLEAN
  BY <1>1 DEF Working
<1>3. Tail(r.ops) \in Seq(StoreCall)
  BY <1>2, HeadTailProperties
<1>4. CASE Tail(r.ops) # <<>>
  <2> DEFINE q == [r EXCEPT !.step = "check", !.ops = Tail(r.ops),
                            !.mutated = r.mutated \/ applied]
  <2>1. q \in Working
    BY <1>1, <1>2, <1>3, <1>4 DEF Working
  <2>2. q.step = "check" /\ q.at = r.at /\ q.mutated = (r.mutated \/ applied)
    BY <1>1 DEF Working
  <2>3. request' = [request EXCEPT ![h] = q]
    BY <1>4 DEF Advance
  <2>4. q # Idle
    BY <2>2 DEF Idle
  <2> HIDE DEF q, r
  <2> QED
    BY <2>1, <2>2, <2>3, <2>4 DEF r
<1>5. CASE Tail(r.ops) = <<>>
  <2> DEFINE q == IF Signals(r, applied) THEN Signalling ELSE Idle
  <2>1. request' = [request EXCEPT ![h] = q]
    BY <1>5 DEF Advance, Signalling
  <2>2. q \in {Idle, Signalling} /\ q.step \notin {"check", "write"}
    BY DEF Idle, Signalling
  <2>3. (r.mutated \/ applied) => q # Idle
    BY DEF Signals, Idle, Signalling
  <2> HIDE DEF q, r
  <2> QED
    BY <2>1, <2>2, <2>3 DEF r
<1> QED
  BY <1>4, <1>5

\* A merge gives every name the addresses of one of its sources.
LEMMA MergedType ==
    ASSUME NEW nb \in [Name -> SUBSET Object], NEW st \in [Name -> Record]
    PROVE  Merged(nb, st) \in [Name -> SUBSET (Object \cup {"manual"})]
<1>1. ASSUME NEW n \in Name
      PROVE  (CASE st[n] = Manual   -> {"manual"}
                [] IsHook(st[n])    -> {st[n].object}
                [] st[n] = Absent   -> nb[n]) \in SUBSET (Object \cup {"manual"})
  <2>1. CASE st[n] = Manual
    BY <2>1 DEF Manual, IsHook, Absent
  <2>2. CASE st[n] = Absent
    BY <2>2 DEF Manual, IsHook, Absent
  <2>3. CASE st[n] \in [source : {"webhook"}, object : Object, at : 1..MaxChanges]
    BY <2>3 DEF Manual, IsHook, Absent
  <2> QED
    BY <2>1, <2>2, <2>3 DEF Record
<1> QED
  BY <1>1 DEF Merged

\* Reconciliation drops records and leaves the others as they are.
LEMMA ReconciledType ==
    ASSUME NEW st \in [Name -> Record]
    PROVE  /\ Reconciled(st) \in [Name -> Record]
           /\ \A n \in Name : \/ Reconciled(st)[n] = st[n]
                              \/ /\ Reconciled(st)[n] = Absent
                                 /\ IsHook(st[n]) /\ st[n].at <= cutoff
BY DEF Reconciled, Record

\* What a handler that is at work knows of its request.
LEMMA WorkingType ==
    ASSUME TypeInv, NEW h \in Handler, InFlight(h)
    PROVE  /\ request[h] \in Working
           /\ Head(request[h].ops) \in StoreCall
           /\ Hook(request[h].object, request[h].at) \in Record
           /\ Absent \in Record
<1>1. request[h] \in Working
  BY DEF TypeInv, InFlight, Idle, Signalling
<1>2. request[h].ops \in Seq(StoreCall) /\ request[h].ops # <<>>
  BY <1>1 DEF Working
<1>3. Head(request[h].ops) \in StoreCall
  BY <1>2, HeadTailProperties
<1>4. request[h].object \in Object /\ request[h].at \in 1..MaxChanges
  BY <1>1 DEF Working
<1> QED
  BY <1>1, <1>3, <1>4 DEF Hook, Record

\* A step of the store changes the record of one name, or drops records.
LEMMA WriteIs ==
    ASSUME TypeInv, NEW h \in Handler, Write(h)
    PROVE  LET r == request[h]
               n == Head(r.ops).name IN
           /\ InFlight(h) /\ n \in Name /\ r \in Working
           /\ IF Head(r.ops).op = "upsert"
              THEN store' = [store EXCEPT ![n] = Hook(r.object, r.at)]
              ELSE store' = [store EXCEPT ![n] = Absent]
           /\ store' \in [Name -> Record]
           /\ \/ file' = store'
              \/ PersistMayFail /\ file' = file
           /\ IF file' = store' THEN Advance(h, TRUE)
              ELSE request' = [request EXCEPT ![h] = Idle]
<1>1. InFlight(h)
  BY DEF Write, InFlight
<1>2. /\ request[h] \in Working /\ Head(request[h].ops) \in StoreCall
      /\ Hook(request[h].object, request[h].at) \in Record /\ Absent \in Record
  BY <1>1, WorkingType
<1>3. Head(request[h].ops).name \in Name /\ Head(request[h].ops).op \in {"delete", "upsert"}
  BY <1>2, WebhookAssumption DEF StoreCall
<1> QED
  BY <1>1, <1>2, <1>3 DEF Write, Mutate, PersistOK, TypeInv, TypeOK

LEMMA TypeStep ==
    ASSUME TypeInv, [Next]_vars
    PROVE  TypeInv'
<1> USE DEF TypeInv, TypeOK
<1>1. /\ changes \in Nat /\ MaxChanges \in Nat
      /\ 0 \in 0..changes /\ changes \in 0..changes
  BY WebhookAssumption
<1>2. ASSUME NEW o \in Object, NetboxChanges(o)
      PROVE  TypeInv'
  <2>1. PICK new \in AddressState :
            /\ netbox' = [netbox EXCEPT ![o] = new]
            /\ events' = events \cup {Event(o, netbox[o], new, changes')}
    BY <1>2 DEF NetboxChanges
  <2>2. changes' \in 1..MaxChanges /\ changes' = changes + 1
    BY <1>1, <1>2 DEF NetboxChanges
  <2>3. new \in States /\ netbox[o] \in States
    BY WebhookAssumption
  <2>4. Event(o, netbox[o], new, changes') \in Delivery
    BY <2>2, <2>3 DEF Event, Delivery, States, Gone
  <2>5. /\ cutoff \in 0..changes' /\ readAt \in 0..changes' /\ lastReadAt \in 0..changes'
        /\ changes' \in 0..MaxChanges
    BY <1>1, <2>2
  <2> QED
    BY <1>2, <2>1, <2>4, <2>5 DEF NetboxChanges, pollVars, mergeVars, historyVars
<1>3. ASSUME NEW h \in Handler, NEW e \in events, Receive(h, e)
      PROVE  TypeInv'
  <2>1. e \in Delivery /\ Operations(e) \in Seq(StoreCall) /\ Operations(e) # <<>>
    BY <1>3, OperationsType DEF Receive
  <2>2. [step |-> "check", ops |-> Operations(e), mutated |-> FALSE,
         object |-> e.object, at |-> e.at] \in Working
    BY <2>1 DEF Working, Delivery
  <2> QED
    BY <1>3, <2>2 DEF Receive, netboxVars, pollVars, mergeVars, historyVars
<1>4. ASSUME NEW h \in Handler, Check(h)
      PROVE  TypeInv'
  <2>1. InFlight(h)
    BY <1>4 DEF Check, InFlight
  <2>2. request' \in [Handler -> Working \cup {Idle, Signalling}]
    <3>1. CASE Skips(request[h])
      <4>1. Advance(h, FALSE)
        BY <1>4, <3>1 DEF Check
      <4>2. PICK q \in Working \cup {Idle, Signalling} :
                request' = [request EXCEPT ![h] = q]
        BY <2>1, <4>1, AdvanceIs
      <4> QED
        BY <4>2
    <3>2. CASE ~Skips(request[h])
      <4>1. request' = [request EXCEPT ![h].step = "write"]
        BY <1>4, <3>2 DEF Check
      <4>2. request[h] \in Working
        BY <2>1, WorkingType
      <4>3. [request[h] EXCEPT !.step = "write"] \in Working
        BY <4>2 DEF Working
      <4> QED
        BY <4>1, <4>3
    <3> QED
      BY <3>1, <3>2
  <2> QED
    BY <1>4, <2>2 DEF Check, netboxVars, pollVars, mergeVars, historyVars
<1>5. ASSUME NEW h \in Handler, Write(h)
      PROVE  TypeInv'
  <2>1. InFlight(h) /\ store' \in [Name -> Record] /\ file' \in {store', file}
    BY <1>5, WriteIs
  <2>2. request' \in [Handler -> Working \cup {Idle, Signalling}]
    <3>1. CASE Advance(h, TRUE)
      <4>1. PICK q \in Working \cup {Idle, Signalling} :
                request' = [request EXCEPT ![h] = q]
        BY <2>1, <3>1, AdvanceIs
      <4> QED
        BY <4>1
    <3>2. CASE request' = [request EXCEPT ![h] = Idle]
      BY <3>2
    <3> QED
      BY <1>5, <3>1, <3>2, WriteIs
  <2> QED
    BY <1>5, <2>1, <2>2 DEF Write, netboxVars, pollVars, mergeVars, historyVars
<1>6. ASSUME NEW h \in Handler, SendMerge(h)
      PROVE  TypeInv'
  BY <1>6 DEF SendMerge, netboxVars, pollVars, mergeVars, historyVars
<1>7. ASSUME NEW n \in GrpcName, NEW rec \in {Manual, Absent}, Grpc(n, rec)
      PROVE  TypeInv'
  <2>1. rec \in Record
    BY DEF Record
  <2>2. store' \in [Name -> Record] /\ file' \in {store', file}
    BY <1>7, <2>1 DEF Grpc, Mutate
  <2> QED
    BY <1>7, <2>2 DEF Grpc, PersistOK, netboxVars, pollVars, mergeVars
<1>8. CASE BeginFetch \/ FetchReads \/ FetchFails \/ TakeMergeSignal
  <2>1. Addresses(netbox) \in [Name -> SUBSET Object] /\ Nothing \in [Name -> SUBSET Object]
    BY DEF Addresses, Nothing
  <2>2. CASE BeginFetch
    BY <1>1, <2>2 DEF BeginFetch, netboxVars, mergeVars, historyVars
  <2>3. CASE FetchReads
    BY <1>1, <2>1, <2>3 DEF FetchReads, netboxVars, mergeVars, historyVars
  <2>4. CASE FetchFails
    BY <1>1, <2>1, <2>4 DEF FetchFails, EndPoll, netboxVars, mergeVars, historyVars
  <2>5. CASE TakeMergeSignal
    BY <1>1, <2>5 DEF TakeMergeSignal, netboxVars, mergeVars, historyVars
  <2> QED
    BY <1>8, <2>2, <2>3, <2>4, <2>5
<1>9. CASE AcceptPoll
  <2>1. Reconciled(store) \in [Name -> Record]
    BY ReconciledType
  <2>2. store' \in [Name -> Record] /\ file' \in {store', file}
    BY <1>9, <2>1 DEF AcceptPoll, Mutate
  <2>3. Nothing \in [Name -> SUBSET Object]
    BY DEF Nothing
  <2> QED
    BY <1>1, <1>9, <2>2, <2>3 DEF AcceptPoll, EndPoll, netboxVars, mergeVars, historyVars
<1>10. CASE MergeGated \/ Merge \/ \E z \in Zone : ReadZone(z)
  <2>1. NoView \in [Name -> Record]
    BY DEF NoView, Record
  <2>2. CASE MergeGated
    BY <2>2 DEF MergeGated, netboxVars, mergeVars, historyVars
  <2>3. CASE Merge
    BY <2>1, <2>3, MergedType DEF Merge, EndRead, netboxVars, historyVars
  <2>4. ASSUME NEW z \in Zone, ReadZone(z)
        PROVE  TypeInv'
    <3>1. Seen(z) \in [Name -> Record]
      BY DEF Seen
    <3> QED
      BY <2>4, <3>1 DEF ReadZone, netboxVars, historyVars
  <2> QED
    BY <1>10, <2>2, <2>3, <2>4
<1>11. CASE Restart
  <2>1. Nothing \in [Name -> SUBSET Object]
    BY DEF Nothing
  <2>2. request' \in [Handler -> {Idle}]
    BY <1>11 DEF Restart
  <2>3. NoView \in [Name -> Record]
    BY DEF NoView, Record
  <2> QED
    BY <1>1, <1>11, <2>1, <2>2, <2>3 DEF Restart, EndRead, netboxVars
<1>12. CASE UNCHANGED vars
  BY <1>12 DEF vars, netboxVars, pollVars, mergeVars, historyVars
<1> QED
  BY <1>2, <1>3, <1>4, <1>5, <1>6, <1>7, <1>8, <1>9, <1>10, <1>11, <1>12
  DEF Next, PollLoop

LEMMA InitType ==
    ASSUME Init
    PROVE  TypeInv
<1>1. Addresses(netbox) \in [Name -> SUBSET Object] /\ Nothing \in [Name -> SUBSET Object]
  BY DEF Addresses, Nothing
<1>2. netbox \in [Object -> AddressState] /\ store \in [Name -> Record]
  BY WebhookAssumption DEF Init, Record
<1>3. request \in [Handler -> {Idle}]
  BY DEF Init
<1>4. published \in [Name -> SUBSET (Object \cup {"manual"})]
  BY <1>1 DEF Init
<1>5. changes \in 0..MaxChanges /\ 0 \in 0..changes
  BY WebhookAssumption DEF Init
<1>6. file \in [Name -> Record] /\ {fetched, lastNetbox} \subseteq [Name -> SUBSET Object]
  BY <1>1, <1>2 DEF Init
<1>7. unread \subseteq Zone /\ view \in [Name -> Record]
  BY DEF Init, NoView, Record
<1> QED
  BY <1>1, <1>2, <1>3, <1>4, <1>5, <1>6, <1>7 DEF Init, TypeInv, TypeOK

LEMMA TypeInvariant == Spec => []TypeInv
<1>1. Init => TypeInv
  BY InitType
<1>2. TypeInv /\ [Next]_vars => TypeInv'
  BY TypeStep
<1> QED
  BY <1>1, <1>2, PTL DEF Spec

\* The store, in memory and on disk, the requests and the poll keep their types,
\* for any number of names, addresses, handlers and restarts.
THEOREM TypeCorrect == Spec => []TypeOK
<1>1. TypeInv => TypeOK
  BY DEF TypeInv
<1> QED
  BY <1>1, TypeInvariant, PTL

-----------------------------------------------------------------------------
(* Handlers that overlap *)

\* handler.mu.
OneInFlight ==
    \A h, g \in Handler : (InFlight(h) /\ InFlight(g)) => h = g

\* An upsert that has passed its check is newer than what it will replace: the
\* calls of gRPC and of the poll loop, which come in between, leave no webhook
\* record that was not there before.
NewerThanStore(h) ==
    LET r == request[h]
        n == Head(r.ops).name IN
    (r.step = "write" /\ Head(r.ops).op = "upsert" /\ IsHook(store[n]))
        => store[n].at < r.at

\* What a restart will read.
FileFollowsMemory == PersistMayFail \/ file = store

NewestInv == /\ OneInFlight /\ FileFollowsMemory
             /\ \A h \in Handler : NewerThanStore(h)

\* Only handlers add webhook records.
DropsOnly ==
    \A n \in Name : IsHook(store'[n]) => store'[n] = store[n]

\* The steps other than a handler's own: they leave requests alone.
LEMMA OtherSteps ==
    ASSUME TypeInv, [Next]_vars,
           ~Restart, \A h \in Handler : /\ ~Check(h) /\ ~Write(h) /\ ~SendMerge(h)
                                        /\ \A e \in events : ~Receive(h, e)
    PROVE  /\ UNCHANGED request /\ DropsOnly
           /\ \/ UNCHANGED <<store, file>>
              \/ file' = store'
              \/ PersistMayFail
<1>1. CASE UNCHANGED vars
  BY <1>1 DEF vars, DropsOnly
<1>2. ASSUME NEW o \in Object, NetboxChanges(o)
      PROVE  UNCHANGED <<request, store, file>>
  BY <1>2 DEF NetboxChanges
<1>3. ASSUME NEW n \in GrpcName, NEW rec \in {Manual, Absent}, Grpc(n, rec)
      PROVE  /\ UNCHANGED request /\ DropsOnly
             /\ file' = store' \/ PersistMayFail
  <2>1. ~IsHook(rec)
    BY DEF IsHook, Manual, Absent
  <2>2. store' = [store EXCEPT ![n] = rec] /\ (file' = store' \/ PersistMayFail)
    BY <1>3 DEF Grpc, Mutate
  <2>3. store \in [Name -> Record]
    BY DEF TypeInv, TypeOK
  <2>4. DropsOnly
    BY <2>1, <2>2, <2>3 DEF DropsOnly
  <2> QED
    BY <1>3, <2>2, <2>4 DEF Grpc
<1>4. CASE \/ BeginFetch \/ FetchReads \/ FetchFails \/ TakeMergeSignal
           \/ MergeGated \/ Merge \/ \E z \in Zone : ReadZone(z)
  BY <1>4
  DEF BeginFetch, FetchReads, FetchFails, TakeMergeSignal, MergeGated, Merge,
      ReadZone, DropsOnly
<1>5. CASE AcceptPoll
  <2>1. store \in [Name -> Record]
    BY DEF TypeInv, TypeOK
  <2>2. \/ UNCHANGED <<store, file>>
        \/ store' = Reconciled(store) /\ (file' = store' \/ PersistMayFail)
    BY <1>5 DEF AcceptPoll, Mutate
  <2>3. \A n \in Name : ~IsHook(Absent)
    BY DEF IsHook, Absent
  <2>4. DropsOnly
    BY <2>1, <2>2, <2>3, ReconciledType DEF DropsOnly
  <2> QED
    BY <1>5, <2>2, <2>4 DEF AcceptPoll
<1> QED
  BY <1>1, <1>2, <1>3, <1>4, <1>5 DEF Next, PollLoop, DropsOnly

LEMMA NewestStep ==
    ASSUME TypeInv, NewestInv, [Next]_vars
    PROVE  NewestInv'
<1> USE DEF NewestInv
<1>1. ASSUME NEW h \in Handler, NEW e \in events, Receive(h, e)
      PROVE  NewestInv'
  <2>1. \A g \in Handler : ~InFlight(g)
    BY <1>1 DEF Receive, MayApply, Locked, InFlight
  <2>2. request'[h].step = "check" /\ \A g \in Handler \ {h} : request'[g] = request[g]
    BY <1>1 DEF Receive, TypeInv
  <2> QED
    BY <1>1, <2>1, <2>2
    DEF OneInFlight, InFlight, NewerThanStore, FileFollowsMemory, Receive
<1>2. ASSUME NEW h \in Handler, Check(h)
      PROVE  NewestInv'
  <2>1. InFlight(h) /\ UNCHANGED <<store, file>>
    BY <1>2 DEF Check, InFlight
  <2>2. /\ \A g \in Handler \ {h} : request'[g] = request[g] /\ ~InFlight(g)
        /\ NewerThanStore(h)'
    <3>1. CASE Skips(request[h])
      <4>1. Advance(h, FALSE)
        BY <1>2, <3>1 DEF Check
      <4>2. PICK q \in Working \cup {Idle, Signalling} :
                request' = [request EXCEPT ![h] = q] /\ q.step # "write"
        BY <2>1, <4>1, AdvanceIs
      <4> QED
        BY <2>1, <4>2 DEF TypeInv, OneInFlight, NewerThanStore
    <3>2. CASE ~Skips(request[h])
      <4>1. request' = [request EXCEPT ![h].step = "write"]
        BY <1>2, <3>2 DEF Check
      <4>2. /\ request[h] \in Working /\ Head(request[h].ops) \in StoreCall
            /\ request \in [Handler -> Working \cup {Idle, Signalling}]
        BY <2>1, WorkingType DEF TypeInv
      <4>3. /\ request'[h].ops = request[h].ops /\ request'[h].at = request[h].at
            /\ \A g \in Handler \ {h} : request'[g] = request[g]
        BY <4>1, <4>2 DEF Working
      <4>4. request[h].at \in Int /\ Head(request[h].ops).name \in Name
        BY <4>2, WebhookAssumption DEF Working, StoreCall
      <4>5. IsHook(store[Head(request[h].ops).name])
                => store[Head(request[h].ops).name].at \in Int
        BY <4>4 DEF TypeInv, TypeOK, Record, IsHook, Absent, Manual
      <4>6. NewerThanStore(h)'
        BY <2>1, <3>2, <4>3, <4>4, <4>5 DEF NewerThanStore, Skips
      <4> QED
        BY <2>1, <4>3, <4>6 DEF OneInFlight
    <3> QED
      BY <3>1, <3>2
  <2>3. OneInFlight'
    BY <2>2 DEF OneInFlight, InFlight
  <2>4. \A g \in Handler \ {h} : NewerThanStore(g)'
    BY <2>1, <2>2 DEF NewerThanStore
  <2> QED
    BY <2>1, <2>2, <2>3, <2>4 DEF FileFollowsMemory
<1>3. ASSUME NEW h \in Handler, Write(h)
      PROVE  NewestInv'
  <2>1. InFlight(h) /\ FileFollowsMemory'
    BY <1>3, WriteIs DEF FileFollowsMemory
  <2>2. PICK q \in Working \cup {Idle, Signalling} :
            request' = [request EXCEPT ![h] = q] /\ q.step # "write"
    <3>1. CASE Advance(h, TRUE)
      BY <2>1, <3>1, AdvanceIs
    <3>2. CASE request' = [request EXCEPT ![h] = Idle]
      <4>1. Idle.step # "write"
        BY DEF Idle
      <4> QED
        BY <3>2, <4>1
    <3>3. Advance(h, TRUE) \/ request' = [request EXCEPT ![h] = Idle]
      BY <1>3, WriteIs
    <3> QED
      BY <3>1, <3>2, <3>3
  <2>3. /\ request'[h].step # "write"
        /\ \A g \in Handler \ {h} : request'[g] = request[g] /\ ~InFlight(g)
    BY <2>1, <2>2 DEF TypeInv, OneInFlight
  <2> QED
    BY <2>1, <2>3 DEF OneInFlight, InFlight, NewerThanStore
<1>4. ASSUME NEW h \in Handler, SendMerge(h)
      PROVE  NewestInv'
  <2>1. /\ request'[h].step = "idle" /\ UNCHANGED <<store, file>>
        /\ \A g \in Handler \ {h} : request'[g] = request[g]
    BY <1>4 DEF SendMerge, Idle, TypeInv
  <2> QED
    BY <2>1 DEF OneInFlight, InFlight, NewerThanStore, FileFollowsMemory
<1>5. CASE Restart
  <2>1. \A g \in Handler : request'[g].step = "idle"
    BY <1>5 DEF Restart, Idle
  <2> QED
    BY <1>5, <2>1 DEF OneInFlight, InFlight, NewerThanStore, FileFollowsMemory, Restart
<1>6. ASSUME ~Restart, \A h \in Handler : /\ ~Check(h) /\ ~Write(h) /\ ~SendMerge(h)
                                        /\ \A e \in events : ~Receive(h, e)
      PROVE  NewestInv'
  <2>1. /\ UNCHANGED request /\ DropsOnly /\ FileFollowsMemory'
    BY <1>6, OtherSteps DEF FileFollowsMemory
  <2>2. ASSUME NEW h \in Handler
        PROVE  NewerThanStore(h)'
    <3>1. CASE InFlight(h)
      <4>1. Head(request[h].ops).name \in Name
        BY <3>1, WorkingType, WebhookAssumption DEF StoreCall
      <4> QED
        BY <2>1, <4>1 DEF NewerThanStore, DropsOnly
    <3>2. CASE ~InFlight(h)
      BY <2>1, <3>2 DEF InFlight, NewerThanStore
    <3> QED
      BY <3>1, <3>2
  <2> QED
    BY <2>1, <2>2 DEF OneInFlight, InFlight
<1> QED
  BY <1>1, <1>2, <1>3, <1>4, <1>5, <1>6

LEMMA NewestInvariant == Spec => [](TypeInv /\ NewestInv)
<1>1. Init => NewestInv
  BY DEF Init, NewestInv, OneInFlight, InFlight, NewerThanStore, FileFollowsMemory, Idle
<1>2. TypeInv /\ NewestInv /\ [Next]_vars => NewestInv'
  BY NewestStep
<1> QED
  BY <1>1, <1>2, TypeInvariant, PTL DEF Spec

\* A webhook record is never replaced by one of an older event, in whatever order
\* deliveries arrive and however their handlers, gRPC calls, polls and restarts
\* interleave, as long as dynamic.json can be written (handler.mu around check
\* and write, upsertGuarded, persist).  A change that could not be written stays
\* in memory only, and a restart goes back behind it.
THEOREM NewestEventWins ==
    ASSUME ~PersistMayFail
    PROVE  Spec => NewestWins
<1>1. TypeInv /\ NewestInv /\ [Next]_vars
        => [\A n \in Name : (IsHook(store[n]) /\ IsHook(store'[n]))
                                => store'[n].at >= store[n].at]_store
  <2> SUFFICES ASSUME TypeInv, NewestInv, [Next]_vars, store' # store,
                      NEW n \in Name, IsHook(store[n]), IsHook(store'[n])
               PROVE  store'[n].at >= store[n].at
    OBVIOUS
  <2>1. store[n].at \in Int
    BY DEF TypeInv, TypeOK, Record, IsHook, Absent, Manual
  <2>2. ASSUME NEW h \in Handler, Write(h)
        PROVE  store'[n].at >= store[n].at
    <3> DEFINE r == request[h]
               m == Head(r.ops).name
    <3>1. /\ r \in Working /\ m \in Name
          /\ IF Head(r.ops).op = "upsert"
             THEN store' = [store EXCEPT ![m] = Hook(r.object, r.at)]
             ELSE store' = [store EXCEPT ![m] = Absent]
      BY <2>2, WriteIs
    <3>2. store \in [Name -> Record] /\ ~IsHook(Absent) /\ r.at \in Int
      BY <3>1 DEF TypeInv, TypeOK, IsHook, Absent, Working
    <3>3. r.step = "write" /\ NewerThanStore(h)
      BY <2>2 DEF Write, NewestInv
    <3>4. CASE n = m
      <4>1. Head(r.ops).op = "upsert" /\ store'[n] = Hook(r.object, r.at)
        BY <3>1, <3>2, <3>4
      <4>2. store[n].at < r.at
        BY <3>3, <3>4, <4>1 DEF NewerThanStore
      <4>3. Hook(r.object, r.at).at = r.at
        BY DEF Hook
      <4> QED
        BY <2>1, <3>2, <4>1, <4>2, <4>3
    <3>5. CASE n # m
      <4>1. store'[n] = store[n]
        BY <3>1, <3>2, <3>5
      <4> QED
        BY <2>1, <4>1
    <3> QED
      BY <3>4, <3>5
  <2>3. CASE Restart
    BY <2>3 DEF Restart, NewestInv, FileFollowsMemory
  <2>4. ASSUME NEW h \in Handler,
               Check(h) \/ SendMerge(h) \/ \E e \in events : Receive(h, e)
        PROVE  UNCHANGED store
    BY <2>4 DEF Check, SendMerge, Receive
  <2>5. ASSUME ~Restart, \A h \in Handler : /\ ~Check(h) /\ ~Write(h) /\ ~SendMerge(h)
                                          /\ \A e \in events : ~Receive(h, e)
        PROVE  store'[n] = store[n]
    BY <2>5, OtherSteps DEF DropsOnly
  <2> QED
    BY <2>1, <2>2, <2>3, <2>4, <2>5
<1> QED
  BY <1>1, NewestInvariant, PTL DEF Spec, NewestWins

-----------------------------------------------------------------------------
(* The poll *)

\* fetchStart lies between the last poll that was accepted and the read of this
\* one.
PollInv ==
    /\ pc \in {"fetching", "read"} => lastReadAt <= cutoff
    /\ pc = "read" => cutoff <= readAt

LEMMA PollStep ==
    ASSUME TypeInv, PollInv, [Next]_vars
    PROVE  PollInv'
<1>1. /\ lastReadAt \in Int /\ cutoff \in Int /\ changes \in Nat
      /\ lastReadAt <= changes /\ cutoff <= changes
  BY WebhookAssumption DEF TypeInv, TypeOK
<1>2. ASSUME UNCHANGED pollVars
      PROVE  PollInv'
  BY <1>2 DEF PollInv, pollVars
<1>3. CASE PollLoop
  BY <1>1, <1>3
  DEF PollLoop, BeginFetch, FetchReads, FetchFails, AcceptPoll, TakeMergeSignal,
      MergeGated, ReadZone, Merge, EndPoll, PollInv
<1>4. CASE Restart
  BY <1>1, <1>4 DEF Restart, PollInv
<1>5. CASE UNCHANGED vars
  BY <1>2, <1>5 DEF vars
<1>6. ASSUME NEW o \in Object, NetboxChanges(o)
      PROVE  PollInv'
  BY <1>2, <1>6 DEF NetboxChanges
<1>7. ASSUME NEW h \in Handler,
             \/ Check(h) \/ Write(h) \/ SendMerge(h)
             \/ \E e \in events : Receive(h, e)
      PROVE  PollInv'
  BY <1>2, <1>7 DEF Check, Write, SendMerge, Receive
<1>8. ASSUME NEW n \in GrpcName, Grpc(n, Manual) \/ Grpc(n, Absent)
      PROVE  PollInv'
  BY <1>2, <1>8 DEF Grpc
<1> QED
  BY <1>3, <1>4, <1>5, <1>6, <1>7, <1>8 DEF Next

\* A poll never takes a name back behind an event that was already applied to the
\* store: not even one that arrived while NetBox was answering, nor one of a
\* change that the poll before had seen (fetchStart, ReconcileWebhookSourced).
\* This holds also while dynamic.json cannot be written.
THEOREM PollsMoveForward == Spec => PollNeverGoesBack
<1>1. Init => PollInv
  BY DEF Init, PollInv
<1>2. TypeInv /\ PollInv /\ [Next]_vars => PollInv'
  BY PollStep
<1>3. TypeInv /\ PollInv /\ [Next]_vars
        => [AcceptPoll => \A n \in Name : store[n] # Manual
                                       => Version(n)' >= Version(n)]_vars
  <2> SUFFICES ASSUME TypeInv, PollInv, AcceptPoll, NEW n \in Name,
                      store[n] # Manual
               PROVE  Version(n)' >= Version(n)
    OBVIOUS
  <2>1. /\ lastReadAt \in Int /\ cutoff \in Int /\ readAt \in Int
        /\ lastReadAt <= cutoff /\ cutoff <= readAt /\ lastReadAt' = readAt
    BY DEF TypeInv, TypeOK, PollInv, AcceptPoll
  <2>2. store'[n] = store[n] \/ store'[n] = Reconciled(store)[n]
    BY DEF AcceptPoll, Mutate
  <2>3. IsHook(store[n]) => store[n].at \in Int
    BY DEF TypeInv, TypeOK, Record, IsHook, Absent, Manual
  <2>4. store'[n] = store[n] \/ (/\ ~IsHook(store'[n]) /\ IsHook(store[n])
                                 /\ store[n].at <= cutoff)
    BY <2>2, ReconciledType DEF TypeInv, TypeOK, IsHook, Absent
  <2>5. CASE store'[n] = store[n]
    <3>1. Version(n)' = IF IsHook(store[n]) THEN store[n].at ELSE readAt
      BY <2>1, <2>5 DEF Version
    <3> QED
      BY <2>1, <2>3, <3>1 DEF Version
  <2>6. CASE ~IsHook(store'[n]) /\ IsHook(store[n]) /\ store[n].at <= cutoff
    <3>1. Version(n)' = readAt /\ Version(n) = store[n].at
      BY <2>1, <2>6 DEF Version
    <3> QED
      BY <2>1, <2>3, <2>6, <3>1
  <2> QED
    BY <2>4, <2>5, <2>6
<1> QED
  BY <1>1, <1>2, <1>3, TypeInvariant, PTL DEF Spec, PollNeverGoesBack

-----------------------------------------------------------------------------
(* What a merge has read *)

\* Names without a zone have no records; what is read is kept only while it is
\* being read.
ViewInv ==
    /\ \A n \in Name \ RoutedName : /\ view[n] = Absent /\ store[n] = Absent
                                   /\ file[n] = Absent
    /\ pc # "merging" \/ ~gate => unread = Zone /\ view = NoView

\* Names without a zone stay without records, in memory and on disk.
LEMMA UnroutedStep ==
    ASSUME TypeInv, ViewInv, [Next]_vars, NEW n \in Name \ RoutedName
    PROVE  store'[n] = Absent /\ file'[n] = Absent /\ view'[n] = Absent
<1> USE DEF TypeInv, TypeOK
<1>1. store[n] = Absent /\ file[n] = Absent /\ view[n] = Absent
  BY DEF ViewInv
<1>2. NoView[n] = Absent
  BY DEF NoView
<1>3. ASSUME NEW h \in Handler, Write(h)
      PROVE  store'[n] = Absent /\ file'[n] = Absent /\ view'[n] = view[n]
  <2>1. Head(request[h].ops).name \in RoutedName
    BY <1>3, WriteIs, WorkingType DEF StoreCall
  <2>2. Head(request[h].ops).name # n
    BY <2>1
  <2>3. store'[n] = store[n]
    BY <1>3, <2>2, WriteIs
  <2> QED
    BY <1>1, <1>3, <2>3, WriteIs DEF Write, pollVars, mergeVars
<1>4. ASSUME NEW m \in GrpcName, Grpc(m, Manual) \/ Grpc(m, Absent)
      PROVE  store'[n] = Absent /\ file'[n] = Absent /\ view'[n] = view[n]
  <2>1. m # n
    BY WebhookAssumption
  <2>2. store'[n] = store[n] /\ (file' = store' \/ file' = file)
    BY <1>4, <2>1 DEF Grpc, Mutate
  <2> QED
    BY <1>1, <1>4, <2>2 DEF Grpc, pollVars, mergeVars
<1>5. CASE AcceptPoll
  <2>1. Reconciled(store)[n] = Absent
    BY <1>1 DEF Reconciled
  <2> QED
    BY <1>1, <1>5, <2>1 DEF AcceptPoll, Mutate, mergeVars
<1>6. CASE Restart
  BY <1>1, <1>2, <1>6 DEF Restart, EndRead
<1>7. ASSUME NEW z \in Zone, ReadZone(z)
      PROVE  UNCHANGED <<store, file>> /\ view'[n] = view[n]
  BY <1>7 DEF ReadZone, Seen
<1>8. CASE Merge
  BY <1>1, <1>2, <1>8 DEF Merge, EndRead
<1>9. CASE UNCHANGED <<store, file, view>>
  BY <1>1, <1>9
<1> QED
  BY <1>1, <1>3, <1>4, <1>5, <1>6, <1>7, <1>8, <1>9
  DEF Next, PollLoop, vars, NetboxChanges, Receive, Check, SendMerge, BeginFetch,
      FetchReads, FetchFails, TakeMergeSignal, MergeGated, pollVars, mergeVars

\* What is read is not kept longer.
LEMMA NotReading ==
    ASSUME TypeInv, ViewInv, [Next]_vars, pc' # "merging" \/ ~gate'
    PROVE  unread' = Zone /\ view' = NoView
<1>1. CASE Restart \/ Merge
  BY <1>1 DEF Restart, Merge, EndRead
<1>2. ASSUME NEW z \in Zone, ReadZone(z)
      PROVE  FALSE
  BY <1>2 DEF ReadZone
<1>3. CASE PollLoop /\ ~Merge /\ \A z \in Zone : ~ReadZone(z)
  BY <1>3
  DEF PollLoop, ViewInv, BeginFetch, FetchReads, FetchFails, AcceptPoll, EndPoll,
      TakeMergeSignal, MergeGated, mergeVars
<1>4. CASE UNCHANGED pollVars
  BY <1>4 DEF ViewInv, pollVars, mergeVars
<1> QED
  BY <1>1, <1>2, <1>3, <1>4
  DEF Next, PollLoop, vars, NetboxChanges, Receive, Check, Write, SendMerge, Grpc

LEMMA ViewInvariant == Spec => []ViewInv
<1>1. Init => ViewInv
  BY DEF Init, ViewInv, NoView
<1>2. TypeInv /\ ViewInv /\ [Next]_vars => ViewInv'
  BY UnroutedStep, NotReading DEF ViewInv
<1> QED
  BY <1>1, <1>2, TypeInvariant, PTL DEF Spec

-----------------------------------------------------------------------------
(* The zone files *)

\* Nothing has been written that somebody has not asked for a merge of.
Settled == ~mergeSignal /\ \A h \in Handler : ~Owes(h)

\* A zone that a merge has read is as the merge has read it, or its writer will
\* ask for another merge.
ReadInv ==
    (pc = "merging" /\ gate /\ Settled)
        => \A n \in RoutedName : ZoneOf[n] \notin unread => view[n] = store[n]

\* The files are the merge of what the loop has last taken over, or somebody
\* still has to say so: also while a poll is under way, which takes over nothing
\* before its own merge.
FilesInv ==
    (gate /\ pc # "merging" /\ Settled) => published = Merged(lastNetbox, store)

OwedInv == ReadInv /\ FilesInv

\* A handler that owes the signal owes it until it sends it (mutated).
LEMMA OwesStep ==
    ASSUME TypeInv, ~PersistMayFail, [Next]_vars, ~Restart,
           NEW h \in Handler, Owes(h)
    PROVE  Owes(h)' \/ mergeSignal'
<1> USE DEF TypeInv
<1>1. ASSUME NEW g \in Handler, Check(g) \/ Write(g)
      PROVE  Owes(h)'
  <2>1. InFlight(g)
    BY <1>1 DEF Check, Write, InFlight
  <2>2. request[g] \in Working
    BY <2>1, WorkingType
  <2>3. CASE g # h
    <3>1. request'[h] = request[h]
      <4>1. CASE \E applied \in BOOLEAN : Advance(g, applied)
        BY <2>1, <2>3, <4>1, AdvanceIs
      <4>2. CASE request' = [request EXCEPT ![g].step = "write"]
        BY <2>3, <4>2
      <4> QED
        BY <1>1, <4>1, <4>2, WriteIs DEF Check
    <3> QED
      BY <3>1 DEF Owes
  <2>4. CASE g = h
    <3>1. request[h].mutated \in BOOLEAN /\ request[h].mutated
      BY <2>1, <2>2, <2>4 DEF Owes, InFlight, Working
    <3>2. CASE \E applied \in BOOLEAN : Advance(h, applied)
      <4>1. PICK q \in Working \cup {Idle, Signalling} :
                /\ request' = [request EXCEPT ![h] = q] /\ q # Idle
                /\ q.step # "write"
                /\ q.step = "check" => q.mutated
        BY <2>1, <2>4, <3>1, <3>2, AdvanceIs
      <4>2. q.step \in {"check", "signal"}
        BY <4>1 DEF Working, Signalling
      <4> QED
        BY <4>1, <4>2 DEF Owes
    <3>3. CASE request' = [request EXCEPT ![h].step = "write"]
      BY <2>2, <2>4, <3>1, <3>3 DEF Owes, Working
    <3> QED
      BY <1>1, <2>4, <3>2, <3>3, WriteIs DEF Check
  <2> QED
    BY <2>3, <2>4
<1>2. ASSUME NEW g \in Handler,
             SendMerge(g) \/ \E e \in events : Receive(g, e)
      PROVE  Owes(h)' \/ mergeSignal'
  BY <1>2 DEF SendMerge, Receive, Owes, Idle
<1>3. ASSUME \A g \in Handler : /\ ~Check(g) /\ ~Write(g) /\ ~SendMerge(g)
                               /\ \A e \in events : ~Receive(g, e)
      PROVE  Owes(h)'
  BY <1>3, OtherSteps DEF Owes
<1> QED
  BY <1>1, <1>2, <1>3

\* A handler that has just written owes the signal.
LEMMA WriteOwes ==
    ASSUME TypeInv, ~PersistMayFail, NEW h \in Handler, Write(h)
    PROVE  Owes(h)'
<1>1. InFlight(h) /\ Advance(h, TRUE)
  BY WriteIs
<1>2. PICK q \in Working \cup {Idle, Signalling} :
          /\ request' = [request EXCEPT ![h] = q] /\ q # Idle
          /\ q.step # "write"
          /\ q.step = "check" => q.mutated
  BY <1>1, AdvanceIs DEF TypeInv, InFlight, Working, Idle, Signalling
<1>3. q.step \in {"check", "signal"}
  BY <1>2 DEF Working, Signalling
<1> QED
  BY <1>2, <1>3 DEF Owes, TypeInv

\* Whoever writes the store asks for a merge; a poll and a restart come when no
\* merge is being made.
LEMMA StoreWritten ==
    ASSUME TypeInv, ~PersistMayFail, [Next]_vars, ~Restart, ~AcceptPoll,
           store' # store
    PROVE  ~Settled'
<1>1. ASSUME NEW h \in Handler, Write(h)
      PROVE  ~Settled'
  BY <1>1, WriteOwes DEF Settled
<1>2. ASSUME NEW n \in GrpcName, Grpc(n, Manual) \/ Grpc(n, Absent)
      PROVE  ~Settled'
  BY <1>2 DEF Grpc, Mutate, PersistOK, Settled
<1> QED
  BY <1>1, <1>2
  DEF Next, PollLoop, vars, NetboxChanges, Receive, Check, SendMerge, BeginFetch,
      FetchReads, FetchFails, TakeMergeSignal, MergeGated, ReadZone, Merge

\* A merge that is asked for stays asked for until the loop takes the signal.
LEMMA SettledStep ==
    ASSUME TypeInv, ~PersistMayFail, [Next]_vars, ~Restart, ~TakeMergeSignal,
           Settled'
    PROVE  Settled
<1>1. mergeSignal => mergeSignal'
  <2>1. ASSUME NEW n \in GrpcName, NEW rec, Grpc(n, rec)
        PROVE  mergeSignal => mergeSignal'
    BY <2>1 DEF Grpc
  <2> QED
    BY <2>1
    DEF Next, PollLoop, vars, NetboxChanges, Receive, Check, Write, SendMerge,
        BeginFetch, FetchReads, FetchFails, AcceptPoll, MergeGated, ReadZone, Merge
<1> QED
  BY <1>1, OwesStep DEF Settled

LEMMA ReadStep ==
    ASSUME TypeInv, ViewInv, ReadInv, ~PersistMayFail, [Next]_vars
    PROVE  ReadInv'
<1> SUFFICES ASSUME pc' = "merging", gate', Settled', NEW n \in RoutedName,
                    ZoneOf[n] \notin unread'
             PROVE  view'[n] = store'[n]
  BY DEF ReadInv
<1>1. ZoneOf[n] \in Zone /\ n \in Name
  BY WebhookAssumption
<1>2. ASSUME NEW z \in Zone, ReadZone(z)
      PROVE  view'[n] = store'[n]
  <2>1. pc = "merging" /\ gate /\ unread' = unread \ {z} /\ view' = Seen(z)
        /\ UNCHANGED store
    BY <1>2 DEF ReadZone
  <2>2. CASE ZoneOf[n] = z
    BY <1>1, <2>1, <2>2 DEF Seen
  <2>3. CASE ZoneOf[n] # z
    <3>1. view'[n] = view[n] /\ ZoneOf[n] \notin unread
      BY <1>1, <2>1, <2>3 DEF Seen
    <3>2. Settled
      BY <1>2, SettledStep DEF ReadZone, Restart, TakeMergeSignal
    <3> QED
      BY <2>1, <3>1, <3>2 DEF ReadInv
  <2> QED
    BY <2>2, <2>3
<1>3. CASE pc # "merging" \/ ~gate
  <2>1. unread = Zone
    BY <1>3 DEF ViewInv
  <2>2. unread' = Zone
    <3>1. CASE PollLoop
      BY <1>3, <2>1, <3>1
      DEF PollLoop, BeginFetch, FetchReads, FetchFails, AcceptPoll, TakeMergeSignal,
          MergeGated, ReadZone, Merge, EndRead, mergeVars
    <3>2. CASE UNCHANGED pollVars
      BY <2>1, <3>2 DEF pollVars, mergeVars
    <3>3. CASE Restart
      BY <3>3 DEF Restart, EndRead
    <3> QED
      BY <3>1, <3>2, <3>3
      DEF Next, vars, NetboxChanges, Receive, Check, Write, SendMerge, Grpc
  <2> QED
    BY <1>1, <2>2
<1>4. CASE pc = "merging" /\ gate /\ \A z \in Zone : ~ReadZone(z)
  <2>1. ~Restart /\ ~TakeMergeSignal /\ ~AcceptPoll
    BY <1>4 DEF Restart, TakeMergeSignal, AcceptPoll
  <2>2. UNCHANGED <<unread, view>>
    <3>1. CASE PollLoop
      BY <1>4, <2>1, <3>1
      DEF PollLoop, BeginFetch, FetchReads, FetchFails, MergeGated, Merge, mergeVars
    <3>2. CASE UNCHANGED pollVars
      BY <3>2 DEF pollVars, mergeVars
    <3> QED
      BY <2>1, <3>1, <3>2
      DEF Next, vars, NetboxChanges, Receive, Check, Write, SendMerge, Grpc
  <2>3. Settled /\ UNCHANGED store
    BY <2>1, SettledStep, StoreWritten
  <2> QED
    BY <1>4, <2>2, <2>3 DEF ReadInv
<1> QED
  BY <1>2, <1>3, <1>4

\* When every zone has been read and nobody asks for another merge, the merge has
\* read the store.
LEMMA ReadIsStore ==
    ASSUME TypeInv, ViewInv, ReadInv, pc = "merging", gate, Settled, unread = {}
    PROVE  view = store
<1>1. ASSUME NEW n \in Name
      PROVE  view[n] = store[n]
  BY DEF ReadInv, ViewInv
<1> QED
  BY <1>1 DEF TypeInv, TypeOK

LEMMA FilesStep ==
    ASSUME TypeInv, ViewInv, ReadInv, FilesInv, ~PersistMayFail, [Next]_vars
    PROVE  FilesInv'
<1> SUFFICES ASSUME gate', pc' # "merging", Settled'
             PROVE  published' = Merged(lastNetbox', store')
  BY DEF FilesInv
<1>1. ~Restart /\ ~TakeMergeSignal /\ ~AcceptPoll /\ ~MergeGated
  BY DEF Restart, TakeMergeSignal, AcceptPoll, EndPoll, MergeGated
<1>2. Settled /\ UNCHANGED store
  BY <1>1, SettledStep, StoreWritten
<1>3. CASE Merge
  <2>1. view = store
    BY <1>2, <1>3, ReadIsStore DEF Merge
  <2> QED
    BY <1>2, <1>3, <2>1 DEF Merge
<1>4. CASE ~Merge
  <2>1. UNCHANGED <<lastNetbox, published, gate>> /\ pc # "merging"
    BY <1>1, <1>4
    DEF Next, PollLoop, vars, NetboxChanges, Receive, Check, Write, SendMerge, Grpc,
        BeginFetch, FetchReads, FetchFails, EndPoll, ReadZone, pollVars
  <2> QED
    BY <1>2, <2>1 DEF FilesInv
<1> QED
  BY <1>3, <1>4

LEMMA OwedStep ==
    ASSUME TypeInv, ViewInv, OwedInv, ~PersistMayFail, [Next]_vars
    PROVE  OwedInv'
BY ReadStep, FilesStep DEF OwedInv

\* When the loop is idle and nobody owes it a signal, the zone files are the merge
\* of the last NetBox records with the store, whichever of an event's store calls
\* were skipped (apply's mutated, the channel of capacity one), as long as
\* dynamic.json can be written.  A call that changes the store and cannot write it
\* answers with an error and signals nothing.
THEOREM ChangesArePublished ==
    ASSUME ~PersistMayFail
    PROVE  Spec => []PublishOwed
<1>1. Init => OwedInv
  <2> SUFFICES ASSUME Init PROVE published = Merged(lastNetbox, store)
    BY DEF Init, OwedInv, ReadInv, FilesInv
  <2>1. lastNetbox \in [Name -> SUBSET Object] /\ store = [n \in Name |-> Absent]
    BY DEF Init, Addresses
  <2>2. ASSUME NEW n \in Name
        PROVE  Merged(lastNetbox, store)[n] = lastNetbox[n]
    <3>1. store[n] = Absent /\ Absent # Manual /\ ~IsHook(Absent)
      BY <2>1 DEF Absent, Manual, IsHook
    <3> QED
      BY <3>1 DEF Merged
  <2>3. Merged(lastNetbox, store) = [n \in Name |-> lastNetbox[n]]
    BY <2>2 DEF Merged
  <2> QED
    BY <2>1, <2>3 DEF Init
<1>2. TypeInv /\ ViewInv /\ OwedInv /\ [Next]_vars => OwedInv'
  BY OwedStep
<1>3. OwedInv => PublishOwed
  BY DEF OwedInv, FilesInv, Settled, PublishOwed
<1> QED
  BY <1>1, <1>2, <1>3, TypeInvariant, ViewInvariant, PTL DEF Spec

-----------------------------------------------------------------------------
(* The store as its writers see it *)

\* A record is of one kind, and both modules name the kinds alike.
LEMMA RecordIs ==
    ASSUME NEW rec \in Record
    PROVE  /\ Overlay!None = Absent /\ Overlay!Pinned = Manual
           /\ Overlay!IsNews(rec) <=> IsHook(rec)
           /\ IsHook(rec) => rec.at \in 1..MaxChanges /\ rec.object \in Object
           /\ rec # Absent /\ rec # Manual => IsHook(rec)
BY DEF Record, Absent, Manual, IsHook, Overlay!None, Overlay!Pinned, Overlay!IsNews

\* What a merge publishes is what the overlay means.
LEMMA MergedIsMeaning ==
    ASSUME TypeInv
    PROVE  Merged(lastNetbox, view) = [n \in Name |-> Overlay!Meaning(n, view[n])]
<1>1. ASSUME NEW n \in Name
      PROVE  (CASE view[n] = Manual   -> {"manual"}
                [] IsHook(view[n])    -> {view[n].object}
                [] view[n] = Absent   -> lastNetbox[n]) = Overlay!Meaning(n, view[n])
  <2>1. view[n] \in Record
    BY DEF TypeInv, TypeOK
  <2>2. /\ Overlay!None = Absent /\ Overlay!Pinned = Manual
        /\ view[n] # Absent /\ view[n] # Manual => IsHook(view[n])
    BY <2>1, RecordIs
  <2>3. Absent # Manual /\ ~IsHook(Absent) /\ ~IsHook(Manual)
    BY DEF Absent, Manual, IsHook
  <2> QED
    BY <2>2, <2>3 DEF Overlay!Meaning
<1> QED
  BY <1>1 DEF Merged

\* Reconciliation leaves what a poll that began at the cutoff leaves.
LEMMA ReconciledIsSince ==
    ASSUME TypeInv
    PROVE  Reconciled(store) = Overlay!Since(cutoff)
<1>1. ASSUME NEW n \in Name
      PROVE  (IF IsHook(store[n]) /\ store[n].at <= cutoff THEN Absent ELSE store[n])
               = (IF Overlay!IsNews(store[n]) /\ store[n].at <= cutoff
                  THEN Overlay!None ELSE store[n])
  BY RecordIs DEF TypeInv, TypeOK
<1> QED
  BY <1>1 DEF Reconciled, Overlay!Since

\* Nothing has been read, in both modules.
LEMMA NoViewIs ==
    (unread = Zone /\ view = NoView) <=> Overlay!NothingRead
BY DEF NoView, Absent, Overlay!NothingRead, Overlay!None

\* The end of a merge in both modules.
LEMMA EndReadIs ==
    EndRead <=> Overlay!NothingRead'
BY DEF EndRead, NoView, Absent, Overlay!NothingRead, Overlay!None

LEMMA OverlayInit ==
    ASSUME Init
    PROVE  Overlay!Init
<1>1. Overlay!None = Absent
  BY DEF Absent, Overlay!None
<1>2. lastNetbox \in [Name -> SUBSET Object]
  BY DEF Init, Addresses
<1> QED
  BY <1>1, <1>2 DEF Init, NoView, Overlay!Init, Overlay!NothingRead

\* A handler's store call is one change of one name: OneInFlight and
\* NewerThanStore keep what it has checked true until it writes.
LEMMA WriteRefines ==
    ASSUME TypeInv, NewestInv, NEW h \in Handler, Write(h)
    PROVE  Overlay!Next
<1> DEFINE r == request[h]
           n == Head(r.ops).name
<1>1. /\ n \in Name /\ r \in Working
      /\ IF Head(r.ops).op = "upsert"
         THEN store' = [store EXCEPT ![n] = Hook(r.object, r.at)]
         ELSE store' = [store EXCEPT ![n] = Absent]
      /\ file' = store' \/ (PersistMayFail /\ file' = file)
  BY WriteIs
<1>2. UNCHANGED <<lastNetbox, lastReadAt, gate, unread, view, published>>
  BY DEF Write, pollVars, mergeVars
<1>3. NewerThanStore(h) /\ r.step = "write"
  BY DEF NewestInv, Write
<1>4. store[n] \in Record
  BY <1>1 DEF TypeInv, TypeOK
<1>5. r.object \in Object /\ r.at \in 0..MaxChanges
  BY <1>1, WebhookAssumption DEF Working
<1>6. CASE Head(r.ops).op = "upsert"
  <2>1. Overlay!IsNews(store[n]) => store[n].at < r.at
    BY <1>3, <1>4, <1>6, RecordIs DEF NewerThanStore
  <2>2. Overlay!News(r.object, r.at) = Hook(r.object, r.at)
    BY DEF Hook, Overlay!News
  <2> HIDE DEF r, n
  <2>3. Overlay!Apply(n, r.object, r.at)
    BY <1>1, <1>2, <1>6, <2>1, <2>2 DEF Overlay!Apply, Overlay!Store
  <2> QED
    BY <1>1, <1>5, <2>3 DEF Overlay!Next
<1>7. CASE Head(r.ops).op # "upsert"
  <2>1. Overlay!None = Absent
    BY DEF Absent, Overlay!None
  <2> HIDE DEF r, n
  <2>2. Overlay!Withdraw(n)
    BY <1>1, <1>2, <1>7, <2>1 DEF Overlay!Withdraw, Overlay!Store
  <2> QED
    BY <1>1, <2>2 DEF Overlay!Next
<1> QED
  BY <1>6, <1>7

LEMMA GrpcRefines ==
    ASSUME TypeInv, NEW n \in GrpcName, NEW rec \in {Manual, Absent}, Grpc(n, rec)
    PROVE  Overlay!Next
<1>1. /\ store' = [store EXCEPT ![n] = rec]
      /\ file' = store' \/ (PersistMayFail /\ file' = file)
      /\ UNCHANGED <<lastNetbox, lastReadAt, gate, unread, view, published>>
  BY DEF Grpc, Mutate, pollVars, mergeVars
<1>2. n \in Name /\ Overlay!None = Absent /\ Overlay!Pinned = Manual
  BY WebhookAssumption DEF Absent, Manual, Overlay!None, Overlay!Pinned
<1>3. Overlay!Pin(n) \/ Overlay!Withdraw(n)
  BY <1>1, <1>2 DEF Overlay!Pin, Overlay!Withdraw, Overlay!Store
<1> QED
  BY <1>2, <1>3 DEF Overlay!Next

\* A poll that is taken over is one poll of the overlay: it began at fetchStart,
\* after the poll before had read, and read after that.
LEMMA PollRefines ==
    ASSUME TypeInv, PollInv, ViewInv, AcceptPoll
    PROVE  Overlay!Next
<1>1. /\ cutoff \in 0..MaxChanges /\ readAt \in 0..MaxChanges
      /\ lastReadAt <= cutoff /\ cutoff <= readAt
      /\ fetched \in [Name -> SUBSET Object]
  BY WebhookAssumption DEF TypeInv, TypeOK, PollInv, AcceptPoll
<1>2. /\ lastNetbox' = fetched /\ lastReadAt' = readAt /\ gate' = TRUE
      /\ UNCHANGED <<unread, view, published>>
  BY DEF AcceptPoll, mergeVars
<1>3. Reconciled(store) = Overlay!Since(cutoff)
  BY ReconciledIsSince
<1>4. \/ Overlay!Since(cutoff) = store /\ UNCHANGED <<store, file>>
      \/ Overlay!Since(cutoff) # store /\ Overlay!Store(Overlay!Since(cutoff))
  <2>1. CASE Reconciled(store) = store
    BY <1>3, <2>1 DEF AcceptPoll
  <2>2. CASE Reconciled(store) # store
    BY <1>3, <2>2 DEF AcceptPoll, Mutate, Overlay!Store
  <2> QED
    BY <2>1, <2>2
<1>5. Overlay!NothingRead
  BY NoViewIs DEF AcceptPoll, ViewInv
<1>6. Overlay!Poll
  BY <1>1, <1>2, <1>4, <1>5 DEF Overlay!Poll
<1> QED
  BY <1>6 DEF Overlay!Next

\* A merge looks at one zone at a time, and publishes what it has seen.
LEMMA ReadRefines ==
    ASSUME NEW z \in Zone, ReadZone(z)
    PROVE  Overlay!Next
<1>1. Overlay!Look(z)
  BY DEF ReadZone, Seen, Overlay!Look, Overlay!InZone
<1> QED
  BY <1>1 DEF Overlay!Next

LEMMA MergeRefines ==
    ASSUME TypeInv, Merge
    PROVE  Overlay!Next
<1>1. published' = [n \in Name |-> Overlay!Meaning(n, view[n])]
  BY MergedIsMeaning DEF Merge
<1>2. Overlay!Publish
  BY <1>1, EndReadIs DEF Merge, Overlay!Publish
<1> QED
  BY <1>2 DEF Overlay!Next

LEMMA OverlayStep ==
    ASSUME TypeInv, NewestInv, PollInv, ViewInv, [Next]_vars
    PROVE  Overlay!Next \/ UNCHANGED Overlay!overlayVars
<1> DEFINE seen == <<store, file, lastNetbox, lastReadAt, gate, unread, view,
                     published>>
<1>1. UNCHANGED seen => UNCHANGED Overlay!overlayVars
  BY DEF Overlay!overlayVars
<1>2. CASE UNCHANGED vars
  BY <1>1, <1>2 DEF vars, pollVars, mergeVars
<1>3. ASSUME NEW o \in Object, NetboxChanges(o)
      PROVE  UNCHANGED seen
  BY <1>3 DEF NetboxChanges, pollVars, mergeVars
<1>4. ASSUME NEW h \in Handler,
             Check(h) \/ SendMerge(h) \/ \E e \in events : Receive(h, e)
      PROVE  UNCHANGED seen
  BY <1>4 DEF Check, SendMerge, Receive, pollVars, mergeVars
<1>5. CASE BeginFetch \/ FetchReads \/ FetchFails \/ TakeMergeSignal \/ MergeGated
  BY <1>1, <1>5
  DEF BeginFetch, FetchReads, FetchFails, EndPoll, TakeMergeSignal, MergeGated,
      mergeVars
<1>6. CASE Restart
  <2>1. Overlay!Restart
    BY <1>6, EndReadIs DEF Restart, Nothing, Overlay!Restart
  <2> QED
    BY <2>1 DEF Overlay!Next
<1> HIDE DEF seen
<1> QED
  BY <1>1, <1>2, <1>3, <1>4, <1>5, <1>6, WriteRefines, GrpcRefines, PollRefines,
     ReadRefines, MergeRefines
  DEF Next, PollLoop

\* For any number of names, zones, handlers, changes and restarts, and whatever
\* cannot be kept: handlers that check in one step and write in another, gRPC calls
\* that come between, polls that overlap both, and merges that read zone by zone
\* amount to a store whose every write is atomic, whose polls drop only what they
\* have seen themselves, and which publishes, under the last poll, for each zone
\* the records it held at one moment since the merge began (merge.Write takes the
\* store's lock once per zone: that all zones' moments are the same is not so).
THEOREM StoreIsAtomic == Spec => OverlaySpec
<1>1. Init => Overlay!Init
  BY OverlayInit
<1>2. Init => PollInv
  BY DEF Init, PollInv
<1>3. TypeInv /\ PollInv /\ [Next]_vars => PollInv'
  BY PollStep
<1>4. TypeInv /\ NewestInv /\ PollInv /\ ViewInv /\ [Next]_vars
        => [Overlay!Next]_(Overlay!overlayVars)
  BY OverlayStep
<1> QED
  BY <1>1, <1>2, <1>3, <1>4, TypeInvariant, NewestInvariant, ViewInvariant, PTL
  DEF Spec, OverlaySpec, Overlay!Spec
=============================================================================
