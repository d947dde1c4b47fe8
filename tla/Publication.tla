---------------------------- MODULE Publication ----------------------------
(***************************************************************************)
(* What gets into the zone files: the poll loop of cmd/sidecar with the    *)
(* records themselves.  fetchNetbox turns NetBox's answer into zones,      *)
(* merge.Write puts the operators' dynamic records over them, which it     *)
(* reads zone by zone while operators go on writing, Update writes what    *)
(* changed, and CoreDNS answers from the files.                            *)
(*                                                                         *)
(* Sidecar has the guard, the failures, the signals and the scheduling of  *)
(* the same loop, Webhook the overlay's other writer, Propagation the way  *)
(* from the files to the pods; here a poll is one the guard lets through,  *)
(* writes succeed and the pods have the files at once.                     *)
(***************************************************************************)
EXTENDS ZoneFiles

CONSTANTS
    Config,         \* a number of configurations: [mode, strip, nsip]
    Rollout,        \* per configuration, those a restart may bring (bound)
    Answer,         \* a number of NetBox's answers
    Row,            \* per answer, the sequence of its rows
    Write,          \* the records operators write: [zone, name, addr]
    Fragile,        \* the zones whose files may get damaged (bound)
    Batch,          \* the batches they write: sequences of [zone, records],
                    \* records a function from names to addresses
    QName,          \* the names clients ask for, in lower case
    NoData          \* nothing fetched yet

ASSUME PublicationAssumption ==
    /\ \A c \in Config :
         /\ c.mode.by \in {"zone-depth", "netbox-dns", "common-suffix"}
         /\ c.mode.by = "zone-depth" => c.mode.depth \in Nat
         /\ c.mode.by = "netbox-dns" => \A z \in c.mode.zones : IsSeq(z)
    /\ \A a \in Answer : IsSeq(Row[a]) /\ \A r \in ToSet(Row[a]) :
            IsSeq(r.name) /\ r.addr \in DOMAIN ReverseName /\ r.iface \in Nat
    /\ \A w \in Write :
         IsSeq(w.zone) /\ IsSeq(w.name) /\ w.addr \in DOMAIN ReverseName
    /\ \A b \in Batch :
         /\ IsSeq(b)
         /\ \A i \in DOMAIN b :
              /\ IsSeq(b[i].zone) /\ IsFiniteSet(DOMAIN b[i].records)
              /\ \A n \in DOMAIN b[i].records :
                    IsSeq(n) /\ b[i].records[n] \in DOMAIN ReverseName
    /\ Rollout \in [Config -> SUBSET Config]
    /\ NoData \notin Answer

VARIABLES
    config,         \* the process's configuration
    known,          \* the answer of its last good poll, or NoData
    store,          \* the dynamic store: zone -> (name -> address)
    files,          \* the zone files
    generators,     \* the content-hash each generator of the process remembers
    mergeSignal,
    pc,             \* "start", "idle" or, between a poll and its merge, "merge",
                    \* and "reading" while the merge reads the store
    unread,         \* the zones it has listed and not yet read
    view,           \* what it has read: zone -> (name -> address)
    dns             \* the addresses each name resolves to

readVars == <<unread, view>>

vars == <<config, known, store, files, generators, mergeSignal, pc, readVars, dns>>

Nothing == [z \in {} |-> {}]

NoRecords == [n \in {} |-> NoAddr]

\* The entries of f and, for other keys, those of g.
Over(f, g) ==
    [x \in DOMAIN f \cup DOMAIN g |-> IF x \in DOMAIN f THEN f[x] ELSE g[x]]

-----------------------------------------------------------------------------
(* fetchNetbox and the strip that follows it *)

ForwardZones(c, a) == Discover(c.mode, Enrich(Row[a]))

\* maps.Copy: a reverse zone replaces a forward zone of its name.
Combined(c, a) == Over(DiscoverReverse(Enrich(Row[a])), ForwardZones(c, a))

Stripped(c, zones) ==
    IF c.strip THEN [z \in DOMAIN zones |-> StripDCLabel(zones[z])] ELSE zones

\* doFetchNetbox's result
ZonesOf == [c \in Config |-> [a \in Answer |-> Stripped(c, Combined(c, a))]]

\* lastNetboxZones, and with it the NetboxCache.
netboxZones == IF known = NoData THEN Nothing ELSE ZonesOf[config][known]

\* Faulty variant: what is left of the collisions is counted.
CountPublished(zones) == [z \in DOMAIN zones |-> Cardinality(Published(zones[z], z))]

\* countZoneRecords, what the shrink guard compares.
CountZoneRecords(zones) == [z \in DOMAIN zones |-> Len(zones[z])]

-----------------------------------------------------------------------------
(* merge.Write *)

RecordsOf(zones, z) == IF z \in DOMAIN zones THEN zones[z] ELSE <<>>

\* The records a store has in a zone; dynamic stands for the store.
OwnRecords(dynamic, z) == IF z \in DOMAIN dynamic THEN dynamic[z] ELSE NoRecords

DynamicOf(z) == OwnRecords(store, z)

DynamicRecords(own) == SetToSeq({AddressRecord(n, own[n]) : n \in DOMAIN own})

\* Faulty variant: it is added to them.
WithDynamicAdded(zones, dynamic) ==
    [z \in DOMAIN zones \cup DOMAIN dynamic |->
        RecordsOf(zones, z) \o DynamicRecords(OwnRecords(dynamic, z))]

\* A dynamic record shadows NetBox's records of its name in its zone; a zone
\* without records is a zone all the same.
WithDynamic(zones, dynamic) ==
    [z \in DOMAIN zones \cup DOMAIN dynamic |->
        LET own == OwnRecords(dynamic, z)
            netbox == RecordsOf(zones, z)
        IN  Those(netbox, {r \in ToSet(netbox) : r.name \notin DOMAIN own})
                \o DynamicRecords(own)]

DynamicPTRs(dynamic) ==
    LET zones == SetToSeq(DOMAIN dynamic)
    IN  DiscoverReverse(FlattenSeq([i \in DOMAIN zones |-> DynamicRecords(dynamic[zones[i]])]))

\* Their PTRs shadow those NetBox's records have at the same address.
ShadowPTRs(ptrs, shadows) ==
    Those(ptrs, {r \in ToSet(ptrs) : \A s \in ToSet(shadows) : s.addr # r.addr}) \o shadows

MergedZones(zones, dynamic) ==
    LET both == WithDynamic(zones, dynamic)
        ptrs == DynamicPTRs(dynamic)
    IN  [z \in DOMAIN both \cup DOMAIN ptrs |->
            IF z \in DOMAIN ptrs THEN ShadowPTRs(RecordsOf(both, z), ptrs[z]) ELSE both[z]]

\* What a merge of the store as it is now gives, and one of what was read of it.
Merged == MergedZones(netboxZones, store)

ToPublish == MergedZones(netboxZones, view)

-----------------------------------------------------------------------------
(* Manager.Update *)

\* The hash a zone's generator starts from or remembers.
LastHash(z) ==
    IF z \in DOMAIN generators THEN generators[z]
    ELSE IF z \in DOMAIN files THEN VerifiedHash(files[z])
    ELSE NoHash

ToWrite(zones) ==
    {z \in DOMAIN zones : RenderedHash(zones[z], z, config.nsip) # LastHash(z)}

\* What a client gets once the pods have loaded the files.
Answers(zoneFiles) == [n \in QName |-> Resolve(zoneFiles, n, {"A", "AAAA"})]

Serve == dns' = IF files' = files THEN dns ELSE Answers(files')

\* Faulty variant: the generator of a removed zone stays.
KeptGenerators(zones) == DOMAIN zones \cup DOMAIN generators

\* removeOrphans forgets the generators of the zones it removes.
ActiveGenerators(zones) == DOMAIN zones

Update(zones) ==
    /\ LET written == ToWrite(zones)
       IN  files' = [z \in DOMAIN zones |->
                        IF z \in written THEN FileOf(zones[z], z, config.nsip)
                        ELSE files[z]]
    /\ generators' = [z \in ActiveGenerators(zones) |->
                    IF z \in DOMAIN zones THEN RenderedHash(zones[z], z, config.nsip)
                    ELSE generators[z]]
    /\ Serve

\* mergeAllowed
MergeAllowed == known # NoData \/ DOMAIN files = {}

-----------------------------------------------------------------------------
Init ==
    /\ config \in Config
    /\ known = NoData
    /\ store = Nothing /\ files = Nothing /\ generators = Nothing
    /\ mergeSignal = FALSE
    /\ pc = "start"
    /\ unread = {} /\ view = Nothing
    /\ dns = [n \in QName |-> {}]

\* doFetchNetbox succeeds.
Poll(a) ==
    /\ pc \in {"start", "idle"}
    /\ known' = a
    /\ pc' = "merge"
    /\ UNCHANGED <<config, store, files, generators, mergeSignal, readVars, dns>>

\* It fails, or the guard refuses: the last zones are merged again.
PollFails ==
    /\ pc \in {"start", "idle"}
    /\ pc' = "merge"
    /\ UNCHANGED <<config, known, store, files, generators, mergeSignal, readVars,
                   dns>>

TakeSignal ==
    /\ pc = "idle" /\ mergeSignal
    /\ mergeSignal' = FALSE
    /\ pc' = "merge"
    /\ UNCHANGED <<config, known, store, files, generators, readVars, dns>>

\* guardedMergeAndWrite: no merge before the first poll has succeeded, unless
\* there is nothing to lose.
MergeGated ==
    /\ pc = "merge" /\ ~MergeAllowed
    /\ pc' = "idle"
    /\ UNCHANGED <<config, known, store, files, generators, mergeSignal, readVars,
                   dns>>

\* merge.Write lists the store's zones.
ListZones ==
    /\ pc = "merge" /\ MergeAllowed
    /\ pc' = "reading"
    /\ unread' = DOMAIN store /\ view' = Nothing
    /\ UNCHANGED <<config, known, store, files, generators, mergeSignal, dns>>

\* GetRecords: it reads them one after the other, in any order; a zone that is gone
\* by now has no records.
ReadZone(z) ==
    /\ pc = "reading" /\ z \in unread
    /\ unread' = unread \ {z} /\ view' = Over([y \in {z} |-> DynamicOf(z)], view)
    /\ UNCHANGED <<config, known, store, files, generators, mergeSignal, pc, dns>>

\* The read is over; what was read goes out of scope.
EndRead == unread' = {} /\ view' = Nothing

\* It merges what it has read and Update writes it.
Merge ==
    /\ pc = "reading" /\ unread = {}
    /\ Update(ToPublish)
    /\ pc' = "idle"
    /\ EndRead
    /\ UNCHANGED <<config, known, store, mergeSignal>>

-----------------------------------------------------------------------------
(* dynamicZoneService, at any time *)

\* HasRecord: the name as it is spelled, in any zone, as what a PTR points to too.
HasRecord(n) ==
    \E z \in DOMAIN netboxZones : \E r \in ToSet(netboxZones[z]) : r.name = n

StoreBecomes(s) ==
    /\ store' = s
    /\ mergeSignal' = TRUE
    /\ UNCHANGED <<config, known, files, generators, pc, readVars, dns>>

UpsertRecord(w, force) ==
    /\ force \/ ~HasRecord(w.name)
    /\ StoreBecomes(Over([z \in {w.zone} |->
                        Over([n \in {w.name} |-> w.addr], DynamicOf(w.zone))], store))

\* Deletes from a zone the store does not have create it, empty.
Without(z, names) ==
    Over([y \in {z} |-> [n \in DOMAIN DynamicOf(z) \ names |-> DynamicOf(z)[n]]], store)

DeleteRecord(w) == StoreBecomes(Without(w.zone, {w.name}))

\* The request's map by zone: of two entries for a zone the last counts.
LastEntry(b, z) == CHOOSE i \in DOMAIN b :
    b[i].zone = z /\ \A j \in DOMAIN b : b[j].zone = z => j <= i

\* One conflict refuses the whole batch.
BatchUpsert(b, force) ==
    /\ force \/ \A i \in DOMAIN b : \A n \in DOMAIN b[i].records : ~HasRecord(n)
    /\ StoreBecomes(Over([z \in {b[i].zone : i \in DOMAIN b} |->
                        Over(b[LastEntry(b, z)].records, DynamicOf(z))], store))

BatchDelete(z, names) == StoreBecomes(Without(z, names))

CreateZone(z) == StoreBecomes(Over([y \in {z} |-> DynamicOf(z)], store))

DeleteZone(z) == StoreBecomes([y \in DOMAIN store \ {z} |-> store[y]])

DynamicZone == {w.zone : w \in Write}

GRPC ==
    \/ \E w \in Write, force \in BOOLEAN : UpsertRecord(w, force)
    \/ \E w \in Write : DeleteRecord(w)
    \/ \E b \in Batch, force \in BOOLEAN : BatchUpsert(b, force)
    \/ \E z \in DynamicZone : \/ BatchDelete(z, {w.name : w \in Write})
                              \/ CreateZone(z)
                              \/ DeleteZone(z)

-----------------------------------------------------------------------------
\* A file cut short keeps its header, and with it both fingerprints.
CutShort(file, z) == [rrs |-> Apex(z), body |-> file.body, hash |-> file.hash]

\* The process ends and another starts, perhaps with another configuration; of
\* the files at most one was damaged meanwhile (bound).
Restart(c, damaged) ==
    /\ config' = c
    /\ files' = [z \in DOMAIN files |->
                    IF z \in damaged THEN CutShort(files[z], z) ELSE files[z]]
    /\ Serve
    /\ known' = NoData
    /\ generators' = Nothing
    /\ mergeSignal' = FALSE
    /\ pc' = "start"
    /\ EndRead
    /\ store' = store

Next ==
    \/ \E a \in Answer : Poll(a)
    \/ PollFails \/ TakeSignal \/ MergeGated
    \/ ListZones \/ (\E z \in unread : ReadZone(z)) \/ Merge
    \/ GRPC
    \/ \E c \in Rollout[config] : \/ Restart(c, {})
                                  \/ \E z \in DOMAIN files \cap Fragile : Restart(c, {z})

Spec == Init /\ [][Next]_vars

-----------------------------------------------------------------------------
(* Properties *)

\* State is well formed: a generator never outlives its file, so that its hash
\* speaks for a file that exists (manager.go deletes both together, lines 158-168).
TypeOK ==
    /\ config \in Config
    /\ known \in Answer \cup {NoData}
    /\ \A dynamic \in {store, view} : \A z \in DOMAIN dynamic :
         \A n \in DOMAIN dynamic[z] : dynamic[z][n] \in DOMAIN ReverseName
    /\ DOMAIN generators \subseteq DOMAIN files
    /\ \A z \in DOMAIN files : Apex(z) \subseteq files[z].rrs
    /\ mergeSignal \in BOOLEAN
    /\ pc \in {"start", "idle", "merge", "reading"}
    /\ pc # "reading" => unread = {} /\ view = Nothing
    /\ pc = "start" => generators = Nothing
    /\ DOMAIN dns = QName

\* The loop waits, nothing asks it to merge, and it has fetched.
Quiet == pc = "idle" /\ ~mergeSignal /\ known # NoData

\* What is on disk is what the records, the store and the configuration of now
\* render to: no hash comparison in Generate or NewGenerator skips a zone whose
\* contents, configuration or damage call for a write.
FilesAreCurrent ==
    LET merged == Merged
    IN  Quiet => /\ DOMAIN files = DOMAIN merged
                 /\ \A z \in DOMAIN files :
                        files[z].rrs = RenderedRRs(merged[z], z, config.nsip)

\* An undamaged file is rewritten only if what it holds changes: the order of
\* NetBox's answer, polls, restarts and changes of other zones do not bump its
\* serial and cause a transfer (generator.go, G5).  PRIMARY_NS_IP does, in every
\* zone, and so does the number of times a record is held.  A record that takes
\* the place of one printed like it, such as the name with a trailing dot, would
\* be an exception too; the answers of the instance have none.
NoIdleRewrite ==
    [][\A z \in DOMAIN files \cap DOMAIN files' :
        files'[z] # files[z] /\ files[z].rrs = files[z].body =>
            \/ files'[z].rrs # files[z].rrs
            \/ files'[z].hash[2] # files[z].hash[2]
            \/ \E r \in DOMAIN files[z].hash[1] \cap DOMAIN files'[z].hash[1] :
                    files'[z].hash[1][r] # files[z].hash[1][r]]_vars

\* No name of a zone file has a CNAME beside anything else, whatever mixture of
\* devices, spellings and operators' records claims it (collisions.go, RFC 1034
\* 3.6.2); the one exception is an alias that spells PRIMARY_NS otherwise.
CnameAlone ==
    \A z \in DOMAIN files : ~IsReverseZone(z) =>
        \A c, rr \in files[z].rrs :
            c.type = "CNAME" /\ Lower(rr.owner) = Lower(c.owner) /\ rr # c =>
                rr.owner = PrimaryNS /\ c.owner # PrimaryNS

\* Nothing NetBox or an operator calls a host gets into a file that CoreDNS then
\* cannot parse, which would stop every later update (dropUnsafeNames, G8).  The
\* name of the zone itself is nowhere checked.
FilesParse ==
    \A z \in DOMAIN files : SafeName(z) =>
        \A rr \in files[z].rrs :
            /\ SafeName(rr.owner)
            /\ rr.type \in {"CNAME", "PTR"} => SafeName(rr.data)

\* What STRIP_DC_LABEL makes of a name.
Final(n) == IF config.strip THEN StripName(n) ELSE n

\* The addresses a client gets who asks for a name, without its trailing dot.
Gets(n) == Resolve(files, TrimDot(n), {"A", "AAAA"})

\* Why a record of NetBox need not resolve: it is unsafe, has too few labels for
\* a zone, lost its zone to the strip or has one in capitals, its name is in a
\* reverse zone, or an operator's record or a deeper zone takes its place, as one
\* can that the strip or its capitals kept it from.  filed: the zones before the
\* strip.
Excused(r, filed) ==
    LET n == Final(r.name)
        home == {z \in DOMAIN filed : r \in ToSet(filed[z])}
        Deeper(y, z) == InZone(Key(n), y) /\ Len(y) > Len(z)
    IN  \/ ~SafeName(n) \/ (IsAlias(r) /\ ~SafeName(Final(r.target)))
        \/ \E y \in ReverseZones : InZone(Key(n), y)
        \/ home = {}
        \/ \E z \in home :
             \/ ~InZone(Key(n), z) \/ IsReverseZone(z)
             \/ n \in DOMAIN DynamicOf(z)
             \/ \E y \in DOMAIN store : Deeper(y, z)
             \/ /\ config.strip \/ Key(n) # TrimDot(n)
                /\ \E y \in DOMAIN files : Deeper(y, z)

\* Of all records only a's device, or devices that agree, claim the alias; nor does
\* the sidecar itself, as PRIMARY_NS in another spelling.
SoleClaim(a, records) ==
    LET n == Key(Final(a.name)) IN
    /\ \A q \in records : Key(Final(q.name)) = n =>
            /\ IsAlias(q) /\ Key(Final(q.target)) = Key(Final(a.target))
            /\ n = Lower(PrimaryNS) /\ config.nsip # NoIP => TrimDot(Final(q.name)) = PrimaryNS
    /\ \A z \in DOMAIN store : \A m \in DOMAIN store[z] : Key(m) # n
    /\ n \notin DOMAIN files

\* NetBox's records, named, that nothing excuses.
Due == LET filed == ForwardZones(config, known)
       IN  {r \in ToSet(Enrich(Row[known])) : ~Excused(r, filed)}

\* From NetBox's rows to an answer: every address NetBox has for a name, or the
\* sidecar picked for a device, is what a client gets for the name, through naming,
\* discovery, strip, merge, collisions, files and the plugin's lookup.
AddressesResolve ==
    Quiet => \A r \in Due : ~IsAlias(r) => r.addr \in Gets(Final(r.name))

\* And for each alias of the name that nobody disputes, though the zone of the one
\* need not be the zone of the other, unless the alias's zone has other records of
\* the name, which answer instead (zones.go follows inside a zone first).
AliasesResolve ==
    Quiet =>
        LET due   == Due
            filed == ForwardZones(config, known)
        IN  \A a \in {r \in due : IsAlias(r)} : SoleClaim(a, ToSet(Enrich(Row[known]))) =>
                \A r \in {r \in due : ~IsAlias(r)} :
                    /\ Key(Final(r.name)) = Key(Final(a.target))
                    /\ \A z \in DOMAIN filed : a \in ToSet(filed[z]) =>
                            \/ r \in ToSet(filed[z])
                            \/ At(files[z], Key(Final(r.name))) = {}
                    => r.addr \in Gets(Final(a.name))

\* What NetBox says of a name is what a client gets: its addresses, and by its
\* aliases too (fetchNetbox and doFetchNetbox, merge.Write, findZone).
NetboxResolves == AddressesResolve /\ AliasesResolve

\* An operator's record is what a client gets for its name, and of what NetBox has
\* in its zone nothing but a name in another spelling comes with it (merge.go, lines
\* 45-59), unless a deeper zone or a reverse zone answers for the name.
OperatorsResolve ==
    Quiet =>
        \A z \in DOMAIN store \ (ReverseZones \cup {NoZone}) : \A n \in DOMAIN store[z] :
            /\ SafeName(n) /\ InZone(Key(n), z) /\ ~IsReverseZone(z)
            /\ \A y \in DOMAIN files : InZone(Key(n), y) => Len(y) <= Len(z)
            => /\ store[z][n] \in Gets(n)
               /\ Gets(n) \subseteq
                    {store[z][m] : m \in {m \in DOMAIN store[z] : Key(m) = Key(n)}}
                    \cup {r.addr : r \in {r \in ToSet(RecordsOf(netboxZones, z)) :
                                Key(r.name) = Key(n) /\ r.name \notin DOMAIN store[z]}}
                    \cup {a \in {config.nsip} : Key(n) = Lower(PrimaryNS)}

\* Forward and reverse agree: an address in a zone file has a PTR that leads back
\* to its name, unless an operator's record took the address or its reverse zone
\* over (merge.go, lines 61-81); PRIMARY_NS_IP has none.
PtrsMatchAddresses ==
    Quiet =>
        \A z \in DOMAIN files : \A rr \in files[z].rrs :
            /\ rr.type \in {"A", "AAAA"}
            /\ ReverseZoneOf(rr.data) # NoZone
            /\ <<rr.owner, rr.data>> # <<PrimaryNS, config.nsip>>
            => \/ rr.owner \in Resolve(files, ReverseName[rr.data], {"PTR"})
               \/ \E y \in DOMAIN store :
                    \/ InZone(ReverseName[rr.data], y)
                    \/ \E n \in DOMAIN store[y] :
                         ReverseName[store[y][n]] = ReverseName[rr.data]

\* An answer that only adds rows is never refused as a shrink: what the guard
\* counts falls in no forward zone, although the added names may make collisions
\* that publish fewer records (main.go, lines 621-625).  An answer may have a row
\* twice, and common-suffix may name the zone anew.
GrowthIsNotShrink ==
    [][/\ known' # known /\ known # NoData /\ known' # NoData
       /\ ToBag(Row[known]) \sqsubseteq ToBag(Row[known'])
       /\ config'.mode.by # "common-suffix"
       => \A z \in DOMAIN CountZoneRecords(netboxZones) : ~IsReverseZone(z) =>
            /\ z \in DOMAIN netboxZones'
            /\ CountZoneRecords(netboxZones)[z] <= CountZoneRecords(netboxZones)'[z]]_vars

\* The refinement: DNS changes only when the sidecar merges, and is then what
\* NetBox's records mean under the operators', each zone's as they were at one
\* moment since the merge began.
Promise == INSTANCE DnsPromise WITH
    netbox  <- [z \in DOMAIN netboxZones |-> ToSet(netboxZones[z])],
    dynamic <- store,
    looking <- pc = "reading",
    nsip    <- config.nsip

PromiseSpec == Promise!Spec
=============================================================================
