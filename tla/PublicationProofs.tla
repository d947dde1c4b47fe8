------------------------- MODULE PublicationProofs -------------------------
(***************************************************************************)
(* Proofs about Publication, for every configuration, answer of NetBox,    *)
(* operator's record and name.                                             *)
(***************************************************************************)
EXTENDS Publication, NameProofs

-----------------------------------------------------------------------------
(* What Generate renders *)

\* Of the resource records of a forward zone only a record of NetBox's or an
\* operator's alias is a CNAME (Generate, RecordRR).
LEMMA AliasOf ==
    ASSUME NEW records, NEW zone, NEW nsip, ~IsReverseZone(zone),
           NEW c \in RenderedRRs(records, zone, nsip), c.type = "CNAME"
    PROVE  \E i \in Published(records, zone) :
              IsAlias(records[i]) /\ c = RecordRR(records[i], zone)
  <1>1. c \notin Apex(zone)
    BY DEF Apex, RR
  <1>2. c \notin PrimaryNSAddress(records, Published(records, zone), zone, nsip)
    BY DEF PrimaryNSAddress, RR, AddressRecord
  <1>3. PICK i \in Published(records, zone) : c = RecordRR(records[i], zone)
    BY <1>1, <1>2 DEF RenderedRRs
  <1>4. IsAlias(records[i])
    BY <1>3 DEF RecordRR, RR, IsAlias
  <1> QED
    BY <1>3, <1>4

\* A published alias has its owner to itself among the published records, and is
\* not the zone's own name (resolveCNAMECollisions).
LEMMA AliasAlone ==
    ASSUME NEW records, NEW zone, ~IsReverseZone(zone),
           NEW i \in Published(records, zone), IsAlias(records[i])
    PROVE  /\ Key(records[i].name) # Key(zone)
           /\ \A j \in Published(records, zone) :
                 Key(records[j].name) = Key(records[i].name) => j = i
  <1> DEFINE S == SafeIndices(records)
  <1>1. Published(records, zone) = CollisionFree(records, S, zone)
    BY DEF Published
  <1>2. /\ i \in S
        /\ Key(records[i].name) # Key(zone)
        /\ SoleAlias(records, S, i)
    BY <1>1 DEF CollisionFree
  <1>3. ASSUME NEW j \in Published(records, zone),
               Key(records[j].name) = Key(records[i].name)
        PROVE  j = i
    <2>1. j \in SameOwner(records, S, i)
      BY <1>1, <1>3 DEF CollisionFree, SameOwner
    <2>2. IsAlias(records[j])
      BY <1>2, <2>1 DEF SoleAlias
    <2>3. SoleAlias(records, S, j)
      BY <1>1, <2>2 DEF CollisionFree
    <2>4. SameOwner(records, S, i) = SameOwner(records, S, j)
      BY <1>3 DEF SameOwner
    <2> QED
      BY <1>2, <2>3, <2>4 DEF SoleAlias
  <1> QED
    BY <1>2, <1>3

\* A CNAME of a rendered forward zone has its owner to itself, but for PRIMARY_NS
\* in another spelling (collisions.go, writePrimaryNSAddress).
LEMMA RenderedAlone ==
    ASSUME NEW records, NEW zone, NEW nsip, ~IsReverseZone(zone),
           NEW c \in RenderedRRs(records, zone, nsip), c.type = "CNAME",
           NEW rr \in RenderedRRs(records, zone, nsip),
           Lower(rr.owner) = Lower(c.owner), rr # c
    PROVE  rr.owner = PrimaryNS /\ c.owner # PrimaryNS
  <1> DEFINE K == Published(records, zone)
  <1>1. PICK i \in K : IsAlias(records[i]) /\ c = RecordRR(records[i], zone)
    BY AliasOf
  <1>2. c.owner = TrimDot(records[i].name)
    BY <1>1 DEF RecordRR, RR
  <1>3. /\ Key(records[i].name) # Key(zone)
        /\ \A j \in K : Key(records[j].name) = Key(records[i].name) => j = i
    BY <1>1, AliasAlone
  <1>4. rr \notin Apex(zone)
    BY <1>2, <1>3 DEF Apex, RR, Key
  <1>5. CASE rr \in PrimaryNSAddress(records, K, zone, nsip)
    <2>1. rr.owner = PrimaryNS
      BY <1>5 DEF PrimaryNSAddress, RR
    <2>2. ~\E j \in K : TrimDot(records[j].name) = PrimaryNS
      BY <1>5 DEF PrimaryNSAddress
    <2> QED
      BY <1>2, <2>1, <2>2
  <1>6. CASE \E j \in K : rr = RecordRR(records[j], zone)
    <2>1. PICK j \in K : rr = RecordRR(records[j], zone)
      BY <1>6
    <2>2. rr.owner = TrimDot(records[j].name)
      BY <2>1 DEF RecordRR, RR
    <2>3. Key(records[j].name) = Key(records[i].name)
      BY <1>2, <2>2 DEF Key
    <2>4. j = i
      BY <1>3, <2>3
    <2> QED
      BY <1>1, <2>1, <2>4
  <1> QED
    BY <1>4, <1>5, <1>6 DEF RenderedRRs

\* Two record sets with one content-hash render to the same file (fingerprint
\* covers whatever Generate prints).
LEMMA HashDetermines ==
    ASSUME NEW zone, NEW r1, NEW n1, NEW r2, NEW n2,
           RenderedHash(r1, zone, n1) = RenderedHash(r2, zone, n2)
    PROVE  RenderedRRs(r1, zone, n1) = RenderedRRs(r2, zone, n2)
  <1> DEFINE K1 == Published(r1, zone)
             K2 == Published(r2, zone)
             Held(r, K) == {r[i] : i \in K}
  <1> HIDE DEF K1, K2
  <1>1. n1 = n2
    BY DEF RenderedHash, Fingerprint, K1, K2
  <1>2. Held(r1, K1) = Held(r2, K2)
    <2> DEFINE Count(r, K) == [x \in Held(r, K) |-> Cardinality({i \in K : r[i] = x})]
    <2>1. Count(r1, K1) = Count(r2, K2)
      BY DEF RenderedHash, Fingerprint, K1, K2
    <2>2. DOMAIN Count(r1, K1) = Held(r1, K1) /\ DOMAIN Count(r2, K2) = Held(r2, K2)
      OBVIOUS
    <2> QED
      BY <2>1, <2>2
  <1>3. {RecordRR(r1[i], zone) : i \in K1} = {RecordRR(r2[i], zone) : i \in K2}
    BY <1>2
  <1>4. PrimaryNSAddress(r1, K1, zone, n1) = PrimaryNSAddress(r2, K2, zone, n2)
    <2>1. (\E i \in K1 : TrimDot(r1[i].name) = PrimaryNS)
            <=> (\E i \in K2 : TrimDot(r2[i].name) = PrimaryNS)
      BY <1>2
    <2> QED
      BY <1>1, <2>1 DEF PrimaryNSAddress
  <1> QED
    BY <1>3, <1>4 DEF RenderedRRs, K1, K2

\* A content-hash is never the empty one a generator starts from.
LEMMA HashIsSet ==
    ASSUME NEW records, NEW zone, NEW nsip
    PROVE  RenderedHash(records, zone, nsip) # NoHash
  BY DEF RenderedHash, Fingerprint, NoHash

-----------------------------------------------------------------------------
(* Type correctness *)

\* What Update keeps is there: a zone it does not write has a file (NewGenerator,
\* Generate).
LEMMA KeptFile ==
    ASSUME DOMAIN generators \subseteq DOMAIN files,
           NEW zones, NEW z \in DOMAIN zones, z \notin ToWrite(zones)
    PROVE  z \in DOMAIN files /\ RenderedHash(zones[z], z, config.nsip) = LastHash(z)
  <1>1. RenderedHash(zones[z], z, config.nsip) = LastHash(z)
    BY DEF ToWrite
  <1>2. LastHash(z) # NoHash
    BY <1>1, HashIsSet
  <1> QED
    BY <1>1, <1>2 DEF LastHash

\* Every address in a store is one an operator can write.
Addressed(s) == \A z \in DOMAIN s : \A n \in DOMAIN s[z] : s[z][n] \in DOMAIN ReverseName

LEMMA OverAddressed ==
    ASSUME NEW s, Addressed(s), NEW t, Addressed(t)
    PROVE  Addressed(Over(s, t))
  BY DEF Addressed, Over

\* Each zone of a batch has a last entry (BatchUpsert's map).
LEMMA LastEntryIsOne ==
    ASSUME NEW b \in Batch, NEW z \in {b[i].zone : i \in DOMAIN b}
    PROVE  LastEntry(b, z) \in DOMAIN b
  <1> DEFINE T == {i \in DOMAIN b : b[i].zone = z}
  <1>1. Len(b) \in Nat /\ DOMAIN b = 1..Len(b)
    BY PublicationAssumption, SeqFacts
  <1>2. T # {} /\ T \subseteq Nat /\ T \in SUBSET (1..Len(b))
    BY <1>1
  <1>3. IsFiniteSet(1..Len(b))
    BY <1>1, FS_Interval
  <1> HIDE DEF T
  <1>4. PICK i \in T : \A j \in T : j <= i
    BY <1>2, <1>3, FS_Subset, LargestExists
  <1> QED
    BY <1>4 DEF LastEntry, T

\* The gRPC handlers keep the store well formed.
LEMMA StoreStep ==
    ASSUME Addressed(store), GRPC
    PROVE  Addressed(store')
  <1>1. \A z : \A n \in DOMAIN DynamicOf(z) : DynamicOf(z)[n] \in DOMAIN ReverseName
    BY DEF Addressed, DynamicOf, OwnRecords, NoRecords
  <1>2. ASSUME NEW z, NEW names, StoreBecomes(Without(z, names))
        PROVE  Addressed(store')
    BY <1>1, <1>2, OverAddressed DEF StoreBecomes, Without, Addressed
  <1>3. ASSUME NEW w \in Write, NEW force \in BOOLEAN, UpsertRecord(w, force)
        PROVE  Addressed(store')
    <2> DEFINE new == Over([n \in {w.name} |-> w.addr], DynamicOf(w.zone))
    <2>1. store' = Over([z \in {w.zone} |-> new], store)
      BY <1>3 DEF UpsertRecord, StoreBecomes
    <2>2. \A n \in DOMAIN new : new[n] \in DOMAIN ReverseName
      BY <1>1, PublicationAssumption DEF Over
    <2> HIDE DEF new
    <2>3. Addressed([z \in {w.zone} |-> new])
      BY <2>2 DEF Addressed
    <2> QED
      BY <2>1, <2>3, OverAddressed
  <1>4. ASSUME NEW b \in Batch, NEW force \in BOOLEAN, BatchUpsert(b, force)
        PROVE  Addressed(store')
    <2> DEFINE zones == {b[i].zone : i \in DOMAIN b}
               new == [z \in zones |-> Over(b[LastEntry(b, z)].records, DynamicOf(z))]
    <2>1. store' = Over(new, store)
      BY <1>4 DEF BatchUpsert, StoreBecomes
    <2>2. ASSUME NEW z \in zones, NEW n \in DOMAIN new[z]
          PROVE  new[z][n] \in DOMAIN ReverseName
      <3>1. \A m \in DOMAIN b[LastEntry(b, z)].records :
                b[LastEntry(b, z)].records[m] \in DOMAIN ReverseName
        BY LastEntryIsOne, PublicationAssumption
      <3> QED
        BY <1>1, <3>1 DEF Over
    <2>3. Addressed(new)
      BY <2>2 DEF Addressed
    <2> HIDE DEF new
    <2> QED
      BY <2>1, <2>3, OverAddressed
  <1>5. ASSUME NEW z, CreateZone(z)
        PROVE  Addressed(store')
    BY <1>1, <1>5, OverAddressed DEF CreateZone, StoreBecomes, Addressed
  <1>6. ASSUME NEW z, DeleteZone(z)
        PROVE  Addressed(store')
    BY <1>6 DEF DeleteZone, StoreBecomes, Addressed
  <1> QED
    BY <1>2, <1>3, <1>4, <1>5, <1>6 DEF GRPC, DeleteRecord, BatchDelete

\* TypeOK's part about stored addresses is Addressed, of the store and of what a
\* merge has read of it.
LEMMA TypeStep == TypeOK /\ [Next]_vars => TypeOK'
  <1> SUFFICES ASSUME TypeOK, [Next]_vars
               PROVE  TypeOK'
    OBVIOUS
  <1>0. /\ config \in Config
        /\ known \in Answer \cup {NoData}
        /\ Addressed(store) /\ Addressed(view)
        /\ DOMAIN generators \subseteq DOMAIN files
        /\ \A z \in DOMAIN files : Apex(z) \subseteq files[z].rrs
        /\ mergeSignal \in BOOLEAN
        /\ pc \in {"start", "idle", "merge", "reading"}
        /\ pc # "reading" => unread = {} /\ view = Nothing
        /\ pc = "start" => generators = Nothing
        /\ DOMAIN dns = QName
    BY DEF TypeOK, Addressed
  <1>1. ASSUME NEW a \in Answer, Poll(a)
        PROVE  TypeOK'
    BY <1>0, <1>1 DEF TypeOK, Addressed, Poll, readVars
  <1>2. CASE PollFails
    BY <1>0, <1>2 DEF TypeOK, Addressed, PollFails, readVars
  <1>3. CASE TakeSignal
    BY <1>0, <1>3 DEF TypeOK, Addressed, TakeSignal, readVars
  <1>4. CASE Merge
    <2>1. /\ UNCHANGED <<config, known, store, mergeSignal>> /\ pc' = "idle"
          /\ unread' = {} /\ view' = Nothing
      BY <1>4 DEF Merge, EndRead
    <2>2. DOMAIN generators' = DOMAIN ToPublish /\ DOMAIN files' = DOMAIN ToPublish
      BY <1>4 DEF Merge, Update, ActiveGenerators
    <2>3. ASSUME NEW z \in DOMAIN files'
          PROVE  Apex(z) \subseteq files'[z].rrs
      <3>1. CASE z \in ToWrite(ToPublish)
        <4>1. files'[z] = FileOf(ToPublish[z], z, config.nsip)
          BY <1>4, <2>2, <3>1 DEF Merge, Update
        <4> QED
          BY <4>1 DEF FileOf, RenderedRRs
      <3>2. CASE z \notin ToWrite(ToPublish)
        <4>1. files'[z] = files[z]
          BY <1>4, <2>2, <3>2 DEF Merge, Update
        <4>2. z \in DOMAIN files
          BY <1>0, <2>2, <3>2, KeptFile
        <4> QED
          BY <1>0, <4>1, <4>2
      <3> QED
        BY <3>1, <3>2
    <2>4. DOMAIN dns' = QName
      BY <1>0, <1>4 DEF Merge, Update, Serve, Answers
    <2> QED
      BY <1>0, <2>1, <2>2, <2>3, <2>4 DEF TypeOK, Addressed, Nothing
  <1>5. CASE MergeGated
    BY <1>0, <1>5 DEF TypeOK, Addressed, MergeGated, readVars
  <1>6. CASE GRPC
    <2>1. /\ UNCHANGED <<config, known, files, generators, pc, unread, view, dns>>
          /\ mergeSignal' = TRUE
      BY <1>6 DEF GRPC, UpsertRecord, DeleteRecord, BatchUpsert, BatchDelete,
                  CreateZone, DeleteZone, StoreBecomes, readVars
    <2>2. Addressed(store')
      BY <1>0, <1>6, StoreStep
    <2> QED
      BY <1>0, <2>1, <2>2 DEF TypeOK, Addressed
  <1>7. ASSUME NEW c \in Rollout[config], NEW damaged, Restart(c, damaged)
        PROVE  TypeOK'
    <2>1. c \in Config
      BY <1>0, PublicationAssumption
    <2>2. DOMAIN files' = DOMAIN files
      BY <1>7 DEF Restart
    <2>3. \A z \in DOMAIN files' : Apex(z) \subseteq files'[z].rrs
      BY <1>0, <1>7 DEF Restart, CutShort
    <2>4. DOMAIN dns' = QName
      BY <1>0, <1>7 DEF Restart, Serve, Answers
    <2> QED
      BY <1>0, <1>7, <2>1, <2>2, <2>3, <2>4 DEF Restart, EndRead, TypeOK,
        Addressed, Nothing
  <1>8. CASE ListZones
    BY <1>0, <1>8 DEF TypeOK, Addressed, ListZones, Nothing
  <1>9. ASSUME NEW z, ReadZone(z)
        PROVE  TypeOK'
    <2>1. Addressed([y \in {z} |-> DynamicOf(z)])
      BY <1>0 DEF Addressed, DynamicOf, OwnRecords, NoRecords
    <2>2. Addressed(view')
      BY <1>0, <1>9, <2>1, OverAddressed DEF ReadZone
    <2> QED
      BY <1>0, <1>9, <2>2 DEF TypeOK, Addressed, ReadZone
  <1>10. CASE UNCHANGED vars
    BY <1>0, <1>10 DEF TypeOK, Addressed, vars, readVars
  <1> QED
    BY <1>1, <1>2, <1>3, <1>4, <1>5, <1>6, <1>7, <1>8, <1>9, <1>10 DEF Next

\* The state is well formed in every reachable state: a generator never outlives
\* its file (manager.go, lines 158-168).
THEOREM TypeCorrect == Spec => []TypeOK
  <1>1. Init => TypeOK
    BY DEF Init, TypeOK, Nothing
  <1> QED
    BY <1>1, TypeStep, PTL DEF Spec

-----------------------------------------------------------------------------
(* CNAMEs stand alone *)

\* What CnameAlone says of the file of a forward zone.
Alone(rrs) ==
    \A c, rr \in rrs :
        c.type = "CNAME" /\ Lower(rr.owner) = Lower(c.owner) /\ rr # c =>
            rr.owner = PrimaryNS /\ c.owner # PrimaryNS

\* A file that lost its records has no aliases.
LEMMA ApexAlone == \A z : Alone(Apex(z))
  BY DEF Alone, Apex, RR

LEMMA RenderedIsAlone ==
    ASSUME NEW records, NEW zone, NEW nsip, ~IsReverseZone(zone)
    PROVE  Alone(FileOf(records, zone, nsip).rrs)
  BY RenderedAlone DEF Alone, FileOf

\* No step puts a CNAME beside another record in a forward zone's file: Merge
\* renders the file or keeps it, Restart cuts it short or keeps it.
LEMMA AloneStep == TypeOK /\ CnameAlone /\ [Next]_vars => CnameAlone'
  <1> SUFFICES ASSUME TypeOK, CnameAlone, [Next]_vars,
                      NEW z \in DOMAIN files', ~IsReverseZone(z)
               PROVE  Alone(files'[z].rrs)
    BY DEF CnameAlone, Alone
  <1>1. ASSUME z \in DOMAIN files, files'[z] = files[z]
        PROVE  Alone(files'[z].rrs)
    BY <1>1 DEF CnameAlone, Alone
  <1>2. CASE Merge
    <2>1. z \in DOMAIN ToPublish
      BY <1>2 DEF Merge, Update
    <2>2. CASE z \in ToWrite(ToPublish)
      <3>1. files'[z] = FileOf(ToPublish[z], z, config.nsip)
        BY <1>2, <2>1, <2>2 DEF Merge, Update
      <3> QED
        BY <3>1, RenderedIsAlone
    <2>3. CASE z \notin ToWrite(ToPublish)
      <3>1. files'[z] = files[z]
        BY <1>2, <2>1, <2>3 DEF Merge, Update
      <3>2. z \in DOMAIN files
        BY <2>1, <2>3, KeptFile DEF TypeOK
      <3> QED
        BY <3>1, <3>2, <1>1
    <2> QED
      BY <2>2, <2>3
  <1>3. ASSUME NEW c, NEW damaged, Restart(c, damaged)
        PROVE  Alone(files'[z].rrs)
    <2>1. z \in DOMAIN files
      BY <1>3 DEF Restart
    <2>2. CASE z \in damaged
      BY <1>3, <2>1, <2>2, ApexAlone DEF Restart, CutShort
    <2>3. CASE z \notin damaged
      BY <1>1, <1>3, <2>1, <2>3 DEF Restart
    <2> QED
      BY <2>2, <2>3
  <1>4. CASE files' = files
    BY <1>1, <1>4
  <1> QED
    BY <1>2, <1>3, <1>4 DEF Next, vars, Poll, PollFails, TakeSignal, MergeGated,
        ListZones, ReadZone, GRPC, UpsertRecord, DeleteRecord, BatchUpsert, BatchDelete,
        CreateZone, DeleteZone, StoreBecomes

\* In every reachable state no name of a forward zone's file has a CNAME beside
\* anything else, but for PRIMARY_NS in another spelling (collisions.go).
THEOREM AliasesAlone == Spec => []CnameAlone
  <1>1. Init => CnameAlone
    BY DEF Init, CnameAlone, Nothing
  <1> QED
    BY <1>1, AloneStep, TypeCorrect, PTL DEF Spec
-----------------------------------------------------------------------------
(* What is on disk is current *)

\* Both fingerprints of a file were taken of one set of records (withFingerprints).
Genuine(file, z) ==
    \E records, nsip : /\ file.hash = RenderedHash(records, z, nsip)
                       /\ file.body = RenderedRRs(records, z, nsip)

\* The strengthening: fingerprints are genuine in damaged files too, and the file
\* of a generator that remembers a hash is the one that hash was taken of.
CurrentInv ==
    /\ \A z \in DOMAIN files : Genuine(files[z], z)
    /\ \A z \in DOMAIN generators :
         generators[z] = files[z].hash /\ files[z].rrs = files[z].body
    /\ FilesAreCurrent

LEMMA FileIsGenuine ==
    ASSUME NEW records, NEW z, NEW nsip
    PROVE  /\ Genuine(FileOf(records, z, nsip), z)
           /\ FileOf(records, z, nsip).rrs = RenderedRRs(records, z, nsip)
           /\ FileOf(records, z, nsip).body = RenderedRRs(records, z, nsip)
           /\ FileOf(records, z, nsip).hash = RenderedHash(records, z, nsip)
  BY DEF Genuine, FileOf

\* A genuine file with the hash of a set of records holds what they render to.
LEMMA GenuineIsCurrent ==
    ASSUME NEW file, NEW z, Genuine(file, z),
           NEW records, NEW nsip, file.hash = RenderedHash(records, z, nsip)
    PROVE  file.body = RenderedRRs(records, z, nsip)
  <1>1. PICK r, n : file.hash = RenderedHash(r, z, n) /\ file.body = RenderedRRs(r, z, n)
    BY Zenon DEF Genuine
  <1>2. RenderedHash(r, z, n) = RenderedHash(records, z, nsip)
    BY <1>1
  <1>3. RenderedRRs(r, z, n) = RenderedRRs(records, z, nsip)
    BY <1>2, HashDetermines
  <1> QED
    BY <1>1, <1>3

\* A zone that Update leaves alone has the file its records render to.
LEMMA KeptIsCurrent ==
    ASSUME TypeOK, CurrentInv,
           NEW zones, NEW z \in DOMAIN zones, z \notin ToWrite(zones)
    PROVE  /\ z \in DOMAIN files
           /\ files[z].hash = RenderedHash(zones[z], z, config.nsip)
           /\ files[z].rrs = files[z].body
           /\ files[z].rrs = RenderedRRs(zones[z], z, config.nsip)
  <1>1. /\ z \in DOMAIN files
        /\ RenderedHash(zones[z], z, config.nsip) = LastHash(z)
    BY KeptFile DEF TypeOK
  <1>2. LastHash(z) # NoHash
    BY <1>1, HashIsSet
  <1>3. LastHash(z) = files[z].hash /\ files[z].rrs = files[z].body
    BY <1>1, <1>2 DEF LastHash, VerifiedHash, CurrentInv
  <1>4. Genuine(files[z], z)
    BY <1>1 DEF CurrentInv
  <1> QED
    BY <1>1, <1>3, <1>4, GenuineIsCurrent

\* A function as such: with its domain and its values alone it is determined.
Keyed(f) == f = [x \in DOMAIN f |-> f[x]]

LEMMA OverKeyed == \A f, g : Keyed(Over(f, g))
  BY DEF Keyed, Over

\* As long as nobody has written to the store since the merge began, what the
\* merge has read of it is what is there, and the rest is still to be read
\* (merge.Write against dynamicZoneService).
ReadSoFar ==
    /\ DOMAIN view \subseteq DOMAIN store
    /\ unread = DOMAIN store \ DOMAIN view
    /\ \A z \in DOMAIN view : view[z] = store[z]

ViewInv ==
    /\ Keyed(store) /\ Keyed(view)
    /\ pc = "reading" /\ ~mergeSignal => ReadSoFar

LEMMA ViewStep == ViewInv /\ [Next]_vars => ViewInv'
  <1> SUFFICES ASSUME ViewInv, [Next]_vars
               PROVE  ViewInv'
    OBVIOUS
  <1>0. Keyed(Nothing)
    BY DEF Keyed, Nothing
  <1>1. ASSUME NEW a, Poll(a)
        PROVE  ViewInv'
    BY <1>1 DEF Poll, ViewInv, Keyed, readVars
  <1>2. CASE PollFails \/ TakeSignal
    BY <1>2 DEF PollFails, TakeSignal, ViewInv, Keyed, readVars
  <1>3. CASE MergeGated
    BY <1>3 DEF MergeGated, ViewInv, Keyed, readVars
  <1>4. CASE ListZones
    <2>1. ReadSoFar'
      BY <1>4 DEF ListZones, ReadSoFar, Nothing
    <2>2. Keyed(store') /\ Keyed(view')
      BY <1>0, <1>4 DEF ListZones, ViewInv
    <2> QED
      BY <2>1, <2>2 DEF ViewInv, Keyed
  <1>5. ASSUME NEW z, ReadZone(z)
        PROVE  ViewInv'
    <2>1. /\ UNCHANGED <<store, mergeSignal, pc>> /\ pc = "reading" /\ z \in unread
          /\ unread' = unread \ {z} /\ view' = Over([y \in {z} |-> DynamicOf(z)], view)
      BY <1>5 DEF ReadZone
    <2>2. /\ DOMAIN view' = DOMAIN view \cup {z}
          /\ view'[z] = DynamicOf(z)
          /\ \A y \in DOMAIN view \ {z} : view'[y] = view[y]
      BY <2>1 DEF Over
    <2>3. Keyed(store') /\ Keyed(view')
      BY <2>1, OverKeyed DEF ViewInv
    <2>4. ASSUME ~mergeSignal'
          PROVE  ReadSoFar'
      <3>1. ReadSoFar
        BY <2>1, <2>4 DEF ViewInv
      <3>2. z \in DOMAIN store \ DOMAIN view /\ DynamicOf(z) = store[z]
        BY <2>1, <3>1 DEF ReadSoFar, DynamicOf, OwnRecords
      <3> QED
        BY <2>1, <2>2, <3>1, <3>2 DEF ReadSoFar
    <2> QED
      BY <2>3, <2>4 DEF ViewInv, Keyed
  <1>6. CASE Merge
    <2>1. pc' = "idle" /\ store' = store /\ view' = Nothing
      BY <1>6 DEF Merge, EndRead
    <2> QED
      BY <1>0, <2>1 DEF ViewInv, Keyed
  <1>7. CASE GRPC
    <2>1. view' = view /\ mergeSignal' = TRUE
      BY <1>7 DEF GRPC, UpsertRecord, DeleteRecord, BatchUpsert, BatchDelete,
                  CreateZone, DeleteZone, StoreBecomes, readVars
    <2>2. \A z : DeleteZone(z) => Keyed(store')
      BY DEF DeleteZone, StoreBecomes, Keyed
    <2>3. Keyed(store')
      BY <1>7, <2>2, OverKeyed DEF GRPC, UpsertRecord, DeleteRecord, BatchUpsert,
            BatchDelete, CreateZone, StoreBecomes, Without
    <2> QED
      BY <2>1, <2>3 DEF ViewInv, Keyed
  <1>8. ASSUME NEW c, NEW damaged, Restart(c, damaged)
        PROVE  ViewInv'
    <2>1. pc' = "start" /\ store' = store /\ view' = Nothing
      BY <1>8 DEF Restart, EndRead
    <2> QED
      BY <1>0, <2>1 DEF ViewInv, Keyed
  <1>9. CASE UNCHANGED vars
    BY <1>9 DEF vars, readVars, ViewInv, ReadSoFar, Keyed
  <1> QED
    BY <1>1, <1>2, <1>3, <1>4, <1>5, <1>6, <1>7, <1>8, <1>9 DEF Next

\* A merge nobody's write has disturbed publishes the store.
LEMMA UndisturbedRead ==
    ASSUME ViewInv, pc = "reading", unread = {}, ~mergeSignal
    PROVE  ToPublish = Merged
  <1>1. DOMAIN view = DOMAIN store /\ \A z \in DOMAIN view : view[z] = store[z]
    BY DEF ViewInv, ReadSoFar
  <1>2. view = store
    BY <1>1 DEF ViewInv, Keyed
  <1> QED
    BY <1>2 DEF ToPublish, Merged

\* A step that is no merge and leaves the files, the generators, the configuration
\* and, if it ends quiet, the records alone keeps the invariant.
LEMMA CalmStep ==
    ASSUME CurrentInv, UNCHANGED <<files, generators, config>>,
           Quiet' => Quiet /\ UNCHANGED <<known, store>>
    PROVE  CurrentInv'
  <1>1. ASSUME Quiet'
        PROVE  Merged' = Merged
    BY <1>1 DEF Merged, netboxZones
  <1> QED
    BY <1>1 DEF CurrentInv, FilesAreCurrent

LEMMA CurrentStep == TypeOK /\ ViewInv /\ CurrentInv /\ [Next]_vars => CurrentInv'
  <1> SUFFICES ASSUME TypeOK, ViewInv, CurrentInv, [Next]_vars
               PROVE  CurrentInv'
    OBVIOUS
  <1>1. ASSUME NEW a \in Answer, Poll(a)
        PROVE  CurrentInv'
    BY <1>1, CalmStep DEF Poll, Quiet
  <1>2. CASE PollFails \/ TakeSignal
    BY <1>2, CalmStep DEF PollFails, TakeSignal, Quiet
  <1>3. CASE Merge
    <2>1. /\ UNCHANGED <<config, known, store, mergeSignal>>
          /\ pc = "reading" /\ unread = {}
          /\ DOMAIN files' = DOMAIN ToPublish
          /\ generators' = [z \in DOMAIN ToPublish |-> RenderedHash(ToPublish[z], z, config.nsip)]
      BY <1>3 DEF Merge, Update, ActiveGenerators
    <2>2. ASSUME Quiet'
          PROVE  Merged' = ToPublish
      <3>1. ~mergeSignal
        BY <2>1, <2>2 DEF Quiet
      <3>2. ToPublish = Merged
        BY <2>1, <3>1, UndisturbedRead
      <3> QED
        BY <2>1, <3>2 DEF Merged, netboxZones
    <2>3. ASSUME NEW z \in DOMAIN ToPublish
          PROVE  /\ Genuine(files'[z], z)
                 /\ files'[z].hash = RenderedHash(ToPublish[z], z, config.nsip)
                 /\ files'[z].rrs = files'[z].body
                 /\ files'[z].rrs = RenderedRRs(ToPublish[z], z, config.nsip)
      <3>1. CASE z \in ToWrite(ToPublish)
        <4>1. files'[z] = FileOf(ToPublish[z], z, config.nsip)
          BY <1>3, <2>1, <3>1 DEF Merge, Update
        <4> QED
          BY <4>1, FileIsGenuine
      <3>2. CASE z \notin ToWrite(ToPublish)
        <4>1. files'[z] = files[z]
          BY <1>3, <2>1, <3>2 DEF Merge, Update
        <4>2. z \in DOMAIN files /\ Genuine(files[z], z)
          BY <3>2, KeptIsCurrent DEF CurrentInv
        <4> QED
          BY <3>2, <4>1, <4>2, KeptIsCurrent
      <3> QED
        BY <3>1, <3>2
    <2>4. FilesAreCurrent'
      BY <2>1, <2>2, <2>3 DEF FilesAreCurrent
    <2> QED
      BY <2>1, <2>3, <2>4 DEF CurrentInv
  <1>4. CASE MergeGated
    <2>1. known = NoData
      BY <1>4 DEF MergeGated, MergeAllowed
    <2> QED
      BY <1>4, <2>1, CalmStep DEF MergeGated, Quiet
  <1>5. CASE GRPC
    <2>1. UNCHANGED <<config, known, files, generators, pc, dns>> /\ mergeSignal' = TRUE
      BY <1>5 DEF GRPC, UpsertRecord, DeleteRecord, BatchUpsert, BatchDelete,
                  CreateZone, DeleteZone, StoreBecomes
    <2> QED
      BY <2>1, CalmStep DEF Quiet
  <1>6. ASSUME NEW c, NEW damaged, Restart(c, damaged)
        PROVE  CurrentInv'
    <2>1. ~Quiet' /\ generators' = Nothing /\ DOMAIN files' = DOMAIN files
      BY <1>6 DEF Restart, Quiet
    <2>2. \A z \in DOMAIN files : /\ files'[z].hash = files[z].hash
                                  /\ files'[z].body = files[z].body
      BY <1>6 DEF Restart, CutShort
    <2>3. \A z \in DOMAIN files' : Genuine(files'[z], z)
      BY <2>1, <2>2 DEF CurrentInv, Genuine
    <2> QED
      BY <2>1, <2>3 DEF CurrentInv, FilesAreCurrent, Nothing
  <1>7. CASE ListZones \/ \E z \in unread : ReadZone(z)
    BY <1>7, CalmStep DEF ListZones, ReadZone, Quiet
  <1>8. CASE UNCHANGED vars
    BY <1>8, CalmStep DEF vars, Quiet
  <1> QED
    BY <1>1, <1>2, <1>3, <1>4, <1>5, <1>6, <1>7, <1>8 DEF Next

\* Whenever the loop waits with nothing to merge, every zone file holds exactly
\* what the records, the operators' store and the configuration render to, after
\* whatever polls, writes, damage and restarts (Generate, NewGenerator).
THEOREM DiskIsCurrent == Spec => []FilesAreCurrent
  <1>1. Init => CurrentInv
    BY DEF Init, CurrentInv, FilesAreCurrent, Quiet, Nothing
  <1>2. Init => ViewInv
    BY DEF Init, ViewInv, Keyed, Nothing
  <1>3. CurrentInv => FilesAreCurrent
    BY DEF CurrentInv
  <1> QED
    BY <1>1, <1>2, <1>3, CurrentStep, ViewStep, TypeCorrect, PTL DEF Spec

-----------------------------------------------------------------------------
(* Nothing is rewritten in vain *)

\* A file is its contents and the two fingerprints, nothing else.
WholeFiles ==
    \A z \in DOMAIN files :
        files[z] = [rrs |-> files[z].rrs, body |-> files[z].body, hash |-> files[z].hash]

LEMMA WholeStep == TypeOK /\ WholeFiles /\ [Next]_vars => WholeFiles'
  <1> SUFFICES ASSUME TypeOK, WholeFiles, [Next]_vars, NEW z \in DOMAIN files'
               PROVE  files'[z] = [rrs |-> files'[z].rrs, body |-> files'[z].body,
                                   hash |-> files'[z].hash]
    BY DEF WholeFiles
  <1>1. ASSUME z \in DOMAIN files, files'[z] = files[z]
        PROVE  files'[z] = [rrs |-> files'[z].rrs, body |-> files'[z].body,
                            hash |-> files'[z].hash]
    BY <1>1 DEF WholeFiles
  <1>2. CASE Merge
    <2>1. z \in DOMAIN ToPublish
      BY <1>2 DEF Merge, Update
    <2>2. CASE z \in ToWrite(ToPublish)
      <3>1. files'[z] = FileOf(ToPublish[z], z, config.nsip)
        BY <1>2, <2>1, <2>2 DEF Merge, Update
      <3> QED
        BY <3>1 DEF FileOf
    <2>3. CASE z \notin ToWrite(ToPublish)
      <3>1. files'[z] = files[z]
        BY <1>2, <2>1, <2>3 DEF Merge, Update
      <3>2. z \in DOMAIN files
        BY <2>1, <2>3, KeptFile DEF TypeOK
      <3> QED
        BY <3>1, <3>2, <1>1
    <2> QED
      BY <2>2, <2>3
  <1>3. ASSUME NEW c, NEW damaged, Restart(c, damaged)
        PROVE  files'[z] = [rrs |-> files'[z].rrs, body |-> files'[z].body,
                            hash |-> files'[z].hash]
    <2>1. z \in DOMAIN files
      BY <1>3 DEF Restart
    <2>2. CASE z \in damaged
      <3>1. files'[z] = CutShort(files[z], z)
        BY <1>3, <2>1, <2>2 DEF Restart
      <3>2. files[z] = [rrs |-> files[z].rrs, body |-> files[z].body, hash |-> files[z].hash]
        BY <2>1 DEF WholeFiles
      <3> QED
        BY <3>1, <3>2 DEF CutShort
    <2>3. CASE z \notin damaged
      BY <1>1, <1>3, <2>1, <2>3 DEF Restart
    <2> QED
      BY <2>2, <2>3
  <1>4. CASE files' = files
    BY <1>1, <1>4
  <1> QED
    BY <1>2, <1>3, <1>4 DEF Next, vars, Poll, PollFails, TakeSignal, MergeGated,
        ListZones, ReadZone, GRPC, UpsertRecord, DeleteRecord, BatchUpsert, BatchDelete,
        CreateZone, DeleteZone, StoreBecomes

\* What a step would have to do to contradict NoIdleRewrite in a zone.
RewrittenInVain(z) ==
    /\ files'[z] # files[z] /\ files[z].rrs = files[z].body
    /\ files'[z].rrs = files[z].rrs
    /\ files'[z].hash[2] = files[z].hash[2]
    /\ \A r \in DOMAIN files[z].hash[1] \cap DOMAIN files'[z].hash[1] :
            files'[z].hash[1][r] = files[z].hash[1][r]

\* A record that comes or goes shows in the file: nothing else that stays is
\* printed like it, as the name with a trailing dot is or, at its own name, the
\* address of PRIMARY_NS_IP.
NoTwins ==
    \A z \in DOMAIN files \cap DOMAIN files' :
        LET old == DOMAIN files[z].hash[1]
            new == DOMAIN files'[z].hash[1]
        IN  /\ \A r \in new \ old : RecordRR(r, z) \notin files[z].rrs
            /\ \A r \in old \ new : RecordRR(r, z) \notin files'[z].rrs

\* The fingerprint's first part knows the published records.
LEMMA HeldAreRendered ==
    ASSUME NEW records, NEW z, NEW nsip,
           NEW r \in DOMAIN RenderedHash(records, z, nsip)[1]
    PROVE  RecordRR(r, z) \in RenderedRRs(records, z, nsip)
  <1> DEFINE K == Published(records, z)
  <1>1. PICK i \in K : r = records[i]
    BY DEF RenderedHash, Fingerprint
  <1> QED
    BY <1>1 DEF RenderedRRs

\* Equal parts make equal fingerprints.
LEMMA SameParts ==
    ASSUME NEW z, NEW r1, NEW n1, NEW r2, NEW n2,
           n1 = n2,
           DOMAIN RenderedHash(r1, z, n1)[1] = DOMAIN RenderedHash(r2, z, n2)[1],
           \A r \in DOMAIN RenderedHash(r1, z, n1)[1] :
                RenderedHash(r1, z, n1)[1][r] = RenderedHash(r2, z, n2)[1][r]
    PROVE  RenderedHash(r1, z, n1) = RenderedHash(r2, z, n2)
  <1> DEFINE Held(rs) == {rs[i] : i \in Published(rs, z)}
             Count(rs) == [x \in Held(rs) |->
                                Cardinality({i \in Published(rs, z) : rs[i] = x})]
  <1>1. /\ RenderedHash(r1, z, n1) = <<Count(r1), n1>>
        /\ RenderedHash(r2, z, n2) = <<Count(r2), n2>>
    BY DEF RenderedHash, Fingerprint
  <1>2. /\ Count(r1) = [x \in Held(r1) |-> Count(r1)[x]]
        /\ Count(r2) = [x \in Held(r2) |-> Count(r2)[x]]
        /\ DOMAIN Count(r1) = Held(r1) /\ DOMAIN Count(r2) = Held(r2)
    OBVIOUS
  <1> HIDE DEF Count, Held
  <1>3. Count(r1) = Count(r2)
    BY <1>1, <1>2
  <1> QED
    BY <1>1, <1>3

LEMMA RewriteStep ==
    ASSUME TypeOK, CurrentInv, WholeFiles, [Next]_vars, NoTwins,
           NEW z \in DOMAIN files \cap DOMAIN files'
    PROVE  ~RewrittenInVain(z)
  <1> SUFFICES ASSUME RewrittenInVain(z) PROVE FALSE
    OBVIOUS
  <1>1. CASE Merge
    <2>1. z \in DOMAIN ToPublish
      BY <1>1 DEF Merge, Update
    <2>2. z \in ToWrite(ToPublish)
      BY <1>1, <2>1 DEF Merge, Update, RewrittenInVain
    <2> DEFINE r1 == ToPublish[z]
               n1 == config.nsip
    <2>3. files'[z] = FileOf(r1, z, n1)
      BY <1>1, <2>1, <2>2 DEF Merge, Update
    <2>4. RenderedHash(r1, z, n1) # LastHash(z)
      BY <2>2 DEF ToWrite
    <2>5. LastHash(z) = files[z].hash
      BY DEF LastHash, VerifiedHash, CurrentInv, RewrittenInVain
    <2>6. PICK r0, n0 : /\ files[z].hash = RenderedHash(r0, z, n0)
                        /\ files[z].body = RenderedRRs(r0, z, n0)
      BY Zenon DEF CurrentInv, Genuine
    <2>7. /\ files'[z].hash = RenderedHash(r1, z, n1)
          /\ files'[z].rrs = RenderedRRs(r1, z, n1)
      BY <2>3, FileIsGenuine
    <2> HIDE DEF r1, n1
    <2>8. /\ RenderedHash(r0, z, n0)[2] = n0
          /\ RenderedHash(r1, z, n1)[2] = n1
      BY DEF RenderedHash, Fingerprint
    <2>9. n0 = n1
      BY <2>6, <2>7, <2>8 DEF RewrittenInVain
    <2>10. \A r \in DOMAIN files[z].hash[1] : RecordRR(r, z) \in files'[z].rrs
      BY <2>6, HeldAreRendered DEF RewrittenInVain
    <2>11. \A r \in DOMAIN files'[z].hash[1] : RecordRR(r, z) \in files[z].rrs
      BY <2>7, HeldAreRendered DEF RewrittenInVain
    <2>12. DOMAIN files[z].hash[1] = DOMAIN files'[z].hash[1]
      BY <2>10, <2>11 DEF NoTwins
    <2>13. RenderedHash(r0, z, n0) = RenderedHash(r1, z, n1)
      BY <2>6, <2>7, <2>9, <2>12, SameParts DEF RewrittenInVain
    <2> QED
      BY <2>4, <2>5, <2>6, <2>13
  <1>2. ASSUME NEW c, NEW damaged, Restart(c, damaged)
        PROVE  FALSE
    <2>1. files'[z] = CutShort(files[z], z)
      BY <1>2 DEF Restart, RewrittenInVain
    <2>2. files[z] = [rrs |-> files[z].rrs, body |-> files[z].body, hash |-> files[z].hash]
      BY DEF WholeFiles
    <2>3. files'[z] = [rrs |-> files'[z].rrs, body |-> files[z].body, hash |-> files[z].hash]
      BY <2>1, <2>2 DEF CutShort
    <2> QED
      BY <2>2, <2>3 DEF RewrittenInVain
  <1>3. CASE files' = files
    BY <1>3 DEF RewrittenInVain
  <1> QED
    BY <1>1, <1>2, <1>3 DEF Next, vars, Poll, PollFails, TakeSignal, MergeGated,
        ListZones, ReadZone, GRPC, UpsertRecord, DeleteRecord, BatchUpsert, BatchDelete,
        CreateZone, DeleteZone, StoreBecomes

\* What NoIdleRewrite says of one step.
NoneInVain == \A z \in DOMAIN files \cap DOMAIN files' : ~RewrittenInVain(z)

LEMMA NoneInVainIs == [][NoneInVain]_vars => NoIdleRewrite
  <1>1. [NoneInVain]_vars =>
            [\A z \in DOMAIN files \cap DOMAIN files' :
                files'[z] # files[z] /\ files[z].rrs = files[z].body =>
                    \/ files'[z].rrs # files[z].rrs
                    \/ files'[z].hash[2] # files[z].hash[2]
                    \/ \E r \in DOMAIN files[z].hash[1] \cap DOMAIN files'[z].hash[1] :
                            files'[z].hash[1][r] # files[z].hash[1][r]]_vars
    BY DEF NoneInVain, RewrittenInVain
  <1> QED
    BY <1>1, PTL DEF NoIdleRewrite

\* An undamaged file is rewritten only if it then holds something else, or
\* PRIMARY_NS_IP or the number of a record's copies has changed: restarts, polls
\* and changes elsewhere bump no serial (generator.go, G5), as long as no record
\* comes or goes that is printed like another.
THEOREM RewritesAreDue == Spec /\ [][NoTwins]_vars => NoIdleRewrite
  <1>1. Init => WholeFiles
    BY DEF Init, WholeFiles, Nothing
  <1>2. Init => CurrentInv
    BY DEF Init, CurrentInv, FilesAreCurrent, Quiet, Nothing
  <1>3. Init => ViewInv
    BY DEF Init, ViewInv, Keyed, Nothing
  <1>4. TypeOK /\ CurrentInv /\ WholeFiles /\ [Next]_vars /\ [NoTwins]_vars
            => [NoneInVain]_vars
    BY RewriteStep DEF NoneInVain, vars, RewrittenInVain
  <1> QED
    BY <1>1, <1>2, <1>3, <1>4, CurrentStep, ViewStep, WholeStep, TypeCorrect,
       NoneInVainIs, PTL DEF Spec

-----------------------------------------------------------------------------
(* What the operators' store holds *)

\* Finitely many records, each of a name.
FiniteRecords(own) == IsFiniteSet(DOMAIN own) /\ \A n \in DOMAIN own : IsSeq(n)

\* Finitely many zones of them.
FiniteStore(s) ==
    IsFiniteSet(DOMAIN s) /\ \A z \in DOMAIN s : IsSeq(z) /\ FiniteRecords(s[z])

LEMMA OverRecords ==
    ASSUME NEW f, FiniteRecords(f), NEW g, FiniteRecords(g)
    PROVE  FiniteRecords(Over(f, g))
  <1>1. DOMAIN Over(f, g) = DOMAIN f \cup DOMAIN g
    BY DEF Over
  <1> QED
    BY <1>1, FS_Union DEF FiniteRecords

LEMMA OverStore ==
    ASSUME NEW s, FiniteStore(s), NEW t, FiniteStore(t)
    PROVE  FiniteStore(Over(s, t))
  <1>1. /\ DOMAIN Over(s, t) = DOMAIN s \cup DOMAIN t
        /\ \A z \in DOMAIN Over(s, t) :
              Over(s, t)[z] = IF z \in DOMAIN s THEN s[z] ELSE t[z]
    BY DEF Over
  <1> QED
    BY <1>1, FS_Union DEF FiniteStore

LEMMA OneZone ==
    ASSUME NEW z, IsSeq(z), NEW own, FiniteRecords(own)
    PROVE  FiniteStore([y \in {z} |-> own])
  BY FS_Singleton DEF FiniteStore

\* The gRPC handlers keep the store finite.
LEMMA FiniteStep ==
    ASSUME FiniteStore(store), GRPC
    PROVE  FiniteStore(store')
  <1>1. ASSUME NEW z
        PROVE  FiniteRecords(DynamicOf(z))
    <2>1. DOMAIN NoRecords = {} /\ IsFiniteSet({})
      BY FS_EmptySet DEF NoRecords
    <2> QED
      BY <2>1 DEF FiniteStore, FiniteRecords, DynamicOf, OwnRecords
  <1>2. ASSUME NEW z, IsSeq(z), NEW names, StoreBecomes(Without(z, names))
        PROVE  FiniteStore(store')
    <2> DEFINE own == [n \in DOMAIN DynamicOf(z) \ names |-> DynamicOf(z)[n]]
    <2>1. FiniteRecords(own)
      BY <1>1, FS_Difference DEF FiniteRecords
    <2>2. store' = Over([y \in {z} |-> own], store)
      BY <1>2 DEF StoreBecomes, Without
    <2> HIDE DEF own
    <2> QED
      BY <1>2, <2>1, <2>2, OneZone, OverStore
  <1>3. ASSUME NEW w \in Write, NEW force \in BOOLEAN, UpsertRecord(w, force)
        PROVE  FiniteStore(store')
    <2> DEFINE new == [n \in {w.name} |-> w.addr]
               own == Over(new, DynamicOf(w.zone))
    <2>1. IsSeq(w.zone) /\ FiniteRecords(new)
      BY PublicationAssumption, FS_Singleton DEF FiniteRecords
    <2>2. store' = Over([z \in {w.zone} |-> own], store)
      BY <1>3 DEF UpsertRecord, StoreBecomes
    <2> HIDE DEF new
    <2>3. FiniteRecords(own)
      BY <1>1, <2>1, OverRecords
    <2> HIDE DEF own
    <2> QED
      BY <2>1, <2>2, <2>3, OneZone, OverStore
  <1>4. ASSUME NEW b \in Batch, NEW force \in BOOLEAN, BatchUpsert(b, force)
        PROVE  FiniteStore(store')
    <2> DEFINE zones == {b[i].zone : i \in DOMAIN b}
               new == [z \in zones |-> Over(b[LastEntry(b, z)].records, DynamicOf(z))]
    <2>1. store' = Over(new, store)
      BY <1>4 DEF BatchUpsert, StoreBecomes
    <2>2. IsFiniteSet(zones)
      <3> DEFINE f == [i \in DOMAIN b |-> b[i].zone]
      <3>1. IsFiniteSet(DOMAIN f)
        BY PublicationAssumption, FiniteSeq
      <3>2. zones = {f[i] : i \in DOMAIN f}
        OBVIOUS
      <3> HIDE DEF f, zones
      <3> QED
        BY <3>1, <3>2, FiniteImage
    <2>3. ASSUME NEW z \in zones
          PROVE  IsSeq(z) /\ FiniteRecords(new[z])
      <3> DEFINE last == LastEntry(b, z)
      <3>1. last \in DOMAIN b
        BY LastEntryIsOne
      <3> HIDE DEF last
      <3>2. FiniteRecords(b[last].records)
        BY <3>1, PublicationAssumption DEF FiniteRecords
      <3>3. FiniteRecords(Over(b[last].records, DynamicOf(z)))
        BY <1>1, <3>2, OverRecords
      <3>4. new[z] = Over(b[last].records, DynamicOf(z))
        BY DEF last
      <3>5. IsSeq(z)
        BY PublicationAssumption
      <3> QED
        BY <3>3, <3>4, <3>5
    <2>4. DOMAIN new = zones
      OBVIOUS
    <2> HIDE DEF new, zones
    <2>5. FiniteStore(new)
      BY <2>2, <2>3, <2>4 DEF FiniteStore
    <2> QED
      BY <2>1, <2>5, OverStore
  <1>5. ASSUME NEW z, IsSeq(z), CreateZone(z)
        PROVE  FiniteStore(store')
    <2>1. store' = Over([y \in {z} |-> DynamicOf(z)], store)
      BY <1>5 DEF CreateZone, StoreBecomes
    <2> QED
      BY <1>1, <1>5, <2>1, OneZone, OverStore
  <1>6. ASSUME NEW z, DeleteZone(z)
        PROVE  FiniteStore(store')
    BY <1>6, FS_Difference DEF DeleteZone, StoreBecomes, FiniteStore
  <1>7. \A w \in Write : IsSeq(w.zone)
    BY PublicationAssumption
  <1> QED
    BY <1>2, <1>3, <1>4, <1>5, <1>6, <1>7 DEF GRPC, DeleteRecord, BatchDelete, DynamicZone

\* So does what a merge reads of it.
StoreInv ==
    /\ FiniteStore(store) /\ FiniteStore(view)
    /\ \A z \in unread : IsSeq(z)

LEMMA StoreStaysFinite == Spec => []StoreInv
  <1>0. FiniteStore(Nothing)
    BY FS_EmptySet DEF Nothing, FiniteStore
  <1>1. Init => StoreInv
    BY <1>0 DEF Init, StoreInv
  <1>2. StoreInv /\ [Next]_vars => StoreInv'
    <2> SUFFICES ASSUME StoreInv, [Next]_vars
                 PROVE  StoreInv'
      OBVIOUS
    <2>1. CASE GRPC
      <3>1. UNCHANGED <<unread, view>>
        BY <2>1 DEF GRPC, UpsertRecord, DeleteRecord, BatchUpsert, BatchDelete,
                    CreateZone, DeleteZone, StoreBecomes, readVars
      <3> QED
        BY <2>1, <3>1, FiniteStep DEF StoreInv
    <2>2. CASE ListZones
      BY <1>0, <2>2 DEF ListZones, StoreInv, FiniteStore
    <2>3. ASSUME NEW z \in unread, ReadZone(z)
          PROVE  StoreInv'
      <3>1. DOMAIN NoRecords = {} /\ IsFiniteSet({})
        BY FS_EmptySet DEF NoRecords
      <3>2. IsSeq(z) /\ FiniteRecords(DynamicOf(z))
        BY <3>1 DEF StoreInv, FiniteStore, FiniteRecords, DynamicOf, OwnRecords
      <3>3. FiniteStore(Over([y \in {z} |-> DynamicOf(z)], view))
        BY <3>2, OneZone, OverStore DEF StoreInv
      <3> QED
        BY <2>3, <3>3 DEF ReadZone, StoreInv
    <2>4. CASE store' = store /\ EndRead
      BY <1>0, <2>4 DEF EndRead, StoreInv
    <2>5. CASE UNCHANGED <<store, unread, view>>
      BY <2>5 DEF StoreInv
    <2> QED
      BY <2>1, <2>2, <2>3, <2>4, <2>5 DEF Next, vars, readVars, Poll, PollFails,
            TakeSignal, Merge, MergeGated, Restart
  <1> QED
    BY <1>1, <1>2, PTL DEF Spec

-----------------------------------------------------------------------------
(* What is merged *)

\* The records of the last good poll, and the forward zones they are filed in.
LEMMA PolledAre ==
    ASSUME NEW c \in Config, NEW a \in Answer
    PROVE  /\ Records(Enrich(Row[a]))
           /\ Filed(ForwardZones(c, a), Enrich(Row[a]))
           /\ InDeepest(ForwardZones(c, a))
           /\ DOMAIN DiscoverReverse(Enrich(Row[a])) \subseteq ReverseZones
  <1>1. Records(Enrich(Row[a]))
    BY PublicationAssumption, EnrichIs DEF Rows
  <1>2. NamedRecords(Enrich(Row[a]))
    BY <1>1 DEF Records, IsRecord, NamedRecords
  <1>3. IsMode(c.mode)
    BY PublicationAssumption DEF IsMode
  <1> QED
    BY <1>1, <1>2, <1>3, DiscoverIs, ReverseIsReverse DEF ForwardZones, Records

\* A record or a PTR with its names stripped.
StripOf(r) ==
    [name |-> StripName(r.name), addr |-> r.addr, type |-> r.type,
     target |-> StripName(r.target)]

\* Four fields and no more.
IsWhole(r) ==
    r = [name |-> r.name, addr |-> r.addr, type |-> r.type, target |-> r.target]

\* Stripping changes the names and nothing else.
LEMMA StripIs ==
    ASSUME NEW s, IsSeq(s), \A r \in ToSet(s) : IsWhole(r)
    PROVE  /\ IsSeq(StripDCLabel(s))
           /\ ToSet(StripDCLabel(s)) = {StripOf(r) : r \in ToSet(s)}
  <1> DEFINE t == StripDCLabel(s)
             Made(r) == [r EXCEPT !.name = StripName(@), !.target = StripName(@)]
  <1>1. Len(s) \in Nat /\ DOMAIN s = 1..Len(s)
    BY SeqFacts
  <1>2. t = [i \in 1..Len(s) |-> t[i]] /\ DOMAIN t = DOMAIN s
    BY <1>1 DEF StripDCLabel
  <1>3. \A i \in DOMAIN s : t[i] = Made(s[i])
    BY DEF StripDCLabel
  <1> HIDE DEF t
  <1>4. ASSUME NEW r \in ToSet(s)
        PROVE  Made(r) = StripOf(r)
    <2> DEFINE q == [r EXCEPT !.name = StripName(r.name)]
    <2>1. q = [name |-> StripName(r.name), addr |-> r.addr, type |-> r.type,
               target |-> r.target]
      BY DEF IsWhole
    <2> HIDE DEF q
    <2>2. [q EXCEPT !.target = StripName(r.target)]
              = [name |-> StripName(r.name), addr |-> r.addr, type |-> r.type,
                 target |-> StripName(r.target)]
      BY <2>1
    <2> QED
      BY <2>2 DEF q, StripOf
  <1> HIDE DEF Made
  <1>5. \A i \in DOMAIN s : t[i] = StripOf(s[i])
    BY <1>3, <1>4 DEF ToSet
  <1>6. ToSet(t) = {StripOf(r) : r \in ToSet(s)}
    BY <1>2, <1>5 DEF ToSet
  <1> QED
    BY <1>1, <1>2, <1>6, FunIsSeq DEF t

\* Stripping keeps records records, and each record's address and type.
LEMMA StripKeeps ==
    ASSUME NEW s, Records(s)
    PROVE  /\ Records(StripDCLabel(s))
           /\ ToSet(StripDCLabel(s)) = {StripOf(r) : r \in ToSet(s)}
  <1>1. IsSeq(StripDCLabel(s)) /\ ToSet(StripDCLabel(s)) = {StripOf(r) : r \in ToSet(s)}
    BY StripIs DEF Records, IsRecord, IsWhole
  <1>2. ASSUME NEW r, IsRecord(r)
        PROVE  IsRecord(StripOf(r))
    <2>1. IsSeq(StripName(r.name)) /\ IsSeq(StripName(r.target))
      BY <1>2, StrippedIs DEF IsRecord
    <2> QED
      BY <1>2, <2>1 DEF IsRecord, StripOf
  <1> QED
    BY <1>1, <1>2 DEF Records

\* The record q is r after the strip.
Came(q, r) ==
    /\ q.name = Final(r.name) /\ q.target = Final(r.target)
    /\ q.addr = r.addr /\ q.type = r.type

\* NetBox's zones as they reach the merge: no zone but the reverse ones and those
\* discovered, and these with all the records that were filed there.
LEMMA NetboxZonesAre ==
    ASSUME config \in Config, known \in Answer
    PROVE  /\ IsFiniteSet(DOMAIN netboxZones)
           /\ \A z \in DOMAIN netboxZones : IsSeq(z)
           /\ DOMAIN netboxZones \subseteq DOMAIN ForwardZones(config, known) \cup ReverseZones
           /\ DOMAIN ForwardZones(config, known) \subseteq DOMAIN netboxZones
           /\ \A z \in DOMAIN netboxZones \ ReverseZones :
                /\ Records(netboxZones[z])
                /\ \A r \in ToSet(ForwardZones(config, known)[z]) :
                     \E q \in ToSet(netboxZones[z]) :
                        Came(q, r)
                /\ \A q \in ToSet(netboxZones[z]) : \E r \in ToSet(Enrich(Row[known])) :
                        Came(q, r)
  <1> DEFINE filed == ForwardZones(config, known)
             ptrs == DiscoverReverse(Enrich(Row[known]))
             both == Combined(config, known)
             records == Enrich(Row[known])
  <1>1. Records(records) /\ Filed(filed, records) /\ DOMAIN ptrs \subseteq ReverseZones
    BY PolledAre
  <1>2. netboxZones = Stripped(config, both)
    <2>1. known # NoData
      BY PublicationAssumption
    <2>2. ZonesOf[config][known] = Stripped(config, both)
      BY DEF ZonesOf
    <2> QED
      BY <2>1, <2>2 DEF netboxZones
  <1>3. both = Over(ptrs, filed)
    BY DEF Combined
  <1> HIDE DEF filed, ptrs, both, records
  <1>4. /\ DOMAIN both = DOMAIN ptrs \cup DOMAIN filed
        /\ \A z \in DOMAIN filed \ ReverseZones : both[z] = filed[z]
    BY <1>1, <1>3 DEF Over
  <1>5. DOMAIN netboxZones = DOMAIN both
    BY <1>2 DEF Stripped
  <1>6. IsFiniteSet(DOMAIN netboxZones)
    BY <1>1, <1>4, <1>5, ZoneNamesAssumption, FS_Subset, FS_Union DEF Filed
  <1>7. \A z \in DOMAIN netboxZones : IsSeq(z)
    BY <1>1, <1>4, <1>5, ZoneNamesAssumption DEF Filed
  <1>8. ASSUME NEW z \in DOMAIN netboxZones \ ReverseZones
        PROVE  /\ Records(netboxZones[z])
               /\ \A r \in ToSet(filed[z]) : \E q \in ToSet(netboxZones[z]) :
                    Came(q, r)
               /\ \A q \in ToSet(netboxZones[z]) : \E r \in ToSet(records) :
                    Came(q, r)
    <2>1. z \in DOMAIN filed /\ both[z] = filed[z]
      BY <1>1, <1>4, <1>5
    <2>2. Records(filed[z]) /\ ToSet(filed[z]) \subseteq ToSet(records)
      BY <1>1, <2>1 DEF Filed, Records
    <2>3. CASE config.strip
      <3>1. netboxZones[z] = StripDCLabel(filed[z])
        BY <1>2, <1>5, <2>1, <2>3 DEF Stripped
      <3>2. /\ Records(netboxZones[z])
            /\ ToSet(netboxZones[z]) = {StripOf(r) : r \in ToSet(filed[z])}
        BY <2>2, <3>1, StripKeeps
      <3>3. \A r : Came(StripOf(r), r)
        BY <2>3 DEF StripOf, Final, Came
      <3> QED
        BY <2>2, <3>2, <3>3
    <2>4. CASE ~config.strip
      <3>1. netboxZones[z] = filed[z]
        BY <1>2, <1>5, <2>1, <2>4 DEF Stripped
      <3> QED
        BY <2>2, <2>4, <3>1 DEF Final, Came
    <2> QED
      BY <2>3, <2>4
  <1>9. DOMAIN netboxZones \subseteq DOMAIN filed \cup ReverseZones
        /\ DOMAIN filed \subseteq DOMAIN netboxZones
    BY <1>1, <1>4, <1>5
  <1> QED
    BY <1>6, <1>7, <1>8, <1>9 DEF filed, records

\* The records a store has in a zone, as records.
LEMMA DynamicRecordsAre ==
    ASSUME NEW own, FiniteRecords(own), \A n \in DOMAIN own : own[n] \in DOMAIN ReverseName
    PROVE  /\ Records(DynamicRecords(own))
           /\ ToSet(DynamicRecords(own)) = {AddressRecord(n, own[n]) : n \in DOMAIN own}
  <1> DEFINE f == [n \in DOMAIN own |-> AddressRecord(n, own[n])]
             S == {AddressRecord(n, own[n]) : n \in DOMAIN own}
  <1>1. S = {f[n] : n \in DOMAIN f} /\ DOMAIN f = DOMAIN own
    OBVIOUS
  <1>2. \A r \in S : IsRecord(r)
    BY NewRecords DEF FiniteRecords
  <1> HIDE DEF f, S
  <1>3. IsFiniteSet(S)
    BY <1>1, FiniteImage DEF FiniteRecords
  <1>4. SetToSeq(S) \in Seq(S) /\ ToSet(SetToSeq(S)) = S
    BY <1>3, SetToSeqIs
  <1>5. DynamicRecords(own) = SetToSeq(S)
    BY DEF DynamicRecords, S
  <1>6. IsSeq(SetToSeq(S))
    BY <1>4, AnySeq
  <1> QED
    BY <1>2, <1>4, <1>5, <1>6 DEF Records, S

\* The PTRs of the operators' records are in reverse zones too.
LEMMA DynamicPTRsAre ==
    ASSUME NEW s, FiniteStore(s), Addressed(s)
    PROVE  /\ DOMAIN DynamicPTRs(s) \subseteq ReverseZones
           /\ \A y \in DOMAIN DynamicPTRs(s) :
                /\ IsSeq(DynamicPTRs(s)[y])
                /\ \A q \in ToSet(DynamicPTRs(s)[y]) :
                    \E z \in DOMAIN s : \E n \in DOMAIN s[z] :
                        /\ ReverseZoneOf(s[z][n]) = y
                        /\ q.name = n /\ q.addr = PtrLabel(s[z][n]) /\ ~IsAlias(q)
  <1> DEFINE zones == SetToSeq(DOMAIN s)
             parts == [i \in DOMAIN zones |-> DynamicRecords(s[zones[i]])]
             all == FlattenSeq(parts)
  <1>1. zones \in Seq(DOMAIN s)
    BY SetToSeqIs DEF FiniteStore
  <1>2. DynamicPTRs(s) = DiscoverReverse(all)
    BY DEF DynamicPTRs
  <1> HIDE DEF zones
  <1>3. Len(zones) \in Nat /\ DOMAIN zones = 1..Len(zones)
        /\ \A i \in DOMAIN zones : zones[i] \in DOMAIN s
    BY <1>1
  <1>4. parts = [i \in 1..Len(zones) |-> parts[i]] /\ DOMAIN parts = DOMAIN zones
    BY <1>3
  <1>5. \A i \in DOMAIN zones :
            /\ Records(parts[i])
            /\ ToSet(parts[i]) = {AddressRecord(n, s[zones[i]][n]) : n \in DOMAIN s[zones[i]]}
    BY <1>3, DynamicRecordsAre DEF FiniteStore, Addressed
  <1> HIDE DEF parts
  <1>6. IsSeq(parts)
    BY <1>3, <1>4, FunIsSeq
  <1>7. Records(all) /\ ToSet(all) = UNION {ToSet(parts[i]) : i \in DOMAIN parts}
    BY <1>4, <1>5, <1>6, FlattenRecords
  <1> HIDE DEF all
  <1>8. \A r \in ToSet(all) : \E z \in DOMAIN s : \E n \in DOMAIN s[z] :
            r = AddressRecord(n, s[z][n])
    BY <1>3, <1>4, <1>5, <1>7
  <1>9. \A n, a : AddressRecord(n, a).addr = a /\ AddressRecord(n, a).name = n
    BY DEF AddressRecord
  <1>10. \A r, l : /\ PtrRecord(r, l).addr = l /\ PtrRecord(r, l).name = r.name
                   /\ ~IsAlias(PtrRecord(r, l))
    BY DEF PtrRecord, IsAlias
  <1>11. /\ DOMAIN DiscoverReverse(all) \subseteq ReverseZones
         /\ \A y \in DOMAIN DiscoverReverse(all) : IsSeq(DiscoverReverse(all)[y])
         /\ \A y \in DOMAIN DiscoverReverse(all) :
                \A q \in ToSet(DiscoverReverse(all)[y]) : \E r \in ToSet(all) :
                    /\ ReverseZoneOf(r.addr) = y
                    /\ q.name = r.name /\ q.addr = PtrLabel(r.addr) /\ ~IsAlias(q)
    BY <1>7, <1>10, ReverseIsReverse DEF Records
  <1>12. ASSUME NEW y \in DOMAIN DiscoverReverse(all), NEW q \in ToSet(DiscoverReverse(all)[y])
         PROVE  \E z \in DOMAIN s : \E n \in DOMAIN s[z] :
                    /\ ReverseZoneOf(s[z][n]) = y
                    /\ q.name = n /\ q.addr = PtrLabel(s[z][n]) /\ ~IsAlias(q)
    <2>1. PICK r \in ToSet(all) :
            /\ ReverseZoneOf(r.addr) = y
            /\ q.name = r.name /\ q.addr = PtrLabel(r.addr) /\ ~IsAlias(q)
      BY <1>11
    <2>2. PICK z \in DOMAIN s : \E n \in DOMAIN s[z] : r = AddressRecord(n, s[z][n])
      BY <1>8
    <2>3. PICK n \in DOMAIN s[z] : r = AddressRecord(n, s[z][n])
      BY <2>2
    <2>4. r.addr = s[z][n] /\ r.name = n
      BY <1>9, <2>3
    <2> QED
      BY <2>1, <2>4
  <1> QED
    BY <1>2, <1>11, <1>12

\* What merge.Write makes of a forward zone.
LEMMA MergedAre ==
    ASSUME config \in Config, known \in Answer, FiniteStore(store), Addressed(store)
    PROVE  /\ IsFiniteSet(DOMAIN Merged)
           /\ \A z \in DOMAIN Merged : IsSeq(z)
           /\ DOMAIN netboxZones \cup DOMAIN store \subseteq DOMAIN Merged
           /\ DOMAIN Merged \subseteq DOMAIN netboxZones \cup DOMAIN store \cup ReverseZones
           /\ \A z \in DOMAIN Merged \ ReverseZones :
                /\ Records(Merged[z])
                /\ ToSet(Merged[z]) =
                     {r \in ToSet(RecordsOf(netboxZones, z)) : r.name \notin DOMAIN DynamicOf(z)}
                     \cup {AddressRecord(n, DynamicOf(z)[n]) : n \in DOMAIN DynamicOf(z)}
  <1> DEFINE nz == netboxZones
             both == WithDynamic(nz, store)
             ptrs == DynamicPTRs(store)
  <1>1. DOMAIN ptrs \subseteq ReverseZones
    BY DynamicPTRsAre
  <1>2. /\ IsFiniteSet(DOMAIN nz)
        /\ \A z \in DOMAIN nz : IsSeq(z)
        /\ \A z \in DOMAIN nz \ ReverseZones : Records(nz[z])
    BY NetboxZonesAre
  <1>3. /\ DOMAIN Merged = DOMAIN both \cup DOMAIN ptrs
        /\ \A z \in DOMAIN both \ ReverseZones : Merged[z] = both[z]
    BY <1>1 DEF Merged, MergedZones
  <1>4. DOMAIN both = DOMAIN nz \cup DOMAIN store
    BY DEF WithDynamic
  <1> HIDE DEF nz, both, ptrs
  <1>5. IsFiniteSet(DOMAIN Merged) /\ \A z \in DOMAIN Merged : IsSeq(z)
    BY <1>1, <1>2, <1>3, <1>4, ZoneNamesAssumption, FS_Subset, FS_Union DEF FiniteStore
  <1>6. ASSUME NEW z \in DOMAIN Merged \ ReverseZones
        PROVE  /\ Records(Merged[z])
               /\ ToSet(Merged[z]) =
                    {r \in ToSet(RecordsOf(nz, z)) : r.name \notin DOMAIN DynamicOf(z)}
                    \cup {AddressRecord(n, DynamicOf(z)[n]) : n \in DOMAIN DynamicOf(z)}
    <2> DEFINE own == DynamicOf(z)
               netbox == RecordsOf(nz, z)
               Kept == {r \in ToSet(netbox) : r.name \notin DOMAIN own}
               left == Those(netbox, Kept)
               right == DynamicRecords(own)
    <2>1. z \in DOMAIN both /\ Merged[z] = both[z]
      BY <1>1, <1>3
    <2>2. both[z] = left \o right
      BY <1>4, <2>1 DEF both, WithDynamic, DynamicOf
    <2>3. FiniteRecords(own) /\ \A n \in DOMAIN own : own[n] \in DOMAIN ReverseName
      <3>1. DOMAIN NoRecords = {} /\ IsFiniteSet({})
        BY FS_EmptySet DEF NoRecords
      <3> QED
        BY <3>1 DEF FiniteStore, FiniteRecords, DynamicOf, OwnRecords, Addressed
    <2>4. Records(netbox)
      <3>1. IsSeq(<<>>) /\ ToSet(<<>>) = {}
        BY DEF IsSeq, ToSet
      <3> QED
        BY <1>2, <3>1 DEF RecordsOf, Records
    <2>5. Kept \subseteq ToSet(netbox)
      OBVIOUS
    <2> HIDE DEF own, netbox, Kept
    <2>6. IsSeq(left) /\ ToSet(left) = Kept
      <3>1. IsSeq(left) /\ ToSet(left) = ToSet(netbox) \cap Kept
        BY <2>4, ThoseOf DEF Records
      <3> QED
        BY <2>5, <3>1
    <2>7. /\ Records(right)
          /\ ToSet(right) = {AddressRecord(n, own[n]) : n \in DOMAIN own}
      BY <2>3, DynamicRecordsAre
    <2> HIDE DEF left, right
    <2>8. Records(left)
      BY <2>4, <2>5, <2>6 DEF Records
    <2>9. Records(left \o right) /\ ToSet(left \o right) = ToSet(left) \cup ToSet(right)
      BY <2>7, <2>8, JoinRecords, JoinIsSeq DEF Records
    <2>10. ToSet(Merged[z]) = Kept \cup {AddressRecord(n, own[n]) : n \in DOMAIN own}
      BY <2>1, <2>2, <2>6, <2>7, <2>9
    <2> QED
      BY <2>1, <2>2, <2>9, <2>10 DEF Kept, own, netbox
  <1>7. /\ DOMAIN nz \cup DOMAIN store \subseteq DOMAIN Merged
        /\ DOMAIN Merged \subseteq DOMAIN nz \cup DOMAIN store \cup ReverseZones
    BY <1>1, <1>3, <1>4
  <1> QED
    BY <1>5, <1>6, <1>7 DEF nz

-----------------------------------------------------------------------------
(* What a client gets *)

\* The file of a forward zone has finitely many resource records, the address
\* records among them, and no address besides these but PRIMARY_NS_IP (Generate).
LEMMA RenderedAddresses ==
    ASSUME NEW s, Records(s), NEW z, ~IsReverseZone(z), NEW nsip
    PROVE  /\ IsFiniteSet(RenderedRRs(s, z, nsip))
           /\ \A r \in ToSet(s) : ~IsAlias(r) /\ SafeName(r.name) =>
                RR(TrimDot(r.name), r.type, r.addr) \in RenderedRRs(s, z, nsip)
           /\ \A rr \in RenderedRRs(s, z, nsip) : rr.type \in {"A", "AAAA"} =>
                \/ rr.owner = PrimaryNS /\ rr.data = nsip
                \/ \E r \in ToSet(s) : /\ ~IsAlias(r) /\ SafeName(r.name)
                                       /\ rr = RR(TrimDot(r.name), r.type, r.addr)
  <1> DEFINE K == Published(s, z)
             soa == RR(TrimDot(z), "SOA", PrimaryNS)
             ns == RR(TrimDot(z), "NS", PrimaryNS)
             own == PrimaryNSAddress(s, K, z, nsip)
             printed == [i \in K |-> RecordRR(s[i], z)]
  <1>1. K = CollisionFree(s, SafeIndices(s), z) /\ K \subseteq DOMAIN s
    BY DEF Published, CollisionFree, SafeIndices
  <1>2. RenderedRRs(s, z, nsip) = {soa, ns} \cup own \cup {printed[i] : i \in DOMAIN printed}
    BY DEF RenderedRRs, Apex
  <1>3. own = {} \/ own = {RR(PrimaryNS, AddressRecord(PrimaryNS, nsip).type, nsip)}
    BY DEF PrimaryNSAddress
  <1>4. IsFiniteSet(K)
    <2>1. IsFiniteSet(DOMAIN s)
      BY FiniteSeq DEF Records
    <2> QED
      BY <1>1, <2>1, FS_Subset
  <1>5. DOMAIN printed = K /\ \A i \in K : printed[i] = RecordRR(s[i], z)
    OBVIOUS
  <1>6. \A i \in K : s[i] \in ToSet(s) /\ SafeName(s[i].name)
    BY <1>1 DEF ToSet, CollisionFree, SafeIndices, SafeRecord
  <1>7. \A r : ~IsAlias(r) => RecordRR(r, z) = RR(TrimDot(r.name), r.type, r.addr)
    BY DEF RecordRR
  <1>8. \A r : IsAlias(r) => RecordRR(r, z).type = "CNAME"
    BY DEF RecordRR, RR
  <1>9. soa.type = "SOA" /\ ns.type = "NS"
    BY DEF RR
  <1>10. \A r \in ToSet(s) : ~IsAlias(r) /\ SafeName(r.name) =>
            \E i \in K : s[i] = r
    <2> SUFFICES ASSUME NEW r \in ToSet(s), ~IsAlias(r), SafeName(r.name)
                 PROVE  \E i \in K : s[i] = r
      OBVIOUS
    <2>1. PICK i \in DOMAIN s : s[i] = r
      BY DEF ToSet
    <2>2. i \in SafeIndices(s)
      BY <2>1 DEF SafeIndices, SafeRecord
    <2> QED
      BY <1>1, <2>1, <2>2 DEF CollisionFree
  <1> HIDE DEF K, soa, ns, own, printed
  <1>11. IsFiniteSet({printed[i] : i \in DOMAIN printed})
    BY <1>4, <1>5, FiniteImage
  <1>12. IsFiniteSet(own) /\ IsFiniteSet({soa, ns})
    <2>1. IsFiniteSet({}) /\ \A x : IsFiniteSet({x})
      BY FS_EmptySet, FS_Singleton
    <2>2. {soa, ns} = {soa} \cup {ns}
      OBVIOUS
    <2>3. IsFiniteSet({soa} \cup {ns})
      BY <2>1, FS_Union
    <2> QED
      BY <1>3, <2>1, <2>2, <2>3
  <1>13. IsFiniteSet(RenderedRRs(s, z, nsip))
    BY <1>2, <1>11, <1>12, FS_Union
  <1>14. \A r \in ToSet(s) : ~IsAlias(r) /\ SafeName(r.name) =>
            RR(TrimDot(r.name), r.type, r.addr) \in RenderedRRs(s, z, nsip)
    BY <1>2, <1>5, <1>7, <1>10
  <1>15. ASSUME NEW rr \in RenderedRRs(s, z, nsip), rr.type \in {"A", "AAAA"}
         PROVE  \/ rr.owner = PrimaryNS /\ rr.data = nsip
                \/ \E r \in ToSet(s) : /\ ~IsAlias(r) /\ SafeName(r.name)
                                       /\ rr = RR(TrimDot(r.name), r.type, r.addr)
    <2>1. rr \in own \/ \E i \in K : rr = RecordRR(s[i], z)
      BY <1>2, <1>5, <1>9, <1>15
    <2>2. CASE rr \in own
      BY <1>3, <2>2 DEF RR
    <2>3. CASE \E i \in K : rr = RecordRR(s[i], z)
      BY <1>6, <1>7, <1>8, <1>15, <2>3
    <2> QED
      BY <2>1, <2>2, <2>3
  <1> QED
    BY <1>13, <1>14, <1>15

\* A client who asks for a name whose deepest zone is a forward zone, and has
\* addresses there, gets them and no others (ServeDNS).
LEMMA ZoneAnswers ==
    ASSUME TypeOK, StoreInv, FilesAreCurrent, Quiet,
           NEW n, IsSeq(n), NEW z \in DOMAIN files \ ReverseZones,
           z # NoZone, ~IsReverseZone(z), InZone(Key(n), z),
           \A y \in DOMAIN files : InZone(Key(n), y) => Len(y) <= Len(z),
           OfType(files[z], Key(n), {"A", "AAAA"}) # {}
    PROVE  Gets(n) = {rr.data : rr \in OfType(files[z], Key(n), {"A", "AAAA"})}
  <1>1. config \in Config /\ known \in Answer /\ Addressed(store)
    BY DEF TypeOK, Quiet, Addressed
  <1>2. /\ IsFiniteSet(DOMAIN Merged) /\ \A y \in DOMAIN Merged : IsSeq(y)
        /\ \A y \in DOMAIN Merged \ ReverseZones : Records(Merged[y])
    BY <1>1, MergedAre DEF StoreInv
  <1>3. /\ DOMAIN files = DOMAIN Merged
        /\ files[z].rrs = RenderedRRs(Merged[z], z, config.nsip)
    BY DEF FilesAreCurrent
  <1>4. IsFiniteSet(files[z].rrs)
    BY <1>2, <1>3, RenderedAddresses
  <1>5. IsSeq(TrimDot(n)) /\ IsSeq(Key(n)) /\ Key(n) = Lower(TrimDot(n))
    BY NameTypes DEF Key
  <1>6. FindZone(files, Key(n)) = z
    BY <1>2, <1>3, <1>5, FindZoneIs
  <1>7. Resolve(files, TrimDot(n), {"A", "AAAA"})
            = {rr.data : rr \in OfType(files[z], Lower(TrimDot(n)), {"A", "AAAA"})}
    <2>1. FindZone(files, Lower(TrimDot(n))) = z
      BY <1>5, <1>6
    <2>2. IsSeq(Lower(TrimDot(n))) /\ OfType(files[z], Lower(TrimDot(n)), {"A", "AAAA"}) # {}
      BY <1>5
    <2>3. IsFiniteSet(DOMAIN files) /\ \A y \in DOMAIN files : IsSeq(y)
      BY <1>2, <1>3
    <2> QED
      BY <1>4, <2>1, <2>2, <2>3, LookupFinds
  <1> QED
    BY <1>5, <1>7 DEF Gets

\* What the merge leaves of a record of NetBox's that nothing excuses: z is the zone
\* it was filed in, q the record in its file.
Served(r, z, q) ==
    /\ z \in DOMAIN files \ ReverseZones /\ z # NoZone /\ IsSeq(z) /\ ~IsReverseZone(z)
    /\ z \in DOMAIN ForwardZones(config, known)
    /\ r \in ToSet(ForwardZones(config, known)[z])
    /\ InZone(Key(Final(r.name)), z)
    /\ \A y \in DOMAIN files : InZone(Key(Final(r.name)), y) => Len(y) <= Len(z)
    /\ Records(Merged[z]) /\ q \in ToSet(Merged[z]) /\ Came(q, r)
    /\ IsRecord(r) /\ IsSeq(Final(r.name)) /\ SafeName(Final(r.name))

LEMMA DueIsFiled ==
    ASSUME TypeOK, StoreInv, FilesAreCurrent, Quiet, NEW r \in Due
    PROVE  /\ \E z \in DOMAIN ForwardZones(config, known) :
                r \in ToSet(ForwardZones(config, known)[z])
           /\ \A z \in DOMAIN ForwardZones(config, known) :
                r \in ToSet(ForwardZones(config, known)[z]) => \E q : Served(r, z, q)
  <1> DEFINE filed == ForwardZones(config, known)
             records == Enrich(Row[known])
             n == Final(r.name)
             home == {z \in DOMAIN filed : r \in ToSet(filed[z])}
  <1>1. config \in Config /\ known \in Answer /\ Addressed(store)
    BY DEF TypeOK, Quiet, Addressed
  <1>2. r \in ToSet(records) /\ ~Excused(r, filed)
    BY DEF Due
  <1>3. Records(records) /\ Filed(filed, records) /\ InDeepest(filed)
    BY <1>1, PolledAre
  <1>4. IsRecord(r) /\ IsSeq(n)
    BY <1>2, <1>3, StrippedIs DEF Records, IsRecord, Final
  <1>5. SafeName(n) /\ home # {}
        /\ \A y \in ReverseZones : ~InZone(Key(n), y)
    BY <1>2 DEF Excused
  <1>6. SUFFICES ASSUME NEW z \in home PROVE \E q : Served(r, z, q)
    BY <1>5
  <1>7. /\ InZone(Key(n), z) /\ ~IsReverseZone(z)
        /\ n \notin DOMAIN DynamicOf(z)
        /\ \A y \in DOMAIN store : ~(InZone(Key(n), y) /\ Len(y) > Len(z))
        /\ config.strip \/ Key(n) # TrimDot(n) =>
              \A y \in DOMAIN files : ~(InZone(Key(n), y) /\ Len(y) > Len(z))
    BY <1>2, <1>6 DEF Excused
  <1>8. config.strip \/ n = r.name
    BY DEF Final
  <1> HIDE DEF n
  <1>9. z \in DOMAIN filed /\ r \in ToSet(filed[z]) /\ z # NoZone /\ IsSeq(z)
    BY <1>3, <1>6 DEF Filed
  <1> HIDE DEF filed, records, home
  <1>10. z \in DOMAIN netboxZones \ ReverseZones
    BY <1>1, <1>5, <1>7, <1>9, NetboxZonesAre DEF filed
  <1>11. PICK q \in ToSet(netboxZones[z]) : Came(q, r)
    BY <1>1, <1>9, <1>10, NetboxZonesAre DEF filed
  <1>12. /\ DOMAIN netboxZones \cup DOMAIN store \subseteq DOMAIN Merged
         /\ DOMAIN Merged \subseteq DOMAIN netboxZones \cup DOMAIN store \cup ReverseZones
         /\ \A y \in DOMAIN Merged : IsSeq(y)
         /\ Records(Merged[z])
         /\ q \in ToSet(Merged[z])
    <2>1. q.name = n /\ q \in ToSet(RecordsOf(netboxZones, z))
      BY <1>10, <1>11 DEF n, RecordsOf, Came
    <2> QED
      BY <1>1, <1>7, <1>10, <2>1, MergedAre DEF StoreInv
  <1>13. DOMAIN files = DOMAIN Merged /\ z \in DOMAIN files
    BY <1>10, <1>12 DEF FilesAreCurrent
  <1>14. ASSUME NEW y \in DOMAIN files, InZone(Key(n), y)
         PROVE  Len(y) <= Len(z)
    <2>1. Len(y) \in Nat /\ Len(z) \in Nat
      BY <1>9, <1>12, <1>13, SeqFacts
    <2>2. CASE config.strip \/ Key(n) # TrimDot(n)
      BY <1>7, <1>14, <2>1, <2>2
    <2>3. CASE y \in DOMAIN store
      BY <1>7, <1>14, <2>1, <2>3
    <2>4. CASE y \notin DOMAIN store /\ ~config.strip /\ Key(n) = TrimDot(n)
      <3>1. y \in DOMAIN filed
        <4>1. y \in DOMAIN netboxZones
          BY <1>5, <1>12, <1>13, <1>14, <2>4
        <4> QED
          BY <1>1, <1>5, <1>14, <4>1, NetboxZonesAre DEF filed
      <3>2. IsSuffix(y, TrimDot(r.name))
        BY <1>8, <1>14, <2>4 DEF InZone
      <3> QED
        BY <1>3, <1>9, <3>1, <3>2 DEF InDeepest
    <2> QED
      BY <2>2, <2>3, <2>4
  <1>15. Served(r, z, q)
    BY <1>4, <1>5, <1>7, <1>9, <1>10, <1>11, <1>12, <1>13, <1>14 DEF Served, n, filed
  <1> QED
    BY <1>15

\* An address that is filed is in its zone's file, and that zone answers for the
\* name.
LEMMA ServedAddress ==
    ASSUME TypeOK, StoreInv, FilesAreCurrent, Quiet,
           NEW r, ~IsAlias(r), NEW z, NEW q, Served(r, z, q)
    PROVE  r.addr \in {rr.data : rr \in OfType(files[z], Key(Final(r.name)), {"A", "AAAA"})}
  <1> DEFINE n == Final(r.name)
  <1>1. files[z].rrs = RenderedRRs(Merged[z], z, config.nsip)
    BY DEF FilesAreCurrent, Served
  <1>2. q.name = n /\ q.addr = r.addr /\ q.type \in {"A", "AAAA"} /\ ~IsAlias(q)
    BY DEF IsRecord, IsAlias, Served, Came
  <1>3. RR(TrimDot(n), q.type, r.addr) \in OfType(files[z], Key(n), {"A", "AAAA"})
    <2>1. RR(TrimDot(n), q.type, r.addr) \in files[z].rrs
      BY <1>1, <1>2, RenderedAddresses DEF Served
    <2> QED
      BY <1>2, <2>1 DEF OfType, At, RR, Key
  <1>4. RR(TrimDot(n), q.type, r.addr).data = r.addr
    BY DEF RR
  <1> QED
    BY <1>3, <1>4

LEMMA DueIsServed ==
    ASSUME TypeOK, StoreInv, FilesAreCurrent, Quiet, NEW r \in Due, ~IsAlias(r)
    PROVE  r.addr \in Gets(Final(r.name))
  <1>1. PICK z : \E q : Served(r, z, q)
    BY DueIsFiled
  <1>2. PICK q : Served(r, z, q)
    BY <1>1
  <1> DEFINE n == Final(r.name)
             data == {rr.data : rr \in OfType(files[z], Key(n), {"A", "AAAA"})}
  <1>3. r.addr \in data
    BY <1>2, ServedAddress
  <1>4. OfType(files[z], Key(n), {"A", "AAAA"}) # {}
    BY <1>3
  <1>5. Gets(n) = data
    BY <1>2, <1>4, ZoneAnswers DEF Served
  <1> QED
    BY <1>3, <1>5

\* In every reachable state in which the loop waits with nothing to merge, a client
\* gets each address NetBox has for a name, or the sidecar picked for a device
\* (enrichRecordsWithDeviceNames to findZone), unless something Excused names is in
\* its way.
THEOREM AddressesAreServed == Spec => []AddressesResolve
  <1>1. TypeOK /\ StoreInv /\ FilesAreCurrent => AddressesResolve
    BY DueIsServed DEF AddressesResolve
  <1> QED
    BY <1>1, TypeCorrect, StoreStaysFinite, DiskIsCurrent, PTL

-----------------------------------------------------------------------------
(* Aliases *)

\* Lower case and the missing dot make no name longer.
LEMMA KeyLength ==
    ASSUME NEW n, IsSeq(n)
    PROVE  Len(Key(n)) <= Len(n)
  <1>1. \A m : IsSeq(m) => Len(Lower(m)) = Len(m)
    <2> SUFFICES ASSUME NEW m, IsSeq(m)
                 PROVE  Len(Lower(m)) = Len(m)
      OBVIOUS
    <2> DEFINE f == Lower(m)
    <2>1. Len(m) \in Nat /\ f = [i \in 1..Len(m) |-> f[i]]
      BY SeqFacts DEF Lower
    <2> HIDE DEF f
    <2>2. Len(f) = Len(m)
      BY <2>1, FunIsSeq
    <2> QED
      BY <2>2 DEF f
  <1>2. Len(TrimDot(n)) <= Len(n) /\ IsSeq(TrimDot(n))
    <2>1. Len(n) \in Nat /\ IsSeq(TrimDot(n))
      BY SeqFacts, NameTypes
    <2>2. CASE TrimDot(n) = n
      BY <2>1, <2>2
    <2>3. CASE TrimDot(n) # n
      <3>1. n # NoName /\ TrimDot(n) = SubSeq(n, 1, Len(n) - 1)
        BY <2>3 DEF TrimDot, Front
      <3>2. Len(n) # 0
        BY <3>1 DEF IsSeq, NoName
      <3>3. 1 \in 1..(Len(n) + 1) /\ Len(n) - 1 \in 0..Len(n) /\ 1 <= (Len(n) - 1) + 1
        BY <2>1, <3>2
      <3>4. Len(SubSeq(n, 1, Len(n) - 1)) = (Len(n) - 1) - 1 + 1
        BY <3>3, SubSeqIs
      <3> QED
        BY <2>1, <3>1, <3>4
    <2> QED
      BY <2>2, <2>3
  <1> QED
    BY <1>1, <1>2 DEF Key

\* A zone over a name is not the name itself in another spelling.
LEMMA ApexIs ==
    ASSUME NEW k, IsSeq(k), NEW z, IsSeq(z), InZone(k, z), Key(z) = k
    PROVE  z = k
  <1>1. Len(k) <= Len(z)
    BY KeyLength
  <1>2. Len(z) \in Nat /\ Len(k) \in Nat
    BY SeqFacts
  <1>3. Len(z) <= Len(k) /\ IsSuffix(z, k)
    BY SuffixIs DEF InZone
  <1>4. IsSuffix(k, k)
    BY <1>2, SuffixIs
  <1>5. Len(z) = Len(k)
    BY <1>1, <1>2, <1>3
  <1> QED
    BY <1>3, <1>4, <1>5, SuffixesAgree

\* All records of the name k lead to t, and the sidecar has none of its own.
Agreed(s, k, t, nsip) ==
    \A p \in ToSet(s) : Key(p.name) = k =>
        /\ IsAlias(p) /\ Key(p.target) = t
        /\ k = Lower(PrimaryNS) /\ nsip # NoIP => TrimDot(p.name) = PrimaryNS

\* A zone's file has the alias its records agree on (resolveCNAMECollisions,
\* writePrimaryNSAddress).
LEMMA AliasIsRendered ==
    ASSUME NEW s, IsSeq(s), NEW z, ~IsReverseZone(z), NEW nsip,
           NEW k, k # Key(z), NEW t, Agreed(s, k, t, nsip),
           NEW q \in ToSet(s), Key(q.name) = k, SafeRecord(q),
           NEW file, file.rrs = RenderedRRs(s, z, nsip)
    PROVE  LeadsTo(file, k, t, {"A", "AAAA"})
  <1> DEFINE S == SafeIndices(s)
             K == Published(s, z)
             same == {j \in S : Key(s[j].name) = k}
  <1>1. K = CollisionFree(s, S, z)
    BY DEF Published
  <1>2. PICK i0 \in same : TRUE
    BY DEF SafeIndices, ToSet
  <1>3. same \subseteq Nat
    <2>1. DOMAIN s \subseteq Nat
      BY SeqFacts
    <2> QED
      BY <2>1 DEF SafeIndices
  <1>4. \A j \in same : IsAlias(s[j]) /\ Key(s[j].target) = t
    BY DEF SafeIndices, ToSet, Agreed
  <1> DEFINE i == Min(same)
  <1>5. i \in same
    <2>1. \E j \in same : \A l \in same : j <= l
      <3> HIDE DEF same
      <3> QED
        BY <1>2, <1>3, SmallestExists
    <2> QED
      BY <2>1 DEF Min
  <1>6. SameOwner(s, S, i) = same
    BY <1>5 DEF SameOwner
  <1>7. i \in K
    <2>1. i \in S /\ IsAlias(s[i]) /\ Key(s[i].name) # Key(z) /\ Key(s[i].target) = t
      BY <1>4, <1>5
    <2>2. SoleAlias(s, S, i)
      <3> HIDE DEF same, S
      <3> QED
        BY <1>4, <1>6, <2>1 DEF SoleAlias
    <2> HIDE DEF i
    <2> QED
      BY <1>1, <2>1, <2>2 DEF CollisionFree
  <1>8. Key(s[i].name) = k /\ IsAlias(s[i]) /\ s[i] \in ToSet(s)
    BY <1>4, <1>5 DEF SafeIndices, ToSet
  <1> HIDE DEF same, i
  <1>9. RR(TrimDot(s[i].name), "CNAME", TrimDot(s[i].target)) \in At(file, k)
    <2>1. RecordRR(s[i], z) = RR(TrimDot(s[i].name), "CNAME", TrimDot(s[i].target))
      BY <1>8 DEF RecordRR
    <2>2. RecordRR(s[i], z) \in file.rrs
      BY <1>7 DEF RenderedRRs
    <2>3. Lower(RR(TrimDot(s[i].name), "CNAME", TrimDot(s[i].target)).owner) = k
      BY <1>8 DEF RR, Key
    <2> QED
      BY <2>1, <2>2, <2>3 DEF At
  <1>10. ASSUME NEW rr \in At(file, k)
         PROVE  /\ rr.type \notin {"A", "AAAA"}
                /\ rr.type = "CNAME" => Lower(rr.data) = t
    <2>1. Lower(rr.owner) = k /\ rr \in RenderedRRs(s, z, nsip)
      BY DEF At
    <2>2. CASE rr \in Apex(z)
      BY <2>2 DEF Apex, RR
    <2>3. CASE rr \in PrimaryNSAddress(s, K, z, nsip)
      <3>1. rr.owner = PrimaryNS /\ nsip # NoIP
            /\ \A j \in K : TrimDot(s[j].name) # PrimaryNS
        BY <2>3 DEF PrimaryNSAddress, RR
      <3>2. TrimDot(s[i].name) = PrimaryNS
        BY <1>8, <2>1, <3>1 DEF Agreed
      <3> QED
        BY <1>7, <3>1, <3>2
    <2>4. CASE \E j \in K : rr = RecordRR(s[j], z)
      <3>1. PICK j \in K : rr = RecordRR(s[j], z)
        BY <2>4
      <3>2. s[j] \in ToSet(s)
        BY <1>1 DEF CollisionFree, SafeIndices, ToSet
      <3>3. rr.owner = TrimDot(s[j].name)
        BY <3>1 DEF RecordRR, RR
      <3>4. Key(s[j].name) = k
        BY <2>1, <3>3 DEF Key
      <3>5. IsAlias(s[j]) /\ Key(s[j].target) = t
        BY <3>2, <3>4 DEF Agreed
      <3>6. rr.type = "CNAME" /\ rr.data = TrimDot(s[j].target)
        BY <3>1, <3>5 DEF RecordRR, RR
      <3> QED
        BY <3>5, <3>6 DEF Key
    <2> QED
      BY <2>1, <2>2, <2>3, <2>4 DEF RenderedRRs
  <1> QED
    BY <1>9, <1>10 DEF LeadsTo, RR

\* What the merge leaves of an alias's zone agrees on the alias if NetBox's records
\* and the operators' do.
LEMMA ClaimIsAgreed ==
    ASSUME TypeOK, StoreInv, Quiet, NEW a, SoleClaim(a, ToSet(Enrich(Row[known]))),
           NEW z \in DOMAIN Merged \ ReverseZones
    PROVE  Agreed(Merged[z], Key(Final(a.name)), Key(Final(a.target)), config.nsip)
  <1> DEFINE k == Key(Final(a.name))
             t == Key(Final(a.target))
  <1> SUFFICES ASSUME NEW p \in ToSet(Merged[z]), Key(p.name) = k
               PROVE  /\ IsAlias(p) /\ Key(p.target) = t
                      /\ k = Lower(PrimaryNS) /\ config.nsip # NoIP
                            => TrimDot(p.name) = PrimaryNS
    BY DEF Agreed
  <1>1. config \in Config /\ known \in Answer /\ Addressed(store)
    BY DEF TypeOK, Quiet, Addressed
  <1>2. ToSet(Merged[z]) =
            {r \in ToSet(RecordsOf(netboxZones, z)) : r.name \notin DOMAIN DynamicOf(z)}
            \cup {AddressRecord(n, DynamicOf(z)[n]) : n \in DOMAIN DynamicOf(z)}
    BY <1>1, MergedAre DEF StoreInv
  <1>3. p \in ToSet(RecordsOf(netboxZones, z))
    <2>1. ASSUME NEW n \in DOMAIN DynamicOf(z)
          PROVE  p # AddressRecord(n, DynamicOf(z)[n])
      <3>1. z \in DOMAIN store /\ n \in DOMAIN store[z]
        BY <2>1 DEF DynamicOf, OwnRecords, NoRecords
      <3>2. Key(n) # k
        BY <3>1 DEF SoleClaim
      <3>3. AddressRecord(n, DynamicOf(z)[n]).name = n
        BY DEF AddressRecord
      <3> QED
        BY <3>2, <3>3
    <2> QED
      BY <1>2, <2>1
  <1>4. z \in DOMAIN netboxZones /\ p \in ToSet(netboxZones[z])
    <2>1. ToSet(<<>>) = {}
      BY DEF ToSet
    <2> QED
      BY <1>3, <2>1 DEF RecordsOf
  <1>5. PICK q \in ToSet(Enrich(Row[known])) : Came(p, q)
    BY <1>1, <1>4, NetboxZonesAre
  <1>6. Key(Final(q.name)) = k
    BY <1>5 DEF Came
  <1>7. /\ IsAlias(q) /\ Key(Final(q.target)) = t
        /\ k = Lower(PrimaryNS) /\ config.nsip # NoIP => TrimDot(Final(q.name)) = PrimaryNS
    BY <1>6 DEF SoleClaim
  <1> QED
    BY <1>5, <1>7 DEF Came, IsAlias

\* An alias that nothing excuses and nobody disputes is answered with each address
\* of what it leads to.
LEMMA AliasIsServed ==
    ASSUME TypeOK, StoreInv, FilesAreCurrent, Quiet,
           NEW a \in Due, IsAlias(a), SoleClaim(a, ToSet(Enrich(Row[known]))),
           NEW r \in Due, ~IsAlias(r), Key(Final(r.name)) = Key(Final(a.target)),
           \A z \in DOMAIN ForwardZones(config, known) :
                a \in ToSet(ForwardZones(config, known)[z]) =>
                    \/ r \in ToSet(ForwardZones(config, known)[z])
                    \/ At(files[z], Key(Final(r.name))) = {}
    PROVE  r.addr \in Gets(Final(a.name))
  <1> DEFINE filed == ForwardZones(config, known)
             n == Final(a.name)
             t == Key(Final(r.name))
             types == {"A", "AAAA"}
  <1>1. PICK z : \E q : Served(a, z, q)
    BY DueIsFiled
  <1>2. PICK q : Served(a, z, q)
    BY <1>1
  <1>3. PICK y : (\E p : Served(r, y, p)) /\ (y = z \/ At(files[z], Key(Final(r.name))) = {})
    <2>1. z \in DOMAIN ForwardZones(config, known) /\ a \in ToSet(ForwardZones(config, known)[z])
      BY <1>2 DEF Served
    <2>2. CASE r \in ToSet(ForwardZones(config, known)[z])
      BY <2>1, <2>2, DueIsFiled
    <2>3. CASE At(files[z], Key(Final(r.name))) = {}
      BY <2>3, DueIsFiled
    <2> QED
      BY <2>1, <2>2, <2>3
  <1>4. PICK p : Served(r, y, p)
    BY <1>3
  <1>5. config \in Config /\ known \in Answer /\ Addressed(store)
    BY DEF TypeOK, Quiet, Addressed
  <1>6. /\ DOMAIN files = DOMAIN Merged /\ IsFiniteSet(DOMAIN files)
        /\ \A x \in DOMAIN files : IsSeq(x) /\ files[x].rrs = RenderedRRs(Merged[x], x, config.nsip)
    BY <1>5, MergedAre DEF StoreInv, FilesAreCurrent
  <1>7. /\ z \in DOMAIN files \ ReverseZones /\ z # NoZone /\ IsSeq(z) /\ ~IsReverseZone(z)
        /\ z \in DOMAIN filed /\ a \in ToSet(filed[z])
        /\ InZone(Key(n), z)
        /\ \A x \in DOMAIN files : InZone(Key(n), x) => Len(x) <= Len(z)
        /\ Records(Merged[z]) /\ q \in ToSet(Merged[z])
        /\ q.name = n /\ q.target = Final(a.target) /\ q.type = a.type
        /\ IsSeq(n) /\ SafeName(n)
    BY <1>2 DEF Served, Came
  <1>8. /\ y \in DOMAIN files \ ReverseZones /\ y # NoZone /\ IsSeq(y) /\ ~IsReverseZone(y)
        /\ y \in DOMAIN filed /\ r \in ToSet(filed[y])
        /\ InZone(t, y)
        /\ \A x \in DOMAIN files : InZone(t, x) => Len(x) <= Len(y)
        /\ Records(Merged[y]) /\ IsSeq(Final(r.name))
    BY <1>4 DEF Served
  <1>9. r.addr \in {rr.data : rr \in OfType(files[y], t, types)}
    BY <1>4, ServedAddress
  <1>10. Key(Final(a.target)) = t /\ SafeName(Final(a.target))
    BY DEF Due, Excused
  <1>11. IsSeq(TrimDot(n)) /\ IsSeq(Key(n)) /\ Key(n) = Lower(TrimDot(n)) /\ IsSeq(t)
    BY <1>7, <1>8, NameTypes DEF Key
  <1> HIDE DEF n, t, filed
  <1>12. IsFiniteSet(files[z].rrs) /\ IsFiniteSet(files[y].rrs)
    BY <1>6, <1>7, <1>8, RenderedAddresses
  <1>13. FindZone(files, Key(n)) = z /\ FindZone(files, t) = y
    BY <1>6, <1>7, <1>8, <1>11, FindZoneIs
  <1>14. LeadsTo(files[z], Key(n), t, types)
    <2>1. Key(n) # Key(z)
      <3>1. SUFFICES ASSUME Key(z) = Key(n) PROVE FALSE
        OBVIOUS
      <3>2. z = Key(n)
        BY <1>7, <1>11, <3>1, ApexIs
      <3>3. Key(n) \notin DOMAIN files
        BY DEF SoleClaim, n
      <3> QED
        BY <1>7, <3>2, <3>3
    <2>2. Agreed(Merged[z], Key(n), t, config.nsip)
      BY <1>6, <1>7, <1>10, ClaimIsAgreed DEF n
    <2>3. SafeRecord(q)
      BY <1>7, <1>10 DEF SafeRecord
    <2>4. IsSeq(Merged[z]) /\ files[z].rrs = RenderedRRs(Merged[z], z, config.nsip)
      BY <1>6, <1>7 DEF Records
    <2> QED
      BY <1>7, <2>1, <2>2, <2>3, <2>4, AliasIsRendered
  <1>15. OfType(files[y], t, types) # {} /\ (y = z \/ At(files[z], t) = {})
    BY <1>3, <1>9 DEF t
  <1>16. Resolve(files, TrimDot(n), types) = {rr.data : rr \in OfType(files[y], t, types)}
    <2>1. z \in DOMAIN files /\ y \in DOMAIN files
      BY <1>7, <1>8
    <2>2. FindZone(files, Lower(TrimDot(n))) = z /\ LeadsTo(files[z], Lower(TrimDot(n)), t, types)
      BY <1>11, <1>13, <1>14
    <2> HIDE DEF types
    <2> QED
      BY <1>6, <1>7, <1>8, <1>12, <1>13, <1>15, <2>1, <2>2, AliasFinds
  <1>17. r.addr \in Gets(n)
    BY <1>9, <1>16 DEF Gets
  <1> QED
    BY <1>17 DEF n

\* In every quiet state a client who asks for an alias that nobody disputes gets each
\* address NetBox has for what it stands for, be it in the alias's own zone or in
\* another (DeviceDNSToRecords, StripDCLabel, resolveCNAMECollisions, zone.answer).
THEOREM AliasesAreServed == Spec => []AliasesResolve
  <1>1. TypeOK /\ StoreInv /\ FilesAreCurrent => AliasesResolve
    BY AliasIsServed DEF AliasesResolve
  <1> QED
    BY <1>1, TypeCorrect, StoreStaysFinite, DiskIsCurrent, PTL

\* Together: what NetBox says of a name is what a client gets for it.
THEOREM NetboxIsServed == Spec => []NetboxResolves
  <1>1. AddressesResolve /\ AliasesResolve => NetboxResolves
    BY DEF NetboxResolves
  <1> QED
    BY <1>1, AddressesAreServed, AliasesAreServed, PTL

-----------------------------------------------------------------------------
(* Operators' records *)

\* What an operator has written is served, and what is served with it is spelled
\* otherwise.
LEMMA OwnIsServed ==
    ASSUME TypeOK, StoreInv, FilesAreCurrent, Quiet,
           NEW z \in DOMAIN store \ (ReverseZones \cup {NoZone}), NEW n \in DOMAIN store[z],
           SafeName(n), InZone(Key(n), z), ~IsReverseZone(z),
           \A y \in DOMAIN files : InZone(Key(n), y) => Len(y) <= Len(z)
    PROVE  /\ store[z][n] \in Gets(n)
           /\ Gets(n) \subseteq
                {store[z][m] : m \in {m \in DOMAIN store[z] : Key(m) = Key(n)}}
                \cup {r.addr : r \in {r \in ToSet(RecordsOf(netboxZones, z)) :
                            Key(r.name) = Key(n) /\ r.name \notin DOMAIN store[z]}}
                \cup {a \in {config.nsip} : Key(n) = Lower(PrimaryNS)}
  <1> DEFINE own == store[z]
             netbox == {r \in ToSet(RecordsOf(netboxZones, z)) : r.name \notin DOMAIN own}
             found == OfType(files[z], Key(n), {"A", "AAAA"})
             r0 == AddressRecord(n, own[n])
  <1>1. config \in Config /\ known \in Answer /\ Addressed(store)
    BY DEF TypeOK, Quiet, Addressed
  <1>2. z \notin ReverseZones /\ z # NoZone /\ IsSeq(n) /\ DynamicOf(z) = own
    BY DEF StoreInv, FiniteStore, FiniteRecords, DynamicOf, OwnRecords
  <1>3. /\ z \in DOMAIN Merged /\ Records(Merged[z])
        /\ ToSet(Merged[z]) = netbox \cup {AddressRecord(m, own[m]) : m \in DOMAIN own}
    BY <1>1, <1>2, MergedAre DEF StoreInv
  <1>4. z \in DOMAIN files /\ files[z].rrs = RenderedRRs(Merged[z], z, config.nsip)
    BY <1>3 DEF FilesAreCurrent
  <1>5. r0 \in ToSet(Merged[z])
    BY <1>3
  <1>6. \A m : /\ AddressRecord(m, own[m]).name = m /\ AddressRecord(m, own[m]).addr = own[m]
               /\ AddressRecord(m, own[m]).type \in {"A", "AAAA"}
    BY DEF AddressRecord
  <1> HIDE DEF netbox, found
  <1>7. RR(TrimDot(n), r0.type, own[n]) \in found
    <2>1. r0.name = n /\ r0.addr = own[n] /\ r0.type \in {"A", "AAAA"} /\ ~IsAlias(r0)
      BY <1>6 DEF IsAlias
    <2> HIDE DEF r0, own
    <2>2. RR(TrimDot(n), r0.type, own[n]) \in files[z].rrs
      BY <1>3, <1>4, <1>5, <2>1, RenderedAddresses
    <2> QED
      BY <2>1, <2>2 DEF found, OfType, At, RR, Key
  <1>8. Gets(n) = {rr.data : rr \in found}
    <2>1. found # {}
      BY <1>7
    <2> QED
      BY <1>2, <1>4, <2>1, ZoneAnswers DEF found
  <1>9. store[z][n] \in Gets(n)
    BY <1>7, <1>8 DEF RR
  <1>10. ASSUME NEW rr \in found
         PROVE  \/ rr.data = config.nsip /\ Key(n) = Lower(PrimaryNS)
                \/ \E r \in netbox : Key(r.name) = Key(n) /\ rr.data = r.addr
                \/ \E m \in DOMAIN own : Key(m) = Key(n) /\ rr.data = own[m]
    <2>1. rr \in files[z].rrs /\ Lower(rr.owner) = Key(n) /\ rr.type \in {"A", "AAAA"}
      BY DEF found, OfType, At
    <2>2. \/ rr.owner = PrimaryNS /\ rr.data = config.nsip
          \/ \E r \in ToSet(Merged[z]) : rr = RR(TrimDot(r.name), r.type, r.addr)
      BY <1>3, <1>4, <2>1, RenderedAddresses
    <2>3. ASSUME NEW r \in ToSet(Merged[z]), rr = RR(TrimDot(r.name), r.type, r.addr)
          PROVE  Key(r.name) = Key(n) /\ rr.data = r.addr
      BY <2>1, <2>3 DEF RR, Key
    <2>4. ASSUME NEW r \in ToSet(Merged[z])
          PROVE  r \in netbox \/ \E m \in DOMAIN own : r.name = m /\ r.addr = own[m]
      BY <1>3, <1>6
    <2> HIDE DEF own
    <2> QED
      BY <2>1, <2>2, <2>3, <2>4
  <1>11. ASSUME NEW a \in Gets(n)
         PROVE  \/ a = config.nsip /\ Key(n) = Lower(PrimaryNS)
                \/ \E r \in netbox : Key(r.name) = Key(n) /\ a = r.addr
                \/ \E m \in DOMAIN own : Key(m) = Key(n) /\ a = own[m]
    BY <1>8, <1>10
  <1> QED
    BY <1>9, <1>11 DEF netbox

\* In every reachable state in which the loop waits with nothing to merge, a client
\* gets an operator's record for its name, and of NetBox's records in its zone only
\* those whose names are spelled otherwise (merge.go, lines 45-59).
THEOREM OperatorsAreServed == Spec => []OperatorsResolve
  <1>1. TypeOK /\ StoreInv /\ FilesAreCurrent => OperatorsResolve
    BY OwnIsServed DEF OperatorsResolve
  <1> QED
    BY <1>1, TypeCorrect, StoreStaysFinite, DiskIsCurrent, PTL

-----------------------------------------------------------------------------
(* Forward and reverse *)

\* A poll has a PTR for each address with a name and a reverse zone
\* (ReverseZoneDiscoverer, maps.Copy, stripDC).
LEMMA PtrIsPolled ==
    ASSUME config \in Config, known \in Answer,
           NEW r \in ToSet(Enrich(Row[known])), ~IsAlias(r), r.name # NoName,
           NEW y, y = ReverseZoneOf(r.addr), y # NoZone
    PROVE  /\ y \in DOMAIN netboxZones /\ IsSeq(netboxZones[y])
           /\ \E p \in ToSet(netboxZones[y]) :
                p.name = Final(r.name) /\ p.addr = PtrLabel(r.addr) /\ p.type = "PTR"
  <1> DEFINE records == Enrich(Row[known])
             ptrs == DiscoverReverse(records)
             both == Combined(config, known)
             p0 == PtrRecord(r, PtrLabel(r.addr))
  <1>1. IsSeq(records)
    BY PolledAre DEF Records
  <1>2. both = Over(ptrs, ForwardZones(config, known))
    BY DEF Combined
  <1>3. netboxZones = Stripped(config, both)
    <2>1. known # NoData
      BY PublicationAssumption
    <2>2. ZonesOf[config][known] = Stripped(config, both)
      BY DEF ZonesOf
    <2> QED
      BY <2>1, <2>2 DEF netboxZones
  <1> HIDE DEF records
  <1>4. /\ y \in DOMAIN ptrs /\ IsSeq(ptrs[y]) /\ p0 \in ToSet(ptrs[y])
        /\ \A p \in ToSet(ptrs[y]) : \E q : \E l : p = PtrRecord(q, l)
    BY <1>1, ReverseIsReverse DEF records
  <1> HIDE DEF ptrs, both
  <1>5. y \in DOMAIN both /\ both[y] = ptrs[y]
    BY <1>2, <1>4 DEF Over
  <1>6. \A q, l : IsWhole(PtrRecord(q, l))
    BY DEF IsWhole, PtrRecord
  <1>7. \A p \in ToSet(ptrs[y]) : IsWhole(p)
    BY <1>4, <1>6
  <1>8. p0.name = r.name /\ p0.addr = PtrLabel(r.addr) /\ p0.type = "PTR"
    BY DEF PtrRecord
  <1> HIDE DEF p0
  <1>9. CASE config.strip
    <2>1. y \in DOMAIN netboxZones /\ netboxZones[y] = StripDCLabel(ptrs[y])
      BY <1>3, <1>5, <1>9 DEF Stripped
    <2>2. /\ IsSeq(netboxZones[y])
          /\ ToSet(netboxZones[y]) = {StripOf(p) : p \in ToSet(ptrs[y])}
      BY <1>4, <1>7, <2>1, StripIs
    <2>3. /\ StripOf(p0).name = Final(r.name) /\ StripOf(p0).addr = PtrLabel(r.addr)
          /\ StripOf(p0).type = "PTR"
      BY <1>8, <1>9 DEF StripOf, Final
    <2> QED
      BY <1>4, <2>1, <2>2, <2>3
  <1>10. CASE ~config.strip
    <2>1. y \in DOMAIN netboxZones /\ netboxZones[y] = ptrs[y]
      BY <1>3, <1>5, <1>10 DEF Stripped
    <2> QED
      BY <1>4, <1>8, <1>10, <2>1 DEF Final
  <1> QED
    BY <1>9, <1>10

\* The merge keeps a PTR unless an operator's record takes its address over
\* (merge.go, lines 61-81).
LEMMA PtrIsMerged ==
    ASSUME FiniteStore(store), Addressed(store),
           NEW y \in DOMAIN netboxZones, IsSeq(netboxZones[y]), y \notin DOMAIN store,
           NEW p \in ToSet(netboxZones[y]),
           \A z \in DOMAIN store : \A n \in DOMAIN store[z] :
                ReverseZoneOf(store[z][n]) = y => PtrLabel(store[z][n]) # p.addr
    PROVE  y \in DOMAIN Merged /\ IsSeq(Merged[y]) /\ p \in ToSet(Merged[y])
  <1> DEFINE nz == netboxZones
             both == WithDynamic(nz, store)
             ptrs == DynamicPTRs(store)
             Kept == {r \in ToSet(nz[y]) : r.name \notin DOMAIN NoRecords}
             left == Those(nz[y], Kept)
             right == DynamicRecords(NoRecords)
  <1>1. y \in DOMAIN both /\ both[y] = left \o right
    BY DEF WithDynamic, OwnRecords, RecordsOf
  <1>2. /\ DOMAIN Merged = DOMAIN both \cup DOMAIN ptrs
        /\ \A z \in DOMAIN Merged : Merged[z] =
                IF z \in DOMAIN ptrs THEN ShadowPTRs(RecordsOf(both, z), ptrs[z]) ELSE both[z]
    BY DEF Merged, MergedZones
  <1>3. p \in Kept /\ Kept \subseteq ToSet(nz[y])
    BY DEF NoRecords
  <1> HIDE DEF Kept
  <1>4. IsSeq(left) /\ p \in ToSet(left)
    BY <1>3, ThoseOf
  <1>5. IsSeq(right)
    <2>1. FiniteRecords(NoRecords) /\ DOMAIN NoRecords = {}
      BY FS_EmptySet DEF FiniteRecords, NoRecords
    <2> QED
      BY <2>1, DynamicRecordsAre DEF Records
  <1> HIDE DEF both, ptrs, left, right
  <1>6. IsSeq(both[y]) /\ p \in ToSet(both[y])
    BY <1>1, <1>4, <1>5, JoinIsSeq
  <1>7. CASE y \notin DOMAIN ptrs
    BY <1>1, <1>2, <1>6, <1>7
  <1>8. CASE y \in DOMAIN ptrs
    <2> DEFINE Spared == {r \in ToSet(both[y]) : \A q \in ToSet(ptrs[y]) : q.addr # r.addr}
    <2>1. Merged[y] = Those(both[y], Spared) \o ptrs[y]
      BY <1>1, <1>2, <1>8 DEF ShadowPTRs, RecordsOf
    <2>2. IsSeq(ptrs[y]) /\ \A q \in ToSet(ptrs[y]) : q.addr # p.addr
      BY <1>8, DynamicPTRsAre DEF ptrs
    <2>3. p \in Spared
      BY <1>6, <2>2
    <2> HIDE DEF Spared
    <2>4. IsSeq(Those(both[y], Spared)) /\ p \in ToSet(Those(both[y], Spared))
      BY <1>6, <2>3, ThoseOf
    <2>5. IsSeq(Merged[y]) /\ p \in ToSet(Merged[y])
      BY <2>1, <2>2, <2>4, JoinIsSeq
    <2> QED
      BY <1>1, <1>2, <2>5
  <1> QED
    BY <1>7, <1>8

\* A reverse zone's file has no addresses.
LEMMA NoAddressInReverse ==
    ASSUME NEW s, NEW z, IsReverseZone(z), NEW nsip, NEW rr \in RenderedRRs(s, z, nsip)
    PROVE  rr.type \notin {"A", "AAAA"}
  <1>1. PrimaryNSAddress(s, Published(s, z), z, nsip) = {}
    BY DEF PrimaryNSAddress
  <1>2. \A r : RecordRR(r, z).type = "PTR"
    BY DEF RecordRR, RR
  <1>3. \A q \in Apex(z) : q.type \in {"SOA", "NS"}
    BY DEF Apex, RR
  <1> QED
    BY <1>1, <1>2, <1>3 DEF RenderedRRs

\* It has the PTRs of fit names, and is finite (Generate).
LEMMA RenderedPtrs ==
    ASSUME NEW s, IsSeq(s), NEW z, IsReverseZone(z), NEW nsip
    PROVE  /\ IsFiniteSet(RenderedRRs(s, z, nsip))
           /\ \A p \in ToSet(s) : ~IsAlias(p) /\ SafeName(p.name) =>
                RR(p.addr \o TrimDot(z), "PTR", TrimDot(p.name)) \in RenderedRRs(s, z, nsip)
  <1> DEFINE K == SafeIndices(s)
             soa == RR(TrimDot(z), "SOA", PrimaryNS)
             ns == RR(TrimDot(z), "NS", PrimaryNS)
             printed == [i \in K |-> RecordRR(s[i], z)]
  <1>1. Published(s, z) = K /\ PrimaryNSAddress(s, K, z, nsip) = {}
    BY DEF Published, PrimaryNSAddress
  <1>2. RenderedRRs(s, z, nsip) = {soa, ns} \cup {printed[i] : i \in DOMAIN printed}
    BY <1>1 DEF RenderedRRs, Apex
  <1>3. DOMAIN printed = K
        /\ \A i \in K : printed[i] = RR(s[i].addr \o TrimDot(z), "PTR", TrimDot(s[i].name))
    BY DEF RecordRR
  <1>4. IsFiniteSet(K)
    <2>1. IsFiniteSet(DOMAIN s) /\ K \subseteq DOMAIN s
      BY FiniteSeq DEF SafeIndices
    <2> QED
      BY <2>1, FS_Subset
  <1>5. \A p \in ToSet(s) : ~IsAlias(p) /\ SafeName(p.name) => \E i \in K : s[i] = p
    BY DEF SafeIndices, SafeRecord, ToSet
  <1> HIDE DEF K, soa, ns, printed
  <1>6. IsFiniteSet({printed[i] : i \in DOMAIN printed})
    BY <1>3, <1>4, FiniteImage
  <1>7. IsFiniteSet({soa, ns})
    <2>1. {soa, ns} = {soa} \cup {ns}
      OBVIOUS
    <2>2. IsFiniteSet({soa}) /\ IsFiniteSet({ns})
      BY FS_Singleton
    <2>3. IsFiniteSet({soa} \cup {ns})
      BY <2>2, FS_Union
    <2> QED
      BY <2>1, <2>3
  <1>8. IsFiniteSet(RenderedRRs(s, z, nsip))
    BY <1>2, <1>6, <1>7, FS_Union
  <1> QED
    BY <1>2, <1>3, <1>5, <1>8

\* None of the names NetBox has is below a reverse tree, as a host's name might be.
HostsElsewhere ==
    known # NoData => \A z \in DOMAIN ForwardZones(config, known) : ~IsReverseZone(z)

\* The deepest of all zones over an address is its reverse zone, unless operators
\* have a zone over it.
LEMMA ReverseZoneAnswers ==
    ASSUME TypeOK, StoreInv, FilesAreCurrent, Quiet, HostsElsewhere,
           NEW a \in DOMAIN ReverseName, NEW y, y = ReverseZoneOf(a), y # NoZone,
           y \in DOMAIN files,
           \A z \in DOMAIN store : ~InZone(ReverseName[a], z)
    PROVE  FindZone(files, ReverseName[a]) = y
  <1> DEFINE n == ReverseName[a]
             filed == ForwardZones(config, known)
  <1>1. config \in Config /\ known \in Answer /\ Addressed(store)
    BY DEF TypeOK, Quiet, Addressed
  <1>2. /\ DOMAIN files \subseteq DOMAIN filed \cup ReverseZones \cup DOMAIN store
        /\ \A z \in DOMAIN files : IsSeq(z)
    BY <1>1, MergedAre, NetboxZonesAre DEF StoreInv, FilesAreCurrent
  <1>3. \A z \in DOMAIN filed : ~IsReverseZone(z)
    BY DEF HostsElsewhere, Quiet
  <1>4. /\ y \in ReverseZones /\ InZone(n, y)
        /\ \A z \in ReverseZones : InZone(n, z) => Len(z) <= Len(y)
    BY ReverseZoneIs
  <1>5. IsSeq(n)
    BY ZoneNamesAssumption
  <1> HIDE DEF n, filed
  <1>6. ASSUME NEW z \in DOMAIN files, InZone(n, z)
        PROVE  Len(z) <= Len(y)
    <2>1. z \in DOMAIN filed \/ z \in ReverseZones
      BY <1>2, <1>6 DEF n
    <2>2. CASE z \in ReverseZones
      BY <1>4, <1>6, <2>2
    <2>3. CASE z \in DOMAIN filed
      <3>1. SUFFICES ASSUME ~(Len(z) <= Len(y)) PROVE FALSE
        OBVIOUS
      <3>2. IsSeq(z) /\ IsSeq(y) /\ Len(y) \in Nat /\ Len(z) \in Nat
        BY <1>2, SeqFacts
      <3>3. Len(y) <= Len(z) /\ Len(y) # Len(z)
        BY <3>1, <3>2
      <3> DEFINE v4 == << <<"in", "addr">>, <<"arpa">> >>
                 v6 == << <<"ip6">>, <<"arpa">> >>
      <3>4. PICK t \in {v4, v6} : IsSuffix(t, y)
        BY <1>4, ReverseAssumption DEF IsReverseZone, IsStrictSuffix
      <3>5. IsSeq(t)
        BY DEF IsSeq, ToSet
      <3>6. IsSuffix(t, z)
        BY <1>4, <1>5, <1>6, <3>2, <3>3, <3>4, <3>5, SuffixNests DEF InZone
      <3>7. t # z
        <4>1. Len(t) <= Len(y) /\ Len(t) \in Nat
          BY <3>2, <3>4, <3>5, SuffixIs, SeqFacts
        <4> QED
          BY <3>2, <3>3, <4>1
      <3>8. IsReverseZone(z)
        BY <3>6, <3>7 DEF IsReverseZone, IsStrictSuffix
      <3> QED
        BY <1>3, <2>3, <3>8
    <2> QED
      BY <2>1, <2>2, <2>3
  <1>7. FindZone(files, n) = y
    BY <1>2, <1>4, <1>5, <1>6, FindZoneIs
  <1> QED
    BY <1>7 DEF n

\* An address in a zone file that no operator has taken over is NetBox's, and so is
\* its name.
LEMMA AddressIsPolled ==
    ASSUME TypeOK, StoreInv, FilesAreCurrent, Quiet,
           NEW z \in DOMAIN files, NEW rr \in files[z].rrs, rr.type \in {"A", "AAAA"},
           <<rr.owner, rr.data>> # <<PrimaryNS, config.nsip>>,
           \A y \in DOMAIN store : \A n \in DOMAIN store[y] :
                ReverseName[store[y][n]] # ReverseName[rr.data]
    PROVE  /\ rr.data \in DOMAIN ReverseName
           /\ \E r \in ToSet(Enrich(Row[known])) :
                /\ ~IsAlias(r) /\ r.name # NoName /\ r.addr = rr.data
                /\ SafeName(Final(r.name)) /\ rr.owner = TrimDot(Final(r.name))
  <1>1. config \in Config /\ known \in Answer /\ Addressed(store)
    BY DEF TypeOK, Quiet, Addressed
  <1>2. z \in DOMAIN Merged /\ files[z].rrs = RenderedRRs(Merged[z], z, config.nsip)
    BY DEF FilesAreCurrent
  <1>3. ~IsReverseZone(z) /\ z \notin ReverseZones
    BY <1>2, NoAddressInReverse, ReverseAssumption
  <1>4. /\ Records(Merged[z])
        /\ ToSet(Merged[z]) =
             {r \in ToSet(RecordsOf(netboxZones, z)) : r.name \notin DOMAIN DynamicOf(z)}
             \cup {AddressRecord(n, DynamicOf(z)[n]) : n \in DOMAIN DynamicOf(z)}
    BY <1>1, <1>2, <1>3, MergedAre DEF StoreInv
  <1>5. PICK q \in ToSet(Merged[z]) : /\ ~IsAlias(q) /\ SafeName(q.name)
                                     /\ rr = RR(TrimDot(q.name), q.type, q.addr)
    <2>1. ~(rr.owner = PrimaryNS /\ rr.data = config.nsip)
      OBVIOUS
    <2> QED
      BY <1>2, <1>3, <1>4, <2>1, RenderedAddresses
  <1>6. rr.owner = TrimDot(q.name) /\ rr.data = q.addr
    BY <1>5 DEF RR
  <1>7. q \in ToSet(RecordsOf(netboxZones, z))
    <2>1. ASSUME NEW n \in DOMAIN DynamicOf(z)
          PROVE  q # AddressRecord(n, DynamicOf(z)[n])
      <3>1. z \in DOMAIN store /\ n \in DOMAIN store[z] /\ DynamicOf(z)[n] = store[z][n]
        BY <2>1 DEF DynamicOf, OwnRecords, NoRecords
      <3>2. AddressRecord(n, DynamicOf(z)[n]).addr = store[z][n]
        BY <3>1 DEF AddressRecord
      <3> QED
        BY <1>6, <3>1, <3>2
    <2> QED
      BY <1>4, <2>1
  <1>8. z \in DOMAIN netboxZones /\ q \in ToSet(netboxZones[z])
    <2>1. ToSet(<<>>) = {}
      BY DEF ToSet
    <2> QED
      BY <1>7, <2>1 DEF RecordsOf
  <1>9. PICK r \in ToSet(Enrich(Row[known])) :
            q.name = Final(r.name) /\ q.addr = r.addr /\ q.type = r.type
    BY <1>1, <1>3, <1>8, NetboxZonesAre DEF Came
  <1>10. ~IsAlias(r) /\ SafeName(Final(r.name))
    BY <1>5, <1>9 DEF IsAlias
  <1>11. r.name # NoName
    <2>1. SUFFICES ASSUME r.name = NoName PROVE FALSE
      OBVIOUS
    <2>2. TrimDot(NoName) = NoName /\ Len(NoName) = 0
      BY DEF TrimDot, NoName
    <2>3. Len(DomainSuffix) \in Nat
      BY ZoneNamesAssumption, SeqFacts
    <2>4. StripName(NoName) = NoName
      BY <2>2, <2>3 DEF StripName
    <2> QED
      BY <1>10, <2>1, <2>2, <2>4 DEF Final, SafeName
  <1>12. IsRecord(r)
    BY <1>1, PolledAre DEF Records
  <1>13. rr.data \in DOMAIN ReverseName
    BY <1>6, <1>9, <1>10, <1>12 DEF IsRecord, IsAlias
  <1> QED
    BY <1>6, <1>9, <1>10, <1>11, <1>13

LEMMA PtrIsServed ==
    ASSUME TypeOK, StoreInv, FilesAreCurrent, Quiet, HostsElsewhere
    PROVE  PtrsMatchAddresses
  <1> SUFFICES ASSUME NEW z \in DOMAIN files, NEW rr \in files[z].rrs,
                      rr.type \in {"A", "AAAA"}, ReverseZoneOf(rr.data) # NoZone,
                      <<rr.owner, rr.data>> # <<PrimaryNS, config.nsip>>,
                      \A y \in DOMAIN store :
                        /\ ~InZone(ReverseName[rr.data], y)
                        /\ \A n \in DOMAIN store[y] :
                             ReverseName[store[y][n]] # ReverseName[rr.data]
               PROVE  rr.owner \in Resolve(files, ReverseName[rr.data], {"PTR"})
    BY DEF PtrsMatchAddresses
  <1> DEFINE a == rr.data
             y == ReverseZoneOf(a)
             n == ReverseName[a]
  <1>1. config \in Config /\ known \in Answer /\ Addressed(store) /\ FiniteStore(store)
    BY DEF TypeOK, Quiet, Addressed, StoreInv
  <1>2. /\ a \in DOMAIN ReverseName
        /\ \E r \in ToSet(Enrich(Row[known])) :
             /\ ~IsAlias(r) /\ r.name # NoName /\ r.addr = a
             /\ SafeName(Final(r.name)) /\ rr.owner = TrimDot(Final(r.name))
    BY AddressIsPolled
  <1>3. PICK r \in ToSet(Enrich(Row[known])) :
            /\ ~IsAlias(r) /\ r.name # NoName /\ r.addr = a
            /\ SafeName(Final(r.name)) /\ rr.owner = TrimDot(Final(r.name))
    BY <1>2
  <1>4. /\ y \in ReverseZones /\ IsReverseZone(y) /\ y # NoZone /\ TrimDot(y) = y
        /\ InZone(n, y) /\ PtrLabel(a) \o y = n
    BY <1>2, ReverseZoneIs, ReverseAssumption, ReverseZoneHasNoDot, PtrNameIs
  <1>5. /\ y \in DOMAIN netboxZones /\ IsSeq(netboxZones[y])
        /\ \E p \in ToSet(netboxZones[y]) :
             p.name = Final(r.name) /\ p.addr = PtrLabel(a) /\ p.type = "PTR"
    BY <1>1, <1>3, <1>4, PtrIsPolled
  <1>6. PICK p \in ToSet(netboxZones[y]) :
            p.name = Final(r.name) /\ p.addr = PtrLabel(a) /\ p.type = "PTR"
    BY <1>5
  <1>7. y \notin DOMAIN store
    BY <1>4
  <1>8. ASSUME NEW x \in DOMAIN store, NEW m \in DOMAIN store[x],
               ReverseZoneOf(store[x][m]) = y
        PROVE  PtrLabel(store[x][m]) # p.addr
    <2>1. store[x][m] \in DOMAIN ReverseName
      BY <1>1 DEF Addressed
    <2>2. PtrLabel(store[x][m]) \o y = ReverseName[store[x][m]]
      BY <1>4, <1>8, <2>1, PtrNameIs
    <2> QED
      BY <1>4, <1>6, <2>2
  <1> HIDE DEF a, y
  <1>9. y \in DOMAIN Merged /\ IsSeq(Merged[y]) /\ p \in ToSet(Merged[y])
    BY <1>1, <1>5, <1>7, <1>8, PtrIsMerged
  <1>10. y \in DOMAIN files /\ files[y].rrs = RenderedRRs(Merged[y], y, config.nsip)
    BY <1>9 DEF FilesAreCurrent
  <1> DEFINE ptr == RR(n, "PTR", rr.owner)
  <1>11. IsFiniteSet(files[y].rrs) /\ ptr \in files[y].rrs
    <2>1. ~IsAlias(p) /\ SafeName(p.name)
      BY <1>3, <1>6 DEF IsAlias
    <2>2. IsFiniteSet(files[y].rrs)
          /\ RR(p.addr \o TrimDot(y), "PTR", TrimDot(p.name)) \in files[y].rrs
      BY <1>4, <1>9, <1>10, <2>1, RenderedPtrs
    <2>3. p.addr \o TrimDot(y) = n /\ TrimDot(p.name) = rr.owner
      BY <1>3, <1>4, <1>6
    <2> QED
      BY <2>2, <2>3
  <1>12. FindZone(files, n) = y /\ Lower(n) = n /\ IsSeq(n)
    BY <1>2, <1>4, <1>10, ReverseZoneAnswers, ReverseAssumption, ZoneNamesAssumption DEF a, y
  <1>13. ptr \in OfType(files[y], Lower(n), {"PTR"}) /\ ptr.data = rr.owner
    BY <1>11, <1>12 DEF OfType, At, RR
  <1>14. IsFiniteSet(DOMAIN files) /\ \A x \in DOMAIN files : IsSeq(x)
    BY <1>1, MergedAre DEF FilesAreCurrent
  <1> HIDE DEF ptr, n
  <1>15. Resolve(files, n, {"PTR"}) = {q.data : q \in OfType(files[y], Lower(n), {"PTR"})}
    <2>1. FindZone(files, Lower(n)) = y /\ IsSeq(Lower(n))
      BY <1>12
    <2>2. OfType(files[y], Lower(n), {"PTR"}) # {}
      BY <1>13
    <2> QED
      BY <1>4, <1>10, <1>11, <1>14, <2>1, <2>2, LookupFinds
  <1>16. rr.owner \in Resolve(files, n, {"PTR"})
    BY <1>13, <1>15
  <1> QED
    BY <1>16 DEF n, a

\* As long as no name NetBox has lies below a reverse tree, every address in a zone
\* file has a PTR that leads back to its name whenever the loop waits with nothing to
\* merge, unless an operator's record took the address or its zone over
\* (Discover, merge.go, Generate).
THEOREM ReverseAgrees == Spec => [](HostsElsewhere => PtrsMatchAddresses)
  <1>1. TypeOK /\ StoreInv /\ FilesAreCurrent => (HostsElsewhere => PtrsMatchAddresses)
    <2>1. CASE Quiet
      BY <2>1, PtrIsServed
    <2>2. CASE ~Quiet
      BY <2>2 DEF PtrsMatchAddresses
    <2> QED
      BY <2>1, <2>2
  <1> QED
    BY <1>1, TypeCorrect, StoreStaysFinite, DiskIsCurrent, PTL

-----------------------------------------------------------------------------
(* What the plugin can parse *)

\* Its names are sequences of labels.
Named(q) == IsSeq(q.name) /\ (IsAlias(q) => IsSeq(q.target))

\* A PTR of an address of the zone.
Reversed(q, z) ==
    /\ ~IsAlias(q) /\ z # NoZone
    /\ \E a \in DOMAIN ReverseName : ReverseZoneOf(a) = z /\ q.addr = PtrLabel(a)

\* A reverse zone has a name.
LEMMA ReverseZoneIsNamed == NoZone \notin ReverseZones
  <1>1. ASSUME NEW t, IsSeq(t), Len(t) # 0
        PROVE  ~IsSuffix(t, NoZone)
    <2>1. IsSeq(NoZone) /\ Len(NoZone) = 0
      BY DEF IsSeq, NoZone, ToSet
    <2> QED
      BY <1>1, <2>1, SuffixIs, SeqFacts
  <1> DEFINE v4 == << <<"in", "addr">>, <<"arpa">> >>
             v6 == << <<"ip6">>, <<"arpa">> >>
  <1>2. IsSeq(v4) /\ IsSeq(v6) /\ Len(v4) # 0 /\ Len(v6) # 0
    BY DEF IsSeq, ToSet
  <1>3. ~IsSuffix(v4, NoZone) /\ ~IsSuffix(v6, NoZone)
    BY <1>1, <1>2
  <1>4. ~IsReverseZone(NoZone)
    BY <1>3 DEF IsReverseZone, IsStrictSuffix
  <1> QED
    BY <1>4, ReverseAssumption

\* What a poll brings into a zone: PTRs of its addresses, or records filed there.
LEMMA PolledFrom ==
    ASSUME config \in Config, known \in Answer, NEW z \in DOMAIN netboxZones
    PROVE  /\ IsSeq(z) /\ IsSeq(netboxZones[z])
           /\ \A q \in ToSet(netboxZones[z]) :
                /\ Named(q)
                /\ \/ Reversed(q, z)
                   \/ q.type # "PTR" /\ z \in DOMAIN ForwardZones(config, known)
  <1> DEFINE records == Enrich(Row[known])
             ptrs == DiscoverReverse(records)
             filed == ForwardZones(config, known)
             both == Combined(config, known)
  <1>1. Records(records) /\ Filed(filed, records)
    BY PolledAre
  <1>2. both = Over(ptrs, filed)
    BY DEF Combined
  <1>3. netboxZones = Stripped(config, both)
    <2>1. known # NoData
      BY PublicationAssumption
    <2>2. ZonesOf[config][known] = Stripped(config, both)
      BY DEF ZonesOf
    <2> QED
      BY <2>1, <2>2 DEF netboxZones
  <1>4. IsSeq(z)
    BY NetboxZonesAre
  <1> HIDE DEF filed
  <1>5. z \in DOMAIN both /\ both[z] = IF z \in DOMAIN ptrs THEN ptrs[z] ELSE filed[z]
    BY <1>2, <1>3 DEF Stripped, Over
  <1>6. z \in DOMAIN ptrs \/ z \in DOMAIN filed
    BY <1>2, <1>5 DEF Over
  <1> HIDE DEF records, both
  <1>7. /\ IsSeq(both[z])
        /\ \A q \in ToSet(both[z]) :
             /\ IsWhole(q) /\ IsSeq(q.name) /\ IsSeq(q.target)
             /\ (Reversed(q, z) \/ (q.type # "PTR" /\ z \in DOMAIN filed))
    <2>1. CASE z \in DOMAIN ptrs
      <3>1. /\ z \in ReverseZones /\ IsSeq(ptrs[z])
            /\ \A q \in ToSet(ptrs[z]) : \E r \in ToSet(records) :
                 /\ ~IsAlias(r) /\ ReverseZoneOf(r.addr) = z
                 /\ q = PtrRecord(r, PtrLabel(r.addr))
        BY <1>1, <2>1, ReverseIsReverse DEF Records
      <3>2. z # NoZone
        BY <3>1, ReverseZoneIsNamed
      <3>3. ASSUME NEW q \in ToSet(ptrs[z])
            PROVE  IsWhole(q) /\ IsSeq(q.name) /\ IsSeq(q.target) /\ Reversed(q, z)
        <4>1. PICK r \in ToSet(records) :
                /\ ~IsAlias(r) /\ ReverseZoneOf(r.addr) = z
                /\ q = PtrRecord(r, PtrLabel(r.addr))
          BY <3>1
        <4>2. IsRecord(r)
          BY <1>1 DEF Records
        <4>3. /\ IsWhole(q) /\ q.name = r.name /\ q.target = NoName
              /\ q.addr = PtrLabel(r.addr) /\ ~IsAlias(q)
          BY <4>1 DEF PtrRecord, IsAlias, IsWhole
        <4>4. IsSeq(r.name) /\ r.addr \in DOMAIN ReverseName
          BY <4>1, <4>2 DEF IsRecord, IsAlias
        <4>5. IsSeq(NoName)
          BY DEF IsSeq, NoName, ToSet
        <4> QED
          BY <3>2, <4>1, <4>3, <4>4, <4>5 DEF Reversed
      <3> QED
        BY <1>5, <2>1, <3>1, <3>3
    <2>2. CASE z \notin DOMAIN ptrs
      <3>1. z \in DOMAIN filed /\ both[z] = filed[z]
        BY <1>5, <1>6, <2>2
      <3>2. Records(filed[z])
        BY <1>1, <3>1 DEF Filed, Records
      <3> QED
        BY <3>1, <3>2 DEF Records, IsRecord, IsWhole
    <2> QED
      BY <2>1, <2>2
  <1>8. CASE config.strip
    <2>1. netboxZones[z] = StripDCLabel(both[z])
      BY <1>3, <1>5, <1>8 DEF Stripped
    <2>2. /\ IsSeq(netboxZones[z])
          /\ ToSet(netboxZones[z]) = {StripOf(q) : q \in ToSet(both[z])}
      BY <1>7, <2>1, StripIs
    <2>3. ASSUME NEW q \in ToSet(both[z])
          PROVE  /\ Named(StripOf(q))
                 /\ \/ Reversed(StripOf(q), z)
                    \/ StripOf(q).type # "PTR" /\ z \in DOMAIN filed
      <3>1. IsSeq(StripName(q.name)) /\ IsSeq(StripName(q.target))
        BY <1>7, StrippedIs
      <3>2. /\ StripOf(q).name = StripName(q.name) /\ StripOf(q).target = StripName(q.target)
            /\ StripOf(q).addr = q.addr /\ StripOf(q).type = q.type
        BY DEF StripOf
      <3> QED
        BY <1>7, <3>1, <3>2 DEF Named, Reversed, IsAlias
    <2> QED
      BY <1>4, <2>2, <2>3 DEF filed
  <1>9. CASE ~config.strip
    <2>1. netboxZones[z] = both[z]
      BY <1>3, <1>5, <1>9 DEF Stripped
    <2> QED
      BY <1>4, <1>7, <2>1 DEF filed, Named
  <1> QED
    BY <1>8, <1>9

\* The last good poll files names in the zone.
Discovered(z) == known # NoData /\ z \in DOMAIN ForwardZones(config, known)

\* Where a record of a zone to be written comes from (merge.go, lines 29-82).
Sourced(q, z) ==
    /\ Named(q)
    /\ \/ Reversed(q, z)
       \/ q.type # "PTR" /\ (z \in DOMAIN view \/ Discovered(z))

LEMMA MergedFrom ==
    ASSUME config \in Config, known \in Answer \cup {NoData},
           FiniteStore(view), Addressed(view), NEW z \in DOMAIN ToPublish
    PROVE  IsSeq(z) /\ \A q \in ToSet(ToPublish[z]) : Sourced(q, z)
  <1> DEFINE nz == netboxZones
             both == WithDynamic(nz, view)
             ptrs == DynamicPTRs(view)
             own == OwnRecords(view, z)
             netbox == RecordsOf(nz, z)
             Kept == {r \in ToSet(netbox) : r.name \notin DOMAIN own}
             left == Those(netbox, Kept)
             right == DynamicRecords(own)
  <1>1. \A y \in DOMAIN nz : /\ IsSeq(y) /\ IsSeq(nz[y])
                             /\ \A q \in ToSet(nz[y]) : Sourced(q, y)
    <2>1. CASE known \in Answer
      <3>1. known # NoData
        BY <2>1, PublicationAssumption
      <3> QED
        BY <2>1, <3>1, PolledFrom DEF Sourced, Discovered
    <2>2. CASE known = NoData
      BY <2>2 DEF netboxZones, Nothing
    <2> QED
      BY <2>1, <2>2
  <1>2. /\ DOMAIN ptrs \subseteq ReverseZones
        /\ \A y \in DOMAIN ptrs :
             /\ IsSeq(ptrs[y])
             /\ \A q \in ToSet(ptrs[y]) : Sourced(q, y)
    <2>1. ASSUME NEW y \in DOMAIN ptrs, NEW q \in ToSet(ptrs[y])
          PROVE  Sourced(q, y)
      <3>1. \E x \in DOMAIN view : \E n \in DOMAIN view[x] :
                /\ ReverseZoneOf(view[x][n]) = y
                /\ q.name = n /\ q.addr = PtrLabel(view[x][n]) /\ ~IsAlias(q)
        BY <2>1, DynamicPTRsAre
      <3>2. PICK x \in DOMAIN view : \E n \in DOMAIN view[x] :
                /\ ReverseZoneOf(view[x][n]) = y
                /\ q.name = n /\ q.addr = PtrLabel(view[x][n]) /\ ~IsAlias(q)
        BY <3>1
      <3>3. PICK n \in DOMAIN view[x] :
                /\ ReverseZoneOf(view[x][n]) = y
                /\ q.name = n /\ q.addr = PtrLabel(view[x][n]) /\ ~IsAlias(q)
        BY <3>2
      <3>4. IsSeq(n) /\ view[x][n] \in DOMAIN ReverseName
        BY DEF FiniteStore, FiniteRecords, Addressed
      <3>5. y # NoZone
        BY <2>1, DynamicPTRsAre, ReverseZoneIsNamed
      <3> QED
        BY <3>3, <3>4, <3>5 DEF Sourced, Named, Reversed
    <2> QED
      BY <2>1, DynamicPTRsAre
  <1>3. /\ DOMAIN ToPublish = DOMAIN both \cup DOMAIN ptrs
        /\ ToPublish[z] = IF z \in DOMAIN ptrs THEN ShadowPTRs(RecordsOf(both, z), ptrs[z])
                       ELSE both[z]
    BY DEF ToPublish, MergedZones
  <1>4. DOMAIN both = DOMAIN nz \cup DOMAIN view
        /\ (z \in DOMAIN both => both[z] = left \o right)
    BY DEF WithDynamic
  <1>5. IsSeq(z)
    BY <1>1, <1>2, <1>3, <1>4, ZoneNamesAssumption DEF FiniteStore
  <1>6. IsSeq(<<>>) /\ ToSet(<<>>) = {}
    BY DEF IsSeq, ToSet
  <1> HIDE DEF nz, both, ptrs
  <1>7. IsSeq(netbox) /\ \A q \in ToSet(netbox) : Sourced(q, z)
    BY <1>1, <1>6 DEF RecordsOf
  <1>8. FiniteRecords(own) /\ \A n \in DOMAIN own : own[n] \in DOMAIN ReverseName
        /\ (z \in DOMAIN view \/ DOMAIN own = {})
    <2>1. DOMAIN NoRecords = {} /\ IsFiniteSet({})
      BY FS_EmptySet DEF NoRecords
    <2> QED
      BY <2>1 DEF FiniteStore, FiniteRecords, OwnRecords, Addressed
  <1> HIDE DEF own, netbox
  <1>9. /\ Records(right)
        /\ ToSet(right) = {AddressRecord(n, own[n]) : n \in DOMAIN own}
    BY <1>8, DynamicRecordsAre
  <1>10. \A q \in ToSet(right) : Sourced(q, z)
    <2>1. \A q \in ToSet(right) : z \in DOMAIN view /\ IsRecord(q)
      BY <1>8, <1>9 DEF Records
    <2> QED
      BY <2>1 DEF Sourced, Named, IsRecord
  <1>11. Kept \subseteq ToSet(netbox)
    OBVIOUS
  <1> HIDE DEF Kept
  <1>12. IsSeq(left) /\ ToSet(left) = ToSet(netbox) \cap Kept
    BY <1>7, ThoseOf
  <1> HIDE DEF left, right
  <1>13. IsSeq(left \o right) /\ \A q \in ToSet(left \o right) : Sourced(q, z)
    <2>1. ToSet(left \o right) = ToSet(left) \cup ToSet(right) /\ IsSeq(left \o right)
      BY <1>9, <1>12, JoinIsSeq DEF Records
    <2> QED
      BY <1>7, <1>10, <1>12, <2>1
  <1> DEFINE ours == RecordsOf(both, z)
  <1>14. IsSeq(ours) /\ \A q \in ToSet(ours) : Sourced(q, z)
    BY <1>4, <1>6, <1>13 DEF RecordsOf
  <1>15. CASE z \notin DOMAIN ptrs
    BY <1>3, <1>4, <1>5, <1>13, <1>15
  <1>16. CASE z \in DOMAIN ptrs
    <2> DEFINE Spared == {r \in ToSet(ours) : \A q \in ToSet(ptrs[z]) : q.addr # r.addr}
    <2>1. ToPublish[z] = Those(ours, Spared) \o ptrs[z]
      BY <1>3, <1>16 DEF ShadowPTRs
    <2> HIDE DEF Spared, ours
    <2>2. IsSeq(Those(ours, Spared)) /\ ToSet(Those(ours, Spared)) = ToSet(ours) \cap Spared
      BY <1>14, ThoseOf
    <2>3. IsSeq(ptrs[z]) /\ \A q \in ToSet(ptrs[z]) : Sourced(q, z)
      BY <1>2, <1>16
    <2>4. ToSet(ToPublish[z]) = ToSet(Those(ours, Spared)) \cup ToSet(ptrs[z])
      BY <2>1, <2>2, <2>3, JoinIsSeq
    <2> QED
      BY <1>5, <1>14, <2>2, <2>3, <2>4
  <1> QED
    BY <1>15, <1>16

\* What FilesParse says of a resource record.
Parses(rr) == SafeName(rr.owner) /\ (rr.type \in {"CNAME", "PTR"} => SafeName(rr.data))

\* Generate prints only what the plugin can read, if the zone's own name, PRIMARY_NS
\* and, in a reverse zone, the addresses are fit (dropUnsafeNames, G8).
LEMMA RenderedParses ==
    ASSUME SafeName(PrimaryNS), NEW s, NEW z, IsSeq(z), SafeName(z), NEW nsip,
           \A q \in ToSet(s) :
                Named(q) /\ IF IsReverseZone(z) THEN Reversed(q, z) ELSE q.type # "PTR",
           NEW rr \in RenderedRRs(s, z, nsip)
    PROVE  Parses(rr)
  <1> DEFINE K == Published(s, z)
  <1>1. SafeName(TrimDot(z))
    BY SafeStays
  <1>2. CASE rr \in Apex(z)
    <2>1. rr.owner = TrimDot(z) /\ rr.type \in {"SOA", "NS"}
      BY <1>2 DEF Apex, RR
    <2> QED
      BY <1>1, <2>1 DEF Parses
  <1>3. CASE rr \in PrimaryNSAddress(s, K, z, nsip)
    <2>1. rr = RR(PrimaryNS, AddressRecord(PrimaryNS, nsip).type, nsip)
      BY <1>3 DEF PrimaryNSAddress
    <2>2. rr.owner = PrimaryNS /\ rr.type \in {"A", "AAAA"}
      BY <2>1 DEF RR, AddressRecord
    <2> QED
      BY <2>2 DEF Parses
  <1>4. ASSUME NEW i \in K, rr = RecordRR(s[i], z)
        PROVE  Parses(rr)
    <2> DEFINE q == s[i]
    <2>1. i \in SafeIndices(s)
      BY DEF Published, CollisionFree
    <2>2. q \in ToSet(s) /\ SafeName(q.name) /\ (IsAlias(q) => SafeName(q.target))
      BY <2>1 DEF SafeIndices, SafeRecord, ToSet
    <2> HIDE DEF q
    <2>3. /\ SafeName(TrimDot(q.name))
          /\ IsAlias(q) => SafeName(TrimDot(q.target))
      BY <2>2, SafeStays DEF Named
    <2>4. rr = RecordRR(q, z)
      BY <1>4 DEF q
    <2>5. CASE IsReverseZone(z)
      <3>1. Reversed(q, z)
        BY <2>2, <2>5
      <3>2. PICK a \in DOMAIN ReverseName : ReverseZoneOf(a) = z /\ q.addr = PtrLabel(a)
        BY <3>1 DEF Reversed
      <3>3. TrimDot(z) = z /\ PtrLabel(a) \o z = ReverseName[a]
        BY <3>1, <3>2, ReverseZoneIs, ReverseZoneHasNoDot, PtrNameIs DEF Reversed
      <3>4. rr = RR(ReverseName[a], "PTR", TrimDot(q.name))
        BY <2>4, <2>5, <3>2, <3>3 DEF RecordRR
      <3>5. rr.owner = ReverseName[a] /\ rr.data = TrimDot(q.name)
        BY <3>4 DEF RR
      <3>6. SafeName(ReverseName[a])
        BY ZoneFilesAssumption
      <3> QED
        BY <2>3, <3>5, <3>6 DEF Parses
    <2>6. CASE ~IsReverseZone(z) /\ IsAlias(q)
      <3>1. rr.owner = TrimDot(q.name) /\ rr.data = TrimDot(q.target)
        BY <2>4, <2>6 DEF RecordRR, RR
      <3> QED
        BY <2>3, <2>6, <3>1 DEF Parses
    <2>7. CASE ~IsReverseZone(z) /\ ~IsAlias(q)
      <3>1. rr.owner = TrimDot(q.name) /\ rr.type = q.type /\ q.type # "PTR"
        BY <2>2, <2>4, <2>7 DEF RecordRR, RR
      <3> QED
        BY <2>3, <2>7, <3>1 DEF Parses, IsAlias
    <2> QED
      BY <2>5, <2>6, <2>7
  <1> QED
    BY <1>2, <1>3, <1>4 DEF RenderedRRs

\* Neither NetBox nor the operators have names below a reverse tree.
Elsewhere == HostsElsewhere /\ \A z \in DOMAIN store : ~IsReverseZone(z)

\* So it is for what a merge has listed and read.
ReadElsewhere == \A z \in DOMAIN view \cup unread : ~IsReverseZone(z)

LEMMA ElsewhereStep == ReadElsewhere /\ Elsewhere /\ [Next]_vars => ReadElsewhere'
  <1> SUFFICES ASSUME ReadElsewhere, Elsewhere, [Next]_vars
               PROVE  ReadElsewhere'
    OBVIOUS
  <1>1. CASE ListZones
    BY <1>1 DEF ListZones, ReadElsewhere, Elsewhere, Nothing
  <1>2. ASSUME NEW z \in unread, ReadZone(z)
        PROVE  ReadElsewhere'
    <2>1. DOMAIN view' = DOMAIN view \cup {z} /\ unread' = unread \ {z}
      BY <1>2 DEF ReadZone, Over
    <2> QED
      BY <2>1 DEF ReadElsewhere
  <1>3. CASE EndRead
    BY <1>3 DEF EndRead, ReadElsewhere, Nothing
  <1>4. CASE UNCHANGED <<unread, view>>
    BY <1>4 DEF ReadElsewhere
  <1> QED
    BY <1>1, <1>2, <1>3, <1>4 DEF Next, vars, readVars, Poll, PollFails, TakeSignal,
        Merge, MergeGated, Restart, GRPC, UpsertRecord, DeleteRecord, BatchUpsert,
        BatchDelete, CreateZone, DeleteZone, StoreBecomes

\* Generate is given such records.
LEMMA WrittenParses ==
    ASSUME TypeOK, StoreInv, Elsewhere, ReadElsewhere, SafeName(PrimaryNS),
           NEW z \in DOMAIN ToPublish, SafeName(z),
           NEW rr \in FileOf(ToPublish[z], z, config.nsip).rrs
    PROVE  Parses(rr)
  <1> DEFINE s == ToPublish[z]
  <1>1. IsSeq(z) /\ \A q \in ToSet(s) : Sourced(q, z)
    BY MergedFrom DEF TypeOK, StoreInv, Addressed
  <1>2. rr \in RenderedRRs(s, z, config.nsip)
    BY DEF FileOf
  <1> HIDE DEF s
  <1>3. ASSUME NEW q \in ToSet(s)
        PROVE  Named(q) /\ IF IsReverseZone(z) THEN Reversed(q, z) ELSE q.type # "PTR"
    <2>1. Named(q) /\ (Reversed(q, z) \/ (q.type # "PTR" /\ (z \in DOMAIN view \/ Discovered(z))))
      BY <1>1 DEF Sourced
    <2>2. Reversed(q, z) => IsReverseZone(z)
      BY ReverseZoneIs, ReverseAssumption DEF Reversed
    <2>3. z \in DOMAIN view \/ Discovered(z) => ~IsReverseZone(z)
      BY DEF Elsewhere, ReadElsewhere, HostsElsewhere, Discovered
    <2> QED
      BY <2>1, <2>2, <2>3
  <1> QED
    BY <1>1, <1>2, <1>3, RenderedParses

\* A merge leaves files that parse, and a file that is cut short still does.
LEMMA ParseStep ==
    ASSUME TypeOK, StoreInv, Elsewhere, ReadElsewhere, SafeName(PrimaryNS), FilesParse,
           [Next]_vars
    PROVE  FilesParse'
  <1> SUFFICES ASSUME NEW z \in DOMAIN files', SafeName(z), NEW rr \in files'[z].rrs
               PROVE  Parses(rr)
    BY DEF FilesParse, Parses
  <1>1. ASSUME z \in DOMAIN files, rr \in files[z].rrs
        PROVE  Parses(rr)
    BY <1>1 DEF FilesParse, Parses
  <1>2. CASE Merge
    <2>1. z \in DOMAIN ToPublish
      BY <1>2 DEF Merge, Update
    <2>2. CASE z \in ToWrite(ToPublish)
      <3>1. files'[z] = FileOf(ToPublish[z], z, config.nsip)
        BY <1>2, <2>1, <2>2 DEF Merge, Update
      <3> QED
        BY <2>1, <3>1, WrittenParses
    <2>3. CASE z \notin ToWrite(ToPublish)
      <3>1. files'[z] = files[z]
        BY <1>2, <2>1, <2>3 DEF Merge, Update
      <3>2. z \in DOMAIN files
        BY <2>1, <2>3, KeptFile DEF TypeOK
      <3> QED
        BY <3>1, <3>2, <1>1
    <2> QED
      BY <2>2, <2>3
  <1>3. ASSUME NEW c, NEW damaged, Restart(c, damaged)
        PROVE  Parses(rr)
    <2>1. z \in DOMAIN files
      BY <1>3 DEF Restart
    <2>2. files'[z] = files[z] \/ files'[z].rrs = Apex(z)
      BY <1>3, <2>1 DEF Restart, CutShort
    <2>3. rr \in files[z].rrs
      BY <2>1, <2>2 DEF TypeOK
    <2> QED
      BY <1>1, <2>1, <2>3
  <1>4. CASE files' = files
    BY <1>1, <1>4
  <1> QED
    BY <1>2, <1>3, <1>4 DEF Next, vars, Poll, PollFails, TakeSignal, MergeGated,
        ListZones, ReadZone, GRPC, UpsertRecord, DeleteRecord, BatchUpsert, BatchDelete,
        CreateZone, DeleteZone, StoreBecomes

\* With a PRIMARY_NS that is fit for a zone file, and as long as neither NetBox nor an
\* operator puts a name below a reverse tree, whose zones print addresses as labels,
\* the plugin can parse the file of every zone whose own name is fit (Generate).
THEOREM FilesAreParsed == SafeName(PrimaryNS) /\ Spec /\ []Elsewhere => []FilesParse
  <1> SUFFICES ASSUME SafeName(PrimaryNS)
               PROVE  Spec /\ []Elsewhere => []FilesParse
    OBVIOUS
  <1>1. Init => FilesParse
    BY DEF Init, FilesParse, Nothing
  <1>2. Init => ReadElsewhere
    BY DEF Init, ReadElsewhere, Nothing
  <1>3. TypeOK /\ StoreInv /\ Elsewhere /\ ReadElsewhere /\ FilesParse /\ [Next]_vars
            => FilesParse'
    BY ParseStep
  <1> QED
    BY <1>1, <1>2, <1>3, ElsewhereStep, TypeCorrect, StoreStaysFinite, PTL DEF Spec

-----------------------------------------------------------------------------
(* What the guard counts *)

\* An answer that has the rows of another, and more, has in each forward zone as many
\* records as the other, and more.
LEMMA GrownZones ==
    ASSUME NEW c \in Config, NEW a \in Answer, NEW b \in Answer,
           ToBag(Row[a]) \sqsubseteq ToBag(Row[b]), c.mode.by # "common-suffix",
           NEW z \in DOMAIN ZonesOf[c][a], ~IsReverseZone(z)
    PROVE  /\ z \in DOMAIN ZonesOf[c][b]
           /\ Len(ZonesOf[c][a][z]) <= Len(ZonesOf[c][b][z])
  <1>1. ASSUME NEW d \in Answer
        PROVE  /\ z \in DOMAIN ZonesOf[c][d] <=> z \in DOMAIN ForwardZones(c, d)
               /\ z \in DOMAIN ZonesOf[c][d] =>
                    Len(ZonesOf[c][d][z]) = Len(ForwardZones(c, d)[z])
    <2> DEFINE both == Combined(c, d)
               filed == ForwardZones(c, d)
               ptrs == DiscoverReverse(Enrich(Row[d]))
    <2>1. ZonesOf[c][d] = Stripped(c, both) /\ both = Over(ptrs, filed)
      BY DEF ZonesOf, Combined
    <2>2. z \notin DOMAIN ptrs
      BY PolledAre, ReverseAssumption
    <2>3. Filed(filed, Enrich(Row[d]))
      BY PolledAre
    <2> HIDE DEF both, filed, ptrs
    <2>4. (z \in DOMAIN both <=> z \in DOMAIN filed) /\ (z \in DOMAIN both => both[z] = filed[z])
      BY <2>1, <2>2 DEF Over
    <2>5. DOMAIN Stripped(c, both) = DOMAIN both
      BY DEF Stripped
    <2>6. ASSUME z \in DOMAIN both
          PROVE  Len(Stripped(c, both)[z]) = Len(filed[z])
      <3>1. CASE c.strip
        <4> DEFINE t == filed[z]
                   u == StripDCLabel(t)
        <4>1. Stripped(c, both)[z] = u
          BY <2>4, <2>6, <3>1 DEF Stripped
        <4>2. Len(t) \in Nat /\ DOMAIN t = 1..Len(t)
          BY <2>3, <2>4, <2>6, SeqFacts DEF Filed
        <4>3. u = [i \in 1..Len(t) |-> u[i]]
          BY <4>2 DEF StripDCLabel
        <4> HIDE DEF t, u
        <4>4. Len(u) = Len(t)
          BY <4>2, <4>3, FunIsSeq
        <4> QED
          BY <4>1, <4>4 DEF t
      <3>2. CASE ~c.strip
        BY <2>4, <2>6, <3>2 DEF Stripped
      <3> QED
        BY <3>1, <3>2
    <2> QED
      BY <2>1, <2>4, <2>5, <2>6 DEF filed
  <1>2. Rows(Row[a]) /\ Rows(Row[b])
    BY PublicationAssumption DEF Rows
  <1>3. NamesAmong(Row[a], Row[b]) /\ ToSet(Row[a]) \subseteq ToSet(Row[b])
    BY <1>2, BagIsAmong DEF Rows
  <1>4. NamesAmong(Enrich(Row[a]), Enrich(Row[b]))
    BY <1>2, <1>3, EnrichAmong
  <1>5. IsSeq(Enrich(Row[a])) /\ IsSeq(Enrich(Row[b]))
    BY <1>2, EnrichIs DEF Records
  <1>6. c.mode.by \in {"zone-depth", "netbox-dns"}
    BY PublicationAssumption
  <1>7. z \in DOMAIN ForwardZones(c, a)
    BY <1>1
  <1>8. /\ z \in DOMAIN ForwardZones(c, b)
        /\ Len(ForwardZones(c, a)[z]) <= Len(ForwardZones(c, b)[z])
    BY <1>4, <1>5, <1>6, <1>7, DiscoverAmong DEF ForwardZones
  <1> QED
    BY <1>1, <1>8

\* What GrowthIsNotShrink says of a step.
GrownKeeps ==
    /\ known # NoData /\ known' # NoData
    /\ ToBag(Row[known]) \sqsubseteq ToBag(Row[known'])
    /\ config'.mode.by # "common-suffix"
    => \A z \in DOMAIN CountZoneRecords(netboxZones) : ~IsReverseZone(z) =>
        /\ z \in DOMAIN netboxZones'
        /\ CountZoneRecords(netboxZones)[z] <= CountZoneRecords(netboxZones)'[z]

LEMMA GrowthStep == TypeOK /\ TypeOK' /\ [Next]_vars => GrownKeeps
  <1> SUFFICES ASSUME TypeOK, TypeOK', [Next]_vars,
                      known # NoData, known' # NoData,
                      ToBag(Row[known]) \sqsubseteq ToBag(Row[known']),
                      config'.mode.by # "common-suffix",
                      NEW z \in DOMAIN CountZoneRecords(netboxZones), ~IsReverseZone(z)
               PROVE  /\ z \in DOMAIN netboxZones'
                      /\ CountZoneRecords(netboxZones)[z] <= CountZoneRecords(netboxZones)'[z]
    BY DEF GrownKeeps
  <1>1. config' = config
    BY DEF Next, Poll, PollFails, TakeSignal, MergeGated, ListZones, ReadZone, Merge,
           GRPC, UpsertRecord, DeleteRecord, BatchUpsert, BatchDelete, CreateZone,
           DeleteZone, StoreBecomes, Restart, vars
  <1>2. config \in Config /\ known \in Answer /\ known' \in Answer
    BY DEF TypeOK
  <1>3. netboxZones = ZonesOf[config][known] /\ netboxZones' = ZonesOf[config][known']
    BY <1>1 DEF netboxZones
  <1>4. z \in DOMAIN netboxZones /\ CountZoneRecords(netboxZones)[z] = Len(netboxZones[z])
    BY DEF CountZoneRecords
  <1>5. /\ z \in DOMAIN netboxZones'
        /\ Len(netboxZones[z]) <= Len(netboxZones'[z])
    BY <1>1, <1>2, <1>3, <1>4, GrownZones
  <1>6. CountZoneRecords(netboxZones)'[z] = Len(netboxZones'[z])
    BY <1>5 DEF CountZoneRecords
  <1> QED
    BY <1>4, <1>5, <1>6

\* When NetBox's next answer has the rows of the last one, each as often, and more, the
\* guard counts no less in any forward zone, however the new names collide with the
\* old (countZoneRecords before zonegen's collisions), unless zones are named by
\* common suffixes.
THEOREM GrowthIsKept == Spec => GrowthIsNotShrink
  <1>1. [][GrownKeeps]_vars => GrowthIsNotShrink
    <2>1. [GrownKeeps]_vars =>
            [/\ known' # known /\ known # NoData /\ known' # NoData
             /\ ToBag(Row[known]) \sqsubseteq ToBag(Row[known'])
             /\ config'.mode.by # "common-suffix"
             => \A z \in DOMAIN CountZoneRecords(netboxZones) : ~IsReverseZone(z) =>
                  /\ z \in DOMAIN netboxZones'
                  /\ CountZoneRecords(netboxZones)[z]
                        <= CountZoneRecords(netboxZones)'[z]]_vars
      BY DEF GrownKeeps
    <2> QED
      BY <2>1, PTL DEF GrowthIsNotShrink
  <1>2. TypeOK /\ TypeOK' /\ [Next]_vars => [GrownKeeps]_vars
    BY GrowthStep
  <1> QED
    BY <1>1, <1>2, TypeCorrect, PTL DEF Spec
=============================================================================
