----------------------------- MODULE ZoneFiles -----------------------------
(***************************************************************************)
(* From a zone's records to its file and from the file to DNS answers:     *)
(* internal/zonegen's Generate, and the netboxreload plugin's queries.     *)
(*                                                                         *)
(* A zone file is [rrs, body, hash]: the resource records it holds, those  *)
(* that its body-hash was taken of, and its content-hash; hashes do not    *)
(* collide.  Owners are absolute, as the parser makes them; serials and    *)
(* NOTIFY are in Propagation.                                              *)
(***************************************************************************)
EXTENDS DeviceNames

CONSTANTS
    PrimaryNS,      \* PRIMARY_NS, without the dot
    NoIP            \* PRIMARY_NS_IP is not set

\* Octets and nibbles are fit for a zone file.
ASSUME ZoneFilesAssumption ==
    /\ NoIP \notin DOMAIN ReverseName
    /\ \A a \in DOMAIN ReverseName : SafeName(ReverseName[a])

NoHash == <<>>

\* How collisions.go compares owners and targets.
Key(n) == Lower(TrimDot(n))

-----------------------------------------------------------------------------
(* Which of a zone's records are published *)

SafeRecord(r) == SafeName(r.name) /\ (IsAlias(r) => SafeName(r.target))

\* Faulty variant: nothing is dropped.
AllIndices(records) == DOMAIN records

\* dropUnsafeNames, as the indices it keeps.
SafeIndices(records) == {i \in DOMAIN records : SafeRecord(records[i])}

\* Faulty variant: owners are compared as they are spelled.
SameSpelling(records, S, i) == {j \in S : records[j].name = records[i].name}

\* The records of S with the owner of record i, however it is spelled.
SameOwner(records, S, i) == {j \in S : Key(records[j].name) = Key(records[i].name)}

\* Faulty variant: of several targets the first wins.
FirstTargetWins(records, S, i) ==
    LET same == SameOwner(records, S, i)
    IN  (\A j \in same : IsAlias(records[j])) /\ i = Min(same)

\* All records of the alias's owner are aliases with its target, and it is the
\* first of them.
SoleAlias(records, S, i) ==
    LET same == SameOwner(records, S, i)
    IN  /\ \A j \in same : /\ IsAlias(records[j])
                            /\ Key(records[j].target) = Key(records[i].target)
        /\ i = Min(same)

\* resolveCNAMECollisions, as the indices it keeps: an alias stays if it is not
\* at the apex and its owner has nothing else.
CollisionFree(records, S, zone) ==
    {i \in S : IsAlias(records[i]) =>
                /\ Key(records[i].name) # Key(zone)
                /\ SoleAlias(records, S, i)}

Published(records, zone) ==
    IF IsReverseZone(zone) THEN SafeIndices(records)
    ELSE CollisionFree(records, SafeIndices(records), zone)

-----------------------------------------------------------------------------
(* Generate *)

\* Faulty variant: the records in the order they came.
FingerprintInOrder(records, K, nsip) ==
    <<[r \in {records[i] : i \in K} |-> Cardinality({i \in K : records[i] = r})], nsip,
      [i \in K |-> records[i]]>>

\* fingerprint: the sorted records, so how many there are of each, and what
\* else goes into the file.
Fingerprint(records, K, nsip) ==
    <<[r \in {records[i] : i \in K} |-> Cardinality({i \in K : records[i] = r})], nsip>>

RR(owner, type, data) == [owner |-> owner, type |-> type, data |-> data]

\* How the file's parser reads what Generate prints for a record.
RecordRR(r, zone) ==
    IF IsReverseZone(zone) THEN RR(r.addr \o TrimDot(zone), "PTR", TrimDot(r.name))
    ELSE IF IsAlias(r) THEN RR(TrimDot(r.name), "CNAME", TrimDot(r.target))
    ELSE RR(TrimDot(r.name), r.type, r.addr)

Apex(zone) == {RR(TrimDot(zone), "SOA", PrimaryNS), RR(TrimDot(zone), "NS", PrimaryNS)}

\* writePrimaryNSAddress: in the forward zone that holds the primary's name,
\* unless a record defines it.
PrimaryNSAddress(records, K, zone, nsip) ==
    IF \/ nsip = NoIP \/ IsReverseZone(zone) \/ ~InZone(PrimaryNS, TrimDot(zone))
       \/ \E i \in K : TrimDot(records[i].name) = PrimaryNS
    THEN {}
    ELSE {RR(PrimaryNS, AddressRecord(PrimaryNS, nsip).type, nsip)}

RenderedRRs(records, zone, nsip) ==
    LET K == Published(records, zone)
    IN  Apex(zone) \cup PrimaryNSAddress(records, K, zone, nsip)
            \cup {RecordRR(records[i], zone) : i \in K}

RenderedHash(records, zone, nsip) == Fingerprint(records, Published(records, zone), nsip)

\* withFingerprints
FileOf(records, zone, nsip) ==
    LET rrs == RenderedRRs(records, zone, nsip)
    IN  [rrs |-> rrs, body |-> rrs, hash |-> RenderedHash(records, zone, nsip)]

\* Faulty variant: the content-hash is taken on trust.
HashOnTrust(file) == file.hash

\* readVerifiedContentHash
VerifiedHash(file) == IF file.rrs = file.body THEN file.hash ELSE NoHash

-----------------------------------------------------------------------------
(* The plugin's answers, from an up-to-date copy of the files *)

\* findZone: the closest enclosing zone, by exact comparison with the name in
\* lower case.
FindZone(files, n) ==
    LET match == {z \in DOMAIN files : z # NoZone /\ InZone(n, z)}
    IN  IF match = {} THEN NoZone ELSE Longest(match)

At(file, n) == {rr \in file.rrs : Lower(rr.owner) = n}

OfType(file, n, types) == {rr \in At(file, n) : rr.type \in types}

CNAMEs(file) == {rr \in file.rrs : rr.type = "CNAME"}

\* F applied k times to x.
Iterate(F, x, k) ==
    LET f[i \in 0..k] == IF i = 0 THEN x ELSE F[f[i - 1]]
    IN  f[k]

\* The loop of zone.answer: aliases are followed inside the zone until a name has
\* data of the type.  As many steps as there are aliases: a longer walk loops.
Walk(file, n, types) ==
    LET step == [m \in {n} \cup {Lower(rr.data) : rr \in CNAMEs(file)} |->
                    LET here == At(file, m)
                        to   == {rr.data : rr \in {rr \in here : rr.type = "CNAME"}}
                    IN  IF to = {} \/ \E rr \in here : rr.type \in types THEN m
                        ELSE Lower(CHOOSE t \in to : TRUE)]
    IN  Iterate(step, n, Cardinality(CNAMEs(file)))

\* The data at the end of the walk, in the zone of the name.
ServeDNS(files, n, types) ==
    LET z == FindZone(files, n)
    IN  IF z = NoZone THEN {}
        ELSE {rr.data : rr \in OfType(files[z], Walk(files[z], n, types), types)}

\* A client that asks for the name, and asks again when an answer's aliases end at
\* a name without data in their zone; it goes through each zone once at most.
Resolve(files, n, types) ==
    LET asked == {Lower(n)} \cup
                    {Lower(rr.data) : rr \in UNION {CNAMEs(files[z]) : z \in DOMAIN files}}
        again == [m \in asked |->
                    LET z   == FindZone(files, m)
                        end == Walk(files[z], m, types)
                    IN  IF z = NoZone \/ OfType(files[z], end, types) # {} THEN m ELSE end]
    IN  ServeDNS(files, Iterate(again, Lower(n), Cardinality(DOMAIN files)), types)
=============================================================================
