----------------------------- MODULE DnsPromise ----------------------------
(***************************************************************************)
(* What the sidecar promises a client of CoreDNS, whatever files, hashes,  *)
(* generators and restarts it takes: DNS changes only when the sidecar     *)
(* publishes, and then it is exactly what NetBox's records and the         *)
(* operators' dynamic records mean, each zone's as they were at one moment *)
(* since the publication began.  The zones' moments differ: of what an     *)
(* operator writes to two zones at once, half may be published; and a zone *)
(* that is deleted after the publication began may be published, empty.    *)
(*                                                                         *)
(* netbox and dynamic give the records filed under each zone; dns gives    *)
(* the addresses each name resolves to.                                    *)
(***************************************************************************)
EXTENDS DeviceNames

CONSTANTS
    PrimaryNS, NoIP,    \* as in ZoneFiles
    QName               \* the names clients ask for, in lower case

VARIABLES
    netbox,     \* zone -> the set of records NetBox has in it
    dynamic,    \* zone -> (name -> address), the operators' records
    looking,    \* a publication is being made
    unread,     \* the zones it has still to look at
    view,       \* those of the operators' records it has seen
    nsip,       \* the address of the primary name server, or NoIP
    dns         \* name -> the addresses it resolves to

lookVars == <<looking, unread, view>>

promiseVars == <<netbox, dynamic, lookVars, nsip, dns>>

-----------------------------------------------------------------------------
(* What the records seen mean *)

Owner(n) == Lower(TrimDot(n))

Zones == DOMAIN netbox \cup DOMAIN view

\* The zone that answers for a name is the deepest over it.
Answering(n) ==
    LET over == {z \in Zones : InZone(n, z)}
    IN  IF over = {} THEN NoZone ELSE Longest(over)

DynamicNames(z) == IF z \in DOMAIN view THEN DOMAIN view[z] ELSE {}

\* A dynamic record replaces NetBox's records of the same name in its zone.
Netbox(z) ==
    IF z \notin DOMAIN netbox THEN {}
    ELSE {r \in netbox[z] : /\ r.name \notin DynamicNames(z)
                            /\ SafeName(r.name) /\ (IsAlias(r) => SafeName(r.target))}

Dynamic(z) == {m \in DynamicNames(z) : SafeName(m)}

RecordedAddresses(z, n) ==
    {r.addr : r \in {r \in Netbox(z) : ~IsAlias(r) /\ Owner(r.name) = n}}
        \cup {view[z][m] : m \in {m \in Dynamic(z) : Owner(m) = n}}

\* An alias counts if it is the only thing said of its name, by one device or
\* by several that agree; a zone's own name is never an alias.
Targets(z, n) ==
    LET targets == {Owner(r.target) : r \in {r \in Netbox(z) : IsAlias(r) /\ Owner(r.name) = n}}
    IN  IF RecordedAddresses(z, n) # {} \/ n = Owner(z) \/ Cardinality(targets) # 1
        THEN {} ELSE targets

\* The name server's address, where nothing else defines its name.
Addresses(z, n) ==
    IF /\ nsip # NoIP /\ n = PrimaryNS /\ InZone(n, z)
       /\ Targets(z, n) = {} /\ RecordedAddresses(z, n) = {}
    THEN {nsip}
    ELSE RecordedAddresses(z, n)

\* Following an alias stays with the records of its zone if they have the target.
Follow(at) ==
    LET z  == at[1]
        to == Targets(z, at[2])
        t  == CHOOSE t \in to : TRUE
    IN  IF z = NoZone \/ to = {} THEN at
        ELSE IF Addresses(z, t) # {} \/ Targets(z, t) # {} THEN <<z, t>>
        ELSE <<Answering(t), t>>

\* bound: aliases followed in a row; enough for an alias of an alias.
MaxAliases == 3

Meaning(n) ==
    LET at[k \in 0..MaxAliases] ==
            IF k = 0 THEN <<Answering(n), n>> ELSE Follow(at[k - 1])
        end == at[MaxAliases]
    IN  IF end[1] = NoZone THEN {} ELSE Addresses(end[1], end[2])

-----------------------------------------------------------------------------
Nothing == [z \in {} |-> {}]

NotLooking == looking = FALSE /\ unread = {} /\ view = Nothing

Init ==
    /\ netbox = Nothing /\ dynamic = Nothing /\ NotLooking
    /\ dns = [n \in QName |-> {}]

\* NetBox is read, an operator writes: no client sees it yet.
Learn == ~looking /\ UNCHANGED <<dynamic, lookVars, nsip, dns>>
Accept == UNCHANGED <<netbox, lookVars, nsip, dns>>

\* A publication begins with the zones there are.
Begin ==
    /\ ~looking
    /\ looking' = TRUE /\ unread' = DOMAIN dynamic /\ view' = Nothing
    /\ UNCHANGED <<netbox, dynamic, nsip, dns>>

\* It looks at one of them; one that is gone by now has no records.
Look(z) ==
    /\ looking /\ z \in unread
    /\ unread' = unread \ {z}
    /\ view' = [y \in DOMAIN view \cup {z} |->
                   IF y # z THEN view[y]
                   ELSE IF z \in DOMAIN dynamic THEN dynamic[z] ELSE Nothing]
    /\ UNCHANGED <<netbox, dynamic, looking, nsip, dns>>

Publish ==
    /\ looking /\ unread = {}
    /\ UNCHANGED <<netbox, dynamic, nsip>>
    /\ dns' = [n \in QName |-> Meaning(n)]
    /\ NotLooking'

\* A restart forgets NetBox and may bring another name server address.  What is
\* served stays, or where a file was damaged meanwhile, becomes less.
Restart ==
    /\ netbox' = Nothing
    /\ dynamic' = dynamic
    /\ NotLooking'
    /\ \A n \in QName : dns'[n] \subseteq dns[n]

Next == \/ Learn \/ Accept \/ Restart
        \/ Begin \/ (\E z \in unread : Look(z)) \/ Publish

Spec == Init /\ [][Next]_promiseVars
=============================================================================
