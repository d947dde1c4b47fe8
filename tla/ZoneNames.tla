----------------------------- MODULE ZoneNames -----------------------------
(***************************************************************************)
(* DNS names, and how internal/zonediscovery groups records into zones.    *)
(*                                                                         *)
(* A name is a sequence of labels, a label the sequence of the parts that  *)
(* hyphens join: dc1-hv.ex.org is << <<"dc1","hv">>, <<"ex">>, <<"org">> >>.*)
(* A trailing dot is an empty last label and "" is the empty sequence, so  *)
(* suffixes of names are whole labels, as the code's "." guarantees.       *)
(*                                                                         *)
(* A record is the part of netboxclient.IPRecord that reaches a zone file. *)
(* addr stands for an address with its TTL; ReverseName is the name a      *)
(* resolver asks for it, its octets or nibbles in reverse.                 *)
(***************************************************************************)
EXTENDS Naturals, SequencesExt

CONSTANTS
    LowerCase,      \* what the parts that have capitals are in lower case
    DomainSuffix,   \* DOMAIN_SUFFIX
    IPv6,           \* the addresses of family 6
    ReverseName,    \* per address, its name under in-addr.arpa or ip6.arpa
    ReverseZones,   \* REVERSE_ZONES_IPV4 and REVERSE_ZONES_IPV6
    NoAddr          \* the Address of a CNAME

NoName == <<>>
NoZone == <<>>

\* A name, and any other sequence: of what does not matter.
IsSeq(n) == n \in Seq(ToSet(n))

ASSUME ZoneNamesAssumption ==
    /\ NoAddr \notin DOMAIN ReverseName
    /\ IsSeq(DomainSuffix)
    /\ IsFiniteSet(ReverseZones)
    /\ \A z \in ReverseZones : IsSeq(z)
    /\ \A a \in DOMAIN ReverseName : IsSeq(ReverseName[a])

TrimDot(n) == IF n # NoName /\ Last(n) = <<>> THEN Front(n) ELSE n

LowerPart(p) == IF p \in DOMAIN LowerCase THEN LowerCase[p] ELSE p

\* strings.ToLower
Lower(n) == [i \in DOMAIN n |-> [j \in DOMAIN n[i] |-> LowerPart(n[i][j])]]

\* The elements of s that are in S, in the order they have there.
Those(s, S) ==
    LET kept[k \in 0..Len(s)] ==
            IF k = 0 THEN <<>>
            ELSE IF s[k] \in S THEN Append(kept[k - 1], s[k]) ELSE kept[k - 1]
    IN  kept[Len(s)]

LastLabels(n, k) == IF Len(n) <= k THEN n ELSE SubSeq(n, Len(n) - k + 1, Len(n))

\* The name is the zone's apex or lies below it.
InZone(n, z) == IsSuffix(z, n)

\* A dns_name that does not lie below the domain gets it appended, even if it
\* is the domain itself.
QualifyDNSName(n) ==
    IF n = NoName \/ DomainSuffix = NoName \/ IsStrictSuffix(DomainSuffix, TrimDot(n))
    THEN n
    ELSE TrimDot(n) \o DomainSuffix

-----------------------------------------------------------------------------
(* Records and zone maps *)

AddressRecord(n, a) ==
    [name |-> n, addr |-> a, type |-> IF a \in IPv6 THEN "AAAA" ELSE "A",
     target |-> NoName]

AliasRecord(n, t) ==
    [name |-> n, addr |-> NoAddr, type |-> "CNAME", target |-> t]

\* In a reverse zone Address is the label and DNSName what it points to.
PtrRecord(r, label) ==
    [name |-> r.name, addr |-> label, type |-> "PTR", target |-> NoName]

IsAlias(r) == r.type = "CNAME"

\* The zone map that files each record under zone[r], in the order given.
GroupBy(records, zone) ==
    [z \in {zone[r] : r \in ToSet(records)} \ {NoZone} |->
        Those(records, {r \in ToSet(records) : zone[r] = z})]

-----------------------------------------------------------------------------
(* Discoverers *)

\* zone-depth: names with fewer labels than the depth are dropped.
ByDepth(depth, records) ==
    GroupBy(records, [r \in ToSet(records) |->
        LET n == TrimDot(r.name)
        IN  IF Len(n) < depth THEN NoZone ELSE LastLabels(n, depth)])

\* The zones of zs that hold n are suffixes of one another: the longest is the
\* deepest.
Longest(zs) == CHOOSE z \in zs : \A y \in zs : Len(y) <= Len(z)

\* longestMatchingZone
LongestMatch(n, zs) ==
    LET match == {z \in {TrimDot(z) : z \in zs} : InZone(TrimDot(n), z)}
    IN  IF match = {} THEN NoZone ELSE Longest(match)

\* netbox-dns: the active zones of the NetBox DNS plugin.
ByNetboxDNS(zs, records) ==
    GroupBy(records, [r \in ToSet(records) |-> LongestMatch(r.name, zs)])

\* The longest common suffix of two labels or more, else the last two labels of
\* the first name; never a zone all of whose names are its apex, unless it has
\* two labels itself.
CommonSuffix(names) ==
    LET all    == ToSet(names)
        common == Reverse(LongestCommonPrefix({Reverse(n) : n \in all}))
        zone   == IF Len(common) >= 2 THEN common ELSE LastLabels(names[1], 2)
    IN  IF all = {zone} THEN LastLabels(zone, 2) ELSE zone

\* common-suffix: one zone per top-level domain.
ByCommonSuffix(records) ==
    LET names      == [i \in DOMAIN records |-> TrimDot(records[i].name)]
        Names(tld) == Those(names, {n \in ToSet(names) : Len(n) >= 2 /\ Last(n) = tld})
    IN  GroupBy(records, [r \in ToSet(records) |->
            LET n == TrimDot(r.name)
            IN  IF Len(n) < 2 THEN NoZone ELSE CommonSuffix(Names(Last(n)))])

\* mode: [by |-> "zone-depth", depth], [by |-> "netbox-dns", zones] or
\* [by |-> "common-suffix"]
Discover(mode, records) ==
    CASE mode.by = "zone-depth"    -> ByDepth(mode.depth, records)
      [] mode.by = "netbox-dns"    -> ByNetboxDNS(mode.zones, records)
      [] mode.by = "common-suffix" -> ByCommonSuffix(records)

\* reverseIPv4 and reverseIPv6: the deepest configured zone over the address.
ReverseZoneOf(a) ==
    LET match == {z \in ReverseZones : InZone(ReverseName[a], z)}
    IN  IF match = {} THEN NoZone ELSE Longest(match)

\* Faulty variant: one label too many goes.
PtrLabelShort(a) ==
    SubSeq(ReverseName[a], 1, Len(ReverseName[a]) - Len(ReverseZoneOf(a)) - 1)

\* What is left of the address's name; nothing at the apex ("@").
PtrLabel(a) ==
    SubSeq(ReverseName[a], 1, Len(ReverseName[a]) - Len(ReverseZoneOf(a)))

\* ReverseZoneDiscoverer.Discover: one PTR per address record in a configured
\* zone, never one per alias.
DiscoverReverse(records) ==
    LET addresses == Those(records, {r \in ToSet(records) :
                        ~IsAlias(r) /\ r.name # NoName /\ ReverseZoneOf(r.addr) # NoZone})
    IN  [z \in {ReverseZoneOf(r.addr) : r \in ToSet(addresses)} |->
            LET here == Those(addresses, {r \in ToSet(addresses) : ReverseZoneOf(r.addr) = z})
            IN  [i \in DOMAIN here |-> PtrRecord(here[i], PtrLabel(here[i].addr))]]

\* isReverseZone: strictly below one of the two reverse trees.
IsReverseZone(z) ==
    \/ IsStrictSuffix(<< <<"in", "addr">>, <<"arpa">> >>, z)
    \/ IsStrictSuffix(<< <<"ip6">>, <<"arpa">> >>, z)

\* The reverse zones are configured below the tree of their addresses; the names a
\* resolver asks are in lower case.
ASSUME ReverseAssumption ==
    /\ \A z \in ReverseZones : IsReverseZone(z)
    /\ \A a \in DOMAIN ReverseName : Lower(ReverseName[a]) = ReverseName[a]

-----------------------------------------------------------------------------
(* STRIP_DC_LABEL *)

\* The label right before the domain is removed, if one is left before it.
StripName(n) ==
    LET bare   == TrimDot(n)
        domain == Len(DomainSuffix)
    IN  IF Len(bare) < domain + 2 \/ Lower(LastLabels(bare, domain)) # Lower(DomainSuffix)
        THEN n
        ELSE RemoveAt(bare, Len(bare) - domain)

\* Faulty variant: aliases keep their targets.
StripOwners(records) ==
    [i \in DOMAIN records |-> [records[i] EXCEPT !.name = StripName(@)]]

StripDCLabel(records) ==
    [i \in DOMAIN records |->
        [records[i] EXCEPT !.name = StripName(@), !.target = StripName(@)]]
=============================================================================
