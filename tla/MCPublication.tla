--------------------------- MODULE MCPublication ---------------------------
(***************************************************************************)
(* A small instance of Publication: one domain, ex.org, with a datacenter  *)
(* dc below it.                                                            *)
(***************************************************************************)
EXTENDS Publication

CONSTANTS base, clash, extras,       \* the answers
          i1, i2, i3, i4, i5, v6,   \* addresses
          ns4                       \* PRIMARY_NS_IP

\* A label or a name from its parts.
N(host) == << <<host>>, <<"ex">>, <<"org">> >>
D(host) == << <<host>>, <<"dc">>, <<"ex">>, <<"org">> >>

ExOrg == << <<"ex">>, <<"org">> >>
DcExOrg == << <<"dc">>, <<"ex">>, <<"org">> >>

MCLowerCase == [p \in {"Web"} |-> "web"]
MCIPv6 == {v6}
Arpa(octets) == [i \in DOMAIN octets |-> <<octets[i]>>] \o << <<"in", "addr">>, <<"arpa">> >>
Ip6Arpa(nibbles) == [i \in DOMAIN nibbles |-> <<nibbles[i]>>] \o << <<"ip6">>, <<"arpa">> >>

\* i1 and i2 in 1.10.in-addr.arpa, i3 in 10.in-addr.arpa, i4 and i5 in neither.
MCReverseName ==
    (i1 :> Arpa(<<"1", "0", "1", "10">>)) @@ (i2 :> Arpa(<<"2", "0", "1", "10">>))
        @@ (i3 :> Arpa(<<"3", "0", "2", "10">>)) @@ (i4 :> Arpa(<<"4", "0", "0", "192">>))
        @@ (i5 :> Arpa(<<"5", "0", "0", "192">>)) @@ (v6 :> Ip6Arpa(<<"6", "0", "f">>))
        @@ (ns4 :> Arpa(<<"9", "0", "0", "192">>))
MCReverseZones == {Arpa(<<"10">>), Arpa(<<"1", "10">>), Ip6Arpa(<<"f">>)}

\* Interfaces: 1 bmc, 2 eth0, 3 lo0, 4 swp1.
MCDevice == << <<"dc", "s1", "r1", "a">>, <<"hv", "a">>, <<"hv", "b">> >>

\* Both hosts' templates render the same two aliases.
MCRendered ==
    (<<"hv", "a">> :> [canonical |-> D("a"), aliases |-> <<D("web"), N("www")>>])
        @@ (<<"hv", "b">> :> [canonical |-> D("b"), aliases |-> <<D("web"), N("www")>>])
MCSiteStem == [p \in {"s1"} |-> "s"] @@ [p \in {"a", "b"} |-> ""]

R(n, a, d, i, v) == [name |-> n, addr |-> a, device |-> d, iface |-> i, vrf |-> v]
Named(n, a) == R(n, a, NoDevice, 2, "none")
HostA(a, i) == R(NoName, a, <<"hv", "a">>, i, "none")

\* Two names, one of them bare, and a device with a management and a BMC address.
Base == <<Named(<< <<"h">> >>, i1), Named(N("k"), i2), HostA(v6, 2), HostA(i3, 1)>>
\* The same in another order, and a device that claims the first one's aliases.
Clash == Reverse(Base) \o <<R(NoName, i4, <<"hv", "b">>, 2, "mgmt")>>
\* An address at an alias in other case, an unsafe name, a device no template
\* matches, the primary name server, and addresses a device does not get.
Extras == Base \o <<Named(D("Web"), i5), Named(N("b d"), i4),
                    R(NoName, i3, <<"dc", "s1", "r1", "a">>, 2, "mgmt"),
                    Named(N("ns"), i4), HostA(i1, 3), HostA(i5, 4)>>
MCRow == (base :> Base) @@ (clash :> Clash) @@ (extras :> Extras)

ByDepth2 == [by |-> "zone-depth", depth |-> 2]
ByDepth3 == [by |-> "zone-depth", depth |-> 3]
ByZones == [by |-> "netbox-dns", zones |-> {ExOrg, DcExOrg}]
BySuffix == [by |-> "common-suffix"]
Conf(mode, strip, nsip) == [mode |-> mode, strip |-> strip, nsip |-> nsip]
Flat == Conf(ByDepth2, FALSE, ns4)
Zoned == Conf(ByZones, FALSE, ns4)
Strip == Conf(ByDepth2, TRUE, NoIP)
Suffix == Conf(BySuffix, FALSE, NoIP)
Deep == Conf(ByDepth3, FALSE, NoIP)
MCConfig == {Flat, Zoned, Strip, Suffix, Deep}
\* PRIMARY_NS_IP comes and goes, the zones stay, split, merge or are renamed.
MCRollout == (Flat :> {Zoned}) @@ (Zoned :> {Strip}) @@ (Strip :> {Deep})
                @@ (Deep :> {Suffix}) @@ (Suffix :> {Flat})

\* Fewer of both, for the run with two zones in a batch.
MCConfig2 == {Flat, Zoned, Strip}
MCRollout2 == (Flat :> {Zoned}) @@ (Zoned :> {Strip}) @@ (Strip :> {Flat})

W(z, n, a) == [zone |-> z, name |-> n, addr |-> a]
MCFragile == {ExOrg}
\* A host of the datacenter, at an address that NetBox has under another name.
MCWrite == {W(DcExOrg, D("a"), i1)}
\* Two entries for one zone, of which the last counts; and two zones.
MCBatch == {<<[zone |-> DcExOrg, records |-> (D("b") :> i5)],
              [zone |-> DcExOrg, records |-> (D("a") :> i1)]>>}
MCBatch2 == {<<[zone |-> DcExOrg, records |-> (D("a") :> i1)],
               [zone |-> ExOrg, records |-> (N("web") :> i5)]>>}

MCPrimaryNS == N("ns")

MCQName == {N("h"), N("www"), N("ns"), N("a"), N("web"), D("a"), D("b"), D("web"),
            BMCName(D("a")), BMCName(D("web"))}
=============================================================================
