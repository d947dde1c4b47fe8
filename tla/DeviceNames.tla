---------------------------- MODULE DeviceNames ----------------------------
(***************************************************************************)
(* The names a poll publishes: enrichRecordsWithDeviceNames, with          *)
(* internal/ipcategorizer and internal/nameformat.                         *)
(*                                                                         *)
(* A row is one IP address of NetBox's answer: [name, addr, device, iface, *)
(* vrf].  A row with a dns_name keeps it; of the others each device gets   *)
(* one management and one BMC address, named after the device or by the    *)
(* templates.  A device name is a label.  Interfaces are numbered in the   *)
(* order of their names; what the configured patterns match is given as    *)
(* sets, and what the templates render as a function.                      *)
(***************************************************************************)
EXTENDS ZoneNames

CONSTANTS
    Device,         \* the device names, in the order of sort.Strings
    BMCInterface, LoopbackInterface, DataplaneInterface,    \* BMC_INTERFACE_PATTERN..
    MgmtInterface, MgmtVRF,
    Rendered,       \* per device a parser matches: [canonical, aliases] as the
                    \* templates render them, NoName when one fails
    SiteStem,       \* per part, what comes before its first digit, "" if it has none
    RackPart,       \* the parts that start with r and are longer than that
    Letter,         \* the parts that are one letter
    UnsafePart      \* the parts with a character a zone file cannot take

NoDevice == <<>>

ASSUME DeviceNamesAssumption ==
    /\ IsSeq(Device)
    /\ \A d \in DOMAIN Rendered :
         /\ IsSeq(Rendered[d].canonical) /\ IsSeq(Rendered[d].aliases)
         /\ \A i \in DOMAIN Rendered[d].aliases : IsSeq(Rendered[d].aliases[i])

\* Dot-separated labels of letters, digits, underscores and inner hyphens:
\* renderedNameRE of a name in lower case and safeZoneNameRE of any.  Names are
\* within the length limits.
SafeName(n) ==
    /\ TrimDot(n) # NoName
    /\ \A i \in DOMAIN TrimDot(n) :
         TrimDot(n)[i] # <<>> /\ ToSet(TrimDot(n)[i]) \cap UnsafePart = {}

-----------------------------------------------------------------------------
(* ipcategorizer *)

\* Categorize, in its order of priority.
Category(row) ==
    IF row.iface \in BMCInterface THEN "bmc"
    ELSE IF row.iface \in LoopbackInterface THEN "loopback"
    ELSE IF row.iface \in DataplaneInterface THEN "dataplane"
    ELSE IF row.vrf \in MgmtVRF THEN "mgmt-vrf"
    ELSE IF row.iface \in MgmtInterface THEN "mgmt-interface"
    ELSE "unknown"

\* Of the device's rows in a category the first by interface name, NetBox's order
\* deciding between equals; <<>> if there are none.
FirstOf(rows, device, category) ==
    LET these == Those(rows, {r \in ToSet(rows) : r.device = device /\ Category(r) = category})
        best  == {i \in DOMAIN these : \A j \in DOMAIN these :
                    \/ these[i].iface < these[j].iface
                    \/ these[i].iface = these[j].iface /\ i <= j}
    IN  IF these = <<>> THEN <<>> ELSE <<these[CHOOSE i \in best : TRUE]>>

\* A management address by VRF is preferred to one by interface name.
PrimaryIP(rows, device) ==
    LET byVRF == FirstOf(rows, device, "mgmt-vrf")
    IN  IF byVRF # <<>> THEN byVRF ELSE FirstOf(rows, device, "mgmt-interface")

BMCIP(rows, device) == FirstOf(rows, device, "bmc")

\* extractZone: <location>-lab-<environment>, <location>-<site> or <location>.
ExtractZone(device) ==
    LET lab  == {i \in DOMAIN device : device[i] = "lab" /\ i < Len(device)}
        env  == device[(CHOOSE i \in lab : \A j \in lab : i <= j) + 1]
        stem == SiteStem[device[2]]
        site == IF stem = "" THEN device[2] ELSE stem
        rack == Len(device) > 2 /\ device[3] \in RackPart
    IN  IF Len(device) < 2 THEN DomainSuffix
        ELSE IF lab # {} THEN <<<<device[1], "lab", env>>>> \o DomainSuffix
        ELSE IF stem \in Letter /\ ~rack THEN <<<<device[1]>>>> \o DomainSuffix
        ELSE <<<<device[1], site>>>> \o DomainSuffix

-----------------------------------------------------------------------------
(* nameformat *)

\* The first label gets "-bmc".
BMCName(n) == <<Append(n[1], "bmc")>> \o Tail(n)

\* Format's two results: whether a parser matched and the canonical name is
\* fit, and then the names.
Formatted(device) ==
    device \in DOMAIN Rendered /\ SafeName(Lower(Rendered[device].canonical))

\* The canonical name: the template's, else <device>.<zone>.
Canonical(device) ==
    IF Formatted(device) THEN Lower(Rendered[device].canonical)
    ELSE <<device>> \o ExtractZone(device)

\* Aliases that are unfit, or the canonical name itself, are skipped.
Aliases(device) ==
    LET lower == [i \in DOMAIN Rendered[device].aliases |->
                    Lower(Rendered[device].aliases[i])]
    IN  IF ~Formatted(device) THEN <<>>
        ELSE Those(lower, {a \in ToSet(lower) : SafeName(a) /\ a # Canonical(device)})

-----------------------------------------------------------------------------
(* DeviceDNSToRecords and enrichRecordsWithDeviceNames *)

\* One record per row of a result of FirstOf.
ForRow(row, record) == [i \in DOMAIN row |-> record]

DeviceRecords(rows, device) ==
    LET primary == PrimaryIP(rows, device)
        bmc     == BMCIP(rows, device)
        name    == Canonical(device)
        ForAlias(a) ==
            ForRow(primary, AliasRecord(a, name))
                \o ForRow(bmc, AliasRecord(BMCName(a), BMCName(name)))
    IN  ForRow(primary, AddressRecord(name, primary[1].addr))
            \o ForRow(bmc, AddressRecord(BMCName(name), bmc[1].addr))
            \o FlattenSeq([i \in DOMAIN Aliases(device) |-> ForAlias(Aliases(device)[i])])

Enrich(rows) ==
    LET named   == Those(rows, {r \in ToSet(rows) : r.name # NoName})
        unnamed == Those(rows, {r \in ToSet(rows) : r.name = NoName /\ r.device # NoDevice})
    IN  [i \in DOMAIN named |->
            AddressRecord(QualifyDNSName(named[i].name), named[i].addr)]
        \o FlattenSeq([d \in DOMAIN Device |-> DeviceRecords(unnamed, Device[d])])
=============================================================================
