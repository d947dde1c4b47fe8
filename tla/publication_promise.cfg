SPECIFICATION Spec
CONSTANTS
    base = base
    clash = clash
    extras = extras
    i1 = i1
    i2 = i2
    i3 = i3
    i4 = i4
    i5 = i5
    v6 = v6
    ns4 = ns4
    NoAddr = NoAddr
    NoIP = NoIP
    NoData = NoData
    DomainSuffix <- ExOrg
    LowerCase <- MCLowerCase
    IPv6 <- MCIPv6
    ReverseName <- MCReverseName
    ReverseZones <- MCReverseZones
    Device <- MCDevice
    BMCInterface = {1}
    LoopbackInterface = {3}
    DataplaneInterface = {4}
    MgmtInterface = {2}
    MgmtVRF = {"mgmt"}
    Rendered <- MCRendered
    SiteStem <- MCSiteStem
    RackPart = {"r1"}
    Letter = {"a", "b", "h", "s"}
    UnsafePart = {"b d"}
    PrimaryNS <- MCPrimaryNS
    Config <- MCConfig2
    Rollout <- MCRollout2
    Answer = {clash, extras}
    Row <- MCRow
    Write <- MCWrite
    Fragile <- MCFragile
    Batch <- MCBatch2
    QName <- MCQName
PROPERTIES PromiseSpec
