SPECIFICATION Spec
CONSTANTS
    eth = eth
    old = old
    new = new
    a = a
    b = b
    ula = ula
    pd = pd
    Iface <- Links
    Vlan <- Vlans
    Foreign = {eth}
    Addr <- Addrs
    Ula = ula
    Automatic = Automatic
    Prefix = {pd}
    Seg <- Segs
    None = None
    Off = Off
    Unseen = Unseen
    MaxMishaps = 2
    MaxOps = 2
INVARIANTS
    TypeOK
    RecordsKnow
    UndisturbedHeals
PROPERTIES
    RulesFollowSegment
    MovesAreStaged
    ServesOnlyWhatIsUp
