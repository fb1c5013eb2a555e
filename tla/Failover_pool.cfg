SPECIFICATION FairTroubleSpec
CONSTANTS
    n1 = n1
    n2 = n2
    n3 = n3
    Node <- Pool
    None = None
    Hysteresis = 2
    Cooldown = 2
    Grace = 4
    ActiveTtl = 2
    StandbyTtl = 6
    MaxPreflights = 1
    SweepEvery = 3
    MaxSkip = 1
    StreakCap = 1
    MaxMoves = 1
INVARIANTS
    TypeOK
PROPERTIES
    DisconnectedStays
    SwitchesAreSpaced
    FledNodeSitsOut
    GoodStandbyIsFound
    AllDownIsReported
