SPECIFICATION FairSpec
CONSTANTS
    Node = {n1}
    None = None
    Faults <- HostFaults
INVARIANTS
    TypeOK
    BootOpensNothing
    ReportIsHonest
PROPERTIES
    HeldStaysHeld
    OperationsEnd
