SPECIFICATION Spec
CONSTANTS
    Node = {n1, n2}
    None = None
    Faults <- NoFaults
INVARIANTS
    RollbackReturnsToPrev
