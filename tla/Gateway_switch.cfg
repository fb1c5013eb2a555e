SPECIFICATION Spec
CONSTANTS
    Node = {n1, n2}
    None = None
    Faults <- SwitchFaults
SYMMETRY Perms
INVARIANTS
    TunnelIsTheSelectedOne
    SwitchSurvivesCrash
