SPECIFICATION Spec
CONSTANTS
    Configs = {c1, c2}
    Foreign = {}
    Missing = missing
    Garbage = garbage
    Faults <- AllFaults
SYMMETRY Perms
INVARIANTS
    TypeOK
    IrreversibleHolds
