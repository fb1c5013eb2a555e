SPECIFICATION Spec
CONSTANTS
    Configs = {c1, c2, c3}
    Foreign = {f1}
    Missing = missing
    Garbage = garbage
    Faults <- OrderlyFaults
PROPERTIES
    ImplementsRegister
INVARIANTS
    RollbackUndoesLastApply
