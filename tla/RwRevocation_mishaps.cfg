SPECIFICATION Spec
CONSTANTS
    phone = phone
    laptop = laptop
    Device <- Devices
    None = None
    Bad = Bad
    Faults <- Mishaps
SYMMETRY Symmetry
INVARIANTS TypeOK AnswerIsProof
PROPERTIES LoadsOnlyGranted StoppedStaysStopped RetryKeepsSafeUndo
