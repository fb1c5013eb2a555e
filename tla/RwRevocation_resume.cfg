SPECIFICATION Spec
CONSTANTS
    phone = phone
    laptop = laptop
    Device <- OneDevice
    None = None
    Bad = Bad
    Faults <- FailedGrants
INVARIANT UnmarkedMeansGranted
