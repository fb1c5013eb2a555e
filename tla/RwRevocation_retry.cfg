SPECIFICATION FairSpec
CONSTANTS
    phone = phone
    laptop = laptop
    Device <- OneDevice
    None = None
    Bad = Bad
    Faults <- Retried
INVARIANTS ExcessIsMarked
PROPERTY RevocationCompletes
