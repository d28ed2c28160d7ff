\* Two batches with the same key: both look, one inserts and commits, the other is refused.
SPECIFICATION Spec
CONSTANTS
    k1 = k1
    k2 = k2
    Names = {k1, k2}
    Values = {1}
    Clients = {a, b}
    Batches <- KeyBatches
    Open = TRUE
    MaxRows = 1
    MaxFaults = 0
    None = None
PROPERTY
    DuplicatesAreReturned
CHECK_DEADLOCK FALSE
