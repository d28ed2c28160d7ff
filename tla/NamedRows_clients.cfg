\* Two clients, two names; batches with the same keys in opposite orders; one lost transaction.
SPECIFICATION FairSpec
CONSTANTS
    k1 = k1
    k2 = k2
    Names = {k1, k2}
    Values = {1, 2}
    Clients = {a, b}
    Batches <- KeyBatches
    Open = TRUE
    MaxRows = 2
    MaxFaults = 1
    None = None
INVARIANTS
    TypeOK
    SomeoneIsAdmin
PROPERTIES
    LockIsForGood
    SealedForGood
    BatchesAreAtomic
    BatchesGetThrough
\* Once the queue is deleted there is nothing left to ask for.
CHECK_DEADLOCK FALSE
