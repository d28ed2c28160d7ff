\* Two runs and two concurrent requests fight for one item over four ticks.
SPECIFICATION FairSpec
CONSTANTS
    Runs = {r1, r2}
    Handlers = {h1, h2}
    MaxItems = 1
    MaxAttempts = 2
    Leases = {1}
    MaxTime = 3
    NoRun = NoRun
INVARIANTS
    TypeOK
    InProgressHasLease
    SystemFailedIsExhausted
    OwnersExist
PROPERTIES
    LeaseIsRespected
    StrandedItemsComeBack
    ImplementsLedger
\* Once the queue is deleted there is nothing left to ask for.
CHECK_DEADLOCK FALSE
