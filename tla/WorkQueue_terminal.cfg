\* A completion that read the item before it was reclaimed undoes another run's success.
SPECIFICATION Spec
CONSTANTS
    Runs = {r1, r2}
    Handlers = {h1, h2}
    MaxItems = 1
    MaxAttempts = 2
    Leases = {1}
    MaxTime = 2
    NoRun = NoRun
PROPERTY
    SuccessIsTerminal
CHECK_DEADLOCK FALSE
