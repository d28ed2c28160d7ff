\* Two runs and a deployment of a process that may be deleted, two permits, one stop, one fault.
SPECIFICATION Spec
CONSTANTS
    MaxRuns = 2
    MaxDeploys = 1
    Procs = {p}
    Permits = 2
    MaxStops = 1
    Deletable = {p}
    MaxFaults = 1
    MaxBacklog = 2
    None = None
SYMMETRY Symmetry
INVARIANTS
    TypeOK
    CompletedMeansExitZero
    HandleHasTask
    WorkIsIssuedOnce
PROPERTIES
    ExecutedAtMostOnce
    ImplementsRunLedger
\* When every run has settled and no stop or fault is left, nothing happens any more.
CHECK_DEADLOCK FALSE
