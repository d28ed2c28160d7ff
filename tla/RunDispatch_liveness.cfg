\* Two runs of one process that may be deleted, three permits, one stop request; no faults.
SPECIFICATION LiveSpec
CONSTANTS
    MaxRuns = 2
    MaxDeploys = 0
    Procs = {p}
    Permits = 3
    MaxStops = 1
    Deletable = {p}
    MaxFaults = 0
    MaxBacklog = 2
    None = None
PROPERTIES
    WorkSettles
    StopEndsChild
\* When everything has settled and no stop request is left, nothing happens any more.
CHECK_DEADLOCK FALSE
