\* A stop arrives while the agent is still preparing the run.
SPECIFICATION Spec
CONSTANTS
    MaxRuns = 1
    MaxDeploys = 0
    Procs = {p}
    Permits = 2
    MaxStops = 1
    Deletable = {}
    MaxFaults = 0
    MaxBacklog = 2
    None = None
INVARIANT
    StoppedIsNotRunning
CHECK_DEADLOCK FALSE
