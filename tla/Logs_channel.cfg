\* Two streams of two lines, batches of two, three subscribers and two places, two mishaps.
SPECIFICATION FairSpec
CONSTANTS
    stdout = stdout
    stderr = stderr
    Sources = {stdout, stderr}
    LinesOf <- FewLines
    BatchSize = 2
    MaxJoins = 3
    Limit = 2
    MaxFaults = 2
    Main = Main
    None = None
INVARIANTS
    TypeOK
    EveryLineOnce
    OutputComesFirst
    NothingIsMissed
PROPERTIES
    NoGhosts
    StreamingEnds
\* When the output is delivered and the subscribers have left, nothing happens any more.
CHECK_DEADLOCK FALSE
