\* Two clients: two tabs, a tab and a command, or two commands; one mishap.
SPECIFICATION FairSpec
CONSTANTS
    Users = {u}
    Clients = {a, b}
    MaxTokens = 6
    MaxMishaps = 1
    None = None
INVARIANTS
    TypeOK
    RotatedTokenIsReplaced
PROPERTY
    EndedSessionsAreDropped
