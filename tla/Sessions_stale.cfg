\* A tab reloads after its session was ended.
SPECIFICATION Spec
CONSTANTS
    Users = {u}
    Clients = {a, b}
    MaxTokens = 4
    MaxMishaps = 1
    None = None
PROPERTY
    StaleTokensAreCleared
