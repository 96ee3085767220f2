CONSTANTS
    Clients = {c1, c2}
    Keys = {k1}
    Values = {v1, v2}
    None = None
    Hosts = 2
    MaxCalls = 3
SPECIFICATION Spec
CHECK_DEADLOCK FALSE
INVARIANT TypeOK
PROPERTY ImplementsDatabase
PROPERTY CallsEnd
