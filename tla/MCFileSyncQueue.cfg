CONSTANTS
    p1 = p1
    p2 = p2
    v1 = v1
    v2 = v2
    v3 = v3
    c1 = c1
    c2 = c2
    s1 = s1
    none = none
    None = none
    Paths = {p1}
    Contents = {v1, v2}
    SizeOf <- OneSize
    Clients = {c1, c2}
    Sweepers = {}
    MetadataMD5 = TRUE
    MaxAttempts = 2
    Scenes <- MCQueue
SPECIFICATION LiveSpec
INVARIANTS
    CatalogIsTrue
    InOrderPerPath
PROPERTIES
    EveryIntentSettles
