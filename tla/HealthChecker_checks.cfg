SPECIFICATION FairSpec
CONSTANTS
    n1 = n1
    n2 = n2
    u1 = u1
    u2 = u2
    g1 = g1
    g2 = g2
    g3 = g3
    NoCheck = NoCheck
    NoHealth = NoHealth
    Names = {n1}
    CheckURLs = {u1, u2}
    Goroutines = {g1, g2, g3}
    MaxOps = 3
INVARIANTS
    TypeOK
    OneLiveCheck
PROPERTIES
    ConfiguredCheckPrevails
    CancelledChecksEnd
CHECK_DEADLOCK FALSE
