SPECIFICATION Spec
CONSTANTS
    n1 = n1
    n2 = n2
    t1 = t1
    t2 = t2
    up = up
    a1 = a1
    a2 = a2
    r1 = r1
    s1 = s1
    s2 = s2
    u1 = u1
    NoHealth = NoHealth
    Loop = Loop
    Names = {n1}
    Targets = {t1}
    Statuses = {up}
    CheckURLs = {u1}
    Peers = {a1}
    ManualPeers = {}
    OldAgents = {}
    Reloads = {}
    Savers = {}
    NetmapStates <- OnlineOnly
    TailscaleFails = FALSE
    Faults <- HealthTimeout
    TTL = 1
    MaxTime = 1
    MaxModified = 2
    MaxFaults = 1
    MaxRestarts = 0
    MaxCrashes = 0
INVARIANTS
    NotModifiedMeansCurrent
