SPECIFICATION FairSpec
CONSTANTS
    p1 = p1
    p2 = p2
    tag1 = tag1
    ip1 = ip1
    ip2 = ip2
    NoPort = NoPort
    NoIP = NoIP
    NoServer = NoServer
    None = None
    Addrs = {p1, p2}
    Tags = {tag1}
    Files <- OnOff
    CapMaps <- Policies
    OwnIPs <- Assigned
    HasServices = FALSE
    Overlap = FALSE
    MaxChanges = 2
    MaxBindFailures = 1
    MaxReloads = 1
INVARIANTS
    TypeOK
    ServedWhereConfigured
    AnnouncedIsCurrent
    OffMeansOff
PROPERTIES
    FollowsPolicy
CHECK_DEADLOCK FALSE
