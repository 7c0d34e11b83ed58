\* Adds, removes, reloads, an edit, a crash and a save that fails.
SPECIFICATION FairSpec
CONSTANTS
    n1 = n1
    ip = ip
    name = name
    Nodes = {n1}
    Addresses = {ip, name}
    Known <- MCKnown
    Ports = {1, 2}
    Wanted = {0}
    Corrupt = Corrupt
    Missing = Missing
    Default <- MCDefault
    FirstFiles <- MCFirstFiles
    Edits <- MCEdits
    NoPeer = NoPeer
    Unknown = Unknown
    MaxPeers = 2
    MaxEdits = 1
    MaxCrashes = 1
    MaxSaveFailures = 1
INVARIANTS TypeOK RuntimeHoldsConfig AcknowledgedIsDurable
PROPERTIES CliPeersSurviveReload EventuallyMerged
CHECK_DEADLOCK FALSE
