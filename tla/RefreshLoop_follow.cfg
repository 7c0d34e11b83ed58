\* The bus lost and found, netmaps that change, and one reload at any point.
SPECIFICATION FairSpec
CONSTANTS
    Tags <- MCTags
    Ports <- MCPorts
    Policies <- MCPolicies
    Configs <- MCConfigs
    Reloads = {r1}
    MaxChanges = 1
    MaxOutages = 1
    MaxReloads = 1
    Watcher = watcher
    Loop = loop
INVARIANTS TypeOK NoLostChange AttrsAsAsked
PROPERTIES FollowsNetmap EventuallyCurrent
