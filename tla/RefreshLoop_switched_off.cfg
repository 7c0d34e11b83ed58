\* A reload switches node_attrs off, and the watcher goes on as it was started.
SPECIFICATION Spec
CONSTANTS
    Tags <- MCTags
    Ports <- MCPorts
    Policies <- MCMorePolicies
    Configs <- MCOneConfig
    Reloads = {r1}
    MaxChanges = 1
    MaxOutages = 0
    MaxReloads = 1
    Watcher = watcher
    Loop = loop
INVARIANTS IgnoredWhenOff
