\* Pushes, scrapes and clears while a bucket is added, removed and added
\* again and a reload changes who may push.
SPECIFICATION Spec
CONSTANTS
    p1 = p1
    p2 = p2
    other = other
    token = token
    tag = tag
    f = f
    g = g
    name = name
    Requests = {p1, p2, other}
    Asks <- MCAsks
    Names = {name}
    Families = {f, g}
    Credential <- MCCredential
    TagsOf <- MCTagsOf
    AllSettings <- MCSettings
    Unparsable = Unparsable
    Nothing = Nothing
    MaxObjects = 2
    MaxChanges = 1
INVARIANTS TypeOK NoDuplicateSeries
PROPERTIES DecidedUnderOneSetting ImplementsStore
CHECK_DEADLOCK FALSE
