SPECIFICATION Spec
CONSTANTS
    a = a
    b = b
    l1 = l1
    l2 = l2
    Corrupt = Corrupt
    Names = {a, b}
    Labels = {l1}
    FirstConfigs <- AnyFirst
    Edits <- NoEdits
    MayClash = FALSE
    MayMistype = FALSE
    MaxServices = 2
    MaxEdits = 0
    MaxCrashes = 2
    MaxSaveFailures = 1
    MaxRebindFailures = 0
INVARIANTS
    StartsFromItsOwnFile
    RuntimeRealisesConfig
