SPECIFICATION Spec
CONSTANTS
    a = a
    b = b
    l1 = l1
    l2 = l2
    Corrupt = Corrupt
    Names = {a, b}
    Labels = {l1, l2}
    FirstConfigs <- AnyFirst
    Edits <- DistinctEdits
    MayClash = TRUE
    MayMistype = FALSE
    MaxServices = 2
    MaxEdits = 2
    MaxCrashes = 0
    MaxSaveFailures = 0
    MaxRebindFailures = 1
INVARIANTS
    TypeOK
    RuntimeRealisesConfig
    FileHoldsConfig
PROPERTIES
    RefusedChangesNothing
    BucketsSurviveReload
