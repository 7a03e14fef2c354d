SPECIFICATION FairSpec
CONSTANTS
    LastVersion = 3
    SizeOf <- Sizes3
    Now = 9
    MtimeOf <- Mtimes3
    Options <- AllOptions
    AbortPoints <- SafePoints
    MaxAborts = 2
    Edits = {}
    MaxEdits = 0
    MayBeUnlisted = TRUE
INVARIANTS TypeOK IInv NoHoles SyncedMeansCurrent StrictSingleVersion
PROPERTIES KeepsPromise EventuallyCurrent
