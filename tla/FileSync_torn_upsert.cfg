SPECIFICATION Spec
CONSTANTS
    LastVersion = 2
    SizeOf <- Sizes2
    Now = 9
    MtimeOf <- Mtimes2
    Options <- ResumeOptions
    AbortPoints = {"clear_chunks"}
    MaxAborts = 1
    Edits = {}
    MaxEdits = 0
    MayBeUnlisted = FALSE
INVARIANTS SyncedMeansCurrent
