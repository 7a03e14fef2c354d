SPECIFICATION Spec
CONSTANTS
    LastVersion = 2
    SizeOf <- Sizes2
    Now = 9
    MtimeOf <- Mtimes2
    Options <- FreshOptions
    AbortPoints <- AllPoints
    MaxAborts = 2
    Edits = {"modify", "delete"}
    MaxEdits = 1
    MayBeUnlisted = TRUE
INVARIANTS NoResumeIsClean DeltaFromSource
