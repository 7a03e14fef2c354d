SPECIFICATION Spec
CONSTANTS
    LastVersion = 2
    SizeOf <- Sizes2
    Now = 9
    MtimeOf <- Mtimes2
    Options <- ResumeOptions
    AbortPoints = {}
    MaxAborts = 0
    Edits = {"delete"}
    MaxEdits = 1
    MayBeUnlisted = FALSE
INVARIANTS NoHoles
