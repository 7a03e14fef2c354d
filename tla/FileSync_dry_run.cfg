SPECIFICATION Spec
CONSTANTS
    LastVersion = 2
    SizeOf <- Sizes2
    Now = 9
    MtimeOf <- Mtimes2
    Options <- DryOptions
    AbortPoints = {"check"}
    MaxAborts = 1
    Edits = {}
    MaxEdits = 0
    MayBeUnlisted = FALSE
PROPERTIES DryRunKeepsDisk
