SPECIFICATION FairSpec
CONSTANTS
    LastPath = 5
    Above <- AboveDef
    Hidden = {1}
    Big = {1, 3, 5}
    Trees <- TreesDef
    Before <- BeforeDef
    Now = 9
    Options <- OptionsDef
    Jobs = 2
    MaxFaults = 2
INVARIANTS TypeOK NothingThroughLinks SuccessMeansSynced FailsForAReason RdmaProbes
PROPERTIES EventuallyMirrored FilesKeepPromise
