SPECIFICATION FairSpec
CONSTANTS
    Transfers = {"a", "b"}
    Size = 2
    Buffer = 3
    MaxFaults = 2
INVARIANTS TypeOK
PROPERTIES ImplementsContract EverythingEnds
\* Each call is made once.
CHECK_DEADLOCK FALSE
