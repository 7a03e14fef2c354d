SPECIFICATION Spec
CONSTANTS
    Procs = {p1, p2, p3, p4}
    CrashPoints <- AfterThePid
    Ends = {"error", "success"}
    Serial = TRUE
SYMMETRY Processes
INVARIANTS TypeOK MutualExclusion HolderKeepsLock AloneGetsLock
\* Each process takes part once.
CHECK_DEADLOCK FALSE
