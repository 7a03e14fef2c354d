SPECIFICATION Spec
CONSTANTS
    Procs = {p1, p2, p3}
    CrashPoints = {}
    Ends = {"error"}
    Serial = FALSE
SYMMETRY Processes
INVARIANTS MutualExclusion
\* Each process takes part once.
CHECK_DEADLOCK FALSE
