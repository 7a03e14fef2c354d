SPECIFICATION FairSpec
CONSTANTS
    Threads = {t1, t2, t3}
    MaxSize = 2
    Ops = {"read", "stat"}
    MaxFaults = 1
INVARIANTS TypeOK Accounted NoLostWakeup
PROPERTIES AllServed ReadsHeal
\* The workers stop when they have made their calls.
CHECK_DEADLOCK FALSE
