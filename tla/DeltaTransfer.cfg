SPECIFICATION Spec
CONSTANTS
    Bases <- SomeBases
    Sources <- SomeSources
    Modulus = 3
    BlockSize = 3
    MaxLiterals = 4
    MaxDisturbances = 1
INVARIANTS TypeOK RollingIsWeakHash NoBlockMissed FallbackAgrees UndisturbedFits
\* The transfer ends.
CHECK_DEADLOCK FALSE
