\* A lifetime of three probes.
SPECIFICATION Spec
CONSTANTS
    Lifetime = 3
    MaxTime = 6
INVARIANT
    SilenceIsReported
CHECK_DEADLOCK FALSE
