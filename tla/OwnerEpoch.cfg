\* An epoch whose first slot has no block.
SPECIFICATION Spec
CONSTANTS
    Validators = {1}
    SlotsPerEpoch = 2
    Requested = {}
    Consolidated = {}
    Muted = {}
    MaxEvents = 1
    MaxSlot = 2
    MaxFailures = 0
INVARIANT
    EpochRefreshed
CHECK_DEADLOCK FALSE
