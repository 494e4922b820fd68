\* One task at a time: an update for the head that was cached before.
SPECIFICATION Spec
CONSTANTS
    Batches = {g1}
    Tasks = {t1}
    LookBack = 2
    Step = 1
    MaxBlock = 2
    MaxReorgs = 0
INVARIANT
    RangeNotEmpty
