\* Two overlapping fork handler tasks, an event stream that may break.
SPECIFICATION Spec
CONSTANTS
    Blocks = {10, 20, 30, 40, 41, 51, 60}
    Parent <- MCParent
    Slot <- MCSlot
    Ancestors <- MCAncestors
    NoBlock = NoBlock
    Tasks = {t1, t2}
    NoTask = NoTask
    KeepHeaders = 2
    MaxFailures = 1
    MaxDrops = 1
    MaxReorgs = 2
INVARIANTS
    TypeOK
    HandledParentCovered
    ChainCovered
SYMMETRY MCTasks
CHECK_DEADLOCK FALSE
