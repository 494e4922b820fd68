\* Two overlapping tasks, a window of two blocks and steps of one; four blocks
\* of three exit requests, or of two consolidation batches and a
\* reorganisation.
SPECIFICATION MCSpec
CONSTANTS
    Validators = {v1, v2}
    Tasks = {t1, t2}
    LookBack = 2
    Step = 1
    MaxBlock = 4
    MaxRequests = 3
    Batches = {g1, g2}
    MaxBusBlock = 4
    MaxReorgs = 1
SYMMETRY Symmetry
INVARIANTS
    TypeOK
    ExpectedExitsKnown
    BusTypeOK
    BatchesKnown
