\* Two hosts and three snapshots of the Keys API, two failures and late
\* operators; five edits of the keys file; a range of four slots; three hosts of
\* a request; the loop that MCParts describes.
SPECIFICATION MCSpec
CONSTANTS
    KeysHosts = {k1, k2}
    NoHost = NoHost
    MaxSnapshots = 3
    MaxFailures = 2
    NewOperatorAt = {2, 3}
    MaxEdits = 5
    LastSlot = 4
    NumHosts = 3
    MaxDepth = 2
    MaxOutages = 1
INVARIANTS
    TypeOK
    StatusCovered
    FileTypeOK
    KeysOfFile
    RangeTypeOK
    LaterSlotsSeeKeys
    FirstUsableServes
    MissedSlotWins
    ReadAsSent
    AdditionsIgnored
    StartTypeOK
    OnlyConfigured
PROPERTIES
    FileTaken
    ComesUp
    StableHeadHandled
