\* Two consolidation requests among three validators, one of them not on the
\* beacon chain; or two withdrawal requests, two validators and amounts around
\* the boundary; or two validators slashed or exiting in epochs of two slots, in
\* a run of three.  One failure.
SPECIFICATION MCSpec
CONSTANTS
    Validators = {1, 2, 3}
    OnBeacon = {1, 2}
    Balance <- MCBalance
    Status <- MCStatus
    Pending <- MCPending
    Requested = {2}
    MaxTotal = 3
    MaxRequests = 2
    MaxFailures = 1
    ElValidators = {v1, v2}
    Amounts = {0, 1, 2}
    OwnerValidators = {1, 2}
    SlotsPerEpoch = 2
    Consolidated = {1}
    Muted = {}
    MaxEvents = 1
    MaxSlot = 3
INVARIANTS
    TypeOK
    ForeignOrJudged
    JudgedIsTold
    StrangersTold
    ElTypeOK
    KnownRequestsReported
    OneVerdict
    OwnerTypeOK
    KnownUsersReported
CHECK_DEADLOCK FALSE
