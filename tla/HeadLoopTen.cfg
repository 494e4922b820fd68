\* The code's bounds, two blocks with nine and two alerts of one handler, two
\* failed tasks; two free threads, as more of them only allow more.
SPECIFICATION Spec
CONSTANTS
    Blocks = {1, 2}
    Alerts <- MCManyAlerts
    NumHandlers = 2
    Slot <- MCSlot
    Due <- MCManyDue
    NoBlock = NoBlock
    KeepHeaders = 96
    KeepAlerts = 10
    Threads = 2
    MaxFailures = 2
PROPERTY
    NotSentAgain
