\* Safety of the main loop and of alert sending: two handlers, three blocks,
\* three threads, and two failed tasks or restarts, so that three attempts may
\* overlap.
SPECIFICATION Spec
CONSTANTS
    Blocks = {1, 2, 3}
    Alerts <- MCAlerts
    NumHandlers = 2
    Slot <- MCSlot
    Due <- MCDue
    NoBlock = NoBlock
    KeepHeaders = 2
    KeepAlerts = 2
    Threads = 3
    MaxFailures = 2
INVARIANTS
    TypeOK
    HandledMeansDelivered
    OnlyOrphansPushOut
PROPERTY
    MonitorSpec
