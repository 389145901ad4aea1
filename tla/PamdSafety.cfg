\* Two clients, two signals on any of three threads, and a queue that may move.
CONSTANTS
    Main = main
    EventThread = event
    DbThread = db
    ShutdownThread = shutdown
    Pushers = {event}
    Poppers = {db}
    Interrupters = {shutdown}
    NoThread = NoThread
    Events = {1, 2}
    NoEvent = NoEvent
    MaxClients = 2
    MaxSignals = 2
    SignalTargets = {main, event, shutdown}
    RecMin = 1
    RecMax = 2
    RecDelta = 1
    WaitMin = 1
    WaitMax = 1
    WaitDelta = 1
    WaitThresh = 1
    UIntMax = 7
    InPlacePools = 1
SPECIFICATION PamdSpec
INVARIANTS
    EventsInOrder
    LogsOnOpenConnection
    CleanExit
\* The daemon ends, or hangs with nothing left to happen.
CHECK_DEADLOCK FALSE
