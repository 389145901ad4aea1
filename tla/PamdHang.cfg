\* One client and one signal.
CONSTANTS
    Main = main
    EventThread = event
    DbThread = db
    ShutdownThread = shutdown
    Pushers = {event}
    Poppers = {db}
    Interrupters = {shutdown}
    NoThread = NoThread
    Events = {1}
    NoEvent = NoEvent
    MaxClients = 1
    MaxSignals = 1
    SignalTargets = {main}
    RecMin = 2
    RecMax = 2
    RecDelta = 1
    WaitMin = 1
    WaitMax = 1
    WaitDelta = 1
    WaitThresh = 1
    UIntMax = 7
    InPlacePools = 1
SPECIFICATION LiveSpec
PROPERTIES
    DbThreadStops
\* The daemon ends, or hangs with nothing left to happen.
CHECK_DEADLOCK FALSE
