\* Two clients, room for one event, and one signal, which the kernel hands to the
\* main thread; the shutdown thread may wake by itself, too.
CONSTANTS
    Main = main
    EventThread = event
    DbThread = db
    ShutdownThread = shutdown
    Pushers = {event}
    Poppers = {db}
    Interrupters = {shutdown}
    NoThread = NoThread
    Events = {1, 2}
    NoEvent = NoEvent
    MaxClients = 2
    MaxSignals = 1
    SignalTargets = {main}
    RecMin = 1
    RecMax = 1
    RecDelta = 1
    WaitMin = 1
    WaitMax = 1
    WaitDelta = 1
    WaitThresh = 1
    UIntMax = 7
    InPlacePools = 1
SPECIFICATION LiveSpec
PROPERTIES
    
    
    
    
    SignalStops
\* The daemon ends, or hangs with nothing left to happen.
CHECK_DEADLOCK FALSE
