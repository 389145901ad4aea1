\* Everything may fail, and a signal may come on either of two threads.
CONSTANTS
    Main = main
    Timer = timer
    Listener = listener
    Shutdown = shutdown
    NoThread = NoThread
    NoSet = NoSet
    Lists <- MCLists
    Leftovers <- MCLeftovers
    HasListener = TRUE
    Failures = {"query", "connection", "session"}
    Debug = TRUE
    MaxSignals = 1
    SignalTargets = {main, timer}
SPECIFICATION HistorySpec
INVARIANTS
    CleanExit
    
PROPERTIES
    ProductionStays
\* The daemon ends.
CHECK_DEADLOCK FALSE
