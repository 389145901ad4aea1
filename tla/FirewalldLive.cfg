\* The database and its connection may fail.  The signal comes on one of the
\* threads whose mutexes it meets; the shutdown thread may wake before it.
CONSTANTS
    Main = main
    Timer = timer
    Listener = listener
    Shutdown = shutdown
    NoThread = NoThread
    NoSet = NoSet
    Lists <- MCTwoLists
    Leftovers <- MCLeftovers
    HasListener = TRUE
    Failures = {"query", "connection"}
    Debug = TRUE
    MaxSignals = 1
    SignalTargets = {timer, shutdown}
SPECIFICATION FairSpec
PROPERTIES
    
    
    SignalStops
\* The daemon ends.
CHECK_DEADLOCK FALSE
