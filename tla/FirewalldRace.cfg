\* Nothing fails: the lists alone, and the two threads that rebuild the set.
CONSTANTS
    Main = main
    Timer = timer
    Listener = listener
    Shutdown = shutdown
    NoThread = NoThread
    NoSet = NoSet
    Lists <- MCLists
    Leftovers <- MCLeftovers
    HasListener = TRUE
    Failures = {}
    Debug = FALSE
    MaxSignals = 0
    SignalTargets = {main}
SPECIFICATION Spec
INVARIANTS
    WholeLists
\* The daemon ends.
CHECK_DEADLOCK FALSE
