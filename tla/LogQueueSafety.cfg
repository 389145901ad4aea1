\* Two event threads and one database thread: a first pool of one record and one
\* batch, cut to the limit of three, that moves the queue.
CONSTANTS
    Pushers = {p1, p2}
    Poppers = {c1}
    Interrupters = {i1}
    NoThread = NoThread
    Events = {e1, e2}
    NoEvent = NoEvent
    RecMin = 1
    RecMax = 3
    RecDelta = 3
    WaitMin = 1
    WaitMax = 2
    WaitDelta = 2
    WaitThresh = 1
    UIntMax = 7
    InPlacePools = 1
SPECIFICATION QueueSpec
SYMMETRY Symmetry
INVARIANTS
    MutualExclusion
    RecordsBounded
    NoLostWakeup
    WaitBounded
    NoFault
    ListsSound
    ListsInOrder
PROPERTIES
    ImplementsEventQueue
