\* Pools of one record: the second growth may move the object.
CONSTANTS
    Pushers = {p1}
    Poppers = {c1}
    Interrupters = {}
    NoThread = NoThread
    Events = {e1, e2}
    NoEvent = NoEvent
    RecMin = 1
    RecMax = 2
    RecDelta = 1
    WaitMin = 1
    WaitMax = 3
    WaitDelta = 2
    WaitThresh = 2
    UIntMax = 7
    InPlacePools = 1
SPECIFICATION FairSpec
PROPERTIES
    BlockedPopReturns
