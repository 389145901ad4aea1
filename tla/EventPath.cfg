\* Each driver, two logins and two outages, room for one event, records in one piece or two.
CONSTANTS
    Drivers = {"postgresql", "mysql", "sqlite3", "csvfile"}
    MaxEvents = 2
    MaxOutages = 2
    Helpers = {h1, h2}
    Parts = 2
    LongNames = {{}, {h2}}
    Garbled = Garbled
    NoHelper = NoHelper
    Capacity = 1
    MaxShort = 1
SPECIFICATION FairPathSpec
INVARIANTS
    
    OpenMeansPrepared
    OneSession
    RecordedOnce
PROPERTIES
    ImplementsLoginLog
    OpenEnds
\* The thread has closed the database, or has no more events.
CHECK_DEADLOCK FALSE
