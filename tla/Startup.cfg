\* Numbers of three bits, names of two characters, and one path that holds
\* something unlink() leaves.
CONSTANTS
    Documents <- MCDocuments
    CommandLines <- MCCommandLines
    Defaults <- MCDefaults
    ConnKeys = {"host", "port", "user"}
    SqliteFlags <- MCSqliteFlags
    MySqlPort = 6
    PathMax = 3
    UIntMax = 7
    IntMax = 3
    SoMaxConn = 3
    MinInterval = 3
    NameMax = 2
    NameChars = {"b", "n", "u"}
    Update = "u"
    Immovable <- MCImmovable
SPECIFICATION Spec
INVARIANTS
    
    
    StartsSound
