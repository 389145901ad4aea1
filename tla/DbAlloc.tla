------------------------------ MODULE DbAlloc ------------------------------
(***************************************************************************)
(* db_alloc: the handle each of the four drivers makes of the database     *)
(* mapping of the YAML file, libiptracking/db_interface.c and the alloc    *)
(* functions of libiptracking/db_drivers.                                  *)
(*                                                                         *)
(* A YAML node is a record with a kind: a number, another word, a sequence *)
(* of nodes, a mapping from paths to nodes, or a tree nothing here looks   *)
(* into.  A handle has the parameters its driver found, by name.           *)
(***************************************************************************)
EXTENDS Integers, SequencesExt

CONSTANTS
    ConnKeys,      \* the keywords of PQconnectdbParams the driver knows
    SqliteFlags,   \* the nodes that name an SQLITE_OPEN_ flag
    MySqlPort,
    UIntMax, IntMax

NULL == "NULL"

Number(n) == [kind |-> "number", value |-> n]
Word(t) == [kind |-> "word", text |-> t]

IsScalar(node) == node.kind \in {"number", "word"}

Scalar(node) == IF node.kind = "number" THEN node.value ELSE node.text

\* yaml_helper_get_scalar_*_value: the whole scalar is a number in range.
ReadsAs(node, type) ==
    CASE type = "uint32" -> node.kind = "number" /\ node.value \in 0..UIntMax
      [] type = "int" -> node.kind = "number" /\ node.value \in -(IntMax + 1)..IntMax
      [] OTHER -> node.kind = "word"

-----------------------------------------------------------------------------
Handle(driver, parameters) == [driver |-> driver, parameters |-> parameters]

NoHandle == Handle(NULL, <<>>)

\* A key whose node is not a scalar is as good as absent.
Kept(m, keys) == Restrict(m, {k \in keys \cap DOMAIN m : IsScalar(m[k])})

AllocCsvfile(m) ==
    LET kept == Kept(m, {"delimiter", "filename"})
        delimited == "delimiter" \in DOMAIN m =>
                         "delimiter" \in DOMAIN kept /\ kept["delimiter"] # Word(<<>>)
    IN IF delimited /\ "filename" \in DOMAIN kept
       THEN Handle("csvfile", [k \in DOMAIN kept \cup {"delimiter"} |->
                                  IF k \in DOMAIN kept THEN kept[k] ELSE Word(<<",">>)])
       ELSE NoHandle

\* Mutant: the file name goes before the URI.
AllocSqlite3_FilenameFirst(m) ==
    LET kept == Kept(m, {"uri", "filename"})
        name == IF "filename" \in DOMAIN kept THEN "filename" ELSE "uri"
    IN IF name \in DOMAIN kept
       THEN Handle("sqlite3", [filename |-> kept[name], flags |-> {Word("READWRITE")}])
       ELSE NoHandle

\* A flag nobody knows is passed over with a warning.
AllocSqlite3(m) ==
    LET kept == Kept(m, {"uri", "filename"})
        name == IF "uri" \in DOMAIN kept THEN "uri" ELSE "filename"
        flags == IF "flags" \in DOMAIN m THEN m["flags"] ELSE [kind |-> "sequence", items |-> <<>>]
        flagged == flags.kind = "sequence" /\ \A i \in DOMAIN flags.items : IsScalar(flags.items[i])
    IN IF flagged /\ name \in DOMAIN kept
       THEN Handle("sqlite3",
                   [filename |-> kept[name],
                    flags |-> {Word("READWRITE")} \cup (Range(flags.items) \cap SqliteFlags)
                              \cup (IF name = "uri" THEN {Word("URI")} ELSE {})])
       ELSE NoHandle

\* The name of the database is written over the password, and read as the port.
AllocMysql(m) ==
    LET kept == Kept(m, {"host", "user", "passwd", "unix_socket"})
        dbGiven == DOMAIN Kept(m, {"db"}) # {}
    IN Handle("mysql",
              [k \in DOMAIN kept \cup {"port"} \cup (IF dbGiven THEN {"passwd"} ELSE {}) |->
                  CASE k = "port" -> IF dbGiven /\ ReadsAs(m["db"], "uint32") THEN m["db"]
                                     ELSE Number(MySqlPort)
                    [] k = "passwd" /\ dbGiven -> m["db"]
                    [] OTHER -> kept[k]])

AllocPostgresql(m) ==
    Handle("postgresql",
           Kept(m, ConnKeys \cup {"pamd.schema", "firewalld.schema", "firewalld.notify-channel"}))

-----------------------------------------------------------------------------
\* There is no driver-name, and the process ends, or it is not a scalar, and its
\* text is the null pointer.
Nameless(database) ==
    \/ database.kind # "mapping"
    \/ "driver-name" \notin DOMAIN database.pairs
    \/ ~IsScalar(database.pairs["driver-name"])

\* The name's text is in lower case here; strcasecmp does not mind.
Alloc(m) ==
    LET names(driver) == m["driver-name"] = Word(driver)
    IN CASE names("csvfile") -> AllocCsvfile(m)
         [] names("postgresql") -> AllocPostgresql(m)
         [] names("sqlite3") -> AllocSqlite3(m)
         [] names("mysql") -> AllocMysql(m)
         [] OTHER -> NoHandle
=============================================================================
