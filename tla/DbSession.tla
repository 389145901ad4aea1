----------------------------- MODULE DbSession -----------------------------
(***************************************************************************)
(* The open, log and close operations of the four database drivers, as the *)
(* database thread of the PAM daemon calls them through db_interface.c.    *)
(* The server (for SQLite3 and CSV: the file system) can be out of reach,  *)
(* refuse the logging query, lose a session, and lose an answer.           *)
(***************************************************************************)
EXTENDS Naturals, Sequences

CONSTANTS
    Drivers,     \* the drivers to choose from
    MaxEvents,   \* events the thread ever pops
    MaxOutages   \* times the server goes out of reach

ASSUME DbSessionAssumption ==
    /\ Drivers \subseteq {"postgresql", "mysql", "sqlite3", "csvfile"}
    /\ MaxEvents \in Nat /\ MaxOutages \in Nat

VARIABLES
    driver,
    phase,      \* where db_runloop is: "opening", "serving", "closed"
    handle,     \* db_conn, is_connected or fptr: "none", or a handle that is
                \* "live" or "dead" (never connected, or its session is lost)
    query,      \* is the logging query prepared?
    sessions,   \* sessions the server holds for this process
    reachable,  \* does the server answer?
    outages,
    popped,     \* events popped so far; they are numbered
    reported,   \* events whose logging returned true
    stored,     \* rows in the database, oldest first
    buffered    \* lines a CSV file's stream has not been able to write yet

answers == <<popped, reported, stored, buffered>>
server == <<reachable, outages>>
vars == <<driver, phase, handle, query, sessions, server, answers>>

Init ==
    /\ driver \in Drivers
    /\ phase = "opening"
    /\ handle = "none" /\ query = FALSE /\ sessions = 0
    /\ reachable \in BOOLEAN
    /\ outages = 0
    /\ popped = 0 /\ reported = {} /\ stored = <<>> /\ buffered = <<>>

-----------------------------------------------------------------------------
(* db_open                                                                 *)

\* db_open returns true, and db_runloop goes on.
Opened == phase' = "serving" /\ UNCHANGED <<driver, server, answers>>

\* db_open returns false; db_runloop sleeps five seconds and calls it again.
Refused == UNCHANGED <<driver, phase, server, answers>>

Closed(n) == handle' = "none" /\ query' = FALSE /\ sessions' = n

\* Mutant: a handle that is there already is taken for a failure.
OpenAgain_Fails ==
    /\ phase = "opening"
    /\ handle # "none"
    /\ Refused
    /\ UNCHANGED <<handle, query, sessions>>

\* There is a handle already.
OpenAgain ==
    /\ phase = "opening"
    /\ handle # "none"
    /\ Opened
    /\ UNCHANGED <<handle, query, sessions>>

\* Connected, and the logging query prepared; a CSV file has none.
OpenSucceeds ==
    /\ phase = "opening" /\ handle = "none" /\ reachable
    /\ handle' = "live"
    /\ query' = (driver # "csvfile")
    /\ sessions' = sessions + 1
    /\ Opened

\* Not connected.  A bad PGconn fails at PQprepare and is finished; a
\* sqlite3* stays in db_conn.
ConnectFails ==
    /\ phase = "opening" /\ handle = "none" /\ ~reachable
    /\ handle' = IF driver = "sqlite3" THEN "dead" ELSE "none"
    /\ UNCHANGED <<query, sessions>>
    /\ Refused

\* Mutants: the connection is kept, as the SQLite3 driver does; mysql_close is
\* not called.
PrepareFails_Kept ==
    /\ phase = "opening" /\ handle = "none" /\ reachable /\ driver # "csvfile"
    /\ handle' = "live" /\ sessions' = sessions + 1 /\ UNCHANGED query
    /\ Refused
PrepareFails_NotClosed ==
    /\ phase = "opening" /\ handle = "none" /\ reachable /\ driver # "csvfile"
    /\ IF driver = "sqlite3" THEN handle' = "live" /\ UNCHANGED query /\ sessions' = sessions + 1
       ELSE Closed(IF driver = "mysql" THEN sessions + 1 ELSE sessions)
    /\ Refused

\* Connected, but the query is refused: the connection is closed, except by
\* the SQLite3 driver.
PrepareFails ==
    /\ phase = "opening" /\ handle = "none" /\ reachable /\ driver # "csvfile"
    /\ IF driver = "sqlite3"
       THEN handle' = "live" /\ sessions' = sessions + 1 /\ UNCHANGED query
       ELSE Closed(sessions)
    /\ Refused

-----------------------------------------------------------------------------
(* db_log_one_event                                                        *)

\* What each driver looks at before it tries.
Tries == IF driver = "sqlite3" THEN handle # "none" /\ query ELSE handle # "none"

Pops == /\ phase = "serving"
        /\ popped < MaxEvents
        /\ popped' = popped + 1
        /\ UNCHANGED <<driver, phase, handle, query, sessions, server>>

\* What the stream still holds is written first.
LogSucceeds ==
    /\ Pops
    /\ Tries /\ handle = "live" /\ reachable
    /\ stored' = stored \o Append(buffered, popped')
    /\ buffered' = <<>>
    /\ reported' = reported \cup {popped'}

\* Mutant: the status of the result is not looked at.
LogFails_Unnoticed ==
    /\ Pops
    /\ reported' = reported \cup {popped'}
    /\ UNCHANGED <<stored, buffered>>

\* The driver does not try, or the server refuses or is gone.
LogFails ==
    /\ Pops
    /\ UNCHANGED <<stored, reported, buffered>>

\* The row is stored and the connection lost before the answer arrives.
LogAnswerLost ==
    /\ driver \in {"postgresql", "mysql"}
    /\ Pops
    /\ Tries /\ handle = "live" /\ reachable
    /\ stored' = Append(stored, popped')
    /\ UNCHANGED <<reported, buffered>>

\* The line is in the stream's buffer, and the result of fflush is ignored.
LogNotFlushed ==
    /\ driver = "csvfile"
    /\ Pops
    /\ Tries /\ ~reachable
    /\ reported' = reported \cup {popped'}
    /\ buffered' = Append(buffered, popped')
    /\ UNCHANGED stored

-----------------------------------------------------------------------------
(* db_close, the end of db_runloop, and the server.                        *)

\* Mutant: the file is not written on from its end.
Close_Overwrites ==
    /\ phase \in {"opening", "serving"}
    /\ phase' = "closed"
    /\ Closed(IF handle = "live" THEN sessions - 1 ELSE sessions)
    /\ buffered' = <<>>
    /\ stored' = IF reachable /\ driver = "csvfile" THEN buffered ELSE stored
    /\ UNCHANGED <<driver, server, popped, reported>>

\* fclose writes what the stream still holds, if it can.
Close ==
    /\ phase \in {"opening", "serving"}
    /\ phase' = "closed"
    /\ Closed(IF handle = "live" THEN sessions - 1 ELSE sessions)
    /\ buffered' = <<>>
    /\ stored' = IF reachable THEN stored \o buffered ELSE stored
    /\ UNCHANGED <<driver, server, popped, reported>>

\* A server that goes out of reach forgets its sessions; a file stays open.
ServerLost ==
    /\ reachable
    /\ outages < MaxOutages
    /\ outages' = outages + 1
    /\ reachable' = FALSE
    /\ IF driver \in {"postgresql", "mysql"}
       THEN /\ sessions' = 0
            /\ handle' = IF handle = "live" THEN "dead" ELSE handle
       ELSE UNCHANGED <<sessions, handle>>
    /\ UNCHANGED <<driver, phase, query, answers>>

ServerBack ==
    /\ ~reachable
    /\ reachable' = TRUE
    /\ UNCHANGED <<driver, phase, handle, query, sessions, outages, answers>>

OpenStep == OpenAgain \/ OpenSucceeds \/ ConnectFails \/ PrepareFails

LogStep == LogSucceeds \/ LogFails \/ LogAnswerLost \/ LogNotFlushed

Next == OpenStep \/ LogStep \/ Close \/ ServerLost \/ ServerBack

Spec == Init /\ [][Next]_vars

-----------------------------------------------------------------------------
(* Properties.                                                             *)

\* An event that was reported as logged is in the database, or in the buffer of a
\* CSV file, whose fflush nobody looks at, until that is closed
\* (db_instance_csvfile.c:219); no event is there twice, and none overtakes another.
LoggedIsStored ==
    LET all == stored \o buffered
    IN /\ (driver = "csvfile" /\ phase = "closed") \/ reported \subseteq {all[i] : i \in DOMAIN all}
       /\ \A i, j \in DOMAIN all : i < j => all[i] < all[j]

\* Past a db_open that returned true the logging query is prepared, whatever
\* went wrong before.  The SQLite3 driver is the exception: after a failed open
\* db_conn is set, and the next db_open returns true without a query
\* (db_instance_sqlite3.c:219, 233-237).
OpenMeansPrepared ==
    (phase = "serving" /\ driver \in {"postgresql", "mysql"}) => query

\* However often the connection is tried, the server holds one session at most,
\* that of the handle, and none after db_close (db_instance_postgresql.c:363, db_instance_mysql.c:262).
OneSession ==
    /\ sessions = IF handle = "live" THEN 1 ELSE 0
    /\ phase = "closed" => sessions = 0

\* The loop around db_open ends, when the server is back at the latest
\* (iptracking-pamd.c:61-66).
OpenEnds == (phase = "opening") ~> (phase # "opening")
=============================================================================
