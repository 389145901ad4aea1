----------------------------- MODULE EventPath -----------------------------
(***************************************************************************)
(* The way of an event from the login to the row in the database: the      *)
(* helpers and the event thread of PamHelper put events into the queue,    *)
(* the database thread of DbSession takes them out and logs them.          *)
(***************************************************************************)
EXTENDS DbSession, PamHelper, Functions

VARIABLE handed   \* the events popped so far: DbSession's n-th event is handed[n]

pathVars == <<vars, helperVars, handed>>

PathInit == Init /\ HelperInit /\ handed = <<>>

\* log_queue_pop, then db_log_one_event.
Logs ==
    /\ queue # <<>>
    /\ LogStep
    /\ handed' = Append(handed, Head(queue))
    /\ queue' = Tail(queue)
    /\ UNCHANGED <<long, helper, left, advanced, socket, reading, at_close, short>>

PathNext ==
    \/ (HelperStep \/ ThreadStep) /\ UNCHANGED <<vars, handed>>
    \/ Logs
    \/ (OpenStep \/ Close \/ ServerLost \/ ServerBack) /\ UNCHANGED <<helperVars, handed>>

PathSpec == PathInit /\ [][PathNext]_pathVars

\* The database thread tries again for as long as it has to, the server comes back,
\* and a server that is there does not refuse the query for ever.  Nothing is asked
\* of the helpers and the event thread.
FairPathSpec ==
    PathSpec /\ WF_pathVars(OpenStep /\ UNCHANGED <<helperVars, handed>>)
             /\ SF_pathVars(OpenSucceeds /\ UNCHANGED <<helperVars, handed>>)
             /\ WF_pathVars(ServerBack /\ UNCHANGED <<helperVars, handed>>)

-----------------------------------------------------------------------------
\* The events that have come as far as the queue.
Arrived == handed \o queue

\* However often a helper starts again, its login is recorded once at most, whole or
\* not, and only if all of the record has been sent: each event that arrived is what
\* one helper sent, and no two are of the same helper
\* (iptracking-pam-callback.c:204-232, iptracking-pamd.c:221-236).
RecordedOnce ==
    \E of \in [1..Len(Arrived) -> Helpers] :
        /\ IsInjective(of)
        /\ \A i \in 1..Len(Arrived) : /\ Arrived[i] = Record(of[i])
                                      /\ left[of[i]] = 0 /\ helper[of[i]] # "failed"

\* The rows of the database.
Rows == [i \in DOMAIN stored |-> handed[stored[i]]]

Log == INSTANCE LoginLog WITH
    Logins <- Helpers,
    sent   <- {h \in Helpers : left[h] = 0},
    log    <- Rows

\* From the login to the row: no login has two rows, none has one before its helper
\* has sent all of it, and no row is ever changed or taken away, whatever is reset,
\* cut short, refused or lost on the way.
ImplementsLoginLog == Log!Spec
=============================================================================
