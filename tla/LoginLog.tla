------------------------------ MODULE LoginLog ------------------------------
(***************************************************************************)
(* What the PAM helper and the PAM daemon promise together to who reads    *)
(* the log: rows are only ever added, each row is of a login whose record  *)
(* had been sent by then, and no login has two rows.  Sockets, threads,    *)
(* the queue, the driver and its server do not appear.  EventPath is shown *)
(* to implement this module.                                               *)
(***************************************************************************)
EXTENDS SequencesExt

CONSTANTS Logins,
          Garbled    \* a row that is not what the helper meant

VARIABLES sent,      \* logins with nothing left to send
          log        \* the rows, oldest first

\* The rows are of some of the logins: each of one login, and no two of the same.
RowsOf(rows, logins) ==
    \E of \in [1..Len(rows) -> logins] :
        IsInjective(of) /\ \A i \in 1..Len(rows) : rows[i] \in {of[i], Garbled}

Init == sent = {} /\ log = <<>>

Send(l) == /\ l \notin sent
           /\ sent' = sent \cup {l}
           /\ UNCHANGED log

\* Rows that a driver has held back are written together.
Record == /\ IsPrefix(log, log') /\ log' # log
          /\ RowsOf(log', sent)
          /\ UNCHANGED sent

Next == (\E l \in Logins : Send(l)) \/ Record

Spec == Init /\ [][Next]_<<sent, log>>
=============================================================================
