----------------------------- MODULE PamHelper -----------------------------
(***************************************************************************)
(* The socket between the PAM helper, pam-daemon/iptracking-pam-callback.c *)
(* and the event thread of the PAM daemon: the helper connects and sends   *)
(* one record, in one piece or several, and starts again when the          *)
(* connection is reset; the event thread takes the connections one by one, *)
(* reads a record's length and pushes the record if it is valid.           *)
(*                                                                         *)
(* Each login has a helper process of its own.  A record is as many pieces *)
(* as the kernel may take separately.                                      *)
(***************************************************************************)
EXTENDS Naturals, Sequences

CONSTANTS
    Helpers,
    Parts,         \* pieces of a record
    LongNames,     \* sets of helpers to choose those with a long name from
    Garbled,       \* a record some of whose pieces are not what the helper meant
    NoHelper,
    Capacity,      \* records the queue has room for
    MaxShort       \* reads that a signal cuts short

ASSUME PamHelperAssumption ==
    /\ Parts \in Nat \ {0}
    /\ LongNames \subseteq SUBSET Helpers
    /\ Garbled \notin Helpers /\ NoHelper \notin Helpers
    /\ Capacity \in Nat \ {0}
    /\ MaxShort \in Nat

VARIABLES
    long,          \* the helpers whose user's name is as long as its field, or longer
    helper,        \* "connect", "send", or how it ended: "sent", "failed", "expired"
    left,          \* data_buffer_len, in pieces
    advanced,      \* data_buffer_ptr is no longer &data_buffer
    conn,          \* the helper's connection: "none", "open", "closed" by the daemon
    wire,          \* the pieces sent over it
    backlog,       \* connections not accepted yet
    reading,       \* the helper whose connection the event thread has accepted
    at_close,      \* it has read from it, and is about to close it
    short,         \* reads cut short so far
    queue          \* the event queue

socket == <<conn, wire, backlog>>
thread == <<reading, at_close, short, queue>>
helperVars == <<long, helper, left, advanced, socket, thread>>

HelperInit ==
    /\ long \in LongNames
    /\ helper = [h \in Helpers |-> "connect"]
    /\ left = [h \in Helpers |-> Parts]
    /\ advanced = [h \in Helpers |-> FALSE]
    /\ conn = [h \in Helpers |-> "none"]
    /\ wire = [h \in Helpers |-> <<>>]
    /\ backlog = <<>>
    /\ reading = NoHelper /\ at_close = FALSE
    /\ short = 0
    /\ queue = <<>>

-----------------------------------------------------------------------------
(* The helper.                                                             *)

Becomes(h, l) == helper' = [helper EXCEPT ![h] = l]

\* connect() succeeds; until it does the helper tries again.
HelperConnects(h) ==
    /\ helper[h] = "connect"
    /\ Becomes(h, "send")
    /\ conn' = [conn EXCEPT ![h] = "open"]
    /\ wire' = [wire EXCEPT ![h] = <<>>]
    /\ backlog' = Append(backlog, h)
    /\ UNCHANGED <<long, left, advanced, thread>>

\* send() takes n pieces.  data_buffer_ptr is a pointer to records: adding n bytes
\* to it takes it n records further, and what follows is not the record.
HelperSends(h) ==
    /\ helper[h] = "send" /\ conn[h] = "open"
    /\ \E n \in 1..left[h] :
          /\ wire' = [wire EXCEPT ![h] = @ \o [k \in 1..n |-> IF advanced[h] THEN "bad" ELSE "good"]]
          /\ left' = [left EXCEPT ![h] = @ - n]
    /\ advanced' = [advanced EXCEPT ![h] = TRUE]
    /\ UNCHANGED <<long, helper, conn, backlog, thread>>

\* ECONNRESET: the record is sent all over again over a new connection.
HelperIsReset(h) ==
    /\ helper[h] = "send" /\ conn[h] = "closed" /\ left[h] > 0
    /\ Becomes(h, "connect")
    /\ left' = [left EXCEPT ![h] = Parts]
    /\ advanced' = [advanced EXCEPT ![h] = FALSE]
    /\ UNCHANGED <<long, socket, thread>>

\* Another error, or SIGPIPE, or there is no memory where the pointer points.
HelperFails(h) ==
    /\ helper[h] = "send" /\ left[h] > 0
    /\ conn[h] = "closed" \/ advanced[h]
    /\ Becomes(h, "failed")
    /\ UNCHANGED <<long, left, advanced, socket, thread>>

HelperFinishes(h) ==
    /\ helper[h] = "send" /\ left[h] = 0
    /\ Becomes(h, "sent")
    /\ UNCHANGED <<long, left, advanced, socket, thread>>

\* The alarm: socket_timeout_handler exits, after the last send() as well.
HelperExpires(h) ==
    /\ helper[h] \in {"connect", "send"}
    /\ Becomes(h, "expired")
    /\ UNCHANGED <<long, left, advanced, socket, thread>>

HelperStep == \E h \in Helpers : \/ HelperConnects(h) \/ HelperSends(h) \/ HelperIsReset(h)
                                 \/ HelperFails(h) \/ HelperFinishes(h) \/ HelperExpires(h)

-----------------------------------------------------------------------------
(* The event thread.                                                       *)

ThreadAccepts ==
    /\ reading = NoHelper
    /\ backlog # <<>>
    /\ reading' = Head(backlog)
    /\ backlog' = Tail(backlog)
    /\ UNCHANGED <<long, helper, left, advanced, conn, wire, at_close, short, queue>>

Record(h) == IF \A k \in DOMAIN wire[h] : wire[h][k] = "good" THEN h ELSE Garbled

\* log_data_is_valid: strncpy leaves a long name without its end, and what is in a
\* garbled record nobody knows.
Validity(r) == IF r = Garbled THEN BOOLEAN ELSE {r \notin long}

\* The read returns with the record's length.  A valid record is pushed, and a push
\* into a full queue waits; another one is dropped.
ThreadReceives ==
    /\ reading # NoHelper /\ ~at_close
    /\ Len(wire[reading]) = Parts
    /\ LET r == Record(reading)
       IN \E valid \in Validity(r) :
             IF valid THEN Len(queue) < Capacity /\ queue' = Append(queue, r) ELSE UNCHANGED queue
    /\ at_close' = TRUE
    /\ UNCHANGED <<long, helper, left, advanced, socket, reading, short>>

\* Mutant: what has been read is taken for a record.
ThreadReadsShort_Pushed ==
    /\ reading # NoHelper /\ ~at_close
    /\ wire[reading] # <<>>
    /\ Len(queue) < Capacity /\ queue' = Append(queue, Record(reading))
    /\ at_close' = TRUE
    /\ short' = short + 1
    /\ UNCHANGED <<long, helper, left, advanced, socket, reading>>

\* The read returns with less, because the helper has ended or a signal has been
\* handled: whatever arrives from now on is discarded.
ThreadReadsShort ==
    /\ reading # NoHelper /\ ~at_close
    /\ Len(wire[reading]) < Parts
    /\ \/ helper[reading] \in {"failed", "expired"} /\ UNCHANGED short
       \/ short < MaxShort /\ short' = short + 1
    /\ at_close' = TRUE
    /\ UNCHANGED <<long, helper, left, advanced, socket, reading, queue>>

ThreadCloses ==
    /\ at_close
    /\ conn' = [conn EXCEPT ![reading] = "closed"]
    /\ reading' = NoHelper
    /\ at_close' = FALSE
    /\ UNCHANGED <<long, helper, left, advanced, wire, backlog, short, queue>>

ThreadStep == ThreadAccepts \/ ThreadReceives \/ ThreadReadsShort \/ ThreadCloses

=============================================================================
