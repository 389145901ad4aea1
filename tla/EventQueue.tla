----------------------------- MODULE EventQueue -----------------------------
(***************************************************************************)
(* What pam-daemon/log_queue.h promises to the threads of the daemon: a    *)
(* first-in first-out queue of PAM events with room for Capacity of them.  *)
(* Records, pools, the mutex and the condition variable do not appear.     *)
(* LogQueue is shown to implement this module.                             *)
(***************************************************************************)
EXTENDS Naturals, Sequences

CONSTANTS Pushers,   \* threads that call log_queue_push
          Poppers,   \* threads that call log_queue_pop
          Events,    \* log_data_t values
          NoEvent,   \* contents of a log_data_t nobody has written yet
          Capacity   \* most events the queue holds

VARIABLES queue,     \* events pushed and not yet popped, oldest first
          call,      \* where each thread is in its current call
          item       \* the log_data_t each thread passes to its call

vars == <<queue, call, item>>

Init == /\ queue = <<>>
        /\ call = [t \in Pushers \cup Poppers |-> "idle"]
        /\ item = [t \in Pushers \cup Poppers |-> NoEvent]

Call(t, e) == /\ call[t] = "idle"
              /\ call' = [call EXCEPT ![t] = "pending"]
              /\ item' = [item EXCEPT ![t] = e]
              /\ UNCHANGED queue

PushCall(p) == \E e \in Events : Call(p, e)

PopCall(c) == Call(c, item[c])

\* The event is in the queue from here on.
Put(p) == /\ call[p] = "pending"
          /\ Len(queue) < Capacity
          /\ queue' = Append(queue, item[p])
          /\ call' = [call EXCEPT ![p] = "done"]
          /\ UNCHANGED item

\* Memory ran out.  A full queue is no reason to give up: the call blocks.
PutFail(p) == /\ call[p] = "pending"
              /\ Len(queue) < Capacity
              /\ call' = [call EXCEPT ![p] = "failed"]
              /\ UNCHANGED <<queue, item>>

Take(c) == /\ call[c] = "pending"
           /\ queue # <<>>
           /\ item' = [item EXCEPT ![c] = Head(queue)]
           /\ queue' = Tail(queue)
           /\ call' = [call EXCEPT ![c] = "done"]

\* Only an empty queue lets a pop come back without an event.
TakeNothing(c) == /\ call[c] = "pending"
                  /\ queue = <<>>
                  /\ call' = [call EXCEPT ![c] = "failed"]
                  /\ UNCHANGED <<queue, item>>

Return(t) == /\ call[t] \in {"done", "failed"}
             /\ call' = [call EXCEPT ![t] = "idle"]
             /\ UNCHANGED <<queue, item>>

Next == \/ \E p \in Pushers : PushCall(p) \/ Put(p) \/ PutFail(p) \/ Return(p)
        \/ \E c \in Poppers : PopCall(c) \/ Take(c) \/ TakeNothing(c) \/ Return(c)

Spec == Init /\ [][Next]_vars

\* An event that is queued while a pop is under way is handed over, and every
\* answered call returns.
FairSpec == /\ Spec
            /\ \A p \in Pushers : WF_vars(Return(p))
            /\ \A c \in Poppers : WF_vars(Take(c)) /\ WF_vars(Return(c))
=============================================================================
