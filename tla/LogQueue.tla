------------------------------ MODULE LogQueue ------------------------------
(***************************************************************************)
(* The in-memory event queue of the PAM daemon, pam-daemon/log_queue.c.    *)
(*                                                                         *)
(* The queue object holds a mutex, a condition variable, two record counts *)
(* and the list of used records; records come from pools that are never    *)
(* given back.  Adding a pool reallocates the queue object, so the object, *)
(* and with it the mutex and the condition variable, may move while other  *)
(* threads hold its old address.  The lists themselves are sequences here; *)
(* module RecordLists has the pointers.                                    *)
(***************************************************************************)
EXTENDS Integers, Sequences

CONSTANTS
    Pushers,       \* threads that call log_queue_push
    Poppers,       \* threads that call log_queue_pop
    Interrupters,  \* threads that call log_queue_interrupt_pop
    NoThread,      \* "the mutex is free"
    Events,        \* log_data_t values
    NoEvent,       \* a log_data_t nobody has written yet
    RecMin, RecMax, RecDelta,                 \* params.records
    WaitMin, WaitMax, WaitDelta, WaitThresh,  \* params.push_wait_seconds
    UIntMax,       \* UINT32_MAX
    InPlacePools   \* number of pools realloc() can list without moving the object

Threads == Pushers \cup Poppers \cup Interrupters

ASSUME ThreadsAssumption ==
    /\ Pushers \cap Poppers = {}
    /\ Pushers \cap Interrupters = {}
    /\ Poppers \cap Interrupters = {}
    /\ NoThread \notin Threads

\* The sizes are uint32_t values that config_validate let through.
ASSUME RecordsAssumption ==
    /\ UIntMax \in Nat \ {0}
    /\ RecMin \in 0..UIntMax
    /\ RecMax \in 0..UIntMax
    /\ RecDelta \in 0..UIntMax
    /\ RecMax # 0 => RecMin =< RecMax
    /\ InPlacePools \in Nat

\* The waits are int values that config_validate let through: it does not mind
\* negative ones.
ASSUME WaitAssumption ==
    /\ WaitMin \in Int /\ WaitMax \in Int /\ WaitDelta \in Int /\ WaitThresh \in Int
    /\ WaitMax # 0 => WaitMin =< WaitMax

VARIABLES
    lq,           \* address of the queue object; a move takes the next number
    owner,        \* holder of the mutex in the object at lq
    n_rec_free, n_rec_used, n_rec_pools,
    used,         \* the events on the used list, head first
    pc,           \* what each thread is about to do
    at,           \* the address under which each thread reached the object
    data,         \* *data of each thread's call
    rc,           \* result of each thread's call
    wait_sec, n_waits  \* locals of log_queue_push

object == <<lq, owner, n_rec_free, n_rec_used, n_rec_pools, used>>
locals == <<at, data, rc, wait_sec, n_waits>>
vars == <<object, pc, locals>>

Init ==
    /\ lq = 0
    /\ owner = NoThread
    /\ n_rec_free = 0 /\ n_rec_used = 0 /\ n_rec_pools = 0
    /\ used = <<>>
    /\ pc = [t \in Threads |-> "idle"]
    /\ at = [t \in Threads |-> 0]
    /\ data = [t \in Pushers \cup Poppers |-> NoEvent]
    /\ rc = [t \in Pushers \cup Poppers |-> FALSE]
    /\ wait_sec = [p \in Pushers |-> WaitMin]
    /\ n_waits = [p \in Pushers |-> 1]

-----------------------------------------------------------------------------
(* The mutex and the condition variable.                                   *)

Goto(t, l) == pc' = [pc EXCEPT ![t] = l]

\* A call evaluates (*lq)->lock before it owns the lock.
Enter(t, l) == /\ pc[t] = "idle"
               /\ Goto(t, l)
               /\ at' = [at EXCEPT ![t] = lq]

\* The bytes a moved object leaves behind show a mutex that was held during
\* the move and that nobody will unlock: only the object at lq can be locked.
Lock(t, from, to) == /\ pc[t] = from
                     /\ at[t] = lq
                     /\ owner = NoThread
                     /\ owner' = t
                     /\ Goto(t, to)

\* Likewise a broadcast reaches those who wait in the object at lq.
Waiting == {c \in Poppers : pc[c] = "pop_wait" /\ at[c] = lq}

Broadcast(t, from, to) ==
    /\ pc[t] = from
    /\ pc' = [u \in Threads |-> IF u = t THEN to
                                ELSE IF u \in Waiting THEN "pop_relock"
                                ELSE pc[u]]

-----------------------------------------------------------------------------
(* Records.                                                                *)

Limit == IF RecMax = 0 THEN UIntMax ELSE RecMax

\* uint32_t subtraction
Room == LET d == Limit - (n_rec_free + n_rec_used)
        IN IF d < 0 THEN d + UIntMax + 1 ELSE d

AtLimit == n_rec_pools # 0 /\ Room = 0

\* Mutants: a batch that does not fit is left out; no cap at the limit.
PoolSize_WholeBatch == IF n_rec_pools = 0 THEN RecMin
                       ELSE IF Room >= RecDelta THEN RecDelta ELSE 0
PoolSize_NoCap == IF n_rec_pools = 0 THEN RecMin ELSE RecDelta

PoolSize == IF n_rec_pools = 0 THEN RecMin
            ELSE IF Room > RecDelta THEN RecDelta ELSE Room

\* memcpy into a record that is now the tail of the used list.
Store(p, free) ==
    /\ n_rec_free' = free - 1
    /\ n_rec_used' = n_rec_used + 1
    /\ used' = Append(used, data[p])
    /\ rc' = [rc EXCEPT ![p] = TRUE]
    /\ Goto(p, "push_broadcast")

-----------------------------------------------------------------------------
(* log_queue_push                                                          *)

PushCall(p, e) ==
    /\ Enter(p, "push_lock")
    /\ data' = [data EXCEPT ![p] = e]
    /\ rc' = [rc EXCEPT ![p] = FALSE]
    /\ wait_sec' = [wait_sec EXCEPT ![p] = WaitMin]
    /\ n_waits' = [n_waits EXCEPT ![p] = 1]
    /\ UNCHANGED object

PushLock(p) ==
    /\ Lock(p, "push_lock", "push_alloc")
    /\ UNCHANGED <<lq, n_rec_free, n_rec_used, n_rec_pools, used, locals>>

PushReuse(p) ==
    /\ pc[p] = "push_alloc"
    /\ n_rec_free > 0
    /\ Store(p, n_rec_free)
    /\ UNCHANGED <<lq, owner, n_rec_pools, at, data, wait_sec, n_waits>>

\* The mover still owns the mutex of the object's new place.
PushGrow(p) ==
    /\ pc[p] = "push_alloc"
    /\ n_rec_free = 0
    /\ ~AtLimit
    /\ PoolSize > 0
    /\ n_rec_pools' = n_rec_pools + 1
    /\ \/ UNCHANGED <<lq, at>>
       \/ /\ n_rec_pools' > InPlacePools
          /\ lq' = lq + 1
          /\ at' = [at EXCEPT ![p] = lq + 1]
    /\ Store(p, n_rec_free + PoolSize)
    /\ UNCHANGED <<owner, data, wait_sec, n_waits>>

\* A pool of no records leaves free_head NULL, and new_rec->link faults.
PushFault(p) ==
    /\ pc[p] = "push_alloc"
    /\ n_rec_free = 0
    /\ ~AtLimit
    /\ PoolSize = 0
    /\ Goto(p, "fault")
    /\ UNCHANGED <<object, locals>>

\* calloc() or realloc() returned NULL: *lq keeps its value.
PushNoMemory(p) ==
    /\ pc[p] = "push_alloc"
    /\ n_rec_free = 0
    /\ ~AtLimit
    /\ Goto(p, "push_unlock")
    /\ UNCHANGED <<object, locals>>

\* Mutant: giving up at the limit.
PushAtLimit_GivesUp(p) ==
    /\ pc[p] = "push_alloc" /\ n_rec_free = 0 /\ AtLimit
    /\ Goto(p, "push_unlock")
    /\ UNCHANGED <<object, locals>>

PushAtLimit(p) ==
    /\ pc[p] = "push_alloc"
    /\ n_rec_free = 0
    /\ AtLimit
    /\ owner' = NoThread
    /\ Goto(p, "push_sleep")
    /\ UNCHANGED <<lq, n_rec_free, n_rec_used, n_rec_pools, used, locals>>

\* Mutant: the longest wait is forgotten.
LongerWait_NoMax(w) == w + WaitDelta

LongerWait(w) == IF w + WaitDelta > WaitMax THEN WaitMax ELSE w + WaitDelta

\* Mutant: the loop goes on without taking the mutex again.
PushSleep_NoRelock(p) ==
    /\ pc[p] = "push_sleep"
    /\ Goto(p, "push_alloc")
    /\ UNCHANGED <<object, locals>>

\* sleep(wait_sec) is over.
PushSleep(p) ==
    /\ pc[p] = "push_sleep"
    /\ IF n_waits[p] >= WaitThresh
       THEN /\ wait_sec' = [wait_sec EXCEPT ![p] = LongerWait(@)]
            /\ n_waits' = [n_waits EXCEPT ![p] = 0]
       ELSE /\ n_waits' = [n_waits EXCEPT ![p] = @ + 1]
            /\ UNCHANGED wait_sec
    /\ at' = [at EXCEPT ![p] = lq]
    /\ Goto(p, "push_lock")
    /\ UNCHANGED <<object, data, rc>>

\* Mutant: nobody is told.
PushBroadcast_None(p) ==
    /\ pc[p] = "push_broadcast"
    /\ Goto(p, "push_unlock")
    /\ UNCHANGED <<object, locals>>

PushBroadcast(p) ==
    /\ Broadcast(p, "push_broadcast", "push_unlock")
    /\ UNCHANGED <<object, locals>>

Unlock(t, from) ==
    /\ pc[t] = from
    /\ owner' = NoThread
    /\ Goto(t, "idle")
    /\ UNCHANGED <<lq, n_rec_free, n_rec_used, n_rec_pools, used, locals>>

PushUnlock(p) == Unlock(p, "push_unlock")

-----------------------------------------------------------------------------
(* log_queue_pop                                                           *)

PopCall(c) ==
    /\ Enter(c, "pop_lock")
    /\ rc' = [rc EXCEPT ![c] = FALSE]
    /\ UNCHANGED <<object, data, wait_sec, n_waits>>

PopLock(c) ==
    /\ Lock(c, "pop_lock", "pop_check")
    /\ UNCHANGED <<lq, n_rec_free, n_rec_used, n_rec_pools, used, locals>>

PopWait(c) ==
    /\ pc[c] = "pop_check"
    /\ used = <<>>
    /\ owner' = NoThread
    /\ Goto(c, "pop_wait")
    /\ UNCHANGED <<lq, n_rec_free, n_rec_used, n_rec_pools, used, locals>>

\* pthread_cond_wait may return without a broadcast.
PopSpurious(c) ==
    /\ c \in Waiting
    /\ Goto(c, "pop_relock")
    /\ UNCHANGED <<object, locals>>

PopRelock(c) ==
    /\ Lock(c, "pop_relock", "pop_woken")
    /\ UNCHANGED <<lq, n_rec_free, n_rec_used, n_rec_pools, used, locals>>

\* The head of the used list is copied out and goes to the free list.
PopTake(c) ==
    /\ pc[c] \in {"pop_check", "pop_woken"}
    /\ used # <<>>
    /\ data' = [data EXCEPT ![c] = Head(used)]
    /\ rc' = [rc EXCEPT ![c] = TRUE]
    /\ used' = Tail(used)
    /\ n_rec_free' = n_rec_free + 1
    /\ n_rec_used' = n_rec_used - 1
    /\ Goto(c, "pop_unlock")
    /\ UNCHANGED <<lq, owner, n_rec_pools, at, wait_sec, n_waits>>

\* Woken by an interrupt, by nothing, or after another thread's pop.
PopNothing(c) ==
    /\ pc[c] = "pop_woken"
    /\ used = <<>>
    /\ Goto(c, "pop_unlock")
    /\ UNCHANGED <<object, locals>>

PopUnlock(c) == Unlock(c, "pop_unlock")

-----------------------------------------------------------------------------
(* log_queue_interrupt_pop                                                 *)

InterruptCall(i) ==
    /\ Enter(i, "int_lock")
    /\ UNCHANGED <<object, data, rc, wait_sec, n_waits>>

InterruptLock(i) ==
    /\ Lock(i, "int_lock", "int_broadcast")
    /\ UNCHANGED <<lq, n_rec_free, n_rec_used, n_rec_pools, used, locals>>

InterruptBroadcast(i) ==
    /\ Broadcast(i, "int_broadcast", "int_unlock")
    /\ UNCHANGED <<object, locals>>

InterruptUnlock(i) == Unlock(i, "int_unlock")

-----------------------------------------------------------------------------
PushStep(p) == \/ PushLock(p) \/ PushReuse(p) \/ PushGrow(p) \/ PushFault(p)
               \/ PushNoMemory(p) \/ PushAtLimit(p) \/ PushSleep(p)
               \/ PushBroadcast(p) \/ PushUnlock(p)

PopStep(c) == \/ PopLock(c) \/ PopWait(c) \/ PopRelock(c)
              \/ PopTake(c) \/ PopNothing(c) \/ PopUnlock(c)

InterruptStep(i) == \/ InterruptLock(i) \/ InterruptBroadcast(i) \/ InterruptUnlock(i)

\* A segmentation fault ends the process.
Alive == \A t \in Threads : pc[t] # "fault"

Next == /\ Alive
        /\ \/ \E p \in Pushers : PushStep(p) \/ \E e \in Events : PushCall(p, e)
           \/ \E c \in Poppers : PopStep(c) \/ PopCall(c) \/ PopSpurious(c)
           \/ \E i \in Interrupters : InterruptStep(i) \/ InterruptCall(i)

Spec == Init /\ [][Next]_vars

\* A thread that can run does run.  A thread that finds the mutex held sleeps in
\* the kernel and is woken by each unlock, so it is not passed over for ever.
\* The database thread calls log_queue_pop again after each call.
FairSpec ==
    /\ Spec
    /\ \A p \in Pushers : WF_vars(PushStep(p)) /\ SF_vars(PushLock(p))
    /\ \A c \in Poppers : /\ WF_vars(PopStep(c) \/ PopCall(c))
                          /\ SF_vars(PopLock(c)) /\ SF_vars(PopRelock(c))
    /\ \A i \in Interrupters : WF_vars(InterruptStep(i)) /\ SF_vars(InterruptLock(i))

-----------------------------------------------------------------------------
(* Properties.                                                             *)

PushCritical == {"push_alloc", "push_broadcast", "push_unlock"}
PopCritical == {"pop_check", "pop_woken", "pop_unlock"}
IntCritical == {"int_broadcast", "int_unlock"}
Critical == PushCritical \cup PopCritical \cup IntCritical

PushLabels == PushCritical \cup {"idle", "push_lock", "push_sleep", "fault"}
PopLabels == PopCritical \cup {"idle", "pop_lock", "pop_wait", "pop_relock"}
IntLabels == IntCritical \cup {"idle", "int_lock"}

Items == Events \cup {NoEvent}

\* Every variable has its type: the counters are uint32_t values and each
\* thread is at a label of the function it calls.
TypeOK ==
    /\ lq \in Nat
    /\ owner \in Threads \cup {NoThread}
    /\ n_rec_free \in 0..UIntMax /\ n_rec_used \in 0..UIntMax
    /\ n_rec_pools \in Nat
    /\ used \in Seq(Items)
    /\ pc \in [Threads -> PushLabels \cup PopLabels \cup IntLabels]
    /\ \A p \in Pushers : pc[p] \in PushLabels
    /\ \A c \in Poppers : pc[c] \in PopLabels
    /\ \A i \in Interrupters : pc[i] \in IntLabels
    /\ at \in [Threads -> Nat]
    /\ data \in [Pushers \cup Poppers -> Items]
    /\ rc \in [Pushers \cup Poppers -> BOOLEAN]
    /\ wait_sec \in [Pushers -> Int]
    /\ n_waits \in [Pushers -> Nat]

\* The mutex protects the lists although the object that holds it moves: a
\* thread between lock and unlock owns the mutex and works on the object at lq,
\* and nobody else does; and no way out of a call leaves the mutex locked, so that
\* who waits for it waits for a thread that waits for nothing (log_queue.c:269-295,
\* 310-321, with the realloc at 73).
MutualExclusion ==
    \A t \in Threads : /\ pc[t] \in Critical => owner = t /\ at[t] = lq
                       /\ owner = t => pc[t] \in Critical \cup {"fault"}

\* The counts describe the lists, and free and used records together never
\* exceed the configured limit, or UINT32_MAX when there is none: the unsigned
\* subtraction at log_queue.c:112-116 does not wrap.
RecordsBounded ==
    /\ n_rec_used = Len(used)
    /\ n_rec_free + n_rec_used =< Limit

\* The first pool brings the first record.
PoolsCounted == n_rec_pools = 0 => n_rec_free = 0 /\ n_rec_used = 0

\* A call that has not ended has no success to report.
ResultPending ==
    /\ \A p \in Pushers : pc[p] \in {"push_lock", "push_alloc", "push_sleep", "fault"} => ~rc[p]
    /\ \A c \in Poppers : pc[c] \in PopLabels \ {"idle", "pop_unlock"} => ~rc[c]

\* What every step preserves: the safety properties and what they rest on.
IInv == TypeOK /\ MutualExclusion /\ RecordsBounded /\ PoolsCounted /\ ResultPending

\* No wakeup is lost: while the queue holds an event, a thread sleeps in
\* pthread_cond_wait on the present object only if the pusher that queued the
\* event still holds the mutex and is about to broadcast (log_queue.c:293, 311-313).
NoLostWakeup ==
    (used # <<>> /\ Waiting # {}) => \E p \in Pushers : pc[p] = "push_broadcast"

\* The time a pusher sleeps stays between the configured bounds for as long as
\* the call is retried (log_queue.c:279-285), unless the upper bound is zero or
\* the increment negative, which config_validate lets through.
WaitBounded ==
    (WaitMax # 0 /\ WaitDelta >= 0) => \A p \in Pushers : WaitMin =< wait_sec[p] /\ wait_sec[p] =< WaitMax

\* A push never dereferences the empty free list: unless the configured sizes are
\* zero, which config_validate lets through, a pool that is added below the limit
\* has a record for it (log_queue.c:106-131).
NoFault == (RecMin > 0 /\ RecDelta > 0) => Alive

Status(t) ==
    CASE pc[t] = "idle" -> "idle"
      [] pc[t] \in {"push_broadcast", "push_unlock", "pop_unlock"} ->
            IF rc[t] THEN "done" ELSE "failed"
      [] OTHER -> "pending"

Calls == [t \in Pushers \cup Poppers |-> Status(t)]

Queue == INSTANCE EventQueue WITH
    Capacity <- Limit,
    queue    <- used,
    call     <- Calls,
    item     <- data

\* The queue is what log_queue.h promises: events come out once each, in the
\* order they went in, a push fails only for lack of memory and blocks at the
\* limit, and a pop gives up only when the queue is empty.
ImplementsEventQueue == Queue!Spec

\* ... and, under fairness, a pop that is under way while an event is queued
\* gets one.
ImplementsFairEventQueue == Queue!FairSpec

\* log_queue_pop blocks until an event has been added, and no longer.
BlockedPopReturns ==
    \A c \in Poppers : (pc[c] = "pop_wait" /\ used # <<>>) ~> (pc[c] = "idle")
=============================================================================
