--------------------------- MODULE LogQueueProofs ---------------------------
(***************************************************************************)
(* Proofs about LogQueue for every value of its constants.                 *)
(***************************************************************************)
EXTENDS LogQueue, TLAPS

-----------------------------------------------------------------------------
(* The sizes.                                                              *)

\* The limit is a positive uint32_t value and is never below the first pool.
LEMMA LimitType == Limit \in 1..UIntMax /\ RecMin =< Limit
BY RecordsAssumption DEF Limit

\* Below the limit the unsigned subtraction is the true one, so a new pool
\* never takes the records past the limit.
LEMMA PoolFits ==
    ASSUME TypeOK, RecordsBounded, PoolsCounted
    PROVE  /\ Room = Limit - (n_rec_free + n_rec_used)
           /\ PoolSize \in Nat
           /\ n_rec_free + n_rec_used + PoolSize =< Limit
<1>1. Room = Limit - (n_rec_free + n_rec_used) /\ Room \in Nat
    BY LimitType, RecordsAssumption DEF TypeOK, RecordsBounded, Room
<1>2. CASE n_rec_pools = 0
    BY <1>1, <1>2, LimitType, RecordsAssumption DEF PoolsCounted, PoolSize
<1>3. CASE n_rec_pools # 0
    <2>1. PoolSize \in Nat /\ PoolSize =< Room
        BY <1>1, <1>3, RecordsAssumption DEF PoolSize
    <2> QED
        BY <1>1, <2>1, LimitType DEF TypeOK
<1> QED
    BY <1>1, <1>2, <1>3

\* A push that grows the queue keeps the counts within the limit.
LEMMA GrowStep ==
    ASSUME TypeOK, RecordsBounded, PoolsCounted, NEW p \in Pushers, PushGrow(p)
    PROVE  /\ n_rec_free' \in 0..UIntMax /\ n_rec_used' \in 0..UIntMax
           /\ n_rec_free' + n_rec_used' =< Limit
<1>1. n_rec_free = 0 /\ PoolSize > 0
    BY DEF PushGrow
<1>2. n_rec_free' = (n_rec_free + PoolSize) - 1 /\ n_rec_used' = n_rec_used + 1
    BY DEF PushGrow, Store
<1>3. PoolSize \in Nat /\ n_rec_free + n_rec_used + PoolSize =< Limit
    BY PoolFits
<1>4. n_rec_used \in Nat /\ Limit \in Nat /\ Limit =< UIntMax /\ UIntMax \in Nat
    BY LimitType, RecordsAssumption DEF TypeOK
<1> QED BY <1>1, <1>2, <1>3, <1>4

\* A longer wait is a number of seconds too.
LEMMA LongerWaitType == \A w \in Int : LongerWait(w) \in Int
BY WaitAssumption DEF LongerWait

-----------------------------------------------------------------------------
(* Types.                                                                  *)

\* No step of any thread takes a variable out of its type: in particular the
\* uint32_t counts of records neither wrap nor go below zero.
LEMMA TypeStep ==
    ASSUME TypeOK, RecordsBounded, PoolsCounted, [Next]_vars
    PROVE  TypeOK'
<1> USE ThreadsAssumption, RecordsAssumption, WaitAssumption, LimitType DEF TypeOK, Items, Threads, object, locals,
        PushLabels, PopLabels, IntLabels, PushCritical, PopCritical, IntCritical
<1>1. ASSUME NEW p \in Pushers, PushLock(p) PROVE TypeOK'
    BY <1>1 DEF PushLock, Lock, Goto
<1>2. ASSUME NEW p \in Pushers, PushReuse(p) PROVE TypeOK'
    <2>1. n_rec_free' \in 0..UIntMax /\ n_rec_used' \in 0..UIntMax
        BY <1>2 DEF PushReuse, Store, RecordsBounded
    <2>2. used' \in Seq(Items) /\ rc' \in [Pushers \cup Poppers -> BOOLEAN]
        BY <1>2 DEF PushReuse, Store
    <2> QED
        BY <1>2, <2>1, <2>2 DEF PushReuse, Store, Goto
<1>3. ASSUME NEW p \in Pushers, PushGrow(p) PROVE TypeOK'
    <2>1. n_rec_free' \in 0..UIntMax /\ n_rec_used' \in 0..UIntMax
        BY <1>3, GrowStep DEF PushGrow, RecordsBounded
    <2>2. used' \in Seq(Items) /\ rc' \in [Pushers \cup Poppers -> BOOLEAN]
        BY <1>3 DEF PushGrow, Store
    <2>3. lq' \in Nat /\ n_rec_pools' \in Nat
        BY <1>3 DEF PushGrow
    <2>4. at' = at \/ at' = [at EXCEPT ![p] = lq + 1]
        BY <1>3 DEF PushGrow
    <2>5. at' \in [Threads -> Nat]
        <3>1. CASE at' = at
            BY <3>1
        <3>2. CASE at' = [at EXCEPT ![p] = lq + 1]
            BY <3>2
        <3> QED
            BY <2>4, <3>1, <3>2
    <2> QED
        BY <1>3, <2>1, <2>2, <2>3, <2>5 DEF PushGrow, Store, Goto
<1>4. ASSUME NEW p \in Pushers, PushFault(p) PROVE TypeOK'
    BY <1>4 DEF PushFault, Goto
<1>5. ASSUME NEW p \in Pushers, PushNoMemory(p) PROVE TypeOK'
    BY <1>5 DEF PushNoMemory, Goto
<1>6. ASSUME NEW p \in Pushers, PushAtLimit(p) PROVE TypeOK'
    BY <1>6 DEF PushAtLimit, Goto
<1>7. ASSUME NEW p \in Pushers, PushSleep(p) PROVE TypeOK'
    <2>1. wait_sec' \in [Pushers -> Int] /\ n_waits' \in [Pushers -> Nat]
        <3>1. CASE n_waits[p] >= WaitThresh
            <4>1. wait_sec' = [wait_sec EXCEPT ![p] = LongerWait(wait_sec[p])] /\ n_waits' = [n_waits EXCEPT ![p] = 0]
                BY <1>7, <3>1 DEF PushSleep
            <4>2. LongerWait(wait_sec[p]) \in Int
                BY LongerWaitType
            <4> QED
                BY <4>1, <4>2
        <3>2. CASE ~(n_waits[p] >= WaitThresh)
            <4>1. wait_sec' = wait_sec /\ n_waits' = [n_waits EXCEPT ![p] = n_waits[p] + 1]
                BY <1>7, <3>2 DEF PushSleep
            <4> QED
                BY <4>1
        <3> QED
            BY <3>1, <3>2
    <2> QED
        BY <1>7, <2>1 DEF PushSleep, Goto
<1>8. ASSUME NEW p \in Pushers, PushBroadcast(p) PROVE TypeOK'
    BY <1>8 DEF PushBroadcast, Broadcast, Waiting
<1>9. ASSUME NEW p \in Pushers, PushUnlock(p) PROVE TypeOK'
    BY <1>9 DEF PushUnlock, Unlock, Goto
<1>10. ASSUME NEW p \in Pushers, NEW e \in Events, PushCall(p, e) PROVE TypeOK'
    BY <1>10 DEF PushCall, Enter, Goto
<1>11. ASSUME NEW c \in Poppers, PopLock(c) PROVE TypeOK'
    BY <1>11 DEF PopLock, Lock, Goto
<1>12. ASSUME NEW c \in Poppers, PopWait(c) PROVE TypeOK'
    BY <1>12 DEF PopWait, Goto
<1>13. ASSUME NEW c \in Poppers, PopRelock(c) PROVE TypeOK'
    BY <1>13 DEF PopRelock, Lock, Goto
<1>14. ASSUME NEW c \in Poppers, PopTake(c) PROVE TypeOK'
    <2>1. n_rec_free' \in 0..UIntMax /\ n_rec_used' \in 0..UIntMax
        BY <1>14 DEF PopTake, RecordsBounded
    <2>2. used' \in Seq(Items) /\ data' \in [Pushers \cup Poppers -> Items]
        BY <1>14 DEF PopTake
    <2> QED
        BY <1>14, <2>1, <2>2 DEF PopTake, Goto
<1>15. ASSUME NEW c \in Poppers, PopNothing(c) PROVE TypeOK'
    BY <1>15 DEF PopNothing, Goto
<1>16. ASSUME NEW c \in Poppers, PopUnlock(c) PROVE TypeOK'
    BY <1>16 DEF PopUnlock, Unlock, Goto
<1>17. ASSUME NEW c \in Poppers, PopCall(c) PROVE TypeOK'
    BY <1>17 DEF PopCall, Enter, Goto
<1>18. ASSUME NEW c \in Poppers, PopSpurious(c) PROVE TypeOK'
    BY <1>18 DEF PopSpurious, Goto, Waiting
<1>19. ASSUME NEW i \in Interrupters, InterruptLock(i) PROVE TypeOK'
    BY <1>19 DEF InterruptLock, Lock, Goto
<1>20. ASSUME NEW i \in Interrupters, InterruptBroadcast(i) PROVE TypeOK'
    BY <1>20 DEF InterruptBroadcast, Broadcast, Waiting
<1>21. ASSUME NEW i \in Interrupters, InterruptUnlock(i) PROVE TypeOK'
    BY <1>21 DEF InterruptUnlock, Unlock, Goto
<1>22. ASSUME NEW i \in Interrupters, InterruptCall(i) PROVE TypeOK'
    BY <1>22 DEF InterruptCall, Enter, Goto
<1>23. CASE UNCHANGED vars
    BY <1>23 DEF vars
<1> QED
    BY <1>1, <1>2, <1>3, <1>4, <1>5, <1>6, <1>7, <1>8, <1>9, <1>10, <1>11, <1>12, <1>13, <1>14, <1>15, <1>16, <1>17, <1>18, <1>19, <1>20, <1>21, <1>22, <1>23 DEF Next, PushStep, PopStep, InterruptStep

-----------------------------------------------------------------------------
(* The mutex.                                                              *)

\* No step lets a second thread between lock and unlock, or leaves a thread that
\* holds the mutex with an old address of the object: the one step that moves the
\* object is the holder's own.
LEMMA MutexStep ==
    ASSUME TypeOK, MutualExclusion, [Next]_vars
    PROVE  MutualExclusion'
<1> USE ThreadsAssumption DEF TypeOK, MutualExclusion, Threads, object, locals, Critical,
        PushLabels, PopLabels, IntLabels, PushCritical, PopCritical, IntCritical
<1>1. ASSUME NEW p \in Pushers, PushLock(p) PROVE MutualExclusion'
    BY <1>1 DEF PushLock, Lock, Goto
<1>2. ASSUME NEW p \in Pushers, PushReuse(p) PROVE MutualExclusion'
    BY <1>2 DEF PushReuse, Store, Goto
<1>3. ASSUME NEW p \in Pushers, PushGrow(p) PROVE MutualExclusion'
    BY <1>3 DEF PushGrow, Store, Goto
<1>4. ASSUME NEW p \in Pushers, PushFault(p) PROVE MutualExclusion'
    BY <1>4 DEF PushFault, Goto
<1>5. ASSUME NEW p \in Pushers, PushNoMemory(p) PROVE MutualExclusion'
    BY <1>5 DEF PushNoMemory, Goto
<1>6. ASSUME NEW p \in Pushers, PushAtLimit(p) PROVE MutualExclusion'
    BY <1>6 DEF PushAtLimit, Goto
<1>7. ASSUME NEW p \in Pushers, PushSleep(p) PROVE MutualExclusion'
    BY <1>7 DEF PushSleep, Goto
<1>8. ASSUME NEW p \in Pushers, PushBroadcast(p) PROVE MutualExclusion'
    BY <1>8 DEF PushBroadcast, Broadcast, Waiting
<1>9. ASSUME NEW p \in Pushers, PushUnlock(p) PROVE MutualExclusion'
    BY <1>9 DEF PushUnlock, Unlock, Goto
<1>10. ASSUME NEW p \in Pushers, NEW e \in Events, PushCall(p, e) PROVE MutualExclusion'
    BY <1>10 DEF PushCall, Enter, Goto
<1>11. ASSUME NEW c \in Poppers, PopLock(c) PROVE MutualExclusion'
    BY <1>11 DEF PopLock, Lock, Goto
<1>12. ASSUME NEW c \in Poppers, PopWait(c) PROVE MutualExclusion'
    BY <1>12 DEF PopWait, Goto
<1>13. ASSUME NEW c \in Poppers, PopRelock(c) PROVE MutualExclusion'
    BY <1>13 DEF PopRelock, Lock, Goto
<1>14. ASSUME NEW c \in Poppers, PopTake(c) PROVE MutualExclusion'
    BY <1>14 DEF PopTake, Goto
<1>15. ASSUME NEW c \in Poppers, PopNothing(c) PROVE MutualExclusion'
    BY <1>15 DEF PopNothing, Goto
<1>16. ASSUME NEW c \in Poppers, PopUnlock(c) PROVE MutualExclusion'
    BY <1>16 DEF PopUnlock, Unlock, Goto
<1>17. ASSUME NEW c \in Poppers, PopCall(c) PROVE MutualExclusion'
    BY <1>17 DEF PopCall, Enter, Goto
<1>18. ASSUME NEW c \in Poppers, PopSpurious(c) PROVE MutualExclusion'
    BY <1>18 DEF PopSpurious, Goto, Waiting
<1>19. ASSUME NEW i \in Interrupters, InterruptLock(i) PROVE MutualExclusion'
    BY <1>19 DEF InterruptLock, Lock, Goto
<1>20. ASSUME NEW i \in Interrupters, InterruptBroadcast(i) PROVE MutualExclusion'
    BY <1>20 DEF InterruptBroadcast, Broadcast, Waiting
<1>21. ASSUME NEW i \in Interrupters, InterruptUnlock(i) PROVE MutualExclusion'
    BY <1>21 DEF InterruptUnlock, Unlock, Goto
<1>22. ASSUME NEW i \in Interrupters, InterruptCall(i) PROVE MutualExclusion'
    BY <1>22 DEF InterruptCall, Enter, Goto
<1>23. CASE UNCHANGED vars
    BY <1>23 DEF vars
<1> QED
    BY <1>1, <1>2, <1>3, <1>4, <1>5, <1>6, <1>7, <1>8, <1>9, <1>10, <1>11, <1>12, <1>13, <1>14, <1>15, <1>16, <1>17, <1>18, <1>19, <1>20, <1>21, <1>22, <1>23 DEF Next, PushStep, PopStep, InterruptStep

-----------------------------------------------------------------------------
(* The records.                                                            *)

\* Every step keeps the counts equal to what the lists hold and within the limit.
LEMMA RecordsStep ==
    ASSUME TypeOK, RecordsBounded, PoolsCounted, [Next]_vars
    PROVE  RecordsBounded' /\ PoolsCounted'
<1> USE DEF RecordsBounded, PoolsCounted, object, locals
<1>1. ASSUME NEW p \in Pushers, PushLock(p) PROVE RecordsBounded' /\ PoolsCounted'
    BY <1>1 DEF PushLock, Lock, Goto, Limit
<1>2. ASSUME NEW p \in Pushers, PushReuse(p) PROVE RecordsBounded' /\ PoolsCounted'
    <2>1. n_rec_free' = n_rec_free - 1 /\ n_rec_used' = n_rec_used + 1 /\ used' = Append(used, data[p])
        BY <1>2 DEF PushReuse, Store
    <2>2. n_rec_pools' = n_rec_pools /\ n_rec_free > 0
        BY <1>2 DEF PushReuse
    <2> QED
        BY <2>1, <2>2, LimitType, RecordsAssumption DEF TypeOK, Items, Limit
<1>3. ASSUME NEW p \in Pushers, PushGrow(p) PROVE RecordsBounded' /\ PoolsCounted'
    <2>1. n_rec_used' = n_rec_used + 1 /\ used' = Append(used, data[p])
        BY <1>3 DEF PushGrow, Store
    <2>2. n_rec_pools' = n_rec_pools + 1
        BY <1>3 DEF PushGrow
    <2> QED
        BY <1>3, <2>1, <2>2, GrowStep DEF TypeOK, Items, Limit
<1>4. ASSUME NEW p \in Pushers, PushFault(p) PROVE RecordsBounded' /\ PoolsCounted'
    BY <1>4 DEF PushFault, Goto, Limit
<1>5. ASSUME NEW p \in Pushers, PushNoMemory(p) PROVE RecordsBounded' /\ PoolsCounted'
    BY <1>5 DEF PushNoMemory, Goto, Limit
<1>6. ASSUME NEW p \in Pushers, PushAtLimit(p) PROVE RecordsBounded' /\ PoolsCounted'
    BY <1>6 DEF PushAtLimit, Goto, Limit
<1>7. ASSUME NEW p \in Pushers, PushSleep(p) PROVE RecordsBounded' /\ PoolsCounted'
    BY <1>7 DEF PushSleep, Goto, Limit
<1>8. ASSUME NEW p \in Pushers, PushBroadcast(p) PROVE RecordsBounded' /\ PoolsCounted'
    BY <1>8 DEF PushBroadcast, Broadcast, Waiting, Limit
<1>9. ASSUME NEW p \in Pushers, PushUnlock(p) PROVE RecordsBounded' /\ PoolsCounted'
    BY <1>9 DEF PushUnlock, Unlock, Goto, Limit
<1>10. ASSUME NEW p \in Pushers, NEW e \in Events, PushCall(p, e) PROVE RecordsBounded' /\ PoolsCounted'
    BY <1>10 DEF PushCall, Enter, Goto, Limit
<1>11. ASSUME NEW c \in Poppers, PopLock(c) PROVE RecordsBounded' /\ PoolsCounted'
    BY <1>11 DEF PopLock, Lock, Goto, Limit
<1>12. ASSUME NEW c \in Poppers, PopWait(c) PROVE RecordsBounded' /\ PoolsCounted'
    BY <1>12 DEF PopWait, Goto, Limit
<1>13. ASSUME NEW c \in Poppers, PopRelock(c) PROVE RecordsBounded' /\ PoolsCounted'
    BY <1>13 DEF PopRelock, Lock, Goto, Limit
<1>14. ASSUME NEW c \in Poppers, PopTake(c) PROVE RecordsBounded' /\ PoolsCounted'
    <2>1. n_rec_free' = n_rec_free + 1 /\ n_rec_used' = n_rec_used - 1 /\ used' = Tail(used) /\ used # <<>>
        BY <1>14 DEF PopTake
    <2>2. n_rec_pools' = n_rec_pools
        BY <1>14 DEF PopTake
    <2> QED
        BY <2>1, <2>2, LimitType, RecordsAssumption DEF TypeOK, Items, Limit
<1>15. ASSUME NEW c \in Poppers, PopNothing(c) PROVE RecordsBounded' /\ PoolsCounted'
    BY <1>15 DEF PopNothing, Goto, Limit
<1>16. ASSUME NEW c \in Poppers, PopUnlock(c) PROVE RecordsBounded' /\ PoolsCounted'
    BY <1>16 DEF PopUnlock, Unlock, Goto, Limit
<1>17. ASSUME NEW c \in Poppers, PopCall(c) PROVE RecordsBounded' /\ PoolsCounted'
    BY <1>17 DEF PopCall, Enter, Goto, Limit
<1>18. ASSUME NEW c \in Poppers, PopSpurious(c) PROVE RecordsBounded' /\ PoolsCounted'
    BY <1>18 DEF PopSpurious, Goto, Waiting, Limit
<1>19. ASSUME NEW i \in Interrupters, InterruptLock(i) PROVE RecordsBounded' /\ PoolsCounted'
    BY <1>19 DEF InterruptLock, Lock, Goto, Limit
<1>20. ASSUME NEW i \in Interrupters, InterruptBroadcast(i) PROVE RecordsBounded' /\ PoolsCounted'
    BY <1>20 DEF InterruptBroadcast, Broadcast, Waiting, Limit
<1>21. ASSUME NEW i \in Interrupters, InterruptUnlock(i) PROVE RecordsBounded' /\ PoolsCounted'
    BY <1>21 DEF InterruptUnlock, Unlock, Goto, Limit
<1>22. ASSUME NEW i \in Interrupters, InterruptCall(i) PROVE RecordsBounded' /\ PoolsCounted'
    BY <1>22 DEF InterruptCall, Enter, Goto, Limit
<1>23. CASE UNCHANGED vars
    BY <1>23 DEF vars, Limit
<1> QED
    BY <1>1, <1>2, <1>3, <1>4, <1>5, <1>6, <1>7, <1>8, <1>9, <1>10, <1>11, <1>12, <1>13, <1>14, <1>15, <1>16, <1>17, <1>18, <1>19, <1>20, <1>21, <1>22, <1>23 DEF Next, PushStep, PopStep, InterruptStep

-----------------------------------------------------------------------------
(* The results.                                                            *)

\* No call reports success before it has stored or taken an event.
LEMMA ResultStep ==
    ASSUME TypeOK, ResultPending, [Next]_vars
    PROVE  ResultPending'
<1> USE ThreadsAssumption DEF TypeOK, ResultPending, Threads, object, locals,
        PushLabels, PopLabels, IntLabels, PushCritical, PopCritical, IntCritical
<1>1. ASSUME NEW p \in Pushers, PushLock(p) PROVE ResultPending'
    BY <1>1 DEF PushLock, Lock, Goto
<1>2. ASSUME NEW p \in Pushers, PushReuse(p) PROVE ResultPending'
    BY <1>2 DEF PushReuse, Store, Goto
<1>3. ASSUME NEW p \in Pushers, PushGrow(p) PROVE ResultPending'
    BY <1>3 DEF PushGrow, Store, Goto
<1>4. ASSUME NEW p \in Pushers, PushFault(p) PROVE ResultPending'
    BY <1>4 DEF PushFault, Goto
<1>5. ASSUME NEW p \in Pushers, PushNoMemory(p) PROVE ResultPending'
    BY <1>5 DEF PushNoMemory, Goto
<1>6. ASSUME NEW p \in Pushers, PushAtLimit(p) PROVE ResultPending'
    BY <1>6 DEF PushAtLimit, Goto
<1>7. ASSUME NEW p \in Pushers, PushSleep(p) PROVE ResultPending'
    BY <1>7 DEF PushSleep, Goto
<1>8. ASSUME NEW p \in Pushers, PushBroadcast(p) PROVE ResultPending'
    BY <1>8 DEF PushBroadcast, Broadcast, Waiting
<1>9. ASSUME NEW p \in Pushers, PushUnlock(p) PROVE ResultPending'
    BY <1>9 DEF PushUnlock, Unlock, Goto
<1>10. ASSUME NEW p \in Pushers, NEW e \in Events, PushCall(p, e) PROVE ResultPending'
    BY <1>10 DEF PushCall, Enter, Goto
<1>11. ASSUME NEW c \in Poppers, PopLock(c) PROVE ResultPending'
    BY <1>11 DEF PopLock, Lock, Goto
<1>12. ASSUME NEW c \in Poppers, PopWait(c) PROVE ResultPending'
    BY <1>12 DEF PopWait, Goto
<1>13. ASSUME NEW c \in Poppers, PopRelock(c) PROVE ResultPending'
    BY <1>13 DEF PopRelock, Lock, Goto
<1>14. ASSUME NEW c \in Poppers, PopTake(c) PROVE ResultPending'
    BY <1>14 DEF PopTake, Goto
<1>15. ASSUME NEW c \in Poppers, PopNothing(c) PROVE ResultPending'
    BY <1>15 DEF PopNothing, Goto
<1>16. ASSUME NEW c \in Poppers, PopUnlock(c) PROVE ResultPending'
    BY <1>16 DEF PopUnlock, Unlock, Goto
<1>17. ASSUME NEW c \in Poppers, PopCall(c) PROVE ResultPending'
    BY <1>17 DEF PopCall, Enter, Goto
<1>18. ASSUME NEW c \in Poppers, PopSpurious(c) PROVE ResultPending'
    BY <1>18 DEF PopSpurious, Goto, Waiting
<1>19. ASSUME NEW i \in Interrupters, InterruptLock(i) PROVE ResultPending'
    BY <1>19 DEF InterruptLock, Lock, Goto
<1>20. ASSUME NEW i \in Interrupters, InterruptBroadcast(i) PROVE ResultPending'
    BY <1>20 DEF InterruptBroadcast, Broadcast, Waiting
<1>21. ASSUME NEW i \in Interrupters, InterruptUnlock(i) PROVE ResultPending'
    BY <1>21 DEF InterruptUnlock, Unlock, Goto
<1>22. ASSUME NEW i \in Interrupters, InterruptCall(i) PROVE ResultPending'
    BY <1>22 DEF InterruptCall, Enter, Goto
<1>23. CASE UNCHANGED vars
    BY <1>23 DEF vars
<1> QED
    BY <1>1, <1>2, <1>3, <1>4, <1>5, <1>6, <1>7, <1>8, <1>9, <1>10, <1>11, <1>12, <1>13, <1>14, <1>15, <1>16, <1>17, <1>18, <1>19, <1>20, <1>21, <1>22, <1>23 DEF Next, PushStep, PopStep, InterruptStep

-----------------------------------------------------------------------------
(* The inductive invariant.                                                *)

\* The object log_queue_create returns satisfies the invariant.
LEMMA Initially == Init => IInv
<1> SUFFICES ASSUME Init PROVE IInv
    OBVIOUS
<1> USE DEF Init, Threads
<1>1. TypeOK
    BY RecordsAssumption, WaitAssumption
    DEF TypeOK, Items, PushLabels, PopLabels, IntLabels, PushCritical, PopCritical, IntCritical
<1>2. MutualExclusion
    BY ThreadsAssumption DEF MutualExclusion, Critical, PushCritical, PopCritical, IntCritical
<1>3. RecordsBounded /\ PoolsCounted
    BY LimitType DEF RecordsBounded, PoolsCounted
<1>4. ResultPending
    BY DEF ResultPending
<1> QED
    BY <1>1, <1>2, <1>3, <1>4 DEF IInv

\* In every state of the queue, for any threads and any configuration that
\* config_validate accepts: the variables have their types, the mutex excludes
\* although its object moves, the records stay within the limit, and a call
\* reports success only after it has stored or taken an event.
THEOREM Invariance == Spec => []IInv
<1>1. IInv /\ [Next]_vars => IInv'
    BY TypeStep, MutexStep, RecordsStep, ResultStep DEF IInv
<1> QED
    BY Initially, <1>1, PTL DEF Spec

\* log_queue.c:112-122 and the counts of 84 and 106-174: the queue never holds
\* more records than it is configured for, and the counts describe its lists.
THEOREM BoundedRecords == Spec => []RecordsBounded
<1>1. IInv => RecordsBounded
    BY DEF IInv
<1> QED
    BY Invariance, <1>1, PTL

\* Every variable keeps its type; in particular the counters stay uint32_t
\* values without ever wrapping.
THEOREM Typed == Spec => []TypeOK
<1>1. IInv => TypeOK
    BY DEF IInv
<1> QED
    BY Invariance, <1>1, PTL

\* One thread at a time works between lock and unlock, always on the object's
\* present place.
THEOREM Exclusion == Spec => []MutualExclusion
<1>1. IInv => MutualExclusion
    BY DEF IInv
<1> QED
    BY Invariance, <1>1, PTL

-----------------------------------------------------------------------------
(* Wakeups.                                                                *)

\* No step leaves an event queued and a thread asleep on the present condition
\* variable with nobody about to broadcast: a thread goes to sleep only when the
\* queue is empty, and a pusher that fills it is at its broadcast.
LEMMA WakeupStep ==
    ASSUME TypeOK, NoLostWakeup, [Next]_vars
    PROVE  NoLostWakeup'
<1> USE ThreadsAssumption DEF TypeOK, NoLostWakeup, Waiting, Threads, object, locals,
        PushLabels, PopLabels, IntLabels, PushCritical, PopCritical, IntCritical
<1>1. ASSUME NEW p \in Pushers, PushLock(p) PROVE NoLostWakeup'
    BY <1>1 DEF PushLock, Lock, Goto
<1>2. ASSUME NEW p \in Pushers, PushReuse(p) PROVE NoLostWakeup'
    BY <1>2 DEF PushReuse, Store, Goto
<1>3. ASSUME NEW p \in Pushers, PushGrow(p) PROVE NoLostWakeup'
    BY <1>3 DEF PushGrow, Store, Goto
<1>4. ASSUME NEW p \in Pushers, PushFault(p) PROVE NoLostWakeup'
    BY <1>4 DEF PushFault, Goto
<1>5. ASSUME NEW p \in Pushers, PushNoMemory(p) PROVE NoLostWakeup'
    BY <1>5 DEF PushNoMemory, Goto
<1>6. ASSUME NEW p \in Pushers, PushAtLimit(p) PROVE NoLostWakeup'
    BY <1>6 DEF PushAtLimit, Goto
<1>7. ASSUME NEW p \in Pushers, PushSleep(p) PROVE NoLostWakeup'
    BY <1>7 DEF PushSleep, Goto
<1>8. ASSUME NEW p \in Pushers, PushBroadcast(p) PROVE NoLostWakeup'
    BY <1>8 DEF PushBroadcast, Broadcast, Waiting
<1>9. ASSUME NEW p \in Pushers, PushUnlock(p) PROVE NoLostWakeup'
    BY <1>9 DEF PushUnlock, Unlock, Goto
<1>10. ASSUME NEW p \in Pushers, NEW e \in Events, PushCall(p, e) PROVE NoLostWakeup'
    BY <1>10 DEF PushCall, Enter, Goto
<1>11. ASSUME NEW c \in Poppers, PopLock(c) PROVE NoLostWakeup'
    BY <1>11 DEF PopLock, Lock, Goto
<1>12. ASSUME NEW c \in Poppers, PopWait(c) PROVE NoLostWakeup'
    BY <1>12 DEF PopWait, Goto
<1>13. ASSUME NEW c \in Poppers, PopRelock(c) PROVE NoLostWakeup'
    BY <1>13 DEF PopRelock, Lock, Goto
<1>14. ASSUME NEW c \in Poppers, PopTake(c) PROVE NoLostWakeup'
    BY <1>14 DEF PopTake, Goto
<1>15. ASSUME NEW c \in Poppers, PopNothing(c) PROVE NoLostWakeup'
    BY <1>15 DEF PopNothing, Goto
<1>16. ASSUME NEW c \in Poppers, PopUnlock(c) PROVE NoLostWakeup'
    BY <1>16 DEF PopUnlock, Unlock, Goto
<1>17. ASSUME NEW c \in Poppers, PopCall(c) PROVE NoLostWakeup'
    BY <1>17 DEF PopCall, Enter, Goto
<1>18. ASSUME NEW c \in Poppers, PopSpurious(c) PROVE NoLostWakeup'
    BY <1>18 DEF PopSpurious, Goto, Waiting
<1>19. ASSUME NEW i \in Interrupters, InterruptLock(i) PROVE NoLostWakeup'
    BY <1>19 DEF InterruptLock, Lock, Goto
<1>20. ASSUME NEW i \in Interrupters, InterruptBroadcast(i) PROVE NoLostWakeup'
    BY <1>20 DEF InterruptBroadcast, Broadcast, Waiting
<1>21. ASSUME NEW i \in Interrupters, InterruptUnlock(i) PROVE NoLostWakeup'
    BY <1>21 DEF InterruptUnlock, Unlock, Goto
<1>22. ASSUME NEW i \in Interrupters, InterruptCall(i) PROVE NoLostWakeup'
    BY <1>22 DEF InterruptCall, Enter, Goto
<1>23. CASE UNCHANGED vars
    BY <1>23 DEF vars
<1> QED
    BY <1>1, <1>2, <1>3, <1>4, <1>5, <1>6, <1>7, <1>8, <1>9, <1>10, <1>11, <1>12, <1>13, <1>14, <1>15, <1>16, <1>17, <1>18, <1>19, <1>20, <1>21, <1>22, <1>23 DEF Next, PushStep, PopStep, InterruptStep

\* No event lies in the queue while a database thread sleeps on the queue's
\* present condition variable, but for the instant before the pusher's broadcast.
THEOREM WakeupsKept == Spec => []NoLostWakeup
<1>1. Init => NoLostWakeup
    BY DEF Init, NoLostWakeup
<1>2. IInv /\ NoLostWakeup /\ [Next]_vars => NoLostWakeup'
    BY WakeupStep DEF IInv
<1> QED
    BY Invariance, <1>1, <1>2, PTL DEF Spec

-----------------------------------------------------------------------------
(* The free list.                                                          *)

\* A pool added below the limit has at least one record when no size is zero.
LEMMA PoolNotEmpty ==
    ASSUME TypeOK, RecordsBounded, PoolsCounted, ~AtLimit, RecMin > 0, RecDelta > 0
    PROVE  PoolSize > 0
<1>1. Room \in Nat
    BY PoolFits, LimitType, RecordsAssumption DEF TypeOK, RecordsBounded
<1> QED
    BY <1>1, RecordsAssumption DEF AtLimit, PoolSize, TypeOK

\* The only step to a fault finds an empty pool, and there is none.
LEMMA FaultStep ==
    ASSUME TypeOK, RecordsBounded, PoolsCounted, NoFault, [Next]_vars
    PROVE  NoFault'
<1> SUFFICES ASSUME RecMin > 0, RecDelta > 0, Alive
             PROVE  Alive'
    BY DEF NoFault, Alive, Limit
<1> USE ThreadsAssumption DEF TypeOK, Alive, Threads, object, locals
<1>1. ASSUME NEW p \in Pushers, PushLock(p) PROVE Alive'
    BY <1>1 DEF PushLock, Lock, Goto
<1>2. ASSUME NEW p \in Pushers, PushReuse(p) PROVE Alive'
    BY <1>2 DEF PushReuse, Store, Goto
<1>3. ASSUME NEW p \in Pushers, PushGrow(p) PROVE Alive'
    BY <1>3 DEF PushGrow, Store, Goto
<1>4. ASSUME NEW p \in Pushers, PushFault(p) PROVE Alive'
    BY <1>4, PoolNotEmpty DEF PushFault
<1>5. ASSUME NEW p \in Pushers, PushNoMemory(p) PROVE Alive'
    BY <1>5 DEF PushNoMemory, Goto
<1>6. ASSUME NEW p \in Pushers, PushAtLimit(p) PROVE Alive'
    BY <1>6 DEF PushAtLimit, Goto
<1>7. ASSUME NEW p \in Pushers, PushSleep(p) PROVE Alive'
    BY <1>7 DEF PushSleep, Goto
<1>8. ASSUME NEW p \in Pushers, PushBroadcast(p) PROVE Alive'
    BY <1>8 DEF PushBroadcast, Broadcast, Waiting
<1>9. ASSUME NEW p \in Pushers, PushUnlock(p) PROVE Alive'
    BY <1>9 DEF PushUnlock, Unlock, Goto
<1>10. ASSUME NEW p \in Pushers, NEW e \in Events, PushCall(p, e) PROVE Alive'
    BY <1>10 DEF PushCall, Enter, Goto
<1>11. ASSUME NEW c \in Poppers, PopLock(c) PROVE Alive'
    BY <1>11 DEF PopLock, Lock, Goto
<1>12. ASSUME NEW c \in Poppers, PopWait(c) PROVE Alive'
    BY <1>12 DEF PopWait, Goto
<1>13. ASSUME NEW c \in Poppers, PopRelock(c) PROVE Alive'
    BY <1>13 DEF PopRelock, Lock, Goto
<1>14. ASSUME NEW c \in Poppers, PopTake(c) PROVE Alive'
    BY <1>14 DEF PopTake, Goto
<1>15. ASSUME NEW c \in Poppers, PopNothing(c) PROVE Alive'
    BY <1>15 DEF PopNothing, Goto
<1>16. ASSUME NEW c \in Poppers, PopUnlock(c) PROVE Alive'
    BY <1>16 DEF PopUnlock, Unlock, Goto
<1>17. ASSUME NEW c \in Poppers, PopCall(c) PROVE Alive'
    BY <1>17 DEF PopCall, Enter, Goto
<1>18. ASSUME NEW c \in Poppers, PopSpurious(c) PROVE Alive'
    BY <1>18 DEF PopSpurious, Goto, Waiting
<1>19. ASSUME NEW i \in Interrupters, InterruptLock(i) PROVE Alive'
    BY <1>19 DEF InterruptLock, Lock, Goto
<1>20. ASSUME NEW i \in Interrupters, InterruptBroadcast(i) PROVE Alive'
    BY <1>20 DEF InterruptBroadcast, Broadcast, Waiting
<1>21. ASSUME NEW i \in Interrupters, InterruptUnlock(i) PROVE Alive'
    BY <1>21 DEF InterruptUnlock, Unlock, Goto
<1>22. ASSUME NEW i \in Interrupters, InterruptCall(i) PROVE Alive'
    BY <1>22 DEF InterruptCall, Enter, Goto
<1>23. CASE UNCHANGED vars
    BY <1>23 DEF vars
<1> QED
    BY <1>1, <1>2, <1>3, <1>4, <1>5, <1>6, <1>7, <1>8, <1>9, <1>10, <1>11, <1>12, <1>13, <1>14, <1>15, <1>16, <1>17, <1>18, <1>19, <1>20, <1>21, <1>22, <1>23 DEF Next, PushStep, PopStep, InterruptStep

\* log_queue_push never dereferences an empty free list when neither the first
\* pool nor the batches are configured to be empty.
THEOREM NeverFaults == Spec => []NoFault
<1>1. Init => NoFault
    BY DEF Init, NoFault, Alive
<1>2. IInv /\ NoFault /\ [Next]_vars => NoFault'
    BY FaultStep DEF IInv
<1> QED
    BY Invariance, <1>1, <1>2, PTL DEF Spec

-----------------------------------------------------------------------------
(* Waits.                                                                  *)

\* No retry takes a pusher's wait out of the configured bounds.
LEMMA WaitStep ==
    ASSUME TypeOK, WaitBounded, [Next]_vars
    PROVE  WaitBounded'
<1> USE WaitAssumption DEF TypeOK, WaitBounded, object, locals
<1>1. ASSUME NEW p \in Pushers, PushLock(p) PROVE WaitBounded'
    BY <1>1 DEF PushLock, Lock, Goto
<1>2. ASSUME NEW p \in Pushers, PushReuse(p) PROVE WaitBounded'
    BY <1>2 DEF PushReuse, Store, Goto
<1>3. ASSUME NEW p \in Pushers, PushGrow(p) PROVE WaitBounded'
    BY <1>3 DEF PushGrow, Store, Goto
<1>4. ASSUME NEW p \in Pushers, PushFault(p) PROVE WaitBounded'
    BY <1>4 DEF PushFault, Goto
<1>5. ASSUME NEW p \in Pushers, PushNoMemory(p) PROVE WaitBounded'
    BY <1>5 DEF PushNoMemory, Goto
<1>6. ASSUME NEW p \in Pushers, PushAtLimit(p) PROVE WaitBounded'
    BY <1>6 DEF PushAtLimit, Goto
<1>7. ASSUME NEW p \in Pushers, PushSleep(p) PROVE WaitBounded'
    <2>1. (WaitMax # 0 /\ WaitDelta >= 0) => \A w \in WaitMin..WaitMax : LongerWait(w) \in WaitMin..WaitMax
        BY DEF LongerWait
    <2>2. wait_sec' = wait_sec \/ wait_sec' = [wait_sec EXCEPT ![p] = LongerWait(wait_sec[p])]
        BY <1>7 DEF PushSleep
    <2> SUFFICES ASSUME WaitMax # 0, WaitDelta >= 0, NEW q \in Pushers
                 PROVE  wait_sec'[q] \in WaitMin..WaitMax
        OBVIOUS
    <2>3. wait_sec[q] \in WaitMin..WaitMax /\ wait_sec[p] \in WaitMin..WaitMax
        OBVIOUS
    <2>4. CASE wait_sec' = wait_sec
        BY <2>3, <2>4
    <2>5. CASE wait_sec' = [wait_sec EXCEPT ![p] = LongerWait(wait_sec[p])]
        BY <2>1, <2>3, <2>5
    <2> QED
        BY <2>2, <2>4, <2>5
<1>8. ASSUME NEW p \in Pushers, PushBroadcast(p) PROVE WaitBounded'
    BY <1>8 DEF PushBroadcast, Broadcast, Waiting
<1>9. ASSUME NEW p \in Pushers, PushUnlock(p) PROVE WaitBounded'
    BY <1>9 DEF PushUnlock, Unlock, Goto
<1>10. ASSUME NEW p \in Pushers, NEW e \in Events, PushCall(p, e) PROVE WaitBounded'
    BY <1>10 DEF PushCall, Enter, Goto
<1>11. ASSUME NEW c \in Poppers, PopLock(c) PROVE WaitBounded'
    BY <1>11 DEF PopLock, Lock, Goto
<1>12. ASSUME NEW c \in Poppers, PopWait(c) PROVE WaitBounded'
    BY <1>12 DEF PopWait, Goto
<1>13. ASSUME NEW c \in Poppers, PopRelock(c) PROVE WaitBounded'
    BY <1>13 DEF PopRelock, Lock, Goto
<1>14. ASSUME NEW c \in Poppers, PopTake(c) PROVE WaitBounded'
    BY <1>14 DEF PopTake, Goto
<1>15. ASSUME NEW c \in Poppers, PopNothing(c) PROVE WaitBounded'
    BY <1>15 DEF PopNothing, Goto
<1>16. ASSUME NEW c \in Poppers, PopUnlock(c) PROVE WaitBounded'
    BY <1>16 DEF PopUnlock, Unlock, Goto
<1>17. ASSUME NEW c \in Poppers, PopCall(c) PROVE WaitBounded'
    BY <1>17 DEF PopCall, Enter, Goto
<1>18. ASSUME NEW c \in Poppers, PopSpurious(c) PROVE WaitBounded'
    BY <1>18 DEF PopSpurious, Goto, Waiting
<1>19. ASSUME NEW i \in Interrupters, InterruptLock(i) PROVE WaitBounded'
    BY <1>19 DEF InterruptLock, Lock, Goto
<1>20. ASSUME NEW i \in Interrupters, InterruptBroadcast(i) PROVE WaitBounded'
    BY <1>20 DEF InterruptBroadcast, Broadcast, Waiting
<1>21. ASSUME NEW i \in Interrupters, InterruptUnlock(i) PROVE WaitBounded'
    BY <1>21 DEF InterruptUnlock, Unlock, Goto
<1>22. ASSUME NEW i \in Interrupters, InterruptCall(i) PROVE WaitBounded'
    BY <1>22 DEF InterruptCall, Enter, Goto
<1>23. CASE UNCHANGED vars
    BY <1>23 DEF vars
<1> QED
    BY <1>1, <1>2, <1>3, <1>4, <1>5, <1>6, <1>7, <1>8, <1>9, <1>10, <1>11, <1>12, <1>13, <1>14, <1>15, <1>16, <1>17, <1>18, <1>19, <1>20, <1>21, <1>22, <1>23 DEF Next, PushStep, PopStep, InterruptStep

\* A pusher never sleeps less than the initial period or more than the longest.
THEOREM WaitsBounded == Spec => []WaitBounded
<1>1. Init => WaitBounded
    <2> SUFFICES ASSUME Init, WaitMax # 0, WaitDelta >= 0, NEW p \in Pushers
                 PROVE  WaitMin =< wait_sec[p] /\ wait_sec[p] =< WaitMax
        BY DEF WaitBounded
    <2>1. wait_sec[p] = WaitMin
        BY DEF Init
    <2> QED
        BY <2>1, WaitAssumption
<1>2. IInv /\ WaitBounded /\ [Next]_vars => WaitBounded'
    BY WaitStep DEF IInv
<1> QED
    BY Invariance, <1>1, <1>2, PTL DEF Spec

-----------------------------------------------------------------------------
(* The queue implements EventQueue.                                        *)

\* An empty log_queue_t is an empty EventQueue.
LEMMA RefinementInit == Init => Queue!Init
BY DEF Init, Queue!Init, Calls, Status, Threads

\* A step of one thread changes the status of that thread's call only.
LEMMA CallsUpdate ==
    ASSUME NEW t \in Pushers \cup Poppers, NEW s, Status(t)' = s,
           \A u \in Pushers \cup Poppers : u # t => Status(u)' = Status(u)
    PROVE  Calls' = [Calls EXCEPT ![t] = s] /\ Calls[t] = Status(t)
<1>1. \A u \in Pushers \cup Poppers : Calls'[u] = IF u = t THEN s ELSE Calls[u]
    BY DEF Calls, Status
<1>2. Calls' = [u \in Pushers \cup Poppers |-> Calls'[u]]
    BY DEF Calls, Status
<1>3. [Calls EXCEPT ![t] = s] = [u \in Pushers \cup Poppers |-> IF u = t THEN s ELSE Calls[u]]
    BY DEF Calls
<1> QED
    BY <1>1, <1>2, <1>3 DEF Calls

\* A record that has been linked in, or that there is room for, is within the limit.
LEMMA RoomWasThere ==
    ASSUME TypeOK, TypeOK', RecordsBounded', NEW p \in Pushers, used' = Append(used, data[p])
    PROVE  Len(used) < Limit
<1>1. Len(used) \in Nat /\ Len(used') = Len(used) + 1
    BY DEF TypeOK
<1>2. n_rec_free' >= 0 /\ n_rec_free' + Len(used') =< Limit
    BY DEF TypeOK, RecordsBounded, Limit
<1>3. n_rec_free' \in Int /\ Limit \in Int
    BY LimitType, RecordsAssumption DEF TypeOK
<1> QED BY <1>1, <1>2, <1>3

LEMMA RoomIsThere ==
    ASSUME TypeOK, RecordsBounded, PoolsCounted, n_rec_pools = 0 \/ Room # 0
    PROVE  Len(used) < Limit
<1>1. /\ Len(used) = n_rec_used /\ n_rec_used \in Nat /\ n_rec_free \in Nat
      /\ Limit \in Nat /\ Limit > 0
    BY LimitType, RecordsAssumption DEF TypeOK, RecordsBounded
<1>2. CASE n_rec_pools = 0
    BY <1>1, <1>2 DEF PoolsCounted
<1>3. CASE Room # 0
    <2>1. Room = Limit - (n_rec_free + n_rec_used) /\ n_rec_free + n_rec_used =< Limit
        BY PoolFits DEF RecordsBounded
    <2> QED BY <1>1, <1>3, <2>1
<1> QED BY <1>2, <1>3

\* Each step of the queue's functions is a step of EventQueue or invisible there:
\* a push shows when its record is linked in, a pop when its record is given back.
LEMMA RefinementStep ==
    ASSUME IInv, IInv', [Next]_vars
    PROVE  [Queue!Next]_Queue!vars
<1> USE ThreadsAssumption DEF IInv, TypeOK, Threads, object, locals, Calls, Status,
        PushLabels, PopLabels, IntLabels, PushCritical, PopCritical, IntCritical, Queue!vars
<1>1. ASSUME NEW p \in Pushers, PushLock(p) PROVE [Queue!Next]_Queue!vars
    BY <1>1 DEF PushLock, Lock, Goto
<1>2. ASSUME NEW p \in Pushers, PushReuse(p) PROVE [Queue!Next]_Queue!vars
    <2>1. Queue!Put(p)
        <3>1. Status(p) = "pending" /\ Status(p)' = "done"
            BY <1>2 DEF PushReuse, Store, Goto
        <3>2. \A t \in Pushers \cup Poppers : t # p => Status(t)' = Status(t)
            BY <1>2 DEF PushReuse, Store, Goto
        <3>3. used' = Append(used, data[p]) /\ UNCHANGED data
            BY <1>2 DEF PushReuse, Store
        <3>4. Len(used) < Limit
            BY <3>3, RoomWasThere
        <3> HIDE DEF Calls, Status
        <3>5. Calls' = [Calls EXCEPT ![p] = "done"] /\ Calls[p] = Status(p)
            BY <3>1, <3>2, CallsUpdate
        <3> QED
            BY <3>1, <3>3, <3>4, <3>5 DEF Queue!Put
    <2> QED
        BY <2>1 DEF Queue!Next
<1>3. ASSUME NEW p \in Pushers, PushGrow(p) PROVE [Queue!Next]_Queue!vars
    <2>1. Queue!Put(p)
        <3>1. Status(p) = "pending" /\ Status(p)' = "done"
            BY <1>3 DEF PushGrow, Store, Goto
        <3>2. \A t \in Pushers \cup Poppers : t # p => Status(t)' = Status(t)
            BY <1>3 DEF PushGrow, Store, Goto
        <3>3. used' = Append(used, data[p]) /\ UNCHANGED data
            BY <1>3 DEF PushGrow, Store
        <3>4. Len(used) < Limit
            BY <3>3, RoomWasThere
        <3> HIDE DEF Calls, Status
        <3>5. Calls' = [Calls EXCEPT ![p] = "done"] /\ Calls[p] = Status(p)
            BY <3>1, <3>2, CallsUpdate
        <3> QED
            BY <3>1, <3>3, <3>4, <3>5 DEF Queue!Put
    <2> QED
        BY <2>1 DEF Queue!Next
<1>4. ASSUME NEW p \in Pushers, PushFault(p) PROVE [Queue!Next]_Queue!vars
    BY <1>4 DEF PushFault, Goto
<1>5. ASSUME NEW p \in Pushers, PushNoMemory(p) PROVE [Queue!Next]_Queue!vars
    <2>1. Queue!PutFail(p)
        <3>1. Status(p) = "pending" /\ Status(p)' = "failed"
            BY <1>5 DEF PushNoMemory, Goto, ResultPending
        <3>2. \A t \in Pushers \cup Poppers : t # p => Status(t)' = Status(t)
            BY <1>5 DEF PushNoMemory, Goto
        <3>3. UNCHANGED <<used, data>>
            BY <1>5 DEF PushNoMemory
        <3>4. Len(used) < Limit
            <4>1. n_rec_pools = 0 \/ Room # 0
                BY <1>5 DEF PushNoMemory, AtLimit
            <4> QED
                BY <4>1, RoomIsThere
        <3> HIDE DEF Calls, Status
        <3>5. Calls' = [Calls EXCEPT ![p] = "failed"] /\ Calls[p] = Status(p)
            BY <3>1, <3>2, CallsUpdate
        <3> QED
            BY <3>1, <3>3, <3>4, <3>5 DEF Queue!PutFail
    <2> QED
        BY <2>1 DEF Queue!Next
<1>6. ASSUME NEW p \in Pushers, PushAtLimit(p) PROVE [Queue!Next]_Queue!vars
    BY <1>6 DEF PushAtLimit, Goto
<1>7. ASSUME NEW p \in Pushers, PushSleep(p) PROVE [Queue!Next]_Queue!vars
    BY <1>7 DEF PushSleep, Goto
<1>8. ASSUME NEW p \in Pushers, PushBroadcast(p) PROVE [Queue!Next]_Queue!vars
    BY <1>8 DEF PushBroadcast, Broadcast, Waiting
<1>9. ASSUME NEW p \in Pushers, PushUnlock(p) PROVE [Queue!Next]_Queue!vars
    <2>1. Queue!Return(p)
        BY <1>9 DEF PushUnlock, Unlock, Goto, Queue!Return
    <2> QED
        BY <2>1 DEF Queue!Next
<1>10. ASSUME NEW p \in Pushers, NEW e \in Events, PushCall(p, e) PROVE [Queue!Next]_Queue!vars
    <2>1. Queue!PushCall(p)
        <3>1. Status(p) = "idle" /\ Status(p)' = "pending"
            BY <1>10 DEF PushCall, Enter, Goto
        <3>2. \A t \in Pushers \cup Poppers : t # p => Status(t)' = Status(t)
            BY <1>10 DEF PushCall, Enter, Goto
        <3>3. used' = used /\ data' = [data EXCEPT ![p] = e]
            BY <1>10 DEF PushCall
        <3> HIDE DEF Calls, Status
        <3>5. Calls' = [Calls EXCEPT ![p] = "pending"] /\ Calls[p] = Status(p)
            BY <3>1, <3>2, CallsUpdate
        <3> QED
            BY <3>1, <3>3, <3>5 DEF Queue!PushCall, Queue!Call
    <2> QED
        BY <2>1 DEF Queue!Next
<1>11. ASSUME NEW c \in Poppers, PopLock(c) PROVE [Queue!Next]_Queue!vars
    BY <1>11 DEF PopLock, Lock, Goto
<1>12. ASSUME NEW c \in Poppers, PopWait(c) PROVE [Queue!Next]_Queue!vars
    BY <1>12 DEF PopWait, Goto
<1>13. ASSUME NEW c \in Poppers, PopRelock(c) PROVE [Queue!Next]_Queue!vars
    BY <1>13 DEF PopRelock, Lock, Goto
<1>14. ASSUME NEW c \in Poppers, PopTake(c) PROVE [Queue!Next]_Queue!vars
    <2>1. Queue!Take(c)
        BY <1>14 DEF PopTake, Goto, Queue!Take
    <2> QED
        BY <2>1 DEF Queue!Next
<1>15. ASSUME NEW c \in Poppers, PopNothing(c) PROVE [Queue!Next]_Queue!vars
    <2>1. Queue!TakeNothing(c)
        BY <1>15 DEF PopNothing, Goto, ResultPending, Queue!TakeNothing
    <2> QED
        BY <2>1 DEF Queue!Next
<1>16. ASSUME NEW c \in Poppers, PopUnlock(c) PROVE [Queue!Next]_Queue!vars
    <2>1. Queue!Return(c)
        BY <1>16 DEF PopUnlock, Unlock, Goto, Queue!Return
    <2> QED
        BY <2>1 DEF Queue!Next
<1>17. ASSUME NEW c \in Poppers, PopCall(c) PROVE [Queue!Next]_Queue!vars
    <2>1. Queue!PopCall(c)
        BY <1>17 DEF PopCall, Enter, Goto, Queue!PopCall, Queue!Call
    <2> QED
        BY <2>1 DEF Queue!Next
<1>18. ASSUME NEW c \in Poppers, PopSpurious(c) PROVE [Queue!Next]_Queue!vars
    BY <1>18 DEF PopSpurious, Goto, Waiting
<1>19. ASSUME NEW i \in Interrupters, InterruptLock(i) PROVE [Queue!Next]_Queue!vars
    BY <1>19 DEF InterruptLock, Lock, Goto
<1>20. ASSUME NEW i \in Interrupters, InterruptBroadcast(i) PROVE [Queue!Next]_Queue!vars
    BY <1>20 DEF InterruptBroadcast, Broadcast, Waiting
<1>21. ASSUME NEW i \in Interrupters, InterruptUnlock(i) PROVE [Queue!Next]_Queue!vars
    BY <1>21 DEF InterruptUnlock, Unlock, Goto
<1>22. ASSUME NEW i \in Interrupters, InterruptCall(i) PROVE [Queue!Next]_Queue!vars
    BY <1>22 DEF InterruptCall, Enter, Goto
<1>23. CASE UNCHANGED vars
    BY <1>23 DEF vars
<1> QED
    BY <1>1, <1>2, <1>3, <1>4, <1>5, <1>6, <1>7, <1>8, <1>9, <1>10, <1>11, <1>12, <1>13, <1>14, <1>15, <1>16, <1>17, <1>18, <1>19, <1>20, <1>21, <1>22, <1>23 DEF Next, PushStep, PopStep, InterruptStep

\* Everything log_queue.h promises of the order and the number of events, for
\* any number of threads and wherever the object moves: each event comes out
\* once, in the order of the pushes; a push gives up only for lack of memory; a
\* pop gives up only on an empty queue.
THEOREM Refinement == Spec => ImplementsEventQueue
<1>1. IInv /\ IInv' /\ [Next]_vars => [Queue!Next]_Queue!vars
    BY RefinementStep
<1> QED
    BY Invariance, RefinementInit, <1>1, PTL DEF Spec, ImplementsEventQueue, Queue!Spec
=============================================================================
