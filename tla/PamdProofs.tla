----------------------------- MODULE PamdProofs -----------------------------
(***************************************************************************)
(* Proofs about Pamd: for any queue, any number of clients and signals and *)
(* any threads the kernel runs the handler on, events reach the database   *)
(* in order and once, the driver logs on an open connection only, and main *)
(* frees nothing that a thread still uses.                                 *)
(***************************************************************************)
EXTENDS Pamd, LogQueueProofs, SequenceLemmas

\* The daemon's threads are four.
LEMMA FourThreads ==
    /\ EventThread # DbThread /\ EventThread # ShutdownThread /\ DbThread # ShutdownThread
    /\ Main # EventThread /\ Main # DbThread /\ Main # ShutdownThread
    /\ Threads = Workers
BY ThreadsAssumption, DaemonAssumption DEF Threads, Workers

-----------------------------------------------------------------------------
(* The queue's functions are called as LogQueue has them called.           *)

DbLabels == {"not_started", "loop", "open", "opening", "pop", "popping", "log", "exited"}
EventLabels == {"not_started", "loop", "bind", "serve", "poll", "accept", "recv", "pushing",
                "teardown", "exited"}
ShutdownLabels == {"not_started", "lock", "to_wait", "wait", "relock", "stop", "interrupting", "exited"}
MainLabels == {"spawn_db", "spawn_event", "spawn_shutdown", "join_db", "join_event", "join_shutdown",
               "unlink", "exited"}

Placed ==
    /\ step \in [Workers \cup {Main} -> DbLabels \cup EventLabels \cup ShutdownLabels \cup MainLabels]
    /\ step[DbThread] \in DbLabels
    /\ step[EventThread] \in EventLabels
    /\ step[ShutdownThread] \in ShutdownLabels
    /\ step[Main] \in MainLabels

\* Who serves a client has accepted one.
Served ==
    /\ Placed
    /\ connected \in Nat /\ connected <= MaxClients
    /\ accepted \in Nat /\ accepted <= connected
    /\ step[EventThread] = "recv" => accepted > 0

LEMMA ServedStep == Served /\ [PamdNext]_pamdVars => Served'
<1> SUFFICES ASSUME Served, [PamdNext]_pamdVars
             PROVE  Served'
    OBVIOUS
<1> USE DaemonAssumption, FourThreads 
    DEF Served, Placed, Workers, DbLabels, EventLabels, ShutdownLabels, MainLabels, socket, daemon
<1>1. CASE UNCHANGED <<step, socket>>
    BY <1>1
<1>2. CASE DbStep \/ DbOpenFails \/ DbLogFails
    BY <1>2 DEF DbStep, DbOpenFails, DbLogFails, DbLoop, DbOpenCheck, DbOpens, DbPops, DbPopped, DbLogs,
       DbCloses, Moves, At, Then, Returned
<1>3. CASE EventAccept
    BY <1>3 DEF EventAccept, At, Then
<1>4. CASE EventAcceptAborted \/ EventTeardown
    BY <1>4 DEF EventAcceptAborted, EventTeardown, At, Then
<1>5. CASE EventListens \/ EventListenFails
    BY <1>5 DEF EventListens, EventListenFails, BindsAnd, At, Then
<1>6. CASE \/ EventLoop \/ EventBindInUse \/ EventServe \/ EventPollReady \/ EventPollAgain
           \/ EventPushed \/ EventBindFails \/ EventPollFails \/ EventAcceptFails \/ EventHears
    BY <1>6 DEF EventLoop, EventBindInUse, EventServe, EventPollReady, EventPollAgain, EventPushed,
       EventBindFails, EventPollFails, EventAcceptFails, EventHears, EventReceives, EventDiscards,
       Moves, At, Then, Returned
<1>7. CASE ClientConnects
    BY <1>7 DEF ClientConnects
<1>8. CASE ShutdownStep \/ ShutdownSpurious
    BY <1>8 DEF ShutdownStep, ShutdownSpurious, ShutdownLock, ShutdownWaits, ShutdownRelock,
       ShutdownStops, ShutdownExits, Moves, At, Then, Returned
<1>9. CASE MainStep
    <2>1. CASE MainSpawns
        BY <2>1 DEF MainSpawns, Spawns
    <2>2. CASE MainJoins
        BY <2>2 DEF MainJoins, Joins, Moves, Then
    <2>3. CASE MainExits
        BY <2>3 DEF MainExits, Then
    <2> QED BY <1>9, <2>1, <2>2, <2>3 DEF MainStep
<1>10. ASSUME NEW t \in SignalTargets, SignalArrives(t) \/ HandlerStep(t) PROVE Served'
    BY <1>10 DEF SignalArrives, HandlerStep, HandlerLock, HandlerReturns, Then
<1>11. ASSUME QueueStep PROVE UNCHANGED <<step, socket>>
    BY <1>11 DEF QueueStep, InQueue
<1>12. ASSUME UNCHANGED pamdVars PROVE UNCHANGED <<step, socket>>
    BY <1>12 DEF pamdVars
<1> QED
    BY <1>1, <1>2, <1>3, <1>4, <1>5, <1>6, <1>7, <1>8, <1>9, <1>10, <1>11, <1>12
    DEF PamdNext, EventStep, EventFailure

\* The daemon's three threads use the queue as its callers may: what the proofs say of
\* LogQueue holds in the daemon.
THEOREM ImplementsLogQueue == PamdSpec => Spec
<1>1. PamdInit => Init /\ Served
    BY DaemonAssumption, FourThreads DEF PamdInit, Served, Placed, Workers, DbLabels, EventLabels, ShutdownLabels, MainLabels
<1>2. Served /\ [PamdNext]_pamdVars => [Next]_vars
    <2> SUFFICES ASSUME Served, [PamdNext]_pamdVars PROVE [Next]_vars
        OBVIOUS
    <2> USE DaemonAssumption
    <2>1. CASE QueueStep
        BY <2>1 DEF PamdNext, QueueStep, Next, pamdVars
    <2>2. ASSUME DbStep \/ DbOpenFails \/ DbLogFails PROVE UNCHANGED vars \/ PopCall(DbThread)
        BY <2>2 DEF DbStep, DbOpenFails, DbLogFails, DbLoop, DbOpenCheck, DbOpens, DbPops, DbPopped,
           DbLogs, DbCloses, Moves
    <2>3. ASSUME EventStep \/ EventFailure \/ EventDiscards \/ ClientConnects PROVE UNCHANGED vars
        BY <2>3 DEF EventStep, EventFailure, EventDiscards, ClientConnects, EventLoop, EventListens,
           EventListenFails, BindsAnd, EventBindInUse, EventServe, EventPollReady, EventPollAgain,
           EventPushed, EventBindFails, EventPollFails, EventAccept, EventAcceptAborted,
           EventAcceptFails, EventTeardown, Moves
    <2>4. ASSUME EventReceives PROVE PushCall(EventThread, accepted) /\ accepted \in Events
        BY <2>4 DEF EventReceives, At, Served
    <2>5. ASSUME ShutdownStep \/ ShutdownSpurious PROVE UNCHANGED vars \/ InterruptCall(ShutdownThread)
        BY <2>5 DEF ShutdownStep, ShutdownSpurious, ShutdownLock, ShutdownWaits, ShutdownRelock,
           ShutdownStops, ShutdownExits, Moves
    <2>6. ASSUME MainStep PROVE UNCHANGED vars
        BY <2>6 DEF MainStep, MainSpawns, Spawns, MainJoins, Joins, MainExits, Moves
    <2>7. ASSUME NEW t \in SignalTargets, SignalArrives(t) \/ HandlerStep(t) PROVE UNCHANGED vars
        BY <2>7 DEF SignalArrives, HandlerStep, HandlerLock, HandlerReturns
    <2>8. CASE UNCHANGED pamdVars
        BY <2>8 DEF pamdVars
    <2> QED
        BY <2>1, <2>2, <2>3, <2>4, <2>5, <2>6, <2>7, <2>8 DEF PamdNext, Next, EventHears
<1> QED BY <1>1, <1>2, ServedStep, PTL DEF PamdSpec, Spec

-----------------------------------------------------------------------------
(* The end of the daemon, and the driver's connection.                     *)

\* A thread is inside a function of the queue only where it calls it.
InsideAtCall ==
    /\ pc[DbThread] # "idle" => step[DbThread] = "popping"
    /\ pc[EventThread] # "idle" => step[EventThread] = "pushing"
    /\ pc[ShutdownThread] # "idle" => step[ShutdownThread] = "interrupting"

\* main starts each thread once, and is past a join only when that thread has ended.
MainWaits ==
    /\ step[Main] = "spawn_db" => step[DbThread] = "not_started"
    /\ step[Main] \in {"spawn_db", "spawn_event"} => step[EventThread] = "not_started"
    /\ step[Main] \in {"spawn_db", "spawn_event", "spawn_shutdown"}
          => step[ShutdownThread] = "not_started"
    /\ step[Main] \in {"join_event", "join_shutdown", "unlink", "exited"} => Exited(DbThread)
    /\ step[Main] \in {"join_shutdown", "unlink", "exited"} => Exited(EventThread)
    /\ step[Main] \in {"unlink", "exited"} => Exited(ShutdownThread)
    /\ Exited(Main) => ~socket_file /\ ~db_open

\* The connection is open from where the loop around db_open has ended to where it is
\* closed; a daemon told to stop may have left the loop without one, but does not pop.
OpenWhenUsed ==
    /\ step[DbThread] \in {"popping", "log"} => db_open
    /\ step[DbThread] = "pop" /\ is_running => db_open

DaemonInv == InsideAtCall /\ MainWaits /\ OpenWhenUsed

\* A step inside the queue's functions is one of a thread that has called one, and brings
\* nobody else inside.
LEMMA QueueStepsInside ==
    ASSUME TypeOK, QueueStep
    PROVE  /\ UNCHANGED <<step, daemon>>
           /\ \A t \in Workers : pc[t] = "idle" => pc'[t] = "idle"
<1> USE FourThreads, DaemonAssumption DEF TypeOK, Workers
<1>1. UNCHANGED <<step, daemon>>
    BY DEF QueueStep, InQueue
<1>2. ASSUME NEW t \in Workers, PushStep(t) PROVE \A u \in Workers : pc[u] = "idle" => pc'[u] = "idle"
    BY <1>2 DEF PushStep, PushLock, PushReuse, PushGrow, PushFault, PushNoMemory, PushAtLimit,
       PushSleep, PushBroadcast, PushUnlock, Lock, Unlock, Store, Broadcast, Waiting, Goto
<1>3. ASSUME NEW t \in Workers, PopStep(t) \/ PopSpurious(t)
      PROVE  \A u \in Workers : pc[u] = "idle" => pc'[u] = "idle"
    BY <1>3 DEF PopStep, PopSpurious, PopLock, PopWait, PopRelock, PopTake, PopNothing, PopUnlock,
       Lock, Unlock, Waiting, Goto
<1>4. ASSUME NEW t \in Workers, InterruptStep(t)
      PROVE  \A u \in Workers : pc[u] = "idle" => pc'[u] = "idle"
    BY <1>4 DEF InterruptStep, InterruptLock, InterruptBroadcast, InterruptUnlock,
       Lock, Unlock, Broadcast, Waiting, Goto
<1> QED BY <1>1, <1>2, <1>3, <1>4 DEF QueueStep

LEMMA DaemonStep == TypeOK /\ Served /\ DaemonInv /\ [PamdNext]_pamdVars => DaemonInv'
<1> SUFFICES ASSUME TypeOK, Served, DaemonInv, [PamdNext]_pamdVars
             PROVE  DaemonInv'
    OBVIOUS
<1> USE DaemonAssumption, FourThreads
    DEF TypeOK, Served, Placed, DaemonInv, InsideAtCall, MainWaits, OpenWhenUsed, Exited, Workers,
        DbLabels, EventLabels, ShutdownLabels, MainLabels, At, Then, daemon, socket, database
<1>1. CASE QueueStep
    BY <1>1, QueueStepsInside
<1>2. CASE DbStep \/ DbOpenFails \/ DbLogFails
    <2>1. CASE DbLoop \/ DbOpenCheck \/ DbOpenFails \/ DbLogFails \/ DbPopped
        BY <2>1 DEF DbLoop, DbOpenCheck, DbOpenFails, DbLogFails, DbPopped, Moves, Returned, vars
    <2>2. CASE DbOpens \/ DbLogs \/ DbCloses
        BY <2>2 DEF DbOpens, DbLogs, DbCloses, vars
    <2>3. CASE DbPops
        BY <2>3 DEF DbPops, PopCall, Enter, Goto
    <2> QED BY <1>2, <2>1, <2>2, <2>3 DEF DbStep
<1>3. CASE EventStep \/ EventFailure \/ EventDiscards \/ ClientConnects
    <2>1. CASE EventLoop \/ EventBindInUse \/ EventServe \/ EventBindFails
        BY <2>1 DEF EventLoop, EventBindInUse, EventServe, EventBindFails, Moves, vars
    <2>2. CASE EventPollReady \/ EventPollAgain \/ EventPollFails \/ EventAcceptFails
        BY <2>2 DEF EventPollReady, EventPollAgain, EventPollFails, EventAcceptFails, Moves, vars
    <2>3. CASE EventPushed \/ EventDiscards \/ ClientConnects
        BY <2>3 DEF EventPushed, EventDiscards, ClientConnects, Moves, Returned, vars
    <2>4. CASE EventListens \/ EventListenFails
        BY <2>4 DEF EventListens, EventListenFails, BindsAnd, vars
    <2>5. CASE EventAccept \/ EventAcceptAborted \/ EventTeardown
        BY <2>5 DEF EventAccept, EventAcceptAborted, EventTeardown, vars
    <2> QED BY <1>3, <2>1, <2>2, <2>3, <2>4, <2>5 DEF EventStep, EventFailure
<1>4. CASE EventReceives
    BY <1>4 DEF EventReceives, PushCall, Enter, Goto
<1>5. CASE ShutdownStep \/ ShutdownSpurious
    <2>1. CASE ShutdownLock \/ ShutdownWaits \/ ShutdownRelock \/ ShutdownExits \/ ShutdownSpurious
        BY <2>1 DEF ShutdownLock, ShutdownWaits, ShutdownRelock, ShutdownExits, ShutdownSpurious,
           Moves, Returned, vars
    <2>2. CASE ShutdownStops
        BY <2>2 DEF ShutdownStops, InterruptCall, Enter, Goto
    <2> QED BY <1>5, <2>1, <2>2 DEF ShutdownStep
<1>6. CASE MainStep
    <2>1. CASE MainSpawns
        BY <2>1 DEF MainSpawns, Spawns, vars
    <2>2. CASE MainJoins
        BY <2>2 DEF MainJoins, Joins, Moves, vars
    <2>3. CASE MainExits
        BY <2>3 DEF MainExits, vars
    <2> QED BY <1>6, <2>1, <2>2, <2>3 DEF MainStep
<1>7. ASSUME NEW t \in SignalTargets, SignalArrives(t) \/ HandlerStep(t) PROVE DaemonInv'
    BY <1>7 DEF SignalArrives, HandlerStep, HandlerLock, HandlerReturns, vars
<1>8. CASE UNCHANGED pamdVars
    BY <1>8 DEF pamdVars, vars
<1> QED
    BY <1>1, <1>2, <1>3, <1>4, <1>5, <1>6, <1>7, <1>8 DEF PamdNext, EventHears

\* The inductive invariant of the daemon's threads.
THEOREM DaemonInvariance == PamdSpec => [](IInv /\ Served /\ DaemonInv)
<1>1. PamdInit => Served /\ DaemonInv
    BY DaemonAssumption, FourThreads
    DEF PamdInit, Init, Served, Placed, Workers, DbLabels, EventLabels, ShutdownLabels, MainLabels,
        DaemonInv, InsideAtCall, MainWaits, OpenWhenUsed, Exited
<1>2. IInv => TypeOK
    BY DEF IInv
<1>3. PamdSpec => []IInv
    BY ImplementsLogQueue, Invariance, PTL
<1> QED
    BY <1>1, <1>2, <1>3, ServedStep, DaemonStep, PTL DEF PamdSpec

\* iptracking-pamd.c:61-94: whatever fails and whenever the daemon is told to stop, the
\* driver is asked to log on a connection that is open.
THEOREM LogsWhenOpen == PamdSpec => []LogsOnOpenConnection
<1>1. DaemonInv => LogsOnOpenConnection
    BY DEF DaemonInv, OpenWhenUsed, LogsOnOpenConnection
<1> QED BY <1>1, DaemonInvariance, PTL

\* iptracking-pamd.c:647-658: main frees what the threads share after the last of them.
THEOREM CleanEnd == PamdSpec => []CleanExit
<1>1. TypeOK /\ DaemonInv => CleanExit
    BY FourThreads
    DEF DaemonInv, InsideAtCall, MainWaits, Exited, Workers, CleanExit
<1>2. IInv => TypeOK
    BY DEF IInv
<1> QED BY <1>1, <1>2, DaemonInvariance, PTL

-----------------------------------------------------------------------------
(* The order of the events.                                                *)

\* What has come out of the event thread, oldest first.
Taken == (logged \o InHand) \o used

\* The event thread has a new event that is not in the queue yet.
Offering ==
    \/ step[EventThread] = "recv"
    \/ pc[EventThread] \in {"push_lock", "push_alloc", "push_sleep"}

\* An event is the number of its client.  The new one is greater than all before it.
OrderInv ==
    /\ logged \in Seq(Nat) /\ InHand \in Seq(Nat) /\ used \in Seq(Nat)
    /\ \A i \in DOMAIN Taken : Taken[i] > 0
    /\ Increasing(Taken) /\ AtMost(Taken, accepted)
    /\ Offering => accepted > 0 /\ AtMost(Taken, accepted - 1)
    /\ pc[EventThread] \in {"push_lock", "push_alloc", "push_sleep"} => data[EventThread] = accepted

AllInv == IInv /\ Served /\ DaemonInv /\ OrderInv

\* Fewer of them, or a greater number of the client, is as good; but for the thread's own
\* accept() nobody makes it offer an event.
LEMMA OrderKept ==
    ASSUME OrderInv, accepted \in Nat, accepted' \in Nat, accepted' >= accepted,
           logged' \in Seq(Nat), InHand' \in Seq(Nat), used' \in Seq(Nat),
           Taken' = Taken,
           Offering' => accepted' > accepted \/ (Offering /\ accepted' = accepted),
           pc'[EventThread] \in {"push_lock", "push_alloc", "push_sleep"}
              => data'[EventThread] = accepted'
    PROVE  OrderInv'
<1>1. Taken \in Seq(Nat)
    BY ConcatProperties DEF OrderInv, Taken
<1>2. AtMost(Taken, accepted')
    BY <1>1 DEF OrderInv, AtMost
<1>3. Offering' => accepted' > 0 /\ AtMost(Taken, accepted' - 1)
    BY <1>1 DEF OrderInv, AtMost
<1> HIDE DEF Offering
<1> QED BY <1>2, <1>3 DEF OrderInv

\* The new event goes to the end.
LEMMA OrderStored ==
    ASSUME AllInv, PushReuse(EventThread) \/ PushGrow(EventThread), UNCHANGED <<step, daemon>>
    PROVE  OrderInv'
<1> USE FourThreads, DaemonAssumption
<1>1. /\ pc[EventThread] = "push_alloc" /\ Offering /\ data[EventThread] = accepted
      /\ accepted \in Nat /\ accepted > 0 /\ accepted - 1 \in Nat
      /\ Increasing(Taken) /\ AtMost(Taken, accepted - 1) /\ used \in Seq(Nat)
      /\ logged \in Seq(Nat) /\ InHand \in Seq(Nat)
    BY DEF PushReuse, PushGrow, AllInv, OrderInv, Offering, Served
<1>2. /\ used' = Append(used, accepted)
      /\ pc' = [pc EXCEPT ![EventThread] = "push_broadcast"]
      /\ rc' = [rc EXCEPT ![EventThread] = TRUE]
      /\ UNCHANGED data
    BY <1>1 DEF PushReuse, PushGrow, Store, Goto
<1>3. UNCHANGED <<step, accepted, logged>>
    BY DEF daemon, socket, database
<1>4. InHand' = InHand
    BY <1>2, <1>3 DEF InHand, AllInv, IInv, TypeOK
<1>5. used' \in Seq(Nat) /\ logged \o InHand \in Seq(Nat)
    BY <1>1, <1>2, AppendProperties, ConcatProperties
<1>6. Taken \in Seq(Nat) /\ Taken' = Append(Taken, accepted)
    <2>1. Taken' = (logged \o InHand) \o Append(used, accepted)
        <3>1. Taken' = (logged' \o InHand') \o used'
            BY DEF Taken
        <3>2. used' = Append(used, accepted) /\ logged' = logged
            BY <1>2, <1>3
        <3> QED BY <3>1, <3>2, <1>4
    <2> DEFINE before == logged \o InHand
    <2>2. /\ before \o Append(used, accepted) = Append(before \o used, accepted)
          /\ before \o used \in Seq(Nat)
        <3>1. before \in Seq(Nat) /\ used \in Seq(Nat) /\ accepted \in Nat
            BY <1>1, <1>5
        <3> HIDE DEF before
        <3>2. before \o Append(used, accepted) = Append(before \o used, accepted)
            BY <3>1, AppendBehind
        <3>3. before \o used \in Seq(Nat)
            BY <3>1, ConcatProperties
        <3> QED BY <3>2, <3>3
    <2> QED BY <2>1, <2>2 DEF Taken
<1>7. Increasing(Taken') /\ AtMost(Taken', accepted)
    <2>1. (accepted - 1) + 1 = accepted
        BY <1>1
    <2> QED BY <1>1, <1>6, <2>1, AppendIncreases
<1>8. \A i \in DOMAIN Taken' : Taken'[i] > 0
    BY <1>1, <1>6 DEF AllInv, OrderInv
<1>9. ~Offering' /\ pc'[EventThread] = "push_broadcast"
    <2>1. pc'[EventThread] = "push_broadcast"
        BY <1>2 DEF AllInv, IInv, TypeOK, Workers
    <2>2. step'[EventThread] = "pushing"
        BY <1>1, <1>3 DEF AllInv, DaemonInv, InsideAtCall
    <2> QED BY <2>1, <2>2 DEF Offering
<1> QED BY <1>1, <1>3, <1>4, <1>5, <1>7, <1>8, <1>9 DEF OrderInv

\* A pop takes the oldest event into its hand.
LEMMA OrderPopped ==
    ASSUME AllInv, PopTake(DbThread), UNCHANGED <<step, daemon>>
    PROVE  OrderInv'
<1> USE FourThreads, DaemonAssumption
<1>1. /\ used # <<>> /\ used \in Seq(Nat) /\ logged \in Seq(Nat)
      /\ used' = Tail(used)
      /\ data' = [data EXCEPT ![DbThread] = Head(used)]
      /\ rc' = [rc EXCEPT ![DbThread] = TRUE]
      /\ pc' = [pc EXCEPT ![DbThread] = "pop_unlock"]
      /\ pc[DbThread] \in {"pop_check", "pop_woken"}
    BY DEF PopTake, Goto, AllInv, OrderInv
<1>2. UNCHANGED <<step, accepted, logged>>
    BY DEF daemon, socket, database
<1>3. step[DbThread] = "popping" /\ ~rc[DbThread]
    BY <1>1 DEF AllInv, DaemonInv, InsideAtCall, IInv, ResultPending, PopLabels, PopCritical
<1>4. InHand = <<>>
    BY <1>3 DEF InHand
<1>5. InHand' = <<Head(used)>>
    BY <1>1, <1>2, <1>3 DEF InHand, AllInv, IInv, TypeOK
<1>6. /\ Head(used) \in Nat /\ Tail(used) \in Seq(Nat) /\ <<Head(used)>> \in Seq(Nat)
    BY <1>1, HeadTailProperties
<1>7. Taken' = Taken
    <2>1. logged \o <<Head(used)>> = Append(logged, Head(used))
        BY <1>1, <1>6, AppendIsConcat
    <2>2. logged \o InHand = logged
        BY <1>1, <1>4, ConcatEmptySeq
    <2>3. Append(logged, Head(used)) \o Tail(used) = logged \o used
        BY <1>1, HandedOn
    <2>4. Taken' = (logged \o <<Head(used)>>) \o Tail(used)
        BY <1>1, <1>2, <1>5 DEF Taken
    <2>5. Taken = (logged \o InHand) \o used
        BY DEF Taken
    <2> QED BY <2>1, <2>2, <2>3, <2>4, <2>5
<1>8. /\ pc'[EventThread] = pc[EventThread] /\ data'[EventThread] = data[EventThread]
      /\ accepted \in Nat
    BY <1>1 DEF AllInv, IInv, TypeOK, Served
<1>9. Offering' => Offering
    BY <1>2, <1>8 DEF Offering
<1>10. /\ OrderInv /\ accepted' = accepted
       /\ pc'[EventThread] \in {"push_lock", "push_alloc", "push_sleep"} => data'[EventThread] = accepted'
    BY <1>2, <1>8 DEF AllInv, OrderInv
<1> HIDE DEF Taken, InHand, Offering, OrderInv
<1> QED BY <1>1, <1>2, <1>5, <1>6, <1>7, <1>8, <1>9, <1>10, OrderKept

\* The event in hand goes to the database, or is given up.
LEMMA OrderLogged ==
    ASSUME AllInv, DbLogs \/ DbLogFails
    PROVE  OrderInv'
<1> USE FourThreads, DaemonAssumption
<1>1. /\ step[DbThread] = "log" /\ step' = [step EXCEPT ![DbThread] = "pop"]
      /\ UNCHANGED <<vars, accepted>>
    BY DEF DbLogs, DbLogFails, Moves, At, Then, daemon, socket
<1>2. /\ InHand = <<data[DbThread]>> /\ InHand \in Seq(Nat)
      /\ logged \in Seq(Nat) /\ used \in Seq(Nat)
    BY <1>1 DEF InHand, AllInv, OrderInv
<1>3. data[DbThread] \in Nat
    <2>1. InHand[1] \in Nat
        BY <1>2
    <2> QED BY <1>2, <2>1
<1>4. InHand' = <<>> /\ used' = used
    BY <1>1 DEF InHand, vars, object, AllInv, Served, Placed, Workers
<1>5. Offering' => Offering
    BY <1>1 DEF Offering, vars, AllInv, Served, Placed, Workers
<1>6. /\ OrderInv /\ accepted \in Nat /\ accepted' = accepted
      /\ pc'[EventThread] \in {"push_lock", "push_alloc", "push_sleep"} => data'[EventThread] = accepted'
    BY <1>1 DEF AllInv, OrderInv, Served, vars, locals
<1>7. CASE DbLogs
    <2>1. logged' = Append(logged, data[DbThread])
        BY <1>7 DEF DbLogs
    <2>2. logged' = logged \o InHand /\ logged' \in Seq(Nat)
        BY <1>2, <1>3, <2>1, AppendIsConcat, AppendProperties
    <2>3. Taken' = Taken
        BY <1>4, <2>2, ConcatEmptySeq DEF Taken
    <2>4. InHand' \in Seq(Nat) /\ used' \in Seq(Nat)
        BY <1>2, <1>4, EmptySeq
    <2> HIDE DEF Taken, InHand, Offering, OrderInv
    <2> QED BY <1>5, <1>6, <2>2, <2>3, <2>4, OrderKept
<1>8. CASE DbLogFails
    <2>1. logged' = logged
        BY <1>8 DEF DbLogFails, Moves, daemon, database
    <2>2. Taken' = logged \o used
        BY <1>2, <1>4, <2>1, ConcatEmptySeq DEF Taken
    <2>3. Increasing(Taken') /\ AtMost(Taken', accepted)
        BY <1>2, <1>6, <2>2, MiddleDropped DEF OrderInv, Taken
    <2>4. Offering => accepted > 0 /\ AtMost(Taken', accepted - 1)
        <3>1. SUFFICES ASSUME Offering PROVE accepted > 0 /\ AtMost(Taken', accepted - 1)
            OBVIOUS
        <3>2. accepted > 0 /\ accepted - 1 \in Nat /\ AtMost(Taken, accepted - 1) /\ Increasing(Taken)
            BY <1>6, <3>1 DEF OrderInv
        <3> QED BY <1>2, <2>2, <3>2, MiddleDropped DEF Taken
    <2>5. \A i \in DOMAIN Taken' : Taken'[i] > 0
        <3>1. (logged \o InHand) \in Seq(Nat) /\ Len(logged \o InHand) = Len(logged) + 1
            BY <1>2, ConcatProperties
        <3>2. /\ \A i \in 1..Len(logged) : Taken[i] = logged[i] /\ i \in DOMAIN Taken
              /\ \A i \in 1..Len(used) : /\ Taken[i + Len(logged) + 1] = used[i]
                                         /\ i + Len(logged) + 1 \in DOMAIN Taken
            BY <1>2, <3>1, ConcatProperties DEF Taken
        <3>3. (\A i \in 1..Len(logged) : logged[i] > 0) /\ (\A i \in 1..Len(used) : used[i] > 0)
            BY <1>6, <3>2 DEF OrderInv
        <3> QED BY <1>2, <2>2, <3>3, ConcatProperties
    <2>6. logged' \in Seq(Nat) /\ InHand' \in Seq(Nat) /\ used' \in Seq(Nat)
        BY <1>2, <1>4, <2>1, EmptySeq
    <2> QED BY <1>5, <1>6, <2>3, <2>4, <2>5, <2>6 DEF OrderInv
<1> QED BY <1>7, <1>8

\* A step that neither takes nor gives an event.
LEMMA OrderQuiet ==
    ASSUME AllInv, UNCHANGED <<logged, used>>, InHand' = InHand,
           accepted' \in Nat, accepted' >= accepted,
           Offering' => accepted' > accepted \/ (Offering /\ accepted' = accepted),
           pc'[EventThread] \in {"push_lock", "push_alloc", "push_sleep"}
              => data'[EventThread] = accepted'
    PROVE  OrderInv'
<1>1. OrderInv /\ accepted \in Nat
    BY DEF AllInv, Served
<1>2. Taken' = Taken
    BY DEF Taken
<1>3. logged' \in Seq(Nat) /\ InHand' \in Seq(Nat) /\ used' \in Seq(Nat)
    BY <1>1 DEF OrderInv
<1> HIDE DEF Taken, InHand, Offering, OrderInv
<1> QED BY <1>1, <1>2, <1>3, OrderKept

\* The steps inside the queue's functions.
LEMMA OrderInQueue ==
    ASSUME AllInv, QueueStep
    PROVE  OrderInv'
<1> USE FourThreads, DaemonAssumption
<1>1. UNCHANGED <<step, daemon>> /\ accepted \in Nat
    BY DEF QueueStep, InQueue, AllInv, Served
<1>2. CASE PushReuse(EventThread) \/ PushGrow(EventThread)
    BY <1>1, <1>2, OrderStored
<1>3. CASE PopTake(DbThread)
    BY <1>1, <1>3, OrderPopped
<1>4. CASE UNCHANGED <<used, data, rc>> /\ (pc'[EventThread] \in {"push_lock", "push_alloc", "push_sleep"}
                                            => pc[EventThread] \in {"push_lock", "push_alloc", "push_sleep"})
    <2>1. InHand' = InHand /\ UNCHANGED <<logged, accepted>>
        BY <1>1, <1>4 DEF InHand, daemon, socket, database
    <2>2. Offering' => Offering
        BY <1>1, <1>4 DEF Offering
    <2>3. pc'[EventThread] \in {"push_lock", "push_alloc", "push_sleep"} => data'[EventThread] = accepted'
        BY <1>4, <2>1 DEF AllInv, OrderInv
    <2> HIDE DEF InHand, Offering
    <2> QED BY <1>1, <1>4, <2>1, <2>2, <2>3, OrderQuiet
<1>5. ASSUME PushStep(EventThread), ~PushReuse(EventThread), ~PushGrow(EventThread)
      PROVE  UNCHANGED <<used, data, rc>> /\ (pc'[EventThread] \in {"push_lock", "push_alloc", "push_sleep"}
                                            => pc[EventThread] \in {"push_lock", "push_alloc", "push_sleep"})
    BY <1>5 DEF PushStep, PushLock, PushFault, PushNoMemory, PushAtLimit, PushSleep, PushBroadcast,
       PushUnlock, Lock, Unlock, Broadcast, Goto, object, locals, AllInv, IInv, TypeOK, Workers
<1>6. ASSUME PopStep(DbThread) \/ PopSpurious(DbThread), ~PopTake(DbThread)
      PROVE  UNCHANGED <<used, data, rc>> /\ pc'[EventThread] = pc[EventThread]
    BY <1>6 DEF PopStep, PopSpurious, PopLock, PopWait, PopRelock, PopNothing, PopUnlock,
       Lock, Unlock, Goto, object, locals, AllInv, IInv, TypeOK, Workers
<1>7. ASSUME InterruptStep(ShutdownThread)
      PROVE  UNCHANGED <<used, data, rc>> /\ pc'[EventThread] = pc[EventThread]
    BY <1>7 DEF InterruptStep, InterruptLock, InterruptBroadcast, InterruptUnlock,
       Lock, Unlock, Broadcast, Waiting, Goto, object, locals, AllInv, IInv, TypeOK, Workers
<1> QED BY <1>2, <1>3, <1>4, <1>5, <1>6, <1>7 DEF QueueStep

LEMMA OrderStep == AllInv /\ [PamdNext]_pamdVars => OrderInv'
<1> SUFFICES ASSUME AllInv, [PamdNext]_pamdVars
             PROVE  OrderInv'
    OBVIOUS
<1> USE FourThreads, DaemonAssumption
<1> DEFINE Pending == {"push_lock", "push_alloc", "push_sleep"}
<1>1. /\ Placed /\ accepted \in Nat /\ connected \in Nat /\ accepted <= connected
      /\ pc[EventThread] # "idle" => step[EventThread] = "pushing"
      /\ pc[EventThread] \in Pending => data[EventThread] = accepted
      /\ pc \in [Workers -> PushLabels \cup PopLabels \cup IntLabels]
      /\ rc \in [{EventThread, DbThread} -> BOOLEAN]
      /\ data \in [{EventThread, DbThread} -> Items]
    BY DEF AllInv, Served, DaemonInv, InsideAtCall, OrderInv, IInv, TypeOK
<1>2. ASSUME UNCHANGED <<vars, logged, accepted>>, InHand' = InHand,
             step'[EventThread] = "recv" => step[EventThread] = "recv"
      PROVE  OrderInv'
    <2>1. UNCHANGED <<used, pc, data>>
        BY <1>2 DEF vars, object, locals
    <2>2. Offering' => Offering
        BY <1>2, <2>1 DEF Offering
    <2> HIDE DEF InHand, Offering
    <2> QED BY <1>1, <1>2, <2>1, <2>2, OrderQuiet
<1>3. CASE DbStep \/ DbOpenFails \/ DbLogFails
    <2>1. CASE DbLogs \/ DbLogFails
        BY <2>1, OrderLogged
    <2>2. CASE DbLoop \/ DbOpenCheck \/ DbOpens \/ DbOpenFails \/ DbPopped \/ DbCloses
        <3>1. InHand' = InHand
            BY <1>1, <2>2 DEF DbLoop, DbOpenCheck, DbOpens, DbOpenFails, DbPopped, DbCloses, Moves,
               Returned, At, Then, InHand, Placed, Workers, DbLabels, vars, locals
        <3>2. UNCHANGED <<vars, logged, accepted>> /\ step'[EventThread] = step[EventThread]
            BY <1>1, <2>2 DEF DbLoop, DbOpenCheck, DbOpens, DbOpenFails, DbPopped, DbCloses, Moves,
               Returned, At, Then, daemon, socket, database, Placed, Workers
        <3> QED BY <1>2, <3>1, <3>2
    <2>3. CASE DbPops
        <3>1. /\ UNCHANGED <<used, data, logged, accepted>>
              /\ step[DbThread] = "pop" /\ step' = [step EXCEPT ![DbThread] = "popping"]
              /\ rc' = [rc EXCEPT ![DbThread] = FALSE]
              /\ pc' = [pc EXCEPT ![DbThread] = "pop_lock"]
            BY <2>3 DEF DbPops, PopCall, Enter, Goto, At, Then, daemon, socket, database, object
        <3>2. InHand' = InHand
            BY <1>1, <3>1 DEF InHand, Placed, Workers
        <3>3. pc'[EventThread] = pc[EventThread] /\ step'[EventThread] = step[EventThread]
            BY <1>1, <3>1 DEF Placed, Workers
        <3>4. Offering' => Offering
            BY <3>3 DEF Offering
        <3> HIDE DEF InHand, Offering
        <3> QED BY <1>1, <3>1, <3>2, <3>3, <3>4, OrderQuiet
    <2> QED BY <1>3, <2>1, <2>2, <2>3 DEF DbStep
<1>4. CASE EventReceives
    <2>1. /\ step[EventThread] = "recv" /\ UNCHANGED <<used, logged, accepted>>
          /\ step' = [step EXCEPT ![EventThread] = "pushing"]
          /\ data' = [data EXCEPT ![EventThread] = accepted]
          /\ rc' = [rc EXCEPT ![EventThread] = FALSE]
        BY <1>4 DEF EventReceives, PushCall, At, Then, daemon, socket, database, object
    <2>2. InHand' = InHand
        BY <1>1, <2>1 DEF InHand, Placed, Workers
    <2>3. Offering /\ data'[EventThread] = accepted'
        BY <1>1, <2>1 DEF Offering
    <2> HIDE DEF InHand, Offering
    <2> QED BY <1>1, <2>1, <2>2, <2>3, OrderQuiet
<1>5. CASE EventAccept
    <2>1. /\ step[EventThread] = "accept" /\ UNCHANGED <<vars, logged>>
          /\ step' = [step EXCEPT ![EventThread] = "recv"]
          /\ accepted' = accepted + 1
        BY <1>5 DEF EventAccept, At, Then, database
    <2>2. UNCHANGED <<used, pc, data, rc>> /\ pc[EventThread] = "idle"
        BY <1>1, <2>1 DEF vars, object, locals
    <2>3. InHand' = InHand
        BY <1>1, <2>1, <2>2 DEF InHand, Placed, Workers
    <2> HIDE DEF InHand, Offering
    <2> QED BY <1>1, <2>1, <2>2, <2>3, OrderQuiet
<1>6. CASE EventAcceptAborted \/ EventTeardown
    <2>1. /\ step[EventThread] \in {"accept", "teardown"} /\ UNCHANGED <<vars, logged>>
          /\ \E l \in {"serve", "loop"} : step' = [step EXCEPT ![EventThread] = l]
          /\ accepted' \in Nat /\ accepted' >= accepted
        BY <1>1, <1>6 DEF EventAcceptAborted, EventTeardown, At, Then, database
    <2>2. UNCHANGED <<used, pc, data, rc>> /\ pc[EventThread] = "idle"
        BY <1>1, <2>1 DEF vars, object, locals
    <2>3. InHand' = InHand /\ step'[EventThread] # "recv"
        BY <1>1, <2>1, <2>2 DEF InHand, Placed, Workers
    <2>4. ~Offering'
        BY <2>2, <2>3 DEF Offering
    <2> HIDE DEF InHand, Offering
    <2> QED BY <1>1, <2>1, <2>2, <2>3, <2>4, OrderQuiet
<1>7. CASE \/ EventLoop \/ EventBindInUse \/ EventServe \/ EventPollReady \/ EventPollAgain
           \/ EventPushed \/ EventBindFails \/ EventPollFails \/ EventAcceptFails \/ EventDiscards
           \/ EventListens \/ EventListenFails
    <2>1. /\ UNCHANGED <<vars, logged, accepted>>
          /\ \E l \in EventLabels \ {"recv"} : step' = [step EXCEPT ![EventThread] = l]
        BY <1>7 DEF EventLoop, EventBindInUse, EventServe, EventPollReady, EventPollAgain,
           EventPushed, EventBindFails, EventPollFails, EventAcceptFails, EventDiscards,
           EventListens, EventListenFails, BindsAnd, Moves, Returned, At, Then, daemon, socket,
           database, EventLabels
    <2>2. InHand' = InHand /\ step'[EventThread] # "recv"
        BY <1>1, <2>1 DEF InHand, Placed, Workers, vars, locals
    <2> QED BY <1>2, <2>1, <2>2
<1>8. ASSUME UNCHANGED <<vars, logged, accepted>>,
             \A t \in {DbThread, EventThread} :
                step'[t] = step[t] \/ (step[t] = "not_started" /\ step'[t] = "loop")
      PROVE  OrderInv'
    <2>1. InHand' = InHand
        BY <1>8 DEF InHand, vars, locals
    <2>2. step'[EventThread] = "recv" => step[EventThread] = "recv"
        BY <1>8
    <2> QED BY <1>2, <1>8, <2>1, <2>2
<1>9. CASE ClientConnects \/ (\E t \in SignalTargets : SignalArrives(t) \/ HandlerStep(t))
    BY <1>1, <1>8, <1>9 DEF ClientConnects, SignalArrives, HandlerStep, HandlerLock, HandlerReturns,
       Then, socket, database, Placed, Workers
<1>10. CASE MainStep
    <2>1. CASE MainSpawns
        <3>1. /\ step[Main] = "spawn_db" => step[DbThread] = "not_started"
              /\ step[Main] = "spawn_event" => step[EventThread] = "not_started"
            BY DEF AllInv, DaemonInv, MainWaits
        <3> QED
            BY <1>1, <1>8, <2>1, <3>1 DEF MainSpawns, Spawns, At, daemon, socket, database, Placed, Workers
    <2>2. CASE MainJoins
        BY <1>1, <1>8, <2>2 DEF MainJoins, Joins, Moves, Then, daemon, socket, database, Placed, Workers
    <2>3. CASE MainExits
        BY <1>1, <1>8, <2>3 DEF MainExits, Then, Placed, Workers
    <2> QED BY <1>10, <2>1, <2>2, <2>3 DEF MainStep
<1>11. CASE ShutdownStep \/ ShutdownSpurious
    <2>1. CASE ShutdownStops
        <3>1. /\ UNCHANGED <<used, data, rc, logged, accepted>>
              /\ step' = [step EXCEPT ![ShutdownThread] = "interrupting"]
              /\ pc' = [pc EXCEPT ![ShutdownThread] = "int_lock"]
            BY <2>1 DEF ShutdownStops, InterruptCall, Enter, Goto, Then, socket, database, object
        <3>2. InHand' = InHand
            BY <1>1, <3>1 DEF InHand, Placed, Workers
        <3>3. pc'[EventThread] = pc[EventThread] /\ step'[EventThread] = step[EventThread]
            BY <1>1, <3>1 DEF Placed, Workers
        <3>4. Offering' => Offering
            BY <3>3 DEF Offering
        <3> HIDE DEF InHand, Offering
        <3> QED BY <1>1, <3>1, <3>2, <3>3, <3>4, OrderQuiet
    <2>2. CASE ShutdownLock \/ ShutdownWaits \/ ShutdownRelock \/ ShutdownExits \/ ShutdownSpurious
        BY <1>1, <1>8, <2>2 DEF ShutdownLock, ShutdownWaits, ShutdownRelock, ShutdownExits,
           ShutdownSpurious, Moves, Then, daemon, socket, database, Placed, Workers
    <2> QED BY <1>11, <2>1, <2>2 DEF ShutdownStep
<1>12. CASE QueueStep
    BY <1>12, OrderInQueue
<1>13. CASE UNCHANGED pamdVars
    BY <1>8, <1>13 DEF pamdVars, daemon, socket, database
<1> QED
    BY <1>3, <1>4, <1>5, <1>6, <1>7, <1>9, <1>10, <1>11, <1>12, <1>13
    DEF PamdNext, EventStep, EventFailure, EventHears

\* iptracking-pamd.c:71-72, 222-226, log_queue.c: from accept() to the database no event is
\* made up, duplicated or overtakes another, however the threads and the handlers interleave,
\* and whether or not the queue's object moves.
THEOREM InOrder == PamdSpec => []EventsInOrder
<1>1. PamdInit => OrderInv
    <2>1. SUFFICES ASSUME PamdInit PROVE OrderInv
        OBVIOUS
    <2>2. logged = <<>> /\ InHand = <<>> /\ used = <<>> /\ Taken = <<>>
        BY <2>1, FourThreads DEF PamdInit, Init, InHand, Taken, Workers
    <2>3. ~Offering
        BY <2>1, FourThreads DEF PamdInit, Init, Offering, Workers
    <2>4. pc[EventThread] = "idle"
        BY <2>1, FourThreads DEF PamdInit, Init, Workers
    <2>5. <<>> \in Seq(Nat) /\ DOMAIN <<>> = {}
        OBVIOUS
    <2> HIDE DEF InHand, Taken, Offering
    <2> QED BY <2>2, <2>3, <2>4, <2>5 DEF OrderInv, Increasing, AtMost
<1>2. PamdSpec => []OrderInv
    BY <1>1, DaemonInvariance, OrderStep, PTL DEF PamdSpec, AllInv
<1>3. Served /\ OrderInv => EventsInOrder
    <2>1. SUFFICES ASSUME Served, OrderInv PROVE EventsInOrder
        OBVIOUS
    <2>2. \A i \in DOMAIN Taken : Taken[i] \in Nat
        <3>1. logged \o InHand \in Seq(Nat)
            BY <2>1, ConcatProperties DEF OrderInv
        <3>2. Taken \in Seq(Nat)
            BY <2>1, <3>1, ConcatProperties DEF OrderInv, Taken
        <3> QED BY <3>2
    <2>3. \A i \in DOMAIN Taken : Taken[i] \in Events
        BY <2>1, <2>2, DaemonAssumption DEF Served, OrderInv, AtMost
    <2> QED BY <2>1, <2>3 DEF OrderInv, Increasing, EventsInOrder, Taken
<1> QED BY <1>2, <1>3, DaemonInvariance, PTL

\* Between the threads of the daemon the queue is what EventQueue promises: whatever the
\* event thread has pushed the database thread takes in that order, once
\* (iptracking-pamd.c:58-92, 202-240, log_queue.c:240-335).
THEOREM DaemonQueue == PamdSpec => ImplementsEventQueue
BY ImplementsLogQueue, Refinement, PTL
=============================================================================
