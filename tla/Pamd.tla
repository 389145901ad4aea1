-------------------------------- MODULE Pamd --------------------------------
(***************************************************************************)
(* The PAM daemon, pam-daemon/iptracking-pamd.c: the main thread, the      *)
(* event thread that reads events from the Unix socket, the database       *)
(* thread that logs them, the shutdown thread that waits for a signal, and *)
(* the signal handler.  The event queue between the threads is LogQueue,   *)
(* whose steps are the threads' steps while they are inside its functions. *)
(*                                                                         *)
(* A behaviour starts when main has created the queue and registered the   *)
(* handler.  The database driver, the kernel and the clients are the       *)
(* environment: each answer of theirs is a choice.                         *)
(***************************************************************************)
EXTENDS LogQueue, FiniteSets

CONSTANTS
    Main, EventThread, DbThread, ShutdownThread,
    MaxClients,     \* clients that ever connect
    MaxSignals,     \* termination signals that are ever sent
    SignalTargets   \* threads the kernel may run the handler on

Workers == {EventThread, DbThread, ShutdownThread}

ASSUME DaemonAssumption ==
    /\ Pushers = {EventThread} /\ Poppers = {DbThread} /\ Interrupters = {ShutdownThread}
    /\ Main \notin Workers
    /\ SignalTargets \subseteq Workers \cup {Main}
    /\ MaxClients \in Nat /\ MaxSignals \in Nat
    /\ Events = 1..MaxClients

VARIABLES
    step,         \* what each thread is about to do outside the queue's functions
    is_running,
    handlers,     \* the handler frames on each thread's stack, innermost first
    shutdown_mutex,
    signals,      \* signals sent so far
    connected,    \* clients that have connected so far
    accepted,     \* clients that have left the backlog; the last is being served
    socket_file,  \* does the file exist?
    db_open,      \* is the driver's connection open?
    logged        \* events in the database, oldest first

signalling == <<handlers, shutdown_mutex, signals>>
socket == <<connected, accepted, socket_file>>
database == <<db_open, logged>>
daemon == <<is_running, signalling, socket, database>>
pamdVars == <<vars, step, daemon>>

PamdInit ==
    /\ Init
    /\ step = [t \in Workers \cup {Main} |-> IF t = Main THEN "spawn_db" ELSE "not_started"]
    /\ is_running = TRUE
    /\ handlers = [t \in Workers \cup {Main} |-> <<>>]
    /\ shutdown_mutex = NoThread
    /\ signals = 0 /\ connected = 0 /\ accepted = 0
    /\ socket_file = FALSE
    /\ db_open = FALSE
    /\ logged = <<>>

-----------------------------------------------------------------------------
(* A thread runs its own code when no handler runs on top of it.           *)

At(t, l) == step[t] = l /\ handlers[t] = <<>>

Then(t, l) == step' = [step EXCEPT ![t] = l]

\* A step that only moves thread t from one label to another.
Moves(t, from, to) == At(t, from) /\ Then(t, to) /\ UNCHANGED <<vars, daemon>>

\* Thread t enters a function of the queue at label from, and is at to upon return.
Returned(t, l) == At(t, l) /\ pc[t] = "idle"

Exited(t) == step[t] = "exited"

-----------------------------------------------------------------------------
(* db_thread_entry, db_runloop                                             *)

\* The loop's condition, then that of the loop around db_open.
DbLoop == Moves(DbThread, "loop", IF is_running THEN "opening" ELSE "exited")

\* while ( is_running && ! db_open(...) ) sleep(5);
DbOpenCheck == Moves(DbThread, "open", IF is_running THEN "opening" ELSE "pop")

DbOpens ==
    /\ At(DbThread, "opening")
    /\ db_open' = TRUE
    /\ Then(DbThread, "pop")
    /\ UNCHANGED <<vars, is_running, signalling, socket, logged>>

\* Mutant: the result of db_open is not looked at.
DbOpenFails_Ignored == Moves(DbThread, "opening", "pop")

DbOpenFails == Moves(DbThread, "opening", "open")

\* while ( is_running ): the flag is read before log_queue_pop takes the lock,
\* which is a step of PopStep.
DbPops ==
    /\ At(DbThread, "pop") /\ is_running
    /\ PopCall(DbThread)
    /\ Then(DbThread, "popping")
    /\ UNCHANGED daemon

\* Mutant: the result of log_queue_pop is not looked at.
DbPopped_Unchecked == /\ Returned(DbThread, "popping")
                      /\ Then(DbThread, "log")
                      /\ UNCHANGED <<vars, daemon>>

DbPopped == /\ Returned(DbThread, "popping")
            /\ Then(DbThread, IF rc[DbThread] THEN "log" ELSE "pop")
            /\ UNCHANGED <<vars, daemon>>

DbLogs ==
    /\ At(DbThread, "log")
    /\ logged' = Append(logged, data[DbThread])
    /\ Then(DbThread, "pop")
    /\ UNCHANGED <<vars, is_running, signalling, socket, db_open>>

\* The failure is written to the log; the event is gone.
DbLogFails == Moves(DbThread, "log", "pop")

DbCloses ==
    /\ At(DbThread, "pop") /\ ~is_running
    /\ db_open' = FALSE
    /\ Then(DbThread, "loop")
    /\ UNCHANGED <<vars, is_running, signalling, socket, logged>>

DbStep == \/ DbLoop \/ DbOpenCheck \/ DbOpens \/ DbPops \/ DbPopped \/ DbLogs \/ DbCloses

-----------------------------------------------------------------------------
(* event_thread_entry                                                      *)

EventLoop == Moves(EventThread, "loop", IF is_running THEN "bind" ELSE "exited")

BindsAnd(next) ==
    /\ At(EventThread, "bind")
    /\ ~socket_file
    /\ socket_file' = TRUE
    /\ Then(EventThread, next)
    /\ UNCHANGED <<vars, is_running, signalling, connected, accepted, database>>

\* bind() and listen() work.
EventListens == BindsAnd("serve")

\* listen() fails: the file stays.
EventListenFails == BindsAnd("loop")

\* EADDRINUSE: close, sleep(5), start over.
EventBindInUse == socket_file /\ Moves(EventThread, "bind", "loop")

\* socket() or fcntl() fails, or bind() for another reason: the same.
EventBindFails == ~socket_file /\ Moves(EventThread, "bind", "loop")

\* Mutant: the loop does not look at is_running.
EventServe_Forever == Moves(EventThread, "serve", "poll")

\* while ( is_running && (server_fd >= 0) )
EventServe == Moves(EventThread, "serve", IF is_running THEN "poll" ELSE "teardown")

\* poll() reports a connection; the loop's condition is not read again.
EventPollReady == /\ accepted < connected
                  /\ Moves(EventThread, "poll", IF is_running THEN "accept" ELSE "serve")

\* poll() times out or is interrupted by a signal.
EventPollAgain == /\ ~is_running
                  /\ Moves(EventThread, "poll", "serve")

\* Any other error of poll() leaves the inner loops.
EventPollFails == Moves(EventThread, "poll", "teardown")

EventAccept ==
    /\ At(EventThread, "accept")
    /\ accepted < connected
    /\ accepted' = accepted + 1
    /\ Then(EventThread, "recv")
    /\ UNCHANGED <<vars, is_running, signalling, connected, socket_file, database>>

\* ECONNABORTED or EINTR: that client is gone, on to the next.
EventAcceptAborted ==
    /\ At(EventThread, "accept")
    /\ accepted < connected
    /\ accepted' = accepted + 1
    /\ Then(EventThread, "serve")
    /\ UNCHANGED <<vars, is_running, signalling, connected, socket_file, database>>

\* Any other error, e.g. EMFILE, closes the server socket.
EventAcceptFails == Moves(EventThread, "accept", "teardown")

\* recv(MSG_WAITALL) returns a whole valid event and it goes to the queue.
EventReceives ==
    /\ At(EventThread, "recv")
    /\ PushCall(EventThread, accepted)
    /\ Then(EventThread, "pushing")
    /\ UNCHANGED daemon

\* recv() fails, or returns an invalid event or fewer bytes: it is discarded.
EventDiscards == Moves(EventThread, "recv", "serve")

\* The result of log_queue_push is ignored; the client's socket is closed.
EventPushed == /\ Returned(EventThread, "pushing")
               /\ Then(EventThread, "serve")
               /\ UNCHANGED <<vars, daemon>>

\* shutdown() and close(): the clients in the backlog are reset, the file stays.
EventTeardown ==
    /\ At(EventThread, "teardown")
    /\ accepted' = connected
    /\ Then(EventThread, "loop")
    /\ UNCHANGED <<vars, is_running, signalling, connected, socket_file, database>>

\* What the thread does of its own accord; recv() and poll() wait for others.
EventStep == \/ EventLoop \/ EventListens \/ EventBindInUse \/ EventServe
             \/ EventPollReady \/ EventPollAgain \/ EventAccept
             \/ EventPushed \/ EventTeardown

EventFailure == \/ EventBindFails \/ EventListenFails \/ EventPollFails
                \/ EventAcceptAborted \/ EventAcceptFails

EventHears == EventReceives \/ EventDiscards
Listening == step[EventThread] \in {"serve", "poll", "accept", "recv", "pushing"}

ClientConnects ==
    /\ Listening
    /\ connected < MaxClients
    /\ connected' = connected + 1
    /\ UNCHANGED <<vars, step, is_running, signalling, accepted, socket_file, database>>

-----------------------------------------------------------------------------
(* shutdown_thread_entry, handle_termination                               *)

ShutdownLock ==
    /\ At(ShutdownThread, "lock")
    /\ shutdown_mutex = NoThread
    /\ shutdown_mutex' = ShutdownThread
    /\ Then(ShutdownThread, "to_wait")
    /\ UNCHANGED <<vars, is_running, handlers, signals, socket, database>>

\* pthread_cond_wait releases the mutex.
ShutdownWaits ==
    /\ At(ShutdownThread, "to_wait")
    /\ shutdown_mutex' = NoThread
    /\ Then(ShutdownThread, "wait")
    /\ UNCHANGED <<vars, is_running, handlers, signals, socket, database>>

\* pthread_cond_wait may return without a signal.
ShutdownSpurious == Moves(ShutdownThread, "wait", "relock")

ShutdownRelock ==
    /\ At(ShutdownThread, "relock")
    /\ shutdown_mutex = NoThread
    /\ shutdown_mutex' = ShutdownThread
    /\ Then(ShutdownThread, "stop")
    /\ UNCHANGED <<vars, is_running, handlers, signals, socket, database>>

\* The flag is cleared before log_queue_interrupt_pop takes the lock, which is a
\* step of InterruptStep.
ShutdownStops ==
    /\ At(ShutdownThread, "stop")
    /\ is_running' = FALSE
    /\ InterruptCall(ShutdownThread)
    /\ Then(ShutdownThread, "interrupting")
    /\ UNCHANGED <<signalling, socket, database>>

\* Mutant: the thread ends with the mutex held.
ShutdownExits_Locked ==
    /\ Returned(ShutdownThread, "interrupting")
    /\ Then(ShutdownThread, "exited")
    /\ UNCHANGED <<vars, daemon>>

ShutdownExits ==
    /\ Returned(ShutdownThread, "interrupting")
    /\ shutdown_mutex' = NoThread
    /\ Then(ShutdownThread, "exited")
    /\ UNCHANGED <<vars, is_running, handlers, signals, socket, database>>

ShutdownStep == \/ ShutdownLock \/ ShutdownWaits \/ ShutdownRelock \/ ShutdownStops
                \/ ShutdownExits

Started(t) == step[t] \notin {"not_started", "exited"}

SignalArrives(t) ==
    /\ signals < MaxSignals
    /\ Started(t)
    /\ signals' = signals + 1
    /\ handlers' = [handlers EXCEPT ![t] = <<"lock">> \o @]
    /\ UNCHANGED <<vars, step, is_running, shutdown_mutex, socket, database>>

InHandler(t, l) == handlers[t] # <<>> /\ Head(handlers[t]) = l

\* A handler that interrupts a thread holding the mutex waits for itself.
HandlerLock(t) ==
    /\ InHandler(t, "lock")
    /\ shutdown_mutex = NoThread
    /\ shutdown_mutex' = t
    /\ handlers' = [handlers EXCEPT ![t][1] = "broadcast"]
    /\ UNCHANGED <<vars, step, is_running, signals, socket, database>>

\* Mutant: nothing is broadcast.
HandlerReturns_Silent(t) ==
    /\ InHandler(t, "broadcast")
    /\ shutdown_mutex' = NoThread
    /\ handlers' = [handlers EXCEPT ![t] = Tail(@)]
    /\ UNCHANGED <<vars, step, is_running, signals, socket, database>>

\* pthread_cond_broadcast, pthread_mutex_unlock and the return.
HandlerReturns(t) ==
    /\ InHandler(t, "broadcast")
    /\ IF step[ShutdownThread] = "wait" THEN Then(ShutdownThread, "relock") ELSE UNCHANGED step
    /\ shutdown_mutex' = NoThread
    /\ handlers' = [handlers EXCEPT ![t] = Tail(@)]
    /\ UNCHANGED <<vars, is_running, signals, socket, database>>

HandlerStep(t) == HandlerLock(t) \/ HandlerReturns(t)

-----------------------------------------------------------------------------
(* main                                                                    *)

Spawns(from, t, entry, to) ==
    /\ At(Main, from)
    /\ step' = [step EXCEPT ![Main] = to, ![t] = entry]
    /\ UNCHANGED <<vars, daemon>>

MainSpawns == \/ Spawns("spawn_db", DbThread, "loop", "spawn_event")
              \/ Spawns("spawn_event", EventThread, "loop", "spawn_shutdown")
              \/ Spawns("spawn_shutdown", ShutdownThread, "lock", "join_db")

Joins(from, t, to) == Exited(t) /\ Moves(Main, from, to)

\* Mutant: the shutdown thread is not waited for.
MainJoins_NotShutdown == \/ Joins("join_db", DbThread, "join_event")
                         \/ Joins("join_event", EventThread, "unlink")

MainJoins == \/ Joins("join_db", DbThread, "join_event")
             \/ Joins("join_event", EventThread, "join_shutdown")
             \/ Joins("join_shutdown", ShutdownThread, "unlink")

\* unlink(socket_filepath), then db_dealloc, log_queue_destroy and the end.
MainExits ==
    /\ At(Main, "unlink")
    /\ socket_file' = FALSE
    /\ db_open' = FALSE
    /\ Then(Main, "exited")
    /\ UNCHANGED <<vars, is_running, signalling, connected, accepted, logged>>

MainStep == MainSpawns \/ MainJoins \/ MainExits

-----------------------------------------------------------------------------
(* The steps of the threads inside the queue's functions.                  *)

InQueue(t) == handlers[t] = <<>> /\ UNCHANGED <<step, daemon>>

QueueStep == \/ PushStep(EventThread) /\ InQueue(EventThread)
             \/ (PopStep(DbThread) \/ PopSpurious(DbThread)) /\ InQueue(DbThread)
             \/ InterruptStep(ShutdownThread) /\ InQueue(ShutdownThread)

PamdNext ==
    /\ Alive
    /\ \/ QueueStep
       \/ DbStep \/ DbOpenFails \/ DbLogFails
       \/ EventStep \/ EventFailure \/ EventHears \/ ClientConnects
       \/ ShutdownStep \/ ShutdownSpurious
       \/ MainStep
       \/ \E t \in SignalTargets : SignalArrives(t) \/ HandlerStep(t)

PamdSpec == PamdInit /\ [][PamdNext]_pamdVars

\* A thread that can run does run, and is not passed over for ever at a mutex.
\* poll() comes back after its interval, and recv() too: iptracking-pam-callback
\* sends its event at once or is ended by its alarm.
ThreadFairness ==
    /\ WF_pamdVars(EventStep \/ EventHears \/ (PushStep(EventThread) /\ InQueue(EventThread)))
    /\ SF_pamdVars(PushLock(EventThread) /\ InQueue(EventThread))
    /\ WF_pamdVars(DbStep \/ (PopStep(DbThread) /\ InQueue(DbThread)))
    /\ SF_pamdVars((PopLock(DbThread) \/ PopRelock(DbThread)) /\ InQueue(DbThread))
    /\ WF_pamdVars(ShutdownStep \/ (InterruptStep(ShutdownThread) /\ InQueue(ShutdownThread)))
    /\ SF_pamdVars(ShutdownRelock \/ (InterruptLock(ShutdownThread) /\ InQueue(ShutdownThread)))
    /\ WF_pamdVars(MainStep)
    /\ \A t \in SignalTargets : WF_pamdVars(HandlerStep(t)) /\ SF_pamdVars(HandlerLock(t))

\* A database that is tried again and again is open in the end.
DatabaseOpens == SF_pamdVars(DbOpens)

LiveSpec == PamdSpec /\ ThreadFairness /\ DatabaseOpens

-----------------------------------------------------------------------------
(* Properties.                                                             *)

\* The event the database thread has popped and not yet given to the driver.
InHand == IF \/ step[DbThread] = "log"
             \/ step[DbThread] = "popping" /\ rc[DbThread]
          THEN <<data[DbThread]>> ELSE <<>>

\* From the socket to the database no event is made up, duplicated or overtakes
\* another, however the two threads interleave (iptracking-pamd.c:71-72, 222-226).
EventsInOrder ==
    LET all == logged \o InHand \o used
    IN /\ \A i \in DOMAIN all : all[i] \in Events
       /\ \A i, j \in DOMAIN all : i < j => all[i] < all[j]

\* The driver is asked to log only on a connection it reported open and that
\* nobody has closed (iptracking-pamd.c:61-94).
LogsOnOpenConnection == step[DbThread] = "log" => db_open

\* main frees the queue and the driver, and removes the socket file, only when
\* no thread uses them any more: nothing is left behind, and no thread is still
\* inside a function of the queue (iptracking-pamd.c:647-658).
CleanExit ==
    Exited(Main) => /\ \A t \in Workers : Exited(t) /\ pc[t] = "idle"
                    /\ ~socket_file /\ ~db_open

\* An event that reaches the queue reaches the driver, unless the daemon is told
\* to stop first (iptracking-pamd.c:67-72).
QueuedIsHandled ==
    \A n \in Events : (n \in {used[k] : k \in DOMAIN used})
                      ~> (InHand = <<n>> \/ ~is_running)

\* Told to stop, the event thread ends, unless it sleeps in log_queue_push for a
\* record that the database thread, which has already ended, will never give
\* back (iptracking-pamd.c:129, 171-202; log_queue.c:275-286).
EventThreadStops ==
    ~is_running ~> \/ Exited(EventThread)
                   \/ Exited(DbThread) /\ n_rec_free = 0 /\ AtLimit

\* log_queue_interrupt_pop interrupts log_queue_pop, so the database thread ends
\* once it has been told to stop.
DbThreadStops == ~is_running ~> Exited(DbThread)

\* A signal whose handler finds the shutdown thread waiting stops the daemon,
\* if no second signal interrupts the handler (iptracking-pamd.c:517-536).
SignalStops ==
    \A t \in SignalTargets :
        (InHandler(t, "broadcast") /\ step[ShutdownThread] = "wait") ~> ~is_running

\* The handler returns: whoever holds shutdown_mutex lets go of it, the shutdown
\* thread only after it has been through the queue's mutex
\* (iptracking-pamd.c:517-523, 534-536).
HandlersReturn == \A t \in SignalTargets : (handlers[t] # <<>>) ~> (handlers[t] = <<>>)
=============================================================================
