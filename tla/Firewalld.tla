----------------------------- MODULE Firewalld -----------------------------
(***************************************************************************)
(* The firewall daemon, firewall-daemon/iptracking-firewalld.c, with the   *)
(* ipset_helper.c it drives the kernel's sets with and the notification    *)
(* listener of the PostgreSQL driver.                                      *)
(*                                                                         *)
(* Two threads rebuild the production set: the timer thread when its       *)
(* period is over, the listener when the database notifies it.  Each makes *)
(* a set under the rebuild name, fills it with the block list and swaps it *)
(* with the production set.  They share the name and the libipset session. *)
(*                                                                         *)
(* A behaviour starts when main has created the threads: one that has not  *)
(* run yet is at its first label.  Lock-and-wait and broadcast-and-unlock  *)
(* are one step, since nobody can come between.                            *)
(***************************************************************************)
EXTENDS Integers, Sequences

CONSTANTS
    Main, Timer, Listener, Shutdown,  \* the threads
    NoThread,       \* "the mutex is free"
    NoSet,          \* no set of that name in the kernel
    Lists,          \* the block lists the database goes through, oldest first
    Leftovers,      \* what a crashed daemon may leave under the rebuild name
    HasListener,    \* does the driver notify (only PostgreSQL's does)?
    Failures,       \* what may go wrong: "query", "connection", "session"
    Debug,          \* is the log at level debug, where every step writes to it?
    MaxSignals,     \* termination signals that are ever sent
    SignalTargets   \* threads the kernel may run the handler on

Rebuilders == {Timer, Listener}
Threads == Rebuilders \cup {Main, Shutdown}
Versions == 1..Len(Lists)
Listed == UNION {Lists[v] : v \in Versions}
Entries == Listed \cup UNION Leftovers

ASSUME FirewalldAssumption ==
    /\ Timer # Listener /\ Main # Shutdown /\ {Main, Shutdown} \cap Rebuilders = {}
    /\ NoThread \notin Threads
    /\ Len(Lists) \in Nat \ {0}
    /\ \A S \in SUBSET Entries : NoSet # S
    /\ HasListener \in BOOLEAN /\ Debug \in BOOLEAN
    /\ MaxSignals \in Nat
    /\ SignalTargets \subseteq Threads

VARIABLES
    step,            \* what each thread is about to do
    is_running,
    timer_mutex, shutdown_mutex,
    logging_lock,    \* whether the listener was cancelled while it held the lock of the log
    handlers,        \* the handler frames on each thread's stack, innermost first
    signals,         \* signals sent so far
    due,             \* timer_abstime has passed
    todo,            \* the entries each rebuilder has still to add
    rebuild, prod,   \* the kernel's sets under the two names
    exist,           \* IPSET_ENV_EXIST is set in the session, and stays so
    version,         \* which list the database holds
    socket           \* a notification waits in the listener's socket

sets == <<rebuild, prod>>
mutexes == <<timer_mutex, shutdown_mutex, logging_lock>>
signalling == <<handlers, signals>>
vars == <<step, is_running, mutexes, signalling, due, todo, sets, exist, version, socket>>

Init ==
    /\ step = [t \in Threads |-> CASE t = Main -> "join_timer"
                                   [] t = Timer -> "loop"
                                   [] t = Shutdown -> "lock"
                                   [] t = Listener -> IF HasListener THEN "connect" ELSE "exited"]
    /\ is_running = TRUE
    /\ timer_mutex = NoThread /\ shutdown_mutex = NoThread /\ logging_lock = NoThread
    /\ handlers = [t \in Threads |-> <<>>]
    /\ signals = 0
    /\ due = FALSE
    /\ todo = [t \in Rebuilders |-> {}]
    /\ rebuild \in Leftovers \cup {NoSet}
    /\ prod \in {NoSet, Lists[1]}
    /\ exist = FALSE
    /\ version = 1
    /\ socket = FALSE

-----------------------------------------------------------------------------
(* Threads.                                                                *)

\* A thread runs its own code when no handler runs on top of it.
At(t, l) == step[t] = l /\ handlers[t] = <<>>

Then(t, l) == step' = [step EXCEPT ![t] = l]

Moves(t, from, to) ==
    /\ At(t, from)
    /\ Then(t, to)
    /\ UNCHANGED <<is_running, mutexes, signalling, due, todo, sets, exist, version, socket>>

Exited(t) == step[t] = "exited"

-----------------------------------------------------------------------------
(* The rebuild: the timer thread's own and firewall_notify.                *)

RebuildLabels == {"destroy", "create", "add", "swap", "rename", "discard", "discard_failed"}

Rebuilding(t) == step[t] \in RebuildLabels \/ (t = Timer /\ step[t] = "query")

\* The other rebuilder may be using the session, too: neither locks it.
Disturbed(t) == "session" \in Failures /\ \E u \in Rebuilders \ {t} : Rebuilding(u)

\* An ipset command works or fails.  One whose session data another thread
\* resets is not carried out, and one whose answer another thread reads
\* reports anything.
Command(t, works, r, p, yes, no) ==
    /\ \/ /\ works
          /\ rebuild' = r /\ prod' = p
          /\ Then(t, yes)
       \/ /\ ~works
          /\ UNCHANGED sets
          /\ Then(t, no)
       \/ /\ Disturbed(t)
          /\ \/ UNCHANGED sets
             \/ works /\ rebuild' = r /\ prod' = p
          /\ \E l \in {yes, no} : Then(t, l)
    /\ UNCHANGED <<is_running, mutexes, signalling, due, version, socket>>

\* Mutant: a set of the rebuild's name is left where it is.
RebuildDestroys_Not(t) == Moves(t, "destroy", "create")

\* Whether there is such a set does not matter.
RebuildDestroys(t) ==
    /\ At(t, "destroy")
    /\ Command(t, TRUE, NoSet, prod, "create", "create")
    /\ UNCHANGED <<todo, exist>>

Start(t) == IF t = Timer THEN "query" ELSE "add"

GiveUp(t) == IF t = Timer THEN "unlock" ELSE "poll"

\* With IPSET_ENV_EXIST a set that is already there is taken as it is.
RebuildCreates(t) ==
    /\ At(t, "create")
    /\ Command(t, rebuild = NoSet \/ exist, IF rebuild = NoSet THEN {} ELSE rebuild, prod,
               Start(t), GiveUp(t))
    /\ UNCHANGED <<todo, exist>>

\* Mutant: the last entry is not added.
RebuildAdds_NotLast(t) ==
    /\ At(t, "add")
    /\ \E a \in todo[t] :
           /\ todo' = [todo EXCEPT ![t] = @ \ {a}]
           /\ Command(t, rebuild # NoSet /\ todo[t] # {a}, rebuild \cup {a}, prod, "add", "add")
    /\ exist' = TRUE

\* An entry that cannot be added is lost with a warning; disturbed, the session
\* may hold the entry of the other rebuilder.
RebuildAdds(t) ==
    /\ At(t, "add")
    /\ \E a \in todo[t] :
           /\ todo' = [todo EXCEPT ![t] = @ \ {a}]
           /\ \E b \in {a} \cup (IF Disturbed(t) THEN Listed ELSE {}) :
                  Command(t, rebuild # NoSet, rebuild \cup {b}, prod, "add", "add")
    /\ exist' = TRUE

RebuildIsFilled(t) == todo[t] = {} /\ Moves(t, "add", "swap")

RebuildSwaps(t) ==
    /\ At(t, "swap")
    /\ Command(t, rebuild # NoSet /\ prod # NoSet, prod, rebuild, "discard", "rename")
    /\ UNCHANGED <<todo, exist>>

Finish(t, succeeded) == IF t = Timer \/ succeeded THEN "reset" ELSE "poll"

\* The first activation: there is no production set to swap with.
RebuildRenames(t) ==
    /\ At(t, "rename")
    /\ Command(t, rebuild # NoSet /\ prod = NoSet, NoSet, rebuild,
               Finish(t, TRUE), "discard_failed")
    /\ UNCHANGED <<todo, exist>>

\* Mutant: the wrong name.
RebuildDiscards_Production(t) ==
    \E ok \in BOOLEAN :
        /\ At(t, IF ok THEN "discard" ELSE "discard_failed")
        /\ Command(t, TRUE, rebuild, NoSet, Finish(t, ok), Finish(t, ok))
        /\ UNCHANGED <<todo, exist>>

RebuildDiscards(t) ==
    \E ok \in BOOLEAN :
        /\ At(t, IF ok THEN "discard" ELSE "discard_failed")
        /\ Command(t, TRUE, NoSet, prod, Finish(t, ok), Finish(t, ok))
        /\ UNCHANGED <<todo, exist>>

RebuildStep(t) == \/ RebuildDestroys(t) \/ RebuildCreates(t) \/ RebuildAdds(t)
                  \/ RebuildIsFilled(t) \/ RebuildSwaps(t) \/ RebuildRenames(t)
                  \/ RebuildDiscards(t)

-----------------------------------------------------------------------------
(* timer_thread_entry                                                      *)

TimerLoop == Moves(Timer, "loop", IF is_running THEN "lock" ELSE "exited")

TimerWaits == timer_mutex = NoThread /\ Moves(Timer, "lock", "wait")

TimerTimesOut == due /\ Moves(Timer, "wait", "relock_due")

\* pthread_cond_timedwait may return without a broadcast before its time.
TimerSpurious == ~due /\ Moves(Timer, "wait", "relock")

TimerRelock(from, to) ==
    /\ At(Timer, from)
    /\ timer_mutex = NoThread
    /\ timer_mutex' = Timer
    /\ Then(Timer, to)
    /\ UNCHANGED <<is_running, shutdown_mutex, logging_lock, signalling, due, todo, sets, exist,
                   version, socket>>

TimerRelocks == TimerRelock("relock", "unlock") \/ TimerRelock("relock_due", "destroy")

TimerQueryReturns(list) ==
    /\ At(Timer, "query")
    /\ todo' = [todo EXCEPT ![Timer] = list]
    /\ Then(Timer, "add")
    /\ UNCHANGED <<is_running, mutexes, signalling, due, sets, exist, version, socket>>

\* Mutant: the list is read once and kept.
TimerQueries_Cached == TimerQueryReturns(Lists[1])

TimerQueries == TimerQueryReturns(Lists[version])

\* The failure is written to the log and the list taken to be empty.
TimerQueryFails == "query" \in Failures /\ TimerQueryReturns({})

TimerResets ==
    /\ At(Timer, "reset")
    /\ due' = FALSE
    /\ Then(Timer, "unlock")
    /\ UNCHANGED <<is_running, mutexes, signalling, todo, sets, exist, version, socket>>

\* Mutant: the mutex is kept.
TimerUnlocks_Not == Moves(Timer, "unlock", "loop")

TimerUnlocks ==
    /\ At(Timer, "unlock")
    /\ timer_mutex' = NoThread
    /\ Then(Timer, "loop")
    /\ UNCHANGED <<is_running, shutdown_mutex, logging_lock, signalling, due, todo, sets, exist,
                   version, socket>>

TimerStep == \/ TimerLoop \/ TimerWaits \/ TimerTimesOut \/ TimerRelocks
             \/ TimerQueries \/ TimerResets \/ TimerUnlocks \/ RebuildStep(Timer)

-----------------------------------------------------------------------------
(* The listener thread of the PostgreSQL driver.                           *)

\* db_close has cleared is_notify_running.
Closing == step[Main] \in {"join_listener", "terminating", "exited"}

ListenerConnects == Moves(Listener, "connect", "listen")

\* PQconnectdbParams returns a connection that is bad, or LISTEN is refused.
ListenerFails == /\ "connection" \in Failures
                 /\ \E l \in {"connect", "listen"} : Moves(Listener, l, "finish")

ListenerListens == Moves(Listener, "listen", "poll")

\* The socket is read and every notification taken out.
ListenerDrains ==
    /\ At(Listener, "poll")
    /\ ~Closing
    /\ socket
    /\ socket' = FALSE
    /\ Then(Listener, "query")
    /\ UNCHANGED <<is_running, mutexes, signalling, due, todo, sets, exist, version>>

\* The server takes the snapshot before PQexec returns.
ListenerQueries ==
    /\ At(Listener, "query")
    /\ todo' = [todo EXCEPT ![Listener] = Lists[version]]
    /\ Then(Listener, "result")
    /\ UNCHANGED <<is_running, mutexes, signalling, due, sets, exist, version, socket>>

ListenerQueryFails ==
    /\ "query" \in Failures
    /\ At(Listener, "query")
    /\ todo' = [todo EXCEPT ![Listener] = {}]
    /\ Then(Listener, "result")
    /\ UNCHANGED <<is_running, mutexes, signalling, due, sets, exist, version, socket>>

\* PQexec has read the socket up to the end of the result: a notification
\* that came before that sits in libpq's queue and will not wake poll().
ListenerResult ==
    /\ At(Listener, "result")
    /\ socket' = FALSE
    /\ Then(Listener, "destroy")
    /\ UNCHANGED <<is_running, mutexes, signalling, due, todo, sets, exist, version>>

\* After an activation: the period starts again, and the timer thread is told.
ListenerResets ==
    /\ At(Listener, "reset")
    /\ timer_mutex = NoThread
    /\ due' = FALSE
    /\ step' = [step EXCEPT ![Listener] = "poll",
                            ![Timer] = IF @ = "wait" THEN "relock" ELSE @]
    /\ UNCHANGED <<is_running, mutexes, signalling, todo, sets, exist, version, socket>>

\* is_notify_running is false.
ListenerStops == Closing /\ Moves(Listener, "poll", "finish")

\* The connection is gone: the socket is closed, and the thread with it.
ListenerLosesConnection == "connection" \in Failures /\ Moves(Listener, "poll", "finish")

ListenerEnds == Moves(Listener, "finish", "exited")

\* It is cancelled between the lock and the unlock of the log.
LogInterrupted == Debug /\ logging_lock' = Listener

\* pthread_cancel takes effect at the next cancellation point, which every
\* system call of libpq and libipset is, and the fprintf of logging_printf.
ListenerCancelled ==
    /\ Closing
    /\ \E l \in RebuildLabels \cup {"connect", "listen", "poll", "query", "result", "reset"} :
           At(Listener, l) /\ Then(Listener, "exited")
    /\ UNCHANGED logging_lock \/ LogInterrupted
    /\ UNCHANGED <<is_running, timer_mutex, shutdown_mutex, signalling, due, todo, sets, exist,
                   version, socket>>

ListenerStep == \/ ListenerConnects \/ ListenerListens \/ ListenerDrains \/ ListenerQueries
                \/ ListenerResult \/ ListenerResets \/ ListenerStops \/ ListenerEnds
                \/ RebuildStep(Listener)

-----------------------------------------------------------------------------
(* shutdown_thread_entry, handle_termination, main                         *)

ShutdownWaits == shutdown_mutex = NoThread /\ Moves(Shutdown, "lock", "wait")

\* pthread_cond_wait may return without a signal.
ShutdownSpurious == Moves(Shutdown, "wait", "relock")

ShutdownStops ==
    /\ At(Shutdown, "relock")
    /\ shutdown_mutex = NoThread
    /\ shutdown_mutex' = Shutdown
    /\ is_running' = FALSE
    /\ Then(Shutdown, "wake")
    /\ UNCHANGED <<timer_mutex, logging_lock, signalling, due, todo, sets, exist, version, socket>>

ShutdownWakes ==
    /\ At(Shutdown, "wake")
    /\ timer_mutex = NoThread
    /\ shutdown_mutex' = NoThread
    /\ step' = [step EXCEPT ![Shutdown] = "exited",
                            ![Timer] = IF @ = "wait" THEN "relock" ELSE @]
    /\ UNCHANGED <<is_running, timer_mutex, logging_lock, signalling, due, todo, sets, exist,
                   version, socket>>

ShutdownStep == ShutdownWaits \/ ShutdownStops \/ ShutdownWakes

SignalArrives(t) ==
    /\ signals < MaxSignals
    /\ ~Exited(t)
    /\ signals' = signals + 1
    /\ handlers' = [handlers EXCEPT ![t] = <<"lock">> \o @]
    /\ UNCHANGED <<step, is_running, mutexes, due, todo, sets, exist, version, socket>>

InHandler(t, l) == handlers[t] # <<>> /\ Head(handlers[t]) = l

HandlerLocks(t) ==
    /\ InHandler(t, "lock")
    /\ shutdown_mutex = NoThread
    /\ shutdown_mutex' = t
    /\ handlers' = [handlers EXCEPT ![t][1] = "broadcast"]
    /\ UNCHANGED <<step, is_running, timer_mutex, logging_lock, signals, due, todo, sets, exist,
                   version, socket>>

\* Mutant: the thread that waits is not told.
HandlerReturns_Silent(t) ==
    /\ InHandler(t, "broadcast")
    /\ shutdown_mutex' = NoThread
    /\ handlers' = [handlers EXCEPT ![t] = Tail(@)]
    /\ UNCHANGED <<step, is_running, timer_mutex, logging_lock, signals, due, todo, sets, exist,
                   version, socket>>

HandlerReturns(t) ==
    /\ InHandler(t, "broadcast")
    /\ IF step[Shutdown] = "wait" THEN Then(Shutdown, "relock") ELSE UNCHANGED step
    /\ shutdown_mutex' = NoThread
    /\ handlers' = [handlers EXCEPT ![t] = Tail(@)]
    /\ UNCHANGED <<is_running, timer_mutex, logging_lock, signals, due, todo, sets, exist,
                   version, socket>>

MainJoins(from, t, to) == Exited(t) /\ Moves(Main, from, to)

\* Mutant: the listener is cancelled and not waited for.
MainDestroys_NotJoined ==
    /\ At(Main, "join_listener")
    /\ rebuild' = NoSet
    /\ Then(Main, "terminating")
    /\ UNCHANGED <<is_running, mutexes, signalling, due, todo, prod, exist, version, socket>>

\* The listener is joined and the rebuild set destroyed.
MainDestroys ==
    /\ At(Main, "join_listener")
    /\ Exited(Listener)
    /\ rebuild' = NoSet
    /\ Then(Main, "terminating")
    /\ UNCHANGED <<is_running, mutexes, signalling, due, todo, prod, exist, version, socket>>

\* A last message to the log, and the process ends.
MainTerminates == logging_lock = NoThread /\ Moves(Main, "terminating", "exited")

MainStep == \/ MainJoins("join_timer", Timer, "join_shutdown")
            \/ MainJoins("join_shutdown", Shutdown, "close")
            \/ Moves(Main, "close", "join_listener")
            \/ MainDestroys
            \/ MainTerminates

-----------------------------------------------------------------------------
(* The environment.                                                        *)

Listening == step[Listener] \in RebuildLabels \cup {"poll", "query", "result", "reset"}

\* A rule or trigger of the schema notifies who listens.
BlockListChanges ==
    /\ version < Len(Lists)
    /\ version' = version + 1
    /\ socket' = (socket \/ Listening)
    /\ UNCHANGED <<step, is_running, mutexes, signalling, due, todo, sets, exist>>

PeriodEnds ==
    /\ ~due
    /\ due' = TRUE
    /\ UNCHANGED <<step, is_running, mutexes, signalling, todo, sets, exist, version, socket>>

Next ==
    /\ ~Exited(Main)
    /\ \/ TimerStep \/ TimerSpurious \/ TimerQueryFails
       \/ ListenerStep \/ ListenerFails \/ ListenerQueryFails \/ ListenerLosesConnection
       \/ ListenerCancelled
       \/ ShutdownStep \/ ShutdownSpurious
       \/ \E t \in SignalTargets : SignalArrives(t) \/ HandlerLocks(t) \/ HandlerReturns(t)
       \/ MainStep
       \/ BlockListChanges \/ PeriodEnds

Spec == Init /\ [][Next]_vars

\* A thread that can run does run; time passes; and the database answers the
\* timer thread's query now and then.
Fairness ==
    /\ WF_vars(TimerStep) /\ SF_vars(TimerQueries)
    /\ WF_vars(ListenerStep)
    /\ WF_vars(ShutdownStep)
    /\ WF_vars(MainStep)
    /\ \A t \in SignalTargets : WF_vars(HandlerLocks(t) \/ HandlerReturns(t))
    /\ WF_vars(PeriodEnds)

FairSpec == Spec /\ Fairness

-----------------------------------------------------------------------------
(* Properties.                                                             *)

TimerLabels == RebuildLabels \cup {"loop", "lock", "wait", "relock", "relock_due", "query",
                                  "reset", "unlock", "exited"}
ListenerLabels == RebuildLabels \cup {"connect", "listen", "poll", "query", "result", "reset",
                                     "finish", "exited"}
ShutdownLabels == {"lock", "wait", "relock", "wake", "exited"}
MainLabels == {"join_timer", "join_shutdown", "close", "join_listener", "terminating", "exited"}

\* Every variable has its type.
TypeOK ==
    /\ step \in [Threads -> TimerLabels \cup ListenerLabels \cup ShutdownLabels \cup MainLabels]
    /\ step[Timer] \in TimerLabels /\ step[Listener] \in ListenerLabels
    /\ step[Shutdown] \in ShutdownLabels /\ step[Main] \in MainLabels
    /\ is_running \in BOOLEAN /\ due \in BOOLEAN
    /\ exist \in BOOLEAN /\ socket \in BOOLEAN
    /\ timer_mutex \in {NoThread, Timer}
    /\ shutdown_mutex \in Threads \cup {NoThread}
    /\ logging_lock \in {NoThread, Listener}
    /\ handlers \in [Threads -> Seq({"lock", "broadcast"})]
    /\ signals \in Nat
    /\ todo \in [Rebuilders -> SUBSET Listed]
    /\ rebuild = NoSet \/ rebuild \subseteq Entries
    /\ prod = NoSet \/ prod \subseteq Entries
    /\ version \in Versions

\* Once there is a production set there always is one: the filter rules that
\* name it never match against nothing, whichever rebuild replaces it and
\* whatever fails (ipset_helper.c:305-345).
ProductionStays == [][prod # NoSet => prod' # NoSet]_vars

\* A change of the block list reaches the production set, by the listener or
\* with the next period, also when the notification is lost
\* (iptracking-firewalld.c:291-332).
ChangesArrive ==
    \A v \in Versions : (version = v) ~> (version # v \/ prod = Lists[v] \/ ~is_running)

\* The handler waits for a mutex whose owner waits for the thread it runs on.
Stuck(t) == /\ InHandler(t, "lock")
            /\ \/ shutdown_mutex = t
               \/ t = Timer /\ timer_mutex = Timer /\ step[Shutdown] = "wake"

\* Told to stop, the daemon ends, but for two things: a second signal whose
\* handler interrupts the timer thread or the shutdown thread while it holds a
\* mutex, and at level debug a listener cancelled in the middle of a message
\* (iptracking-firewalld.c:416-446, 553-568; logging.c:62-77).
DaemonStops ==
    ~is_running ~> Exited(Main) \/ logging_lock = Listener \/ \E t \in Threads : Stuck(t)

\* A signal that comes when the shutdown thread waits for one stops the daemon; an
\* earlier one is lost (iptracking-firewalld.c:421-425, 443-445).
SignalStops ==
    \A t \in SignalTargets :
        (InHandler(t, "lock") /\ step[Shutdown] = "wait")
            ~> (~is_running \/ \E u \in Threads : Stuck(u))

\* main goes on only when the thread it joins has ended.
MainWaits ==
    /\ step[Main] # "join_timer" => Exited(Timer)
    /\ step[Main] \in {"close", "join_listener", "terminating", "exited"} => Exited(Shutdown)
    /\ step[Main] \in {"terminating", "exited"} => Exited(Listener) /\ rebuild = NoSet

\* When the daemon has ended, its threads have, and no rebuild set is left in
\* the kernel (iptracking-firewalld.c:554-563).
CleanExit == Exited(Main) => (rebuild = NoSet /\ \A t \in Threads : Exited(t))

\* The block lists the database has had, and the empty one.
Whole == {{}} \cup {Lists[v] : v \in Versions}

\* The production set is a block list as the database had it, or the empty set
\* after a failed query: the new list is complete before it is activated.
WholeLists == prod \in {NoSet} \cup Whole
=============================================================================
