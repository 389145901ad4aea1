-------------------------- MODULE FirewalldProofs --------------------------
(***************************************************************************)
(* Proofs about Firewalld for every block list, every choice of failures   *)
(* and any number of signals on any thread.                                *)
(***************************************************************************)
EXTENDS FirewalldHistory, TLAPS

-----------------------------------------------------------------------------
(* Threads and sets.                                                       *)

\* The four threads are four.
LEMMA FourThreads ==
    /\ Timer # Listener /\ Timer # Main /\ Timer # Shutdown
    /\ Listener # Main /\ Listener # Shutdown /\ Main # Shutdown
BY FirewalldAssumption DEF Rebuilders

\* A block list is a set of entries, and no set of entries is NoSet.
LEMMA WholeAreSets ==
    /\ \A S \in Whole : S \subseteq Listed
    /\ Listed \subseteq Entries
    /\ \A S : S \subseteq Entries => S # NoSet
BY FirewalldAssumption DEF Whole, Listed, Entries

\* A query returns some of what is ever listed.
LEMMA ListsAreListed == \A v \in Versions : Lists[v] \in SUBSET Listed
BY DEF Listed

\* What an ipset command may do: it is carried out or not, and reports either.
LEMMA CommandStep ==
    ASSUME NEW t \in Rebuilders, NEW works \in BOOLEAN, NEW r, NEW p, NEW yes, NEW no,
           Command(t, works, r, p, yes, no)
    PROVE  /\ \/ rebuild' = rebuild /\ prod' = prod
              \/ works /\ rebuild' = r /\ prod' = p
           /\ Then(t, yes) \/ Then(t, no)
           /\ UNCHANGED <<is_running, timer_mutex, shutdown_mutex, logging_lock, handlers, signals,
                          due, version, socket>>
BY DEF Command, sets, mutexes, signalling

\* What it does when nobody else uses the session.
LEMMA CommandAlone ==
    ASSUME NEW t \in Rebuilders, NEW works \in BOOLEAN, NEW r, NEW p, NEW yes, NEW no,
           Command(t, works, r, p, yes, no), ~Disturbed(t)
    PROVE  \/ works /\ rebuild' = r /\ prod' = p /\ Then(t, yes)
           \/ ~works /\ rebuild' = rebuild /\ prod' = prod /\ Then(t, no)
BY DEF Command, sets

-----------------------------------------------------------------------------
(* The production set stays.                                               *)

\* A step of the rebuild takes the production set away from nobody: a swap needs
\* both sets, a rename needs that there is none, and nothing else writes it.
LEMMA RebuildKeepsProduction ==
    ASSUME NEW t \in Rebuilders, RebuildStep(t), prod # NoSet
    PROVE  prod' # NoSet
<1>1. CASE RebuildDestroys(t)
    BY <1>1, CommandStep DEF RebuildDestroys
<1>2. CASE RebuildCreates(t)
    <2>1. prod' = prod
        BY <1>2 DEF RebuildCreates, Command, sets
    <2> QED BY <2>1
<1>3. CASE RebuildAdds(t)
    <2>1. prod' = prod
        BY <1>3 DEF RebuildAdds, Command, sets
    <2> QED BY <2>1
<1>4. CASE RebuildIsFilled(t)
    BY <1>4 DEF RebuildIsFilled, Moves, sets
<1>5. CASE RebuildSwaps(t)
    <2>1. prod' = prod \/ (rebuild # NoSet /\ prod' = rebuild)
        BY <1>5 DEF RebuildSwaps, Command, sets
    <2> QED BY <2>1
<1>6. CASE RebuildRenames(t)
    <2>1. prod' = prod \/ (prod = NoSet /\ prod' = rebuild)
        BY <1>6 DEF RebuildRenames, Command, sets
    <2> QED BY <2>1
<1>7. CASE RebuildDiscards(t)
    <2>1. prod' = prod
        BY <1>7 DEF RebuildDiscards, Command, sets
    <2> QED BY <2>1
<1> QED
    BY <1>1, <1>2, <1>3, <1>4, <1>5, <1>6, <1>7 DEF RebuildStep

\* Once there is a production set there always is one (ipset_helper_activate).
THEOREM SetStays == Spec => ProductionStays
<1>1. ASSUME Next, prod # NoSet PROVE prod' # NoSet
    <2>1. CASE RebuildStep(Timer) \/ RebuildStep(Listener)
        BY <1>1, <2>1, RebuildKeepsProduction DEF Rebuilders
    <2>2. CASE prod' = prod
        BY <1>1, <2>2
    <2>3. CASE TimerStep \/ TimerSpurious \/ TimerQueryFails
        BY <2>1, <2>2, <2>3 DEF TimerStep, TimerLoop, TimerWaits, TimerTimesOut, TimerRelocks,
           TimerRelock, TimerQueries, TimerQueryReturns, TimerResets, TimerUnlocks,
           TimerSpurious, TimerQueryFails, Moves, sets
    <2>4. CASE ListenerStep \/ ListenerFails \/ ListenerQueryFails \/ ListenerLosesConnection
               \/ ListenerCancelled
        BY <2>1, <2>2, <2>4 DEF ListenerStep, ListenerConnects, ListenerListens, ListenerDrains,
           ListenerQueries, ListenerResult, ListenerResets, ListenerStops, ListenerEnds,
           ListenerFails, ListenerQueryFails, ListenerLosesConnection, ListenerCancelled, LogInterrupted,
           Moves, sets
    <2>5. CASE ShutdownStep \/ ShutdownSpurious
        BY <2>2, <2>5 DEF ShutdownStep, ShutdownWaits, ShutdownStops, ShutdownWakes,
           ShutdownSpurious, Moves, sets
    <2>6. CASE \E t \in SignalTargets : SignalArrives(t) \/ HandlerLocks(t) \/ HandlerReturns(t)
        BY <2>2, <2>6 DEF SignalArrives, HandlerLocks, HandlerReturns, sets
    <2>7. CASE MainStep \/ BlockListChanges \/ PeriodEnds
        BY <2>2, <2>7 DEF MainStep, MainJoins, MainDestroys, MainTerminates, BlockListChanges,
           PeriodEnds, Moves, sets
    <2> QED
        BY <1>1, <2>3, <2>4, <2>5, <2>6, <2>7 DEF Next
<1>2. [Next]_vars => [prod # NoSet => prod' # NoSet]_vars
    BY <1>1
<1> QED
    BY <1>2, PTL DEF Spec, ProductionStays
-----------------------------------------------------------------------------
(* Types.                                                                  *)

\* A rebuild leads from its labels to labels of its thread, and changes no
\* variable but the sets, the entries to add and the session's flag.
LEMMA RebuildTypes ==
    ASSUME TypeOK, NEW t \in Rebuilders, RebuildStep(t)
    PROVE  /\ rebuild' = NoSet \/ rebuild' \subseteq Entries
           /\ prod' = NoSet \/ prod' \subseteq Entries
           /\ todo' \in [Rebuilders -> SUBSET Listed] /\ exist' \in BOOLEAN
           /\ step[t] \in RebuildLabels
           /\ \E l \in RebuildLabels \cup {Start(t), GiveUp(t), Finish(t, TRUE), Finish(t, FALSE)} :
                  Then(t, l)
           /\ UNCHANGED <<is_running, timer_mutex, shutdown_mutex, logging_lock, handlers, signals,
                          due, version, socket>>
<1> USE WholeAreSets DEF TypeOK, RebuildLabels, At, Command, sets, mutexes, signalling
<1>1. CASE RebuildDestroys(t)
    BY <1>1 DEF RebuildDestroys
<1>2. CASE RebuildCreates(t)
    BY <1>2 DEF RebuildCreates
<1>3. CASE RebuildAdds(t)
    <2>1. PICK a \in todo[t] : \E b \in {a} \cup (IF Disturbed(t) THEN Listed ELSE {}) :
              /\ Command(t, rebuild # NoSet, rebuild \cup {b}, prod, "add", "add")
              /\ todo' = [todo EXCEPT ![t] = @ \ {a}]
        BY <1>3 DEF RebuildAdds
    <2>2. PICK b \in Listed : Command(t, rebuild # NoSet, rebuild \cup {b}, prod, "add", "add")
        BY <2>1
    <2>3. rebuild' = rebuild \/ (rebuild # NoSet /\ rebuild' = rebuild \cup {b})
        BY <2>2
    <2>4. rebuild' = NoSet \/ rebuild' \subseteq Entries
        BY <2>3
    <2>5. prod' = prod /\ Then(t, "add")
        BY <2>2
    <2>6. todo' \in [Rebuilders -> SUBSET Listed]
        BY <2>1
    <2> QED
        BY <1>3, <2>2, <2>4, <2>5, <2>6 DEF RebuildAdds
<1>4. CASE RebuildIsFilled(t)
    BY <1>4 DEF RebuildIsFilled, Moves
<1>5. CASE RebuildSwaps(t)
    BY <1>5 DEF RebuildSwaps
<1>6. CASE RebuildRenames(t)
    BY <1>6 DEF RebuildRenames
<1>7. CASE RebuildDiscards(t)
    BY <1>7 DEF RebuildDiscards
<1> QED
    BY <1>1, <1>2, <1>3, <1>4, <1>5, <1>6, <1>7 DEF RebuildStep

\* No step of any thread takes a variable out of its type.
LEMMA TypeStep ==
    ASSUME TypeOK, Next
    PROVE  TypeOK'
<1> USE FirewalldAssumption, FourThreads, WholeAreSets
    DEF TypeOK, Rebuilders, Threads, RebuildLabels, TimerLabels, ListenerLabels, ShutdownLabels,
        MainLabels, At, Then, Moves, sets, mutexes, signalling
<1>1. ASSUME NEW t \in Rebuilders, RebuildStep(t) PROVE TypeOK'
    BY <1>1, RebuildTypes DEF Start, GiveUp, Finish
<1>2. ASSUME TimerStep \/ TimerSpurious \/ TimerQueryFails PROVE TypeOK'
    <2>1. CASE TimerQueries \/ TimerQueryFails
        <3>1. PICK list \in SUBSET Listed : TimerQueryReturns(list)
            <4>1. Lists[version] \in SUBSET Listed
                <5>1. version \in Versions
                    OBVIOUS
                <5> QED BY <5>1, ListsAreListed
            <4>2. TimerQueryReturns(Lists[version]) \/ TimerQueryReturns({})
                BY <2>1, Zenon DEF TimerQueries, TimerQueryFails
            <4> HIDE DEF TypeOK, Rebuilders, Threads, At, Then
            <4>3. {} \in SUBSET Listed
                OBVIOUS
            <4> QED BY <4>1, <4>2, <4>3, Zenon
        <3> QED BY <3>1 DEF TimerQueryReturns
    <2>2. CASE TimerLoop \/ TimerWaits \/ TimerTimesOut \/ TimerSpurious \/ TimerUnlocks
        BY <2>2 DEF TimerLoop, TimerWaits, TimerTimesOut, TimerSpurious, TimerUnlocks
    <2>4. CASE TimerResets
        <3>1. due' \in BOOLEAN
            BY <2>4, Zenon DEF TimerResets
        <3> QED BY <2>4, <3>1 DEF TimerResets
    <2>3. CASE TimerRelocks
        BY <2>3 DEF TimerRelocks, TimerRelock
    <2> QED
        BY <1>1, <1>2, <2>1, <2>2, <2>3, <2>4 DEF TimerStep
<1>3. ASSUME ListenerStep \/ ListenerFails \/ ListenerQueryFails \/ ListenerLosesConnection
             \/ ListenerCancelled
      PROVE TypeOK'
    <2>1. CASE ListenerQueries \/ ListenerQueryFails
        BY <2>1 DEF ListenerQueries, ListenerQueryFails, Listed, Versions
    <2>2. CASE ListenerConnects \/ ListenerListens \/ ListenerStops \/ ListenerEnds
               \/ ListenerLosesConnection
        BY <2>2 DEF ListenerConnects, ListenerListens, ListenerStops, ListenerEnds,
           ListenerLosesConnection
    <2>3. CASE ListenerFails
        BY <2>3 DEF ListenerFails
    <2>4. CASE ListenerCancelled
        BY <2>4 DEF ListenerCancelled, LogInterrupted
    <2>5. CASE ListenerDrains \/ ListenerResult
        <3>1. socket' \in BOOLEAN
            BY <2>5, Zenon DEF ListenerDrains, ListenerResult
        <3> QED BY <2>5, <3>1 DEF ListenerDrains, ListenerResult
    <2>6. CASE ListenerResets
        <3>1. due' \in BOOLEAN
            BY <2>6, Zenon DEF ListenerResets
        <3>2. step' \in [Threads -> TimerLabels \cup ListenerLabels \cup ShutdownLabels \cup MainLabels]
            BY <2>6 DEF ListenerResets
        <3>3. step'[Timer] \in TimerLabels /\ step'[Listener] \in ListenerLabels
              /\ step'[Shutdown] \in ShutdownLabels /\ step'[Main] \in MainLabels
            BY <2>6 DEF ListenerResets
        <3> QED BY <2>6, <3>1, <3>2, <3>3 DEF ListenerResets
    <2> QED
        BY <1>1, <1>3, <2>1, <2>2, <2>3, <2>4, <2>5, <2>6 DEF ListenerStep
<1>4. ASSUME ShutdownStep \/ ShutdownSpurious PROVE TypeOK'
    <2>1. CASE ShutdownWaits \/ ShutdownSpurious
        BY <2>1 DEF ShutdownWaits, ShutdownSpurious
    <2>2. CASE ShutdownStops
        <3>1. is_running' \in BOOLEAN
            BY <2>2, Zenon DEF ShutdownStops
        <3> QED BY <2>2, <3>1 DEF ShutdownStops
    <2>3. CASE ShutdownWakes
        BY <2>3 DEF ShutdownWakes
    <2> QED
        BY <1>4, <2>1, <2>2, <2>3 DEF ShutdownStep
<1>5. ASSUME NEW t \in SignalTargets, SignalArrives(t) PROVE TypeOK'
    <2>1. handlers' \in [Threads -> Seq({"lock", "broadcast"})]
        BY <1>5 DEF SignalArrives
    <2> QED BY <1>5, <2>1 DEF SignalArrives
<1>6. ASSUME NEW t \in SignalTargets, HandlerLocks(t) PROVE TypeOK'
    <2>1. handlers[t] # <<>> /\ handlers[t] \in Seq({"lock", "broadcast"})
        BY <1>6 DEF HandlerLocks, InHandler
    <2>2. [handlers[t] EXCEPT ![1] = "broadcast"] \in Seq({"lock", "broadcast"})
        BY <2>1
    <2>3. handlers' \in [Threads -> Seq({"lock", "broadcast"})]
        BY <1>6, <2>2 DEF HandlerLocks
    <2> QED BY <1>6, <2>3 DEF HandlerLocks
<1>7. ASSUME NEW t \in SignalTargets, HandlerReturns(t) PROVE TypeOK'
    <2>1. handlers[t] # <<>> /\ handlers[t] \in Seq({"lock", "broadcast"})
        BY <1>7 DEF HandlerReturns, InHandler
    <2>2. handlers' \in [Threads -> Seq({"lock", "broadcast"})]
        BY <1>7, <2>1 DEF HandlerReturns
    <2> QED BY <1>7, <2>2 DEF HandlerReturns
<1>8. ASSUME MainStep PROVE TypeOK'
    BY <1>8 DEF MainStep, MainJoins, MainDestroys, MainTerminates
<1>9. ASSUME BlockListChanges \/ PeriodEnds PROVE TypeOK'
    <2>1. CASE BlockListChanges
        <3>1. socket' \in BOOLEAN
            BY <2>1, Zenon DEF BlockListChanges
        <3>2. version' \in Versions
            BY <2>1 DEF BlockListChanges, Versions
        <3> QED BY <2>1, <3>1, <3>2 DEF BlockListChanges
    <2>2. CASE PeriodEnds
        <3>1. due' \in BOOLEAN
            BY <2>2, Zenon DEF PeriodEnds
        <3> QED BY <2>2, <3>1 DEF PeriodEnds
    <2> QED
        BY <1>9, <2>1, <2>2
<1> QED
    BY <1>2, <1>3, <1>4, <1>5, <1>6, <1>7, <1>8, <1>9 DEF Next
-----------------------------------------------------------------------------
(* Threads that main waits for.                                            *)

\* A thread that has ended stays where it is, only main moves main, and only a
\* rebuilder that has not ended touches the rebuild set.
LEMMA OthersStep ==
    ASSUME TypeOK, Next, ~MainStep
    PROVE  /\ step'[Main] = step[Main]
           /\ \A t \in Threads : Exited(t) => step'[t] = "exited"
           /\ (\A t \in Rebuilders : Exited(t)) => rebuild' = rebuild
<1> USE FirewalldAssumption, FourThreads
    DEF TypeOK, Rebuilders, Threads, At, Then, Moves, Exited, sets
<1>1. ASSUME NEW t \in Rebuilders, RebuildStep(t)
      PROVE  /\ step'[Main] = step[Main]
             /\ \A u \in Threads : Exited(u) => step'[u] = "exited"
             /\ ~\A u \in Rebuilders : Exited(u)
    BY <1>1, RebuildTypes DEF RebuildLabels
<1>2. CASE TimerStep \/ TimerSpurious \/ TimerQueryFails
    BY <1>1, <1>2 DEF TimerStep, TimerLoop, TimerWaits, TimerTimesOut, TimerRelocks, TimerRelock,
       TimerQueries, TimerQueryReturns, TimerResets, TimerUnlocks, TimerSpurious, TimerQueryFails
<1>3. CASE ListenerStep \/ ListenerFails \/ ListenerQueryFails \/ ListenerLosesConnection
    BY <1>1, <1>3 DEF ListenerStep, ListenerConnects, ListenerListens, ListenerDrains,
       ListenerQueries, ListenerResult, ListenerResets, ListenerStops, ListenerEnds,
       ListenerFails, ListenerQueryFails, ListenerLosesConnection
<1>4. CASE ListenerCancelled
    BY <1>4 DEF ListenerCancelled, LogInterrupted, RebuildLabels
<1>5. CASE ShutdownStep \/ ShutdownSpurious
    BY <1>5 DEF ShutdownStep, ShutdownWaits, ShutdownStops, ShutdownWakes, ShutdownSpurious
<1>6. CASE \E t \in SignalTargets : SignalArrives(t) \/ HandlerLocks(t) \/ HandlerReturns(t)
    BY <1>6 DEF SignalArrives, HandlerLocks, HandlerReturns
<1>7. CASE BlockListChanges \/ PeriodEnds
    BY <1>7 DEF BlockListChanges, PeriodEnds
<1> QED
    BY <1>2, <1>3, <1>4, <1>5, <1>6, <1>7 DEF Next

\* Main goes on only when the thread it joins has ended.
LEMMA MainWaitsStep ==
    ASSUME TypeOK, MainWaits, Next
    PROVE  MainWaits'
<1> USE FirewalldAssumption, FourThreads DEF TypeOK, MainWaits, Exited, Threads, Rebuilders
<1>1. CASE MainStep
    BY <1>1 DEF MainStep, MainJoins, MainDestroys, MainTerminates, Moves, At, Then, sets
<1>2. CASE ~MainStep
    <2>1. ~Exited(Main)
        BY DEF Next
    <2> QED
        BY <1>2, <2>1, OthersStep
<1> QED
    BY <1>1, <1>2

-----------------------------------------------------------------------------
(* Rebuilds that do not overlap.                                           *)

\* A thread outside its rebuild is not concerned by what happens to the set.
LEMMA FillingKept ==
    ASSUME NEW t \in Rebuilders, NEW W, Filling(t, W), step'[t] = step[t], todo'[t] = todo[t],
           rebuild' = rebuild \/ ~Rebuilding(t)
    PROVE  Filling(t, W)'
BY DEF Filling, Rebuilding, RebuildLabels

\* A thread that is not at work has no list.
LEMMA NothingRead ==
    ASSUME NEW t \in Rebuilders, NEW W, ~AtWork(t), step'[t] = step[t]
    PROVE  Filling(t, W)'
BY DEF Filling, AtWork, Rebuilding, RebuildLabels

\* A rebuild that is alone fills its set with the list it has read before it activates
\* it: destroyed, then created, then filled, entry after entry.
LEMMA RebuildAlone ==
    ASSUME TypeOK, NEW t \in Rebuilders, RebuildStep(t), ~Overlap,
           NEW W, W \subseteq SUBSET Listed, Filling(t, W)
    PROVE  /\ Filling(t, W)'
           /\ \/ prod' = prod /\ ~Activates(t)
              \/ prod' \in W /\ Activates(t)
<1> USE FourThreads, WholeAreSets DEF TypeOK, Filling, At, Then, Rebuilders, Threads, Activates
<1>0. step[t] \in RebuildLabels
    BY RebuildTypes
<1>1. ~Disturbed(t)
    BY <1>0 DEF Overlap, Disturbed, Rebuilding
<1>2. CASE RebuildDestroys(t)
    <2>1. rebuild' = NoSet /\ prod' = prod /\ Then(t, "create")
        BY <1>1, <1>2, CommandAlone DEF RebuildDestroys
    <2> QED BY <1>2, <2>1 DEF RebuildDestroys
<1>3. CASE RebuildCreates(t)
    <2>1. rebuild = NoSet
        BY <1>3 DEF RebuildCreates
    <2>2. rebuild' = {} /\ prod' = prod /\ Then(t, Start(t))
        BY <1>1, <1>3, <2>1 DEF RebuildCreates, Command, sets
    <2> QED BY <1>3, <2>1, <2>2 DEF RebuildCreates, Start
<1>4. CASE RebuildAdds(t)
    <2>1. PICK a \in todo[t] :
              /\ Command(t, rebuild # NoSet, rebuild \cup {a}, prod, "add", "add")
              /\ todo' = [todo EXCEPT ![t] = @ \ {a}]
        BY <1>1, <1>4 DEF RebuildAdds
    <2>2. step[t] = "add" /\ rebuild # NoSet /\ rebuild \cup todo[t] \in W
        BY <1>4 DEF RebuildAdds
    <2>3. rebuild' = rebuild \cup {a} /\ prod' = prod /\ Then(t, "add")
        BY <1>1, <2>1, <2>2, CommandAlone
    <2>4. rebuild' \cup todo'[t] = rebuild \cup todo[t]
        BY <2>1, <2>3
    <2>5. rebuild' # NoSet
        BY <2>2, <2>3
    <2> QED BY <2>2, <2>3, <2>4, <2>5
<1>5. CASE RebuildIsFilled(t)
    <2>1. step[t] = "add" /\ todo[t] = {} /\ rebuild \in W
        BY <1>5 DEF RebuildIsFilled, Moves
    <2> QED BY <1>5, <2>1 DEF RebuildIsFilled, Moves, sets
<1>6. CASE RebuildSwaps(t)
    <2>1. \/ rebuild' = prod /\ prod' = rebuild /\ Then(t, "discard")
          \/ rebuild' = rebuild /\ prod' = prod /\ Then(t, "rename")
        BY <1>1, <1>6 DEF RebuildSwaps, Command, sets
    <2> QED BY <1>6, <2>1 DEF RebuildSwaps
<1>7. CASE RebuildRenames(t)
    <2>1. \/ rebuild' = NoSet /\ prod' = rebuild /\ Then(t, Finish(t, TRUE))
          \/ rebuild' = rebuild /\ prod' = prod /\ Then(t, "discard_failed")
        BY <1>1, <1>7 DEF RebuildRenames, Command, sets
    <2> QED BY <1>7, <2>1 DEF RebuildRenames, Finish
<1>8. CASE RebuildDiscards(t)
    <2>1. rebuild' = NoSet /\ prod' = prod /\ \E ok \in BOOLEAN : Then(t, Finish(t, ok))
        BY <1>1, <1>8 DEF RebuildDiscards, Command, sets
    <2> QED BY <1>8, <2>1 DEF RebuildDiscards, Finish
<1> QED
    BY <1>2, <1>3, <1>4, <1>5, <1>6, <1>7, <1>8 DEF RebuildStep

\* Any other step but main's leaves the sets alone; what a thread reads is the list the
\* database has, or the empty one.
LEMMA OtherStepFills ==
    ASSUME TypeOK, Next, ~MainStep, \A u \in Rebuilders : ~RebuildStep(u),
           NEW t \in Rebuilders, NEW V, NEW W, Filling(t, V),
           IF Reads(t) THEN {{}, Lists[version]} \subseteq W ELSE W = V
    PROVE  prod' = prod /\ ~Activates(t) /\ Filling(t, W)'
<1> USE FourThreads DEF TypeOK, Rebuilders, Threads, At, Then, Moves, sets, Reads, Activates
<1>1. CASE TimerStep \/ TimerSpurious \/ TimerQueryFails
    <2>1. rebuild' = rebuild /\ prod' = prod
        BY <1>1 DEF TimerStep, TimerLoop, TimerWaits, TimerTimesOut, TimerRelocks, TimerRelock,
           TimerQueries, TimerQueryReturns, TimerResets, TimerUnlocks, TimerSpurious,
           TimerQueryFails
    <2>2. step'[Listener] = step[Listener] /\ todo'[Listener] = todo[Listener]
        BY <1>1 DEF TimerStep, TimerLoop, TimerWaits, TimerTimesOut, TimerRelocks, TimerRelock,
           TimerQueries, TimerQueryReturns, TimerResets, TimerUnlocks, TimerSpurious,
           TimerQueryFails
    <2>3. CASE t = Listener
        BY <2>1, <2>2, <2>3, FillingKept
    <2>4. CASE t = Timer /\ (TimerQueries \/ TimerQueryFails)
        <3>1. PICK list \in {{}, Lists[version]} : TimerQueryReturns(list)
            BY <2>4 DEF TimerQueries, TimerQueryFails
        <3>2. /\ step[t] = "query" /\ step' = [step EXCEPT ![Timer] = "add"]
              /\ todo'[Timer] = list /\ rebuild = {}
            BY <2>4, <3>1 DEF TimerQueryReturns, Filling
        <3>3. Reads(t) /\ list \in W
            BY <2>4, <3>1, <3>2
        <3>4. rebuild' # NoSet /\ rebuild' \cup todo'[t] \in W
            BY <2>1, <2>4, <3>2, <3>3, WholeAreSets
        <3> QED BY <2>1, <2>4, <3>2, <3>4 DEF Filling
    <2>5. CASE t = Timer /\ ~(TimerQueries \/ TimerQueryFails)
        BY <1>1, <2>1, <2>5 DEF TimerStep, TimerLoop, TimerWaits, TimerTimesOut, TimerRelocks,
           TimerRelock, TimerResets, TimerUnlocks, TimerSpurious, Filling
    <2> QED BY <2>1, <2>3, <2>4, <2>5
<1>2. CASE ListenerStep \/ ListenerFails \/ ListenerQueryFails \/ ListenerLosesConnection
           \/ ListenerCancelled
    <2>1. rebuild' = rebuild /\ prod' = prod
        BY <1>2 DEF ListenerStep, ListenerConnects, ListenerListens, ListenerDrains,
           ListenerQueries, ListenerResult, ListenerResets, ListenerStops, ListenerEnds,
           ListenerFails, ListenerQueryFails, ListenerLosesConnection, ListenerCancelled, LogInterrupted
    <2>2. CASE t = Timer
        <3>1. CASE ListenerResets
            BY <2>1, <2>2, <3>1 DEF ListenerResets, Filling
        <3>2. CASE ~ListenerResets
            <4>1. step'[Timer] = step[Timer] /\ todo'[Timer] = todo[Timer]
                BY <1>2, <3>2 DEF ListenerStep, ListenerConnects, ListenerListens, ListenerDrains,
                   ListenerQueries, ListenerResult, ListenerStops, ListenerEnds, ListenerFails,
                   ListenerQueryFails, ListenerLosesConnection, ListenerCancelled, LogInterrupted
            <4> QED BY <2>1, <2>2, <4>1, FillingKept
        <3> QED BY <3>1, <3>2
    <2>3. CASE t = Listener /\ (ListenerQueries \/ ListenerQueryFails)
        <3>1. /\ step[t] = "query" /\ step' = [step EXCEPT ![Listener] = "result"]
              /\ todo'[Listener] \in {{}, Lists[version]}
            BY <2>3 DEF ListenerQueries, ListenerQueryFails
        <3>2. Reads(t)
            BY <2>3, <3>1
        <3>3. todo'[Listener] \in W
            BY <3>1, <3>2
        <3> QED BY <2>1, <2>3, <3>1, <3>3 DEF Filling
    <2>4. CASE t = Listener /\ ListenerCancelled
        <3>1. step'[Listener] = "exited"
            BY <2>4 DEF ListenerCancelled, LogInterrupted
        <3> QED BY <2>1, <2>4, <3>1 DEF Filling
    <2>5. CASE t = Listener /\ ~(ListenerQueries \/ ListenerQueryFails \/ ListenerCancelled)
        BY <1>2, <2>1, <2>5 DEF ListenerStep, ListenerConnects, ListenerListens, ListenerDrains,
           ListenerResult, ListenerResets, ListenerStops, ListenerEnds, ListenerFails,
           ListenerLosesConnection, Filling
    <2> QED BY <2>1, <2>2, <2>3, <2>4, <2>5
<1>3. CASE ShutdownStep \/ ShutdownSpurious
    <2>1. rebuild' = rebuild /\ prod' = prod /\ todo' = todo /\ step'[Listener] = step[Listener]
        BY <1>3 DEF ShutdownStep, ShutdownWaits, ShutdownStops, ShutdownWakes, ShutdownSpurious
    <2>2. step'[Timer] = step[Timer] \/ (step[Timer] = "wait" /\ step'[Timer] = "relock")
        BY <1>3 DEF ShutdownStep, ShutdownWaits, ShutdownStops, ShutdownWakes, ShutdownSpurious
    <2> QED BY <2>1, <2>2 DEF Filling
<1>4. CASE \/ \E u \in SignalTargets : SignalArrives(u) \/ HandlerLocks(u) \/ HandlerReturns(u)
           \/ BlockListChanges \/ PeriodEnds
    <2>1. /\ rebuild' = rebuild /\ prod' = prod /\ todo' = todo
          /\ step'[Listener] = step[Listener] /\ step'[Timer] = step[Timer]
        BY <1>4 DEF SignalArrives, HandlerLocks, HandlerReturns, BlockListChanges, PeriodEnds
    <2> QED BY <2>1, FillingKept
<1> QED
    BY <1>1, <1>2, <1>3, <1>4 DEF Next

\* Main touches the rebuild set when the rebuilders have ended.
LEMMA MainStepFills ==
    ASSUME TypeOK, MainWaits, MainStep
    PROVE  /\ prod' = prod
           /\ \A t \in Rebuilders : /\ ~Activates(t) /\ ~Reads(t)
                                    /\ \A W : Filling(t, W) => Filling(t, W)'
<1>1. /\ prod' = prod /\ todo' = todo /\ step'[Listener] = step[Listener]
      /\ step'[Timer] = step[Timer] /\ (rebuild' = rebuild \/ MainDestroys)
    BY FourThreads DEF MainStep, MainJoins, MainDestroys, MainTerminates, Moves, Then,
       TypeOK, sets, Threads, Rebuilders
<1>2. MainDestroys => \A t \in Rebuilders : ~Rebuilding(t)
    BY DEF MainDestroys, MainWaits, Exited, Rebuilding, RebuildLabels, Rebuilders, At
<1>3. ASSUME NEW t \in Rebuilders
      PROVE  /\ ~Activates(t) /\ ~Reads(t)
             /\ step'[t] = step[t] /\ todo'[t] = todo[t] /\ (rebuild' = rebuild \/ ~Rebuilding(t))
    BY <1>1, <1>2 DEF Rebuilders, Activates, Reads
<1> QED BY <1>1, <1>3, FillingKept

\* A step of one rebuild moves no other thread, and reads no list.
LEMMA OneRebuilds ==
    ASSUME TypeOK, NEW t \in Rebuilders, RebuildStep(t)
    PROVE  /\ Rebuilding(t) /\ ~Reads(t) /\ version' = version
           /\ \A u \in Rebuilders \ {t} : /\ step'[u] = step[u] /\ todo'[u] = todo[u]
                                          /\ ~Activates(u) /\ ~Reads(u)
<1>1. Rebuilding(t) /\ step[t] # "query" /\ version' = version
    BY RebuildTypes DEF Rebuilding, RebuildLabels
<1>2. ASSUME NEW u \in Rebuilders \ {t} PROVE step'[u] = step[u] /\ todo'[u] = todo[u]
    <2>1. step'[u] = step[u]
        BY RebuildTypes DEF Then, TypeOK, Threads
    <2>2. todo'[u] = todo[u]
        BY DEF TypeOK, RebuildStep, RebuildDestroys, RebuildCreates, RebuildAdds,
           RebuildIsFilled, RebuildSwaps, RebuildRenames, RebuildDiscards, Moves
    <2> QED BY <2>1, <2>2
<1> QED BY <1>1, <1>2 DEF Activates, Reads

\* As long as no two rebuilds overlap, each activates a whole list.
LEMMA SoundStep ==
    ASSUME TypeOK, MainWaits, RebuildsSound, HistoryNext
    PROVE  RebuildsSound'
<1>1. overlapped' \in BOOLEAN /\ (Overlap' => overlapped') /\ (overlapped => overlapped')
    BY Zenon DEF HistoryNext, RebuildsSound
<1>2. ASSUME ~overlapped' PROVE WholeLists' /\ \A t \in Rebuilders : Filling(t, Whole)'
    <2>1. WholeLists /\ (\A t \in Rebuilders : Filling(t, Whole)) /\ ~Overlap
        BY <1>1, <1>2 DEF RebuildsSound
    <2>2. Whole \subseteq SUBSET Listed /\ {{}, Lists[version]} \subseteq Whole
        BY WholeAreSets DEF Whole, TypeOK
    <2>3. CASE \E t \in Rebuilders : RebuildStep(t)
        <3>1. PICK t \in Rebuilders : RebuildStep(t)
            BY <2>3
        <3>2. WholeLists' /\ Filling(t, Whole)'
            BY <2>1, <2>2, <3>1, RebuildAlone DEF WholeLists
        <3>3. ASSUME NEW u \in Rebuilders, u # t PROVE Filling(u, Whole)'
            <4>1. ~Rebuilding(u) /\ step'[u] = step[u] /\ todo'[u] = todo[u]
                BY <2>1, <3>1, <3>3, OneRebuilds DEF Overlap, Rebuilders
            <4> QED BY <2>1, <4>1, FillingKept
        <3> QED BY <3>2, <3>3
    <2>4. CASE MainStep
        BY <2>1, <2>4, MainStepFills DEF WholeLists
    <2>5. CASE ~MainStep /\ \A t \in Rebuilders : ~RebuildStep(t)
        <3>1. ASSUME NEW t \in Rebuilders PROVE prod' = prod /\ Filling(t, Whole)'
            BY <2>1, <2>2, <2>5, OtherStepFills DEF HistoryNext
        <3> QED BY <2>1, <3>1 DEF WholeLists, Rebuilders
    <2> QED BY <2>3, <2>4, <2>5
<1> QED
    BY <1>1, <1>2 DEF RebuildsSound

-----------------------------------------------------------------------------
(* Rebuilds that do not cross.                                             *)

\* The versions of the block list are numbers.
LEMMA NumbersOfVersions == \A v \in Versions : v \in Nat
BY FirewalldAssumption DEF Versions

\* The versions stay versions the database has had.
LEMMA VersionsStep ==
    ASSUME TypeOK, RebuildsInOrder, HistoryNext
    PROVE  /\ fetched' \in [Rebuilders -> Versions] /\ newest' \in Versions
           /\ newest' <= version' /\ \A t \in Rebuilders : fetched'[t] <= version'
<1>1. /\ version \in Versions /\ fetched \in [Rebuilders -> Versions] /\ newest \in Versions
      /\ newest <= version /\ \A t \in Rebuilders : fetched[t] <= version
    BY DEF TypeOK, RebuildsInOrder
<1>2. version \in Nat /\ newest \in Nat /\ \A t \in Rebuilders : fetched[t] \in Nat
    BY <1>1, NumbersOfVersions
<1>3. version' \in Versions /\ version' \in Nat
    BY TypeStep, NumbersOfVersions DEF HistoryNext, TypeOK
<1>4. version <= version'
    <2>1. CASE BlockListChanges
        BY <1>2, <2>1 DEF BlockListChanges
    <2>2. CASE \E t \in Rebuilders : RebuildStep(t)
        <3>1. UNCHANGED version
            BY <2>2, OneRebuilds
        <3> QED BY <1>2, <3>1
    <2>3. CASE ~BlockListChanges /\ ~\E t \in Rebuilders : RebuildStep(t)
        <3>1. UNCHANGED version
            BY <2>3 DEF HistoryNext, Next, Rebuilders, TimerStep, TimerLoop, TimerWaits,
               TimerTimesOut, TimerRelocks, TimerRelock, TimerQueries, TimerQueryReturns,
               TimerResets, TimerUnlocks, TimerSpurious, TimerQueryFails, ListenerStep,
               ListenerConnects, ListenerListens, ListenerDrains, ListenerQueries,
               ListenerResult, ListenerResets, ListenerStops, ListenerEnds, ListenerFails,
               ListenerQueryFails, ListenerLosesConnection, ListenerCancelled, ShutdownStep,
               ShutdownWaits, ShutdownStops, ShutdownWakes, ShutdownSpurious, SignalArrives,
               HandlerLocks, HandlerReturns, MainStep, MainJoins, MainDestroys, MainTerminates,
               PeriodEnds, Moves
        <3> QED BY <1>2, <3>1
    <2> QED BY <2>1, <2>2, <2>3
<1>5. CASE crossed' /\ fetched' = [t \in Rebuilders |-> 1] /\ newest' = 1
    <2>1. 1 \in Versions /\ 1 <= version'
        BY <1>3, FirewalldAssumption DEF Versions
    <2> QED BY <1>5, <2>1
<1>6. CASE /\ fetched' = [t \in Rebuilders |-> IF Reads(t) THEN version ELSE fetched[t]]
           /\ \/ \E t \in Rebuilders : Activates(t) /\ newest' = Newer(fetched[t], newest)
              \/ newest' = newest
    <2>1. /\ fetched' \in [Rebuilders -> Versions]
          /\ \A t \in Rebuilders : fetched'[t] \in {version, fetched[t]}
        BY <1>1, <1>6
    <2>2. \A t \in Rebuilders : fetched'[t] <= version'
        BY <1>1, <1>2, <1>3, <1>4, <2>1
    <2>3. newest' = newest \/ \E t \in Rebuilders : newest' = fetched[t]
        BY <1>6 DEF Newer
    <2>4. newest' \in Versions /\ newest' <= version'
        BY <1>1, <1>2, <1>3, <1>4, <2>3
    <2> QED BY <2>1, <2>2, <2>4
<1> QED BY <1>5, <1>6 DEF HistoryNext

\* As long as no two rebuilds cross, the list that a rebuild activates is no older than
\* any that has been in place: nobody has activated one since it was read.
LEMMA OrderStep ==
    ASSUME TypeOK, MainWaits, RebuildsInOrder, HistoryNext
    PROVE  RebuildsInOrder'
<1>1. crossed' \in BOOLEAN /\ (Crossing' => crossed') /\ (crossed => crossed')
    BY Zenon DEF HistoryNext, RebuildsInOrder
<1>2. ASSUME ~crossed'
      PROVE  /\ prod' \in {NoSet, {}, Lists[newest']}
             /\ \A t \in Rebuilders : Filling(t, Current(t))'
    <2>1. /\ prod \in {NoSet, {}, Lists[newest]}
          /\ \A t \in Rebuilders : Filling(t, Current(t))
          /\ ~Crossing
        BY <1>1, <1>2 DEF RebuildsInOrder
    <2>2. ~Overlap
        BY <2>1 DEF Overlap, Crossing, AtWork
    <2>3. /\ fetched \in [Rebuilders -> Versions] /\ newest \in Versions /\ version \in Versions
          /\ newest \in Nat /\ \A t \in Rebuilders : fetched[t] \in Nat
          /\ newest <= version /\ \A t \in Rebuilders : fetched[t] <= version
        BY NumbersOfVersions DEF RebuildsInOrder, TypeOK
    <2>4. /\ fetched' = [t \in Rebuilders |-> IF Reads(t) THEN version ELSE fetched[t]]
          /\ \/ \E t \in Rebuilders : Activates(t) /\ newest' = Newer(fetched[t], newest)
             \/ (\A t \in Rebuilders : ~Activates(t)) /\ newest' = newest
        BY <1>2 DEF HistoryNext
    <2>5. \A t \in Rebuilders : Current(t) \subseteq SUBSET Listed
        BY <2>3, ListsAreListed DEF Current
    <2>6. CASE \E t \in Rebuilders : RebuildStep(t)
        <3>1. PICK t \in Rebuilders : RebuildStep(t)
            BY <2>6
        <3>2. PICK W : W = Current(t)
            OBVIOUS
        <3>3. /\ Filling(t, W)'
              /\ \/ prod' = prod /\ ~Activates(t)
                 \/ prod' \in W /\ Activates(t)
            BY <2>1, <2>2, <2>5, <3>1, <3>2, RebuildAlone
        <3>4. /\ \A u \in Rebuilders : ~Reads(u)
              /\ \A u \in Rebuilders : u # t => ~Activates(u) /\ ~AtWork(u) /\ step'[u] = step[u]
            BY <2>1, <3>1, OneRebuilds DEF Crossing, AtWork, Rebuilders
        <3>5. UNCHANGED fetched
            BY <2>3, <2>4, <3>4
        <3>6. CASE Activates(t)
            <4>1. W # {} /\ prod' \in W
                BY <3>3, <3>6
            <4>2. newest <= fetched[t] /\ W = {{}, Lists[fetched[t]]}
                BY <3>2, <4>1 DEF Current
            <4>3. newest' = fetched[t]
                BY <2>3, <2>4, <3>4, <3>6, <4>2 DEF Newer
            <4>4. prod' \in {NoSet, {}, Lists[newest']}
                BY <4>1, <4>2, <4>3
            <4>5. Current(t)' = W
                BY <2>3, <3>5, <4>2, <4>3 DEF Current
            <4> QED BY <3>3, <3>4, <4>4, <4>5, NothingRead DEF Filling
        <3>7. CASE ~Activates(t)
            <4>1. UNCHANGED newest /\ UNCHANGED prod
                BY <2>4, <3>3, <3>4, <3>7
            <4>2. Current(t)' = W
                BY <3>2, <3>5, <4>1 DEF Current
            <4> QED BY <2>1, <3>3, <3>4, <4>1, <4>2, NothingRead DEF Filling
        <3> QED BY <3>6, <3>7
    <2>7. ASSUME ~\E t \in Rebuilders : RebuildStep(t), NEW t \in Rebuilders
          PROVE  prod' = prod /\ ~Activates(t)
        <3>1. CASE MainStep
            BY <3>1, MainStepFills
        <3>2. CASE ~MainStep
            <4>1. PICK W : W = IF Reads(t) THEN {{}, Lists[version]} ELSE Current(t)
                OBVIOUS
            <4> QED BY <2>1, <2>7, <3>2, <4>1, OtherStepFills DEF HistoryNext
        <3> QED BY <3>1, <3>2
    <2>8. ASSUME ~\E t \in Rebuilders : RebuildStep(t), NEW t \in Rebuilders
          PROVE  Filling(t, Current(t))'
        <3>1. newest' = newest
            BY <2>4, <2>7, <2>8
        <3>2. PICK W : W = IF Reads(t) THEN {{}, Lists[version]} ELSE Current(t)
            OBVIOUS
        <3>3. Current(t)' = W
            BY <2>3, <2>4, <3>1, <3>2 DEF Current
        <3>4. CASE MainStep
            BY <2>1, <3>2, <3>3, <3>4, MainStepFills DEF Filling
        <3>5. CASE ~MainStep
            <4>1. Filling(t, W)'
                BY <2>1, <2>8, <3>2, <3>5, OtherStepFills DEF HistoryNext
            <4> QED BY <3>3, <4>1 DEF Filling
        <3> QED BY <3>4, <3>5
    <2>9. CASE ~\E t \in Rebuilders : RebuildStep(t)
        <3>1. prod' = prod /\ newest' = newest
            BY <2>4, <2>7, <2>9 DEF Rebuilders
        <3> QED BY <2>1, <2>8, <2>9, <3>1
    <2> QED BY <2>6, <2>9
<1>3. /\ fetched' \in [Rebuilders -> Versions] /\ newest' \in Versions
      /\ newest' <= version' /\ \A t \in Rebuilders : fetched'[t] <= version'
    BY VersionsStep
<1> QED
    BY <1>1, <1>2, <1>3 DEF RebuildsInOrder

-----------------------------------------------------------------------------
(* The theorems.                                                           *)

\* The inductive invariant: it holds when main has created the threads.
LEMMA InitIInv == HistoryInit => IInv
<1> SUFFICES ASSUME HistoryInit PROVE IInv
    OBVIOUS
<1> USE FirewalldAssumption, FourThreads, WholeAreSets DEF HistoryInit, Init, Rebuilders, Threads
<1>1. Lists[1] \in Whole /\ Lists[1] \subseteq Listed /\ 1 \in Versions
    <2>1. 1 \in Versions
        BY DEF Versions
    <2> QED BY <2>1 DEF Whole, Listed
<1>2. rebuild = NoSet \/ rebuild \subseteq Entries
    BY DEF Entries
<1>3. /\ step[Main] = "join_timer" /\ step[Timer] = "loop" /\ step[Shutdown] = "lock"
      /\ step[Listener] \in {"connect", "exited"}
    BY SMTT(30)
<1>4. TypeOK
    <2>1. step \in [Threads -> TimerLabels \cup ListenerLabels \cup ShutdownLabels \cup MainLabels]
        BY SMTT(30) DEF TimerLabels, ListenerLabels, ShutdownLabels, MainLabels
    <2>2. is_running \in BOOLEAN /\ due \in BOOLEAN /\ exist \in BOOLEAN /\ socket \in BOOLEAN
        BY Zenon
    <2>3. handlers \in [Threads -> Seq({"lock", "broadcast"})]
        OBVIOUS
    <2>4. todo \in [Rebuilders -> SUBSET Listed]
        OBVIOUS
    <2> QED
        BY <1>1, <1>2, <1>3, <2>1, <2>2, <2>3, <2>4 DEF TypeOK, TimerLabels, ListenerLabels, ShutdownLabels,
           MainLabels
<1>5. MainWaits
    BY <1>3 DEF MainWaits, Exited
<1>6. RebuildsSound
    <2>1. ~Rebuilding(Timer)
        BY <1>3 DEF Rebuilding, RebuildLabels
    <2>2. \A W : \A t \in Rebuilders : Filling(t, W)
        BY <1>3 DEF Filling
    <2>3. WholeLists
        BY <1>1 DEF WholeLists
    <2>4. overlapped \in BOOLEAN /\ ~overlapped
        BY Zenon DEF HistoryInit
    <2> QED
        BY <2>1, <2>2, <2>3, <2>4 DEF RebuildsSound, Overlap
<1>7. RebuildsInOrder
    <2>1. ~AtWork(Timer)
        BY <1>3 DEF AtWork, Rebuilding, RebuildLabels
    <2>2. crossed \in BOOLEAN /\ ~crossed
        BY Zenon DEF HistoryInit
    <2>3. /\ fetched \in [Rebuilders -> Versions] /\ newest \in Versions
          /\ newest <= version /\ \A t \in Rebuilders : fetched[t] <= version
        BY <1>1 DEF HistoryInit
    <2>4. prod \in {NoSet, {}, Lists[newest]}
        BY DEF HistoryInit
    <2>5. \A t \in Rebuilders : Filling(t, Current(t))
        BY <1>3 DEF Filling
    <2> QED BY <2>1, <2>2, <2>3, <2>4, <2>5 DEF RebuildsInOrder, Crossing
<1> QED
    BY <1>4, <1>5, <1>6, <1>7 DEF IInv

\* The inductive invariant: every step preserves it.
LEMMA StepIInv == IInv /\ [HistoryNext]_HistoryVars => IInv'
<1> SUFFICES ASSUME IInv, [HistoryNext]_HistoryVars PROVE IInv'
    OBVIOUS
<1>1. CASE HistoryNext
    <2>1. TypeOK'
        BY <1>1, TypeStep DEF IInv, HistoryNext
    <2>2. MainWaits'
        BY <1>1, MainWaitsStep DEF IInv, HistoryNext
    <2>3. RebuildsSound'
        BY <1>1, SoundStep DEF IInv
    <2>4. RebuildsInOrder'
        BY <1>1, OrderStep DEF IInv
    <2> QED
        BY <2>1, <2>2, <2>3, <2>4 DEF IInv
<1>2. CASE UNCHANGED HistoryVars
    <2>1. /\ UNCHANGED <<step, is_running, timer_mutex, shutdown_mutex, handlers, signals, due>>
          /\ UNCHANGED <<logging_lock, todo, rebuild, prod, exist, version, socket, overlapped>>
          /\ UNCHANGED <<crossed, fetched, newest>>
        BY <1>2 DEF HistoryVars, vars, sets, mutexes, signalling
    <2>2. TypeOK'
        BY <2>1 DEF IInv, TypeOK
    <2>3. MainWaits'
        BY <2>1 DEF IInv, MainWaits, Exited
    <2>4. RebuildsSound'
        BY <2>1 DEF IInv, RebuildsSound, Filling, WholeLists, Overlap, Rebuilding
    <2>5. RebuildsInOrder'
        BY <2>1 DEF IInv, RebuildsInOrder, Filling, Current, Crossing, AtWork, Rebuilding
    <2> QED
        BY <2>2, <2>3, <2>4, <2>5 DEF IInv
<1> QED
    BY <1>1, <1>2

\* The threads, the mutexes, the handlers, the sets and what main waits for, as
\* the daemon's functions leave them at each of their steps.
THEOREM Invariance == HistorySpec => []IInv
BY InitIInv, StepIInv, PTL DEF HistorySpec

\* Every variable keeps its type (all of iptracking-firewalld.c).
THEOREM Typed == HistorySpec => []TypeOK
<1>1. IInv => TypeOK
    BY DEF IInv
<1> QED
    BY <1>1, Invariance, PTL

\* As long as no two rebuilds have run at the same time, each activation has put a whole
\* block list in place; and as long as none has begun after another had read its list,
\* none has put an older list in the place of a newer one
\* (iptracking-firewalld.c:298-332, 355-375, db_instance_postgresql.c:622-628).
THEOREM WholeAloneInOrder == HistorySpec => []WholeAndInOrder
<1>1. IInv => WholeAndInOrder
    BY DEF IInv, RebuildsSound, RebuildsInOrder, WholeAndInOrder
<1> QED
    BY <1>1, Invariance, PTL

\* When the daemon has ended, so have its threads, and no rebuild set is left in
\* the kernel (iptracking-firewalld.c:554-563).
THEOREM CleanEnd == HistorySpec => []CleanExit
<1>1. IInv => CleanExit
    BY DEF IInv, MainWaits, CleanExit, Exited, Threads, Rebuilders
<1> QED
    BY <1>1, Invariance, PTL
=============================================================================
