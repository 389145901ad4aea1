-------------------------- MODULE FirewalldHistory --------------------------
(***************************************************************************)
(* Firewalld with history variables: have the two rebuilders ever been at  *)
(* work at the same time, and which of the database's lists has each of    *)
(* them read and activated?                                                *)
(***************************************************************************)
EXTENDS MCFirewalld

VARIABLES
    overlapped,  \* two rebuilds have used the rebuild set at the same time
    crossed,     \* one has begun after the other had read its list, or begun, too
    fetched,     \* the version of the list each rebuilder read last
    newest       \* the newest version that has ever been activated

Overlap == \A t \in Rebuilders : Rebuilding(t)

\* The listener is at work when it asks for the list, the timer thread before that.
AtWork(t) == Rebuilding(t) \/ step[t] \in {"query", "result"}

Crossing == \A t \in Rebuilders : AtWork(t)

HistoryVars == <<vars, overlapped, crossed, fetched, newest>>

HistoryInit ==
    /\ Init
    /\ overlapped = FALSE /\ crossed = FALSE
    /\ fetched = [t \in Rebuilders |-> 1]
    /\ newest = 1

Reads(t) == step[t] = "query" /\ step'[t] # "query"

\* The rebuild set has become the production set.
Activates(t) == step[t] \in {"swap", "rename"} /\ step'[t] \in {"discard", "reset"}

Newer(v, w) == IF v > w THEN v ELSE w

\* Once rebuilds have crossed no version is noted any more.
HistoryNext ==
    /\ Next
    /\ overlapped' = (overlapped \/ Overlap')
    /\ crossed' = (crossed \/ Crossing')
    /\ \/ crossed' /\ fetched' = [t \in Rebuilders |-> 1] /\ newest' = 1
       \/ /\ ~crossed'
          /\ fetched' = [t \in Rebuilders |-> IF Reads(t) THEN version ELSE fetched[t]]
          /\ \/ \E t \in Rebuilders : Activates(t) /\ newest' = Newer(fetched[t], newest)
             \/ (\A t \in Rebuilders : ~Activates(t)) /\ newest' = newest

HistorySpec == HistoryInit /\ [][HistoryNext]_HistoryVars

\* As long as no two rebuilds have run at the same time, each activation has put a
\* whole block list in place; and as long as none has begun after another had read
\* its list, the list in place is the newest there has been, or empty after a failed
\* query: none gives way to an older one
\* (iptracking-firewalld.c:298-332, 355-375, db_instance_postgresql.c:622-628).
WholeAndInOrder ==
    /\ ~overlapped => WholeLists
    /\ ~crossed => prod \in {NoSet, {}, Lists[newest]}

-----------------------------------------------------------------------------
\* What the rebuild set holds at each label of thread t, if nobody interferes and
\* what t has read is one of W.
Filling(t, W) ==
    /\ (t = Listener /\ step[t] \in {"result", "destroy", "create"}) => todo[t] \in W
    /\ step[t] = "create" => rebuild = NoSet
    /\ (t = Timer /\ step[t] = "query") => rebuild = {}
    /\ step[t] = "add" => rebuild # NoSet /\ rebuild \cup todo[t] \in W
    /\ step[t] \in {"swap", "rename"} => rebuild \in W

\* What every step preserves of the lists being whole ...
RebuildsSound ==
    /\ overlapped \in BOOLEAN
    /\ Overlap => overlapped
    /\ ~overlapped => WholeLists /\ \A t \in Rebuilders : Filling(t, Whole)

\* What thread t may activate: nothing, once a newer list has been in place.
Current(t) == IF newest <= fetched[t] THEN {{}, Lists[fetched[t]]} ELSE {}

\* ... and of their order.
RebuildsInOrder ==
    /\ crossed \in BOOLEAN
    /\ Crossing => crossed
    /\ fetched \in [Rebuilders -> Versions] /\ newest \in Versions
    /\ newest <= version /\ \A t \in Rebuilders : fetched[t] <= version
    /\ ~crossed => /\ prod \in {NoSet, {}, Lists[newest]}
                   /\ \A t \in Rebuilders : Filling(t, Current(t))

IInv == TypeOK /\ MainWaits /\ RebuildsSound /\ RebuildsInOrder
=============================================================================
