--------------------------- MODULE LogQueueLists ---------------------------
(***************************************************************************)
(* LogQueue with the pointers of RecordLists: as the threads push and pop, *)
(* the lists below follow the sequence of LogQueue.                        *)
(***************************************************************************)
EXTENDS LogQueue, SequencesExt

VARIABLES link, event, free_head, used_head, used_tail

Lists == INSTANCE RecordLists

lists == <<link, event, free_head, used_head, used_tail>>
allVars == <<vars, lists>>

QueueInit == Init /\ Lists!ListsInit

\* What the queue's step does to the lists.
ListsFollow ==
    \/ used' = used /\ UNCHANGED lists
    \/ /\ Len(used') > Len(used)
       /\ IF n_rec_free > 0 THEN Lists!PushReused(Last(used'))
                            ELSE Lists!PushPooled(Last(used'), PoolSize)
    \/ Len(used') < Len(used) /\ Lists!PopUsed

QueueNext == Next /\ ListsFollow

QueueSpec == QueueInit /\ [][QueueNext]_allVars

-----------------------------------------------------------------------------
\* Every record of every pool is on exactly one list, once: none is lost, none
\* is free and used at the same time, no list closes on itself, and the counts
\* that decide whether a pool is needed are the lengths of the lists, whatever
\* the order of pushes, pops and new pools (log_queue.c:81-86, 129-142, 161-175).
ListsSound ==
    \E u \in [1..n_rec_used -> Lists!Records], f \in [1..n_rec_free -> Lists!Records] :
        /\ Lists!IsList(used_head, u) /\ Lists!IsList(free_head, f)
        /\ IsInjective(u \o f) /\ Range(u \o f) = Lists!Records

\* The used list holds the queue's events in the queue's order, and the tail
\* pointer is where the list ends, and NULL exactly when it is empty
\* (log_queue.c:130-142, 166, 316-319).
ListsInOrder ==
    \E u \in [1..Len(used) -> Lists!Records] :
        /\ Lists!IsList(used_head, u)
        /\ used = [k \in 1..Len(u) |-> event[u[k]]]
        /\ used_tail = IF u = <<>> THEN Lists!NULL ELSE Last(u)
=============================================================================
