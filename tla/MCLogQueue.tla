----------------------------- MODULE MCLogQueue -----------------------------
(***************************************************************************)
(* LogQueueLists for TLC: the event threads are alike, and so are the      *)
(* events.                                                                 *)
(***************************************************************************)
EXTENDS LogQueueLists

Symmetry == Permutations(Pushers) \cup Permutations(Events)
=============================================================================
