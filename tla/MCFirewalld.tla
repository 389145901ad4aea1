---------------------------- MODULE MCFirewalld ----------------------------
(* Firewalld for TLC: the lists the database goes through.          *)
EXTENDS Firewalld

\* An address is blocked, then its neighbour, which is freed again.
MCLists == <<{1}, {1, 2}, {1}>>

\* One address is blocked, then another one in its place.
MCTwoLists == <<{1}, {2}>>

\* A rebuild that a crash interrupted, with an address no longer blocked.
MCLeftovers == {{3}}
=============================================================================
