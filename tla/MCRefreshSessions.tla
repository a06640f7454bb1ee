------------------------- MODULE MCRefreshSessions -------------------------
(* Small instances of RefreshSessions. *)
EXTENDS RefreshSessions, TLC

CONSTANT p1

FirstPassword == [a \in Accounts |-> p1]

Symmetry == Permutations(Requests) \cup Permutations(Browsers)
=============================================================================
