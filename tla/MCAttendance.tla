---------------------------- MODULE MCAttendance ----------------------------
(* Small instances of Attendance. *)
EXTENDS Attendance, TLC

CONSTANTS st1, present

\* A student is marked, cleared, or left out (which a PUT takes as cleared).
SmallBatches == {st1 :> present, st1 :> None, [st \in {} |-> None]}

Symmetry == Permutations(Classes) \cup Permutations(Sheets) \cup Permutations(Requests)
=============================================================================
