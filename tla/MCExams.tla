------------------------------ MODULE MCExams ------------------------------
(* Small instances of Exams. *)
EXTENDS Exams, TLC

CONSTANTS st1

Scored(n) == [obtained |-> n, absent |-> FALSE]
Absent == [obtained |-> Nothing, absent |-> TRUE]

SmallBatches == {st1 :> Scored(1), st1 :> Scored(2), st1 :> Absent, st1 :> Clear}
TopScore == {st1 :> Scored(2)}
=============================================================================
