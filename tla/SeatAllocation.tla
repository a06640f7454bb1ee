--------------------------- MODULE SeatAllocation ---------------------------
(***************************************************************************)
(* What enrolment promises, with every request a single indivisible step:  *)
(* a student joins one class, picks subjects of that class that have a     *)
(* seat left, changes class and loses the picks, or leaves.  There is no   *)
(* counter: a subject is full when as many students hold it as it has      *)
(* seats.                                                                  *)
(***************************************************************************)
EXTENDS Naturals, FiniteSets

CONSTANTS Students, EnrollmentIds, Classes, Subjects, None, Offer, Limit

VARIABLES row, picks

vars == <<row, picks>>

Holders(s) == {e \in EnrollmentIds : s \in picks[e]}

HasSeat(s) == Cardinality(Holders(s)) < Limit[s]

Init ==
  /\ row = [e \in EnrollmentIds |-> None]
  /\ picks = [e \in EnrollmentIds |-> {}]

\* Subjects `want' may be held by enrollment e in class c.
MayPick(e, c, want) ==
  /\ want \subseteq Offer[c]
  /\ \A s \in want \ picks[e] : HasSeat(s)

Enroll(e, st, c, want) ==
  /\ row[e] = None
  /\ \A f \in EnrollmentIds : row[f] # None => row[f].student # st
  /\ MayPick(e, c, want)
  /\ row' = [row EXCEPT ![e] = [student |-> st, class |-> c]]
  /\ picks' = [picks EXCEPT ![e] = want]

Choose(e, want) ==
  /\ row[e] # None
  /\ MayPick(e, row[e].class, want)
  /\ picks' = [picks EXCEPT ![e] = want]
  /\ UNCHANGED row

Move(e, c) ==
  /\ row[e] # None
  /\ row' = [row EXCEPT ![e].class = c]
  /\ picks' = [picks EXCEPT ![e] = {}]

Leave(e) ==
  /\ row[e] # None
  /\ row' = [row EXCEPT ![e] = None]
  /\ picks' = [picks EXCEPT ![e] = {}]

Next ==
  \E e \in EnrollmentIds :
    \/ \E st \in Students, c \in Classes, want \in SUBSET Subjects : Enroll(e, st, c, want)
    \/ \E want \in SUBSET Subjects : Choose(e, want)
    \/ \E c \in Classes : Move(e, c)
    \/ Leave(e)

Spec == Init /\ [][Next]_vars
=============================================================================
