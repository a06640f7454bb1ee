--------------------------- MODULE MCEnrollments ---------------------------
(* Small instances of Enrollments. *)
EXTENDS Enrollments, TLC

CONSTANTS c1, c2, s1, s2

\* Every class runs every subject.
OfferAll == [c \in Classes |-> Subjects]
\* Two classes that share one subject and differ in the other.
OfferSplit == c1 :> {s1} @@ c2 :> {s1, s2}
OneSeat == [s \in Subjects |-> 1]

Symmetry == Permutations(Students) \cup Permutations(Requests) \cup Permutations(EnrollmentIds)
=============================================================================
