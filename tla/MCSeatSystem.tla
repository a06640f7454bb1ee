---------------------------- MODULE MCSeatSystem ----------------------------
(* Small instances of SeatSystem. *)
EXTENDS SeatSystem, TLC

CONSTANTS c1, c2, s1, s2

OfferAll == [c \in Classes |-> Subjects]
\* Only the second class runs the subject.
OfferSecond == c1 :> {} @@ c2 :> {s1}
OneSeat == [s \in Subjects |-> 1]

Symmetry == Permutations(Students) \cup Permutations(Requests)
            \cup Permutations(EnrollmentIds) \cup Permutations(Admins)
=============================================================================
