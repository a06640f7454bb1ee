---------------------------- MODULE MCStaffPage ----------------------------
(* Small instances of StaffPage. *)
EXTENDS StaffPage
=============================================================================
