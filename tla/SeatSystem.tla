----------------------------- MODULE SeatSystem -----------------------------
(***************************************************************************)
(* Enrolment requests and administrative work over the same tables.        *)
(***************************************************************************)
EXTENDS Enrollments, SubjectAdmin

ASSUME SeatSystemAssumption == Requests \cap Admins = {}

systemVars == <<dbVars, requestVars, adminVars>>

SystemTypeOK == DbTypeOK /\ RequestTypeOK /\ AdminTypeOK

SystemInit == DbInit /\ RequestInit /\ AdminInit

SystemNext ==
  \/ \E w \in Requests : RequestStep(w) /\ UNCHANGED adminVars
  \/ \E a \in Admins : AdminStep(a) /\ UNCHANGED requestVars

SystemSpec == SystemInit /\ [][SystemNext]_systemVars

FairSystemSpec ==
  /\ SystemSpec
  /\ \A w \in Requests : SF_systemVars(Serve(w) /\ UNCHANGED adminVars)
  /\ \A a \in Admins : SF_systemVars(AdminServe(a) /\ UNCHANGED requestVars)

-----------------------------------------------------------------------------
(* Properties.                                                             *)

\* A counter row is held only by a session still in its loop over the seats:
\* no early return, error or success leaves one locked (db/session.py:38-45,
\* get_db ends every transaction).
HoldersAtWork ==
  \A s \in Subjects :
    /\ lock[s] \in Requests => pc[lock[s]] = "seats"
    /\ lock[s] \in Admins => apc[lock[s]] = "fix"

\* Administrative work ends too, although its UPDATEs queue for the rows of
\* the enrolment requests and reconcile_counts holds several rows at once.
AdminEnds == \A a \in Admins : apc[a] # "idle" ~> apc[a] = "idle"

\* Nobody waits for ever: a ring of sessions, each holding a row the next one
\* needs, is broken (services/enrollments.py:188-199, cli/reconcile_counts.py:46-51).
WorkEnds == RequestsEnd /\ AdminEnds
=============================================================================
