---------------------------- MODULE Enrollments ----------------------------
(***************************************************************************)
(* The four enrolment endpoints (app/services/enrollments.py behind        *)
(* app/api/v1/enrollments.py) as concurrent requests, each a transaction   *)
(* that runs one SQL statement per step:                                   *)
(*                                                                         *)
(*   enroll    student -> class -> offer -> seats -> commit                *)
(*   set       row -> picks -> offer -> seats -> commit                    *)
(*   move      row -> picks -> class -> seats -> commit                    *)
(*   unenroll  row -> picks -> seats -> commit                             *)
(*                                                                         *)
(* Between two statements any other request may run, so what `view' holds  *)
(* may be stale by the time the seats are updated and the rows flushed.    *)
(***************************************************************************)
EXTENDS SeatDb

CONSTANTS
  Requests,        \* HTTP requests in flight at the same time
  EnrollmentOps,   \* the endpoints exercised
  OneEditor        \* TRUE: callers never edit one enrollment concurrently

ASSUME EnrollmentsAssumption ==
  /\ Requests \subseteq Sessions
  /\ EnrollmentOps \subseteq {"enroll", "set", "move", "unenroll"}
  /\ OneEditor \in BOOLEAN

VARIABLES
  pc,     \* the statement a request is about to run
  job,    \* what the request asks for
  view    \* what the request has read: its class and its picks

requestVars == <<pc, job, view>>
vars == <<dbVars, requestVars>>

Labels == {"idle", "student", "row", "picks", "class", "offer", "seats"}

NoJob == [op |-> "none", student |-> None, id |-> None, class |-> None, want |-> {}]
NoView == [class |-> None, picks |-> {}]

Jobs ==
  {NoJob}
  \cup [op : {"enroll"}, student : Students, id : {None}, class : Classes, want : SUBSET Subjects]
  \cup [op : {"set"}, student : {None}, id : EnrollmentIds, class : {None}, want : SUBSET Subjects]
  \cup [op : {"move"}, student : {None}, id : EnrollmentIds, class : Classes, want : {{}}]
  \cup [op : {"unenroll"}, student : {None}, id : EnrollmentIds, class : {None}, want : {{}}]
Views == [class : Classes \cup {None}, picks : SUBSET Subjects]

RequestTypeOK ==
  /\ pc \in [Requests -> Labels]
  /\ job \in [Requests -> Jobs]
  /\ view \in [Requests -> Views]
  /\ \A w \in Requests : pc[w] = "row" => job[w].id \in EnrollmentIds

RequestInit ==
  /\ pc = [w \in Requests |-> "idle"]
  /\ job = [w \in Requests |-> NoJob]
  /\ view = [w \in Requests |-> NoView]

Init == DbInit /\ RequestInit

-----------------------------------------------------------------------------
(* Mutants.                                                                *)

Fail_NoRollback(w) ==
  /\ pc' = [pc EXCEPT ![w] = "idle"]
  /\ job' = [job EXCEPT ![w] = NoJob]
  /\ view' = [view EXCEPT ![w] = NoView]
  /\ UNCHANGED dbVars

MayInsertLinks_NoForeignKey(w) == TRUE
OfferCovers_Always(w) == TRUE

-----------------------------------------------------------------------------
(* Bookkeeping of one request.                                             *)

At(w, label) == pc[w] = label

Goto(w, label) == pc' = [pc EXCEPT ![w] = label]

\* The request is over and its session goes back to the pool.
Finish(w) ==
  /\ Goto(w, "idle")
  /\ job' = [job EXCEPT ![w] = NoJob]
  /\ view' = [view EXCEPT ![w] = NoView]

\* An AppError, an IntegrityError or a lost connection: get_db rolls back.
Fail(w) == Finish(w) /\ Rollback(w)

\* An early return before anything was written.
Refuse(w) == Finish(w) /\ UNCHANGED dbVars

Start(w, label, request) ==
  /\ At(w, "idle")
  /\ request.op \in EnrollmentOps
  /\ Goto(w, label)
  /\ job' = [job EXCEPT ![w] = request]
  /\ UNCHANGED <<dbVars, view>>

\* The picks _apply_subject_diff takes away and adds; `want' is empty for a
\* move or an unenrolment, which drop everything.
Dropped(w) == view[w].picks \ job[w].want
Added(w) == job[w].want \ view[w].picks

\* Enter the loops over the seats: releases first, then claims.
ToSeats(w, have, want) ==
  /\ Goto(w, "seats")
  /\ todo' = [todo EXCEPT ![w] = IF have \ want # {} THEN have \ want ELSE want \ have]
  /\ UNCHANGED <<rosterVars, catalogVars, count, draft, lock, job>>

-----------------------------------------------------------------------------
(* A request arrives.                                                      *)

Editable(e) ==
  /\ row[e] # None
  /\ OneEditor => \A w \in Requests : job[w].id # e

BeginEnroll(w) ==
  \E st \in Students, c \in Classes, want \in SUBSET Subjects :
    Start(w, "student",
          [op |-> "enroll", student |-> st, id |-> None, class |-> c, want |-> want])

BeginSet(w) ==
  \E e \in EnrollmentIds, want \in SUBSET Subjects :
    /\ Editable(e)
    /\ Start(w, "row", [op |-> "set", student |-> None, id |-> e, class |-> None, want |-> want])

BeginMove(w) ==
  \E e \in EnrollmentIds, c \in Classes :
    /\ Editable(e)
    /\ Start(w, "row", [op |-> "move", student |-> None, id |-> e, class |-> c, want |-> {}])

BeginUnenroll(w) ==
  \E e \in EnrollmentIds :
    /\ Editable(e)
    /\ Start(w, "row", [op |-> "unenroll", student |-> None, id |-> e, class |-> None, want |-> {}])

-----------------------------------------------------------------------------
(* The reads.                                                              *)

\* enroll: _get_student (active here) and the check for an enrollment.
ReadStudent(w) ==
  /\ At(w, "student")
  /\ IF StudentTaken(job[w].student)
     THEN Refuse(w)
     ELSE Goto(w, "class") /\ UNCHANGED <<dbVars, job, view>>

\* get_enrollment's own SELECT ...
ReadRow(w) ==
  /\ At(w, "row")
  /\ IF row[job[w].id] = None
     THEN Refuse(w)
     ELSE /\ view' = [view EXCEPT ![w].class = row[job[w].id].class]
          /\ Goto(w, "picks")
          /\ UNCHANGED <<dbVars, job>>

\* ... and the SELECT its selectinload runs for the picks.  Moving to the
\* class the student is already in returns at once.
ReadPicks(w) ==
  LET read == picks[job[w].id] IN
  /\ At(w, "picks")
  /\ \/ /\ job[w].op = "move" /\ job[w].class = view[w].class
        /\ Refuse(w)
     \/ /\ job[w].op = "move" /\ job[w].class # view[w].class
        /\ view' = [view EXCEPT ![w].picks = read]
        /\ Goto(w, "class")
        /\ UNCHANGED <<dbVars, job>>
     \/ /\ job[w].op = "set"
        /\ view' = [view EXCEPT ![w].picks = read]
        /\ Goto(w, "offer")
        /\ UNCHANGED <<dbVars, job>>
     \/ /\ job[w].op = "unenroll"
        /\ view' = [view EXCEPT ![w].picks = read]
        /\ ToSeats(w, read, {})

\* classes_service.get_class of the class to enrol in or to move to.
ReadClass(w) ==
  /\ At(w, "class")
  /\ \/ /\ job[w].class \notin classes
        /\ Refuse(w)
     \/ /\ job[w].class \in classes /\ job[w].op = "enroll"
        /\ view' = [view EXCEPT ![w].class = job[w].class]
        /\ Goto(w, "offer")
        /\ UNCHANGED <<dbVars, job>>
     \/ /\ job[w].class \in classes /\ job[w].op = "move"
        /\ ToSeats(w, view[w].picks, {})
        /\ UNCHANGED view

\* _resolve_subjects: unknown subjects (404) are not offered either (422).
OfferCovers(w) == job[w].want \subseteq offered[view[w].class]

ReadOffer(w) ==
  /\ At(w, "offer")
  /\ IF OfferCovers(w)
     THEN ToSeats(w, view[w].picks, job[w].want) /\ UNCHANGED view
     ELSE Refuse(w)

-----------------------------------------------------------------------------
(* The seats: one UPDATE of a subjects row per step, in the order the      *)
(* iteration over a Python set happens to give.                            *)

Release(w) ==
  /\ At(w, "seats")
  /\ \E s \in todo[w] \cap Dropped(w) :
       ReleaseSeat(w, s, IF todo[w] = {s} THEN Added(w) ELSE todo[w] \ {s})
  /\ UNCHANGED requestVars

Claim(w) ==
  /\ At(w, "seats")
  /\ \E s \in todo[w] \cap Added(w) : ClaimSeat(w, s, todo[w] \ {s})
  /\ UNCHANGED requestVars

ClaimRefused(w) ==
  /\ At(w, "seats")
  /\ \E s \in todo[w] \cap Added(w) : SeatRefused(w, s)
  /\ Fail(w)

-----------------------------------------------------------------------------
(* Flush and commit.                                                       *)

Done(w) == At(w, "seats") /\ todo[w] = {}

\* A primary key nothing refers to any more stands for a newly made uuid.
Fresh(e) == row[e] = None /\ \A w \in Requests : job[w].id # e

CommitEnroll(w) ==
  LET j == job[w] IN
  /\ Done(w) /\ j.op = "enroll"
  /\ IF StudentTaken(j.student) \/ j.class \notin classes
     THEN Fail(w)
     ELSE \E e \in EnrollmentIds :
            /\ Fresh(e)
            /\ row' = [row EXCEPT ![e] = [student |-> j.student, class |-> j.class]]
            /\ picks' = [picks EXCEPT ![e] = j.want]
            /\ CommitSeats(w) /\ UNCHANGED catalogVars
            /\ Finish(w)

\* Inserting the new links meets the foreign key on the enrollment and
\* UNIQUE(enrollment_id, subject_id); deleting links already gone is a no-op.
MayInsertLinks(w) ==
  Added(w) # {} => row[job[w].id] # None /\ Added(w) \cap picks[job[w].id] = {}

CommitSet(w) ==
  /\ Done(w) /\ job[w].op = "set"
  /\ IF MayInsertLinks(w)
     THEN /\ picks' = [picks EXCEPT ![job[w].id] = (@ \ Dropped(w)) \cup Added(w)]
          /\ CommitSeats(w) /\ UNCHANGED <<row, catalogVars>>
          /\ Finish(w)
     ELSE Fail(w)

\* The UPDATE of a deleted enrollment raises StaleDataError.
CommitMove(w) ==
  LET e == job[w].id IN
  /\ Done(w) /\ job[w].op = "move"
  /\ IF row[e] # None /\ job[w].class \in classes
     THEN /\ row' = [row EXCEPT ![e].class = job[w].class]
          /\ picks' = [picks EXCEPT ![e] = @ \ Dropped(w)]
          /\ CommitSeats(w) /\ UNCHANGED catalogVars
          /\ Finish(w)
     ELSE Fail(w)

\* Links the request never read go too: ON DELETE CASCADE.
CommitUnenroll(w) ==
  LET e == job[w].id IN
  /\ Done(w) /\ job[w].op = "unenroll"
  /\ row' = [row EXCEPT ![e] = None]
  /\ picks' = [picks EXCEPT ![e] = {}]
  /\ CommitSeats(w) /\ UNCHANGED catalogVars
  /\ Finish(w)

-----------------------------------------------------------------------------
(* Ways to end early that are nobody's decision.                           *)

\* PostgreSQL aborts one of the sessions that wait for each other in a ring.
DeadlockAbort(w) == At(w, "seats") /\ OnWaitCycle(w) /\ Fail(w)

\* The process stops or the connection drops before COMMIT.
Disconnect(w) == ~At(w, "idle") /\ Fail(w)

-----------------------------------------------------------------------------

Begin(w) == BeginEnroll(w) \/ BeginSet(w) \/ BeginMove(w) \/ BeginUnenroll(w)

Read(w) == ReadStudent(w) \/ ReadRow(w) \/ ReadPicks(w) \/ ReadClass(w) \/ ReadOffer(w)

Commit(w) == CommitEnroll(w) \/ CommitSet(w) \/ CommitMove(w) \/ CommitUnenroll(w)

\* What the server does for a request once it has arrived.
Serve(w) ==
  Read(w) \/ Release(w) \/ Claim(w) \/ ClaimRefused(w) \/ Commit(w) \/ DeadlockAbort(w)

RequestStep(w) == Begin(w) \/ Serve(w) \/ Disconnect(w)

Next == \E w \in Requests : RequestStep(w)

Spec == Init /\ [][Next]_vars

\* Strong fairness: PostgreSQL queues the waiters of a row, so a request that
\* waits for a row that is freed again and again does get it.
FairSpec == Spec /\ \A w \in Requests : SF_vars(Serve(w))

-----------------------------------------------------------------------------
(* Properties.                                                             *)

\* With editors of one enrollment kept apart, every request is one indivisible
\* step of SeatAllocation: interleaved statements, waits, deadlocks and
\* rollbacks are invisible in the committed rows.
Allocation == INSTANCE SeatAllocation WITH Offer <- InitialOffer, Limit <- InitialLimit
AllocationSpec == Allocation!Spec

\* A request in its loops releases before it claims, and keeps every row it has
\* claimed until it commits: neither another request nor the deletion of the
\* subject can come between (services/enrollments.py:188-199).
ClaimsAreHeld ==
  \A w \in Requests : At(w, "seats") =>
    \/ todo[w] # {} /\ todo[w] \subseteq Dropped(w)
    \/ /\ todo[w] \subseteq Added(w)
       /\ \A s \in Added(w) \ todo[w] : lock[s] = w /\ s \in subjects

\* Every request gets an answer: waiting for rows never lasts for ever
\* (the claims and releases of services/enrollments.py:188-199 lock rows in
\* no fixed order).
RequestsEnd == \A w \in Requests : ~At(w, "idle") ~> At(w, "idle")
=============================================================================
