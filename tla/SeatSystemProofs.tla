-------------------------- MODULE SeatSystemProofs --------------------------
(***************************************************************************)
(* For every set of students, subjects and concurrent sessions.            *)
(*                                                                         *)
(* Counters: the committed counter of a subject never exceeds its limit,   *)
(* and a counter row is locked only by a session in its loop over the      *)
(* seats.  The invariant is about the uncommitted counters: COMMIT         *)
(* publishes `draft', so draft must be inside the limit too, and a limit   *)
(* may change only under a row nobody holds, where draft and count are the *)
(* same.  That last fact needs HoldersAtWork: the session that changes a   *)
(* limit is not itself holding a counter row.                              *)
(*                                                                         *)
(* Rows: a request keeps what it has claimed until its COMMIT, so a pick   *)
(* is recorded only of a subject that is still there; a student has one    *)
(* enrollment, and picks, enrollments and links refer to existing rows.    *)
(***************************************************************************)
EXTENDS SeatSystem, FiniteSetTheorems, TLAPS

SeatInv == DbTypeOK /\ CountWithinLimit /\ DraftsAreLocked

SystemInv == SeatInv /\ RequestTypeOK /\ AdminTypeOK /\ HoldersAtWork

-----------------------------------------------------------------------------
(* The statements of capacity.py and the ends of a transaction.            *)

\* Takers are finitely many, so tallying them gives a natural number.
LEMMA TallyIsNat == DbTypeOK => \A s \in Subjects : Cardinality(Takers(s)) \in Nat
<1>1. SUFFICES ASSUME NEW s \in Subjects PROVE Cardinality(Takers(s)) \in Nat
  OBVIOUS
<1>2. IsFiniteSet(EnrollmentIds)
  BY SeatDbAssumption
<1>3. Takers(s) \in SUBSET EnrollmentIds
  BY DEF Takers
<1>4. IsFiniteSet(Takers(s))
  BY <1>2, <1>3, FS_Subset
<1> QED
  BY <1>4, FS_CardinalityType

\* A write by a session that may have the row keeps the counters in order.
LEMMA WriteCountKeeps ==
  ASSUME SeatInv, NEW w \in Sessions, NEW s \in Subjects, NEW n \in Nat,
         NEW rest \in SUBSET Subjects, WriteCount(w, s, n, rest)
  PROVE  SeatInv'
<1> USE DEF SeatInv
<1>1. DbTypeOK'
  BY SeatDbAssumption DEF WriteCount, DbTypeOK, rosterVars, catalogVars, EnrollmentRow
<1>2. CountWithinLimit'
  BY DEF WriteCount, CountWithinLimit, rosterVars, catalogVars
<1>3. DraftsAreLocked'
  BY SeatDbAssumption
     DEF WriteCount, DraftsAreLocked, CheckHolds, DbTypeOK, rosterVars, catalogVars
<1> QED
  BY <1>1, <1>2, <1>3

LEMMA SkipCountKeeps ==
  ASSUME SeatInv, NEW w \in Sessions, NEW rest \in SUBSET Subjects, SkipCount(w, rest)
  PROVE  SeatInv'
BY DEF SeatInv, SkipCount, DbTypeOK, CountWithinLimit, DraftsAreLocked, rosterVars, catalogVars

\* Publishing a session's counters, whatever rows are flushed with them.
LEMMA CommitKeeps ==
  ASSUME SeatInv, NEW w \in Sessions, CommitSeats(w), UNCHANGED catalogVars,
         row' \in [EnrollmentIds -> EnrollmentRow \cup {None}],
         picks' \in [EnrollmentIds -> SUBSET Subjects]
  PROVE  SeatInv'
<1> USE DEF SeatInv, CommitSeats, catalogVars
<1>1. DbTypeOK'
  BY DEF DbTypeOK, EnrollmentRow
<1>2. CountWithinLimit'
  BY DEF DbTypeOK, CountWithinLimit, DraftsAreLocked
<1>3. DraftsAreLocked'
  BY DEF DbTypeOK, DraftsAreLocked
<1> QED
  BY <1>1, <1>2, <1>3

LEMMA RollbackKeeps ==
  ASSUME SeatInv, NEW w \in Sessions, Rollback(w)
  PROVE  SeatInv'
<1> USE DEF SeatInv, Rollback, RollbackSeats, rosterVars, catalogVars
<1>1. DbTypeOK'
  BY DEF DbTypeOK, EnrollmentRow
<1>2. CountWithinLimit'
  BY DEF DbTypeOK, CountWithinLimit
<1>3. DraftsAreLocked'
  BY DEF DbTypeOK, DraftsAreLocked, CountWithinLimit
<1> QED
  BY <1>1, <1>2, <1>3

LEMMA UnchangedKeeps ==
  ASSUME SeatInv, UNCHANGED dbVars
  PROVE  SeatInv'
BY DEF SeatInv, dbVars, rosterVars, catalogVars, seatVars, DbTypeOK, CountWithinLimit,
       DraftsAreLocked, EnrollmentRow

-----------------------------------------------------------------------------
(* Enrolment requests.                                                     *)

\* What the fields of a job are, by endpoint.
LEMMA JobTypes ==
  ASSUME NEW j \in Jobs
  PROVE  /\ j.want \in SUBSET Subjects
         /\ j.op = "enroll" => j.student \in Students /\ j.class \in Classes
         /\ j.op \in {"set", "move", "unenroll"} => j.id \in EnrollmentIds
         /\ j.op = "move" => j.class \in Classes
BY DEF Jobs, NoJob

LEMMA NothingTypes == NoJob \in Jobs /\ NoView \in Views
BY DEF NoJob, Jobs, NoView, Views

LEMMA FinishTypes ==
  ASSUME RequestTypeOK, NEW w \in Requests, Finish(w)
  PROVE  RequestTypeOK'
BY NothingTypes DEF RequestTypeOK, Finish, Goto, Labels

LEMMA FailKeeps ==
  ASSUME SeatInv, RequestTypeOK, NEW w \in Requests, Fail(w)
  PROVE  SeatInv' /\ RequestTypeOK'
BY FinishTypes, RollbackKeeps, EnrollmentsAssumption DEF Fail

LEMMA RefuseKeeps ==
  ASSUME SeatInv, RequestTypeOK, NEW w \in Requests, Refuse(w)
  PROVE  SeatInv' /\ RequestTypeOK'
BY FinishTypes, UnchangedKeeps DEF Refuse

LEMMA StartKeeps ==
  ASSUME SeatInv, RequestTypeOK, NEW w \in Requests, NEW label \in Labels,
         NEW request \in Jobs, label = "row" => request.id \in EnrollmentIds,
         Start(w, label, request)
  PROVE  SeatInv' /\ RequestTypeOK'
BY UnchangedKeeps DEF Start, Goto, RequestTypeOK

LEMMA BeginKeeps ==
  ASSUME SeatInv, RequestTypeOK, NEW w \in Requests, Begin(w)
  PROVE  SeatInv' /\ RequestTypeOK'
<1>1. "student" \in Labels /\ "row" \in Labels
  BY DEF Labels
<1>2. CASE BeginEnroll(w)
  <2>1. PICK st \in Students, c \in Classes, want \in SUBSET Subjects :
          Start(w, "student",
                [op |-> "enroll", student |-> st, id |-> None, class |-> c, want |-> want])
    BY <1>2 DEF BeginEnroll
  <2>2. [op |-> "enroll", student |-> st, id |-> None, class |-> c, want |-> want] \in Jobs
    BY DEF Jobs
  <2> QED
    BY <1>1, <2>1, <2>2, StartKeeps
<1>3. CASE BeginSet(w)
  <2>1. PICK e \in EnrollmentIds, want \in SUBSET Subjects :
          Start(w, "row",
                [op |-> "set", student |-> None, id |-> e, class |-> None, want |-> want])
    BY <1>3 DEF BeginSet
  <2>2. [op |-> "set", student |-> None, id |-> e, class |-> None, want |-> want] \in Jobs
    BY DEF Jobs
  <2> QED
    BY <1>1, <2>1, <2>2, StartKeeps
<1>4. CASE BeginMove(w)
  <2>1. PICK e \in EnrollmentIds, c \in Classes :
          Start(w, "row", [op |-> "move", student |-> None, id |-> e, class |-> c, want |-> {}])
    BY <1>4 DEF BeginMove
  <2>2. [op |-> "move", student |-> None, id |-> e, class |-> c, want |-> {}] \in Jobs
    BY DEF Jobs
  <2> QED
    BY <1>1, <2>1, <2>2, StartKeeps
<1>5. CASE BeginUnenroll(w)
  <2>1. PICK e \in EnrollmentIds :
          Start(w, "row",
                [op |-> "unenroll", student |-> None, id |-> e, class |-> None, want |-> {}])
    BY <1>5 DEF BeginUnenroll
  <2>2. [op |-> "unenroll", student |-> None, id |-> e, class |-> None, want |-> {}] \in Jobs
    BY DEF Jobs
  <2> QED
    BY <1>1, <2>1, <2>2, StartKeeps
<1> QED
  BY <1>2, <1>3, <1>4, <1>5 DEF Begin

\* Entering the loops over the seats only fills in todo.
LEMMA ToSeatsKeeps ==
  ASSUME SeatInv, RequestTypeOK, NEW w \in Requests,
         NEW have \in SUBSET Subjects, NEW want \in SUBSET Subjects,
         ToSeats(w, have, want), view' \in [Requests -> Views]
  PROVE  SeatInv' /\ RequestTypeOK'
<1>1. SeatInv'
  BY DEF SeatInv, ToSeats, DbTypeOK, CountWithinLimit, DraftsAreLocked, rosterVars,
         catalogVars, EnrollmentRow
<1>2. RequestTypeOK'
  BY DEF ToSeats, Goto, RequestTypeOK, Labels
<1> QED
  BY <1>1, <1>2

LEMMA ReadKeeps ==
  ASSUME SeatInv, RequestTypeOK, NEW w \in Requests, Read(w)
  PROVE  SeatInv' /\ RequestTypeOK'
<1> DEFINE e == job[w].id
<1>1. job[w] \in Jobs /\ view[w] \in Views
  BY DEF RequestTypeOK
<1>2. view[w].picks \in SUBSET Subjects /\ job[w].want \in SUBSET Subjects
  BY <1>1, JobTypes DEF Views
<1>3. CASE ReadStudent(w)
  BY <1>3, RefuseKeeps, UnchangedKeeps DEF ReadStudent, Goto, Labels, RequestTypeOK
<1>4. CASE ReadRow(w)
  <2>1. CASE row[e] = None
    BY <1>4, <2>1, RefuseKeeps DEF ReadRow
  <2>2. CASE row[e] # None
    <3>1. /\ view' = [view EXCEPT ![w].class = row[e].class]
          /\ pc' = [pc EXCEPT ![w] = "picks"] /\ job' = job /\ UNCHANGED dbVars
      BY <1>4, <2>2 DEF ReadRow, Goto
    <3>2. row[e].class \in Classes
      <4>1. e \in EnrollmentIds
        BY <1>4 DEF ReadRow, At, RequestTypeOK
      <4> QED
        BY <2>2, <4>1 DEF SeatInv, DbTypeOK, EnrollmentRow
    <3>3. view' \in [Requests -> Views]
      BY <3>1, <3>2 DEF Views, RequestTypeOK
    <3> QED
      BY <3>1, <3>3, UnchangedKeeps DEF Labels, RequestTypeOK
  <2> QED
    BY <2>1, <2>2
<1>5. CASE ReadPicks(w)
  <2> DEFINE read == picks[e]
  <2>1. CASE job[w].op = "move" /\ job[w].class = view[w].class
    BY <1>5, <2>1, RefuseKeeps DEF ReadPicks
  <2>2. CASE ~(job[w].op = "move" /\ job[w].class = view[w].class)
    <3>1. /\ job[w].op \in {"set", "move", "unenroll"}
          /\ view' = [view EXCEPT ![w].picks = read]
      BY <1>5, <2>2 DEF ReadPicks
    <3>2. read \in SUBSET Subjects
      BY <1>1, <3>1, JobTypes DEF SeatInv, DbTypeOK
    <3>3. view' \in [Requests -> Views]
      BY <3>1, <3>2 DEF Views, RequestTypeOK
    <3>4. CASE ToSeats(w, read, {})
      BY <3>2, <3>3, <3>4, ToSeatsKeeps
    <3>5. CASE (Goto(w, "class") \/ Goto(w, "offer")) /\ UNCHANGED <<dbVars, job>>
      BY <3>3, <3>5, UnchangedKeeps DEF Goto, Labels, RequestTypeOK
    <3> QED
      BY <1>5, <2>2, <3>4, <3>5 DEF ReadPicks
  <2> QED
    BY <2>1, <2>2
<1>6. CASE ReadClass(w)
  <2>1. CASE Refuse(w)
    BY <2>1, RefuseKeeps
  <2>2. CASE /\ job[w].class \in classes /\ view' = [view EXCEPT ![w].class = job[w].class]
             /\ Goto(w, "offer") /\ UNCHANGED <<dbVars, job>>
    <3>1. job[w].class \in Classes
      BY <2>2 DEF SeatInv, DbTypeOK
    <3>2. view' \in [Requests -> Views]
      BY <2>2, <3>1 DEF Views, RequestTypeOK
    <3> QED
      BY <2>2, <3>2, UnchangedKeeps DEF Goto, Labels, RequestTypeOK
  <2>3. CASE ToSeats(w, view[w].picks, {}) /\ UNCHANGED view
    <3>1. view' \in [Requests -> Views] /\ {} \in SUBSET Subjects
      BY <2>3 DEF RequestTypeOK
    <3> QED
      BY <1>2, <2>3, <3>1, ToSeatsKeeps
  <2> QED
    BY <1>6, <2>1, <2>2, <2>3 DEF ReadClass
<1>7. CASE ReadOffer(w)
  <2>1. CASE Refuse(w)
    BY <2>1, RefuseKeeps
  <2>2. CASE ToSeats(w, view[w].picks, job[w].want) /\ UNCHANGED view
    BY <1>2, <2>2, ToSeatsKeeps DEF RequestTypeOK
  <2> QED
    BY <1>7, <2>1, <2>2 DEF ReadOffer
<1> QED
  BY <1>3, <1>4, <1>5, <1>6, <1>7 DEF Read

LEMMA SeatKeeps ==
  ASSUME SeatInv, RequestTypeOK, NEW w \in Requests, Release(w) \/ Claim(w) \/ ClaimRefused(w)
  PROVE  SeatInv' /\ RequestTypeOK'
<1>1. w \in Sessions
  BY EnrollmentsAssumption
<1>2. job[w].want \in SUBSET Subjects /\ todo[w] \in SUBSET Subjects
  BY <1>1, JobTypes DEF RequestTypeOK, SeatInv, DbTypeOK
<1>3. Added(w) \in SUBSET Subjects
  BY <1>2 DEF Added
<1>4. CASE Release(w)
  <2>1. PICK s \in todo[w] :
          ReleaseSeat(w, s, IF todo[w] = {s} THEN Added(w) ELSE todo[w] \ {s})
    BY <1>4 DEF Release
  <2> DEFINE rest == IF todo[w] = {s} THEN Added(w) ELSE todo[w] \ {s}
  <2>2. s \in Subjects /\ rest \in SUBSET Subjects
    BY <1>2, <1>3, <2>1
  <2>3. ReleasedFrom(draft[s]) \in Nat
    BY <2>2 DEF ReleasedFrom, SeatInv, DbTypeOK
  <2>4. WriteCount(w, s, ReleasedFrom(draft[s]), rest) \/ SkipCount(w, rest)
    BY <2>1 DEF ReleaseSeat
  <2>5. SeatInv'
    BY <1>1, <2>2, <2>3, <2>4, WriteCountKeeps, SkipCountKeeps
  <2> QED
    BY <1>4, <2>5 DEF Release, requestVars, RequestTypeOK
<1>5. CASE Claim(w)
  <2>1. PICK s \in todo[w] : WriteCount(w, s, draft[s] + 1, todo[w] \ {s})
    BY <1>5 DEF Claim, ClaimSeat
  <2>2. s \in Subjects /\ draft[s] + 1 \in Nat /\ todo[w] \ {s} \in SUBSET Subjects
    BY <1>2, <2>1 DEF SeatInv, DbTypeOK
  <2>3. SeatInv'
    BY <1>1, <2>1, <2>2, WriteCountKeeps
  <2> QED
    BY <1>5, <2>3 DEF Claim, requestVars, RequestTypeOK
<1>6. CASE ClaimRefused(w)
  BY <1>6, FailKeeps DEF ClaimRefused
<1> QED
  BY <1>4, <1>5, <1>6

LEMMA CommitStepKeeps ==
  ASSUME SeatInv, RequestTypeOK, NEW w \in Requests, Commit(w)
  PROVE  SeatInv' /\ RequestTypeOK'
<1> DEFINE j == job[w]
<1> DEFINE e == job[w].id
<1>1. w \in Sessions
  BY EnrollmentsAssumption
<1>2. j \in Jobs /\ view[w].picks \in SUBSET Subjects
  BY DEF RequestTypeOK, Views
<1>3. Dropped(w) \in SUBSET Subjects /\ Added(w) \in SUBSET Subjects
  BY <1>2, JobTypes DEF Dropped, Added
<1>4. CASE Fail(w)
  BY <1>4, FailKeeps
<1>5. ASSUME CommitSeats(w), UNCHANGED catalogVars, Finish(w),
             row' \in [EnrollmentIds -> EnrollmentRow \cup {None}],
             picks' \in [EnrollmentIds -> SUBSET Subjects]
      PROVE  SeatInv' /\ RequestTypeOK'
  BY <1>1, <1>5, CommitKeeps, FinishTypes
<1>6. CASE CommitEnroll(w) /\ ~Fail(w)
  <2>1. PICK f \in EnrollmentIds :
          /\ row' = [row EXCEPT ![f] = [student |-> j.student, class |-> j.class]]
          /\ picks' = [picks EXCEPT ![f] = j.want]
          /\ CommitSeats(w) /\ UNCHANGED catalogVars /\ Finish(w)
    BY <1>6 DEF CommitEnroll
  <2>2. j.student \in Students /\ j.class \in Classes /\ j.want \in SUBSET Subjects
    BY <1>2, <1>6, JobTypes DEF CommitEnroll
  <2>3. [student |-> j.student, class |-> j.class] \in EnrollmentRow
    BY <2>2 DEF EnrollmentRow
  <2>4. /\ row' \in [EnrollmentIds -> EnrollmentRow \cup {None}]
        /\ picks' \in [EnrollmentIds -> SUBSET Subjects]
    BY <2>1, <2>2, <2>3 DEF SeatInv, DbTypeOK
  <2> QED
    BY <1>5, <2>1, <2>4
<1>7. CASE CommitSet(w) /\ ~Fail(w)
  <2>1. /\ picks' = [picks EXCEPT ![e] = (@ \ Dropped(w)) \cup Added(w)]
        /\ CommitSeats(w) /\ UNCHANGED <<row, catalogVars>> /\ Finish(w)
    BY <1>7 DEF CommitSet
  <2>2. picks' \in [EnrollmentIds -> SUBSET Subjects]
    BY <1>3, <2>1 DEF SeatInv, DbTypeOK
  <2> QED
    BY <1>5, <2>1, <2>2 DEF SeatInv, DbTypeOK
<1>8. CASE CommitMove(w) /\ ~Fail(w)
  <2>1. /\ row[e] # None
        /\ row' = [row EXCEPT ![e].class = j.class]
        /\ picks' = [picks EXCEPT ![e] = @ \ Dropped(w)]
        /\ CommitSeats(w) /\ UNCHANGED catalogVars /\ Finish(w)
    BY <1>8 DEF CommitMove
  <2>2. e \in EnrollmentIds /\ j.class \in Classes
    BY <1>2, <1>8, JobTypes DEF CommitMove
  <2>3. row[e] \in EnrollmentRow
    BY <2>1, <2>2 DEF SeatInv, DbTypeOK
  <2>4. [row[e] EXCEPT !.class = j.class] \in EnrollmentRow
    BY <2>2, <2>3 DEF EnrollmentRow
  <2>5. /\ row' \in [EnrollmentIds -> EnrollmentRow \cup {None}]
        /\ picks' \in [EnrollmentIds -> SUBSET Subjects]
    BY <2>1, <2>4 DEF SeatInv, DbTypeOK
  <2> QED
    BY <1>5, <2>1, <2>5
<1>9. CASE CommitUnenroll(w)
  <2>1. /\ row' \in [EnrollmentIds -> EnrollmentRow \cup {None}]
        /\ picks' \in [EnrollmentIds -> SUBSET Subjects]
    BY <1>9 DEF CommitUnenroll, SeatInv, DbTypeOK
  <2> QED
    BY <1>5, <1>9, <2>1 DEF CommitUnenroll
<1> QED
  BY <1>4, <1>6, <1>7, <1>8, <1>9 DEF Commit

LEMMA RequestKeeps ==
  ASSUME SeatInv, RequestTypeOK, NEW w \in Requests, RequestStep(w)
  PROVE  SeatInv' /\ RequestTypeOK'
<1>1. CASE DeadlockAbort(w) \/ Disconnect(w)
  BY <1>1, FailKeeps DEF DeadlockAbort, Disconnect
<1> QED
  BY <1>1, BeginKeeps, ReadKeeps, SeatKeeps, CommitStepKeeps DEF RequestStep, Serve

-----------------------------------------------------------------------------
(* Who holds the rows.                                                     *)

\* The three things a session can do to the row locks: leave them alone, free
\* its own, or take one more.
Frees(w) == lock' = [s \in Subjects |-> IF lock[s] = w THEN None ELSE lock[s]]
Takes(w) == \E s \in Subjects : lock' = [lock EXCEPT ![s] = w]

LEMMA RequestLocks ==
  ASSUME SeatInv, RequestTypeOK, NEW w \in Requests, RequestStep(w)
  PROVE  /\ \A v \in Requests \ {w} : pc'[v] = pc[v]
         /\ \/ lock' = lock /\ (pc[w] # "seats" \/ pc' = pc)
            \/ Frees(w)
            \/ Takes(w) /\ pc[w] = "seats" /\ pc' = pc
<1>1. CASE Fail(w)
  BY <1>1 DEF Fail, Finish, Goto, Rollback, RollbackSeats, Frees, RequestTypeOK
<1>2. CASE Begin(w)
  BY <1>2 DEF Begin, BeginEnroll, BeginSet, BeginMove, BeginUnenroll, Start, At, Goto, dbVars,
              seatVars, RequestTypeOK
<1>3. CASE Read(w)
  <2>1. pc[w] # "seats"
    BY <1>3 DEF Read, ReadStudent, ReadRow, ReadPicks, ReadClass, ReadOffer, At
  <2>2. lock' = lock
    BY <1>3 DEF Read, ReadStudent, ReadRow, ReadPicks, ReadClass, ReadOffer, Refuse, ToSeats,
                dbVars, seatVars
  <2>3. \A v \in Requests \ {w} : pc'[v] = pc[v]
    BY <1>3 DEF Read, ReadStudent, ReadRow, ReadPicks, ReadClass, ReadOffer, Refuse, Finish,
                ToSeats, Goto, RequestTypeOK
  <2> QED
    BY <2>1, <2>2, <2>3
<1>4. CASE Release(w) \/ Claim(w)
  <2>1. todo[w] \in SUBSET Subjects
    BY EnrollmentsAssumption DEF SeatInv, DbTypeOK
  <2>2. pc[w] = "seats" /\ pc' = pc
    BY <1>4 DEF Release, Claim, At, requestVars
  <2>3. lock' = lock \/ Takes(w)
    BY <1>4, <2>1 DEF Release, Claim, ReleaseSeat, ClaimSeat, WriteCount, SkipCount, Takes
  <2> QED
    BY <2>2, <2>3
<1>5. CASE Commit(w) /\ ~Fail(w)
  <2>1. CommitSeats(w) /\ Finish(w)
    BY <1>5 DEF Commit, CommitEnroll, CommitSet, CommitMove, CommitUnenroll
  <2> QED
    BY <2>1 DEF CommitSeats, Finish, Goto, Frees, RequestTypeOK
<1> QED
  BY <1>1, <1>2, <1>3, <1>4, <1>5 DEF RequestStep, Serve, ClaimRefused, DeadlockAbort, Disconnect

\* A row a request holds is held from its loop over the seats.
LEMMA RequestHolders ==
  ASSUME SystemInv, NEW w \in Requests, RequestStep(w), UNCHANGED adminVars
  PROVE  HoldersAtWork'
<1>1. w \in Sessions /\ w \notin Admins /\ apc' = apc
  BY EnrollmentsAssumption, SeatSystemAssumption DEF adminVars
<1>2. lock \in [Subjects -> Sessions \cup {None}] /\ None \notin Sessions
  BY SeatDbAssumption DEF SystemInv, SeatInv, DbTypeOK
<1>3. None \notin Requests /\ None \notin Admins
  BY <1>2, EnrollmentsAssumption, SubjectAdminAssumption
<1>4. \A v \in Requests \ {w} : pc'[v] = pc[v]
  BY RequestLocks DEF SystemInv
<1>5. CASE lock' = lock /\ (pc[w] # "seats" \/ pc' = pc)
  BY <1>1, <1>4, <1>5 DEF SystemInv, HoldersAtWork
<1>6. CASE Frees(w)
  BY <1>1, <1>3, <1>4, <1>6 DEF SystemInv, HoldersAtWork, Frees
<1>7. CASE Takes(w) /\ pc[w] = "seats" /\ pc' = pc
  BY <1>1, <1>2, <1>7 DEF SystemInv, HoldersAtWork, Takes
<1> QED
  BY <1>5, <1>6, <1>7, RequestLocks DEF SystemInv

-----------------------------------------------------------------------------
(* Administrative work.                                                    *)

LEMMA AdminJobTypes ==
  ASSUME NEW j \in AdminJobs
  PROVE  /\ j.classes \in SUBSET Classes
         /\ j.op \in {"setClasses", "setLimit", "deleteSubject"} => j.subject \in Subjects
         /\ j.op = "setLimit" => j.limit \in Nat \ {0}
         /\ j.op = "deleteClass" => j.class \in Classes
BY SubjectAdminAssumption DEF AdminJobs

LEMMA AdminNothingTypes == NoAdminJob \in AdminJobs /\ NoAdminView \in AdminViews
BY DEF NoAdminJob, AdminJobs, NoAdminView, AdminViews

LEMMA AdminFinishTypes ==
  ASSUME AdminTypeOK, NEW a \in Admins, AdminFinish(a)
  PROVE  AdminTypeOK'
BY AdminNothingTypes DEF AdminTypeOK, AdminFinish, AdminGoto, AdminLabels

LEMMA AdminFailKeeps ==
  ASSUME SeatInv, AdminTypeOK, NEW a \in Admins, AdminFail(a)
  PROVE  SeatInv' /\ AdminTypeOK'
BY AdminFinishTypes, RollbackKeeps, SubjectAdminAssumption DEF AdminFail

LEMMA AdminRefuseKeeps ==
  ASSUME SeatInv, AdminTypeOK, NEW a \in Admins, AdminRefuse(a)
  PROVE  SeatInv' /\ AdminTypeOK'
BY AdminFinishTypes, UnchangedKeeps DEF AdminRefuse

LEMMA AdminProceedKeeps ==
  ASSUME SeatInv, AdminTypeOK, NEW a \in Admins, NEW label \in AdminLabels,
         AdminProceed(a, label)
  PROVE  SeatInv' /\ AdminTypeOK'
BY UnchangedKeeps DEF AdminProceed, AdminGoto, AdminTypeOK

LEMMA AdminStartKeeps ==
  ASSUME SeatInv, AdminTypeOK, NEW a \in Admins, NEW label \in AdminLabels,
         NEW request \in AdminJobs, AdminStart(a, label, request)
  PROVE  SeatInv' /\ AdminTypeOK'
BY UnchangedKeeps DEF AdminStart, AdminGoto, AdminTypeOK

LEMMA BeginAdminKeeps ==
  ASSUME SeatInv, AdminTypeOK, NEW a \in Admins, BeginAdmin(a)
  PROVE  SeatInv' /\ AdminTypeOK'
<1>1. "subject" \in AdminLabels /\ "class" \in AdminLabels /\ "tally" \in AdminLabels
  BY DEF AdminLabels
<1>2. subjects \in SUBSET Subjects /\ classes \in SUBSET Classes
  BY DEF SeatInv, DbTypeOK
<1>3. \A s \in subjects, cs \in SUBSET Classes :
        [op |-> "setClasses", subject |-> s, class |-> None, classes |-> cs, limit |-> 0] \in AdminJobs
  BY <1>2 DEF AdminJobs
<1>4. \A s \in subjects, l \in Limits :
        [op |-> "setLimit", subject |-> s, class |-> None, classes |-> {}, limit |-> l] \in AdminJobs
  BY <1>2 DEF AdminJobs
<1>5. \A s \in subjects :
        [op |-> "deleteSubject", subject |-> s, class |-> None, classes |-> {}, limit |-> 0] \in AdminJobs
  BY <1>2 DEF AdminJobs
<1>6. \A c \in classes :
        [op |-> "deleteClass", subject |-> None, class |-> c, classes |-> {}, limit |-> 0] \in AdminJobs
  BY <1>2 DEF AdminJobs
<1>7. [op |-> "reconcile", subject |-> None, class |-> None, classes |-> {}, limit |-> 0] \in AdminJobs
  BY DEF AdminJobs
<1>8. \E label \in {"subject", "class", "tally"}, request \in AdminJobs :
        AdminStart(a, label, request)
  BY <1>3, <1>4, <1>5, <1>6, <1>7 DEF BeginAdmin
<1> QED
  BY <1>1, <1>8, AdminStartKeeps

\* Writes to the catalogue that leave the limits alone cannot hurt a counter.
LEMMA CatalogKeeps ==
  ASSUME SeatInv, UNCHANGED <<rosterVars, seatVars, limit>>,
         subjects' \in SUBSET Subjects, classes' \in SUBSET Classes,
         offered' \in [Classes -> SUBSET Subjects]
  PROVE  SeatInv'
BY DEF SeatInv, rosterVars, seatVars, DbTypeOK, CountWithinLimit, DraftsAreLocked, EnrollmentRow

\* A new limit that a free row's counter fits under.
LEMMA LimitKeeps ==
  ASSUME SeatInv, NEW s \in Subjects, NEW l \in Nat \ {0}, lock[s] = None, count[s] <= l,
         limit' = [limit EXCEPT ![s] = l],
         UNCHANGED <<rosterVars, seatVars, subjects, classes, offered>>
  PROVE  SeatInv'
<1> USE DEF SeatInv, rosterVars, seatVars
<1>1. DbTypeOK'
  BY DEF DbTypeOK, EnrollmentRow
<1>2. CountWithinLimit' /\ DraftsAreLocked'
  BY DEF DbTypeOK, CountWithinLimit, DraftsAreLocked
<1> QED
  BY <1>1, <1>2

LEMMA SetClassesKeeps ==
  ASSUME SeatInv, AdminTypeOK, NEW a \in Admins,
         ReadLinks(a) \/ ReadWanted(a) \/ CheckBlocked(a) \/ FlushClasses(a)
  PROVE  SeatInv' /\ AdminTypeOK'
<1>1. "wanted" \in AdminLabels /\ "blocked" \in AdminLabels /\ "flush" \in AdminLabels
  BY DEF AdminLabels
<1>2. CASE AdminRefuse(a) \/ AdminFail(a)
  BY <1>2, AdminRefuseKeeps, AdminFailKeeps
<1>3. CASE ReadLinks(a) /\ ~AdminRefuse(a)
  <2> DEFINE linked == {c \in Classes : ajob[a].subject \in offered[c]}
  <2>1. /\ aview' = [aview EXCEPT ![a].classes = linked]
        /\ apc' = [apc EXCEPT ![a] = "wanted"] /\ ajob' = ajob /\ UNCHANGED dbVars
    BY <1>3 DEF ReadLinks, AdminGoto
  <2>2. aview' \in [Admins -> AdminViews]
    BY <2>1 DEF AdminTypeOK, AdminViews
  <2> QED
    BY <1>1, <2>1, <2>2, UnchangedKeeps DEF AdminTypeOK
<1>4. CASE ReadWanted(a)
  BY <1>1, <1>2, <1>4, AdminProceedKeeps DEF ReadWanted
<1>5. CASE CheckBlocked(a)
  BY <1>1, <1>2, <1>5, AdminProceedKeeps DEF CheckBlocked
<1>6. CASE FlushClasses(a) /\ ~AdminFail(a)
  <2> DEFINE s == ajob[a].subject
  <2> DEFINE kept == Relinked({c \in Classes : s \in offered[c]}, aview[a].classes, ajob[a].classes)
  <2>1. /\ offered' = [c \in Classes |-> IF c \in kept THEN offered[c] \cup {s} ELSE offered[c] \ {s}]
        /\ AdminFinish(a)
        /\ UNCHANGED <<rosterVars, seatVars, subjects, classes, limit>>
    BY <1>6 DEF FlushClasses
  <2>2. s \in Subjects
    BY <1>6, AdminJobTypes DEF FlushClasses, AdminAt, AdminTypeOK
  <2>3. offered' \in [Classes -> SUBSET Subjects]
    BY <2>1, <2>2 DEF SeatInv, DbTypeOK
  <2> QED
    BY <2>1, <2>3, AdminFinishTypes, CatalogKeeps DEF SeatInv, DbTypeOK
<1> QED
  BY <1>2, <1>3, <1>4, <1>5, <1>6

\* The UPDATE of a limit waits until nobody holds the row; the session itself
\* does not, as it is not reconciling.
LEMMA SetLimitKeeps ==
  ASSUME SeatInv, AdminTypeOK, HoldersAtWork, NEW a \in Admins, CheckLimit(a) \/ FlushLimit(a)
  PROVE  SeatInv' /\ AdminTypeOK'
<1> DEFINE s == ajob[a].subject
<1> DEFINE l == ajob[a].limit
<1>1. CASE AdminRefuse(a) \/ AdminFail(a)
  BY <1>1, AdminRefuseKeeps, AdminFailKeeps
<1>2. s \in Subjects /\ l \in Nat \ {0}
  BY AdminJobTypes DEF CheckLimit, FlushLimit, AdminAt, AdminTypeOK
<1>3. CASE CheckLimit(a) /\ ~AdminRefuse(a)
  <2>1. /\ aview' = [aview EXCEPT ![a].limit = limit[s]]
        /\ apc' = [apc EXCEPT ![a] = "flush"] /\ ajob' = ajob /\ UNCHANGED dbVars
    BY <1>3 DEF CheckLimit, AdminGoto
  <2>2. aview' \in [Admins -> AdminViews]
    <3>1. aview[a] \in AdminViews /\ limit[s] \in Nat
      BY <1>2 DEF AdminTypeOK, SeatInv, DbTypeOK
    <3>2. [aview[a] EXCEPT !.limit = limit[s]] \in AdminViews
      BY <3>1 DEF AdminViews
    <3> QED
      BY <2>1, <3>2 DEF AdminTypeOK
  <2> QED
    BY <2>1, <2>2, UnchangedKeeps DEF AdminTypeOK, AdminLabels
<1>4. CASE FlushLimit(a) /\ ~(AdminRefuse(a) \/ AdminFail(a))
  <2>1. /\ apc[a] = "flush" /\ RowFree(a, s) /\ CheckHolds(count[s], l)
        /\ limit' = [limit EXCEPT ![s] = l]
        /\ AdminFinish(a)
        /\ UNCHANGED <<rosterVars, seatVars, subjects, classes, offered>>
    BY <1>4 DEF FlushLimit, AdminAt
  <2>2. lock[s] # a
    BY <1>2, <2>1 DEF HoldersAtWork
  <2>3. lock[s] = None /\ count[s] <= l
    BY <2>1, <2>2 DEF RowFree, CheckHolds
  <2> QED
    BY <1>2, <2>1, <2>3, LimitKeeps, AdminFinishTypes
<1> QED
  BY <1>1, <1>3, <1>4

LEMMA DeleteKeeps ==
  ASSUME SeatInv, AdminTypeOK, NEW a \in Admins,
         FindSubject(a) \/ FindClass(a) \/ CountHolders(a) \/ DeleteSubject(a) \/ DeleteClass(a)
  PROVE  SeatInv' /\ AdminTypeOK'
<1>1. "holders" \in AdminLabels /\ "flush" \in AdminLabels
  BY DEF AdminLabels
<1>2. CASE AdminRefuse(a) \/ AdminFail(a)
  BY <1>2, AdminRefuseKeeps, AdminFailKeeps
<1>3. CASE FindSubject(a) \/ FindClass(a) \/ CountHolders(a)
  BY <1>1, <1>2, <1>3, AdminProceedKeeps DEF FindSubject, FindClass, CountHolders
<1>4. CASE DeleteSubject(a) /\ ~AdminFail(a)
  <2>1. /\ subjects' = subjects \ {ajob[a].subject}
        /\ offered' = [c \in Classes |-> offered[c] \ {ajob[a].subject}]
        /\ AdminFinish(a)
        /\ UNCHANGED <<rosterVars, seatVars, classes, limit>>
    BY <1>4 DEF DeleteSubject
  <2>2. /\ subjects' \in SUBSET Subjects
        /\ offered' \in [Classes -> SUBSET Subjects]
    BY <2>1 DEF SeatInv, DbTypeOK
  <2> QED
    BY <2>1, <2>2, AdminFinishTypes, CatalogKeeps DEF SeatInv, DbTypeOK
<1>5. CASE DeleteClass(a) /\ ~AdminFail(a)
  <2>1. /\ classes' = classes \ {ajob[a].class}
        /\ offered' = [offered EXCEPT ![ajob[a].class] = {}]
        /\ AdminFinish(a)
        /\ UNCHANGED <<rosterVars, seatVars, subjects, limit>>
    BY <1>5 DEF DeleteClass
  <2>2. /\ classes' \in SUBSET Classes
        /\ offered' \in [Classes -> SUBSET Subjects]
    BY <2>1 DEF SeatInv, DbTypeOK
  <2> QED
    BY <2>1, <2>2, AdminFinishTypes, CatalogKeeps DEF SeatInv, DbTypeOK
<1> QED
  BY <1>2, <1>3, <1>4, <1>5

LEMMA ReconcileKeeps ==
  ASSUME SeatInv, AdminTypeOK, NEW a \in Admins,
         TallyRows(a) \/ ScanCounts(a) \/ FixCount(a) \/ FixRefused(a) \/ CommitFixes(a)
  PROVE  SeatInv' /\ AdminTypeOK'
<1>1. a \in Sessions
  BY SubjectAdminAssumption
<1>2. aview[a].tally \in [Subjects -> Nat] /\ todo[a] \in SUBSET Subjects
  BY <1>1 DEF AdminTypeOK, AdminViews, SeatInv, DbTypeOK
<1>3. CASE TallyRows(a)
  <2> DEFINE tally == [s \in Subjects |-> Cardinality(Takers(s))]
  <2>1. /\ aview' = [aview EXCEPT ![a].tally = tally]
        /\ apc' = [apc EXCEPT ![a] = "scan"] /\ ajob' = ajob /\ UNCHANGED dbVars
    BY <1>3 DEF TallyRows, AdminGoto
  <2>2. tally \in [Subjects -> Nat]
    BY TallyIsNat DEF SeatInv
  <2>3. aview' \in [Admins -> AdminViews]
    BY <2>1, <2>2 DEF AdminTypeOK, AdminViews
  <2> QED
    BY <2>1, <2>3, UnchangedKeeps DEF AdminTypeOK, AdminLabels
<1>4. CASE ScanCounts(a)
  <2>1. SeatInv'
    BY <1>4 DEF ScanCounts, SeatInv, DbTypeOK, CountWithinLimit, DraftsAreLocked, rosterVars,
                catalogVars, EnrollmentRow
  <2> QED
    BY <1>4, <2>1 DEF ScanCounts, AdminGoto, AdminTypeOK, AdminLabels
<1>5. CASE FixCount(a)
  <2>1. PICK s \in todo[a] : WriteCount(a, s, aview[a].tally[s], todo[a] \ {s})
                             \/ SkipCount(a, todo[a] \ {s})
    BY <1>5 DEF FixCount
  <2>2. s \in Subjects /\ aview[a].tally[s] \in Nat /\ todo[a] \ {s} \in SUBSET Subjects
    BY <1>2, <2>1
  <2>3. SeatInv'
    BY <1>1, <2>1, <2>2, WriteCountKeeps, SkipCountKeeps
  <2> QED
    BY <1>5, <2>3 DEF FixCount, adminVars, AdminTypeOK
<1>6. CASE FixRefused(a)
  BY <1>6, AdminFailKeeps DEF FixRefused
<1>7. CASE CommitFixes(a)
  <2>1. CommitSeats(a) /\ UNCHANGED <<rosterVars, catalogVars>> /\ AdminFinish(a)
    BY <1>7 DEF CommitFixes
  <2>2. /\ row' \in [EnrollmentIds -> EnrollmentRow \cup {None}]
        /\ picks' \in [EnrollmentIds -> SUBSET Subjects]
    BY <2>1 DEF rosterVars, SeatInv, DbTypeOK
  <2> QED
    BY <1>1, <2>1, <2>2, CommitKeeps, AdminFinishTypes
<1> QED
  BY <1>3, <1>4, <1>5, <1>6, <1>7

LEMMA AdminKeeps ==
  ASSUME SeatInv, AdminTypeOK, HoldersAtWork, NEW a \in Admins, AdminStep(a)
  PROVE  SeatInv' /\ AdminTypeOK'
<1>1. CASE AdminDeadlockAbort(a) \/ AdminDisconnect(a)
  BY <1>1, AdminFailKeeps DEF AdminDeadlockAbort, AdminDisconnect
<1> QED
  BY <1>1, BeginAdminKeeps, SetClassesKeeps, SetLimitKeeps, DeleteKeeps, ReconcileKeeps
     DEF AdminStep, AdminServe

LEMMA AdminLocks ==
  ASSUME SeatInv, AdminTypeOK, NEW a \in Admins, AdminStep(a)
  PROVE  /\ \A b \in Admins \ {a} : apc'[b] = apc[b]
         /\ \/ lock' = lock /\ (apc[a] # "fix" \/ apc' = apc)
            \/ Frees(a)
            \/ Takes(a) /\ apc[a] = "fix" /\ apc' = apc
<1>1. CASE AdminFail(a)
  BY <1>1 DEF AdminFail, AdminFinish, AdminGoto, Rollback, RollbackSeats, Frees, AdminTypeOK
<1>2. CASE BeginAdmin(a)
  BY <1>2 DEF BeginAdmin, AdminStart, AdminGoto, dbVars, seatVars, AdminTypeOK
<1>3. CASE CommitFixes(a)
  BY <1>3 DEF CommitFixes, CommitSeats, AdminFinish, AdminGoto, Frees, AdminTypeOK
<1>4. CASE FixCount(a)
  <2>1. todo[a] \in SUBSET Subjects
    BY SubjectAdminAssumption DEF SeatInv, DbTypeOK
  <2>2. apc[a] = "fix" /\ apc' = apc
    BY <1>4 DEF FixCount, AdminAt, adminVars
  <2>3. lock' = lock \/ Takes(a)
    BY <1>4, <2>1 DEF FixCount, WriteCount, SkipCount, Takes
  <2> QED
    BY <2>2, <2>3
<1>5. CASE ~AdminFail(a) /\ (ReadLinks(a) \/ ReadWanted(a) \/ CheckBlocked(a) \/ FlushClasses(a))
  BY <1>5 DEF ReadLinks, ReadWanted, CheckBlocked, FlushClasses, AdminAt, AdminRefuse,
              AdminProceed, AdminFinish, AdminGoto, dbVars, seatVars, AdminTypeOK
<1>6. CASE ~AdminFail(a) /\ (CheckLimit(a) \/ FlushLimit(a))
  BY <1>6 DEF CheckLimit, FlushLimit, AdminAt, AdminRefuse, AdminFinish, AdminGoto, dbVars,
              seatVars, AdminTypeOK
<1>7. CASE ~AdminFail(a) /\ (FindSubject(a) \/ FindClass(a) \/ CountHolders(a)
                             \/ DeleteSubject(a) \/ DeleteClass(a))
  BY <1>7 DEF FindSubject, FindClass, CountHolders, DeleteSubject, DeleteClass, AdminAt,
              AdminRefuse, AdminProceed, AdminFinish, AdminGoto, dbVars, seatVars, AdminTypeOK
<1>8. CASE TallyRows(a) \/ ScanCounts(a)
  BY <1>8 DEF TallyRows, ScanCounts, AdminAt, AdminGoto, dbVars, seatVars, AdminTypeOK
<1> QED
  BY <1>1, <1>2, <1>3, <1>4, <1>5, <1>6, <1>7, <1>8
     DEF AdminStep, AdminServe, FixRefused, AdminDeadlockAbort, AdminDisconnect

LEMMA AdminHolders ==
  ASSUME SystemInv, NEW a \in Admins, AdminStep(a), UNCHANGED requestVars
  PROVE  HoldersAtWork'
<1>1. a \in Sessions /\ a \notin Requests /\ pc' = pc
  BY SubjectAdminAssumption, SeatSystemAssumption DEF requestVars
<1>2. lock \in [Subjects -> Sessions \cup {None}] /\ None \notin Sessions
  BY SeatDbAssumption DEF SystemInv, SeatInv, DbTypeOK
<1>3. None \notin Requests /\ None \notin Admins
  BY <1>2, EnrollmentsAssumption, SubjectAdminAssumption
<1>4. \A b \in Admins \ {a} : apc'[b] = apc[b]
  BY AdminLocks DEF SystemInv
<1>5. CASE lock' = lock /\ (apc[a] # "fix" \/ apc' = apc)
  BY <1>1, <1>4, <1>5 DEF SystemInv, HoldersAtWork
<1>6. CASE Frees(a)
  BY <1>1, <1>3, <1>4, <1>6 DEF SystemInv, HoldersAtWork, Frees
<1>7. CASE Takes(a) /\ apc[a] = "fix" /\ apc' = apc
  BY <1>1, <1>2, <1>7 DEF SystemInv, HoldersAtWork, Takes
<1> QED
  BY <1>5, <1>6, <1>7, AdminLocks DEF SystemInv

-----------------------------------------------------------------------------
(* The system.                                                             *)

LEMMA InitInv == SystemInit => SystemInv
<1> SUFFICES ASSUME SystemInit PROVE SystemInv
  OBVIOUS
<1> USE DEF SystemInit, SystemInv, SeatInv
<1>1. DbTypeOK
  BY SeatDbAssumption DEF DbInit, DbTypeOK
<1>2. CountWithinLimit /\ DraftsAreLocked
  BY SeatDbAssumption DEF DbInit, CountWithinLimit, DraftsAreLocked
<1>3. RequestTypeOK
  BY NothingTypes DEF RequestInit, RequestTypeOK, Labels
<1>4. AdminTypeOK
  BY AdminNothingTypes DEF AdminInit, AdminTypeOK, AdminLabels
<1>5. HoldersAtWork
  BY SeatDbAssumption, EnrollmentsAssumption, SubjectAdminAssumption DEF DbInit, HoldersAtWork
<1> QED
  BY <1>1, <1>2, <1>3, <1>4, <1>5

LEMMA StepInv == SystemInv /\ [SystemNext]_systemVars => SystemInv'
<1> SUFFICES ASSUME SystemInv, [SystemNext]_systemVars PROVE SystemInv'
  OBVIOUS
<1>1. CASE \E w \in Requests : RequestStep(w) /\ UNCHANGED adminVars
  <2>1. PICK w \in Requests : RequestStep(w) /\ UNCHANGED adminVars
    BY <1>1
  <2>2. SeatInv' /\ RequestTypeOK'
    BY <2>1, RequestKeeps DEF SystemInv
  <2>3. AdminTypeOK'
    BY <2>1 DEF SystemInv, AdminTypeOK, adminVars
  <2>4. HoldersAtWork'
    BY <2>1, RequestHolders
  <2> QED
    BY <2>2, <2>3, <2>4 DEF SystemInv
<1>2. CASE \E a \in Admins : AdminStep(a) /\ UNCHANGED requestVars
  <2>1. PICK a \in Admins : AdminStep(a) /\ UNCHANGED requestVars
    BY <1>2
  <2>2. SeatInv' /\ AdminTypeOK'
    BY <2>1, AdminKeeps DEF SystemInv
  <2>3. RequestTypeOK'
    BY <2>1 DEF SystemInv, RequestTypeOK, requestVars
  <2>4. HoldersAtWork'
    BY <2>1, AdminHolders
  <2> QED
    BY <2>2, <2>3, <2>4 DEF SystemInv
<1>3. CASE UNCHANGED systemVars
  <2>1. SeatInv'
    BY <1>3, UnchangedKeeps DEF systemVars, SystemInv
  <2>2. RequestTypeOK' /\ AdminTypeOK'
    BY <1>3 DEF SystemInv, systemVars, requestVars, adminVars, RequestTypeOK, AdminTypeOK
  <2>3. HoldersAtWork'
    BY <1>3 DEF SystemInv, systemVars, dbVars, seatVars, requestVars, adminVars, HoldersAtWork
  <2> QED
    BY <2>1, <2>2, <2>3 DEF SystemInv
<1> QED
  BY <1>1, <1>2, <1>3 DEF SystemNext

\* The inductive invariant: types, counters and drafts inside their limits,
\* and rows held only at work (services/capacity.py, db/session.py:get_db).
THEOREM SystemInvHolds == SystemSpec => []SystemInv
BY InitInv, StepInv, PTL DEF SystemSpec

\* Every variable keeps its type, whatever requests and administrators do.
THEOREM SystemTypes == SystemSpec => []SystemTypeOK
<1>1. SystemInv => SystemTypeOK
  BY DEF SystemInv, SeatInv, SystemTypeOK
<1> QED
  BY <1>1, SystemInvHolds, PTL

\* A committed student_count never exceeds the committed student_limit, also
\* when a limit is lowered or a counter recomputed while seats are claimed
\* (db/models/subject.py: "the database's own backstop").
THEOREM CountsStayWithinLimits == SystemSpec => []CountWithinLimit
<1>1. SystemInv => CountWithinLimit
  BY DEF SystemInv, SeatInv
<1> QED
  BY <1>1, SystemInvHolds, PTL

\* Nobody sees a counter that may yet be rolled back, and no counter on its
\* way to COMMIT is above the limit it will be committed under.
THEOREM DraftsStayLocked == SystemSpec => []DraftsAreLocked
<1>1. SystemInv => DraftsAreLocked
  BY DEF SystemInv, SeatInv
<1> QED
  BY <1>1, SystemInvHolds, PTL

\* No answer, error or disconnect leaves a counter row locked
\* (db/session.py:get_db ends every transaction).
THEOREM LocksEndWithWork == SystemSpec => []HoldersAtWork
<1>1. SystemInv => HoldersAtWork
  BY DEF SystemInv
<1> QED
  BY <1>1, SystemInvHolds, PTL

-----------------------------------------------------------------------------
(***************************************************************************)
(* The rows.  However many requests edit one enrollment at once: a student *)
(* is enrolled at most once, and no pick, enrollment or class link refers  *)
(* to something that is gone.                                              *)
(*                                                                         *)
(* No code checks at COMMIT that the picked subjects still exist.  They do *)
(* because each was claimed by an UPDATE of its row, the request keeps the *)
(* row until it commits (ClaimsAreHeld), and DELETE waits for the row.     *)
(***************************************************************************)

\* A request that has not read an enrollment's picks has none in its view.
ReadsNothingYet ==
  \A w \in Requests :
    /\ pc[w] = "idle" => job[w].op = "none"
    /\ job[w].op \in {"none", "enroll"} => view[w].picks = {}

\* What the rows of a request's own making rest on; no administrator's variable
\* is in it.
RosterOK == OneClassPerStudent /\ NothingDangles

RequestInv == SeatInv /\ RequestTypeOK /\ ReadsNothingYet /\ ClaimsAreHeld /\ RosterOK

RosterInv == SystemInv /\ RequestInv /\ LinksExist

RequestFrame(w) ==
  \A v \in Requests \ {w} :
    pc'[v] = pc[v] /\ job'[v] = job[v] /\ view'[v] = view[v] /\ todo'[v] = todo[v]

-----------------------------------------------------------------------------
(* Requests.                                                               *)

\* A request changes only its own bookkeeping.
LEMMA RequestsKeepApart ==
  ASSUME SeatInv, RequestTypeOK, NEW w \in Requests, RequestStep(w)
  PROVE  RequestFrame(w)
<1> USE EnrollmentsAssumption DEF RequestFrame, SeatInv, DbTypeOK, RequestTypeOK
<1>1. CASE Fail(w)
  BY <1>1 DEF Fail, Finish, Goto, Rollback, RollbackSeats
<1>2. CASE Refuse(w)
  BY <1>2 DEF Refuse, Finish, Goto, dbVars, seatVars
<1>3. CASE Begin(w)
  BY <1>3 DEF Begin, BeginEnroll, BeginSet, BeginMove, BeginUnenroll, Start, Goto, dbVars, seatVars
<1>4. CASE Read(w) /\ ~Refuse(w)
  BY <1>4 DEF Read, ReadStudent, ReadRow, ReadPicks, ReadClass, ReadOffer, ToSeats, Goto, dbVars,
              seatVars
<1>5. CASE Release(w) \/ Claim(w)
  BY <1>5 DEF Release, Claim, ReleaseSeat, ClaimSeat, WriteCount, SkipCount, requestVars
<1>6. CASE Commit(w) /\ ~Fail(w)
  <2>1. CommitSeats(w) /\ Finish(w)
    BY <1>6 DEF Commit, CommitEnroll, CommitSet, CommitMove, CommitUnenroll
  <2> QED
    BY <2>1 DEF CommitSeats, Finish, Goto
<1> QED
  BY <1>1, <1>2, <1>3, <1>4, <1>5, <1>6
     DEF RequestStep, Serve, ClaimRefused, DeadlockAbort, Disconnect

\* A request knows of picks only after reading them for an edit.
LEMMA ReadsNothingYetKept ==
  ASSUME RequestInv, NEW w \in Requests, RequestStep(w)
  PROVE  ReadsNothingYet'
<1> DEFINE Ok == /\ pc'[w] = "idle" => job'[w].op = "none"
                 /\ job'[w].op \in {"none", "enroll"} => view'[w].picks = {}
<1> USE DEF RequestInv, RequestTypeOK
<1>1. RequestFrame(w)
  BY RequestsKeepApart
<1>2. SUFFICES Ok
  BY <1>1 DEF ReadsNothingYet, RequestFrame
<1>3. CASE Finish(w)
  BY <1>3 DEF Finish, Goto, NoJob, NoView
<1>4. CASE Begin(w)
  <2>1. /\ pc[w] = "idle" /\ pc'[w] # "idle" /\ view' = view
    BY <1>4 DEF Begin, BeginEnroll, BeginSet, BeginMove, BeginUnenroll, Start, At, Goto
  <2> QED
    BY <2>1 DEF ReadsNothingYet
<1>5. CASE Read(w) /\ ~Refuse(w)
  <2>1. pc'[w] # "idle" /\ job' = job
    BY <1>5 DEF Read, ReadStudent, ReadRow, ReadPicks, ReadClass, ReadOffer, ToSeats, Goto
  <2>2. CASE ReadPicks(w)
    BY <1>5, <2>1, <2>2 DEF ReadPicks
  <2>3. CASE ReadStudent(w) \/ ReadRow(w) \/ ReadClass(w) \/ ReadOffer(w)
    <3>1. view'[w].picks = view[w].picks
      BY <1>5, <2>3 DEF ReadStudent, ReadRow, ReadClass, ReadOffer, Views
    <3> QED
      BY <2>1, <3>1 DEF ReadsNothingYet
  <2> QED
    BY <1>5, <2>2, <2>3 DEF Read
<1>6. CASE Release(w) \/ Claim(w)
  BY <1>6 DEF Release, Claim, At, requestVars, ReadsNothingYet
<1>7. CASE Commit(w)
  BY <1>3, <1>7 DEF Commit, CommitEnroll, CommitSet, CommitMove, CommitUnenroll, Fail
<1> QED
  BY <1>3, <1>4, <1>5, <1>6, <1>7
     DEF RequestStep, Serve, Fail, Refuse, ClaimRefused, DeadlockAbort, Disconnect

\* Nobody's row is taken away, and requests delete no subject, class or link.
OthersKeepRows(w) ==
  \A s \in Subjects : \A v \in Sessions \ {w} : lock[s] = v => lock'[s] = v

LEMMA RequestsKeepRows ==
  ASSUME SeatInv, RequestTypeOK, NEW w \in Requests, RequestStep(w)
  PROVE  OthersKeepRows(w) /\ catalogVars' = catalogVars
<1> USE SeatDbAssumption, EnrollmentsAssumption
    DEF OthersKeepRows, SeatInv, DbTypeOK, RequestTypeOK
<1>1. CASE Fail(w)
  BY <1>1 DEF Fail, Rollback, RollbackSeats
<1>2. CASE Begin(w)
  BY <1>2 DEF Begin, BeginEnroll, BeginSet, BeginMove, BeginUnenroll, Start, dbVars, seatVars
<1>3. CASE Read(w)
  BY <1>3 DEF Read, ReadStudent, ReadRow, ReadPicks, ReadClass, ReadOffer, Refuse, ToSeats, dbVars,
              seatVars
<1>4. CASE Release(w) \/ Claim(w)
  BY <1>4 DEF Release, Claim, ReleaseSeat, ClaimSeat, WriteCount, SkipCount, RowFree
<1>5. CASE Commit(w) /\ ~Fail(w)
  <2>1. CommitSeats(w) /\ UNCHANGED catalogVars
    BY <1>5 DEF Commit, CommitEnroll, CommitSet, CommitMove, CommitUnenroll
  <2> QED
    BY <2>1 DEF CommitSeats
<1> QED
  BY <1>1, <1>2, <1>3, <1>4, <1>5
     DEF RequestStep, Serve, ClaimRefused, DeadlockAbort, Disconnect

\* Claims of a session other than the one that steps.
LEMMA OthersClaimsHeld ==
  ASSUME SeatInv, NEW w \in Sessions, NEW v \in Requests \ {w},
         pc'[v] = pc[v], job'[v] = job[v], view'[v] = view[v], todo'[v] = todo[v],
         OthersKeepRows(w),
         \A s \in subjects : lock[s] = v => s \in subjects',
         At(v, "seats") =>
           \/ todo[v] # {} /\ todo[v] \subseteq Dropped(v)
           \/ /\ todo[v] \subseteq Added(v)
              /\ \A s \in Added(v) \ todo[v] : lock[s] = v /\ s \in subjects,
         At(v, "seats")'
  PROVE  \/ todo'[v] # {} /\ todo'[v] \subseteq Dropped(v)'
         \/ /\ todo'[v] \subseteq Added(v)'
            /\ \A s \in Added(v)' \ todo'[v] : lock'[s] = v /\ s \in subjects'
<1>1. Dropped(v)' = Dropped(v) /\ Added(v)' = Added(v)
  BY DEF Dropped, Added
<1>2. v \in Sessions /\ subjects \in SUBSET Subjects
  BY EnrollmentsAssumption DEF SeatInv, DbTypeOK
<1>3. At(v, "seats")
  BY DEF At
<1> QED
  BY <1>1, <1>2, <1>3 DEF OthersKeepRows

\* Want is empty where a request drops everything.
LEMMA EmptyWant ==
  ASSUME NEW j \in Jobs, j.op \in {"move", "unenroll"}
  PROVE  j.want = {}
BY DEF Jobs, NoJob

\* Entering the loops, a request has claimed nothing yet.
LEMMA EntersLoops ==
  ASSUME NEW w \in Requests, NEW have, NEW want, ToSeats(w, have, want),
         todo \in [Sessions -> SUBSET Subjects], w \in Sessions,
         view'[w].picks = have, job[w].want = want
  PROVE  \/ todo'[w] # {} /\ todo'[w] \subseteq Dropped(w)'
         \/ /\ todo'[w] \subseteq Added(w)'
            /\ \A s \in Added(w)' \ todo'[w] : lock'[s] = w /\ s \in subjects'
<1>1. job' = job /\ todo'[w] = IF have \ want # {} THEN have \ want ELSE want \ have
  BY DEF ToSeats
<1>2. Dropped(w)' = have \ want /\ Added(w)' = want \ have
  BY <1>1 DEF Dropped, Added
<1> QED
  BY <1>1, <1>2

LEMMA RequestClaimsHeld ==
  ASSUME RequestInv, NEW w \in Requests, RequestStep(w)
  PROVE  ClaimsAreHeld'
<1> DEFINE Held == \/ todo[w] # {} /\ todo[w] \subseteq Dropped(w)
                   \/ /\ todo[w] \subseteq Added(w)
                      /\ \A s \in Added(w) \ todo[w] : lock[s] = w /\ s \in subjects
<1>1. /\ w \in Sessions /\ RequestFrame(w) /\ OthersKeepRows(w) /\ subjects' = subjects
      /\ todo \in [Sessions -> SUBSET Subjects] /\ lock \in [Subjects -> Sessions \cup {None}]
      /\ RequestTypeOK /\ SeatInv
  BY EnrollmentsAssumption, RequestsKeepApart, RequestsKeepRows
     DEF RequestInv, SeatInv, DbTypeOK, catalogVars
<1>2. SUFFICES ASSUME pc'[w] = "seats" PROVE Held'
  BY <1>1, OthersClaimsHeld DEF RequestInv, ClaimsAreHeld, RequestFrame, At
<1>3. pc \in [Requests -> Labels] /\ view \in [Requests -> Views] /\ job[w] \in Jobs
  BY <1>1 DEF RequestTypeOK
<1>4. ~Finish(w)
  BY <1>2, <1>3 DEF Finish, Goto
<1>5. ~Begin(w)
  BY <1>2, <1>3 DEF Begin, BeginEnroll, BeginSet, BeginMove, BeginUnenroll, Start, Goto
<1>6. CASE Read(w)
  <2>1. CASE ReadPicks(w)
    <3>1. /\ job[w].op = "unenroll" /\ view' = [view EXCEPT ![w].picks = picks[job[w].id]]
          /\ ToSeats(w, picks[job[w].id], {})
      BY <1>2, <1>3, <1>4, <2>1 DEF ReadPicks, Refuse, Goto
    <3>2. view'[w].picks = picks[job[w].id] /\ job[w].want = {}
      BY <1>3, <3>1, EmptyWant DEF Views
    <3> QED
      BY <1>1, <3>1, <3>2, EntersLoops
  <2>2. CASE ReadClass(w)
    <3>1. job[w].op = "move" /\ ToSeats(w, view[w].picks, {}) /\ view' = view
      BY <1>2, <1>3, <1>4, <2>2 DEF ReadClass, Refuse, Goto
    <3>2. job[w].want = {}
      BY <1>3, <3>1, EmptyWant
    <3> QED
      BY <1>1, <3>1, <3>2, EntersLoops
  <2>3. CASE ReadOffer(w)
    <3>1. ToSeats(w, view[w].picks, job[w].want) /\ view' = view
      BY <1>4, <2>3 DEF ReadOffer, Refuse
    <3> QED
      BY <1>1, <3>1, EntersLoops
  <2>4. ~ReadStudent(w) /\ ~ReadRow(w)
    BY <1>2, <1>3, <1>4 DEF ReadStudent, ReadRow, Refuse, Goto
  <2> QED
    BY <1>6, <2>1, <2>2, <2>3, <2>4 DEF Read
<1>7. CASE Release(w) \/ Claim(w)
  <2>1. /\ pc[w] = "seats" /\ Held
        /\ Added(w)' = Added(w) /\ Dropped(w)' = Dropped(w) /\ Added(w) \cap Dropped(w) = {}
    BY <1>7 DEF Release, Claim, At, requestVars, RequestInv, ClaimsAreHeld, Added, Dropped
  <2>2. CASE Release(w)
    <3>1. PICK s \in todo[w] \cap Dropped(w) :
            ReleaseSeat(w, s, IF todo[w] = {s} THEN Added(w) ELSE todo[w] \ {s})
      BY <2>2 DEF Release
    <3>2. todo[w] \subseteq Dropped(w)
      BY <2>1, <3>1
    <3>3. todo'[w] = IF todo[w] = {s} THEN Added(w) ELSE todo[w] \ {s}
      BY <1>1, <3>1 DEF ReleaseSeat, WriteCount, SkipCount
    <3> QED
      BY <2>1, <3>1, <3>2, <3>3
  <2>3. CASE Claim(w)
    <3>1. PICK s \in todo[w] \cap Added(w) : ClaimSeat(w, s, todo[w] \ {s})
      BY <2>3 DEF Claim
    <3>2. /\ todo[w] \subseteq Added(w)
          /\ \A r \in Added(w) \ todo[w] : lock[r] = w /\ r \in subjects
      BY <2>1, <3>1
    <3>3. /\ s \in subjects /\ s \in Subjects
          /\ todo'[w] = todo[w] \ {s} /\ lock' = [lock EXCEPT ![s] = w]
      BY <1>1, <3>1 DEF ClaimSeat, SeatFree, WriteCount
    <3>4. \A r \in Added(w) \ todo'[w] : lock'[r] = w /\ r \in subjects'
      <4>1. subjects \in SUBSET Subjects
        BY <1>1 DEF SeatInv, DbTypeOK
      <4> QED
        BY <1>1, <3>1, <3>2, <3>3, <4>1
    <3> QED
      BY <2>1, <3>2, <3>3, <3>4
  <2> QED
    BY <1>7, <2>2, <2>3
<1>8. ~Commit(w)
  BY <1>4 DEF Commit, CommitEnroll, CommitSet, CommitMove, CommitUnenroll, Fail
<1> QED
  BY <1>4, <1>5, <1>6, <1>7, <1>8
     DEF RequestStep, Serve, Fail, ClaimRefused, DeadlockAbort, Disconnect

-----------------------------------------------------------------------------
(* What requests commit.                                                   *)

LEMMA RosterUnchanged ==
  ASSUME RosterOK, UNCHANGED rosterVars, UNCHANGED catalogVars
  PROVE  RosterOK'
BY DEF RosterOK, OneClassPerStudent, NothingDangles, rosterVars, catalogVars

\* At COMMIT every subject a request adds still exists.
LEMMA AddedExist ==
  ASSUME ClaimsAreHeld, NEW w \in Requests, Done(w)
  PROVE  Added(w) \subseteq subjects
BY DEF ClaimsAreHeld, Done

LEMMA CommitRoster ==
  ASSUME RequestInv, NEW w \in Requests, Commit(w), ~Fail(w)
  PROVE  RosterOK'
<1> DEFINE j == job[w]
<1> DEFINE e == job[w].id
<1>1. /\ row \in [EnrollmentIds -> EnrollmentRow \cup {None}]
      /\ picks \in [EnrollmentIds -> SUBSET Subjects]
      /\ j \in Jobs
  BY DEF RequestInv, SeatInv, DbTypeOK, RequestTypeOK
<1>2. OneClassPerStudent /\ NothingDangles /\ ClaimsAreHeld /\ ReadsNothingYet
  BY DEF RequestInv, RosterOK
<1>3. Done(w) /\ classes' = classes /\ subjects' = subjects
  BY DEF Commit, CommitEnroll, CommitSet, CommitMove, CommitUnenroll, catalogVars
<1>4. Added(w) \subseteq subjects
  BY <1>2, <1>3, AddedExist
<1>5. CASE CommitEnroll(w)
  <2>1. /\ j.op = "enroll" /\ ~StudentTaken(j.student) /\ j.class \in classes
    BY <1>5 DEF CommitEnroll
  <2>2. PICK f \in EnrollmentIds :
          /\ row' = [row EXCEPT ![f] = [student |-> j.student, class |-> j.class]]
          /\ picks' = [picks EXCEPT ![f] = j.want]
    BY <1>5 DEF CommitEnroll
  <2>3. Added(w) = j.want
    BY <1>2, <2>1 DEF ReadsNothingYet, Added
  <2>4. [student |-> j.student, class |-> j.class] # None
    <3>1. j.student \in Students /\ j.class \in Classes
      BY <1>1, <2>1, JobTypes
    <3>2. [student |-> j.student, class |-> j.class] \in EnrollmentRow
      BY <3>1 DEF EnrollmentRow
    <3> QED
      BY <3>2, SeatDbAssumption
  <2>5. OneClassPerStudent'
    BY <1>1, <1>2, <2>1, <2>2 DEF OneClassPerStudent, StudentTaken
  <2>6. NothingDangles'
    BY <1>1, <1>2, <1>3, <1>4, <2>1, <2>2, <2>3, <2>4 DEF NothingDangles
  <2> QED
    BY <2>5, <2>6 DEF RosterOK
<1>6. CASE CommitSet(w)
  <2>1. /\ picks' = [picks EXCEPT ![e] = (@ \ Dropped(w)) \cup Added(w)]
        /\ row' = row /\ MayInsertLinks(w)
    BY <1>6 DEF CommitSet
  <2>2. e \in EnrollmentIds
    BY <1>1, <1>6, JobTypes DEF CommitSet
  <2>3. OneClassPerStudent'
    BY <1>2, <2>1 DEF OneClassPerStudent
  <2>4. NothingDangles'
    BY <1>1, <1>2, <1>3, <1>4, <2>1, <2>2 DEF NothingDangles, MayInsertLinks
  <2> QED
    BY <2>3, <2>4 DEF RosterOK
<1>7. CASE CommitMove(w)
  <2>1. /\ row[e] # None /\ j.class \in classes
        /\ row' = [row EXCEPT ![e].class = j.class]
        /\ picks' = [picks EXCEPT ![e] = @ \ Dropped(w)]
    BY <1>7 DEF CommitMove
  <2>2. e \in EnrollmentIds /\ row[e] \in EnrollmentRow /\ j.class \in Classes
    BY <1>1, <1>7, <2>1, JobTypes DEF CommitMove
  <2>3. /\ row'[e] \in EnrollmentRow
        /\ row'[e].student = row[e].student /\ row'[e].class = j.class
    BY <1>1, <2>1, <2>2 DEF EnrollmentRow
  <2>4. row'[e] # None
    BY <2>3, SeatDbAssumption
  <2>5. OneClassPerStudent'
    BY <1>1, <1>2, <2>1, <2>2, <2>3 DEF OneClassPerStudent
  <2>6. NothingDangles'
    BY <1>1, <1>2, <1>3, <2>1, <2>2, <2>3, <2>4 DEF NothingDangles
  <2> QED
    BY <2>5, <2>6 DEF RosterOK
<1>8. CASE CommitUnenroll(w)
  <2>1. row' = [row EXCEPT ![e] = None] /\ picks' = [picks EXCEPT ![e] = {}]
    BY <1>8 DEF CommitUnenroll
  <2>2. OneClassPerStudent'
    BY <1>1, <1>2, <2>1 DEF OneClassPerStudent
  <2>3. NothingDangles'
    BY <1>1, <1>2, <1>3, <2>1 DEF NothingDangles
  <2> QED
    BY <2>2, <2>3 DEF RosterOK
<1> QED
  BY <1>5, <1>6, <1>7, <1>8 DEF Commit

LEMMA RequestRoster ==
  ASSUME RequestInv, NEW w \in Requests, RequestStep(w)
  PROVE  RosterOK'
<1>1. catalogVars' = catalogVars
  BY RequestsKeepRows DEF RequestInv
<1>3. RosterOK
  BY DEF RequestInv
<1>4. CASE Commit(w) /\ ~Fail(w)
  BY <1>4, CommitRoster
<1>5. CASE ~(Commit(w) /\ ~Fail(w))
  <2>1. UNCHANGED rosterVars
    <3>1. CASE Fail(w)
      BY <3>1 DEF Fail, Rollback
    <3>2. CASE Begin(w)
      BY <3>2 DEF Begin, BeginEnroll, BeginSet, BeginMove, BeginUnenroll, Start, dbVars
    <3>3. CASE Read(w)
      BY <3>3 DEF Read, ReadStudent, ReadRow, ReadPicks, ReadClass, ReadOffer, Refuse, ToSeats,
                  dbVars
    <3>4. CASE Release(w) \/ Claim(w)
      BY <3>4 DEF Release, Claim, ReleaseSeat, ClaimSeat, WriteCount, SkipCount
    <3> QED
      BY <1>5, <3>1, <3>2, <3>3, <3>4
         DEF RequestStep, Serve, ClaimRefused, DeadlockAbort, Disconnect
  <2> QED
    BY <1>1, <1>3, <2>1, RosterUnchanged
<1> QED
  BY <1>4, <1>5

LEMMA RequestInvKept ==
  ASSUME RequestInv, NEW w \in Requests, RequestStep(w)
  PROVE  RequestInv'
<1>1. SeatInv' /\ RequestTypeOK'
  BY RequestKeeps DEF RequestInv
<1> QED
  BY <1>1, ReadsNothingYetKept, RequestClaimsHeld, RequestRoster DEF RequestInv

-----------------------------------------------------------------------------
(* Administrative work.                                                    *)

\* The writes to the catalogue, one by one.
CatalogWrites(a) == FlushClasses(a) \/ FlushLimit(a) \/ DeleteSubject(a) \/ DeleteClass(a)

\* Whatever an administrator does, enrollments stay, rows stay with their
\* holders, and only the four writes touch the catalogue.
LEMMA AdminsKeepApart ==
  ASSUME SeatInv, NEW a \in Admins, AdminStep(a)
  PROVE  /\ UNCHANGED rosterVars
         /\ OthersKeepRows(a)
         /\ \A v \in Sessions \ {a} : todo'[v] = todo[v]
         /\ catalogVars' = catalogVars \/ CatalogWrites(a)
<1> USE SeatDbAssumption, SubjectAdminAssumption DEF OthersKeepRows, SeatInv, DbTypeOK
<1>1. CASE AdminFail(a)
  BY <1>1 DEF AdminFail, Rollback, RollbackSeats
<1>2. CASE BeginAdmin(a)
  BY <1>2 DEF BeginAdmin, AdminStart, dbVars, seatVars
<1>3. CASE AdminRefuse(a) \/ (\E label \in AdminLabels : AdminProceed(a, label))
  BY <1>3 DEF AdminRefuse, AdminProceed, dbVars, seatVars
<1>4. CASE ReadLinks(a) \/ ReadWanted(a) \/ CheckBlocked(a) \/ CheckLimit(a)
  BY <1>3, <1>4 DEF ReadLinks, ReadWanted, CheckBlocked, CheckLimit, AdminRefuse, AdminProceed,
                    dbVars, seatVars
<1>5. CASE CatalogWrites(a) /\ ~AdminFail(a)
  <2>1. UNCHANGED <<rosterVars, seatVars>>
    BY <1>5 DEF CatalogWrites, FlushClasses, FlushLimit, DeleteSubject, DeleteClass, AdminRefuse,
                dbVars
  <2> QED
    BY <1>5, <2>1 DEF seatVars
<1>6. CASE FindSubject(a) \/ FindClass(a) \/ CountHolders(a)
  BY <1>6 DEF FindSubject, FindClass, CountHolders, AdminRefuse, AdminProceed, dbVars, seatVars
<1>7. CASE TallyRows(a) \/ ScanCounts(a)
  BY <1>7 DEF TallyRows, ScanCounts, dbVars, seatVars
<1>8. CASE FixCount(a)
  BY <1>8 DEF FixCount, WriteCount, SkipCount, RowFree
<1>9. CASE CommitFixes(a)
  BY <1>9 DEF CommitFixes, CommitSeats
<1> QED
  BY <1>1, <1>2, <1>4, <1>5, <1>6, <1>7, <1>8, <1>9
     DEF AdminStep, AdminServe, CatalogWrites, FixRefused, AdminDeadlockAbort, AdminDisconnect

\* A subject whose row is held by somebody else is not deleted.
LEMMA HeldSubjectsStay ==
  ASSUME SeatInv, NEW a \in Admins, AdminStep(a)
  PROVE  \A s \in subjects : lock[s] \notin {None, a} => s \in subjects'
<1>1. CASE catalogVars' = catalogVars
  BY <1>1 DEF catalogVars
<1>2. CASE CatalogWrites(a)
  BY <1>2 DEF CatalogWrites, FlushClasses, FlushLimit, DeleteSubject, DeleteClass, RowFree,
              AdminRefuse, AdminFail, Rollback, dbVars, catalogVars
<1> QED
  BY <1>1, <1>2, AdminsKeepApart

LEMMA AdminClaimsHeld ==
  ASSUME RosterInv, NEW a \in Admins, AdminStep(a), UNCHANGED requestVars
  PROVE  ClaimsAreHeld'
<1>1. SystemInv /\ SeatInv /\ ClaimsAreHeld
  BY DEF RosterInv, SystemInv, RequestInv
<1>2. a \in Sessions /\ a \notin Requests /\ Requests \subseteq Sessions /\ None \notin Sessions
  BY SeatDbAssumption, EnrollmentsAssumption, SubjectAdminAssumption, SeatSystemAssumption
<1>3. SUFFICES ASSUME NEW v \in Requests, At(v, "seats")'
               PROVE  \/ todo'[v] # {} /\ todo'[v] \subseteq Dropped(v)'
                      \/ /\ todo'[v] \subseteq Added(v)'
                         /\ \A s \in Added(v)' \ todo'[v] : lock'[s] = v /\ s \in subjects'
  BY DEF ClaimsAreHeld
<1>4. pc'[v] = pc[v] /\ job'[v] = job[v] /\ view'[v] = view[v] /\ v \in Requests \ {a}
  BY <1>2 DEF requestVars
<1>5. OthersKeepRows(a) /\ todo'[v] = todo[v]
  BY <1>1, <1>2, AdminsKeepApart
<1>6. \A s \in subjects : lock[s] = v => s \in subjects'
  BY <1>1, <1>2, HeldSubjectsStay
<1> QED
  BY <1>1, <1>2, <1>3, <1>4, <1>5, <1>6, OthersClaimsHeld DEF ClaimsAreHeld

LEMMA AdminRoster ==
  ASSUME RosterInv, NEW a \in Admins, AdminStep(a)
  PROVE  RosterOK' /\ LinksExist'
<1>1. /\ row \in [EnrollmentIds -> EnrollmentRow \cup {None}]
      /\ picks \in [EnrollmentIds -> SUBSET Subjects]
      /\ offered \in [Classes -> SUBSET Subjects] /\ ajob[a] \in AdminJobs
      /\ RosterOK /\ LinksExist /\ SeatInv
  BY DEF RosterInv, RequestInv, SystemInv, SeatInv, DbTypeOK, AdminTypeOK
<1>2. row' = row /\ picks' = picks
  BY <1>1, AdminsKeepApart DEF rosterVars
<1>3. CASE catalogVars' = catalogVars
  BY <1>1, <1>2, <1>3, RosterUnchanged DEF rosterVars, LinksExist, catalogVars
<1>4. CASE FlushClasses(a) /\ ~AdminFail(a)
  <2> DEFINE s == ajob[a].subject
  <2> DEFINE kept == Relinked({c \in Classes : s \in offered[c]}, aview[a].classes, ajob[a].classes)
  <2>1. /\ offered' = [c \in Classes |-> IF c \in kept THEN offered[c] \cup {s} ELSE offered[c] \ {s}]
        /\ classes' = classes /\ subjects' = subjects /\ MayInsertClasses(a)
    BY <1>4 DEF FlushClasses
  <2>2. \A c \in kept : s \in subjects /\ c \in classes
    BY <1>1, <2>1 DEF Relinked, MayInsertClasses, LinksExist
  <2>3. LinksExist'
    BY <1>1, <2>1, <2>2 DEF LinksExist
  <2>4. RosterOK'
    BY <1>1, <1>2, <2>1 DEF RosterOK, OneClassPerStudent, NothingDangles
  <2> QED
    BY <2>3, <2>4
<1>5. CASE DeleteSubject(a) /\ ~AdminFail(a)
  <2> DEFINE s == ajob[a].subject
  <2>1. /\ ~HeldSubject(s) /\ subjects' = subjects \ {s} /\ classes' = classes
        /\ offered' = [c \in Classes |-> offered[c] \ {s}]
    BY <1>5 DEF DeleteSubject
  <2>2. \A e \in EnrollmentIds : s \notin picks[e]
    BY <2>1 DEF HeldSubject, Takers
  <2>3. RosterOK'
    BY <1>1, <1>2, <2>1, <2>2 DEF RosterOK, OneClassPerStudent, NothingDangles
  <2>4. LinksExist'
    BY <1>1, <2>1 DEF LinksExist
  <2> QED
    BY <2>3, <2>4
<1>6. CASE DeleteClass(a) /\ ~AdminFail(a)
  <2> DEFINE d == ajob[a].class
  <2>1. /\ ~HeldClass(d) /\ classes' = classes \ {d} /\ subjects' = subjects
        /\ offered' = [offered EXCEPT ![d] = {}]
    BY <1>6 DEF DeleteClass
  <2>2. \A e \in EnrollmentIds : row[e] # None => row[e].class # d
    BY <2>1 DEF HeldClass, EnrolledIn
  <2>3. RosterOK'
    BY <1>1, <1>2, <2>1, <2>2 DEF RosterOK, OneClassPerStudent, NothingDangles
  <2>4. LinksExist'
    BY <1>1, <2>1 DEF LinksExist
  <2> QED
    BY <2>3, <2>4
<1>7. CASE FlushLimit(a) /\ ~AdminFail(a)
  <2>1. offered' = offered /\ classes' = classes /\ subjects' = subjects
    BY <1>7 DEF FlushLimit, AdminRefuse, dbVars, catalogVars
  <2> QED
    BY <1>1, <1>2, <2>1 DEF RosterOK, OneClassPerStudent, NothingDangles, LinksExist
<1>8. CASE AdminFail(a)
  BY <1>3, <1>8 DEF AdminFail, Rollback
<1> QED
  BY <1>1, <1>3, <1>4, <1>5, <1>6, <1>7, <1>8, AdminsKeepApart DEF CatalogWrites

-----------------------------------------------------------------------------
(* The system.                                                             *)

\* At the start the links are those of InitialOffer, between existing rows.
LEMMA RosterInitInv == SystemInit => RosterInv
<1> SUFFICES ASSUME SystemInit PROVE RosterInv
  OBVIOUS
<1> USE DEF SystemInit, DbInit, RequestInit
<1>1. ReadsNothingYet
  BY DEF ReadsNothingYet, NoJob, NoView
<1>2. ClaimsAreHeld
  BY DEF ClaimsAreHeld, At
<1>3. OneClassPerStudent /\ NothingDangles
  BY DEF OneClassPerStudent, NothingDangles
<1>4. LinksExist
  BY SeatDbAssumption DEF LinksExist
<1> QED
  BY <1>1, <1>2, <1>3, <1>4, InitInv DEF RosterInv, RequestInv, RosterOK, SystemInv

LEMMA RosterStepInv == RosterInv /\ [SystemNext]_systemVars => RosterInv'
<1> SUFFICES ASSUME RosterInv, [SystemNext]_systemVars PROVE RosterInv'
  OBVIOUS
<1>1. SystemInv'
  BY StepInv DEF RosterInv
<1>2. CASE \E w \in Requests : RequestStep(w) /\ UNCHANGED adminVars
  <2>1. PICK w \in Requests : RequestStep(w) /\ UNCHANGED adminVars
    BY <1>2
  <2>2. catalogVars' = catalogVars
    BY <2>1, RequestsKeepRows DEF RosterInv, SystemInv
  <2>3. LinksExist'
    BY <2>2 DEF RosterInv, LinksExist, catalogVars
  <2> QED
    BY <1>1, <2>1, <2>3, RequestInvKept DEF RosterInv
<1>3. CASE \E a \in Admins : AdminStep(a) /\ UNCHANGED requestVars
  <2>1. PICK a \in Admins : AdminStep(a) /\ UNCHANGED requestVars
    BY <1>3
  <2>2. ReadsNothingYet'
    BY <2>1 DEF RosterInv, RequestInv, ReadsNothingYet, requestVars
  <2> QED
    BY <1>1, <2>1, <2>2, AdminClaimsHeld, AdminRoster
       DEF RosterInv, RequestInv, SystemInv
<1>4. CASE UNCHANGED systemVars
  <2> USE <1>4 DEF RosterInv, RequestInv, RosterOK, SystemInv, systemVars, dbVars, seatVars, requestVars
  <2>1. ReadsNothingYet'
    BY DEF ReadsNothingYet
  <2>2. ClaimsAreHeld'
    BY DEF ClaimsAreHeld, At, Dropped, Added, catalogVars
  <2>3. OneClassPerStudent' /\ NothingDangles' /\ LinksExist'
    BY DEF OneClassPerStudent, NothingDangles, LinksExist, rosterVars, catalogVars
  <2> QED
    BY <1>1, <2>1, <2>2, <2>3
<1> QED
  BY <1>2, <1>3, <1>4 DEF SystemNext

\* The inductive invariant of the rows: a request that is about to commit
\* picks holds the row of each (services/enrollments.py:_apply_subject_diff).
THEOREM RosterInvHolds == SystemSpec => []RosterInv
BY RosterInitInv, RosterStepInv, PTL DEF SystemSpec

\* No other session comes between a claim and its COMMIT: the rows claimed
\* stay with the request and their subjects are not deleted.
THEOREM ClaimsStayHeld == SystemSpec => []ClaimsAreHeld
<1>1. RosterInv => ClaimsAreHeld
  BY DEF RosterInv, RequestInv, RosterOK
<1> QED
  BY <1>1, RosterInvHolds, PTL

\* However many enrol requests race past the service's check, a student is
\* enrolled once (db/models/enrollment.py: UNIQUE student_id).
THEOREM StudentsEnrolOnce == SystemSpec => []OneClassPerStudent
<1>1. RosterInv => OneClassPerStudent
  BY DEF RosterInv, RequestInv, RosterOK
<1> QED
  BY <1>1, RosterInvHolds, PTL

\* No pick without its enrollment and subject, no enrollment without its
\* class, whatever is deleted between a service's check and its flush.
THEOREM NothingEverDangles == SystemSpec => []NothingDangles
<1>1. RosterInv => NothingDangles
  BY DEF RosterInv, RequestInv, RosterOK
<1> QED
  BY <1>1, RosterInvHolds, PTL

\* A class is linked only to subjects that exist, and only while it exists,
\* however many administrators attach, detach and delete at once.
THEOREM LinksAlwaysExist == SystemSpec => []LinksExist
<1>1. RosterInv => LinksExist
  BY DEF RosterInv
<1> QED
  BY <1>1, RosterInvHolds, PTL

\* No row of enrolments, picks or class links refers to one that is gone.
THEOREM ReferencesAlwaysHold == SystemSpec => []ReferencesHold
<1>1. RosterInv => ReferencesHold
  BY DEF RosterInv, RequestInv, RosterOK, ReferencesHold
<1> QED
  BY <1>1, RosterInvHolds, PTL
=============================================================================
