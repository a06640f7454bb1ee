-------------------------- MODULE SeatBalanceProofs --------------------------
(***************************************************************************)
(* With the editors of one enrollment kept apart and reconcile_counts not  *)
(* run, for every set of students, subjects, classes and sessions:         *)
(* student_count is the number of rows it caches, no subject is overbooked *)
(* and the enrolment requests implement SeatAllocation.                    *)
(*                                                                         *)
(* The invariant relates three things a request keeps from one statement   *)
(* to the next: what it read of its enrollment is still so (ViewsCurrent), *)
(* it holds exactly the rows it has written (RowsHeld), and the counter of *)
(* a row it holds is already the one its COMMIT will make true (BooksKept).*)
(***************************************************************************)
EXTENDS SeatSystemProofs

Edits == {"set", "move", "unenroll"}

EditorsApart ==
  \A v, w \in Requests : job[v].id # None /\ job[v].id = job[w].id => v = w

\* What a request read of the enrollment it edits.
ViewOK(w) ==
  /\ job[w].op \notin Edits => job[w].id = None
  /\ pc[w] = "student" => job[w].op = "enroll"
  /\ job[w].op \in Edits =>
       /\ row[job[w].id] # None
       /\ pc[w] \in {"picks", "class", "offer", "seats"} =>
            view[w].class = row[job[w].id].class
       /\ pc[w] \in {"class", "offer", "seats"} => view[w].picks = picks[job[w].id]

ViewsCurrent == \A w \in Requests : ViewOK(w)

\* The counters a request in its loops has written so far.
Written(w) ==
  (Dropped(w) \ todo[w])
  \cup (IF todo[w] \cap Dropped(w) = {} THEN Added(w) \ todo[w] ELSE {})

RowsHeld ==
  \A s \in Subjects :
    /\ lock[s] # None => lock[s] \in Requests /\ pc[lock[s]] = "seats"
    /\ \A w \in Requests : pc[w] = "seats" => (lock[s] = w <=> s \in Written(w))

\* The counter that the COMMIT of the request holding the row makes true.
Announced(w, s) ==
  IF s \in Added(w) THEN Cardinality(Takers(s)) + 1 ELSE Cardinality(Takers(s)) - 1

BooksKept ==
  \A s \in Subjects :
    /\ count[s] = Cardinality(Takers(s))
    /\ \A w \in Requests : lock[s] = w => draft[s] = Announced(w, s)

BalanceInv ==
  /\ OneEditor
  /\ RequestInv
  /\ EditorsApart
  /\ ViewsCurrent
  /\ RowsHeld
  /\ BooksKept

-----------------------------------------------------------------------------
(* Counting takers.                                                        *)

LEMMA TakersFinite ==
  ASSUME NEW s \in Subjects
  PROVE  IsFiniteSet(Takers(s)) /\ Cardinality(Takers(s)) \in Nat
<1>1. IsFiniteSet(EnrollmentIds) /\ Takers(s) \in SUBSET EnrollmentIds
  BY SeatDbAssumption DEF Takers
<1>2. IsFiniteSet(Takers(s))
  BY <1>1, FS_Subset
<1> QED
  BY <1>2, FS_CardinalityType

\* Changing the picks of one enrollment moves each counter by at most one.
LEMMA PicksChange ==
  ASSUME picks \in [EnrollmentIds -> SUBSET Subjects],
         NEW e \in EnrollmentIds, NEW new \in SUBSET Subjects,
         picks' = [picks EXCEPT ![e] = new],
         NEW s \in Subjects
  PROVE  /\ s \in picks[e] \ new => Cardinality(Takers(s))' = Cardinality(Takers(s)) - 1
         /\ s \in new \ picks[e] => Cardinality(Takers(s))' = Cardinality(Takers(s)) + 1
         /\ (s \in picks[e] <=> s \in new) => Takers(s)' = Takers(s)
<1>1. IsFiniteSet(Takers(s)) /\ Cardinality(Takers(s)) \in Nat
  BY TakersFinite
<1>2. CASE s \in picks[e] \ new
  <2>1. Takers(s)' = Takers(s) \ {e} /\ e \in Takers(s)
    BY <1>2 DEF Takers
  <2>2. Cardinality(Takers(s) \ {e}) = Cardinality(Takers(s)) - 1
    BY <1>1, <2>1, FS_RemoveElement
  <2> QED
    BY <1>2, <2>1, <2>2
<1>3. CASE s \in new \ picks[e]
  <2>1. Takers(s)' = Takers(s) \cup {e} /\ e \notin Takers(s)
    BY <1>3 DEF Takers
  <2>2. Cardinality(Takers(s) \cup {e}) = Cardinality(Takers(s)) + 1
    BY <1>1, <2>1, FS_AddElement
  <2> QED
    BY <1>3, <2>1, <2>2
<1>4. CASE s \in picks[e] <=> s \in new
  <2>1. Takers(s)' = Takers(s)
    BY <1>4 DEF Takers
  <2> QED
    BY <1>4, <2>1
<1> QED
  BY <1>2, <1>3, <1>4

\* A pick that is there has been counted.
LEMMA TakenIsCounted ==
  ASSUME NEW s \in Subjects, NEW e \in EnrollmentIds, s \in picks[e]
  PROVE  Cardinality(Takers(s)) > 0
<1>1. IsFiniteSet(Takers(s)) /\ Cardinality(Takers(s)) \in Nat
  BY TakersFinite
<1>2. e \in Takers(s)
  BY DEF Takers
<1>3. Cardinality(Takers(s)) # 0
  BY <1>1, <1>2, FS_EmptySet
<1> QED
  BY <1>1, <1>3

-----------------------------------------------------------------------------
(* What one request leaves of the others.                                  *)

\* A request starts with nobody else on its enrollment, and otherwise keeps its
\* job or ends it.
LEMMA JobsStep ==
  ASSUME OneEditor, RequestTypeOK, NEW w \in Requests, RequestStep(w)
  PROVE  \/ job'[w] = job[w]
         \/ job'[w].id = None
         \/ /\ job'[w].id \in EnrollmentIds /\ job'[w].op \in Edits /\ pc'[w] = "row"
            /\ row' = row /\ row[job'[w].id] # None
            /\ \A v \in Requests : job[v].id # job'[w].id
<1> USE DEF RequestTypeOK
<1>1. CASE Finish(w)
  BY <1>1 DEF Finish, NoJob
<1>2. CASE BeginEnroll(w)
  <2>1. PICK st \in Students, c \in Classes, want \in SUBSET Subjects :
          job' = [job EXCEPT ![w] =
            [op |-> "enroll", student |-> st, id |-> None, class |-> c, want |-> want]]
    BY <1>2 DEF BeginEnroll, Start
  <2> QED
    BY <2>1
<1>3. CASE BeginSet(w)
  <2>1. PICK e \in EnrollmentIds, want \in SUBSET Subjects :
          /\ Editable(e)
          /\ Start(w, "row",
               [op |-> "set", student |-> None, id |-> e, class |-> None, want |-> want])
    BY <1>3 DEF BeginSet
  <2> QED
    BY <2>1 DEF Start, Goto, Editable, dbVars, rosterVars, Edits
<1>4. CASE BeginMove(w)
  <2>1. PICK e \in EnrollmentIds, c \in Classes :
          /\ Editable(e)
          /\ Start(w, "row", [op |-> "move", student |-> None, id |-> e, class |-> c, want |-> {}])
    BY <1>4 DEF BeginMove
  <2> QED
    BY <2>1 DEF Start, Goto, Editable, dbVars, rosterVars, Edits
<1>5. CASE BeginUnenroll(w)
  <2>1. PICK e \in EnrollmentIds :
          /\ Editable(e)
          /\ Start(w, "row",
               [op |-> "unenroll", student |-> None, id |-> e, class |-> None, want |-> {}])
    BY <1>5 DEF BeginUnenroll
  <2> QED
    BY <2>1 DEF Start, Goto, Editable, dbVars, rosterVars, Edits
<1>6. CASE Read(w) /\ ~Refuse(w)
  BY <1>6 DEF Read, ReadStudent, ReadRow, ReadPicks, ReadClass, ReadOffer, ToSeats
<1>7. CASE Release(w) \/ Claim(w)
  BY <1>7 DEF Release, Claim, requestVars
<1>8. CASE Commit(w)
  BY <1>1, <1>8 DEF Commit, CommitEnroll, CommitSet, CommitMove, CommitUnenroll, Fail
<1> QED
  BY <1>1, <1>2, <1>3, <1>4, <1>5, <1>6, <1>7, <1>8
     DEF RequestStep, Begin, Serve, Refuse, Fail, ClaimRefused, DeadlockAbort, Disconnect

LEMMA EditorsStayApart ==
  ASSUME BalanceInv, NEW w \in Requests, RequestStep(w)
  PROVE  EditorsApart'
<1>1. OneEditor /\ RequestTypeOK /\ EditorsApart
  BY DEF BalanceInv, RequestInv
<1>2. \A v \in Requests \ {w} : job'[v] = job[v]
  BY RequestsKeepApart DEF BalanceInv, RequestInv, RequestFrame
<1> QED
  BY <1>1, <1>2, JobsStep DEF EditorsApart

\* Only COMMIT writes rows, and only the row of the request's own enrollment or a
\* new one.
CommitsRow(w, e) ==
  /\ Commit(w) /\ Done(w) /\ CommitSeats(w) /\ UNCHANGED catalogVars /\ Finish(w)
  /\ \/ job[w].op \in Edits /\ e = job[w].id
     \/ job[w].op = "enroll" /\ Fresh(e)
  /\ \A f \in EnrollmentIds \ {e} : row'[f] = row[f] /\ picks'[f] = picks[f]

LEMMA RostersStep ==
  ASSUME SeatInv, RequestTypeOK, NEW w \in Requests, RequestStep(w)
  PROVE  \/ UNCHANGED rosterVars /\ ~(Commit(w) /\ ~Fail(w))
         \/ \E e \in EnrollmentIds : CommitsRow(w, e)
<1> USE DEF SeatInv, DbTypeOK, RequestTypeOK
<1>1. CASE Commit(w) /\ ~Fail(w)
  <2>1. job[w] \in Jobs
    OBVIOUS
  <2>2. CASE CommitEnroll(w)
    <3>1. PICK e \in EnrollmentIds :
            /\ Fresh(e) /\ CommitSeats(w) /\ UNCHANGED catalogVars /\ Finish(w)
            /\ row' = [row EXCEPT ![e] = [student |-> job[w].student, class |-> job[w].class]]
            /\ picks' = [picks EXCEPT ![e] = job[w].want]
      BY <1>1, <2>2 DEF CommitEnroll
    <3>2. Done(w) /\ job[w].op = "enroll"
      BY <2>2 DEF CommitEnroll
    <3> QED
      BY <1>1, <3>1, <3>2 DEF CommitsRow
  <2>3. CASE CommitSet(w) \/ CommitMove(w) \/ CommitUnenroll(w)
    <3>1. job[w].id \in EnrollmentIds /\ job[w].op \in Edits
      BY <2>1, <2>3, JobTypes DEF CommitSet, CommitMove, CommitUnenroll, Edits
    <3>2. CommitsRow(w, job[w].id)
      BY <1>1, <2>3, <3>1 DEF CommitSet, CommitMove, CommitUnenroll, CommitsRow
    <3> QED
      BY <3>1, <3>2
  <2> QED
    BY <1>1, <2>2, <2>3 DEF Commit
<1>2. CASE ~(Commit(w) /\ ~Fail(w))
  <2>1. UNCHANGED rosterVars
    <3>1. CASE Fail(w)
      BY <3>1 DEF Fail, Rollback
    <3>2. CASE Begin(w)
      BY <3>2 DEF Begin, BeginEnroll, BeginSet, BeginMove, BeginUnenroll, Start, dbVars
    <3>3. CASE Read(w)
      BY <3>3 DEF Read, ReadStudent, ReadRow, ReadPicks, ReadClass, ReadOffer, Refuse, ToSeats,
                  dbVars
    <3>4. CASE Release(w) \/ Claim(w)
      BY <3>4 DEF Release, Claim, ReleaseSeat, ClaimSeat, WriteCount, SkipCount
    <3> QED
      BY <1>2, <3>1, <3>2, <3>3, <3>4
         DEF RequestStep, Serve, ClaimRefused, DeadlockAbort, Disconnect
  <2> QED
    BY <1>2, <2>1
<1> QED
  BY <1>1, <1>2

\* Nobody writes the enrollment another request is editing.
LEMMA OthersRowsKept ==
  ASSUME BalanceInv, NEW w \in Requests, RequestStep(w), NEW v \in Requests \ {w},
         job[v].op \in Edits
  PROVE  row'[job[v].id] = row[job[v].id] /\ picks'[job[v].id] = picks[job[v].id]
<1>1. SeatInv /\ RequestTypeOK /\ EditorsApart /\ ViewsCurrent
  BY DEF BalanceInv, RequestInv
<1>2. job[v].id \in EnrollmentIds /\ job[v].id # None
  BY <1>1, JobTypes, SeatDbAssumption DEF RequestTypeOK, Edits
<1>3. CASE UNCHANGED rosterVars
  BY <1>3 DEF rosterVars
<1>4. CASE \E e \in EnrollmentIds : CommitsRow(w, e)
  <2>1. PICK e \in EnrollmentIds : CommitsRow(w, e)
    BY <1>4
  <2>2. e # job[v].id
    BY <1>1, <1>2, <2>1 DEF CommitsRow, EditorsApart, Fresh
  <2> QED
    BY <1>2, <2>1, <2>2 DEF CommitsRow
<1> QED
  BY <1>1, <1>3, <1>4, RostersStep

LEMMA OwnViewCurrent ==
  ASSUME BalanceInv, NEW w \in Requests, RequestStep(w)
  PROVE  ViewOK(w)'
<1>1. SeatInv /\ RequestTypeOK /\ ViewOK(w)
  BY DEF BalanceInv, RequestInv, ViewsCurrent
<1> USE DEF RequestTypeOK
<1>2. CASE Finish(w)
  BY <1>1, <1>2 DEF Finish, Goto, NoJob, ViewOK, Edits
<1>3. CASE Begin(w)
  <2>1. CASE BeginEnroll(w)
    <3>1. PICK st \in Students, c \in Classes, want \in SUBSET Subjects :
            Start(w, "student",
              [op |-> "enroll", student |-> st, id |-> None, class |-> c, want |-> want])
      BY <2>1 DEF BeginEnroll
    <3> QED
      BY <1>1, <3>1 DEF Start, Goto, ViewOK, Edits
  <2>2. CASE ~BeginEnroll(w)
    <3>1. pc' = [pc EXCEPT ![w] = "row"] /\ job'[w].op \in Edits /\ job'[w].id \in EnrollmentIds
      BY <1>1, <1>3, <2>2 DEF Begin, BeginSet, BeginMove, BeginUnenroll, Start, Goto, Edits
    <3>2. row' = row /\ row[job'[w].id] # None
      BY <1>1, <1>3, <2>2
         DEF Begin, BeginSet, BeginMove, BeginUnenroll, Start, Editable, dbVars, rosterVars
    <3> QED
      BY <1>1, <3>1, <3>2 DEF ViewOK
  <2> QED
    BY <2>1, <2>2
<1>4. CASE Read(w) /\ ~Refuse(w)
  <2>1. job' = job /\ UNCHANGED rosterVars
    BY <1>4 DEF Read, ReadStudent, ReadRow, ReadPicks, ReadClass, ReadOffer, ToSeats, dbVars
  <2>2. view[w] \in [class : Classes \cup {None}, picks : SUBSET Subjects]
    BY <1>1 DEF Views
  <2>3. CASE ReadStudent(w)
    BY <1>1, <1>4, <2>1, <2>3 DEF ReadStudent, At, Goto, ViewOK, Edits, rosterVars
  <2>4. CASE ReadRow(w)
    BY <1>1, <1>4, <2>1, <2>2, <2>4 DEF ReadRow, At, Goto, ViewOK, rosterVars
  <2>5. CASE ReadPicks(w)
    <3>1. view'[w].picks = picks[job[w].id] /\ view'[w].class = view[w].class
      BY <1>1, <1>4, <2>2, <2>5 DEF ReadPicks
    <3>2. pc[w] = "picks" /\ pc'[w] # "student"
      BY <1>1, <1>4, <2>5 DEF ReadPicks, ToSeats, At, Goto
    <3> QED
      BY <1>1, <2>1, <3>1, <3>2 DEF ViewOK, rosterVars
  <2>6. CASE ReadClass(w)
    <3>1. CASE job[w].op = "enroll"
      BY <1>1, <1>4, <2>1, <2>6, <3>1 DEF ReadClass, Goto, ViewOK, Edits, rosterVars
    <3>2. CASE job[w].op = "move"
      BY <1>1, <1>4, <2>1, <2>6, <3>2 DEF ReadClass, ToSeats, At, Goto, ViewOK, rosterVars
    <3> QED
      BY <1>4, <2>6, <3>1, <3>2 DEF ReadClass
  <2>7. CASE ReadOffer(w)
    BY <1>1, <1>4, <2>1, <2>7 DEF ReadOffer, ToSeats, At, Goto, ViewOK, rosterVars
  <2> QED
    BY <1>4, <2>3, <2>4, <2>5, <2>6, <2>7 DEF Read
<1>5. CASE Release(w) \/ Claim(w)
  <2>1. UNCHANGED requestVars /\ UNCHANGED rosterVars
    BY <1>5 DEF Release, Claim, ReleaseSeat, ClaimSeat, WriteCount, SkipCount
  <2> QED
    BY <1>1, <2>1 DEF ViewOK, requestVars, rosterVars
<1>6. CASE Commit(w)
  BY <1>2, <1>6 DEF Commit, CommitEnroll, CommitSet, CommitMove, CommitUnenroll, Fail
<1> QED
  BY <1>2, <1>3, <1>4, <1>5, <1>6
     DEF RequestStep, Serve, Refuse, Fail, ClaimRefused, DeadlockAbort, Disconnect

LEMMA ViewsStayCurrent ==
  ASSUME BalanceInv, NEW w \in Requests, RequestStep(w)
  PROVE  ViewsCurrent'
<1>1. ASSUME NEW v \in Requests \ {w} PROVE ViewOK(v)'
  <2>1. pc'[v] = pc[v] /\ job'[v] = job[v] /\ view'[v] = view[v]
    BY RequestsKeepApart DEF BalanceInv, RequestInv, RequestFrame
  <2>2. ViewOK(v)
    BY DEF BalanceInv, ViewsCurrent
  <2>3. job[v].op \in Edits =>
          row'[job[v].id] = row[job[v].id] /\ picks'[job[v].id] = picks[job[v].id]
    BY OthersRowsKept
  <2> QED
    BY <2>1, <2>2, <2>3 DEF ViewOK
<1> QED
  BY <1>1, OwnViewCurrent DEF ViewsCurrent

-----------------------------------------------------------------------------
(* The rows a request holds.                                               *)

\* The rows of the others stay theirs, and nobody takes a row for them.
LEMMA OthersLocksKept ==
  ASSUME SeatInv, RequestTypeOK, NEW w \in Requests, RequestStep(w),
         NEW v \in Requests \ {w}, NEW s \in Subjects
  PROVE  lock'[s] = v <=> lock[s] = v
<1>1. v \in Sessions /\ v # None /\ lock \in [Subjects -> Sessions \cup {None}]
  BY SeatDbAssumption, EnrollmentsAssumption DEF SeatInv, DbTypeOK
<1>2. lock[s] = v => lock'[s] = v
  BY <1>1, RequestsKeepRows DEF OthersKeepRows
<1>3. lock' = lock \/ Frees(w) \/ Takes(w)
  BY RequestLocks
<1>4. lock'[s] = v => lock[s] = v
  BY <1>1, <1>3 DEF Frees, Takes
<1> QED
  BY <1>2, <1>4

\* Entering the loops, a request has written nothing.
LEMMA NothingWritten ==
  ASSUME NEW w \in Requests, NEW have, NEW want, ToSeats(w, have, want),
         todo \in [Sessions -> SUBSET Subjects], w \in Sessions,
         view'[w].picks = have, job[w].want = want
  PROVE  Written(w)' = {} /\ lock' = lock
<1>1. job' = job /\ lock' = lock /\ todo'[w] = IF have \ want # {} THEN have \ want ELSE want \ have
  BY DEF ToSeats
<1>2. Dropped(w)' = have \ want /\ Added(w)' = want \ have
  BY <1>1 DEF Dropped, Added
<1>3. Written(w)' = (Dropped(w)' \ todo'[w])
                    \cup (IF todo'[w] \cap Dropped(w)' = {} THEN Added(w)' \ todo'[w] ELSE {})
  BY DEF Written
<1> QED
  BY <1>1, <1>2, <1>3

LEMMA EnteringWritesNothing ==
  ASSUME SeatInv, RequestTypeOK, NEW w \in Requests, Read(w), pc'[w] = "seats"
  PROVE  Written(w)' = {} /\ lock' = lock
<1>1. w \in Sessions /\ todo \in [Sessions -> SUBSET Subjects]
  BY EnrollmentsAssumption DEF SeatInv, DbTypeOK
<1>2. pc \in [Requests -> Labels] /\ view \in [Requests -> Views] /\ job[w] \in Jobs
  BY DEF RequestTypeOK
<1>3. ~Refuse(w)
  BY <1>2 DEF Refuse, Finish, Goto
<1>4. CASE ReadPicks(w)
  <2>1. /\ job[w].op = "unenroll" /\ view' = [view EXCEPT ![w].picks = picks[job[w].id]]
        /\ ToSeats(w, picks[job[w].id], {})
    BY <1>2, <1>3, <1>4 DEF ReadPicks, Goto
  <2>2. view'[w].picks = picks[job[w].id] /\ job[w].want = {}
    BY <1>2, <2>1, EmptyWant DEF Views
  <2> QED
    BY <1>1, <2>1, <2>2, NothingWritten
<1>5. CASE ReadClass(w)
  <2>1. job[w].op = "move" /\ ToSeats(w, view[w].picks, {}) /\ view' = view
    BY <1>2, <1>3, <1>5 DEF ReadClass, Goto
  <2>2. job[w].want = {}
    BY <1>2, <2>1, EmptyWant
  <2> QED
    BY <1>1, <2>1, <2>2, NothingWritten
<1>6. CASE ReadOffer(w)
  <2>1. ToSeats(w, view[w].picks, job[w].want) /\ view' = view
    BY <1>3, <1>6 DEF ReadOffer
  <2> QED
    BY <1>1, <2>1, NothingWritten
<1>7. ~ReadStudent(w) /\ ~ReadRow(w)
  BY <1>2, <1>3 DEF ReadStudent, ReadRow, Goto
<1> QED
  BY <1>4, <1>5, <1>6, <1>7 DEF Read

\* The picks a request drops are picks of its own enrollment.
LEMMA DroppedAreHeld ==
  ASSUME RequestInv, ViewsCurrent, NEW w \in Requests, At(w, "seats"), NEW s \in Dropped(w)
  PROVE  /\ job[w].op \in Edits /\ job[w].id \in EnrollmentIds
         /\ s \in picks[job[w].id] /\ s \in subjects
<1>1. job[w] \in Jobs /\ ReadsNothingYet /\ NothingDangles /\ ViewOK(w)
  BY DEF RequestInv, RequestTypeOK, RosterOK, ViewsCurrent
<1>2. s \in view[w].picks
  BY DEF Dropped
<1>3. job[w].op \in {"none", "enroll"} \cup Edits
  BY <1>1 DEF Jobs, NoJob, Edits
<1>4. job[w].op \in Edits
  BY <1>1, <1>2, <1>3 DEF ReadsNothingYet
<1>5. job[w].id \in EnrollmentIds
  BY <1>1, <1>4, JobTypes DEF Edits
<1>6. s \in picks[job[w].id]
  BY <1>1, <1>2, <1>4 DEF ViewOK, At
<1> QED
  BY <1>1, <1>4, <1>5, <1>6 DEF NothingDangles

\* An UPDATE of a counter: the row was nobody's, and what is written is what the
\* COMMIT will make true.
WritesSeat(w, s) ==
  /\ At(w, "seats") /\ s \in Subjects /\ lock[s] = None
  /\ lock' = [lock EXCEPT ![s] = w]
  /\ draft' = [draft EXCEPT ![s] = Announced(w, s)]
  /\ Written(w)' = Written(w) \cup {s}
  /\ UNCHANGED <<rosterVars, catalogVars, count, requestVars>>

LEMMA ReleaseWrites ==
  ASSUME BalanceInv, NEW w \in Requests, Release(w)
  PROVE  \E s \in Subjects : WritesSeat(w, s)
<1>1. /\ At(w, "seats") /\ UNCHANGED requestVars /\ w \in Sessions
      /\ todo \in [Sessions -> SUBSET Subjects] /\ count \in [Subjects -> Nat]
      /\ subjects \subseteq Subjects /\ RowsHeld /\ BooksKept /\ ClaimsAreHeld
  BY EnrollmentsAssumption DEF Release, BalanceInv, RequestInv, SeatInv, DbTypeOK
<1>2. PICK s \in todo[w] \cap Dropped(w) :
        ReleaseSeat(w, s, IF todo[w] = {s} THEN Added(w) ELSE todo[w] \ {s})
  BY DEF Release
<1>3. s \in subjects /\ s \in Subjects /\ s \in picks[job[w].id] /\ job[w].id \in EnrollmentIds
  BY <1>1, <1>2, DroppedAreHeld DEF BalanceInv
<1>4. WriteCount(w, s, ReleasedFrom(draft[s]), IF todo[w] = {s} THEN Added(w) ELSE todo[w] \ {s})
  BY <1>2, <1>3 DEF ReleaseSeat
<1>5. s \notin Written(w)
  BY <1>2 DEF Written
<1>6. lock[s] = None
  BY <1>1, <1>3, <1>4, <1>5 DEF WriteCount, RowFree, RowsHeld, At
<1>7. draft[s] = Cardinality(Takers(s))
  BY <1>1, <1>3, <1>6 DEF BooksKept, BalanceInv, RequestInv, SeatInv, DraftsAreLocked
<1>8. ReleasedFrom(draft[s]) = Announced(w, s)
  <2>1. Cardinality(Takers(s)) > 0 /\ Cardinality(Takers(s)) \in Nat
    BY <1>3, TakenIsCounted, TakersFinite
  <2>2. s \notin Added(w)
    BY <1>2 DEF Added, Dropped
  <2> QED
    BY <1>7, <2>1, <2>2 DEF ReleasedFrom, Announced
<1>9. Written(w)' = Written(w) \cup {s}
  <2>1. /\ todo'[w] = IF todo[w] = {s} THEN Added(w) ELSE todo[w] \ {s}
        /\ Dropped(w)' = Dropped(w) /\ Added(w)' = Added(w) /\ Added(w) \cap Dropped(w) = {}
    BY <1>1, <1>4 DEF WriteCount, requestVars, Added, Dropped
  <2>2. todo[w] \subseteq Dropped(w)
    BY <1>1, <1>2, <2>1 DEF ClaimsAreHeld
  <2>3. Written(w) = Dropped(w) \ todo[w]
    BY <1>2 DEF Written
  <2>4. Written(w)' = (Dropped(w) \ todo'[w])
                      \cup (IF todo'[w] \cap Dropped(w) = {} THEN Added(w) \ todo'[w] ELSE {})
    BY <2>1 DEF Written
  <2>5. CASE todo[w] = {s}
    BY <1>2, <2>1, <2>3, <2>4, <2>5
  <2>6. CASE todo[w] # {s}
    <3>1. todo'[w] = todo[w] \ {s}
      BY <2>1, <2>6
    <3>2. \E r : r \in todo[w] /\ r # s
      BY <1>2, <2>6
    <3>3. todo'[w] \cap Dropped(w) # {}
      BY <2>2, <3>1, <3>2
    <3> QED
      BY <1>2, <2>3, <2>4, <3>1, <3>3
  <2> QED
    BY <2>5, <2>6
<1>10. WritesSeat(w, s)
  BY <1>1, <1>3, <1>4, <1>6, <1>8, <1>9 DEF WritesSeat, WriteCount
<1> QED
  BY <1>3, <1>10

LEMMA ClaimWrites ==
  ASSUME BalanceInv, NEW w \in Requests, Claim(w)
  PROVE  \E s \in Subjects : WritesSeat(w, s)
<1>1. /\ At(w, "seats") /\ UNCHANGED requestVars /\ w \in Sessions
      /\ todo \in [Sessions -> SUBSET Subjects]
      /\ subjects \subseteq Subjects /\ RowsHeld /\ BooksKept /\ ClaimsAreHeld
  BY EnrollmentsAssumption DEF Claim, BalanceInv, RequestInv, SeatInv, DbTypeOK
<1>2. PICK s \in todo[w] \cap Added(w) : ClaimSeat(w, s, todo[w] \ {s})
  BY DEF Claim
<1>3. s \in Subjects /\ WriteCount(w, s, draft[s] + 1, todo[w] \ {s})
  BY <1>1, <1>2 DEF ClaimSeat, SeatFree
<1>4. Added(w) \cap Dropped(w) = {}
  BY DEF Added, Dropped
<1>5. todo[w] \subseteq Added(w)
  BY <1>1, <1>2, <1>4 DEF ClaimsAreHeld
<1>6. Written(w) = Dropped(w) \cup (Added(w) \ todo[w])
  BY <1>4, <1>5 DEF Written
<1>7. lock[s] = None
  <2>1. s \notin Written(w)
    BY <1>2, <1>4, <1>6
  <2> QED
    BY <1>1, <1>3, <2>1 DEF WriteCount, RowFree, RowsHeld, At
<1>8. draft[s] + 1 = Announced(w, s)
  <2>1. draft[s] = Cardinality(Takers(s))
    BY <1>1, <1>3, <1>7 DEF BooksKept, BalanceInv, RequestInv, SeatInv, DraftsAreLocked
  <2> QED
    BY <1>2, <2>1 DEF Announced
<1>9. Written(w)' = Written(w) \cup {s}
  <2>1. /\ todo'[w] = todo[w] \ {s} /\ Dropped(w)' = Dropped(w) /\ Added(w)' = Added(w)
    BY <1>1, <1>3 DEF WriteCount, requestVars, Added, Dropped
  <2>2. Written(w)' = (Dropped(w) \ todo'[w])
                      \cup (IF todo'[w] \cap Dropped(w) = {} THEN Added(w) \ todo'[w] ELSE {})
    BY <2>1 DEF Written
  <2> QED
    BY <1>2, <1>4, <1>5, <1>6, <2>1, <2>2
<1>10. WritesSeat(w, s)
  BY <1>1, <1>3, <1>7, <1>8, <1>9 DEF WritesSeat, WriteCount
<1> QED
  BY <1>3, <1>10

\* What a request step is, as far as the counters are concerned.
LEMMA SeatsStep ==
  ASSUME BalanceInv, NEW w \in Requests, RequestStep(w)
  PROVE  \/ /\ UNCHANGED <<rosterVars, count, draft, lock>> /\ pc[w] # "seats"
            /\ pc'[w] = "seats" => Written(w)' = {}
         \/ Fail(w)
         \/ \E s \in Subjects : WritesSeat(w, s)
         \/ \E e \in EnrollmentIds : CommitsRow(w, e)
<1>1. SeatInv /\ RequestTypeOK /\ pc \in [Requests -> Labels]
  BY DEF BalanceInv, RequestInv, RequestTypeOK
<1>2. CASE Begin(w)
  BY <1>1, <1>2 DEF Begin, BeginEnroll, BeginSet, BeginMove, BeginUnenroll, Start, At, Goto, dbVars,
              seatVars
<1>3. CASE Read(w)
  <2>1. pc[w] # "seats" /\ UNCHANGED <<rosterVars, count, draft, lock>>
    BY <1>3 DEF Read, ReadStudent, ReadRow, ReadPicks, ReadClass, ReadOffer, At, Refuse, ToSeats,
                dbVars, seatVars
  <2> QED
    BY <1>1, <1>3, <2>1, EnteringWritesNothing
<1>4. CASE Commit(w) /\ ~Fail(w)
  BY <1>1, <1>4, RostersStep
<1> QED
  BY <1>2, <1>3, <1>4, ReleaseWrites, ClaimWrites
     DEF RequestStep, Serve, ClaimRefused, DeadlockAbort, Disconnect

LEMMA RowsStayHeld ==
  ASSUME BalanceInv, NEW w \in Requests, RequestStep(w)
  PROVE  RowsHeld'
<1>1. /\ SeatInv /\ RequestTypeOK /\ RowsHeld /\ w \in Sessions /\ None \notin Sessions
      /\ Requests \subseteq Sessions
      /\ lock \in [Subjects -> Sessions \cup {None}] /\ pc \in [Requests -> Labels]
  BY SeatDbAssumption, EnrollmentsAssumption
     DEF BalanceInv, RequestInv, SeatInv, DbTypeOK, RequestTypeOK
<1>2. SUFFICES ASSUME NEW s \in Subjects
               PROVE  /\ lock'[s] # None => lock'[s] \in Requests /\ pc'[lock'[s]] = "seats"
                      /\ \A v \in Requests :
                           pc'[v] = "seats" => (lock'[s] = v <=> s \in Written(v)')
  BY DEF RowsHeld
<1>3. ASSUME NEW v \in Requests \ {w}
      PROVE  /\ pc'[v] = pc[v] /\ Written(v)' = Written(v)
             /\ lock'[s] = v <=> lock[s] = v
  <2>1. pc'[v] = pc[v] /\ job'[v] = job[v] /\ view'[v] = view[v] /\ todo'[v] = todo[v]
    BY <1>1, RequestsKeepApart DEF RequestFrame
  <2> QED
    BY <1>1, <2>1, OthersLocksKept DEF Written, Dropped, Added
<1>4. \A v \in Requests \ {w} : pc'[v] = "seats" => (lock'[s] = v <=> s \in Written(v)')
  BY <1>1, <1>3 DEF RowsHeld
<1>5. CASE lock' = lock /\ pc[w] # "seats" /\ (pc'[w] = "seats" => Written(w)' = {})
  <2>1. lock[s] # w
    BY <1>1, <1>5 DEF RowsHeld
  <2> QED
    BY <1>1, <1>3, <1>4, <1>5, <2>1 DEF RowsHeld
<1>6. CASE Frees(w) /\ pc'[w] = "idle"
  <2>1. lock'[s] # w /\ (lock'[s] = None \/ lock'[s] = lock[s])
    BY <1>1, <1>6 DEF Frees
  <2> QED
    BY <1>1, <1>3, <1>4, <1>6, <2>1 DEF RowsHeld
<1>7. CASE \E t \in Subjects : WritesSeat(w, t)
  <2>1. PICK t \in Subjects : WritesSeat(w, t)
    BY <1>7
  <2>2. /\ pc' = pc /\ pc[w] = "seats" /\ lock' = [lock EXCEPT ![t] = w]
        /\ Written(w)' = Written(w) \cup {t}
    BY <2>1 DEF WritesSeat, At, requestVars
  <2>3. lock'[s] = w <=> s \in Written(w)'
    BY <1>1, <2>2 DEF RowsHeld
  <2> QED
    BY <1>1, <1>3, <1>4, <2>2, <2>3 DEF RowsHeld
<1>8. CASE Fail(w)
  BY <1>1, <1>6, <1>8 DEF Fail, Finish, Goto, Rollback, RollbackSeats, Frees
<1>9. CASE \E e \in EnrollmentIds : CommitsRow(w, e)
  BY <1>1, <1>6, <1>9 DEF CommitsRow, CommitSeats, Finish, Goto, Frees
<1> QED
  BY <1>5, <1>7, <1>8, <1>9, SeatsStep

-----------------------------------------------------------------------------
(* The books.                                                              *)

\* What COMMIT makes of the picks of the enrollment it writes.
LEMMA CommittedPicks ==
  ASSUME BalanceInv, NEW w \in Requests, NEW e \in EnrollmentIds, CommitsRow(w, e), ~Fail(w)
  PROVE  /\ picks' = [picks EXCEPT ![e] = (picks[e] \ Dropped(w)) \cup Added(w)]
         /\ view[w].picks = picks[e]
         /\ Added(w) \cap picks[e] = {} /\ Dropped(w) \subseteq picks[e]
         /\ (picks[e] \ Dropped(w)) \cup Added(w) = job[w].want
<1>1. /\ picks \in [EnrollmentIds -> SUBSET Subjects] /\ job[w] \in Jobs /\ NothingDangles
      /\ ReadsNothingYet /\ ViewOK(w) /\ Done(w) /\ Commit(w)
  BY DEF BalanceInv, RequestInv, SeatInv, DbTypeOK, RequestTypeOK, RosterOK, ViewsCurrent, CommitsRow
<1>2. view[w].picks = picks[e]
  <2>1. CASE job[w].op \in Edits /\ e = job[w].id
    BY <1>1, <2>1 DEF ViewOK, Done, At
  <2>2. CASE job[w].op = "enroll" /\ Fresh(e)
    BY <1>1, <2>2 DEF ReadsNothingYet, Fresh, NothingDangles
  <2> QED
    BY <2>1, <2>2 DEF CommitsRow
<1>3. picks' \in [EnrollmentIds -> SUBSET Subjects]
  <2>1. CASE CommitEnroll(w)
    BY <1>1, <2>1, JobTypes DEF CommitEnroll, Fail, Rollback, rosterVars
  <2>2. CASE ~CommitEnroll(w)
    <3>1. Added(w) \in SUBSET Subjects
      BY <1>1, JobTypes DEF Added
    <3> QED
      BY <1>1, <2>2, <3>1 DEF Commit, CommitSet, CommitMove, CommitUnenroll, Fail, Rollback, rosterVars
  <2> QED
    BY <2>1, <2>2
<1>4. Dropped(w) = picks[e] \ job[w].want /\ Added(w) = job[w].want \ picks[e]
  BY <1>2 DEF Dropped, Added
<1>5. picks'[e] = (picks[e] \ Dropped(w)) \cup Added(w)
  <2>1. CASE CommitEnroll(w)
    <3>1. PICK f \in EnrollmentIds : picks' = [picks EXCEPT ![f] = job[w].want] /\ Fresh(f)
                                     /\ row' = [row EXCEPT ![f] = [student |-> job[w].student,
                                                                   class |-> job[w].class]]
      BY <2>1 DEF CommitEnroll
    <3>2. job[w].op = "enroll" /\ Fresh(e)
      BY <2>1 DEF CommitEnroll, CommitsRow, Edits
    <3>3. picks[e] = {} /\ picks[f] = {}
      BY <1>1, <3>1, <3>2 DEF Fresh, NothingDangles
    <3>4. e = f
      <4>1. SUFFICES ASSUME e # f PROVE FALSE
        OBVIOUS
      <4>2. row'[f] = row[f] /\ row[f] = None
        BY <3>1, <4>1 DEF CommitsRow, Fresh
      <4>3. [student |-> job[w].student, class |-> job[w].class] \in EnrollmentRow
        BY <1>1, <3>2, JobTypes DEF EnrollmentRow
      <4>4. row'[f] # None
        BY <3>1, <4>3, SeatDbAssumption DEF BalanceInv, RequestInv, SeatInv, DbTypeOK
      <4> QED
        BY <4>2, <4>4
    <3> QED
      BY <1>1, <1>4, <3>1, <3>3, <3>4
  <2>2. CASE CommitSet(w)
    BY <1>1, <1>4, <2>2 DEF CommitSet, CommitsRow, Edits
  <2>3. CASE CommitMove(w)
    <3>1. job[w].want = {}
      BY <1>1, <2>3, EmptyWant DEF CommitMove
    <3> QED
      BY <1>1, <1>4, <2>3, <3>1 DEF CommitMove, CommitsRow, Edits
  <2>4. CASE CommitUnenroll(w)
    <3>1. job[w].want = {}
      BY <1>1, <2>4, EmptyWant DEF CommitUnenroll
    <3> QED
      BY <1>1, <1>4, <2>4, <3>1 DEF CommitUnenroll, CommitsRow, Edits
  <2> QED
    BY <1>1, <2>1, <2>2, <2>3, <2>4 DEF Commit
<1>6. \A f \in EnrollmentIds \ {e} : picks'[f] = picks[f]
  BY DEF CommitsRow
<1>7. picks' = [picks EXCEPT ![e] = (picks[e] \ Dropped(w)) \cup Added(w)]
  BY <1>1, <1>3, <1>5, <1>6
<1> QED
  BY <1>2, <1>4, <1>7

\* COMMIT makes the announced counters true and disturbs no other.
LEMMA CommitKeepsBooks ==
  ASSUME BalanceInv, NEW w \in Requests, NEW e \in EnrollmentIds, CommitsRow(w, e), ~Fail(w),
         NEW s \in Subjects
  PROVE  /\ count'[s] = Cardinality(Takers(s))'
         /\ lock[s] # w => Cardinality(Takers(s))' = Cardinality(Takers(s))
<1> DEFINE new == (picks[e] \ Dropped(w)) \cup Added(w)
<1>1. /\ picks \in [EnrollmentIds -> SUBSET Subjects] /\ count \in [Subjects -> Nat]
      /\ RowsHeld /\ BooksKept /\ Done(w) /\ CommitSeats(w) /\ job[w] \in Jobs
  BY DEF BalanceInv, RequestInv, SeatInv, DbTypeOK, RequestTypeOK, CommitsRow
<1>2. /\ picks' = [picks EXCEPT ![e] = new]
      /\ Added(w) \cap picks[e] = {} /\ Dropped(w) \subseteq picks[e]
  BY CommittedPicks
<1>3. Added(w) \in SUBSET Subjects /\ new \in SUBSET Subjects
  BY <1>1, JobTypes DEF Added
<1>4. lock[s] = w <=> s \in Dropped(w) \cup Added(w)
  BY <1>1 DEF RowsHeld, Written, Done, At
<1>5. count'[s] = IF lock[s] = w THEN draft[s] ELSE count[s]
  BY <1>1 DEF CommitSeats
<1>6. CASE s \in Dropped(w)
  <2>1. s \in picks[e] \ new /\ s \notin Added(w)
    BY <1>2, <1>6
  <2>2. Cardinality(Takers(s))' = Cardinality(Takers(s)) - 1
    BY <1>1, <1>2, <1>3, <2>1, PicksChange
  <2> QED
    BY <1>1, <1>4, <1>5, <1>6, <2>1, <2>2 DEF BooksKept, Announced
<1>7. CASE s \in Added(w)
  <2>1. s \in new \ picks[e]
    BY <1>2, <1>7
  <2>2. Cardinality(Takers(s))' = Cardinality(Takers(s)) + 1
    BY <1>1, <1>2, <1>3, <2>1, PicksChange
  <2> QED
    BY <1>1, <1>4, <1>5, <1>7, <2>2 DEF BooksKept, Announced
<1>8. CASE s \notin Dropped(w) \cup Added(w)
  <2>1. s \in picks[e] <=> s \in new
    BY <1>8
  <2>2. Takers(s)' = Takers(s)
    BY <1>1, <1>2, <1>3, <2>1, PicksChange
  <2> QED
    BY <1>1, <1>4, <1>5, <1>8, <2>2 DEF BooksKept
<1> QED
  BY <1>6, <1>7, <1>8

LEMMA BooksStayKept ==
  ASSUME BalanceInv, NEW w \in Requests, RequestStep(w)
  PROVE  BooksKept'
<1>1. /\ SeatInv /\ RequestTypeOK /\ RowsHeld /\ BooksKept /\ DraftsAreLocked
      /\ count \in [Subjects -> Nat] /\ draft \in [Subjects -> Nat]
      /\ lock \in [Subjects -> Sessions \cup {None}] /\ w \in Sessions /\ w # None
  BY SeatDbAssumption, EnrollmentsAssumption DEF BalanceInv, RequestInv, SeatInv, DbTypeOK
<1>2. SUFFICES ASSUME NEW s \in Subjects
               PROVE  /\ count'[s] = Cardinality(Takers(s))'
                      /\ \A v \in Requests : lock'[s] = v => draft'[s] = Announced(v, s)'
  BY DEF BooksKept
<1>3. \A v \in Requests \ {w} : (lock'[s] = v <=> lock[s] = v) /\ Added(v)' = Added(v)
  BY <1>1, OthersLocksKept, RequestsKeepApart DEF RequestFrame, Added
<1>4. CASE UNCHANGED <<rosterVars, count, draft, lock>> /\ pc[w] # "seats"
  <2>1. lock[s] # w /\ Takers(s)' = Takers(s)
    BY <1>1, <1>4 DEF RowsHeld, Takers, rosterVars
  <2> QED
    BY <1>1, <1>3, <1>4, <2>1 DEF BooksKept, Announced
<1>5. CASE Fail(w)
  <2>1. Takers(s)' = Takers(s) /\ count' = count
    BY <1>5 DEF Fail, Rollback, RollbackSeats, rosterVars, Takers
  <2>2. lock'[s] # w /\ (lock[s] # w => draft'[s] = draft[s])
    BY <1>1, <1>5 DEF Fail, Rollback, RollbackSeats
  <2>3. ASSUME NEW v \in Requests, lock'[s] = v PROVE draft'[s] = Announced(v, s)'
    BY <1>1, <1>3, <2>1, <2>2, <2>3 DEF BooksKept, Announced
  <2> QED
    BY <1>1, <2>1, <2>3 DEF BooksKept
<1>6. CASE \E t \in Subjects : WritesSeat(w, t)
  <2>1. PICK t \in Subjects : WritesSeat(w, t)
    BY <1>6
  <2>2. /\ Takers(s)' = Takers(s) /\ count' = count /\ Added(w)' = Added(w)
        /\ lock[t] = None /\ lock' = [lock EXCEPT ![t] = w]
        /\ draft' = [draft EXCEPT ![t] = Announced(w, t)]
    BY <2>1 DEF WritesSeat, rosterVars, requestVars, Takers, Added
  <2>3. CASE s = t
    BY <1>1, <2>2, <2>3 DEF BooksKept, Announced
  <2>4. CASE s # t
    BY <1>1, <1>3, <2>2, <2>4 DEF BooksKept, Announced
  <2> QED
    BY <2>3, <2>4
<1>7. CASE (\E e \in EnrollmentIds : CommitsRow(w, e)) /\ ~Fail(w)
  <2>1. PICK e \in EnrollmentIds : CommitsRow(w, e)
    BY <1>7
  <2>2. /\ count'[s] = Cardinality(Takers(s))'
        /\ lock[s] # w => Cardinality(Takers(s))' = Cardinality(Takers(s))
    BY <1>7, <2>1, CommitKeepsBooks
  <2>3. lock'[s] # w /\ draft' = draft
    BY <1>1, <2>1 DEF CommitsRow, CommitSeats
  <2>4. ASSUME NEW v \in Requests, lock'[s] = v PROVE draft'[s] = Announced(v, s)'
    BY <1>1, <1>3, <2>2, <2>3, <2>4 DEF BooksKept, Announced
  <2> QED
    BY <2>2, <2>4
<1> QED
  BY <1>4, <1>5, <1>6, <1>7, SeatsStep

LEMMA BalanceKept ==
  ASSUME BalanceInv, NEW w \in Requests, RequestStep(w)
  PROVE  BalanceInv'
BY RequestInvKept, EditorsStayApart, ViewsStayCurrent, RowsStayHeld, BooksStayKept DEF BalanceInv

\* No step of anybody that leaves enrollments, counters and requests alone.
LEMMA BalanceUndisturbed ==
  ASSUME BalanceInv, RequestInv', UNCHANGED <<requestVars, rosterVars, count, draft, lock>>,
         \A w \in Requests : todo'[w] = todo[w]
  PROVE  BalanceInv'
<1> USE DEF requestVars, rosterVars, BalanceInv
<1>1. EditorsApart'
  BY DEF EditorsApart
<1>2. ViewsCurrent'
  BY DEF ViewsCurrent, ViewOK
<1>3. RowsHeld'
  BY DEF RowsHeld, Written, Dropped, Added
<1>4. BooksKept'
  BY DEF BooksKept, Announced, Takers, Added
<1> QED
  BY <1>1, <1>2, <1>3, <1>4

LEMMA EmptyBooks ==
  ASSUME OneEditor, DbInit, RequestInit, RequestInv
  PROVE  BalanceInv
<1> USE DEF DbInit, RequestInit
<1>1. EditorsApart
  BY DEF EditorsApart, NoJob
<1>2. ViewsCurrent
  BY DEF ViewsCurrent, ViewOK, NoJob, Edits
<1>3. RowsHeld
  BY SeatDbAssumption, EnrollmentsAssumption DEF RowsHeld
<1>4. BooksKept
  <2>1. \A s \in Subjects : Takers(s) = {}
    BY DEF Takers
  <2>2. \A s \in Subjects : Cardinality(Takers(s)) = 0
    BY <2>1, FS_EmptySet
  <2>3. \A s \in Subjects : \A w \in Requests : lock[s] # w
    BY SeatDbAssumption, EnrollmentsAssumption
  <2> QED
    BY <2>2, <2>3 DEF BooksKept
<1> QED
  BY <1>1, <1>2, <1>3, <1>4 DEF BalanceInv

LEMMA RequestsStart == DbInit /\ RequestInit => RequestInv
<1> SUFFICES ASSUME DbInit, RequestInit PROVE RequestInv
  OBVIOUS
<1> USE DEF DbInit, RequestInit
<1>1. DbTypeOK
  BY SeatDbAssumption DEF DbTypeOK
<1>2. CountWithinLimit /\ DraftsAreLocked
  BY SeatDbAssumption DEF CountWithinLimit, DraftsAreLocked
<1>3. RequestTypeOK
  BY NothingTypes DEF RequestTypeOK, Labels
<1>4. ReadsNothingYet /\ ClaimsAreHeld
  BY DEF ReadsNothingYet, NoJob, NoView, ClaimsAreHeld, At
<1>5. OneClassPerStudent /\ NothingDangles
  BY DEF OneClassPerStudent, NothingDangles
<1> QED
  BY <1>1, <1>2, <1>3, <1>4, <1>5 DEF RequestInv, SeatInv, RosterOK

LEMMA RequestInvUnchanged ==
  ASSUME RequestInv, UNCHANGED dbVars, UNCHANGED requestVars
  PROVE  RequestInv'
<1> USE DEF RequestInv, dbVars, seatVars, requestVars
<1>1. SeatInv'
  BY UnchangedKeeps
<1>2. RequestTypeOK'
  BY DEF RequestTypeOK
<1>3. ReadsNothingYet' /\ ClaimsAreHeld'
  BY DEF ReadsNothingYet, ClaimsAreHeld, At, Dropped, Added, catalogVars
<1>4. RosterOK'
  BY RosterUnchanged
<1> QED
  BY <1>1, <1>2, <1>3, <1>4

-----------------------------------------------------------------------------
(* Offers.                                                                 *)

\* What _resolve_subjects has established: the subjects a request is about to
\* commit are offered by its class, those deleted since aside.
WantOK(w) ==
  /\ (job[w].op = "enroll" /\ pc[w] \in {"offer", "seats"}) => view[w].class = job[w].class
  /\ (job[w].op \in {"enroll", "set"} /\ pc[w] = "seats" /\ view[w].class \in classes) =>
       job[w].want \cap subjects \subseteq offered[view[w].class]

OffersOK == PicksOffered /\ \A w \in Requests : WantOK(w)

LEMMA OwnWantOK ==
  ASSUME BalanceInv, OffersOK, NEW w \in Requests, RequestStep(w)
  PROVE  WantOK(w)'
<1>1. /\ RequestTypeOK /\ WantOK(w) /\ SeatInv
  BY DEF BalanceInv, RequestInv, OffersOK
<1>2. UNCHANGED catalogVars
  BY <1>1, RequestsKeepRows
<1> USE DEF RequestTypeOK, catalogVars
<1>3. CASE Finish(w) \/ Begin(w)
  <2>1. pc'[w] \notin {"offer", "seats"}
    BY <1>1, <1>3
       DEF Finish, Begin, BeginEnroll, BeginSet, BeginMove, BeginUnenroll, Start, Goto
  <2> QED
    BY <2>1 DEF WantOK
<1>4. CASE Read(w) /\ ~Refuse(w)
  <2>1. job' = job
    BY <1>4 DEF Read, ReadStudent, ReadRow, ReadPicks, ReadClass, ReadOffer, ToSeats
  <2>2. CASE ReadStudent(w) \/ ReadRow(w)
    <3>1. pc'[w] \notin {"offer", "seats"}
      BY <1>1, <1>4, <2>2 DEF ReadStudent, ReadRow, Goto
    <3> QED
      BY <3>1 DEF WantOK
  <2>3. CASE ReadPicks(w)
    <3>1. job[w].op # "enroll" /\ (job[w].op = "set" => pc'[w] = "offer")
      BY <1>1, <1>4, <2>3 DEF ReadPicks, Goto
    <3> QED
      BY <2>1, <3>1 DEF WantOK
  <2>4. CASE ReadClass(w)
    <3>1. \/ job[w].op = "move"
          \/ job[w].op = "enroll" /\ pc'[w] = "offer" /\ view'[w].class = job[w].class
      <4>1. view[w] \in [class : Classes \cup {None}, picks : SUBSET Subjects]
        BY <1>1 DEF Views
      <4> QED
        BY <1>1, <1>4, <2>4, <4>1 DEF ReadClass, Goto
    <3> QED
      BY <2>1, <3>1 DEF WantOK
  <2>5. CASE ReadOffer(w)
    <3>1. pc[w] = "offer" /\ view' = view /\ job[w].want \subseteq offered[view[w].class]
      BY <1>4, <2>5 DEF ReadOffer, At, OfferCovers
    <3> QED
      BY <1>1, <1>2, <2>1, <3>1 DEF WantOK
  <2> QED
    BY <1>4, <2>2, <2>3, <2>4, <2>5 DEF Read
<1>5. CASE Release(w) \/ Claim(w)
  <2>1. UNCHANGED requestVars
    BY <1>5 DEF Release, Claim
  <2> QED
    BY <1>1, <1>2, <2>1 DEF WantOK, requestVars
<1>6. CASE Commit(w)
  BY <1>3, <1>6 DEF Commit, CommitEnroll, CommitSet, CommitMove, CommitUnenroll, Fail
<1> QED
  BY <1>3, <1>4, <1>5, <1>6
     DEF RequestStep, Serve, Refuse, Fail, ClaimRefused, DeadlockAbort, Disconnect

\* What COMMIT makes of the row: it is in the class whose offer was checked.
LEMMA CommittedRow ==
  ASSUME BalanceInv, OffersOK, NEW w \in Requests, NEW e \in EnrollmentIds,
         CommitsRow(w, e), ~Fail(w), job[w].op \in {"enroll", "set"}
  PROVE  /\ row'[e].class = view[w].class /\ view[w].class \in classes
         /\ job[w].want \subseteq offered[view[w].class]
         /\ job[w].op = "enroll" =>
              /\ row' = [row EXCEPT ![e] = [student |-> job[w].student, class |-> job[w].class]]
              /\ row[e] = None /\ ~StudentTaken(job[w].student) /\ view[w].class = job[w].class
         /\ job[w].op = "set" => row' = row /\ row[e] # None
<1>1. /\ row \in [EnrollmentIds -> EnrollmentRow \cup {None}] /\ job[w] \in Jobs
      /\ NothingDangles /\ ClaimsAreHeld /\ ViewOK(w) /\ WantOK(w) /\ Done(w) /\ Commit(w)
      /\ pc[w] = "seats"
  BY DEF BalanceInv, RequestInv, SeatInv, DbTypeOK, RequestTypeOK, RosterOK, ViewsCurrent,
         OffersOK, CommitsRow, Done, At
<1>2. job[w].want \subseteq subjects
  <2>1. Added(w) \subseteq subjects /\ view[w].picks = picks[e]
    BY <1>1, AddedExist, CommittedPicks
  <2> QED
    BY <1>1, <2>1 DEF Added, NothingDangles
<1>3. CASE job[w].op = "enroll"
  <2>1. CommitEnroll(w) /\ Fresh(e)
    BY <1>1, <1>3 DEF Commit, CommitSet, CommitMove, CommitUnenroll, CommitsRow, Edits
  <2>2. PICK f \in EnrollmentIds :
          /\ Fresh(f)
          /\ row' = [row EXCEPT ![f] = [student |-> job[w].student, class |-> job[w].class]]
    BY <2>1 DEF CommitEnroll
  <2>3. job[w].class \in classes /\ ~StudentTaken(job[w].student)
    BY <2>1 DEF CommitEnroll
  <2>4. [student |-> job[w].student, class |-> job[w].class] \in EnrollmentRow
    BY <1>1, <1>3, JobTypes DEF EnrollmentRow
  <2>5. e = f
    BY <1>1, <2>1, <2>2, <2>4, SeatDbAssumption DEF CommitsRow, Fresh
  <2>6. view[w].class = job[w].class
    BY <1>1, <1>3 DEF WantOK
  <2> QED
    BY <1>1, <1>2, <1>3, <2>1, <2>2, <2>3, <2>5, <2>6 DEF WantOK, Fresh
<1>4. CASE job[w].op = "set"
  <2>1. row' = row /\ e = job[w].id
    BY <1>1, <1>4 DEF Commit, CommitEnroll, CommitSet, CommitMove, CommitUnenroll, CommitsRow, Fail,
                      Rollback, rosterVars
  <2>2. row[e] # None /\ view[w].class = row[e].class
    BY <1>1, <1>4, <2>1 DEF ViewOK, Edits
  <2>3. view[w].class \in classes
    BY <1>1, <2>2 DEF NothingDangles
  <2> QED
    BY <1>1, <1>2, <1>4, <2>1, <2>2, <2>3 DEF WantOK
<1> QED
  BY <1>3, <1>4

LEMMA OffersKept ==
  ASSUME BalanceInv, OffersOK, NEW w \in Requests, RequestStep(w)
  PROVE  OffersOK'
<1>1. /\ SeatInv /\ RequestTypeOK /\ picks \in [EnrollmentIds -> SUBSET Subjects]
      /\ job[w] \in Jobs
  BY DEF BalanceInv, RequestInv, SeatInv, DbTypeOK, RequestTypeOK
<1>2. UNCHANGED catalogVars
  BY <1>1, RequestsKeepRows
<1>3. ASSUME NEW v \in Requests PROVE WantOK(v)'
  <2>1. CASE v = w
    BY <2>1, OwnWantOK
  <2>2. CASE v # w
    BY <1>1, <1>2, <2>2, RequestsKeepApart DEF RequestFrame, OffersOK, WantOK, catalogVars
  <2> QED
    BY <2>1, <2>2
<1>4. PicksOffered'
  <2>1. CASE UNCHANGED rosterVars
    BY <1>2, <2>1 DEF OffersOK, PicksOffered, rosterVars, catalogVars
  <2>2. CASE (\E e \in EnrollmentIds : CommitsRow(w, e)) /\ ~Fail(w)
    <3>1. PICK e \in EnrollmentIds : CommitsRow(w, e)
      BY <2>2
    <3>2. picks' = [picks EXCEPT ![e] = job[w].want]
      BY <2>2, <3>1, CommittedPicks
    <3>3. ASSUME row'[e] # None PROVE job[w].want \subseteq offered[row'[e].class]
      <4>1. CASE job[w].op \in {"enroll", "set"}
        BY <2>2, <3>1, <4>1, CommittedRow
      <4>2. CASE job[w].op \in {"move", "unenroll"}
        BY <1>1, <4>2, EmptyWant
      <4> QED
        BY <3>1, <4>1, <4>2 DEF CommitsRow, Edits
    <3> QED
      BY <1>1, <1>2, <3>1, <3>2, <3>3 DEF OffersOK, PicksOffered, CommitsRow, catalogVars
  <2> QED
    BY <1>1, <2>1, <2>2, RostersStep DEF Fail, Rollback
<1> QED
  BY <1>3, <1>4 DEF OffersOK

-----------------------------------------------------------------------------
(* Enrolment requests by themselves (Spec of Enrollments).                 *)

\* Requests change no catalogue.
CatalogFixed == /\ subjects = Subjects /\ classes = Classes
                /\ offered = InitialOffer /\ limit = InitialLimit

EnrolInv == BalanceInv /\ OffersOK /\ CatalogFixed

LEMMA EnrolStart == OneEditor /\ Init => EnrolInv
<1> SUFFICES ASSUME OneEditor, Init PROVE EnrolInv
  OBVIOUS
<1> USE DEF Init
<1>1. BalanceInv
  BY RequestsStart, EmptyBooks
<1>2. CatalogFixed
  BY DEF DbInit, CatalogFixed
<1>3. OffersOK
  BY DEF DbInit, RequestInit, OffersOK, PicksOffered, WantOK
<1> QED
  BY <1>1, <1>2, <1>3 DEF EnrolInv

LEMMA EnrolStep == EnrolInv /\ [Next]_vars => EnrolInv'
<1> SUFFICES ASSUME EnrolInv, [Next]_vars PROVE EnrolInv'
  OBVIOUS
<1>1. CASE Next
  <2>1. PICK w \in Requests : RequestStep(w)
    BY <1>1 DEF Next
  <2>2. UNCHANGED catalogVars
    BY <2>1, RequestsKeepRows DEF EnrolInv, BalanceInv, RequestInv
  <2> QED
    BY <2>1, <2>2, BalanceKept, OffersKept DEF EnrolInv, CatalogFixed, catalogVars
<1>2. CASE UNCHANGED vars
  <2> USE <1>2 DEF vars, dbVars, seatVars, requestVars
  <2>1. RequestInv'
    BY RequestInvUnchanged DEF EnrolInv, BalanceInv
  <2>2. BalanceInv'
    BY <2>1, BalanceUndisturbed DEF EnrolInv, rosterVars
  <2>3. OffersOK' /\ CatalogFixed'
    BY DEF EnrolInv, OffersOK, PicksOffered, WantOK, CatalogFixed, rosterVars, catalogVars
  <2> QED
    BY <2>2, <2>3 DEF EnrolInv
<1> QED
  BY <1>1, <1>2

\* The inductive invariant of concurrent enrolment requests.
THEOREM EnrolInvHolds == OneEditor /\ Spec => []EnrolInv
BY EnrolStart, EnrolStep, PTL DEF Spec

\* However the statements of enrolments, changes of subjects, moves and
\* unenrolments interleave, deadlock or roll back, student_count is the number of
\* rows it caches (app/services/enrollments.py:_apply_subject_diff).
THEOREM EnrolmentsBalance == OneEditor /\ Spec => []BooksBalance
<1>1. EnrolInv => BooksBalance
  BY DEF EnrolInv, BalanceInv, BooksKept, BooksBalance, CatalogFixed
<1> QED
  BY <1>1, EnrolInvHolds, PTL

\* A claim that was granted found a seat that nobody holds.
LEMMA AddedHadSeat ==
  ASSUME BalanceInv, NEW w \in Requests, Done(w), NEW s \in Added(w), s \in Subjects
  PROVE  Cardinality(Takers(s)) < limit[s]
<1>1. /\ RowsHeld /\ BooksKept /\ DraftsAreLocked /\ limit[s] \in Nat
      /\ Cardinality(Takers(s)) \in Nat
  BY TakersFinite DEF BalanceInv, RequestInv, SeatInv, DbTypeOK
<1>2. lock[s] = w
  BY <1>1 DEF RowsHeld, Written, Done, At
<1>3. draft[s] = Cardinality(Takers(s)) + 1 /\ draft[s] <= limit[s]
  BY <1>1, <1>2 DEF BooksKept, Announced, DraftsAreLocked
<1> QED
  BY <1>1, <1>3

\* SeatAllocation counts as FiniteSets does.
LEMMA SameCardinality == \A S : Allocation!Cardinality(S) = Cardinality(S)
BY DEF Allocation!Cardinality, Cardinality

\* Every step of a request is a step of SeatAllocation or invisible in it.
LEMMA RequestAllocates ==
  ASSUME EnrolInv, NEW w \in Requests, RequestStep(w)
  PROVE  [Allocation!Next]_(Allocation!vars)
<1>1. /\ BalanceInv /\ OffersOK /\ CatalogFixed /\ SeatInv /\ RequestTypeOK
      /\ row \in [EnrollmentIds -> EnrollmentRow \cup {None}]
      /\ picks \in [EnrollmentIds -> SUBSET Subjects] /\ job[w] \in Jobs
  BY DEF EnrolInv, BalanceInv, RequestInv, SeatInv, DbTypeOK, RequestTypeOK
<1>2. CASE UNCHANGED rosterVars
  BY <1>2 DEF rosterVars, Allocation!vars
<1>3. CASE (\E e \in EnrollmentIds : CommitsRow(w, e)) /\ ~Fail(w)
  <2>1. PICK e \in EnrollmentIds : CommitsRow(w, e)
    BY <1>3
  <2> DEFINE want == job[w].want
  <2>2. /\ Done(w) /\ Commit(w) /\ view[w].picks = picks[e] /\ want \in SUBSET Subjects
        /\ picks' = [picks EXCEPT ![e] = want] /\ Added(w) = want \ picks[e]
    <3>1. want \in SUBSET Subjects
      BY <1>1, JobTypes
    <3>2. /\ picks' = [picks EXCEPT ![e] = (picks[e] \ Dropped(w)) \cup Added(w)]
          /\ (picks[e] \ Dropped(w)) \cup Added(w) = want /\ view[w].picks = picks[e]
      BY <1>1, <1>3, <2>1, CommittedPicks
    <3>3. Added(w) = want \ picks[e]
      BY <3>2 DEF Added
    <3> QED
      BY <2>1, <3>1, <3>2, <3>3 DEF CommitsRow
  <2>3. \A s \in want \ picks[e] : Allocation!HasSeat(s)
    <3>1. \A s \in want \ picks[e] : Cardinality(Takers(s)) < limit[s]
      BY <1>1, <2>2, AddedHadSeat
    <3>2. \A s \in want : Allocation!Holders(s) = Takers(s)
      BY DEF Allocation!Holders, Takers
    <3> QED
      BY <1>1, <3>1, <3>2, SameCardinality DEF Allocation!HasSeat, CatalogFixed
  <2>4. CASE job[w].op = "enroll"
    <3> DEFINE st == job[w].student
    <3> DEFINE c == job[w].class
    <3>1. /\ row' = [row EXCEPT ![e] = [student |-> st, class |-> c]]
          /\ row[e] = None /\ ~StudentTaken(st) /\ want \subseteq offered[c]
      BY <1>1, <1>3, <2>1, <2>4, CommittedRow
    <3>2. st \in Students /\ c \in Classes
      BY <1>1, <2>4, JobTypes
    <3>3. Allocation!MayPick(e, c, want)
      BY <1>1, <2>3, <3>1 DEF Allocation!MayPick, CatalogFixed
    <3>4. Allocation!Enroll(e, st, c, want)
      BY <2>2, <3>1, <3>3 DEF Allocation!Enroll, StudentTaken
    <3> QED
      BY <2>2, <3>2, <3>4 DEF Allocation!Next
  <2>5. CASE job[w].op = "set"
    <3>1. /\ row' = row /\ row[e] # None /\ row'[e].class = view[w].class
          /\ want \subseteq offered[view[w].class]
      BY <1>1, <1>3, <2>1, <2>5, CommittedRow
    <3>2. Allocation!MayPick(e, row[e].class, want)
      BY <1>1, <2>3, <3>1 DEF Allocation!MayPick, CatalogFixed
    <3>3. Allocation!Choose(e, want)
      BY <2>2, <3>1, <3>2 DEF Allocation!Choose
    <3> QED
      BY <2>2, <3>3 DEF Allocation!Next
  <2>6. CASE job[w].op = "move"
    <3>1. CommitMove(w) /\ e = job[w].id /\ want = {} /\ job[w].class \in Classes
      BY <1>1, <2>1, <2>2, <2>6, EmptyWant, JobTypes
         DEF Commit, CommitEnroll, CommitSet, CommitUnenroll, CommitsRow, Edits
    <3>2. row[e] # None /\ row' = [row EXCEPT ![e].class = job[w].class]
      BY <1>3, <3>1 DEF CommitMove
    <3>3. Allocation!Move(e, job[w].class)
      BY <2>2, <3>1, <3>2 DEF Allocation!Move
    <3> QED
      BY <3>1, <3>3 DEF Allocation!Next
  <2>7. CASE job[w].op = "unenroll"
    <3>1. CommitUnenroll(w) /\ e = job[w].id /\ want = {}
      BY <1>1, <2>1, <2>2, <2>7, EmptyWant
         DEF Commit, CommitEnroll, CommitSet, CommitMove, CommitsRow, Edits
    <3>2. row[e] # None
      BY <1>1, <2>7, <3>1 DEF BalanceInv, ViewsCurrent, ViewOK, Edits
    <3>3. Allocation!Leave(e)
      BY <2>2, <3>1, <3>2 DEF CommitUnenroll, Allocation!Leave
    <3> QED
      BY <3>3 DEF Allocation!Next
  <2> QED
    BY <2>1, <2>4, <2>5, <2>6, <2>7 DEF CommitsRow, Edits
<1> QED
  BY <1>1, <1>2, <1>3, RostersStep DEF Fail, Rollback

\* With editors of one enrollment kept apart, concurrent requests that lock,
\* wait, deadlock and roll back are, in the committed rows, single indivisible
\* steps (app/services/enrollments.py behind app/services/capacity.py).
THEOREM EnrolmentImplementsAllocation == OneEditor /\ Spec => AllocationSpec
<1>1. Init => Allocation!Init
  BY DEF Init, DbInit, Allocation!Init
<1>2. EnrolInv /\ [Next]_vars => [Allocation!Next]_(Allocation!vars)
  <2> SUFFICES ASSUME EnrolInv, [Next]_vars PROVE [Allocation!Next]_(Allocation!vars)
    OBVIOUS
  <2>1. CASE Next
    BY <2>1, RequestAllocates DEF Next
  <2>2. CASE UNCHANGED vars
    BY <2>2 DEF vars, dbVars, rosterVars, Allocation!vars
  <2> QED
    BY <2>1, <2>2
<1> QED
  BY <1>1, <1>2, EnrolInvHolds, PTL DEF Spec, AllocationSpec, Allocation!Spec

\* Whoever edits what: requests by themselves keep RequestInv.
LEMMA RequestsStepInv == RequestInv /\ [Next]_vars => RequestInv'
<1> SUFFICES ASSUME RequestInv, [Next]_vars PROVE RequestInv'
  OBVIOUS
<1>1. CASE Next
  BY <1>1, RequestInvKept DEF Next
<1>2. CASE UNCHANGED vars
  BY <1>2, RequestInvUnchanged DEF vars, dbVars
<1> QED
  BY <1>1, <1>2

\* Among enrolment requests alone, too, a student is enrolled once
\* (db/models/enrollment.py: UNIQUE student_id).
THEOREM RequestsEnrolOnce == Spec => []OneClassPerStudent
<1>1. Init => RequestInv
  BY RequestsStart DEF Init
<1>2. RequestInv => OneClassPerStudent
  BY DEF RequestInv, RosterOK
<1> QED
  BY <1>1, <1>2, RequestsStepInv, PTL DEF Spec

-----------------------------------------------------------------------------
(* With administrators at work (SystemSpec).                               *)

AdminOpsOnly == \A a \in Admins : ajob[a].op \in AdminOps \cup {"none"}

\* The hypothesis of the theorems on the books: one editor of an enrollment at a
\* time, and no recomputation of the counters behind their backs.
KeptApart == OneEditor /\ "reconcile" \notin AdminOps

BooksInv == KeptApart /\ RosterInv /\ BalanceInv /\ AdminOpsOnly

\* An administrator works on what was asked for.
LEMMA AdminOpsStep ==
  ASSUME AdminTypeOK, AdminOpsOnly, NEW a \in Admins, AdminStep(a)
  PROVE  AdminOpsOnly'
<1> USE DEF AdminOpsOnly, AdminTypeOK
<1>1. CASE AdminFinish(a)
  BY <1>1 DEF AdminFinish, NoAdminJob
<1>2. CASE ajob' = ajob
  BY <1>2
<1>3. CASE BeginAdmin(a)
  <2>1. ASSUME NEW label, NEW request, AdminStart(a, label, request)
        PROVE  AdminOpsOnly'
    BY <2>1 DEF AdminStart
  <2> QED
    BY <1>3, <2>1 DEF BeginAdmin
<1>4. CASE ReadLinks(a) \/ ReadWanted(a) \/ CheckBlocked(a) \/ FlushClasses(a) \/ CheckLimit(a)
           \/ FlushLimit(a)
  BY <1>1, <1>2, <1>4
     DEF ReadLinks, ReadWanted, CheckBlocked, FlushClasses, CheckLimit, FlushLimit, AdminRefuse,
         AdminFail, AdminProceed
<1>5. CASE FindSubject(a) \/ FindClass(a) \/ CountHolders(a) \/ DeleteSubject(a) \/ DeleteClass(a)
  BY <1>1, <1>2, <1>5
     DEF FindSubject, FindClass, CountHolders, DeleteSubject, DeleteClass, AdminRefuse, AdminFail,
         AdminProceed
<1>6. CASE TallyRows(a) \/ ScanCounts(a) \/ FixCount(a) \/ FixRefused(a) \/ CommitFixes(a)
  BY <1>1, <1>2, <1>6 DEF TallyRows, ScanCounts, FixCount, FixRefused, CommitFixes, AdminFail, adminVars
<1> QED
  BY <1>1, <1>3, <1>4, <1>5, <1>6
     DEF AdminStep, AdminServe, AdminDeadlockAbort, AdminDisconnect, AdminFail

\* Without reconcile_counts administrators write no counter.
LEMMA AdminLeavesSeats ==
  ASSUME BooksInv, NEW a \in Admins, AdminStep(a)
  PROVE  UNCHANGED <<count, draft, lock>>
<1>1. /\ SeatInv /\ RowsHeld /\ a \notin Requests /\ a \in Sessions
      /\ None \notin Sessions /\ ajob[a].op # "reconcile"
  BY SeatDbAssumption, SubjectAdminAssumption, SeatSystemAssumption
     DEF BooksInv, KeptApart, AdminOpsOnly, BalanceInv, RequestInv
<1>2. CASE AdminFail(a)
  <2>1. \A s \in Subjects : lock[s] # a
    BY <1>1 DEF RowsHeld
  <2>2. lock \in [Subjects -> Sessions \cup {None}] /\ draft \in [Subjects -> Nat]
    BY <1>1 DEF SeatInv, DbTypeOK
  <2> QED
    BY <1>2, <2>1, <2>2 DEF AdminFail, Rollback, RollbackSeats
<1>3. CASE BeginAdmin(a)
  BY <1>3 DEF BeginAdmin, AdminStart, dbVars, seatVars
<1>4. CASE ReadLinks(a) \/ ReadWanted(a) \/ CheckBlocked(a) \/ FlushClasses(a) \/ CheckLimit(a)
           \/ FlushLimit(a)
  BY <1>2, <1>4
     DEF ReadLinks, ReadWanted, CheckBlocked, FlushClasses, CheckLimit, FlushLimit, AdminRefuse,
         AdminProceed, dbVars, seatVars
<1>5. CASE FindSubject(a) \/ FindClass(a) \/ CountHolders(a) \/ DeleteSubject(a) \/ DeleteClass(a)
  BY <1>2, <1>5
     DEF FindSubject, FindClass, CountHolders, DeleteSubject, DeleteClass, AdminRefuse,
         AdminProceed, dbVars, seatVars
<1>6. ~(TallyRows(a) \/ ScanCounts(a) \/ FixCount(a) \/ FixRefused(a) \/ CommitFixes(a))
  BY <1>1 DEF TallyRows, ScanCounts, FixCount, FixRefused, CommitFixes, AdminAt
<1> QED
  BY <1>2, <1>3, <1>4, <1>5, <1>6 DEF AdminStep, AdminServe, AdminDeadlockAbort, AdminDisconnect

LEMMA BooksStart == KeptApart /\ SystemInit => BooksInv
<1> SUFFICES ASSUME KeptApart, SystemInit PROVE BooksInv
  OBVIOUS
<1>1. RosterInv
  BY RosterInitInv
<1>2. BalanceInv
  BY <1>1, EmptyBooks DEF SystemInit, RosterInv, KeptApart
<1>3. AdminOpsOnly
  BY DEF SystemInit, AdminInit, AdminOpsOnly, NoAdminJob
<1> QED
  BY <1>1, <1>2, <1>3 DEF BooksInv

LEMMA BooksStep == BooksInv /\ [SystemNext]_systemVars => BooksInv'
<1> SUFFICES ASSUME BooksInv, [SystemNext]_systemVars PROVE BooksInv'
  OBVIOUS
<1>1. RosterInv' /\ RequestInv'
  BY RosterStepInv DEF BooksInv, RosterInv
<1>2. CASE \E w \in Requests : RequestStep(w) /\ UNCHANGED adminVars
  BY <1>1, <1>2, BalanceKept DEF BooksInv, KeptApart, AdminOpsOnly, adminVars
<1>3. CASE \E a \in Admins : AdminStep(a) /\ UNCHANGED requestVars
  <2>1. PICK a \in Admins : AdminStep(a) /\ UNCHANGED requestVars
    BY <1>3
  <2>2. UNCHANGED <<count, draft, lock>>
    BY <2>1, AdminLeavesSeats
  <2>3. UNCHANGED rosterVars /\ \A w \in Requests : todo'[w] = todo[w]
    BY <2>1, AdminsKeepApart, EnrollmentsAssumption, SeatSystemAssumption
       DEF BooksInv, BalanceInv, RequestInv
  <2>4. BalanceInv'
    BY <1>1, <2>1, <2>2, <2>3, BalanceUndisturbed DEF BooksInv
  <2>5. AdminOpsOnly'
    BY <2>1, AdminOpsStep DEF BooksInv, RosterInv, SystemInv
  <2> QED
    BY <1>1, <2>4, <2>5 DEF BooksInv, KeptApart
<1>4. CASE UNCHANGED systemVars
  <2>1. BalanceInv'
    BY <1>1, <1>4, BalanceUndisturbed DEF BooksInv, systemVars, dbVars, seatVars
  <2>2. AdminOpsOnly'
    BY <1>4 DEF BooksInv, AdminOpsOnly, systemVars, adminVars
  <2> QED
    BY <1>1, <2>1, <2>2 DEF BooksInv, KeptApart
<1> QED
  BY <1>2, <1>3, <1>4 DEF SystemNext

\* The inductive invariant of the books.
THEOREM BooksInvHolds == KeptApart /\ SystemSpec => []BooksInv
BY BooksStart, BooksStep, PTL DEF SystemSpec

\* student_count never drifts, whatever limits are changed and subjects and
\* classes deleted meanwhile (cli/reconcile_counts.py: "It should never drift").
THEOREM BooksAlwaysBalance == KeptApart /\ SystemSpec => []BooksBalance
<1>1. BooksInv => BooksBalance
  BY DEF BooksInv, BalanceInv, RequestInv, SeatInv, DbTypeOK, BooksKept, BooksBalance
<1> QED
  BY <1>1, BooksInvHolds, PTL

\* The last seat is given away once (db/models/subject.py: "a conditional UPDATE
\* that cannot overbook").
THEOREM SeatsNeverOverbooked == KeptApart /\ SystemSpec => []NoOverbooking
<1>1. BooksInv => NoOverbooking
  <2> SUFFICES ASSUME BooksInv, NEW s \in subjects PROVE Cardinality(Takers(s)) <= limit[s]
    BY DEF NoOverbooking
  <2>1. s \in Subjects /\ count[s] <= limit[s] /\ count[s] = Cardinality(Takers(s))
    BY DEF BooksInv, BalanceInv, RequestInv, SeatInv, DbTypeOK, CountWithinLimit, BooksKept
  <2> QED
    BY <2>1
<1> QED
  BY <1>1, BooksInvHolds, PTL

\* The administrators' own part in the offers: nothing that is picked or taught in
\* a class with students is deleted.
LEMMA AdminKeepsOffers ==
  ASSUME BooksInv, OffersOK, "setClasses" \notin AdminOps, NEW a \in Admins, AdminStep(a),
         UNCHANGED requestVars
  PROVE  OffersOK'
<1>1. /\ SeatInv /\ AdminOpsOnly /\ RosterOK /\ ajob[a].op # "setClasses"
      /\ row' = row /\ picks' = picks /\ offered \in [Classes -> SUBSET Subjects]
      /\ view \in [Requests -> Views] /\ job \in [Requests -> Jobs] /\ classes \subseteq Classes
  BY AdminsKeepApart
     DEF BooksInv, BalanceInv, RequestInv, RequestTypeOK, AdminOpsOnly, rosterVars, SeatInv, DbTypeOK
<1> USE DEF requestVars
<1>2. CASE UNCHANGED <<subjects, classes, offered>>
  BY <1>1, <1>2 DEF OffersOK, PicksOffered, WantOK
<1>3. CASE DeleteSubject(a) /\ ~AdminFail(a)
  <2> DEFINE s == ajob[a].subject
  <2>1. /\ ~HeldSubject(s) /\ subjects' = subjects \ {s} /\ classes' = classes
        /\ offered' = [c \in Classes |-> offered[c] \ {s}]
    BY <1>3 DEF DeleteSubject
  <2>2. \A e \in EnrollmentIds : s \notin picks[e]
    BY <2>1 DEF HeldSubject, Takers
  <2>3. \A e \in EnrollmentIds : row[e] # None => row[e].class \in Classes
    BY <1>1 DEF RosterOK, NothingDangles
  <2>4. PicksOffered'
    BY <1>1, <2>1, <2>2, <2>3 DEF OffersOK, PicksOffered
  <2>5. ASSUME NEW w \in Requests PROVE WantOK(w)'
    BY <1>1, <2>1 DEF OffersOK, WantOK
  <2> QED
    BY <2>4, <2>5 DEF OffersOK
<1>4. CASE DeleteClass(a) /\ ~AdminFail(a)
  <2> DEFINE d == ajob[a].class
  <2>1. /\ ~HeldClass(d) /\ classes' = classes \ {d} /\ subjects' = subjects
        /\ offered' = [offered EXCEPT ![d] = {}]
    BY <1>4 DEF DeleteClass
  <2>2. \A e \in EnrollmentIds : row[e] # None => row[e].class # d
    BY <2>1 DEF HeldClass, EnrolledIn
  <2>3. PicksOffered'
    BY <1>1, <2>1, <2>2 DEF OffersOK, PicksOffered
  <2>4. ASSUME NEW w \in Requests PROVE WantOK(w)'
    BY <1>1, <2>1 DEF OffersOK, WantOK
  <2> QED
    BY <2>3, <2>4 DEF OffersOK
<1>5. CASE AdminFail(a) \/ FlushLimit(a)
  BY <1>2, <1>5 DEF AdminFail, Rollback, FlushLimit, AdminRefuse, dbVars, catalogVars
<1>6. ~FlushClasses(a)
  BY <1>1 DEF FlushClasses, AdminAt
<1>7. CASE catalogVars' = catalogVars
  BY <1>2, <1>7 DEF catalogVars
<1> QED
  BY <1>1, <1>3, <1>4, <1>5, <1>6, <1>7, AdminsKeepApart DEF CatalogWrites

\* The hypothesis of the theorem on the offers.
LinksLeftAlone == KeptApart /\ "setClasses" \notin AdminOps

OffersInv == LinksLeftAlone /\ BooksInv /\ OffersOK

LEMMA OffersStart == LinksLeftAlone /\ SystemInit => OffersInv
<1> SUFFICES ASSUME LinksLeftAlone, SystemInit PROVE OffersInv
  OBVIOUS
<1>1. OffersOK
  BY DEF SystemInit, DbInit, RequestInit, OffersOK, PicksOffered, WantOK
<1> QED
  BY <1>1, BooksStart DEF OffersInv, LinksLeftAlone

LEMMA OffersStep == OffersInv /\ [SystemNext]_systemVars => OffersInv'
<1> SUFFICES ASSUME OffersInv, [SystemNext]_systemVars PROVE OffersInv'
  OBVIOUS
<1>1. BooksInv' /\ BalanceInv /\ OffersOK
  BY BooksStep DEF OffersInv, BooksInv
<1>2. CASE \E w \in Requests : RequestStep(w) /\ UNCHANGED adminVars
  BY <1>1, <1>2, OffersKept DEF OffersInv, LinksLeftAlone, KeptApart
<1>3. CASE \E a \in Admins : AdminStep(a) /\ UNCHANGED requestVars
  BY <1>1, <1>3, AdminKeepsOffers DEF OffersInv, LinksLeftAlone, KeptApart
<1>4. CASE UNCHANGED systemVars
  <2>1. OffersOK'
    BY <1>1, <1>4
       DEF OffersOK, PicksOffered, WantOK, systemVars, dbVars, rosterVars, catalogVars, requestVars
  <2> QED
    BY <1>1, <2>1 DEF OffersInv, LinksLeftAlone, KeptApart
<1> QED
  BY <1>2, <1>3, <1>4 DEF SystemNext

\* The inductive invariant of the offers: what a request has checked against the
\* links of its class still holds when it writes its picks.
THEOREM OffersInvHolds == LinksLeftAlone /\ SystemSpec => []OffersInv
BY OffersStart, OffersStep, PTL DEF SystemSpec

\* As long as no class is detached from a subject, every pick is a subject the
\* student's class runs, although the offer is read before the seats are claimed
\* and classes and subjects are deleted meanwhile (db/models/enrollment.py).
THEOREM PicksStayOffered == LinksLeftAlone /\ SystemSpec => []PicksOffered
<1>1. OffersInv => PicksOffered
  BY DEF OffersInv, OffersOK
<1> QED
  BY <1>1, OffersInvHolds, PTL
=============================================================================
