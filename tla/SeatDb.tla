------------------------------- MODULE SeatDb -------------------------------
(***************************************************************************)
(* The tables that seat accounting lives in, and the statements of         *)
(* app/services/capacity.py on them.                                       *)
(*                                                                         *)
(* The database is PostgreSQL at READ COMMITTED: a statement sees what was *)
(* committed when it started, an UPDATE holds its row until the            *)
(* transaction ends, and a second UPDATE of that row waits and then works  *)
(* on the value the first one left.  A database session is one request     *)
(* (or one command-line run) inside its single transaction.                *)
(*                                                                         *)
(* Only subjects.student_count is written before the end of a transaction. *)
(* `draft' is that column as the session holding the row sees it, `count'  *)
(* as everybody else does, `lock' who holds the row.  All ORM writes are   *)
(* flushed immediately before COMMIT, so flush and commit are one step.    *)
(***************************************************************************)
EXTENDS Integers, FiniteSets

CONSTANTS
  Students,        \* students, all of them active
  EnrollmentIds,   \* enrollment primary keys; a free one stands for a new uuid
  Classes,
  Subjects,
  Sessions,        \* database sessions open at the same time
  None,            \* SQL NULL, "no row", "nobody"
  InitialOffer,    \* class_subjects at the start
  InitialLimit     \* subjects.student_limit at the start

EnrollmentRow == [student : Students, class : Classes]

ASSUME SeatDbAssumption ==
  /\ IsFiniteSet(EnrollmentIds)
  /\ None \notin Students \cup EnrollmentIds \cup Classes \cup Subjects \cup Sessions
  /\ None \notin EnrollmentRow
  /\ InitialOffer \in [Classes -> SUBSET Subjects]
  /\ InitialLimit \in [Subjects -> Nat \ {0}]

VARIABLES
  row,       \* enrollments: id -> [student, class], or None
  picks,     \* subject_enrollments: id -> the subjects picked
  subjects,  \* the subjects rows that exist
  classes,   \* the classes rows that exist
  offered,   \* class_subjects
  limit,     \* subjects.student_limit
  count,     \* subjects.student_count, committed
  draft,     \* subjects.student_count as the holder of the row sees it
  lock,      \* subjects: the session holding the row, or None
  todo       \* the subjects rows a session's current loop has yet to UPDATE

rosterVars  == <<row, picks>>
catalogVars == <<subjects, classes, offered, limit>>
seatVars    == <<count, draft, lock, todo>>
dbVars      == <<rosterVars, catalogVars, seatVars>>

DbTypeOK ==
  /\ row \in [EnrollmentIds -> EnrollmentRow \cup {None}]
  /\ picks \in [EnrollmentIds -> SUBSET Subjects]
  /\ subjects \subseteq Subjects
  /\ classes \subseteq Classes
  /\ offered \in [Classes -> SUBSET Subjects]
  /\ limit \in [Subjects -> Nat \ {0}]
  /\ count \in [Subjects -> Nat]
  /\ draft \in [Subjects -> Nat]
  /\ lock \in [Subjects -> Sessions \cup {None}]
  /\ todo \in [Sessions -> SUBSET Subjects]

DbInit ==
  /\ row = [e \in EnrollmentIds |-> None]
  /\ picks = [e \in EnrollmentIds |-> {}]
  /\ subjects = Subjects
  /\ classes = Classes
  /\ offered = InitialOffer
  /\ limit = InitialLimit
  /\ count = [s \in Subjects |-> 0]
  /\ draft = [s \in Subjects |-> 0]
  /\ lock = [s \in Subjects |-> None]
  /\ todo = [w \in Sessions |-> {}]

-----------------------------------------------------------------------------
(* Mutants: what a plausible slip would make of the definitions below.     *)

StudentTaken_Never(st) == FALSE
RollbackSeats_KeepsDraft(w) ==
  /\ lock' = [s \in Subjects |-> IF lock[s] = w THEN None ELSE lock[s]]
  /\ todo' = [todo EXCEPT ![w] = {}]
  /\ UNCHANGED <<count, draft>>
OnWaitCycle_Never(w) == FALSE
SeatFree_AnyRow(s) == draft[s] < limit[s]

-----------------------------------------------------------------------------
(* Queries.                                                                *)

\* The rows subjects.student_count is a cache of.
Takers(s) == {e \in EnrollmentIds : s \in picks[e]}

EnrolledIn(c) == {e \in EnrollmentIds : row[e] # None /\ row[e].class = c}

StudentTaken(st) == \E e \in EnrollmentIds : row[e] # None /\ row[e].student = st

-----------------------------------------------------------------------------
(* subjects rows: constraints and row locks.                               *)

\* The three CHECK constraints; a count is never negative here.
CheckHolds(n, l) == n <= l /\ l > 0

RowFree(w, s) == lock[s] \in {None, w}

\* w waits for v: the row w's UPDATE is about to touch is v's.
WaitsFor(w, v) == \E s \in todo[w] : w # v /\ lock[s] = v

\* PostgreSQL's deadlock detector: w is on a cycle of waiting sessions.
OnWaitCycle(w) ==
  \E cycle \in SUBSET Sessions :
    /\ w \in cycle
    /\ \E next \in [cycle -> cycle] :
         /\ \A u, v \in cycle : next[u] = next[v] => u = v
         /\ \A u \in cycle : WaitsFor(u, next[u])

-----------------------------------------------------------------------------
(* capacity.claim_seat and capacity.release_seat, and the end of a         *)
(* transaction, as far as the subjects rows are concerned.                 *)

SeatFree(s) == s \in subjects /\ draft[s] < limit[s]

ReleasedFrom(n) == IF n > 0 THEN n - 1 ELSE 0

\* UPDATE subjects SET student_count = n, leaving `rest' still to do.
WriteCount(w, s, n, rest) ==
  /\ RowFree(w, s)
  /\ CheckHolds(n, limit[s])
  /\ draft' = [draft EXCEPT ![s] = n]
  /\ lock' = [lock EXCEPT ![s] = w]
  /\ todo' = [todo EXCEPT ![w] = rest]
  /\ UNCHANGED <<rosterVars, catalogVars, count>>

\* An UPDATE whose WHERE finds no row: it locks nothing.
SkipCount(w, rest) ==
  /\ todo' = [todo EXCEPT ![w] = rest]
  /\ UNCHANGED <<rosterVars, catalogVars, count, draft, lock>>

ClaimSeat(w, s, rest) ==
  /\ SeatFree(s)
  /\ WriteCount(w, s, draft[s] + 1, rest)

\* The UPDATE returned no row: claim_seat raises Conflict.
SeatRefused(w, s) == RowFree(w, s) /\ ~SeatFree(s)

ReleaseSeat(w, s, rest) ==
  IF s \in subjects
  THEN WriteCount(w, s, ReleasedFrom(draft[s]), rest)
  ELSE SkipCount(w, rest)

CommitSeats(w) ==
  /\ count' = [s \in Subjects |-> IF lock[s] = w THEN draft[s] ELSE count[s]]
  /\ lock' = [s \in Subjects |-> IF lock[s] = w THEN None ELSE lock[s]]
  /\ todo' = [todo EXCEPT ![w] = {}]
  /\ UNCHANGED draft

RollbackSeats(w) ==
  /\ draft' = [s \in Subjects |-> IF lock[s] = w THEN count[s] ELSE draft[s]]
  /\ lock' = [s \in Subjects |-> IF lock[s] = w THEN None ELSE lock[s]]
  /\ todo' = [todo EXCEPT ![w] = {}]
  /\ UNCHANGED count

Rollback(w) == RollbackSeats(w) /\ UNCHANGED <<rosterVars, catalogVars>>

-----------------------------------------------------------------------------
(* Properties of the tables.                                               *)

\* The cached counter stays inside 0..student_limit whatever the requests do
\* (db/models/subject.py: the CHECKs are "the database's own backstop").
CountWithinLimit == \A s \in Subjects : count[s] <= limit[s]

\* An uncommitted counter exists only in the hands of the session that holds
\* the row, and it too is inside the limit.
DraftsAreLocked ==
  \A s \in Subjects : /\ draft[s] <= limit[s]
                      /\ lock[s] = None => draft[s] = count[s]

\* student_count is the number of rows it caches (cli/reconcile_counts.py:
\* "It should never drift").
BooksBalance == \A s \in subjects : count[s] = Cardinality(Takers(s))

\* No subject has more takers than seats (db/models/subject.py: "a conditional
\* UPDATE that cannot overbook").
NoOverbooking == \A s \in subjects : Cardinality(Takers(s)) <= limit[s]

\* Every pick is a subject the student's class runs
\* (db/models/enrollment.py: "checked ... on every write that can break it").
PicksOffered ==
  \A e \in EnrollmentIds : row[e] # None => picks[e] \subseteq offered[row[e].class]

\* UNIQUE(student_id): a student is enrolled in at most one class, however
\* many enrol requests race past the service's own check.
OneClassPerStudent ==
  \A e, f \in EnrollmentIds :
    (row[e] # None /\ row[f] # None /\ row[e].student = row[f].student) => e = f

\* Foreign keys: a pick belongs to an enrollment and names a subject that
\* exist, and an enrollment names a class that exists, whatever is deleted
\* between a service's check and its flush.
NothingDangles ==
  \A e \in EnrollmentIds :
    /\ picks[e] # {} => row[e] # None
    /\ picks[e] \subseteq subjects
    /\ row[e] # None => row[e].class \in classes

\* Foreign keys of class_subjects: a class is taught what exists, and only if
\* it exists itself, whatever another administrator deletes meanwhile.
LinksExist ==
  \A c \in Classes : offered[c] \subseteq subjects /\ (offered[c] # {} => c \in classes)

\* No row refers to one that is gone, whatever is enrolled, attached and deleted
\* at once (db/models/enrollment.py:43-47, :85-89; subject.py:36-41).
ReferencesHold == NothingDangles /\ LinksExist
=============================================================================
