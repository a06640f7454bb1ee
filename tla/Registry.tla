------------------------------ MODULE Registry ------------------------------
(***************************************************************************)
(* The records everything else refers to: programs and their classes,      *)
(* faculty and the subjects they teach, batches and their students         *)
(* (services/programs.py, classes.py, faculty.py, subjects.py, sessions.py *)
(* and students.py behind the routers of the same names).                  *)
(*                                                                         *)
(* Every create, update and delete reads what it needs to refuse politely  *)
(* and commits later; between the two any other request may run.  A        *)
(* request's consecutive reads are one step, and a request refused by what *)
(* it reads changes nothing and is left out.  A row keeps one of its       *)
(* unique columns (key) and the row it refers to (ref).                    *)
(***************************************************************************)
EXTENDS Naturals

CONSTANTS
  Rows,        \* uuids
  TableOf,     \* the table a uuid is drawn for
  Keys,        \* names, codes, employee numbers, e-mails, years
  Typed,       \* the keys a client sends
  Lower,       \* the same in lower case
  Strip,       \* the same without the blanks around it
  Offices,     \* the sets of tables that refer to each other
  Requests,
  None

Tables == {"program", "class", "faculty", "subject", "batch", "student"}
\* The table a row refers to; "none" for the tables that are referred to.
Parent == [program |-> "none", class |-> "program", faculty |-> "none",
           subject |-> "faculty", batch |-> "none", student |-> "batch"]
\* A subject may have no teacher.
NullableRef == {"subject"}

\* A row: one unique column, the row referred to, and a roll number (the next one
\* to give, in a batch).
Record == [key : Keys \cup {None}, ref : Rows \cup {None}, seq : Nat]

ASSUME RegistryAssumption ==
  /\ TableOf \in [Rows -> Tables]
  /\ Typed \subseteq Keys
  /\ Lower \in [Keys -> Keys] /\ Strip \in [Keys -> Keys]
  /\ Offices \subseteq SUBSET Tables
  /\ None \notin Rows \cup Keys /\ None \notin Record

VARIABLES
  office,    \* the tables in use: those of other offices share no constraint
  row,       \* the committed rows
  job,       \* what a request has read and wants to write
  overlap    \* history: somebody committed since the request read

vars == <<office, row, job, overlap>>

NoJob == [op |-> "none", row |-> None, was |-> None, new |-> None]

Present(r) == row[r] # None
Of(t) == {r \in Rows : TableOf[r] = t /\ Present(r)}
Children(r) == {c \in Rows : Present(c) /\ row[c].ref = r}

RegistryTypeOK ==
  /\ office \in Offices
  /\ row \in [Rows -> Record \cup {None}]
  /\ overlap \in [Requests -> BOOLEAN]
  /\ job \in [Requests -> [op : {"none", "create", "admit", "number", "update", "delete"},
                           row : Rows \cup {None}, was : Record \cup {None},
                           new : Record \cup {None}]]

Init ==
  /\ office \in Offices
  /\ row = [r \in Rows |-> None]
  /\ job = [w \in Requests |-> NoJob]
  /\ overlap = [w \in Requests |-> FALSE]

-----------------------------------------------------------------------------
(* Mutants of what comes below.                                            *)

SlotFree_ExactCase(r, new) == \A s \in Of(TableOf[r]) \ {r} : row[s].key # new.key
HasNoChildren_Always(r) == TRUE
Fail_BurnsNumber(w) ==
  /\ row' = IF job[w].op = "number" THEN [row EXCEPT ![job[w].new.ref].seq = @ + 1] ELSE row
  /\ job' = [job EXCEPT ![w] = NoJob]
  /\ overlap' = [overlap EXCEPT ![w] = FALSE]
  /\ UNCHANGED office

-----------------------------------------------------------------------------
(* Keys.                                                                   *)

\* What a request checks.  The schemas trim names; an employee number is checked
\* as typed, an e-mail in lower case; a year has no case.
Checked(t, k) == IF k = None THEN None
                 ELSE CASE t \in {"program", "class", "subject"} -> Strip[k]
                        [] t = "student" -> Lower[k]
                        [] OTHER -> k
\* What it writes: only the creation of a faculty member trims the number.
Stored(op, t, k) == IF t = "faculty" /\ op = "create" THEN Strip[k] ELSE Checked(t, k)
Folded(t, k) == IF t = "batch" THEN k ELSE Lower[k]

\* Rows collide within a table; classes within a program.
SameSpace(t, a, b) == t = "class" => a.ref = b.ref

\* _assert_unique: no other row has the key in any case.
SlotFree(r, new) ==
  LET t == TableOf[r] IN
  new.key # None =>
    \A s \in Of(t) \ {r} : row[s].key # None /\ SameSpace(t, row[s], new)
                             => Folded(t, row[s].key) # Folded(t, new.key)

\* The UNIQUE constraints, which see the case; a roll number names its batch.
MayKeep(r, new) ==
  \A s \in Of(TableOf[r]) \ {r} :
    /\ new.key = None \/ row[s].key # new.key \/ ~ SameSpace(TableOf[r], row[s], new)
    /\ TableOf[r] = "student" => row[s].ref # new.ref \/ row[s].seq # new.seq

\* The row referred to exists: the look-up, and the foreign key at the commit.
RefExists(t, new) == IF new.ref = None THEN t \in NullableRef \/ Parent[t] = "none"
                     ELSE Present(new.ref) /\ TableOf[new.ref] = Parent[t]

-----------------------------------------------------------------------------
(* Bookkeeping of one request.                                             *)

Idle(w) == job[w] = NoJob

Begin(w, j) ==
  /\ job' = [job EXCEPT ![w] = j]
  /\ UNCHANGED <<office, row, overlap>>

Commit(w, rows) ==
  /\ row' = rows
  /\ job' = [job EXCEPT ![w] = NoJob]
  /\ overlap' = [v \in Requests |-> v # w /\ job[v] # NoJob]
  /\ UNCHANGED office

\* An error, or the client going away: nothing is written.
Fail(w) ==
  /\ job' = [job EXCEPT ![w] = NoJob]
  /\ overlap' = [overlap EXCEPT ![w] = FALSE]
  /\ UNCHANGED <<office, row>>

Abort(w) == ~ Idle(w) /\ Fail(w)

\* A row to be inserted: a uuid no request has drawn.
Fresh(t) == {r \in Rows : /\ TableOf[r] = t /\ ~ Present(r)
                          /\ \A v \in Requests : job[v].row # r}
\* The next roll number of a new batch; 0 where there is no number.
FreshSeq(t) == IF t = "batch" THEN 1 ELSE 0

-----------------------------------------------------------------------------
(* Creating.                                                               *)

\* A handler reads what it refuses on: the row referred to, and the rows it
\* would collide with.
ReadForCreate(w, t, keys, parents) ==
  /\ Idle(w) /\ t \in office
  /\ \E r \in Fresh(t), k \in keys, p \in parents :
       LET checked == [key |-> Checked(t, k), ref |-> p, seq |-> FreshSeq(t)] IN
       /\ RefExists(t, checked)
       /\ SlotFree(r, checked)
       /\ Begin(w, [op |-> IF t = "student" THEN "admit" ELSE "create", row |-> r,
                    was |-> None, new |-> [checked EXCEPT !.key = Stored("create", t, k)]])

CreateProgram(w) == ReadForCreate(w, "program", Typed, {None})
CreateClass(w) == ReadForCreate(w, "class", Typed, Of("program"))
CreateMember(w) == ReadForCreate(w, "faculty", Typed, {None})
CreateSubject(w) == ReadForCreate(w, "subject", Typed, Of("faculty") \cup {None})
CreateSession(w) == ReadForCreate(w, "batch", Typed, {None})
\* A student may have no e-mail.
CreateStudent(w) == ReadForCreate(w, "student", Typed \cup {None}, Of("batch"))

\* The counter row of a batch is locked until the admission ends.
BatchFree(b) == \A v \in Requests : job[v].op = "number" => job[v].new.ref # b

\* allocate_roll_no: UPDATE ... RETURNING of the batch's counter.
Allocate(w) ==
  LET b == job[w].new.ref IN
  /\ job[w].op = "admit"
  /\ BatchFree(b)
  /\ job' = [job EXCEPT ![w] = [@ EXCEPT !.op = "number", !.new.seq = row[b].seq]]
  /\ UNCHANGED <<office, row, overlap>>

CommitCreate(w) ==
  LET r == job[w].row IN
  /\ job[w].op = "create"
  /\ IF RefExists(TableOf[r], job[w].new) /\ MayKeep(r, job[w].new)
       THEN Commit(w, [row EXCEPT ![r] = job[w].new])
       ELSE Fail(w)

\* What the counter says once the number is taken.
Numbered(w) == job[w].new.seq + 1

CommitAdmission(w) ==
  LET r == job[w].row
      b == job[w].new.ref IN
  /\ job[w].op = "number"
  /\ IF MayKeep(r, job[w].new)
       THEN Commit(w, [row EXCEPT ![r] = job[w].new, ![b].seq = Numbered(w)])
       ELSE Fail(w)

-----------------------------------------------------------------------------
(* Updating.                                                               *)

\* A class is checked for the pair of program and name it will end up with,
\* every other row only for a key that is sent.
ReadForUpdate(w, t, keys, parents) ==
  /\ Idle(w)
  /\ \E r \in Of(t) :
     \E k \in {row[r].key} \cup {Checked(t, typed) : typed \in keys}, p \in {row[r].ref} \cup parents :
       LET new == [row[r] EXCEPT !.key = k, !.ref = p] IN
       /\ new # row[r]
       /\ p # row[r].ref => RefExists(t, new)
       /\ t = "class" \/ k # row[r].key => SlotFree(r, new)
       /\ Begin(w, [op |-> "update", row |-> r, was |-> row[r], new |-> new])

UpdateProgram(w) == ReadForUpdate(w, "program", Typed, {})
UpdateClass(w) == ReadForUpdate(w, "class", Typed, Of("program"))
UpdateMember(w) == ReadForUpdate(w, "faculty", Typed, {})
UpdateSubject(w) == ReadForUpdate(w, "subject", Typed, Of("faculty") \cup {None})
\* A student stays in the batch they were admitted to.
UpdateStudent(w) == ReadForUpdate(w, "student", Typed \cup {None}, {})

\* Only the columns that differ from what was loaded are written.
Written(w) ==
  LET was == job[w].was
      new == job[w].new IN
  [row[job[w].row] EXCEPT !.key = IF new.key = was.key THEN @ ELSE new.key,
                          !.ref = IF new.ref = was.ref THEN @ ELSE new.ref]

\* The UPDATE of a row deleted meanwhile is an error.
CommitUpdate(w) ==
  LET r == job[w].row IN
  /\ job[w].op = "update"
  /\ IF Present(r) /\ RefExists(TableOf[r], Written(w)) /\ MayKeep(r, Written(w))
       THEN Commit(w, [row EXCEPT ![r] = Written(w)])
       ELSE Fail(w)

-----------------------------------------------------------------------------
(* Deleting.                                                               *)

\* The count of children before, and ON DELETE RESTRICT at the commit.
HasNoChildren(r) == Children(r) = {}

ReadForDelete(w, t) ==
  /\ Idle(w)
  /\ \E r \in Of(t) :
       /\ HasNoChildren(r)
       /\ Begin(w, [op |-> "delete", row |-> r, was |-> None, new |-> None])

DeleteProgram(w) == ReadForDelete(w, "program")
DeleteClass(w) == ReadForDelete(w, "class")
DeleteMember(w) == ReadForDelete(w, "faculty")
DeleteSubject(w) == ReadForDelete(w, "subject")

\* The DELETE of a row deleted meanwhile does nothing.
CommitDelete(w) ==
  LET r == job[w].row IN
  /\ job[w].op = "delete"
  /\ IF HasNoChildren(r) THEN Commit(w, [row EXCEPT ![r] = None]) ELSE Fail(w)

-----------------------------------------------------------------------------
RequestStep(w) ==
  \/ CreateProgram(w) \/ UpdateProgram(w) \/ DeleteProgram(w)
  \/ CreateClass(w) \/ UpdateClass(w) \/ DeleteClass(w)
  \/ CreateMember(w) \/ UpdateMember(w) \/ DeleteMember(w)
  \/ CreateSubject(w) \/ UpdateSubject(w) \/ DeleteSubject(w)
  \/ CreateSession(w)
  \/ CreateStudent(w) \/ UpdateStudent(w) \/ Allocate(w)
  \/ CommitCreate(w) \/ CommitAdmission(w) \/ CommitUpdate(w) \/ CommitDelete(w)
  \/ Abort(w)

Next == \E w \in Requests : RequestStep(w)

Spec == Init /\ [][Next]_vars

-----------------------------------------------------------------------------
(* Properties.                                                             *)

\* However creations, moves and deletions overlap, a class has its program, a
\* subject its teacher and a student their batch (services/programs.py:115-132,
\* faculty.py:180-203, models class_.py:32-37).
ReferencesStand ==
  \A r \in Rows : Present(r) => RefExists(TableOf[r], row[r])

\* The roll numbers of a batch are 1, 2, ... up to the next one to hand out, each
\* given once, however admissions overlap and whichever of them are rolled back
\* (services/sessions.py:59-81).
NumbersInOrder ==
  \A b \in Of("batch") :
    /\ \A r, s \in Children(b) : row[r].seq = row[s].seq => r = s
    /\ {row[r].seq : r \in Children(b)} = 1 .. (row[b].seq - 1)

\* Rows that should have been refused as equal: the same key in another case.
AreTwins(t, r, s) == /\ r # s /\ row[r].key # None /\ row[s].key # None
                     /\ SameSpace(t, row[r], row[s])
                     /\ Folded(t, row[r].key) = Folded(t, row[s].key)
Twins == UNION {{p \in Of(t) \X Of(t) : AreTwins(t, p[1], p[2])} : t \in office}

\* A member of the faculty is about to be created.
HiresFaculty(w) == TableOf[job[w].row] = "faculty" /\ job[w].op = "create"

\* The checks before a write are complete: twins appear only when somebody else
\* committed between a request's check and its write, or when a faculty member
\* is created, whose number is checked before it is trimmed
\* (_assert_unique of services/programs.py:57-75, classes.py:62-80,
\* subjects.py:72-90, students.py:99-117, faculty.py:133-137).
TwinsNeedOverlap ==
  [][Twins' \subseteq Twins
     \/ \E w \in Requests :
          job[w] # NoJob /\ job'[w] = NoJob /\ (overlap[w] \/ HiresFaculty(w))]_vars
=============================================================================
