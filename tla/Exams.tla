------------------------------- MODULE Exams -------------------------------
(***************************************************************************)
(* Exams, their papers and the marks on them (app/services/exams.py behind *)
(* app/api/v1/exams.py) as concurrent requests, each a transaction that    *)
(* runs one SQL statement per step:                                        *)
(*                                                                         *)
(*   create   class -> offer -> commit                                     *)
(*   total    paper -> highest -> commit                                   *)
(*   marks    paper -> member -> takers -> commit                          *)
(*   delete   exam -> commit                                               *)
(*                                                                         *)
(* Meanwhile students take subjects up and drop them, the office changes   *)
(* what a class runs, who teaches a subject and whose account is whose,    *)
(* and deletes classes and subjects.  A paper is a pair of an exam and a   *)
(* subject.  A request whose first statement finds nothing (404) changes   *)
(* nothing and is left out.                                                *)
(***************************************************************************)
EXTENDS Naturals

CONSTANTS
  Students, Classes, Subjects, Faculty, Exams,
  Requests,       \* requests in flight, each sent by a user of its own
  Office,         \* the users that hold marks:update_any
  Linkable,       \* bound: the users whose accounts get linked to a personnel record
  ExamOps,        \* the endpoints exercised
  Batches,        \* mark lists a client may send: student -> answer
  MarkIds,        \* primary keys of marks
  MaxTotal,       \* bound: the highest total of a paper
  Nothing         \* NULL, and no row

Scores == 0 .. MaxTotal + 1
\* What a client says of a student: a score, absent, or neither, which clears.
Answers == {[obtained |-> n, absent |-> FALSE] : n \in Scores \cup {Nothing}}
           \cup {[obtained |-> Nothing, absent |-> TRUE]}
Clear == [obtained |-> Nothing, absent |-> FALSE]
Mark == [id : MarkIds, obtained : Scores \cup {Nothing}, absent : BOOLEAN, by : Requests]

ASSUME ExamsAssumption ==
  /\ Office \subseteq Requests /\ Linkable \subseteq Requests
  /\ ExamOps \subseteq {"create", "total", "marks", "delete"}
  /\ \A b \in Batches : DOMAIN b \subseteq Students /\ \A st \in DOMAIN b : b[st] \in Answers
  /\ MaxTotal \in Nat \ {0}
  /\ Nothing \notin Scores \cup MarkIds \cup Mark \cup Classes \cup Requests
  \* There are more primary keys than the other requests can remember.
  /\ \A w \in Requests : \A read \in [Requests \ {w} -> MarkIds \cup {Nothing}] :
       \E i \in MarkIds : \A v \in Requests \ {w} : read[v] # i

VARIABLES
  classes, subjects,   \* rows that exist
  offered,             \* class_subjects: what each class runs
  takers,              \* subject_enrollments: the students of each subject
  teacher,             \* subjects.teacher_id
  account,             \* faculty.user_id
  took, taught, linked,\* history: every taker, teacher and account there ever was
  exam,                \* exams: the class that sits it
  total,               \* exam_subjects: the total of a paper, 0 when there is none
  mark,                \* exam_marks
  pc, job, view        \* requests: the next statement, what is asked, what was read

collegeVars == <<classes, subjects, offered, takers, teacher, account, took, taught, linked>>
examVars == <<exam, total, mark>>
requestVars == <<pc, job, view>>
vars == <<collegeVars, examVars, requestVars>>

NoMarks == [st \in Students |-> Nothing]
NoJob == [op |-> "none", class |-> Nothing, wanted |-> {}, exam |-> Nothing,
          subject |-> Nothing, total |-> 0, batch |-> NoMarks]
NoView == [papers |-> {}, total |-> 0, teacher |-> Nothing, marks |-> NoMarks]

Jobs ==
  LET Asks(op, class, wanted, e, s, t, b) ==
        [op : {op}, class : class, wanted : wanted, exam : e, subject : s, total : t, batch : b] IN
  {NoJob}
  \cup Asks("create", Classes, {{}} \cup {{s} : s \in Subjects}, {Nothing}, {Nothing}, 1 .. MaxTotal, {NoMarks})
  \cup Asks("total", {Nothing}, {{}}, Exams, Subjects, 1 .. MaxTotal, {NoMarks})
  \cup Asks("marks", {Nothing}, {{}}, Exams, Subjects, {0}, Batches)
  \cup Asks("delete", {Nothing}, {{}}, Exams, {Nothing}, {0}, {NoMarks})

\* The columns and the requests hold what their types allow.
ExamsTypeOK ==
  /\ classes \subseteq Classes /\ subjects \subseteq Subjects
  /\ offered \in [Classes -> SUBSET Subjects]
  /\ takers \in [Subjects -> SUBSET Students]
  /\ teacher \in [Subjects -> Faculty \cup {Nothing}]
  /\ account \in [Faculty -> Requests \cup {Nothing}]
  /\ took \subseteq Students \X Subjects
  /\ taught \subseteq Subjects \X Faculty
  /\ linked \subseteq Faculty \X Requests
  /\ exam \in [Exams -> Classes \cup {Nothing}]
  /\ total \in [Exams -> [Subjects -> 0 .. MaxTotal]]
  /\ mark \in [Exams -> [Subjects -> [Students -> Mark \cup {Nothing}]]]
  /\ pc \in [Requests -> {"idle", "offer", "highest", "member", "takers", "commit"}]
  /\ job \in [Requests -> Jobs]
  /\ view \in [Requests -> [papers : SUBSET Subjects, total : 0 .. MaxTotal,
                            teacher : Faculty \cup {Nothing},
                            marks : [Students -> Mark \cup {Nothing}]]]

Init ==
  /\ classes = Classes /\ subjects = Subjects
  /\ offered = [c \in Classes |-> {}]
  /\ takers = [s \in Subjects |-> {}]
  /\ teacher = [s \in Subjects |-> Nothing]
  /\ account = [f \in Faculty |-> Nothing]
  /\ took = {} /\ taught = {} /\ linked = {}
  /\ exam = [e \in Exams |-> Nothing]
  /\ total = [e \in Exams |-> [s \in Subjects |-> 0]]
  /\ mark = [e \in Exams |-> [s \in Subjects |-> NoMarks]]
  /\ pc = [w \in Requests |-> "idle"]
  /\ job = [w \in Requests |-> NoJob]
  /\ view = [w \in Requests |-> NoView]

-----------------------------------------------------------------------------
(* Mutants of what comes below.                                            *)

Recognised_Blank(w) ==
  \E f \in Faculty \cup {Nothing} :
    /\ f = view[w].teacher
    /\ f = IF \E g \in Faculty : account[g] = w THEN CHOOSE g \in Faculty : account[g] = w ELSE Nothing
MarksAllowed_NoRoster(w) == TRUE
RowsExist_NoForeignKey(w) == TRUE
Fits_NoCheck(row) == TRUE

-----------------------------------------------------------------------------
(* The college around the exams: transactions of other services, each as   *)
(* one step.                                                               *)

TakeUp(st, s) ==
  /\ s \in subjects
  /\ takers' = [takers EXCEPT ![s] = @ \cup {st}]
  /\ took' = took \cup {<<st, s>>}
  /\ UNCHANGED <<classes, subjects, offered, teacher, account, taught, linked, examVars, requestVars>>

Drop(st, s) ==
  /\ takers' = [takers EXCEPT ![s] = @ \ {st}]
  /\ UNCHANGED <<classes, subjects, offered, teacher, account, took, taught, linked, examVars, requestVars>>

\* A class begins or ceases to run a subject.
Run(c, s) ==
  /\ c \in classes /\ s \in subjects
  /\ \/ offered' = [offered EXCEPT ![c] = @ \cup {s}]
     \/ offered' = [offered EXCEPT ![c] = @ \ {s}]
  /\ UNCHANGED <<classes, subjects, takers, teacher, account, took, taught, linked, examVars, requestVars>>

AssignTeacher(s, f) ==
  /\ s \in subjects
  /\ teacher' = [teacher EXCEPT ![s] = f]
  /\ taught' = IF f = Nothing THEN taught ELSE taught \cup {<<s, f>>}
  /\ UNCHANGED <<classes, subjects, offered, takers, account, took, linked, examVars, requestVars>>

\* faculty.user_id is unique.
LinkAccount(f, u) ==
  /\ u # Nothing => \A g \in Faculty : account[g] # u
  /\ account' = [account EXCEPT ![f] = u]
  /\ linked' = IF u = Nothing THEN linked ELSE linked \cup {<<f, u>>}
  /\ UNCHANGED <<classes, subjects, offered, takers, teacher, took, taught, examVars, requestVars>>

\* count_for_subject and count_for_class.
PapersOn(s) == {e \in Exams : total[e][s] # 0}
ExamsOf(c) == {e \in Exams : exam[e] = c}

\* Refused while a student takes the subject or a paper was set on it.
DeleteSubject(s) ==
  /\ s \in subjects
  /\ takers[s] = {}
  /\ PapersOn(s) = {}
  /\ subjects' = subjects \ {s}
  /\ offered' = [c \in Classes |-> offered[c] \ {s}]
  /\ teacher' = [teacher EXCEPT ![s] = Nothing]
  /\ UNCHANGED <<classes, takers, account, took, taught, linked, examVars, requestVars>>

\* Refused while an exam was set for the class.
DeleteClass(c) ==
  /\ c \in classes
  /\ ExamsOf(c) = {}
  /\ classes' = classes \ {c}
  /\ offered' = [offered EXCEPT ![c] = {}]
  /\ UNCHANGED <<subjects, takers, teacher, account, took, taught, linked, examVars, requestVars>>

-----------------------------------------------------------------------------
(* Bookkeeping of one request.                                             *)

At(w, op, label) == pc[w] = label /\ job[w].op = op
Goto(w, label) == pc' = [pc EXCEPT ![w] = label]

Finish(w) == /\ pc' = [pc EXCEPT ![w] = "idle"]
             /\ job' = [job EXCEPT ![w] = NoJob]
             /\ view' = [view EXCEPT ![w] = NoView]
             /\ UNCHANGED collegeVars

Fail(w) == Finish(w) /\ UNCHANGED examVars
Proceed(w, label) == Goto(w, label) /\ UNCHANGED <<collegeVars, examVars, job, view>>

\* A request arrives and runs its first statement.
Begin(w, j, label) ==
  /\ pc[w] = "idle"
  /\ j.op \in ExamOps
  /\ job' = [job EXCEPT ![w] = j]
  /\ Goto(w, label)
  /\ UNCHANGED <<collegeVars, examVars>>

Paper(w) == total[job[w].exam][job[w].subject]
PaperMarks(w) == mark[job[w].exam][job[w].subject]

-----------------------------------------------------------------------------
(* POST /exams                                                             *)

\* wanted is the subject of a single-subject exam, or empty for all of them.
FindClass(w) == \E c \in classes, wanted \in {{}} \cup {{s} : s \in Subjects}, t \in 1 .. MaxTotal :
  /\ Begin(w, [NoJob EXCEPT !.op = "create", !.class = c, !.wanted = wanted, !.total = t], "offer")
  /\ UNCHANGED view

\* The papers are written down as the class's offer reads now.
ReadOffer(w) ==
  LET offer == offered[job[w].class]
      papers == IF job[w].wanted = {} THEN offer ELSE job[w].wanted IN
  /\ At(w, "create", "offer")
  /\ IF papers = {} \/ ~ papers \subseteq offer
       THEN Fail(w)
       ELSE /\ view' = [view EXCEPT ![w].papers = papers]
            /\ Goto(w, "commit")
            /\ UNCHANGED <<collegeVars, examVars, job>>

\* The foreign keys to classes and subjects.
RowsExist(w) == job[w].class \in classes /\ view[w].papers \subseteq subjects

CommitExam(w) ==
  /\ At(w, "create", "commit")
  /\ IF RowsExist(w)
       THEN \E e \in Exams :
              /\ exam[e] = Nothing /\ \A v \in Requests : job[v].exam # e
              /\ exam' = [exam EXCEPT ![e] = job[w].class]
              /\ total' = [total EXCEPT ![e] =
                             [s \in Subjects |-> IF s \in view[w].papers THEN job[w].total ELSE 0]]
              /\ UNCHANGED mark
              /\ Finish(w)
       ELSE Fail(w)

-----------------------------------------------------------------------------
(* PATCH /exams/papers/{id}                                                *)

FindPaper(w) == \E e \in Exams, s \in Subjects, t \in 1 .. MaxTotal :
  /\ total[e][s] # 0
  /\ Begin(w, [NoJob EXCEPT !.op = "total", !.exam = e, !.subject = s, !.total = t], "highest")
  /\ view' = [view EXCEPT ![w].total = total[e][s]]

\* The scores entered on the paper: SELECT max(obtained).
Highest(w) ==
  {PaperMarks(w)[st].obtained : st \in {st \in Students : PaperMarks(w)[st] # Nothing}} \ {Nothing}

ReadHighest(w) ==
  /\ At(w, "total", "highest")
  /\ IF \E n \in Highest(w) : n > job[w].total THEN Fail(w) ELSE Proceed(w, "commit")

\* No UPDATE when the total is the one loaded; an error when the row is gone.
CommitTotal(w) ==
  /\ At(w, "total", "commit")
  /\ IF job[w].total # view[w].total /\ Paper(w) # 0
       THEN /\ total' = [total EXCEPT ![job[w].exam][job[w].subject] = job[w].total]
            /\ UNCHANGED <<exam, mark>>
            /\ Finish(w)
       ELSE Fail(w)

-----------------------------------------------------------------------------
(* PUT /exams/papers/{id}/marks                                            *)

\* get_exam_subject loads the paper, its subject's teacher and its marks.
FindMarks(w) == \E e \in Exams, s \in Subjects, b \in Batches :
  /\ total[e][s] # 0
  /\ Begin(w, [NoJob EXCEPT !.op = "marks", !.exam = e, !.subject = s, !.batch = b],
           IF w \in Office THEN "takers" ELSE "member")
  /\ view' = [view EXCEPT ![w] = [@ EXCEPT !.total = total[e][s], !.teacher = teacher[s],
                                           !.marks = mark[e][s]]]

\* The subject has a teacher, and the caller's account is that teacher's.
Recognised(w) == view[w].teacher # Nothing /\ account[view[w].teacher] = w

ReadMember(w) ==
  /\ At(w, "marks", "member")
  /\ IF Recognised(w) THEN Proceed(w, "takers") ELSE Fail(w)

\* Everyone named takes the subject, and no score is above the loaded total.
MarksAllowed(w) ==
  /\ DOMAIN job[w].batch \subseteq takers[job[w].subject]
  /\ \A st \in DOMAIN job[w].batch :
       job[w].batch[st].obtained # Nothing => job[w].batch[st].obtained <= view[w].total

ReadTakers(w) ==
  /\ At(w, "marks", "takers")
  /\ IF MarksAllowed(w) THEN Proceed(w, "commit") ELSE Fail(w)

Named(w) == {st \in DOMAIN job[w].batch : job[w].batch[st] # Clear}

SeenRowStays(w, st) == /\ PaperMarks(w)[st] # Nothing
                       /\ PaperMarks(w)[st].id = view[w].marks[st].id
Removed(w) == {st \in DOMAIN job[w].batch \ Named(w) :
                 view[w].marks[st] # Nothing /\ SeenRowStays(w, st)}

FreshMark(st) == CHOOSE i \in MarkIds :
  \A w \in Requests : view[w].marks[st] # Nothing => view[w].marks[st].id # i

\* An UPDATE writes the columns whose value differs from the one loaded.
Written(w, st) ==
  LET asked == job[w].batch[st]
      seen == view[w].marks[st]
      stored == PaperMarks(w)[st] IN
  IF seen = Nothing
    THEN [id |-> FreshMark(st), obtained |-> asked.obtained, absent |-> asked.absent, by |-> w]
    ELSE [id |-> seen.id,
          obtained |-> IF asked.obtained # seen.obtained THEN asked.obtained ELSE stored.obtained,
          absent |-> IF asked.absent # seen.absent THEN asked.absent ELSE stored.absent,
          by |-> IF w # seen.by THEN w ELSE stored.by]

\* CHECK ck_exam_marks_absent_or_score.
Fits(row) == ~ (row.absent /\ row.obtained # Nothing)

\* The row to update is there, the row to insert is not, the paper is there.
MayWrite(w) ==
  /\ Paper(w) # 0
  /\ \A st \in Named(w) : IF view[w].marks[st] = Nothing THEN PaperMarks(w)[st] = Nothing
                          ELSE SeenRowStays(w, st)
  /\ \A st \in Named(w) : Fits(Written(w, st))

CommitMarks(w) ==
  /\ At(w, "marks", "commit")
  /\ IF MayWrite(w)
       THEN /\ mark' = [mark EXCEPT ![job[w].exam][job[w].subject] =
                  [st \in Students |-> IF st \in Named(w) THEN Written(w, st)
                                       ELSE IF st \in Removed(w) THEN Nothing ELSE @[st]]]
            /\ UNCHANGED <<exam, total>>
            /\ Finish(w)
       ELSE Fail(w)

-----------------------------------------------------------------------------
(* DELETE /exams/{id}: papers and marks cascade.                           *)

FindExam(w) == \E e \in Exams :
  /\ exam[e] # Nothing
  /\ Begin(w, [NoJob EXCEPT !.op = "delete", !.exam = e], "commit")
  /\ UNCHANGED view

CommitDelete(w) ==
  /\ At(w, "delete", "commit")
  /\ exam' = [exam EXCEPT ![job[w].exam] = Nothing]
  /\ total' = [total EXCEPT ![job[w].exam] = [s \in Subjects |-> 0]]
  /\ mark' = [mark EXCEPT ![job[w].exam] = [s \in Subjects |-> NoMarks]]
  /\ Finish(w)

-----------------------------------------------------------------------------
RequestStep(w) ==
  \/ FindClass(w) \/ ReadOffer(w) \/ CommitExam(w)
  \/ FindPaper(w) \/ ReadHighest(w) \/ CommitTotal(w)
  \/ FindMarks(w) \/ ReadMember(w) \/ ReadTakers(w) \/ CommitMarks(w)
  \/ FindExam(w) \/ CommitDelete(w)

CollegeStep ==
  \/ \E s \in Subjects : \/ DeleteSubject(s)
                         \/ \E st \in Students : TakeUp(st, s) \/ Drop(st, s)
                         \/ \E c \in Classes : Run(c, s)
                         \/ \E f \in Faculty \cup {Nothing} : AssignTeacher(s, f)
  \/ \E f \in Faculty, u \in Linkable \cup {Nothing} : LinkAccount(f, u)
  \/ \E c \in Classes : DeleteClass(c)

Next == CollegeStep \/ \E w \in Requests : RequestStep(w)

Spec == Init /\ [][Next]_vars

-----------------------------------------------------------------------------
(* Properties.                                                             *)

\* Whatever columns two overlapping saves write, a mark says one thing: a score
\* or that the student was absent, never both and never neither
\* (app/db/models/exam.py:114-115, :122-125; app/services/exams.py:340-357).
MarkSaysOneThing ==
  \A e \in Exams, s \in Subjects, st \in Students :
    LET m == mark[e][s][st] IN m # Nothing => (m.absent <=> m.obtained = Nothing)

\* A mark's author is the office, or somebody whose account was that of a
\* teacher of the subject (app/services/exams.py:162-189).
MarkedByTeacher ==
  \A e \in Exams, s \in Subjects, st \in Students :
    LET m == mark[e][s][st] IN
    m # Nothing => \/ m.by \in Office
                   \/ \E f \in Faculty : <<s, f>> \in taught /\ <<f, m.by>> \in linked

\* Marks are given to students who took the subject up, on a paper that exists
\* (app/services/exams.py:316-324).
MarksOfTakers ==
  \A e \in Exams, s \in Subjects, st \in Students :
    mark[e][s][st] # Nothing => total[e][s] # 0 /\ <<st, s>> \in took

\* An exam's class and the subjects of its papers exist, though classes and
\* subjects are deleted while an exam is being set
\* (app/services/exams.py:221-256, :363-380).
PapersStand ==
  /\ \A e \in Exams : exam[e] # Nothing => exam[e] \in classes
  /\ \A e \in Exams, s \in Subjects : total[e][s] # 0 => exam[e] # Nothing /\ s \in subjects

\* No mark is above its paper's total: a total is not lowered below a mark
\* already entered (app/services/exams.py:279-280).
MarksWithinTotal ==
  \A e \in Exams, s \in Subjects, st \in Students :
    LET m == mark[e][s][st] IN
    m # Nothing /\ m.obtained # Nothing => m.obtained <= total[e][s]
=============================================================================
