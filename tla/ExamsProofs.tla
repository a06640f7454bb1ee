---------------------------- MODULE ExamsProofs ----------------------------
(***************************************************************************)
(* Theorems about Exams, for any students, classes, subjects, exams,       *)
(* members of faculty, requests, mark lists and totals.                    *)
(***************************************************************************)
EXTENDS Exams, TLAPS

-----------------------------------------------------------------------------
(* The inductive invariant.                                                *)

\* What the tables say now is on record.
HistoryKept ==
  /\ \A s \in Subjects : \A st \in takers[s] : <<st, s>> \in took
  /\ \A s \in Subjects : teacher[s] # Nothing => <<s, teacher[s]>> \in taught
  /\ \A f \in Faculty : account[f] # Nothing => <<f, account[f]>> \in linked

MayMark(w, s) == \/ w \in Office
                 \/ \E f \in Faculty : <<s, f>> \in taught /\ <<f, w>> \in linked

SaysOneThing(m) == m # Nothing => (m.absent <=> m.obtained = Nothing)

\* A request that enters marks read a teacher of the subject and marks that say
\* one thing; once past the check of its sender the sender may mark, and once
\* past the roster everyone it names took the subject.
MarksChecked(w) ==
  job[w].op = "marks" =>
    LET s == job[w].subject IN
    /\ view[w].teacher # Nothing => <<s, view[w].teacher>> \in taught
    /\ \A st \in Students : SaysOneThing(view[w].marks[st])
    /\ pc[w] \in {"takers", "commit"} => MayMark(w, s)
    /\ pc[w] = "commit" => \A st \in DOMAIN job[w].batch : <<st, s>> \in took

TablesStand == MarkSaysOneThing /\ MarkedByTeacher /\ MarksOfTakers /\ PapersStand

ExamsInv == ExamsTypeOK /\ TablesStand /\ HistoryKept /\ \A w \in Requests : MarksChecked(w)

-----------------------------------------------------------------------------
(* Jobs and what a request reads.                                          *)

Column == [Students -> Mark \cup {Nothing}]
View == [papers : SUBSET Subjects, total : 0 .. MaxTotal,
         teacher : Faculty \cup {Nothing}, marks : Column]
Labels == {"idle", "offer", "highest", "member", "takers", "commit"}

LEMMA JobShapes ==
  ASSUME ExamsAssumption, NEW j \in Jobs
  PROVE  /\ j.op \in {"none", "create", "total", "marks", "delete"}
         /\ j.op = "create" => j.class \in Classes /\ j.total \in 1 .. MaxTotal /\ j.wanted \subseteq Subjects
         /\ j.op = "total" => j.exam \in Exams /\ j.subject \in Subjects /\ j.total \in 1 .. MaxTotal
         /\ j.op = "marks" => /\ j.exam \in Exams /\ j.subject \in Subjects
                              /\ DOMAIN j.batch \subseteq Students
                              /\ \A st \in DOMAIN j.batch : j.batch[st] \in Answers
         /\ j.op = "delete" => j.exam \in Exams
<1>1. CASE j = NoJob
  BY <1>1 DEF NoJob
<1>2. CASE j \in [op : {"create"}, class : Classes, wanted : {{}} \cup {{s} : s \in Subjects},
                  exam : {Nothing}, subject : {Nothing}, total : 1 .. MaxTotal, batch : {NoMarks}]
  BY <1>2
<1>3. CASE j \in [op : {"total"}, class : {Nothing}, wanted : {{}}, exam : Exams,
                  subject : Subjects, total : 1 .. MaxTotal, batch : {NoMarks}]
  BY <1>3
<1>4. CASE j \in [op : {"marks"}, class : {Nothing}, wanted : {{}}, exam : Exams,
                  subject : Subjects, total : {0}, batch : Batches]
  BY <1>4 DEF ExamsAssumption
<1>5. CASE j \in [op : {"delete"}, class : {Nothing}, wanted : {{}}, exam : Exams,
                  subject : {Nothing}, total : {0}, batch : {NoMarks}]
  BY <1>5
<1> QED
  BY <1>1, <1>2, <1>3, <1>4, <1>5 DEF Jobs

LEMMA Typed ==
  ASSUME ExamsTypeOK
  PROVE  /\ pc \in [Requests -> Labels] /\ job \in [Requests -> Jobs]
         /\ view \in [Requests -> View]
         /\ mark \in [Exams -> [Subjects -> Column]]
         /\ total \in [Exams -> [Subjects -> 0 .. MaxTotal]]
         /\ exam \in [Exams -> Classes \cup {Nothing}]
  BY DEF ExamsTypeOK, Labels, View, Column

LEMMA ViewFields ==
  ASSUME NEW v \in View
  PROVE  /\ v.papers \subseteq Subjects /\ v.total \in 0 .. MaxTotal
         /\ v.teacher \in Faculty \cup {Nothing}
         /\ v.marks \in Column
  BY DEF View

LEMMA InitInv == ASSUME ExamsAssumption, Init PROVE ExamsInv
<1>1. NoMarks \in Column /\ 0 \in 0 .. MaxTotal
  BY DEF NoMarks, Column, ExamsAssumption
<1>2. NoView \in View /\ NoJob \in Jobs
  BY <1>1 DEF NoView, View, Jobs
<1>3. /\ mark \in [Exams -> [Subjects -> Column]]
      /\ total \in [Exams -> [Subjects -> 0 .. MaxTotal]]
      /\ view \in [Requests -> View] /\ job \in [Requests -> Jobs]
  BY <1>1, <1>2 DEF Init
<1>4. ExamsTypeOK
  BY <1>3 DEF Init, ExamsTypeOK, View, Column
<1>5. TablesStand
  BY DEF Init, TablesStand, MarkSaysOneThing, MarkedByTeacher, MarksOfTakers, PapersStand, NoMarks
<1>6. HistoryKept
  BY DEF Init, HistoryKept
<1>7. \A w \in Requests : MarksChecked(w)
  BY DEF Init, MarksChecked, NoJob
<1> QED
  BY <1>4, <1>5, <1>6, <1>7 DEF ExamsInv

-----------------------------------------------------------------------------
(* The college around the exams.                                           *)

\* The college changes, and its history grows; exams and requests stay.
LEMMA CollegeInv ==
  ASSUME ExamsInv, UNCHANGED <<examVars, requestVars>>,
         classes' \subseteq Classes, subjects' \subseteq Subjects,
         offered' \in [Classes -> SUBSET Subjects],
         takers' \in [Subjects -> SUBSET Students],
         teacher' \in [Subjects -> Faculty \cup {Nothing}],
         account' \in [Faculty -> Requests \cup {Nothing}],
         took' \subseteq Students \X Subjects, taught' \subseteq Subjects \X Faculty,
         linked' \subseteq Faculty \X Requests,
         took \subseteq took', taught \subseteq taught', linked \subseteq linked',
         HistoryKept', PapersStand'
  PROVE  ExamsInv'
<1>1. ExamsTypeOK'
  BY DEF ExamsInv, ExamsTypeOK, examVars, requestVars
<1>2. MarkSaysOneThing' /\ MarkedByTeacher' /\ MarksOfTakers'
  BY DEF ExamsInv, TablesStand, MarkSaysOneThing, MarkedByTeacher, MarksOfTakers, examVars
<1>3. ASSUME NEW w \in Requests PROVE MarksChecked(w)'
  <2>1. MarksChecked(w) /\ UNCHANGED <<pc, job, view>>
    BY DEF ExamsInv, requestVars
  <2> QED
    BY <2>1 DEF MarksChecked, MayMark, SaysOneThing
<1> QED
  BY <1>1, <1>2, <1>3 DEF ExamsInv, TablesStand

LEMMA TakeUpInv ==
  ASSUME ExamsInv, NEW st \in Students, NEW s \in Subjects, TakeUp(st, s)
  PROVE  ExamsInv'
<1>1. /\ takers' = [takers EXCEPT ![s] = @ \cup {st}] /\ took' = took \cup {<<st, s>>}
      /\ UNCHANGED <<classes, subjects, offered, teacher, account, taught, linked, examVars, requestVars>>
  BY DEF TakeUp
<1>2. takers' \in [Subjects -> SUBSET Students] /\ took' \subseteq Students \X Subjects
  BY <1>1 DEF ExamsInv, ExamsTypeOK
<1>3. HistoryKept'
  BY <1>1 DEF ExamsInv, ExamsTypeOK, HistoryKept
<1>4. PapersStand'
  BY <1>1 DEF ExamsInv, TablesStand, PapersStand, examVars
<1> QED
  BY <1>1, <1>2, <1>3, <1>4, CollegeInv DEF ExamsInv, ExamsTypeOK

LEMMA DropInv ==
  ASSUME ExamsInv, NEW st \in Students, NEW s \in Subjects, Drop(st, s)
  PROVE  ExamsInv'
<1>1. /\ takers' = [takers EXCEPT ![s] = @ \ {st}]
      /\ UNCHANGED <<classes, subjects, offered, teacher, account, took, taught, linked, examVars, requestVars>>
  BY DEF Drop
<1>2. takers' \in [Subjects -> SUBSET Students]
  BY <1>1 DEF ExamsInv, ExamsTypeOK
<1>3. HistoryKept'
  BY <1>1 DEF ExamsInv, ExamsTypeOK, HistoryKept
<1>4. PapersStand'
  BY <1>1 DEF ExamsInv, TablesStand, PapersStand, examVars
<1> QED
  BY <1>1, <1>2, <1>3, <1>4, CollegeInv DEF ExamsInv, ExamsTypeOK

LEMMA RunInv ==
  ASSUME ExamsInv, NEW c \in Classes, NEW s \in Subjects, Run(c, s)
  PROVE  ExamsInv'
<1>1. UNCHANGED <<classes, subjects, takers, teacher, account, took, taught, linked, examVars, requestVars>>
  BY DEF Run
<1>2. PICK kept \in SUBSET Subjects : offered' = [offered EXCEPT ![c] = kept]
  <2>1. offered[c] \subseteq Subjects
    BY DEF ExamsInv, ExamsTypeOK
  <2>2. CASE offered' = [offered EXCEPT ![c] = @ \cup {s}]
    BY <2>1, <2>2
  <2>3. CASE offered' = [offered EXCEPT ![c] = @ \ {s}]
    BY <2>1, <2>3
  <2> QED
    BY <2>2, <2>3 DEF Run
<1>3. offered' \in [Classes -> SUBSET Subjects]
  BY <1>2 DEF ExamsInv, ExamsTypeOK
<1>4. HistoryKept' /\ PapersStand'
  BY <1>1 DEF ExamsInv, TablesStand, HistoryKept, PapersStand, examVars
<1> QED
  BY <1>1, <1>3, <1>4, CollegeInv DEF ExamsInv, ExamsTypeOK

LEMMA AssignTeacherInv ==
  ASSUME ExamsInv, NEW s \in Subjects, NEW f \in Faculty \cup {Nothing}, AssignTeacher(s, f)
  PROVE  ExamsInv'
<1>1. /\ teacher' = [teacher EXCEPT ![s] = f]
      /\ taught' = IF f = Nothing THEN taught ELSE taught \cup {<<s, f>>}
      /\ UNCHANGED <<classes, subjects, offered, takers, account, took, linked, examVars, requestVars>>
  BY DEF AssignTeacher
<1>2. /\ teacher' \in [Subjects -> Faculty \cup {Nothing}]
      /\ taught' \subseteq Subjects \X Faculty /\ taught \subseteq taught'
  BY <1>1 DEF ExamsInv, ExamsTypeOK
<1>3. HistoryKept'
  BY <1>1 DEF ExamsInv, ExamsTypeOK, HistoryKept
<1>4. PapersStand'
  BY <1>1 DEF ExamsInv, TablesStand, PapersStand, examVars
<1> QED
  BY <1>1, <1>2, <1>3, <1>4, CollegeInv DEF ExamsInv, ExamsTypeOK

LEMMA LinkAccountInv ==
  ASSUME ExamsAssumption, ExamsInv, NEW f \in Faculty, NEW u \in Linkable \cup {Nothing}, LinkAccount(f, u)
  PROVE  ExamsInv'
<1>1. /\ account' = [account EXCEPT ![f] = u]
      /\ linked' = IF u = Nothing THEN linked ELSE linked \cup {<<f, u>>}
      /\ UNCHANGED <<classes, subjects, offered, takers, teacher, took, taught, examVars, requestVars>>
  BY DEF LinkAccount
<1>2. /\ account' \in [Faculty -> Requests \cup {Nothing}]
      /\ linked' \subseteq Faculty \X Requests /\ linked \subseteq linked'
  BY <1>1 DEF ExamsInv, ExamsTypeOK, ExamsAssumption
<1>3. HistoryKept'
  BY <1>1 DEF ExamsInv, ExamsTypeOK, HistoryKept
<1>4. PapersStand'
  BY <1>1 DEF ExamsInv, TablesStand, PapersStand, examVars
<1> QED
  BY <1>1, <1>2, <1>3, <1>4, CollegeInv DEF ExamsInv, ExamsTypeOK

LEMMA DeleteSubjectInv ==
  ASSUME ExamsInv, NEW s \in Subjects, DeleteSubject(s)
  PROVE  ExamsInv'
<1>1. /\ PapersOn(s) = {} /\ subjects' = subjects \ {s}
      /\ offered' = [c \in Classes |-> offered[c] \ {s}]
      /\ teacher' = [teacher EXCEPT ![s] = Nothing]
      /\ UNCHANGED <<classes, takers, account, took, taught, linked, examVars, requestVars>>
  BY DEF DeleteSubject
<1>2. /\ subjects' \subseteq Subjects /\ offered' \in [Classes -> SUBSET Subjects]
      /\ teacher' \in [Subjects -> Faculty \cup {Nothing}]
  BY <1>1 DEF ExamsInv, ExamsTypeOK
<1>3. HistoryKept'
  BY <1>1 DEF ExamsInv, ExamsTypeOK, HistoryKept
<1>4. PapersStand'
  BY <1>1 DEF ExamsInv, TablesStand, PapersStand, PapersOn, examVars
<1> QED
  BY <1>1, <1>2, <1>3, <1>4, CollegeInv DEF ExamsInv, ExamsTypeOK

LEMMA DeleteClassInv ==
  ASSUME ExamsInv, NEW c \in Classes, DeleteClass(c)
  PROVE  ExamsInv'
<1>1. /\ ExamsOf(c) = {} /\ classes' = classes \ {c}
      /\ offered' = [offered EXCEPT ![c] = {}]
      /\ UNCHANGED <<subjects, takers, teacher, account, took, taught, linked, examVars, requestVars>>
  BY DEF DeleteClass
<1>2. classes' \subseteq Classes /\ offered' \in [Classes -> SUBSET Subjects]
  BY <1>1 DEF ExamsInv, ExamsTypeOK
<1>3. HistoryKept'
  BY <1>1 DEF ExamsInv, HistoryKept
<1>4. PapersStand'
  BY <1>1 DEF ExamsInv, TablesStand, PapersStand, ExamsOf, examVars
<1> QED
  BY <1>1, <1>2, <1>3, <1>4, CollegeInv DEF ExamsInv, ExamsTypeOK

LEMMA CollegeStepInv == ASSUME ExamsAssumption, ExamsInv, CollegeStep PROVE ExamsInv'
  BY TakeUpInv, DropInv, RunInv, AssignTeacherInv, LinkAccountInv, DeleteSubjectInv, DeleteClassInv
  DEF CollegeStep

-----------------------------------------------------------------------------
(* Requests that read.                                                     *)

LEMMA RequestInv ==
  ASSUME ExamsInv, NEW w \in Requests, UNCHANGED <<collegeVars, examVars>>,
         NEW label \in Labels, NEW j \in Jobs, NEW v \in View,
         pc' = [pc EXCEPT ![w] = label], job' = [job EXCEPT ![w] = j], view' = [view EXCEPT ![w] = v],
         MarksChecked(w)'
  PROVE  ExamsInv'
<1>1. /\ pc \in [Requests -> Labels] /\ job \in [Requests -> Jobs] /\ view \in [Requests -> View]
  BY Typed DEF ExamsInv
<1>2. /\ pc' \in [Requests -> Labels] /\ job' \in [Requests -> Jobs] /\ view' \in [Requests -> View]
      /\ \A r \in Requests \ {w} : pc'[r] = pc[r] /\ job'[r] = job[r] /\ view'[r] = view[r]
  BY <1>1
<1>3. ExamsTypeOK'
  BY <1>2 DEF ExamsInv, ExamsTypeOK, collegeVars, examVars, Labels, View, Column
<1>4. TablesStand' /\ HistoryKept'
  BY DEF ExamsInv, TablesStand, MarkSaysOneThing, MarkedByTeacher, MarksOfTakers, PapersStand,
         HistoryKept, collegeVars, examVars
<1>5. ASSUME NEW r \in Requests \ {w} PROVE MarksChecked(r)'
  <2>1. MarksChecked(r) /\ pc'[r] = pc[r] /\ job'[r] = job[r] /\ view'[r] = view[r]
    BY <1>2 DEF ExamsInv
  <2>2. UNCHANGED <<took, taught, linked>>
    BY DEF collegeVars
  <2> QED
    BY <2>1, <2>2 DEF MarksChecked, MayMark, SaysOneThing
<1> QED
  BY <1>3, <1>4, <1>5 DEF ExamsInv

LEMMA ProceedInv ==
  ASSUME ExamsInv, NEW w \in Requests, NEW label \in Labels, Proceed(w, label), MarksChecked(w)'
  PROVE  ExamsInv'
<1>1. /\ pc' = [pc EXCEPT ![w] = label] /\ UNCHANGED <<collegeVars, examVars, job, view>>
  BY DEF Proceed, Goto
<1>2. job[w] \in Jobs /\ view[w] \in View
  BY Typed DEF ExamsInv
<1>3. job' = [job EXCEPT ![w] = job[w]] /\ view' = [view EXCEPT ![w] = view[w]]
  BY <1>1, Typed DEF ExamsInv
<1> QED
  BY <1>1, <1>2, <1>3, RequestInv

LEMMA FindClassInv ==
  ASSUME ExamsAssumption, ExamsInv, NEW w \in Requests, FindClass(w)
  PROVE  ExamsInv'
<1>1. PICK c \in classes, wanted \in {{}} \cup {{s} : s \in Subjects}, t \in 1 .. MaxTotal :
        /\ Begin(w, [NoJob EXCEPT !.op = "create", !.class = c, !.wanted = wanted, !.total = t], "offer")
        /\ UNCHANGED view
  BY DEF FindClass
<1> DEFINE j == [NoJob EXCEPT !.op = "create", !.class = c, !.wanted = wanted, !.total = t]
<1>2. j \in Jobs /\ j.op = "create"
  BY <1>1 DEF NoJob, Jobs, ExamsInv, ExamsTypeOK
<1>3. Begin(w, j, "offer")
  BY <1>1
<1> HIDE DEF j
<1>4. /\ pc' = [pc EXCEPT ![w] = "offer"] /\ job' = [job EXCEPT ![w] = j]
      /\ UNCHANGED <<collegeVars, examVars>>
  BY <1>3 DEF Begin, Goto
<1>5. view' = [view EXCEPT ![w] = view[w]] /\ view[w] \in View /\ job'[w] = j
  BY <1>1, <1>4, Typed DEF ExamsInv
<1>6. MarksChecked(w)'
  BY <1>2, <1>5 DEF MarksChecked
<1> QED
  BY <1>2, <1>4, <1>5, <1>6, RequestInv DEF Labels

LEMMA FindPaperInv ==
  ASSUME ExamsAssumption, ExamsInv, NEW w \in Requests, FindPaper(w)
  PROVE  ExamsInv'
<1>1. PICK e \in Exams, s \in Subjects, t \in 1 .. MaxTotal :
        /\ Begin(w, [NoJob EXCEPT !.op = "total", !.exam = e, !.subject = s, !.total = t], "highest")
        /\ view' = [view EXCEPT ![w].total = total[e][s]]
  BY DEF FindPaper
<1> DEFINE j == [NoJob EXCEPT !.op = "total", !.exam = e, !.subject = s, !.total = t]
           v == [view[w] EXCEPT !.total = total[e][s]]
<1>2. j \in Jobs /\ j.op = "total"
  BY DEF NoJob, Jobs
<1>3. Begin(w, j, "highest")
  BY <1>1
<1>4. v \in View /\ view' = [view EXCEPT ![w] = v]
  <2>1. view \in [Requests -> View] /\ total[e][s] \in 0 .. MaxTotal
    BY Typed DEF ExamsInv
  <2>2. v \in View
    BY <2>1 DEF View
  <2> QED
    BY <1>1, <2>1, <2>2
<1> HIDE DEF j, v
<1>5. /\ pc' = [pc EXCEPT ![w] = "highest"] /\ job' = [job EXCEPT ![w] = j]
      /\ UNCHANGED <<collegeVars, examVars>>
  BY <1>3 DEF Begin, Goto
<1>6. job'[w] = j
  BY <1>5, Typed DEF ExamsInv
<1>7. MarksChecked(w)'
  BY <1>2, <1>6 DEF MarksChecked
<1> QED
  BY <1>2, <1>4, <1>5, <1>7, RequestInv DEF Labels

LEMMA FindMarksInv ==
  ASSUME ExamsAssumption, ExamsInv, NEW w \in Requests, FindMarks(w)
  PROVE  ExamsInv'
<1>1. PICK e \in Exams, s \in Subjects, b \in Batches :
        /\ Begin(w, [NoJob EXCEPT !.op = "marks", !.exam = e, !.subject = s, !.batch = b],
                 IF w \in Office THEN "takers" ELSE "member")
        /\ view' = [view EXCEPT ![w] = [@ EXCEPT !.total = total[e][s], !.teacher = teacher[s],
                                                 !.marks = mark[e][s]]]
  BY DEF FindMarks
<1> DEFINE j == [NoJob EXCEPT !.op = "marks", !.exam = e, !.subject = s, !.batch = b]
           v == [view[w] EXCEPT !.total = total[e][s], !.teacher = teacher[s], !.marks = mark[e][s]]
           label == IF w \in Office THEN "takers" ELSE "member"
<1>2. j \in Jobs /\ j.op = "marks" /\ j.subject = s
  BY DEF NoJob, Jobs
<1>3. Begin(w, j, label)
  BY <1>1
<1>4. /\ v \in View /\ v.teacher = teacher[s] /\ v.marks = mark[e][s]
      /\ view' = [view EXCEPT ![w] = v]
  <2>1. view[w] \in View /\ total[e][s] \in 0 .. MaxTotal /\ mark[e][s] \in Column
    BY Typed DEF ExamsInv
  <2>2. teacher[s] \in Faculty \cup {Nothing}
    BY DEF ExamsInv, ExamsTypeOK
  <2> QED
    BY <1>1, <2>1, <2>2, Typed DEF ExamsInv, View
<1> HIDE DEF j, v, label
<1>5. /\ pc' = [pc EXCEPT ![w] = label] /\ job' = [job EXCEPT ![w] = j]
      /\ UNCHANGED <<collegeVars, examVars>>
  BY <1>3 DEF Begin, Goto
<1>6. job'[w] = j /\ view'[w] = v /\ pc'[w] = label
  BY <1>4, <1>5, Typed DEF ExamsInv
<1>7. label \in {"takers", "member"} /\ (label = "takers" => w \in Office)
  BY DEF label
<1>8. MarksChecked(w)'
  <2>1. teacher[s] # Nothing => <<s, teacher[s]>> \in taught
    BY DEF ExamsInv, HistoryKept
  <2>2. \A st \in Students : SaysOneThing(mark[e][s][st])
    BY DEF ExamsInv, TablesStand, MarkSaysOneThing, SaysOneThing
  <2>3. UNCHANGED taught
    BY <1>5 DEF collegeVars
  <2> QED
    BY <1>2, <1>4, <1>6, <1>7, <2>1, <2>2, <2>3 DEF MarksChecked, MayMark, SaysOneThing
<1> QED
  BY <1>2, <1>4, <1>5, <1>7, <1>8, RequestInv DEF Labels

LEMMA FindExamInv ==
  ASSUME ExamsAssumption, ExamsInv, NEW w \in Requests, FindExam(w)
  PROVE  ExamsInv'
<1>1. PICK e \in Exams : /\ Begin(w, [NoJob EXCEPT !.op = "delete", !.exam = e], "commit")
                         /\ UNCHANGED view
  BY DEF FindExam
<1> DEFINE j == [NoJob EXCEPT !.op = "delete", !.exam = e]
<1>2. j \in Jobs /\ j.op = "delete"
  BY DEF NoJob, Jobs
<1>3. Begin(w, j, "commit")
  BY <1>1
<1> HIDE DEF j
<1>4. /\ pc' = [pc EXCEPT ![w] = "commit"] /\ job' = [job EXCEPT ![w] = j]
      /\ UNCHANGED <<collegeVars, examVars>>
  BY <1>3 DEF Begin, Goto
<1>5. view' = [view EXCEPT ![w] = view[w]] /\ view[w] \in View /\ job'[w] = j
  BY <1>1, <1>4, Typed DEF ExamsInv
<1>6. MarksChecked(w)'
  BY <1>2, <1>5 DEF MarksChecked
<1> QED
  BY <1>2, <1>4, <1>5, <1>6, RequestInv DEF Labels

-----------------------------------------------------------------------------
(* Requests that end.                                                      *)

LEMMA FinishInv ==
  ASSUME ExamsAssumption, ExamsInv, NEW w \in Requests, Finish(w),
         exam' \in [Exams -> Classes \cup {Nothing}],
         total' \in [Exams -> [Subjects -> 0 .. MaxTotal]],
         mark' \in [Exams -> [Subjects -> Column]],
         TablesStand'
  PROVE  ExamsInv'
<1>1. NoMarks \in Column /\ 0 \in 0 .. MaxTotal
  BY DEF NoMarks, Column, ExamsAssumption
<1>2. NoView \in View /\ NoJob \in Jobs /\ NoJob.op = "none"
  BY <1>1 DEF NoView, View, Jobs, NoJob
<1>3. /\ pc' = [pc EXCEPT ![w] = "idle"] /\ job' = [job EXCEPT ![w] = NoJob]
      /\ view' = [view EXCEPT ![w] = NoView] /\ UNCHANGED collegeVars
  BY DEF Finish
<1>4. /\ pc' \in [Requests -> Labels] /\ job' \in [Requests -> Jobs] /\ view' \in [Requests -> View]
      /\ \A r \in Requests \ {w} : pc'[r] = pc[r] /\ job'[r] = job[r] /\ view'[r] = view[r]
      /\ job'[w] = NoJob
  BY <1>2, <1>3, Typed DEF ExamsInv, Labels
<1>5. ExamsTypeOK'
  BY <1>3, <1>4 DEF ExamsInv, ExamsTypeOK, collegeVars, Labels, View, Column
<1>6. HistoryKept' /\ UNCHANGED <<took, taught, linked>>
  BY <1>3 DEF ExamsInv, HistoryKept, collegeVars
<1>7. ASSUME NEW r \in Requests PROVE MarksChecked(r)'
  <2>1. CASE r = w
    BY <1>2, <1>4, <2>1 DEF MarksChecked
  <2>2. CASE r # w
    <3>1. MarksChecked(r) /\ pc'[r] = pc[r] /\ job'[r] = job[r] /\ view'[r] = view[r]
      BY <1>4, <2>2 DEF ExamsInv
    <3> QED
      BY <1>6, <3>1 DEF MarksChecked, MayMark, SaysOneThing
  <2> QED
    BY <2>1, <2>2
<1> QED
  BY <1>5, <1>6, <1>7 DEF ExamsInv

LEMMA FailInv ==
  ASSUME ExamsAssumption, ExamsInv, NEW w \in Requests, Fail(w)
  PROVE  ExamsInv'
<1>1. Finish(w) /\ UNCHANGED <<exam, total, mark, collegeVars>>
  BY DEF Fail, Finish, examVars
<1>2. TablesStand'
  BY <1>1 DEF ExamsInv, TablesStand, MarkSaysOneThing, MarkedByTeacher, MarksOfTakers, PapersStand,
              collegeVars
<1> QED
  BY <1>1, <1>2, FinishInv, Typed DEF ExamsInv

LEMMA ReadOfferInv ==
  ASSUME ExamsAssumption, ExamsInv, NEW w \in Requests, ReadOffer(w)
  PROVE  ExamsInv'
<1> DEFINE offer == offered[job[w].class]
           papers == IF job[w].wanted = {} THEN offer ELSE job[w].wanted
           v == [view[w] EXCEPT !.papers = papers]
<1>1. job[w] \in Jobs /\ job[w].op = "create" /\ view[w] \in View
  BY Typed DEF ReadOffer, At, ExamsInv
<1>2. papers \subseteq Subjects
  <2>1. job[w].class \in Classes /\ job[w].wanted \subseteq Subjects
    BY <1>1, JobShapes
  <2>2. offer \subseteq Subjects
    BY <2>1 DEF ExamsInv, ExamsTypeOK
  <2> QED
    BY <2>1, <2>2
<1>3. CASE Fail(w)
  BY <1>3, FailInv
<1>4. CASE /\ view' = [view EXCEPT ![w].papers = papers] /\ Goto(w, "commit")
           /\ UNCHANGED <<collegeVars, examVars, job>>
  <2>1. v \in View /\ view' = [view EXCEPT ![w] = v]
    BY <1>1, <1>2, <1>4, Typed DEF ExamsInv, View
  <2> HIDE DEF v, papers
  <2>2. pc' = [pc EXCEPT ![w] = "commit"] /\ job' = [job EXCEPT ![w] = job[w]]
    BY <1>4, Typed DEF Goto, ExamsInv
  <2>3. MarksChecked(w)'
    BY <1>1, <1>4 DEF MarksChecked
  <2> QED
    BY <1>1, <1>4, <2>1, <2>2, <2>3, RequestInv DEF Labels
<1> QED
  BY <1>3, <1>4 DEF ReadOffer

LEMMA ReadHighestInv ==
  ASSUME ExamsAssumption, ExamsInv, NEW w \in Requests, ReadHighest(w)
  PROVE  ExamsInv'
<1>1. CASE Fail(w)
  BY <1>1, FailInv
<1>2. CASE Proceed(w, "commit")
  <2>1. job'[w].op = "total"
    BY <1>2 DEF Proceed, ReadHighest, At
  <2> QED
    BY <1>2, <2>1, ProceedInv DEF MarksChecked, Labels
<1> QED
  BY <1>1, <1>2 DEF ReadHighest

LEMMA ReadMemberInv ==
  ASSUME ExamsAssumption, ExamsInv, NEW w \in Requests, ReadMember(w)
  PROVE  ExamsInv'
<1>1. CASE Fail(w)
  BY <1>1, FailInv
<1>2. CASE Recognised(w) /\ Proceed(w, "takers")
  <2>1. /\ pc' = [pc EXCEPT ![w] = "takers"] /\ UNCHANGED <<job, view, took, taught, linked>>
    BY <1>2 DEF Proceed, Goto, collegeVars
  <2>2. pc'[w] = "takers" /\ job[w].op = "marks"
    BY <2>1, Typed DEF ReadMember, At, ExamsInv
  <2>3. view[w].teacher \in Faculty
    BY <1>2, Typed, ViewFields DEF ExamsInv, Recognised
  <2>4. <<view[w].teacher, w>> \in linked
    BY <1>2, <2>3 DEF Recognised, ExamsInv, HistoryKept, ExamsAssumption
  <2>5. MarksChecked(w)
    BY DEF ExamsInv
  <2>6. MayMark(w, job[w].subject)
    BY <1>2, <2>2, <2>3, <2>4, <2>5 DEF MarksChecked, MayMark, Recognised
  <2>7. MarksChecked(w)'
    BY <2>1, <2>2, <2>5, <2>6 DEF MarksChecked, MayMark, SaysOneThing
  <2> QED
    BY <1>2, <2>7, ProceedInv DEF Labels
<1> QED
  BY <1>1, <1>2 DEF ReadMember

LEMMA ReadTakersInv ==
  ASSUME ExamsAssumption, ExamsInv, NEW w \in Requests, ReadTakers(w)
  PROVE  ExamsInv'
<1>1. CASE Fail(w)
  BY <1>1, FailInv
<1>2. CASE MarksAllowed(w) /\ Proceed(w, "commit")
  <2>1. /\ pc' = [pc EXCEPT ![w] = "commit"] /\ UNCHANGED <<job, view, took, taught, linked>>
    BY <1>2 DEF Proceed, Goto, collegeVars
  <2>2. pc'[w] = "commit" /\ pc[w] = "takers" /\ job[w].op = "marks"
    BY <2>1, Typed DEF ReadTakers, At, ExamsInv
  <2>3. job[w].subject \in Subjects
    <3>1. job[w] \in Jobs
      BY Typed DEF ExamsInv
    <3> QED
      BY <2>2, <3>1, JobShapes
  <2>4. \A st \in DOMAIN job[w].batch : <<st, job[w].subject>> \in took
    BY <1>2, <2>3 DEF MarksAllowed, ExamsInv, HistoryKept
  <2>5. MarksChecked(w)
    BY DEF ExamsInv
  <2>6. MarksChecked(w)'
    BY <2>1, <2>2, <2>4, <2>5 DEF MarksChecked, MayMark, SaysOneThing
  <2> QED
    BY <1>2, <2>6, ProceedInv DEF Labels
<1> QED
  BY <1>1, <1>2 DEF ReadTakers

-----------------------------------------------------------------------------
(* Requests that commit.                                                   *)

LEMMA JobOf == ASSUME ExamsInv, NEW w \in Requests PROVE job[w] \in Jobs /\ view[w] \in View
  BY Typed DEF ExamsInv

LEMMA CommitExamInv ==
  ASSUME ExamsAssumption, ExamsInv, NEW w \in Requests, CommitExam(w)
  PROVE  ExamsInv'
<1>1. job[w].op = "create" /\ job[w].class \in Classes /\ job[w].total \in 1 .. MaxTotal
  BY JobOf, JobShapes DEF CommitExam, At
<1>2. CASE Fail(w)
  BY <1>2, FailInv
<1>3. CASE RowsExist(w) /\ ~ Fail(w)
  <2>1. PICK e \in Exams :
          /\ exam[e] = Nothing
          /\ exam' = [exam EXCEPT ![e] = job[w].class]
          /\ total' = [total EXCEPT ![e] =
                         [s \in Subjects |-> IF s \in view[w].papers THEN job[w].total ELSE 0]]
          /\ UNCHANGED mark /\ Finish(w)
    BY <1>3 DEF CommitExam
  <2> DEFINE new == [s \in Subjects |-> IF s \in view[w].papers THEN job[w].total ELSE 0]
             Totals == [Subjects -> 0 .. MaxTotal]
  <2>2. /\ exam \in [Exams -> Classes \cup {Nothing}] /\ total \in [Exams -> Totals]
        /\ mark \in [Exams -> [Subjects -> Column]]
    BY Typed DEF ExamsInv
  <2>3. new \in Totals
    BY <1>1 DEF ExamsAssumption
  <2>4. total' = [total EXCEPT ![e] = new] /\ \A s \in Subjects : new[s] # 0 => s \in view[w].papers
    BY <2>1
  <2> HIDE DEF new, Totals
  <2>5. /\ exam' \in [Exams -> Classes \cup {Nothing}] /\ total' \in [Exams -> Totals]
        /\ exam'[e] = job[w].class /\ total'[e] = new
        /\ \A x \in Exams \ {e} : exam'[x] = exam[x] /\ total'[x] = total[x]
    BY <1>1, <2>1, <2>2, <2>3, <2>4
  <2>6. UNCHANGED <<classes, subjects, took, taught, linked>>
    BY <2>1 DEF Finish, collegeVars
  <2>7. job[w].class \in classes /\ view[w].papers \subseteq subjects /\ job[w].class # Nothing
    BY <1>1, <1>3 DEF RowsExist, ExamsAssumption
  <2>8. PapersStand'
    BY <2>4, <2>5, <2>6, <2>7 DEF ExamsInv, TablesStand, PapersStand
  <2>9. \A s \in Subjects, st \in Students : mark[e][s][st] = Nothing
    BY <2>1 DEF ExamsInv, TablesStand, PapersStand, MarksOfTakers
  <2>10. MarksOfTakers'
    BY <2>1, <2>5, <2>6, <2>9 DEF ExamsInv, TablesStand, MarksOfTakers
  <2>11. MarkSaysOneThing' /\ MarkedByTeacher'
    BY <2>1, <2>6 DEF ExamsInv, TablesStand, MarkSaysOneThing, MarkedByTeacher
  <2> QED
    BY <2>1, <2>2, <2>5, <2>8, <2>10, <2>11, FinishInv DEF TablesStand, Totals
<1> QED
  BY <1>2, <1>3 DEF CommitExam

LEMMA CommitTotalInv ==
  ASSUME ExamsAssumption, ExamsInv, NEW w \in Requests, CommitTotal(w)
  PROVE  ExamsInv'
<1>1. /\ job[w].op = "total" /\ job[w].exam \in Exams /\ job[w].subject \in Subjects
      /\ job[w].total \in 1 .. MaxTotal
  BY JobOf, JobShapes DEF CommitTotal, At
<1>2. CASE Fail(w)
  BY <1>2, FailInv
<1>3. CASE /\ Paper(w) # 0
           /\ total' = [total EXCEPT ![job[w].exam][job[w].subject] = job[w].total]
           /\ UNCHANGED <<exam, mark>> /\ Finish(w)
  <2> DEFINE e == job[w].exam
             s == job[w].subject
             t == job[w].total
  <2>1. /\ e \in Exams /\ s \in Subjects /\ t \in 1 .. MaxTotal /\ total[e][s] # 0
        /\ total' = [total EXCEPT ![e][s] = t] /\ total \in [Exams -> [Subjects -> 0 .. MaxTotal]]
    BY <1>1, <1>3, Typed DEF Paper, ExamsInv
  <2> HIDE DEF e, s, t
  <2>2. /\ total' \in [Exams -> [Subjects -> 0 .. MaxTotal]]
        /\ \A x \in Exams, y \in Subjects : total'[x][y] # 0 <=> total[x][y] # 0
    <3>1. t \in 0 .. MaxTotal /\ t # 0
      BY <2>1 DEF ExamsAssumption
    <3> QED
      BY <2>1, <3>1
  <2>3. UNCHANGED <<exam, mark, classes, subjects, took, taught, linked>>
    BY <1>3 DEF Finish, collegeVars
  <2>4. TablesStand'
    BY <2>2, <2>3 DEF ExamsInv, TablesStand, MarkSaysOneThing, MarkedByTeacher, MarksOfTakers, PapersStand
  <2> QED
    BY <1>3, <2>2, <2>3, <2>4, FinishInv, Typed DEF ExamsInv
<1> QED
  BY <1>2, <1>3 DEF CommitTotal

LEMMA CommitDeleteInv ==
  ASSUME ExamsAssumption, ExamsInv, NEW w \in Requests, CommitDelete(w)
  PROVE  ExamsInv'
<1> DEFINE e == job[w].exam
           zero == [s \in Subjects |-> 0]
           blank == [s \in Subjects |-> NoMarks]
           Totals == [Subjects -> 0 .. MaxTotal]
           Sheet == [Subjects -> Column]
<1>1. /\ e \in Exams /\ exam' = [exam EXCEPT ![e] = Nothing] /\ total' = [total EXCEPT ![e] = zero]
      /\ mark' = [mark EXCEPT ![e] = blank] /\ Finish(w)
  BY JobOf, JobShapes DEF CommitDelete, At
<1>2. /\ exam \in [Exams -> Classes \cup {Nothing}] /\ total \in [Exams -> Totals]
      /\ mark \in [Exams -> Sheet]
  BY Typed DEF ExamsInv
<1>3. zero \in Totals /\ blank \in Sheet
  BY DEF NoMarks, Column, ExamsAssumption
<1>4. /\ \A s \in Subjects : zero[s] = 0
      /\ \A s \in Subjects : \A st \in Students : blank[s][st] = Nothing
  BY DEF NoMarks
<1> HIDE DEF e, zero, blank, Totals, Sheet
<1>5. /\ exam' \in [Exams -> Classes \cup {Nothing}] /\ total' \in [Exams -> Totals]
      /\ mark' \in [Exams -> Sheet]
      /\ exam'[e] = Nothing /\ total'[e] = zero /\ mark'[e] = blank
      /\ \A x \in Exams \ {e} : exam'[x] = exam[x] /\ total'[x] = total[x] /\ mark'[x] = mark[x]
  BY <1>1, <1>2, <1>3
<1>6. UNCHANGED <<classes, subjects, took, taught, linked>>
  BY <1>1 DEF Finish, collegeVars
<1>7. PapersStand'
  BY <1>4, <1>5, <1>6 DEF ExamsInv, TablesStand, PapersStand
<1>8. ASSUME NEW x \in Exams, NEW s \in Subjects, NEW st \in Students, mark'[x][s][st] # Nothing
      PROVE  x # e /\ mark'[x][s][st] = mark[x][s][st] /\ total'[x][s] = total[x][s]
  <2>1. x # e
    BY <1>4, <1>5, <1>8
  <2> QED
    BY <1>5, <2>1
<1>9. MarksOfTakers'
  BY <1>6, <1>8 DEF ExamsInv, TablesStand, MarksOfTakers
<1>10. MarkSaysOneThing'
  BY <1>8 DEF ExamsInv, TablesStand, MarkSaysOneThing
<1>11. MarkedByTeacher'
  BY <1>6, <1>8 DEF ExamsInv, TablesStand, MarkedByTeacher
<1> QED
  BY <1>1, <1>5, <1>7, <1>9, <1>10, <1>11, FinishInv DEF TablesStand, Totals, Sheet

\* The new mark gets a primary key that no other request remembers.
LEMMA FreshMarkExists ==
  ASSUME ExamsAssumption, ExamsInv, NEW w \in Requests, NEW st \in Students,
         view[w].marks[st] = Nothing
  PROVE  FreshMark(st) \in MarkIds
<1> DEFINE read == [v \in Requests \ {w} |->
                      IF view[v].marks[st] # Nothing THEN view[v].marks[st].id ELSE Nothing]
<1>1. \A v \in Requests : view[v].marks[st] # Nothing => view[v].marks[st].id \in MarkIds
  <2> TAKE v \in Requests
  <2>1. view[v] \in View
    BY Typed DEF ExamsInv
  <2>2. view[v].marks[st] \in Mark \cup {Nothing}
    BY <2>1, ViewFields DEF Column
  <2> QED
    BY <2>2 DEF Mark
<1>2. read \in [Requests \ {w} -> MarkIds \cup {Nothing}]
  BY <1>1
<1> HIDE DEF read
<1>3. PICK i \in MarkIds : \A v \in Requests \ {w} : read[v] # i
  BY <1>2 DEF ExamsAssumption
<1>4. \A v \in Requests : view[v].marks[st] # Nothing => view[v].marks[st].id # i
  BY <1>3 DEF read
<1> QED
  BY <1>4 DEF FreshMark

LEMMA AnswersSayOneThing ==
  ASSUME ExamsAssumption, NEW a \in Answers, a # Clear
  PROVE  /\ a.obtained \in Scores \cup {Nothing} /\ a.absent \in BOOLEAN
         /\ a.absent <=> a.obtained = Nothing
<1>1. CASE a = [obtained |-> Nothing, absent |-> TRUE]
  BY <1>1
<1>2. CASE \E n \in Scores \cup {Nothing} : a = [obtained |-> n, absent |-> FALSE]
  <2>1. PICK n \in Scores \cup {Nothing} : a = [obtained |-> n, absent |-> FALSE]
    BY <1>2
  <2>2. n # Nothing
    BY <2>1 DEF Clear
  <2> QED
    BY <2>1, <2>2
<1> QED
  BY <1>1, <1>2 DEF Answers

\* A row written is a mark, says one thing, and has its author from the request
\* or from the row before it.
LEMMA WrittenMark ==
  ASSUME ExamsAssumption, ExamsInv, NEW w \in Requests, job[w].op = "marks", MayWrite(w),
         NEW st \in Named(w)
  PROVE  /\ st \in Students /\ Written(w, st) \in Mark /\ SaysOneThing(Written(w, st))
         /\ \/ Written(w, st).by = w
            \/ PaperMarks(w)[st] # Nothing /\ Written(w, st).by = PaperMarks(w)[st].by
<1> DEFINE asked == job[w].batch[st]
           seen == view[w].marks[st]
           stored == PaperMarks(w)[st]
           row == Written(w, st)
<1>1. /\ st \in Students /\ asked \in Answers /\ asked # Clear
      /\ job[w].exam \in Exams /\ job[w].subject \in Subjects
  BY JobOf, JobShapes DEF Named
<1>2. /\ asked.obtained \in Scores \cup {Nothing} /\ asked.absent \in BOOLEAN
      /\ asked.absent <=> asked.obtained = Nothing
  BY <1>1, AnswersSayOneThing
<1>3. stored \in Mark \cup {Nothing} /\ seen \in Mark \cup {Nothing}
  BY <1>1, JobOf, ViewFields, Typed DEF PaperMarks, ExamsInv, Column
<1>4. Fits(row)
  BY DEF MayWrite
<1>5. CASE seen = Nothing
  <2>1. FreshMark(st) \in MarkIds
    BY <1>1, <1>5, FreshMarkExists
  <2>2. row = [id |-> FreshMark(st), obtained |-> asked.obtained, absent |-> asked.absent, by |-> w]
    BY <1>5 DEF Written
  <2> QED
    BY <1>1, <1>2, <2>1, <2>2 DEF Mark, SaysOneThing
<1>6. CASE seen # Nothing
  <2>1. seen \in Mark /\ stored \in Mark /\ stored # Nothing
    BY <1>3, <1>6 DEF MayWrite, SeenRowStays
  <2>2. row = [id |-> seen.id,
               obtained |-> IF asked.obtained # seen.obtained THEN asked.obtained ELSE stored.obtained,
               absent |-> IF asked.absent # seen.absent THEN asked.absent ELSE stored.absent,
               by |-> IF w # seen.by THEN w ELSE stored.by]
    BY <1>6 DEF Written
  <2>3. /\ seen.absent \in BOOLEAN /\ (seen.absent <=> seen.obtained = Nothing)
        /\ stored.absent \in BOOLEAN /\ (stored.absent <=> stored.obtained = Nothing)
    <3>1. SaysOneThing(seen)
      BY <1>1 DEF ExamsInv, MarksChecked
    <3>2. SaysOneThing(stored)
      BY <1>1 DEF ExamsInv, TablesStand, MarkSaysOneThing, SaysOneThing, PaperMarks
    <3> QED
      BY <1>6, <2>1, <3>1, <3>2 DEF SaysOneThing, Mark
  <2>4. row \in Mark
    BY <1>2, <2>1, <2>2 DEF Mark
  <2>5. ~ (row.absent /\ row.obtained # Nothing)
    BY <1>4 DEF Fits
  <2>6. row.obtained = Nothing => row.absent
    BY <1>2, <2>2, <2>3
  <2>7. row.absent \in BOOLEAN /\ (row.by = w \/ row.by = stored.by)
    BY <2>2, <2>4 DEF Mark
  <2> QED
    BY <1>1, <2>1, <2>4, <2>5, <2>6, <2>7 DEF SaysOneThing
<1> QED
  BY <1>5, <1>6

\* What entering marks does to one mark.
LEMMA SavedMark ==
  ASSUME ExamsAssumption, ExamsInv, NEW w \in Requests, job[w].op = "marks", MayWrite(w),
         mark' = [mark EXCEPT ![job[w].exam][job[w].subject] =
                    [st \in Students |-> IF st \in Named(w) THEN Written(w, st)
                                         ELSE IF st \in Removed(w) THEN Nothing ELSE @[st]]]
  PROVE  /\ mark' \in [Exams -> [Subjects -> Column]]
         /\ \A e \in Exams, s \in Subjects, st \in Students :
              \/ mark'[e][s][st] \in {mark[e][s][st], Nothing}
              \/ /\ e = job[w].exam /\ s = job[w].subject /\ st \in Named(w)
                 /\ mark'[e][s][st] = Written(w, st)
<1> DEFINE x == job[w].exam
           y == job[w].subject
           new == [st \in Students |-> IF st \in Named(w) THEN Written(w, st)
                                       ELSE IF st \in Removed(w) THEN Nothing ELSE mark[x][y][st]]
<1>1. x \in Exams /\ y \in Subjects /\ mark \in [Exams -> [Subjects -> Column]]
  BY JobOf, JobShapes, Typed DEF ExamsInv
<1>2. mark' = [mark EXCEPT ![x][y] = new]
  OBVIOUS
<1>3. ASSUME NEW st \in Students
      PROVE  /\ new[st] \in Mark \cup {Nothing}
             /\ \/ new[st] \in {mark[x][y][st], Nothing}
                \/ st \in Named(w) /\ new[st] = Written(w, st)
  <2>1. st \in Named(w) => Written(w, st) \in Mark
    BY WrittenMark
  <2>2. mark[x][y][st] \in Mark \cup {Nothing}
    BY <1>1 DEF Column
  <2> QED
    BY <2>1, <2>2
<1>4. new \in Column
  BY <1>3 DEF Column
<1> HIDE DEF x, y, new
<1>5. /\ mark' \in [Exams -> [Subjects -> Column]] /\ mark'[x][y] = new
      /\ \A e \in Exams, s \in Subjects : e # x \/ s # y => mark'[e][s] = mark[e][s]
  <2> DEFINE Sheet == [Subjects -> Column]
             page == [mark[x] EXCEPT ![y] = new]
  <2>1. mark[x] \in Sheet /\ page \in Sheet /\ page[y] = new
    BY <1>1, <1>4
  <2>2. \A s \in Subjects : s # y => page[s] = mark[x][s]
    BY <1>1
  <2>3. mark' = [mark EXCEPT ![x] = page] /\ mark \in [Exams -> Sheet]
    BY <1>1, <1>2
  <2> HIDE DEF Sheet, page
  <2>4. mark' \in [Exams -> Sheet] /\ mark'[x] = page /\ \A e \in Exams : e # x => mark'[e] = mark[e]
    BY <1>1, <2>1, <2>3
  <2> QED
    BY <2>1, <2>2, <2>4 DEF Sheet
<1> QED
  BY <1>3, <1>5 DEF x, y

LEMMA CommitMarksInv ==
  ASSUME ExamsAssumption, ExamsInv, NEW w \in Requests, CommitMarks(w)
  PROVE  ExamsInv'
<1>1. job[w].op = "marks" /\ pc[w] = "commit"
  BY DEF CommitMarks, At
<1>2. CASE Fail(w)
  BY <1>2, FailInv
<1>3. CASE /\ MayWrite(w)
           /\ mark' = [mark EXCEPT ![job[w].exam][job[w].subject] =
                  [st \in Students |-> IF st \in Named(w) THEN Written(w, st)
                                       ELSE IF st \in Removed(w) THEN Nothing ELSE @[st]]]
           /\ UNCHANGED <<exam, total>> /\ Finish(w)
  <2>1. /\ mark' \in [Exams -> [Subjects -> Column]]
        /\ \A e \in Exams, s \in Subjects, st \in Students :
              \/ mark'[e][s][st] \in {mark[e][s][st], Nothing}
              \/ /\ e = job[w].exam /\ s = job[w].subject /\ st \in Named(w)
                 /\ mark'[e][s][st] = Written(w, st)
    BY <1>1, <1>3, SavedMark
  <2>2. UNCHANGED <<classes, subjects, took, taught, linked>>
    BY <1>3 DEF Finish, collegeVars
  <2>3. PapersStand'
    BY <1>3, <2>2 DEF ExamsInv, TablesStand, PapersStand
  <2>4. /\ MayMark(w, job[w].subject) /\ total[job[w].exam][job[w].subject] # 0
        /\ \A st \in Named(w) : <<st, job[w].subject>> \in took
    BY <1>1, <1>3 DEF ExamsInv, MarksChecked, MayWrite, Paper, Named
  <2>5. ASSUME NEW e \in Exams, NEW s \in Subjects, NEW st \in Students, mark'[e][s][st] # Nothing
        PROVE  /\ SaysOneThing(mark'[e][s][st])
               /\ MayMark(mark'[e][s][st].by, s)
               /\ total[e][s] # 0 /\ <<st, s>> \in took
    <3>1. CASE mark[e][s][st] # Nothing /\ mark'[e][s][st] = mark[e][s][st]
      BY <3>1 DEF ExamsInv, TablesStand, MarkSaysOneThing, SaysOneThing, MarkedByTeacher,
                  MayMark, MarksOfTakers
    <3>2. CASE /\ e = job[w].exam /\ s = job[w].subject /\ st \in Named(w)
               /\ mark'[e][s][st] = Written(w, st)
      <4>1. /\ SaysOneThing(Written(w, st))
            /\ \/ Written(w, st).by = w
               \/ mark[e][s][st] # Nothing /\ Written(w, st).by = mark[e][s][st].by
        BY <1>1, <1>3, <3>2, WrittenMark DEF PaperMarks
      <4>2. mark[e][s][st] # Nothing => MayMark(mark[e][s][st].by, s)
        BY DEF ExamsInv, TablesStand, MarkedByTeacher, MayMark
      <4> QED
        BY <2>4, <3>2, <4>1, <4>2
    <3> QED
      BY <2>1, <2>5, <3>1, <3>2
  <2>6. MarkSaysOneThing'
    BY <2>5 DEF MarkSaysOneThing, SaysOneThing
  <2>7. MarkedByTeacher'
    BY <2>2, <2>5 DEF MarkedByTeacher, MayMark
  <2>8. MarksOfTakers'
    BY <1>3, <2>2, <2>5 DEF MarksOfTakers
  <2> QED
    BY <1>3, <2>1, <2>3, <2>6, <2>7, <2>8, FinishInv, Typed DEF TablesStand, ExamsInv
<1> QED
  BY <1>2, <1>3 DEF CommitMarks

-----------------------------------------------------------------------------
(* Every step.                                                             *)

LEMMA NextInv == ASSUME ExamsAssumption, ExamsInv, [Next]_vars PROVE ExamsInv'
<1>1. CASE UNCHANGED vars
  <2>1. /\ ExamsTypeOK' /\ TablesStand' /\ HistoryKept'
    BY <1>1 DEF vars, collegeVars, examVars, requestVars, ExamsInv, ExamsTypeOK, TablesStand,
                MarkSaysOneThing, MarkedByTeacher, MarksOfTakers, PapersStand, HistoryKept
  <2>2. \A w \in Requests : MarksChecked(w)'
    BY <1>1 DEF vars, collegeVars, requestVars, ExamsInv, MarksChecked, MayMark, SaysOneThing
  <2> QED
    BY <2>1, <2>2 DEF ExamsInv
<1>2. ASSUME NEW w \in Requests, RequestStep(w) PROVE ExamsInv'
  BY <1>2, FindClassInv, ReadOfferInv, CommitExamInv, FindPaperInv, ReadHighestInv, CommitTotalInv,
     FindMarksInv, ReadMemberInv, ReadTakersInv, CommitMarksInv, FindExamInv, CommitDeleteInv
  DEF RequestStep
<1> QED
  BY <1>1, <1>2, CollegeStepInv DEF Next

LEMMA InvAlways == Spec => []ExamsInv
<1>1. Init => ExamsInv
  BY InitInv, ExamsAssumption
<1>2. ExamsInv /\ [Next]_vars => ExamsInv'
  BY NextInv, ExamsAssumption
<1> QED
  BY <1>1, <1>2, PTL DEF Spec

-----------------------------------------------------------------------------
(* Theorems.                                                               *)

\* The tables and the requests keep their types; a new mark always finds a
\* primary key.
THEOREM ExamsTypes == Spec => []ExamsTypeOK
<1>1. ExamsInv => ExamsTypeOK
  BY DEF ExamsInv
<1> QED
  BY <1>1, InvAlways, PTL

\* Saves that write only the columns that differ from what they loaded never
\* leave a mark that is both a score and an absence, or neither.
THEOREM MarksAlwaysSayOneThing == Spec => []MarkSaysOneThing
<1>1. ExamsInv => MarkSaysOneThing
  BY DEF ExamsInv, TablesStand
<1> QED
  BY <1>1, InvAlways, PTL

\* The author of every mark is the office or an account that was a teacher's of
\* the subject, however teachers and accounts change while marks are entered.
THEOREM OnlyTeachersMark == Spec => []MarkedByTeacher
<1>1. ExamsInv => MarkedByTeacher
  BY DEF ExamsInv, TablesStand
<1> QED
  BY <1>1, InvAlways, PTL

\* Every mark is of a student who took the subject, on a paper that exists.
THEOREM OnlyTakersMarked == Spec => []MarksOfTakers
<1>1. ExamsInv => MarksOfTakers
  BY DEF ExamsInv, TablesStand
<1> QED
  BY <1>1, InvAlways, PTL

\* Exams keep their class and papers their subject while both are deleted.
THEOREM PapersAlwaysStand == Spec => []PapersStand
<1>1. ExamsInv => PapersStand
  BY DEF ExamsInv, TablesStand
<1> QED
  BY <1>1, InvAlways, PTL
=============================================================================
