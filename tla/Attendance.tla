----------------------------- MODULE Attendance -----------------------------
(***************************************************************************)
(* Attendance registers (app/services/attendance.py behind                 *)
(* app/api/v1/attendance.py) as concurrent requests, each a transaction    *)
(* that runs one SQL statement per step:                                   *)
(*                                                                         *)
(*   open      class -> existing -> roster -> commit                       *)
(*   mark      sheet -> roster -> commit      PATCH: the students named    *)
(*   replace   sheet -> roster -> commit      PUT: the whole register      *)
(*   delete    sheet -> commit                                             *)
(*                                                                         *)
(* A request whose first statement finds nothing (404) changes nothing and *)
(* is left out.                                                            *)
(* Meanwhile students join, change and leave classes, classes are deleted  *)
(* and time passes.  Time is counted in instants; the college's midnight   *)
(* is Offset instants ahead of the server's (app/core/clock.py).           *)
(***************************************************************************)
EXTENDS Integers, FiniteSets

CONSTANTS
  Students, Classes, Sheets,
  Requests,       \* requests in flight, each sent by a member of staff of its own
  RegisterOps,    \* the endpoints exercised
  Statuses,       \* what a mark can say
  Batches,        \* mark lists a client may send: student -> status, None clears
  MarkIds,        \* primary keys of marks
  DayLength,      \* instants per day
  Offset,         \* how far the college's clock is ahead of the server's
  LastInstant,    \* bound: the clock stops here
  MaxJoined,      \* bound: memberships of a class on a day, in all
  None

Mark == [id : MarkIds, status : Statuses, by : Requests]

ASSUME AttendanceAssumption ==
  /\ RegisterOps \subseteq {"open", "mark", "replace", "delete"}
  /\ \A b \in Batches : /\ DOMAIN b \subseteq Students
                        /\ \A st \in DOMAIN b : b[st] \in Statuses \cup {None}
  /\ DayLength \in Nat \ {0} /\ Offset \in Nat /\ LastInstant \in Nat /\ MaxJoined \in Nat
  /\ None \notin Statuses \cup MarkIds \cup Mark
  /\ IsFiniteSet(Sheets)
  \* There are more primary keys than the other requests can remember.
  /\ \A w \in Requests : \A read \in [Requests \ {w} -> MarkIds \cup {None}] :
       \E i \in MarkIds : \A v \in Requests \ {w} : read[v] # i

VARIABLES
  now,        \* the clock
  classes,    \* classes that exist
  enrolled,   \* enrollments: the class of each student and when they joined it
  joined,     \* history: who joined which class on which college day
  sheet,      \* attendance_sheets: class and date
  mark,       \* attendance_records: the mark of a student on a sheet
  pc,         \* the statement a request is about to run
  job,        \* what the request asks for
  view        \* what the request has read: the marks of its sheet

tableVars == <<sheet, mark>>
rosterVars == <<classes, enrolled, joined>>
vars == <<now, rosterVars, tableVars, pc, job, view>>

-----------------------------------------------------------------------------
(* The college's clock.                                                    *)

Instants == 0 .. LastInstant

\* The college day an instant falls on.
CollegeDate(t) == (t + Offset) \div DayLength
\* Mutant: the server's midnight.
EndOfDay_Server(d) == (d + 1) * DayLength
\* The instant the college's day ends.
EndOfDay(d) == (d + 1) * DayLength - Offset

Today == CollegeDate(now)
Days == 0 .. CollegeDate(LastInstant)

-----------------------------------------------------------------------------
(* Tables and types.                                                       *)

NoSeen == [st \in Students |-> None]
NoJob == [op |-> "none", class |-> None, date |-> 0, sheet |-> None, batch |-> NoSeen]

Jobs ==
  {NoJob}
  \cup [op : {"open"}, class : Classes, date : Days, sheet : {None}, batch : {NoSeen}]
  \cup [op : {"mark", "replace"}, class : {None}, date : {0}, sheet : Sheets, batch : Batches]
  \cup [op : {"delete"}, class : {None}, date : {0}, sheet : Sheets, batch : {NoSeen}]

\* The columns of the three tables hold what their types allow.
AttendanceTypeOK ==
  /\ now \in Instants
  /\ classes \subseteq Classes
  /\ enrolled \in [Students -> [class : Classes, at : Instants] \cup {None}]
  /\ joined \subseteq Students \X Classes \X Days
  /\ sheet \in [Sheets -> [class : Classes, date : Days] \cup {None}]
  /\ mark \in [Sheets -> [Students -> Mark \cup {None}]]
  /\ pc \in [Requests -> {"idle", "existing", "roster", "commit"}]
  /\ job \in [Requests -> Jobs]
  /\ view \in [Requests -> [Students -> Mark \cup {None}]]
  /\ \A w \in Requests :
       /\ pc[w] = "idle" <=> job[w] = NoJob
       /\ pc[w] = "existing" => job[w].op = "open"

\* Who belongs on the register of a class on a date.
Roster(c, d) == {st \in Students : /\ enrolled[st] # None
                                   /\ enrolled[st].class = c
                                   /\ enrolled[st].at < EndOfDay(d)}

Init ==
  /\ now = 0
  /\ classes = Classes
  /\ enrolled = [st \in Students |-> None]
  /\ joined = {}
  /\ sheet = [x \in Sheets |-> None]
  /\ mark = [x \in Sheets |-> NoSeen]
  /\ pc = [w \in Requests |-> "idle"]
  /\ job = [w \in Requests |-> NoJob]
  /\ view = [w \in Requests |-> NoSeen]

-----------------------------------------------------------------------------
(* Mutants of what comes below.                                            *)

MayInsertSheet_NoUnique(w) == job[w].class \in classes
MayInsertSheet_NoForeignKey(w) ==
  \A x \in Sheets : sheet[x] # [class |-> job[w].class, date |-> job[w].date]
ValidMarks_Anyone(w) == TRUE
Removed_Current(w) ==
  {st \in Students : \/ st \in DOMAIN job[w].batch /\ job[w].batch[st] = None
                     \/ job[w].op = "replace" /\ st \notin DOMAIN job[w].batch}

-----------------------------------------------------------------------------
(* Time, classes and enrollments: the transactions of other services that  *)
(* the registers read, each as one step.                                   *)

Tick == /\ now < LastInstant
        /\ now' = now + 1
        /\ UNCHANGED <<rosterVars, tableVars, pc, job, view>>

\* enroll and move stamp the enrollment with the moment of joining.
Join(st, c) ==
  /\ c \in classes
  /\ enrolled[st] # None => enrolled[st].class # c
  /\ <<st, c, Today>> \in joined \/ Cardinality(joined) < MaxJoined
  /\ enrolled' = [enrolled EXCEPT ![st] = [class |-> c, at |-> now]]
  /\ joined' = joined \cup {<<st, c, Today>>}
  /\ UNCHANGED <<now, classes, tableVars, pc, job, view>>

\* Marks stay where they are.
Leave(st) ==
  /\ enrolled[st] # None
  /\ enrolled' = [enrolled EXCEPT ![st] = None]
  /\ UNCHANGED <<now, classes, joined, tableVars, pc, job, view>>

\* Refused while a student is enrolled or a register exists (count_for_class
\* and, against a race, the foreign keys).
DeleteClass(c) ==
  /\ c \in classes
  /\ \A st \in Students : enrolled[st] # None => enrolled[st].class # c
  /\ \A x \in Sheets : sheet[x] # None => sheet[x].class # c
  /\ classes' = classes \ {c}
  /\ UNCHANGED <<now, enrolled, joined, tableVars, pc, job, view>>

-----------------------------------------------------------------------------
(* Bookkeeping of one request.                                             *)

At(w, label) == pc[w] = label
Goto(w, label) == pc' = [pc EXCEPT ![w] = label]

\* The request is answered, with an error or not, and forgets what it read.
Finish(w) == /\ pc' = [pc EXCEPT ![w] = "idle"]
             /\ job' = [job EXCEPT ![w] = NoJob]
             /\ view' = [view EXCEPT ![w] = NoSeen]
             /\ UNCHANGED <<now, rosterVars>>

Fail(w) == Finish(w) /\ UNCHANGED tableVars
Proceed(w, label) == Goto(w, label) /\ UNCHANGED <<now, rosterVars, tableVars, job, view>>

\* A sheet id nobody remembers, and a mark id no request has read: uuid4.
FreshSheet(x) == sheet[x] = None /\ \A w \in Requests : job[w].sheet # x
FreshMark(st) == CHOOSE i \in MarkIds :
                   \A w \in Requests : view[w][st] # None => view[w][st].id # i

\* A request arrives and runs its first statement.
Begin(w, j, label) ==
  /\ At(w, "idle")
  /\ j.op \in RegisterOps
  /\ job' = [job EXCEPT ![w] = j]
  /\ Goto(w, label)
  /\ UNCHANGED <<now, rosterVars, tableVars>>

-----------------------------------------------------------------------------
(* POST /attendance                                                        *)

\* The date defaults to today and may not be in the future.
FindClass(w) == \E c \in classes, d \in Days :
  /\ d <= Today
  /\ Begin(w, [NoJob EXCEPT !.op = "open", !.class = c, !.date = d], "existing")
  /\ UNCHANGED view

FindExisting(w) ==
  /\ At(w, "existing")
  /\ IF \E x \in Sheets : sheet[x] = [class |-> job[w].class, date |-> job[w].date]
       THEN Fail(w) ELSE Proceed(w, "roster")

OpenRoster(w) ==
  /\ At(w, "roster") /\ job[w].op = "open"
  /\ IF Roster(job[w].class, job[w].date) = {} THEN Fail(w) ELSE Proceed(w, "commit")

\* UNIQUE(class_id, date) and the foreign key to classes.
MayInsertSheet(w) ==
  /\ job[w].class \in classes
  /\ \A x \in Sheets : sheet[x] # [class |-> job[w].class, date |-> job[w].date]

CommitOpen(w) ==
  /\ At(w, "commit") /\ job[w].op = "open"
  /\ IF MayInsertSheet(w)
       THEN \E x \in Sheets :
              /\ FreshSheet(x)
              /\ sheet' = [sheet EXCEPT ![x] = [class |-> job[w].class, date |-> job[w].date]]
              /\ UNCHANGED mark
              /\ Finish(w)
       ELSE Fail(w)

-----------------------------------------------------------------------------
(* PATCH and PUT /attendance/{id}                                          *)

\* get_sheet loads the sheet and its marks.
FindSheet(w) == \E op \in {"mark", "replace"}, x \in Sheets, b \in Batches :
  /\ sheet[x] # None
  /\ Begin(w, [NoJob EXCEPT !.op = op, !.sheet = x, !.batch = b], "roster")
  /\ view' = [view EXCEPT ![w] = mark[x]]

\* The class and the date come from the loaded sheet; nothing changes them.
ValidMarks(w) ==
  LET x == job[w].sheet IN
  sheet[x] # None => DOMAIN job[w].batch \subseteq Roster(sheet[x].class, sheet[x].date)

MarksRoster(w) ==
  /\ At(w, "roster") /\ job[w].op # "open"
  /\ IF ValidMarks(w) THEN Proceed(w, "commit") ELSE Fail(w)

Named(w) == {st \in DOMAIN job[w].batch : job[w].batch[st] # None}

\* Marks the request read and drops: DELETE by primary key, and a row that is
\* already gone is no error.
Removed(w) ==
  {st \in Students : /\ view[w][st] # None
                     /\ \/ st \in DOMAIN job[w].batch /\ job[w].batch[st] = None
                        \/ job[w].op = "replace" /\ st \notin DOMAIN job[w].batch
                     /\ mark[job[w].sheet][st] # None
                     /\ mark[job[w].sheet][st].id = view[w][st].id}

\* The UPDATE of a vanished row, UNIQUE(sheet_id, student_id), or the sheet gone.
MayWriteMarks(w) ==
  /\ sheet[job[w].sheet] # None
  /\ \A st \in Named(w) :
       IF view[w][st] = None
         THEN mark[job[w].sheet][st] = None
         ELSE /\ mark[job[w].sheet][st] # None
              /\ mark[job[w].sheet][st].id = view[w][st].id

\* An UPDATE writes the columns whose value differs from the one loaded.
Written(w, st) ==
  LET asked == job[w].batch[st]
      seen == view[w][st]
      stored == mark[job[w].sheet][st] IN
  IF seen = None
    THEN [id |-> FreshMark(st), status |-> asked, by |-> w]
    ELSE [id |-> seen.id,
          status |-> IF asked # seen.status THEN asked ELSE stored.status,
          by |-> IF w # seen.by THEN w ELSE stored.by]

CommitMarks(w) ==
  /\ At(w, "commit") /\ job[w].op \in {"mark", "replace"}
  /\ IF MayWriteMarks(w)
       THEN /\ mark' = [mark EXCEPT ![job[w].sheet] =
                  [st \in Students |-> IF st \in Named(w) THEN Written(w, st)
                                       ELSE IF st \in Removed(w) THEN None ELSE @[st]]]
            /\ UNCHANGED sheet
            /\ Finish(w)
       ELSE Fail(w)

-----------------------------------------------------------------------------
(* DELETE /attendance/{id}: the marks go with the sheet.                   *)

FindDoomed(w) == \E x \in Sheets :
  /\ sheet[x] # None
  /\ Begin(w, [NoJob EXCEPT !.op = "delete", !.sheet = x], "commit")
  /\ view' = [view EXCEPT ![w] = mark[x]]

CommitDelete(w) ==
  /\ At(w, "commit") /\ job[w].op = "delete"
  /\ sheet' = [sheet EXCEPT ![job[w].sheet] = None]
  /\ mark' = [mark EXCEPT ![job[w].sheet] = NoSeen]
  /\ Finish(w)

-----------------------------------------------------------------------------
RequestStep(w) ==
  \/ FindClass(w) \/ FindExisting(w) \/ OpenRoster(w) \/ CommitOpen(w)
  \/ FindSheet(w) \/ MarksRoster(w) \/ CommitMarks(w)
  \/ FindDoomed(w) \/ CommitDelete(w)

Next ==
  \/ Tick
  \/ \E st \in Students : Leave(st) \/ \E c \in Classes : Join(st, c)
  \/ \E c \in Classes : DeleteClass(c)
  \/ \E w \in Requests : RequestStep(w)

Spec == Init /\ [][Next]_vars

-----------------------------------------------------------------------------
(* What clients read.                                                      *)

\* build_marks and _counts: the students a register shows as unmarked.
UnmarkedOn(x) ==
  IF sheet[x] = None THEN {}
  ELSE {st \in Roster(sheet[x].class, sheet[x].date) : mark[x][st] = None}

\* student_summary: the registers a student should be on, and is marked on.
Eligible(st) ==
  {x \in Sheets : /\ sheet[x] # None
                  /\ sheet[x].class = enrolled[st].class
                  /\ sheet[x].date >= CollegeDate(enrolled[st].at)}
MarkedOn(st) == {x \in Sheets : mark[x][st] # None}
UnmarkedDays(st) ==
  IF Cardinality(MarkedOn(st)) >= Cardinality(Eligible(st)) THEN 0
  ELSE Cardinality(Eligible(st)) - Cardinality(MarkedOn(st))

-----------------------------------------------------------------------------
(* Properties.                                                             *)

\* However many clerks open the register of a class on a day at once, there is
\* one (app/services/attendance.py:149-173).
OneRegisterPerDay ==
  \A x, y \in Sheets : sheet[x] # None /\ sheet[x] = sheet[y] => x = y

\* A register's class exists, though classes are deleted while registers are
\* being opened (app/services/attendance.py:147, :168).
RegistersHaveClasses == \A x \in Sheets : sheet[x] # None => sheet[x].class \in classes

\* Registers stay what the rest of the college takes them for, however requests
\* and deletions overlap (app/services/attendance.py:147-173).
RegistersStand == OneRegisterPerDay /\ RegistersHaveClasses

\* A mark lies on a register that exists, and its student joined the register's
\* class on or before its date: nobody is marked for a class they had not yet
\* joined (app/services/attendance.py:5-7, :201).
MarkedOnlyMembers ==
  \A x \in Sheets, st \in Students : mark[x][st] # None =>
    /\ sheet[x] # None
    /\ \E d \in Days : d <= sheet[x].date /\ <<st, sheet[x].class, d>> \in joined

\* The student's report and the registers agree: for a student whose marks all
\* lie on registers they belong to, the blanks the report counts are the
\* registers that show the student unmarked (student_summary:317-346 compares
\* days, roster:110-115 compares instants).
BlanksAgree ==
  \A st \in Students :
    (/\ enrolled[st] # None
     /\ \A x \in MarkedOn(st) : st \in Roster(sheet[x].class, sheet[x].date))
    => UnmarkedDays(st) = Cardinality({x \in Sheets : st \in UnmarkedOn(x)})

\* A mark goes, or gives way to another, only with its sheet or by a request
\* that has read that very mark: a whole-register save does not take marks set
\* while it was being prepared (app/services/attendance.py:229-245).
NoBlindRemoval ==
  [][\A x \in Sheets, st \in Students :
       (mark[x][st] # None /\ (mark'[x][st] = None \/ mark'[x][st].id # mark[x][st].id))
       => \/ sheet'[x] = None
          \/ \E w \in Requests : /\ job[w].sheet = x
                                 /\ view[w][st] # None
                                 /\ view[w][st].id = mark[x][st].id]_vars
=============================================================================
