-------------------------- MODULE AttendanceProofs --------------------------
(***************************************************************************)
(* Theorems about Attendance, for any students, classes, registers,        *)
(* requests, mark lists, day length and difference of clocks.              *)
(***************************************************************************)
EXTENDS Attendance, FiniteSetTheorems, TLAPS

-----------------------------------------------------------------------------
(* The college's clock.                                                    *)

LEMMA Quotient ==
  ASSUME NEW n \in Nat \ {0}, NEW a \in Nat
  PROVE  a \div n \in Nat /\ n * (a \div n) <= a /\ a < n * (a \div n) + n
  OBVIOUS

LEMMA Below ==
  ASSUME NEW n \in Nat \ {0}, NEW q \in Nat, NEW d \in Nat, n * q < n * (d + 1)
  PROVE  q <= d
<1> SUFFICES ASSUME q >= d + 1 PROVE FALSE
  OBVIOUS
<1>1. n * q >= n * (d + 1)
  OBVIOUS
<1> QED
  BY <1>1

LEMMA Above ==
  ASSUME NEW n \in Nat \ {0}, NEW q \in Nat, NEW d \in Nat, q <= d
  PROVE  n * q + n <= n * (d + 1)
  OBVIOUS

\* An instant lies before the end of a college day exactly when its own college
\* day is that one or an earlier one.
LEMMA ClockAgrees ==
  ASSUME AttendanceAssumption, NEW t \in Nat, NEW d \in Nat
  PROVE  CollegeDate(t) \in Nat /\ (t < EndOfDay(d) <=> CollegeDate(t) <= d)
<1> DEFINE n == DayLength
           a == t + Offset
           q == a \div n
<1>1. n \in Nat \ {0} /\ a \in Nat /\ Offset \in Nat
  BY DEF AttendanceAssumption
<1>2. q \in Nat /\ n * q <= a /\ a < n * q + n
  BY <1>1, Quotient
<1>3. t < EndOfDay(d) <=> a < n * (d + 1)
  BY <1>1 DEF EndOfDay
<1>4. CollegeDate(t) = q
  BY DEF CollegeDate
<1> HIDE DEF n, a, q
<1>5. a < n * (d + 1) => q <= d
  BY <1>1, <1>2, Below
<1>6. q <= d => a < n * (d + 1)
  BY <1>1, <1>2, Above
<1> QED
  BY <1>2, <1>3, <1>4, <1>5, <1>6

\* Later instants lie on later days.
LEMMA DaysGrow ==
  ASSUME AttendanceAssumption, NEW t \in Nat, NEW u \in Nat, t <= u
  PROVE  CollegeDate(t) <= CollegeDate(u)
<1>1. CollegeDate(u) \in Nat
  BY ClockAgrees
<1>2. u < EndOfDay(CollegeDate(u))
  BY <1>1, ClockAgrees
<1>3. EndOfDay(CollegeDate(u)) \in Int
  BY <1>1 DEF EndOfDay, AttendanceAssumption
<1> QED
  BY <1>1, <1>2, <1>3, ClockAgrees

LEMMA InstantDays ==
  ASSUME AttendanceAssumption, NEW t \in Instants
  PROVE  t \in Nat /\ CollegeDate(t) \in Days
<1>1. t \in Nat /\ t <= LastInstant /\ LastInstant \in Nat
  BY DEF Instants, AttendanceAssumption
<1> QED
  BY <1>1, ClockAgrees, DaysGrow DEF Days

-----------------------------------------------------------------------------
(* The inductive invariant.                                                *)

\* The day a student joined the class they are in is on record.
JoiningKnown ==
  \A st \in Students : enrolled[st] # None =>
    <<st, enrolled[st].class, CollegeDate(enrolled[st].at)>> \in joined

\* The student joined the class on the date or before.
WasMember(st, c, d) == \E day \in Days : day <= d /\ <<st, c, day>> \in joined

\* A request about to write marks has found every student it names on the roster.
MarksChecked ==
  \A w \in Requests :
    pc[w] = "commit" /\ job[w].op \in {"mark", "replace"} /\ sheet[job[w].sheet] # None =>
      \A st \in DOMAIN job[w].batch :
        WasMember(st, sheet[job[w].sheet].class, sheet[job[w].sheet].date)

AttendanceInv == /\ AttendanceTypeOK /\ RegistersStand /\ MarkedOnlyMembers
                 /\ JoiningKnown /\ MarksChecked

-----------------------------------------------------------------------------
(* Jobs.                                                                   *)

LEMMA JobShapes ==
  ASSUME AttendanceAssumption, NEW j \in Jobs
  PROVE  /\ j.op \in {"none", "open", "mark", "replace", "delete"}
         /\ j.op = "none" <=> j = NoJob
         /\ j.op = "open" => j.class \in Classes /\ j.date \in Days
         /\ j.op \in {"mark", "replace"} =>
              /\ j.sheet \in Sheets /\ DOMAIN j.batch \subseteq Students
              /\ \A st \in DOMAIN j.batch : j.batch[st] \in Statuses \cup {None}
         /\ j.op = "delete" => j.sheet \in Sheets
<1>1. CASE j = NoJob
  BY <1>1 DEF NoJob
<1>2. CASE j \in [op : {"open"}, class : Classes, date : Days, sheet : {None}, batch : {NoSeen}]
  BY <1>2 DEF NoJob
<1>3. CASE j \in [op : {"mark", "replace"}, class : {None}, date : {0}, sheet : Sheets, batch : Batches]
  BY <1>3 DEF NoJob, AttendanceAssumption
<1>4. CASE j \in [op : {"delete"}, class : {None}, date : {0}, sheet : Sheets, batch : {NoSeen}]
  BY <1>4 DEF NoJob
<1> QED
  BY <1>1, <1>2, <1>3, <1>4 DEF Jobs

LEMMA InitInv == ASSUME AttendanceAssumption, Init PROVE AttendanceInv
<1>1. AttendanceTypeOK
  <2>1. NoJob \in Jobs /\ NoSeen \in [Students -> Mark \cup {None}]
    BY DEF Jobs, NoSeen
  <2>2. 0 \in Instants
    BY DEF Instants, AttendanceAssumption
  <2> QED
    BY <2>1, <2>2 DEF Init, AttendanceTypeOK
<1>2. RegistersStand
  BY DEF Init, RegistersStand, OneRegisterPerDay, RegistersHaveClasses
<1>3. MarkedOnlyMembers
  BY DEF Init, MarkedOnlyMembers, NoSeen
<1>4. JoiningKnown /\ MarksChecked
  BY DEF Init, JoiningKnown, MarksChecked
<1> QED
  BY <1>1, <1>2, <1>3, <1>4 DEF AttendanceInv

-----------------------------------------------------------------------------
(* The rest of the college.                                                *)

\* Classes and enrollments change, and days pass; registers stay.
LEMMA RosterStepInv ==
  ASSUME AttendanceInv, UNCHANGED <<tableVars, pc, job, view>>,
         now' \in Instants, classes' \subseteq Classes,
         enrolled' \in [Students -> [class : Classes, at : Instants] \cup {None}],
         joined' \subseteq Students \X Classes \X Days, joined \subseteq joined',
         JoiningKnown', RegistersHaveClasses'
  PROVE  AttendanceInv'
<1>1. AttendanceTypeOK'
  BY DEF AttendanceInv, AttendanceTypeOK, tableVars
<1>2. RegistersStand'
  BY DEF AttendanceInv, RegistersStand, OneRegisterPerDay, tableVars
<1>3. MarkedOnlyMembers'
  BY DEF AttendanceInv, MarkedOnlyMembers, tableVars
<1>4. MarksChecked'
  BY DEF AttendanceInv, MarksChecked, WasMember, tableVars
<1> QED
  BY <1>1, <1>2, <1>3, <1>4 DEF AttendanceInv

LEMMA TickInv == ASSUME AttendanceAssumption, AttendanceInv, Tick PROVE AttendanceInv'
<1>1. now' \in Instants /\ UNCHANGED <<rosterVars, tableVars, pc, job, view>>
  BY DEF Tick, Instants, AttendanceInv, AttendanceTypeOK, AttendanceAssumption
<1>2. JoiningKnown' /\ RegistersHaveClasses'
  BY <1>1 DEF AttendanceInv, JoiningKnown, RegistersStand, RegistersHaveClasses, rosterVars, tableVars
<1> QED
  BY <1>1, <1>2, RosterStepInv DEF AttendanceInv, AttendanceTypeOK, rosterVars

LEMMA JoinInv ==
  ASSUME AttendanceAssumption, AttendanceInv, NEW st \in Students, NEW c \in Classes, Join(st, c)
  PROVE  AttendanceInv'
<1>1. /\ enrolled' = [enrolled EXCEPT ![st] = [class |-> c, at |-> now]]
      /\ joined' = joined \cup {<<st, c, CollegeDate(now)>>}
      /\ UNCHANGED <<now, classes, tableVars, pc, job, view>>
  BY DEF Join, Today
<1>2. /\ now \in Instants /\ enrolled \in [Students -> [class : Classes, at : Instants] \cup {None}]
      /\ joined \subseteq Students \X Classes \X Days /\ classes \subseteq Classes
  BY DEF AttendanceInv, AttendanceTypeOK
<1>3. CollegeDate(now) \in Days
  BY <1>2, InstantDays
<1>4. /\ enrolled' \in [Students -> [class : Classes, at : Instants] \cup {None}]
      /\ enrolled'[st] = [class |-> c, at |-> now]
      /\ \A s \in Students \ {st} : enrolled'[s] = enrolled[s]
  BY <1>1, <1>2
<1>5. joined' \subseteq Students \X Classes \X Days /\ joined \subseteq joined'
  BY <1>1, <1>2, <1>3
<1>6. JoiningKnown'
  BY <1>1, <1>4 DEF AttendanceInv, JoiningKnown
<1>7. RegistersHaveClasses'
  BY <1>1 DEF AttendanceInv, RegistersStand, RegistersHaveClasses, tableVars
<1> QED
  BY <1>1, <1>2, <1>4, <1>5, <1>6, <1>7, RosterStepInv

LEMMA LeaveInv ==
  ASSUME AttendanceAssumption, AttendanceInv, NEW st \in Students, Leave(st)
  PROVE  AttendanceInv'
<1>1. /\ enrolled' = [enrolled EXCEPT ![st] = None]
      /\ UNCHANGED <<now, classes, joined, tableVars, pc, job, view>>
  BY DEF Leave
<1>2. enrolled \in [Students -> [class : Classes, at : Instants] \cup {None}]
  BY DEF AttendanceInv, AttendanceTypeOK
<1>3. /\ enrolled' \in [Students -> [class : Classes, at : Instants] \cup {None}]
      /\ enrolled'[st] = None /\ \A s \in Students \ {st} : enrolled'[s] = enrolled[s]
  BY <1>1, <1>2
<1>4. JoiningKnown'
  BY <1>1, <1>3 DEF AttendanceInv, JoiningKnown
<1>5. RegistersHaveClasses'
  BY <1>1 DEF AttendanceInv, RegistersStand, RegistersHaveClasses, tableVars
<1> QED
  BY <1>1, <1>3, <1>4, <1>5, RosterStepInv DEF AttendanceInv, AttendanceTypeOK

LEMMA DeleteClassInv ==
  ASSUME AttendanceAssumption, AttendanceInv, NEW c \in Classes, DeleteClass(c)
  PROVE  AttendanceInv'
<1>1. /\ \A x \in Sheets : sheet[x] # None => sheet[x].class # c
      /\ classes' = classes \ {c}
      /\ UNCHANGED <<now, enrolled, joined, tableVars, pc, job, view>>
  BY DEF DeleteClass
<1>2. JoiningKnown' /\ RegistersHaveClasses'
  BY <1>1 DEF AttendanceInv, JoiningKnown, RegistersStand, RegistersHaveClasses, tableVars
<1> QED
  BY <1>1, <1>2, RosterStepInv DEF AttendanceInv, AttendanceTypeOK

-----------------------------------------------------------------------------
(* Requests.                                                               *)

LEMMA BeginInv ==
  ASSUME AttendanceAssumption, AttendanceInv, NEW w \in Requests, NEW j \in Jobs, NEW label,
         Begin(w, j, label), j.op # "none", label \in {"existing", "roster", "commit"},
         label = "existing" => j.op = "open", label = "commit" => j.op = "delete",
         view' \in [Requests -> [Students -> Mark \cup {None}]]
  PROVE  AttendanceInv'
<1>1. /\ job' = [job EXCEPT ![w] = j] /\ pc' = [pc EXCEPT ![w] = label]
      /\ UNCHANGED <<now, rosterVars, tableVars>>
  BY DEF Begin, Goto
<1>2. /\ pc \in [Requests -> {"idle", "existing", "roster", "commit"}] /\ job \in [Requests -> Jobs]
      /\ \A v \in Requests : /\ pc[v] = "idle" <=> job[v] = NoJob
                             /\ pc[v] = "existing" => job[v].op = "open"
  BY DEF AttendanceInv, AttendanceTypeOK
<1>3. /\ pc'[w] = label /\ job'[w] = j
      /\ \A v \in Requests \ {w} : pc'[v] = pc[v] /\ job'[v] = job[v]
  BY <1>1, <1>2
<1>4. j # NoJob
  BY DEF NoJob
<1>5. AttendanceTypeOK'
  <2>1. /\ pc' \in [Requests -> {"idle", "existing", "roster", "commit"}]
        /\ job' \in [Requests -> Jobs]
    BY <1>1, <1>2
  <2>2. \A v \in Requests : /\ pc'[v] = "idle" <=> job'[v] = NoJob
                            /\ pc'[v] = "existing" => job'[v].op = "open"
    BY <1>2, <1>3, <1>4
  <2> QED
    BY <1>1, <2>1, <2>2 DEF AttendanceInv, AttendanceTypeOK, rosterVars, tableVars, NoJob, NoSeen
<1>6. RegistersStand' /\ MarkedOnlyMembers' /\ JoiningKnown'
  BY <1>1 DEF AttendanceInv, RegistersStand, OneRegisterPerDay, RegistersHaveClasses,
              MarkedOnlyMembers, JoiningKnown, rosterVars, tableVars
<1>7. MarksChecked'
  BY <1>1, <1>3 DEF AttendanceInv, MarksChecked, WasMember, rosterVars, tableVars
<1> QED
  BY <1>5, <1>6, <1>7 DEF AttendanceInv

LEMMA ProceedInv ==
  ASSUME AttendanceAssumption, AttendanceInv, NEW w \in Requests, NEW label,
         Proceed(w, label), pc[w] # "idle", label \in {"roster", "commit"},
         label = "commit" /\ job[w].op \in {"mark", "replace"} /\ sheet[job[w].sheet] # None =>
           \A st \in DOMAIN job[w].batch :
             WasMember(st, sheet[job[w].sheet].class, sheet[job[w].sheet].date)
  PROVE  AttendanceInv'
<1>1. pc' = [pc EXCEPT ![w] = label] /\ UNCHANGED <<now, rosterVars, tableVars, job, view>>
  BY DEF Proceed, Goto
<1>2. pc \in [Requests -> {"idle", "existing", "roster", "commit"}]
  BY DEF AttendanceInv, AttendanceTypeOK
<1>3. pc'[w] = label /\ \A v \in Requests \ {w} : pc'[v] = pc[v]
  BY <1>1, <1>2
<1>4. AttendanceTypeOK'
  <2>1. pc' \in [Requests -> {"idle", "existing", "roster", "commit"}]
    BY <1>1, <1>2
  <2> QED
    BY <1>1, <1>3, <2>1 DEF AttendanceInv, AttendanceTypeOK, rosterVars, tableVars
<1>5. RegistersStand' /\ MarkedOnlyMembers' /\ JoiningKnown'
  BY <1>1 DEF AttendanceInv, RegistersStand, OneRegisterPerDay, RegistersHaveClasses,
              MarkedOnlyMembers, JoiningKnown, rosterVars, tableVars
<1>6. MarksChecked'
  BY <1>1, <1>3 DEF AttendanceInv, MarksChecked, WasMember, rosterVars, tableVars
<1> QED
  BY <1>4, <1>5, <1>6 DEF AttendanceInv

\* A request ends; the sheet of another is as it was, or gone.
LEMMA FinishInv ==
  ASSUME AttendanceAssumption, AttendanceInv, NEW w \in Requests, Finish(w),
         sheet' \in [Sheets -> [class : Classes, date : Days] \cup {None}],
         mark' \in [Sheets -> [Students -> Mark \cup {None}]],
         RegistersStand', MarkedOnlyMembers',
         \A v \in Requests \ {w} : job[v].op \in {"mark", "replace"} =>
            sheet'[job[v].sheet] \in {None, sheet[job[v].sheet]}
  PROVE  AttendanceInv'
<1>1. /\ pc' = [pc EXCEPT ![w] = "idle"] /\ job' = [job EXCEPT ![w] = NoJob]
      /\ view' = [view EXCEPT ![w] = NoSeen] /\ UNCHANGED <<now, rosterVars>>
  BY DEF Finish
<1>2. /\ pc \in [Requests -> {"idle", "existing", "roster", "commit"}] /\ job \in [Requests -> Jobs]
      /\ view \in [Requests -> [Students -> Mark \cup {None}]]
      /\ \A v \in Requests : /\ pc[v] = "idle" <=> job[v] = NoJob
                             /\ pc[v] = "existing" => job[v].op = "open"
  BY DEF AttendanceInv, AttendanceTypeOK
<1>3. /\ pc'[w] = "idle" /\ job'[w] = NoJob
      /\ \A v \in Requests \ {w} : pc'[v] = pc[v] /\ job'[v] = job[v]
  BY <1>1, <1>2
<1>4. AttendanceTypeOK'
  <2>1. NoJob \in Jobs /\ NoSeen \in [Students -> Mark \cup {None}]
    BY DEF Jobs, NoSeen
  <2>2. /\ pc' \in [Requests -> {"idle", "existing", "roster", "commit"}]
        /\ job' \in [Requests -> Jobs]
        /\ view' \in [Requests -> [Students -> Mark \cup {None}]]
    BY <1>1, <1>2, <2>1
  <2>3. \A v \in Requests : /\ pc'[v] = "idle" <=> job'[v] = NoJob
                            /\ pc'[v] = "existing" => job'[v].op = "open"
    BY <1>2, <1>3
  <2>4. /\ now' \in Instants /\ classes' \subseteq Classes
        /\ enrolled' \in [Students -> [class : Classes, at : Instants] \cup {None}]
        /\ joined' \subseteq Students \X Classes \X Days
    BY <1>1 DEF AttendanceInv, AttendanceTypeOK, rosterVars
  <2> QED
    BY <2>2, <2>3, <2>4 DEF AttendanceTypeOK, NoJob, NoSeen
<1>5. JoiningKnown'
  BY <1>1 DEF AttendanceInv, JoiningKnown, rosterVars
<1>6. MarksChecked'
  <2>1. SUFFICES ASSUME NEW v \in Requests, pc'[v] = "commit", job'[v].op \in {"mark", "replace"},
                        sheet'[job'[v].sheet] # None, NEW st \in DOMAIN job'[v].batch
                 PROVE  WasMember(st, sheet[job[v].sheet].class, sheet[job[v].sheet].date)'
    BY DEF MarksChecked
  <2>2. v # w /\ pc[v] = "commit" /\ job'[v] = job[v]
    BY <1>3, <2>1
  <2>3. sheet'[job[v].sheet] = sheet[job[v].sheet]
    BY <2>1, <2>2
  <2>4. WasMember(st, sheet[job[v].sheet].class, sheet[job[v].sheet].date)
    BY <2>1, <2>2, <2>3 DEF AttendanceInv, MarksChecked
  <2>5. sheet'[job'[v].sheet] = sheet[job[v].sheet] /\ joined' = joined
    BY <1>1, <2>2, <2>3 DEF rosterVars
  <2> QED
    BY <2>2, <2>4, <2>5 DEF WasMember
<1> QED
  BY <1>4, <1>5, <1>6 DEF AttendanceInv

LEMMA FailInv ==
  ASSUME AttendanceAssumption, AttendanceInv, NEW w \in Requests, Fail(w)
  PROVE  AttendanceInv'
<1>1. Finish(w) /\ UNCHANGED <<tableVars, joined, classes>>
  BY DEF Fail, Finish, rosterVars
<1>2. RegistersStand' /\ MarkedOnlyMembers'
  BY <1>1 DEF AttendanceInv, RegistersStand, OneRegisterPerDay, RegistersHaveClasses,
              MarkedOnlyMembers, tableVars
<1> QED
  BY <1>1, <1>2, FinishInv DEF AttendanceInv, AttendanceTypeOK, tableVars

LEMMA NoJobFields ==
  /\ NoJob \in [op : {"none"}, class : {None}, date : {0}, sheet : {None}, batch : {NoSeen}]
  /\ NoSeen \in [Students -> Mark \cup {None}]
  BY DEF NoJob, NoSeen

LEMMA FindClassInv ==
  ASSUME AttendanceAssumption, AttendanceInv, NEW w \in Requests, FindClass(w)
  PROVE  AttendanceInv'
<1>1. PICK c \in classes, d \in Days :
        Begin(w, [NoJob EXCEPT !.op = "open", !.class = c, !.date = d], "existing")
  BY DEF FindClass
<1> DEFINE j == [NoJob EXCEPT !.op = "open", !.class = c, !.date = d]
<1>2. j \in [op : {"open"}, class : Classes, date : Days, sheet : {None}, batch : {NoSeen}]
  BY NoJobFields DEF AttendanceInv, AttendanceTypeOK
<1>3. j \in Jobs /\ j.op = "open"
  BY <1>2 DEF Jobs, AttendanceInv, AttendanceTypeOK
<1>4. Begin(w, j, "existing") /\ view' = view
  BY <1>1 DEF FindClass
<1> HIDE DEF j
<1> QED
  BY <1>3, <1>4, BeginInv DEF AttendanceInv, AttendanceTypeOK

LEMMA FindSheetInv ==
  ASSUME AttendanceAssumption, AttendanceInv, NEW w \in Requests, FindSheet(w)
  PROVE  AttendanceInv'
<1>1. PICK op \in {"mark", "replace"}, x \in Sheets, b \in Batches :
        /\ Begin(w, [NoJob EXCEPT !.op = op, !.sheet = x, !.batch = b], "roster")
        /\ view' = [view EXCEPT ![w] = mark[x]]
  BY DEF FindSheet
<1> DEFINE j == [NoJob EXCEPT !.op = op, !.sheet = x, !.batch = b]
<1>2. j \in [op : {"mark", "replace"}, class : {None}, date : {0}, sheet : Sheets, batch : Batches]
  BY NoJobFields
<1>3. j \in Jobs /\ j.op \in {"mark", "replace"}
  BY <1>2 DEF Jobs
<1>4. Begin(w, j, "roster")
  BY <1>1
<1>5. view' \in [Requests -> [Students -> Mark \cup {None}]]
  BY <1>1 DEF AttendanceInv, AttendanceTypeOK
<1> HIDE DEF j
<1> QED
  BY <1>3, <1>4, <1>5, BeginInv

LEMMA FindDoomedInv ==
  ASSUME AttendanceAssumption, AttendanceInv, NEW w \in Requests, FindDoomed(w)
  PROVE  AttendanceInv'
<1>1. PICK x \in Sheets :
        /\ Begin(w, [NoJob EXCEPT !.op = "delete", !.sheet = x], "commit")
        /\ view' = [view EXCEPT ![w] = mark[x]]
  BY DEF FindDoomed
<1> DEFINE j == [NoJob EXCEPT !.op = "delete", !.sheet = x]
<1>2. j \in [op : {"delete"}, class : {None}, date : {0}, sheet : Sheets, batch : {NoSeen}]
  BY NoJobFields
<1>3. j \in Jobs /\ j.op = "delete"
  BY <1>2 DEF Jobs
<1>4. Begin(w, j, "commit")
  BY <1>1
<1>5. view' \in [Requests -> [Students -> Mark \cup {None}]]
  BY <1>1 DEF AttendanceInv, AttendanceTypeOK
<1> HIDE DEF j
<1> QED
  BY <1>3, <1>4, <1>5, BeginInv

LEMMA FindExistingInv ==
  ASSUME AttendanceAssumption, AttendanceInv, NEW w \in Requests,
         FindExisting(w) \/ OpenRoster(w)
  PROVE  AttendanceInv'
<1>1. CASE Fail(w)
  BY <1>1, FailInv
<1>2. CASE FindExisting(w) /\ Proceed(w, "roster")
  BY <1>2, ProceedInv DEF FindExisting, At
<1>3. CASE OpenRoster(w) /\ Proceed(w, "commit")
  BY <1>3, ProceedInv DEF OpenRoster, At
<1> QED
  BY <1>1, <1>2, <1>3 DEF FindExisting, OpenRoster

\* Whoever is on a roster joined in time.
LEMMA RosterJoined ==
  ASSUME AttendanceAssumption, AttendanceInv, NEW c, NEW d \in Days, NEW st \in Roster(c, d)
  PROVE  WasMember(st, c, d)
<1>1. /\ st \in Students /\ enrolled[st] # None /\ enrolled[st].class = c
      /\ enrolled[st].at < EndOfDay(d)
  BY DEF Roster
<1>2. enrolled[st].at \in Instants
  BY <1>1 DEF AttendanceInv, AttendanceTypeOK
<1>3. d \in Nat
  BY InstantDays, ClockAgrees DEF Days
<1>4. CollegeDate(enrolled[st].at) \in Days /\ CollegeDate(enrolled[st].at) <= d
  BY <1>1, <1>2, <1>3, InstantDays, ClockAgrees
<1> QED
  BY <1>1, <1>4 DEF WasMember, AttendanceInv, JoiningKnown

LEMMA SheetTyped ==
  ASSUME AttendanceInv, NEW x \in Sheets, sheet[x] # None
  PROVE  sheet[x] \in [class : Classes, date : Days]
  BY DEF AttendanceInv, AttendanceTypeOK

LEMMA JobOf ==
  ASSUME AttendanceInv, NEW w \in Requests PROVE job[w] \in Jobs
  BY DEF AttendanceInv, AttendanceTypeOK

LEMMA MarksRosterInv ==
  ASSUME AttendanceAssumption, AttendanceInv, NEW w \in Requests, MarksRoster(w)
  PROVE  AttendanceInv'
<1>1. CASE Fail(w)
  BY <1>1, FailInv
<1>2. CASE ValidMarks(w) /\ Proceed(w, "commit")
  <2>1. ASSUME job[w].op \in {"mark", "replace"}, sheet[job[w].sheet] # None,
               NEW st \in DOMAIN job[w].batch
        PROVE  WasMember(st, sheet[job[w].sheet].class, sheet[job[w].sheet].date)
    <3>1. job[w].sheet \in Sheets
      BY <2>1, JobOf, JobShapes
    <3>2. sheet[job[w].sheet].date \in Days
      BY <2>1, <3>1, SheetTyped
    <3>3. st \in Roster(sheet[job[w].sheet].class, sheet[job[w].sheet].date)
      BY <1>2, <2>1 DEF ValidMarks
    <3> QED
      BY <3>2, <3>3, RosterJoined
  <2>2. pc[w] # "idle"
    BY DEF MarksRoster, At
  <2> QED
    BY <1>2, <2>1, <2>2, ProceedInv
<1> QED
  BY <1>1, <1>2 DEF MarksRoster

-----------------------------------------------------------------------------
(* Commits.                                                                *)

LEMMA CommitOpenInv ==
  ASSUME AttendanceAssumption, AttendanceInv, NEW w \in Requests, CommitOpen(w)
  PROVE  AttendanceInv'
<1>1. job[w].op = "open" /\ job[w].class \in Classes /\ job[w].date \in Days
  BY JobOf, JobShapes DEF CommitOpen
<1>2. CASE Fail(w)
  BY <1>2, FailInv
<1>3. ASSUME MayInsertSheet(w), NEW x \in Sheets, FreshSheet(x),
             sheet' = [sheet EXCEPT ![x] = [class |-> job[w].class, date |-> job[w].date]],
             UNCHANGED mark, Finish(w)
      PROVE  AttendanceInv'
  <2> DEFINE rec == [class |-> job[w].class, date |-> job[w].date]
  <2>1. /\ job[w].class \in classes /\ \A y \in Sheets : sheet[y] # rec
        /\ sheet[x] = None /\ \A v \in Requests : job[v].sheet # x
    BY <1>3 DEF MayInsertSheet, FreshSheet
  <2>2. /\ sheet \in [Sheets -> [class : Classes, date : Days] \cup {None}]
        /\ mark \in [Sheets -> [Students -> Mark \cup {None}]]
    BY DEF AttendanceInv, AttendanceTypeOK
  <2>3. /\ sheet' \in [Sheets -> [class : Classes, date : Days] \cup {None}]
        /\ sheet'[x] = rec /\ \A y \in Sheets \ {x} : sheet'[y] = sheet[y]
    BY <1>1, <1>3, <2>2
  <2>4. rec.class = job[w].class
    OBVIOUS
  <2> HIDE DEF rec
  <2>5. UNCHANGED <<classes, joined>>
    BY <1>3 DEF Finish, rosterVars
  <2>6. RegistersStand'
    BY <2>1, <2>3, <2>4, <2>5 DEF AttendanceInv, RegistersStand, OneRegisterPerDay, RegistersHaveClasses
  <2>7. MarkedOnlyMembers'
    BY <1>3, <2>1, <2>3, <2>5 DEF AttendanceInv, MarkedOnlyMembers
  <2>8. \A v \in Requests \ {w} : job[v].op \in {"mark", "replace"} =>
          sheet'[job[v].sheet] = sheet[job[v].sheet]
    BY <2>1, <2>3, JobOf, JobShapes
  <2> QED
    BY <1>3, <2>2, <2>3, <2>6, <2>7, <2>8, FinishInv
<1> QED
  BY <1>2, <1>3 DEF CommitOpen

LEMMA CommitDeleteInv ==
  ASSUME AttendanceAssumption, AttendanceInv, NEW w \in Requests, CommitDelete(w)
  PROVE  AttendanceInv'
<1> DEFINE x == job[w].sheet
<1>1. x \in Sheets
  BY JobOf, JobShapes DEF CommitDelete
<1>2. /\ sheet' = [sheet EXCEPT ![x] = None] /\ mark' = [mark EXCEPT ![x] = NoSeen] /\ Finish(w)
  BY DEF CommitDelete
<1> HIDE DEF x
<1>3. /\ sheet \in [Sheets -> [class : Classes, date : Days] \cup {None}]
      /\ mark \in [Sheets -> [Students -> Mark \cup {None}]]
  BY DEF AttendanceInv, AttendanceTypeOK
<1>4. /\ sheet' \in [Sheets -> [class : Classes, date : Days] \cup {None}]
      /\ mark' \in [Sheets -> [Students -> Mark \cup {None}]]
      /\ sheet'[x] = None /\ \A st \in Students : mark'[x][st] = None
      /\ \A y \in Sheets \ {x} : sheet'[y] = sheet[y] /\ mark'[y] = mark[y]
  BY <1>1, <1>2, <1>3, NoJobFields DEF NoSeen
<1>5. UNCHANGED <<classes, joined>>
  BY <1>2 DEF Finish, rosterVars
<1>6. RegistersStand'
  BY <1>4, <1>5 DEF AttendanceInv, RegistersStand, OneRegisterPerDay, RegistersHaveClasses
<1>7. MarkedOnlyMembers'
  BY <1>4, <1>5 DEF AttendanceInv, MarkedOnlyMembers
<1>8. \A v \in Requests \ {w} : job[v].op \in {"mark", "replace"} =>
        sheet'[job[v].sheet] \in {None, sheet[job[v].sheet]}
  BY <1>4, JobOf, JobShapes
<1> QED
  BY <1>2, <1>4, <1>6, <1>7, <1>8, FinishInv

\* The new mark gets a primary key that no other request remembers.
LEMMA FreshMarkExists ==
  ASSUME AttendanceAssumption, AttendanceInv, NEW w \in Requests, NEW st \in Students,
         view[w][st] = None
  PROVE  FreshMark(st) \in MarkIds
<1> DEFINE read == [v \in Requests \ {w} |-> IF view[v][st] # None THEN view[v][st].id ELSE None]
<1>1. \A v \in Requests : view[v][st] # None => view[v][st].id \in MarkIds
  BY DEF AttendanceInv, AttendanceTypeOK, Mark
<1>2. read \in [Requests \ {w} -> MarkIds \cup {None}]
  BY <1>1
<1>3. PICK i \in MarkIds : \A v \in Requests \ {w} : read[v] # i
  BY <1>2 DEF AttendanceAssumption
<1>4. \A v \in Requests : view[v][st] # None => view[v][st].id # i
  BY <1>3
<1> QED
  BY <1>4 DEF FreshMark

LEMMA WrittenTyped ==
  ASSUME AttendanceAssumption, AttendanceInv, NEW w \in Requests,
         job[w].op \in {"mark", "replace"}, MayWriteMarks(w), NEW st \in Named(w)
  PROVE  /\ Written(w, st) \in Mark
         /\ view[w][st] # None => Written(w, st).id = mark[job[w].sheet][st].id
         /\ view[w][st] = None => mark[job[w].sheet][st] = None
         /\ st \in Students
<1>1. /\ st \in Students /\ job[w].batch[st] \in Statuses /\ job[w].sheet \in Sheets
  BY JobOf, JobShapes DEF Named
<1>2. CASE view[w][st] = None
  <2>1. FreshMark(st) \in MarkIds
    BY <1>1, <1>2, FreshMarkExists
  <2>2. mark[job[w].sheet][st] = None
    BY <1>2 DEF MayWriteMarks
  <2> QED
    BY <1>1, <1>2, <2>1, <2>2 DEF Written, Mark
<1>3. CASE view[w][st] # None
  <2>1. mark[job[w].sheet][st] # None /\ mark[job[w].sheet][st].id = view[w][st].id
    BY <1>3 DEF MayWriteMarks
  <2>2. mark[job[w].sheet][st] \in Mark /\ view[w][st] \in Mark
    BY <1>1, <1>3, <2>1 DEF AttendanceInv, AttendanceTypeOK
  <2> QED
    BY <1>1, <1>3, <2>1, <2>2 DEF Written, Mark
<1> QED
  BY <1>2, <1>3

\* What saving marks does to one mark.
LEMMA SavedMark ==
  ASSUME AttendanceAssumption, AttendanceInv, NEW w \in Requests,
         job[w].op \in {"mark", "replace"}, MayWriteMarks(w),
         mark' = [mark EXCEPT ![job[w].sheet] =
                    [st \in Students |-> IF st \in Named(w) THEN Written(w, st)
                                         ELSE IF st \in Removed(w) THEN None ELSE @[st]]]
  PROVE  /\ job[w].sheet \in Sheets
         /\ \A y \in Sheets \ {job[w].sheet} : mark'[y] = mark[y]
         /\ \A st \in Students :
              mark'[job[w].sheet][st] = IF st \in Named(w) THEN Written(w, st)
                                        ELSE IF st \in Removed(w) THEN None
                                        ELSE mark[job[w].sheet][st]
         /\ mark' \in [Sheets -> [Students -> Mark \cup {None}]]
<1> DEFINE x == job[w].sheet
           new == [st \in Students |-> IF st \in Named(w) THEN Written(w, st)
                                       ELSE IF st \in Removed(w) THEN None ELSE mark[x][st]]
<1>1. x \in Sheets /\ mark \in [Sheets -> [Students -> Mark \cup {None}]]
  BY JobOf, JobShapes DEF AttendanceInv, AttendanceTypeOK
<1>2. mark' = [mark EXCEPT ![x] = new]
  OBVIOUS
<1>3. new \in [Students -> Mark \cup {None}]
  <2>1. ASSUME NEW st \in Students
        PROVE  (IF st \in Named(w) THEN Written(w, st)
                ELSE IF st \in Removed(w) THEN None ELSE mark[x][st]) \in Mark \cup {None}
    <3>1. st \in Named(w) => Written(w, st) \in Mark
      BY WrittenTyped
    <3>2. mark[x][st] \in Mark \cup {None}
      BY <1>1
    <3> QED
      BY <3>1, <3>2
  <2> QED
    BY <2>1
<1> DEFINE Column == [Students -> Mark \cup {None}]
<1> HIDE DEF x, new
<1>4. mark \in [Sheets -> Column] /\ new \in Column
  BY <1>1, <1>3
<1> HIDE DEF Column
<1>5. /\ mark'[x] = new /\ \A y \in Sheets \ {x} : mark'[y] = mark[y]
      /\ mark' \in [Sheets -> Column]
  <2>1. mark' \in [Sheets -> Column]
    BY <1>2, <1>4
  <2>2. mark'[x] = new
    BY <1>1, <1>2, <1>4
  <2>3. \A y \in Sheets \ {x} : mark'[y] = mark[y]
    BY <1>2, <1>4
  <2> QED
    BY <2>1, <2>2, <2>3
<1>6. \A st \in Students :
         mark'[x][st] = IF st \in Named(w) THEN Written(w, st)
                        ELSE IF st \in Removed(w) THEN None ELSE mark[x][st]
  BY <1>5 DEF new
<1>7. mark' \in [Sheets -> [Students -> Mark \cup {None}]]
  BY <1>5 DEF Column
<1> QED
  BY <1>1, <1>5, <1>6, <1>7 DEF x

LEMMA CommitMarksInv ==
  ASSUME AttendanceAssumption, AttendanceInv, NEW w \in Requests, CommitMarks(w)
  PROVE  AttendanceInv'
<1>1. job[w].op \in {"mark", "replace"} /\ pc[w] = "commit"
  BY DEF CommitMarks, At
<1>2. CASE Fail(w)
  BY <1>2, FailInv
<1>3. CASE /\ MayWriteMarks(w)
           /\ mark' = [mark EXCEPT ![job[w].sheet] =
                  [st \in Students |-> IF st \in Named(w) THEN Written(w, st)
                                       ELSE IF st \in Removed(w) THEN None ELSE @[st]]]
           /\ UNCHANGED sheet /\ Finish(w)
  <2> DEFINE x == job[w].sheet
  <2>1. /\ x \in Sheets /\ \A y \in Sheets \ {x} : mark'[y] = mark[y]
        /\ \A st \in Students : mark'[x][st] = IF st \in Named(w) THEN Written(w, st)
                                               ELSE IF st \in Removed(w) THEN None ELSE mark[x][st]
        /\ mark' \in [Sheets -> [Students -> Mark \cup {None}]]
    BY <1>1, <1>3, SavedMark
  <2>2. UNCHANGED <<classes, joined>>
    BY <1>3 DEF Finish, rosterVars
  <2>3. RegistersStand'
    BY <1>3, <2>2 DEF AttendanceInv, RegistersStand, OneRegisterPerDay, RegistersHaveClasses
  <2>4. sheet[x] # None
    BY <1>3 DEF MayWriteMarks
  <2>5. \A st \in Named(w) : WasMember(st, sheet[x].class, sheet[x].date)
    BY <1>1, <2>4 DEF AttendanceInv, MarksChecked, Named
  <2> HIDE DEF x
  <2>6. ASSUME NEW y \in Sheets, NEW st \in Students, mark'[y][st] # None
        PROVE  /\ sheet'[y] # None
               /\ \E d \in Days : d <= sheet'[y].date /\ <<st, sheet'[y].class, d>> \in joined'
    <3>1. CASE mark[y][st] # None
      BY <1>3, <2>2, <2>6, <3>1 DEF AttendanceInv, MarkedOnlyMembers
    <3>2. CASE mark[y][st] = None
      <4>1. y = x /\ st \in Named(w)
        BY <2>1, <2>6, <3>2
      <4> QED
        BY <1>3, <2>2, <2>4, <2>5, <4>1 DEF WasMember
    <3> QED
      BY <3>1, <3>2
  <2>7. MarkedOnlyMembers'
    BY <2>6 DEF MarkedOnlyMembers
  <2> QED
    BY <1>3, <2>1, <2>3, <2>7, FinishInv DEF AttendanceInv, AttendanceTypeOK
<1> QED
  BY <1>2, <1>3 DEF CommitMarks

-----------------------------------------------------------------------------
(* Every step.                                                             *)

LEMMA NextInv ==
  ASSUME AttendanceAssumption, AttendanceInv, [Next]_vars
  PROVE  AttendanceInv'
<1>1. CASE UNCHANGED vars
  BY <1>1 DEF vars, rosterVars, tableVars, AttendanceInv, AttendanceTypeOK, RegistersStand,
              OneRegisterPerDay, RegistersHaveClasses, MarkedOnlyMembers, JoiningKnown,
              MarksChecked, WasMember
<1>2. ASSUME NEW w \in Requests, RequestStep(w) PROVE AttendanceInv'
  BY <1>2, FindClassInv, FindExistingInv, CommitOpenInv, FindSheetInv, MarksRosterInv,
     CommitMarksInv, FindDoomedInv, CommitDeleteInv DEF RequestStep
<1>3. CASE Next
  BY <1>2, <1>3, TickInv, LeaveInv, JoinInv, DeleteClassInv DEF Next
<1> QED
  BY <1>1, <1>3

LEMMA InvAlways == Spec => []AttendanceInv
<1>1. Init => AttendanceInv
  BY InitInv, AttendanceAssumption
<1>2. AttendanceInv /\ [Next]_vars => AttendanceInv'
  BY NextInv, AttendanceAssumption
<1> QED
  BY <1>1, <1>2, PTL DEF Spec

-----------------------------------------------------------------------------
(* The report of a student against the registers.                          *)

LEMMA BlanksCounted ==
  ASSUME AttendanceAssumption, AttendanceInv, NEW st \in Students, enrolled[st] # None,
         \A x \in MarkedOn(st) : st \in Roster(sheet[x].class, sheet[x].date)
  PROVE  UnmarkedDays(st) = Cardinality({x \in Sheets : st \in UnmarkedOn(x)})
<1> DEFINE E == Eligible(st)
           M == MarkedOn(st)
           B == {x \in Sheets : st \in UnmarkedOn(x)}
<1>1. enrolled[st].at \in Nat
  BY InstantDays DEF AttendanceInv, AttendanceTypeOK
<1>2. ASSUME NEW x \in Sheets, sheet[x] # None
      PROVE  x \in E <=> st \in Roster(sheet[x].class, sheet[x].date)
  <2>1. sheet[x].date \in Nat
    BY <1>2, SheetTyped, InstantDays, ClockAgrees DEF Days
  <2>2. enrolled[st].at < EndOfDay(sheet[x].date) <=> CollegeDate(enrolled[st].at) <= sheet[x].date
    BY <1>1, <2>1, ClockAgrees
  <2>3. CollegeDate(enrolled[st].at) \in Nat
    BY <1>1, ClockAgrees
  <2> QED
    BY <1>2, <2>1, <2>2, <2>3 DEF Eligible, Roster
<1>3. \A x \in E : x \in Sheets /\ sheet[x] # None
  BY DEF Eligible
<1>4. \A x \in M : x \in Sheets /\ sheet[x] # None /\ mark[x][st] # None
  BY DEF MarkedOn, AttendanceInv, MarkedOnlyMembers
<1>5. M \subseteq E
  BY <1>2, <1>4
<1>6. B = E \ M
  <2>1. ASSUME NEW x \in Sheets PROVE x \in B <=> x \in E /\ x \notin M
    <3>1. CASE sheet[x] = None
      BY <1>3, <3>1 DEF UnmarkedOn
    <3>2. CASE sheet[x] # None
      BY <1>2, <3>2 DEF UnmarkedOn, MarkedOn
    <3> QED
      BY <3>1, <3>2
  <2> QED
    BY <1>3, <2>1
<1>7. E \subseteq Sheets /\ IsFiniteSet(Sheets)
  BY <1>3 DEF AttendanceAssumption
<1> HIDE DEF E, M, B
<1>8. IsFiniteSet(E) /\ IsFiniteSet(M)
  BY <1>5, <1>7, FS_Subset
<1>9. Cardinality(B) = Cardinality(E) - Cardinality(M)
  <2>1. Cardinality(E \ M) = Cardinality(E) - Cardinality(E \cap M)
    BY <1>8, FS_Difference
  <2>2. E \cap M = M
    BY <1>5
  <2> QED
    BY <1>6, <2>1, <2>2
<1>10. Cardinality(E) \in Nat /\ Cardinality(M) \in Nat /\ Cardinality(M) <= Cardinality(E)
  BY <1>5, <1>8, FS_CardinalityType, FS_Subset
<1>11. UnmarkedDays(st) = IF Cardinality(M) >= Cardinality(E) THEN 0
                          ELSE Cardinality(E) - Cardinality(M)
  BY DEF UnmarkedDays, E, M
<1> QED
  BY <1>9, <1>10, <1>11 DEF B

-----------------------------------------------------------------------------
(* Removal.                                                                *)

LEMMA SaveSeesWhatItRemoves ==
  ASSUME AttendanceAssumption, AttendanceInv, NEW w \in Requests, CommitMarks(w),
         NEW x \in Sheets, NEW st \in Students, mark[x][st] # None,
         mark'[x][st] = None \/ mark'[x][st].id # mark[x][st].id
  PROVE  job[w].sheet = x /\ view[w][st] # None /\ view[w][st].id = mark[x][st].id
<1>1. job[w].op \in {"mark", "replace"}
  BY DEF CommitMarks
<1>2. /\ MayWriteMarks(w)
      /\ mark' = [mark EXCEPT ![job[w].sheet] =
                  [s \in Students |-> IF s \in Named(w) THEN Written(w, s)
                                      ELSE IF s \in Removed(w) THEN None ELSE @[s]]]
  BY DEF CommitMarks, Fail, tableVars
<1>3. /\ job[w].sheet \in Sheets
      /\ \A y \in Sheets \ {job[w].sheet} : mark'[y] = mark[y]
      /\ mark'[job[w].sheet][st] = IF st \in Named(w) THEN Written(w, st)
                                   ELSE IF st \in Removed(w) THEN None
                                   ELSE mark[job[w].sheet][st]
  BY <1>1, <1>2, SavedMark
<1>4. job[w].sheet = x
  BY <1>3
<1>5. CASE st \in Named(w)
  <2>1. /\ Written(w, st) \in Mark /\ view[w][st] # None
        /\ Written(w, st).id = mark[x][st].id
    BY <1>1, <1>2, <1>4, <1>5, WrittenTyped
  <2> QED
    BY <1>3, <1>4, <1>5, <2>1 DEF AttendanceAssumption
<1>6. CASE st \notin Named(w)
  BY <1>3, <1>4, <1>6 DEF Removed
<1> QED
  BY <1>5, <1>6

LEMMA NoStepRemovesBlindly ==
  ASSUME AttendanceAssumption, AttendanceInv, [Next]_vars, NEW x \in Sheets, NEW st \in Students,
         mark[x][st] # None, mark'[x][st] = None \/ mark'[x][st].id # mark[x][st].id
  PROVE  \/ sheet'[x] = None
         \/ \E w \in Requests : /\ job[w].sheet = x
                                /\ view[w][st] # None
                                /\ view[w][st].id = mark[x][st].id
<1>1. mark' # mark
  OBVIOUS
<1>2. CASE \E w \in Requests : CommitMarks(w)
  <2>1. PICK w \in Requests : CommitMarks(w)
    BY <1>2
  <2>2. /\ job[w].sheet = x
        /\ view[w][st] # None
        /\ view[w][st].id = mark[x][st].id
    BY <2>1, SaveSeesWhatItRemoves, SMTT(30)
  <2> QED
    BY <2>2
<1>3. CASE \E w \in Requests : CommitDelete(w)
  <2>1. PICK w \in Requests : CommitDelete(w)
    BY <1>3
  <2>2. /\ sheet' = [sheet EXCEPT ![job[w].sheet] = None]
        /\ mark' = [mark EXCEPT ![job[w].sheet] = NoSeen]
    BY <2>1 DEF CommitDelete
  <2>3. /\ mark \in [Sheets -> [Students -> Mark \cup {None}]]
        /\ sheet \in [Sheets -> [class : Classes, date : Days] \cup {None}]
    BY DEF AttendanceInv, AttendanceTypeOK
  <2>4. job[w].sheet = x
    BY <2>2, <2>3
  <2> QED
    BY <2>2, <2>3, <2>4
<1>4. CASE UNCHANGED vars \/ Tick \/ \E s \in Students : Leave(s) \/ \E c \in Classes : Join(s, c)
  BY <1>1, <1>4 DEF vars, tableVars, Tick, Leave, Join
<1>5. CASE \E c \in Classes : DeleteClass(c)
  BY <1>1, <1>5 DEF DeleteClass, tableVars
<1>6. \A w \in Requests : Fail(w) \/ (\E label : Proceed(w, label)) => mark' = mark
  BY DEF Fail, Proceed, tableVars
<1>7. CASE \E w \in Requests : RequestStep(w) /\ ~ CommitMarks(w) /\ ~ CommitDelete(w)
  <2>1. PICK w \in Requests : RequestStep(w) /\ ~ CommitMarks(w) /\ ~ CommitDelete(w)
    BY <1>7
  <2>2. \A j, label : Begin(w, j, label) => mark' = mark
    BY DEF Begin, tableVars
  <2>3. CASE FindClass(w) \/ FindSheet(w) \/ FindDoomed(w)
    BY <1>1, <2>2, <2>3 DEF FindClass, FindSheet, FindDoomed
  <2>4. CASE FindExisting(w) \/ OpenRoster(w) \/ MarksRoster(w)
    BY <1>1, <1>6, <2>4 DEF FindExisting, OpenRoster, MarksRoster
  <2>5. CASE CommitOpen(w)
    BY <1>1, <1>6, <2>5 DEF CommitOpen
  <2> QED
    BY <2>1, <2>3, <2>4, <2>5 DEF RequestStep
<1> QED
  BY <1>2, <1>3, <1>4, <1>5, <1>7 DEF Next

-----------------------------------------------------------------------------
(* Theorems.                                                               *)

\* The tables, the requests and the clock keep their types; a new mark always
\* finds a primary key.
THEOREM AttendanceTypes == Spec => []AttendanceTypeOK
<1>1. AttendanceInv => AttendanceTypeOK
  BY DEF AttendanceInv
<1> QED
  BY <1>1, InvAlways, PTL

\* A class has one register a day and a register its class, for any number of
\* clerks opening registers and administrators deleting classes.
THEOREM RegistersAlwaysStand == Spec => []RegistersStand
<1>1. AttendanceInv => RegistersStand
  BY DEF AttendanceInv
<1> QED
  BY <1>1, InvAlways, PTL

\* Nobody is marked for a class they had not joined by the register's date, for
\* every day length and every difference between the two clocks.
THEOREM OnlyMembersMarked == Spec => []MarkedOnlyMembers
<1>1. AttendanceInv => MarkedOnlyMembers
  BY DEF AttendanceInv
<1> QED
  BY <1>1, InvAlways, PTL

\* The student's report counts the blanks the registers show, although one
\* compares days and the other instants.
THEOREM BlanksAlwaysAgree == Spec => []BlanksAgree
<1>1. AttendanceInv => BlanksAgree
  BY BlanksCounted, AttendanceAssumption DEF BlanksAgree
<1> QED
  BY <1>1, InvAlways, PTL

\* A mark goes only with its sheet or by a request that has read that very mark.
THEOREM NothingRemovedBlindly == Spec => NoBlindRemoval
<1>1. AttendanceInv /\ [Next]_vars =>
        [\A x \in Sheets, st \in Students :
           (mark[x][st] # None /\ (mark'[x][st] = None \/ mark'[x][st].id # mark[x][st].id))
           => \/ sheet'[x] = None
              \/ \E w \in Requests : /\ job[w].sheet = x
                                     /\ view[w][st] # None
                                     /\ view[w][st].id = mark[x][st].id]_vars
  BY NoStepRemovesBlindly, AttendanceAssumption
<1> QED
  BY <1>1, InvAlways, PTL DEF Spec, NoBlindRemoval
=============================================================================
