---------------------------- MODULE SubjectAdmin ----------------------------
(***************************************************************************)
(* The administrative work that touches the tables of SeatDb: replacing    *)
(* the classes a subject is taught to, changing its student limit,         *)
(* deleting a subject or a class (app/services/subjects.py and             *)
(* classes.py), and the command that recomputes the counters               *)
(* (app/cli/reconcile_counts.py).                                          *)
(*                                                                         *)
(*   setClasses     subject -> wanted -> blocked -> flush                  *)
(*   setLimit       subject -> flush                                       *)
(*   deleteSubject  subject -> holders -> flush                            *)
(*   deleteClass    class -> holders -> flush                              *)
(*   reconcile      tally -> scan -> fix                                   *)
(*                                                                         *)
(* Each checks first and writes later, in separate statements.             *)
(***************************************************************************)
EXTENDS SeatDb

CONSTANTS
  Admins,      \* administrative sessions open at the same time
  AdminOps,    \* the operations exercised
  Limits       \* the limits an administrator sets

ASSUME SubjectAdminAssumption ==
  /\ Admins \subseteq Sessions
  /\ AdminOps \subseteq {"setClasses", "setLimit", "deleteSubject", "deleteClass", "reconcile"}
  /\ Limits \subseteq Nat \ {0}

VARIABLES
  apc,      \* the statement an administrative session is about to run
  ajob,     \* what it was asked to do
  aview     \* what it has read

adminVars == <<apc, ajob, aview>>

AdminLabels ==
  {"idle", "subject", "wanted", "blocked", "class", "holders", "tally", "scan", "fix", "flush"}

NoAdminJob == [op |-> "none", subject |-> None, class |-> None, classes |-> {}, limit |-> 0]
NoAdminView == [classes |-> {}, limit |-> 0, tally |-> [s \in Subjects |-> 0]]

AdminJobs ==
  [op : {"none", "reconcile"}, subject : {None}, class : {None}, classes : {{}}, limit : {0}]
  \cup [op : {"setClasses"}, subject : Subjects, class : {None}, classes : SUBSET Classes, limit : {0}]
  \cup [op : {"setLimit"}, subject : Subjects, class : {None}, classes : {{}}, limit : Limits]
  \cup [op : {"deleteSubject"}, subject : Subjects, class : {None}, classes : {{}}, limit : {0}]
  \cup [op : {"deleteClass"}, subject : {None}, class : Classes, classes : {{}}, limit : {0}]
AdminViews == [classes : SUBSET Classes, limit : Nat, tally : [Subjects -> Nat]]

AdminTypeOK ==
  /\ apc \in [Admins -> AdminLabels]
  /\ ajob \in [Admins -> AdminJobs]
  /\ aview \in [Admins -> AdminViews]

AdminInit ==
  /\ apc = [a \in Admins |-> "idle"]
  /\ ajob = [a \in Admins |-> NoAdminJob]
  /\ aview = [a \in Admins |-> NoAdminView]

-----------------------------------------------------------------------------
(* Bookkeeping of one administrative session.                              *)

AdminAt(a, op, label) == apc[a] = label /\ ajob[a].op = op

AdminGoto(a, label) == apc' = [apc EXCEPT ![a] = label]

AdminFinish(a) ==
  /\ AdminGoto(a, "idle")
  /\ ajob' = [ajob EXCEPT ![a] = NoAdminJob]
  /\ aview' = [aview EXCEPT ![a] = NoAdminView]

AdminFail(a) == AdminFinish(a) /\ Rollback(a)

AdminRefuse(a) == AdminFinish(a) /\ UNCHANGED dbVars

\* A check that passed: on to the next statement.
AdminProceed(a, label) == AdminGoto(a, label) /\ UNCHANGED <<dbVars, ajob, aview>>

AdminStart(a, label, request) ==
  /\ apc[a] = "idle"
  /\ request.op \in AdminOps
  /\ AdminGoto(a, label)
  /\ ajob' = [ajob EXCEPT ![a] = request]
  /\ UNCHANGED <<dbVars, aview>>

BeginAdmin(a) ==
  \/ \E s \in subjects, cs \in SUBSET Classes :
       AdminStart(a, "subject", [op |-> "setClasses", subject |-> s, class |-> None,
                                 classes |-> cs, limit |-> 0])
  \/ \E s \in subjects, l \in Limits :
       AdminStart(a, "subject", [op |-> "setLimit", subject |-> s, class |-> None,
                                 classes |-> {}, limit |-> l])
  \/ \E s \in subjects :
       AdminStart(a, "subject", [op |-> "deleteSubject", subject |-> s, class |-> None,
                                 classes |-> {}, limit |-> 0])
  \/ \E c \in classes :
       AdminStart(a, "class", [op |-> "deleteClass", subject |-> None, class |-> c,
                               classes |-> {}, limit |-> 0])
  \/ AdminStart(a, "tally", [op |-> "reconcile", subject |-> None, class |-> None,
                               classes |-> {}, limit |-> 0])

-----------------------------------------------------------------------------
(* Mutants.                                                                *)

HeldSubject_Never(s) == FALSE
DeleteClass_NoCascade(a) ==
  /\ AdminAt(a, "deleteClass", "flush")
  /\ EnrolledIn(ajob[a].class) = {}
  /\ classes' = classes \ {ajob[a].class}
  /\ AdminFinish(a)
  /\ UNCHANGED <<rosterVars, seatVars, subjects, offered, limit>>

-----------------------------------------------------------------------------
(* services/subjects.py: set_classes.                                      *)

\* Both get_subject's SELECT and the selectin load of its classes.
ReadLinks(a) ==
  LET s == ajob[a].subject IN
  /\ AdminAt(a, "setClasses", "subject")
  /\ IF s \in subjects
     THEN /\ aview' = [aview EXCEPT ![a].classes = {c \in Classes : s \in offered[c]}]
          /\ AdminGoto(a, "wanted")
          /\ UNCHANGED <<dbVars, ajob>>
     ELSE AdminRefuse(a)

ReadWanted(a) ==
  /\ AdminAt(a, "setClasses", "wanted")
  /\ IF ajob[a].classes \subseteq classes THEN AdminProceed(a, "blocked") ELSE AdminRefuse(a)

\* Students of a class about to be detached who hold the subject.
BlockedBy(s, cs) == \E c \in cs : EnrolledIn(c) \cap Takers(s) # {}

CheckBlocked(a) ==
  /\ AdminAt(a, "setClasses", "blocked")
  /\ IF BlockedBy(ajob[a].subject, aview[a].classes \ ajob[a].classes)
     THEN AdminRefuse(a)
     ELSE AdminProceed(a, "flush")

\* class_subjects rows of the subject: the ORM deletes and inserts the
\* difference to what it loaded.
Relinked(now, had, want) == (now \ (had \ want)) \cup (want \ had)

\* Foreign keys and primary key of the links to insert.
MayInsertClasses(a) ==
  LET s   == ajob[a].subject
      new == ajob[a].classes \ aview[a].classes
  IN  new # {} => s \in subjects /\ \A c \in new : c \in classes /\ s \notin offered[c]

\* Deleting a link that is gone already is a no-op, or an error where the
\* driver counts the rows: AdminDisconnect ends the session in the same way.
FlushClasses(a) ==
  LET s    == ajob[a].subject
      had  == aview[a].classes
      want == ajob[a].classes
      now  == {c \in Classes : s \in offered[c]}
  IN
  /\ AdminAt(a, "setClasses", "flush")
  /\ IF MayInsertClasses(a)
     THEN /\ offered' = [c \in Classes |-> IF c \in Relinked(now, had, want)
                                           THEN offered[c] \cup {s} ELSE offered[c] \ {s}]
          /\ AdminFinish(a)
          /\ UNCHANGED <<rosterVars, seatVars, subjects, classes, limit>>
     ELSE AdminFail(a)

-----------------------------------------------------------------------------
(* services/subjects.py: update_subject, for student_limit.                *)

\* _assert_limit_fits compares with the counter as it was loaded.
CheckLimit(a) ==
  LET s == ajob[a].subject IN
  /\ AdminAt(a, "setLimit", "subject")
  /\ IF s \in subjects /\ ajob[a].limit >= count[s]
     THEN /\ aview' = [aview EXCEPT ![a].limit = limit[s]]
          /\ AdminGoto(a, "flush")
          /\ UNCHANGED <<dbVars, ajob>>
     ELSE AdminRefuse(a)

\* Mutant: without the CHECK constraint behind the service's own comparison.
FlushLimit_NoBackstop(a) ==
  LET s == ajob[a].subject IN
  /\ AdminAt(a, "setLimit", "flush")
  /\ RowFree(a, s)
  /\ limit' = [limit EXCEPT ![s] = ajob[a].limit]
  /\ AdminFinish(a)
  /\ UNCHANGED <<rosterVars, seatVars, subjects, classes, offered>>

\* The UPDATE waits for the row and meets the CHECK constraints; assigning
\* the loaded value writes nothing, and an UPDATE of no row is an error.
FlushLimit(a) ==
  LET j == ajob[a] IN
  /\ AdminAt(a, "setLimit", "flush")
  /\ \/ /\ j.limit = aview[a].limit
        /\ AdminRefuse(a)
     \/ /\ j.limit # aview[a].limit
        /\ RowFree(a, j.subject)
        /\ j.subject \in subjects /\ CheckHolds(count[j.subject], j.limit)
        /\ limit' = [limit EXCEPT ![j.subject] = j.limit]
        /\ AdminFinish(a)
        /\ UNCHANGED <<rosterVars, seatVars, subjects, classes, offered>>
     \/ /\ j.limit # aview[a].limit
        /\ RowFree(a, j.subject)
        /\ ~(j.subject \in subjects /\ CheckHolds(count[j.subject], j.limit))
        /\ AdminFail(a)

-----------------------------------------------------------------------------
(* services/subjects.py: delete_subject; services/classes.py: delete_class *)

\* ON DELETE RESTRICT of subject_enrollments and enrollments.
HeldSubject(s) == Takers(s) # {}
HeldClass(c) == EnrolledIn(c) # {}

FindSubject(a) ==
  /\ AdminAt(a, "deleteSubject", "subject")
  /\ IF ajob[a].subject \in subjects THEN AdminProceed(a, "holders") ELSE AdminRefuse(a)

FindClass(a) ==
  /\ AdminAt(a, "deleteClass", "class")
  /\ IF ajob[a].class \in classes THEN AdminProceed(a, "holders") ELSE AdminRefuse(a)

CountHolders(a) ==
  \/ /\ AdminAt(a, "deleteSubject", "holders")
     /\ IF Takers(ajob[a].subject) = {} THEN AdminProceed(a, "flush") ELSE AdminRefuse(a)
  \/ /\ AdminAt(a, "deleteClass", "holders")
     /\ IF EnrolledIn(ajob[a].class) = {} THEN AdminProceed(a, "flush") ELSE AdminRefuse(a)

DeleteSubject(a) ==
  LET s == ajob[a].subject IN
  /\ AdminAt(a, "deleteSubject", "flush")
  /\ RowFree(a, s)
  /\ IF HeldSubject(s)
     THEN AdminFail(a)
     ELSE /\ subjects' = subjects \ {s}
          /\ offered' = [c \in Classes |-> offered[c] \ {s}]
          /\ AdminFinish(a)
          /\ UNCHANGED <<rosterVars, seatVars, classes, limit>>

DeleteClass(a) ==
  LET c == ajob[a].class IN
  /\ AdminAt(a, "deleteClass", "flush")
  /\ IF HeldClass(c)
     THEN AdminFail(a)
     ELSE /\ classes' = classes \ {c}
          /\ offered' = [offered EXCEPT ![c] = {}]
          /\ AdminFinish(a)
          /\ UNCHANGED <<rosterVars, seatVars, subjects, limit>>

-----------------------------------------------------------------------------
(* cli/reconcile_counts.py.                                                *)

TallyRows(a) ==
  /\ AdminAt(a, "reconcile", "tally")
  /\ aview' = [aview EXCEPT ![a].tally = [s \in Subjects |-> Cardinality(Takers(s))]]
  /\ AdminGoto(a, "scan")
  /\ UNCHANGED <<dbVars, ajob>>

ScanCounts(a) ==
  /\ AdminAt(a, "reconcile", "scan")
  /\ todo' = [todo EXCEPT ![a] = {s \in subjects : count[s] # aview[a].tally[s]}]
  /\ AdminGoto(a, "fix")
  /\ UNCHANGED <<rosterVars, catalogVars, count, draft, lock, ajob, aview>>

FixCount(a) ==
  /\ AdminAt(a, "reconcile", "fix")
  /\ \E s \in todo[a] :
       IF s \in subjects
       THEN WriteCount(a, s, aview[a].tally[s], todo[a] \ {s})
       ELSE SkipCount(a, todo[a] \ {s})
  /\ UNCHANGED adminVars

\* A tally above the limit violates the CHECK constraint.
FixRefused(a) ==
  /\ AdminAt(a, "reconcile", "fix")
  /\ \E s \in todo[a] \cap subjects :
       RowFree(a, s) /\ ~CheckHolds(aview[a].tally[s], limit[s])
  /\ AdminFail(a)

CommitFixes(a) ==
  /\ AdminAt(a, "reconcile", "fix")
  /\ todo[a] = {}
  /\ CommitSeats(a) /\ UNCHANGED <<rosterVars, catalogVars>>
  /\ AdminFinish(a)

-----------------------------------------------------------------------------

AdminDeadlockAbort(a) == apc[a] = "fix" /\ OnWaitCycle(a) /\ AdminFail(a)

AdminDisconnect(a) == apc[a] # "idle" /\ AdminFail(a)

AdminServe(a) ==
  \/ ReadLinks(a) \/ ReadWanted(a) \/ CheckBlocked(a) \/ FlushClasses(a)
  \/ CheckLimit(a) \/ FlushLimit(a)
  \/ FindSubject(a) \/ FindClass(a) \/ CountHolders(a) \/ DeleteSubject(a) \/ DeleteClass(a)
  \/ TallyRows(a) \/ ScanCounts(a) \/ FixCount(a) \/ FixRefused(a) \/ CommitFixes(a)
  \/ AdminDeadlockAbort(a)

AdminStep(a) == BeginAdmin(a) \/ AdminServe(a) \/ AdminDisconnect(a)
=============================================================================
