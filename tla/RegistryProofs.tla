--------------------------- MODULE RegistryProofs ---------------------------
(***************************************************************************)
(* Theorems about Registry, for any rows, keys, offices and requests.      *)
(***************************************************************************)
EXTENDS Registry, TLAPS

-----------------------------------------------------------------------------
(* The inductive invariant.                                                *)

Creating(w) == job[w].op \in {"create", "admit", "number"}

\* What a request in flight may rely on.
JobFits(w) ==
  LET j == job[w] IN
  /\ j = NoJob \/ j.op # "none"
  /\ j.op # "none" => j.row \in Rows
  /\ Creating(w) => /\ ~ Present(j.row)
                    /\ j.new \in Record
                    /\ \A v \in Requests \ {w} : job[v].row # j.row
  /\ j.op = "create" => TableOf[j.row] # "student" /\ j.new.seq = FreshSeq(TableOf[j.row])
  /\ j.op \in {"admit", "number"} =>
       /\ TableOf[j.row] = "student"
       /\ j.new.ref \in Rows
       /\ RefExists("student", j.new)
  /\ j.op = "number" =>
       /\ j.new.seq = row[j.new.ref].seq
       /\ \A v \in Requests \ {w} : job[v].op = "number" => job[v].new.ref # j.new.ref
  /\ j.op = "update" =>
       /\ j.was \in Record /\ j.new \in Record
       /\ TableOf[j.row] # "batch"
       /\ TableOf[j.row] = "student" => j.new.ref = j.was.ref
  /\ j.op = "delete" => TableOf[j.row] \notin {"batch", "student"}

JobsFit == \A w \in Requests : JobFits(w)

\* A batch starts with number one.
CountersStarted == \A b \in Of("batch") : row[b].seq >= 1

RegistryInv == RegistryTypeOK /\ JobsFit /\ ReferencesStand /\ NumbersInOrder /\ CountersStarted

\* What a request was told still holds if nobody has committed since.
StillChecked(w) ==
  LET j == job[w] IN
  /\ j.op = "create" /\ TableOf[j.row] # "faculty" => SlotFree(j.row, j.new)
  /\ j.op \in {"admit", "number"} => SlotFree(j.row, j.new)
  /\ j.op = "update" => /\ j.was = row[j.row]
                        /\ TableOf[j.row] = "class" \/ j.new.key # j.was.key => SlotFree(j.row, j.new)

ChecksStand == \A w \in Requests : ~ overlap[w] => StillChecked(w)

-----------------------------------------------------------------------------
(* The tables.                                                             *)

LEMMA TablesFacts ==
  /\ Tables = {"program", "class", "faculty", "subject", "batch", "student"}
  /\ \A t \in Tables : Parent[t] \in Tables \cup {"none"}
  /\ \A t \in Tables : Parent[t] = "batch" <=> t = "student"
  /\ "none" \notin Tables
  /\ NullableRef = {"subject"}
  /\ Parent["student"] = "batch" /\ Parent["batch"] = "none"
  BY DEF Tables, Parent, NullableRef

\* A row that refers to a batch is a student.
LEMMA BatchesHaveStudents ==
  ASSUME RegistryTypeOK, ReferencesStand, RegistryAssumption,
         NEW b \in Of("batch"), NEW c \in Children(b)
  PROVE  TableOf[c] = "student" /\ c \in Rows /\ Present(c)
<1>1. c \in Rows /\ Present(c) /\ row[c].ref = b /\ b \in Rows /\ TableOf[b] = "batch"
  BY DEF Children, Of
<1>2. RefExists(TableOf[c], row[c])
  BY <1>1 DEF ReferencesStand
<1>3. b # None
  BY <1>1 DEF RegistryAssumption
<1>4. Parent[TableOf[c]] = "batch"
  BY <1>1, <1>2, <1>3 DEF RefExists
<1>5. TableOf[c] \in Tables
  BY <1>1 DEF RegistryAssumption
<1> QED
  BY <1>1, <1>4, <1>5, TablesFacts

-----------------------------------------------------------------------------
(* The first state.                                                        *)

LEMMA InitInv == ASSUME RegistryAssumption, Init PROVE RegistryInv
<1>1. RegistryTypeOK
  BY DEF Init, RegistryTypeOK, NoJob, RegistryAssumption
<1>2. JobsFit
  BY DEF Init, JobsFit, JobFits, NoJob, Creating
<1>3. ReferencesStand
  BY DEF Init, ReferencesStand, Present
<1>4. NumbersInOrder
  BY DEF Init, NumbersInOrder, Of, Present
<1>5. CountersStarted
  BY DEF Init, CountersStarted, Of, Present
<1> QED
  BY <1>1, <1>2, <1>3, <1>4, <1>5 DEF RegistryInv

LEMMA InitChecks == ASSUME Init PROVE ChecksStand
  BY DEF Init, ChecksStand, StillChecked, NoJob

-----------------------------------------------------------------------------
(* Steps that leave the rows alone.                                        *)

\* The committed rows decide ReferencesStand and NumbersInOrder.
LEMMA SameRows ==
  ASSUME ReferencesStand, NumbersInOrder, CountersStarted, UNCHANGED row
  PROVE  ReferencesStand' /\ NumbersInOrder' /\ CountersStarted'
  BY DEF ReferencesStand, NumbersInOrder, CountersStarted, Present, RefExists, Of, Children

\* A request ends without writing.
LEMMA FailInv ==
  ASSUME RegistryAssumption, RegistryInv, NEW w \in Requests, Fail(w)
  PROVE  RegistryInv'
<1>1. UNCHANGED <<office, row>> /\ job' = [job EXCEPT ![w] = NoJob]
      /\ overlap' = [overlap EXCEPT ![w] = FALSE]
  BY DEF Fail
<1>2. RegistryTypeOK'
  BY <1>1 DEF RegistryInv, RegistryTypeOK, NoJob
<1>3. ASSUME NEW v \in Requests PROVE JobFits(v)'
  <2>1. CASE v = w
    BY <1>1, <2>1 DEF RegistryInv, RegistryTypeOK, JobFits, NoJob, Creating
  <2>2. CASE v # w
    <3>1. job'[v] = job[v] /\ JobFits(v) /\ row' = row
      BY <1>1, <2>2 DEF RegistryInv, RegistryTypeOK, JobsFit
    <3>2. \A u \in Requests : job'[u] = job[u] \/ job'[u] = NoJob
      BY <1>1 DEF RegistryInv, RegistryTypeOK
    <3> QED
      BY <3>1, <3>2, RegistryAssumption
      DEF JobFits, NoJob, Creating, Present, RefExists, RegistryAssumption
  <2> QED
    BY <2>1, <2>2
<1> QED
  BY <1>1, <1>2, <1>3, SameRows DEF RegistryInv, JobsFit

LEMMA FailChecks ==
  ASSUME RegistryInv, ChecksStand, NEW w \in Requests, Fail(w)
  PROVE  ChecksStand'
<1>1. UNCHANGED <<office, row>> /\ job' = [job EXCEPT ![w] = NoJob]
      /\ overlap' = [overlap EXCEPT ![w] = FALSE]
  BY DEF Fail
<1>2. \A r, n : SlotFree(r, n)' <=> SlotFree(r, n)
  BY <1>1 DEF SlotFree, Of, Present
<1>3. ASSUME NEW v \in Requests, ~ overlap'[v] PROVE StillChecked(v)'
  <2>1. CASE v = w
    BY <1>1, <2>1 DEF StillChecked, NoJob, RegistryInv, RegistryTypeOK
  <2>2. CASE v # w
    BY <1>1, <1>2, <1>3, <2>2 DEF StillChecked, ChecksStand, RegistryInv, RegistryTypeOK
  <2> QED
    BY <2>1, <2>2
<1> QED
  BY <1>3 DEF ChecksStand

\* A request arrives with a job that fits.
LEMMA BeginInv ==
  ASSUME RegistryAssumption, RegistryInv, NEW w \in Requests, Idle(w),
         NEW j, Begin(w, j),
         j \in [op : {"create", "admit", "update", "delete"}, row : Rows,
                was : Record \cup {None}, new : Record \cup {None}],
         j.op \in {"create", "admit"} =>
           /\ ~ Present(j.row) /\ j.new \in Record
           /\ \A v \in Requests : job[v].row # j.row,
         j.op = "create" => TableOf[j.row] # "student" /\ j.new.seq = FreshSeq(TableOf[j.row]),
         j.op = "admit" => /\ TableOf[j.row] = "student" /\ j.new.ref \in Rows
                           /\ RefExists("student", j.new),
         j.op = "update" => /\ j.was \in Record /\ j.new \in Record /\ TableOf[j.row] # "batch"
                            /\ Present(j.row)
                            /\ TableOf[j.row] = "student" => j.new.ref = j.was.ref,
         j.op = "delete" => TableOf[j.row] \notin {"batch", "student"} /\ Present(j.row)
  PROVE  RegistryInv'
<1>1. UNCHANGED <<office, row, overlap>> /\ job' = [job EXCEPT ![w] = j]
  BY DEF Begin
<1>2. RegistryTypeOK'
  BY <1>1 DEF RegistryInv, RegistryTypeOK
<1>3. job'[w] = j /\ \A v \in Requests \ {w} : job'[v] = job[v]
  BY <1>1 DEF RegistryInv, RegistryTypeOK
<1>4. ASSUME NEW v \in Requests PROVE JobFits(v)'
  <2>1. CASE v = w
    BY <1>1, <1>3, <2>1 DEF JobFits, Creating, Present, RefExists, NoJob
  <2>2. CASE v # w
    <3>1. job'[v] = job[v] /\ JobFits(v) /\ row' = row
      BY <1>1, <1>3, <2>2 DEF RegistryInv, JobsFit
    <3>2. Creating(v) => j.row # job[v].row
      BY <3>1, <2>2 DEF JobFits, Creating
    <3> QED
      BY <1>3, <2>2, <3>1, <3>2 DEF JobFits, Creating, Present, RefExists, NoJob
  <2> QED
    BY <2>1, <2>2
<1> QED
  BY <1>1, <1>2, <1>4, SameRows DEF RegistryInv, JobsFit

\* What it was told is true when it arrives.
LEMMA BeginChecks ==
  ASSUME RegistryInv, ChecksStand, NEW w \in Requests, NEW j, Begin(w, j),
         j.op = "create" /\ TableOf[j.row] # "faculty" => SlotFree(j.row, j.new),
         j.op \in {"admit", "number"} => SlotFree(j.row, j.new),
         j.op = "update" => /\ j.was = row[j.row]
                            /\ TableOf[j.row] = "class" \/ j.new.key # j.was.key
                                 => SlotFree(j.row, j.new)
  PROVE  ChecksStand'
<1>1. UNCHANGED <<office, row, overlap>> /\ job' = [job EXCEPT ![w] = j]
  BY DEF Begin
<1>2. \A r, n : SlotFree(r, n)' <=> SlotFree(r, n)
  BY <1>1 DEF SlotFree, Of, Present
<1>3. job'[w] = j /\ \A v \in Requests \ {w} : job'[v] = job[v]
  BY <1>1 DEF RegistryInv, RegistryTypeOK
<1>4. ASSUME NEW v \in Requests, ~ overlap'[v] PROVE StillChecked(v)'
  <2>1. CASE v = w
    BY <1>1, <1>2, <1>3, <2>1 DEF StillChecked
  <2>2. CASE v # w
    <3>1. StillChecked(v) /\ job'[v] = job[v]
      BY <1>1, <1>3, <1>4, <2>2 DEF ChecksStand
    <3> QED
      BY <1>1, <1>2, <3>1 DEF StillChecked
  <2> QED
    BY <2>1, <2>2
<1> QED
  BY <1>4 DEF ChecksStand

-----------------------------------------------------------------------------
(* Reading.                                                                *)

LEMMA KeysTyped ==
  ASSUME RegistryAssumption, NEW t, NEW k \in Keys \cup {None}
  PROVE  /\ Checked(t, k) \in Keys \cup {None}
         /\ t # "faculty" => Stored("create", t, k) = Checked(t, k)
         /\ t = "faculty" /\ k # None => Stored("create", t, k) \in Keys
<1>1. Checked(t, k) \in Keys \cup {None}
  <2>1. CASE k = None
    BY <2>1 DEF Checked
  <2>2. ASSUME k # None PROVE Checked(t, k) \in Keys
    <3>1. k \in Keys /\ Strip[k] \in Keys /\ Lower[k] \in Keys
      BY <2>2 DEF RegistryAssumption
    <3>2. CASE t \in {"program", "class", "subject"}
      BY <2>2, <3>1, <3>2 DEF Checked
    <3>3. CASE t = "student"
      BY <2>2, <3>1, <3>3 DEF Checked
    <3>4. CASE t \notin {"program", "class", "subject", "student"}
      BY <2>2, <3>1, <3>4 DEF Checked
    <3> QED
      BY <3>2, <3>3, <3>4
  <2> QED
    BY <2>1, <2>2
<1> QED
  BY <1>1 DEF Stored, RegistryAssumption

LEMMA ReadForCreateInv ==
  ASSUME RegistryAssumption, RegistryInv, NEW w \in Requests, NEW t \in Tables,
         NEW keys \in SUBSET (Keys \cup {None}), NEW parents \in SUBSET (Rows \cup {None}),
         t = "faculty" => None \notin keys,
         ReadForCreate(w, t, keys, parents)
  PROVE  RegistryInv' /\ (ChecksStand => ChecksStand')
<1>1. PICK r \in Fresh(t), k \in keys, p \in parents :
        LET checked == [key |-> Checked(t, k), ref |-> p, seq |-> FreshSeq(t)] IN
        /\ RefExists(t, checked)
        /\ SlotFree(r, checked)
        /\ Begin(w, [op |-> IF t = "student" THEN "admit" ELSE "create", row |-> r,
                     was |-> None, new |-> [checked EXCEPT !.key = Stored("create", t, k)]])
  BY DEF ReadForCreate
<1> DEFINE checked == [key |-> Checked(t, k), ref |-> p, seq |-> FreshSeq(t)]
           new == [checked EXCEPT !.key = Stored("create", t, k)]
           j == [op |-> IF t = "student" THEN "admit" ELSE "create", row |-> r,
                 was |-> None, new |-> new]
<1>2. /\ Idle(w) /\ RefExists(t, checked) /\ SlotFree(r, checked) /\ Begin(w, j)
      /\ r \in Rows /\ TableOf[r] = t /\ ~ Present(r)
      /\ \A v \in Requests : job[v].row # r
  BY <1>1 DEF ReadForCreate, Fresh
<1>3. new = [key |-> Stored("create", t, k), ref |-> p, seq |-> FreshSeq(t)]
  OBVIOUS
<1>4. new \in Record
  <2>1. Stored("create", t, k) \in Keys \cup {None}
    BY KeysTyped
  <2>2. FreshSeq(t) \in Nat
    BY DEF FreshSeq
  <2> QED
    BY <1>3, <2>1, <2>2 DEF Record
<1>5. t = "student" => new.ref \in Rows /\ RefExists("student", new)
  BY <1>2, <1>3, TablesFacts DEF RefExists
<1> HIDE DEF new
<1>6. /\ j \in [op : {"create", "admit", "update", "delete"}, row : Rows,
                 was : Record \cup {None}, new : Record \cup {None}]
      /\ j.op \in {"create", "admit"} /\ j.row = r /\ j.new = new
      /\ j.op = "create" <=> t # "student"
  BY <1>2, <1>4
<1>7. j.op = "create" => TableOf[j.row] # "student" /\ j.new.seq = FreshSeq(TableOf[j.row])
  BY <1>2, <1>3, <1>6
<1>8. j.op = "admit" => /\ TableOf[j.row] = "student" /\ j.new.ref \in Rows
                        /\ RefExists("student", j.new)
  BY <1>2, <1>5, <1>6
<1> HIDE DEF j
<1>9. RegistryInv'
  BY <1>2, <1>4, <1>6, <1>7, <1>8, BeginInv
<1>10. t # "faculty" => SlotFree(r, new)
  BY <1>2, <1>3, KeysTyped DEF SlotFree, SameSpace
<1>11. ASSUME ChecksStand PROVE ChecksStand'
  <2>1. j.op # "update"
    BY <1>6
  <2> QED
    BY <1>2, <1>6, <1>10, <1>11, <2>1, BeginChecks
<1> QED
  BY <1>9, <1>11

LEMMA ReadForUpdateInv ==
  ASSUME RegistryAssumption, RegistryInv, NEW w \in Requests, NEW t \in Tables \ {"batch"},
         NEW keys \in SUBSET (Keys \cup {None}), NEW parents \in SUBSET (Rows \cup {None}),
         t = "student" => parents = {},
         ReadForUpdate(w, t, keys, parents)
  PROVE  RegistryInv' /\ (ChecksStand => ChecksStand')
<1>0. PICK r \in Of(t) :
        \E k \in {row[r].key} \cup {Checked(t, typed) : typed \in keys},
           p \in {row[r].ref} \cup parents :
          LET new == [row[r] EXCEPT !.key = k, !.ref = p] IN
          /\ new # row[r]
          /\ p # row[r].ref => RefExists(t, new)
          /\ t = "class" \/ k # row[r].key => SlotFree(r, new)
          /\ Begin(w, [op |-> "update", row |-> r, was |-> row[r], new |-> new])
  BY DEF ReadForUpdate
<1>1. PICK k \in {row[r].key} \cup {Checked(t, typed) : typed \in keys},
           p \in {row[r].ref} \cup parents :
        LET new == [row[r] EXCEPT !.key = k, !.ref = p] IN
        /\ t = "class" \/ k # row[r].key => SlotFree(r, new)
        /\ Begin(w, [op |-> "update", row |-> r, was |-> row[r], new |-> new])
  BY <1>0
<1> DEFINE new == [row[r] EXCEPT !.key = k, !.ref = p]
           j == [op |-> "update", row |-> r, was |-> row[r], new |-> new]
<1>2. /\ Idle(w) /\ Begin(w, j) /\ r \in Rows /\ TableOf[r] = t /\ Present(r)
      /\ t = "class" \/ k # row[r].key => SlotFree(r, new)
  BY <1>1 DEF ReadForUpdate, Of
<1>3. row[r] \in Record
  BY <1>2 DEF RegistryInv, RegistryTypeOK, Present
<1>4. k \in Keys \cup {None}
  BY <1>1, <1>3, KeysTyped DEF Record
<1>5. p \in Rows \cup {None}
  BY <1>1, <1>3 DEF Record
<1>6. new \in Record /\ new.key = k /\ (t = "student" => new.ref = row[r].ref)
  BY <1>1, <1>3, <1>4, <1>5 DEF Record
<1>7. /\ j \in [op : {"create", "admit", "update", "delete"}, row : Rows,
                 was : Record \cup {None}, new : Record \cup {None}]
      /\ j.op = "update" /\ j.row = r /\ j.was = row[r] /\ j.new = new
  BY <1>2, <1>3, <1>6
<1> HIDE DEF new, j
<1>8. RegistryInv'
  BY <1>2, <1>3, <1>6, <1>7, BeginInv
<1>9. ASSUME ChecksStand PROVE ChecksStand'
  BY <1>2, <1>6, <1>7, <1>9, BeginChecks
<1> QED
  BY <1>8, <1>9

LEMMA ReadForDeleteInv ==
  ASSUME RegistryAssumption, RegistryInv, NEW w \in Requests,
         NEW t \in Tables \ {"batch", "student"}, ReadForDelete(w, t)
  PROVE  RegistryInv' /\ (ChecksStand => ChecksStand')
<1>1. PICK r \in Of(t) : Begin(w, [op |-> "delete", row |-> r, was |-> None, new |-> None])
  BY DEF ReadForDelete
<1> DEFINE j == [op |-> "delete", row |-> r, was |-> None, new |-> None]
<1>2. /\ Idle(w) /\ Begin(w, j) /\ r \in Rows /\ TableOf[r] = t /\ Present(r)
  BY <1>1 DEF ReadForDelete, Of
<1>3. /\ j \in [op : {"create", "admit", "update", "delete"}, row : Rows,
                 was : Record \cup {None}, new : Record \cup {None}]
      /\ j.op = "delete" /\ j.row = r
  BY <1>2
<1> HIDE DEF j
<1>4. RegistryInv'
  BY <1>2, <1>3, BeginInv
<1>5. ASSUME ChecksStand PROVE ChecksStand'
  BY <1>2, <1>3, <1>5, BeginChecks
<1> QED
  BY <1>4, <1>5

LEMMA AllocateInv ==
  ASSUME RegistryAssumption, RegistryInv, NEW w \in Requests, Allocate(w)
  PROVE  RegistryInv' /\ (ChecksStand => ChecksStand')
<1> DEFINE b == job[w].new.ref
           j == [job[w] EXCEPT !.op = "number", !.new.seq = row[b].seq]
<1>1. /\ job[w].op = "admit" /\ BatchFree(b) /\ job' = [job EXCEPT ![w] = j]
      /\ UNCHANGED <<office, row, overlap>>
  BY DEF Allocate
<1>2. job[w] \in [op : {"none", "create", "admit", "number", "update", "delete"},
                  row : Rows \cup {None}, was : Record \cup {None}, new : Record \cup {None}]
  BY DEF RegistryInv, RegistryTypeOK
<1>3. /\ job[w].row \in Rows /\ ~ Present(job[w].row) /\ job[w].new \in Record
      /\ \A v \in Requests \ {w} : job[v].row # job[w].row
      /\ TableOf[job[w].row] = "student" /\ b \in Rows /\ RefExists("student", job[w].new)
  BY <1>1 DEF RegistryInv, JobsFit, JobFits, Creating
<1>4. row[b].seq \in Nat
  <2>1. Present(b)
    BY <1>3, TablesFacts DEF RefExists, RegistryAssumption
  <2> QED
    BY <1>3, <2>1 DEF RegistryInv, RegistryTypeOK, Present, Record
<1>5. /\ j.op = "number" /\ j.row = job[w].row /\ j.was = job[w].was
      /\ j.new = [job[w].new EXCEPT !.seq = row[b].seq]
  BY <1>2
<1>6. /\ j.new \in Record /\ j.new.ref = b /\ j.new.key = job[w].new.key /\ j.new.seq = row[b].seq
  BY <1>3, <1>4, <1>5 DEF Record
<1>7. j \in [op : {"none", "create", "admit", "number", "update", "delete"},
             row : Rows \cup {None}, was : Record \cup {None}, new : Record \cup {None}]
  BY <1>2, <1>6
<1> HIDE DEF j
<1>8. RegistryTypeOK'
  BY <1>1, <1>7 DEF RegistryInv, RegistryTypeOK
<1>9. job'[w] = j /\ \A v \in Requests \ {w} : job'[v] = job[v]
  BY <1>1 DEF RegistryInv, RegistryTypeOK
<1>10. JobFits(w)'
  <2>1. RefExists("student", job[w].new)'
    BY <1>1, <1>3, <1>6, <1>9 DEF RefExists, Present
  <2>2. \A v \in Requests \ {w} : job'[v].op = "number" => job'[v].new.ref # b
    BY <1>1, <1>9 DEF BatchFree
  <2>3. job'[w].op = "number" /\ job'[w].row = job[w].row /\ job'[w].new = j.new
    BY <1>5, <1>9
  <2>4. ~ Present(job[w].row)' /\ job'[w].row \in Rows /\ TableOf[job'[w].row] = "student"
    BY <1>1, <1>3, <2>3 DEF Present
  <2>5. \A v \in Requests \ {w} : job'[v].row # job'[w].row
    BY <1>3, <1>9, <2>3
  <2>6. job'[w].new.seq = row'[job'[w].new.ref].seq /\ job'[w].new.ref = b
    BY <1>1, <1>6, <2>3
  <2> HIDE DEF b
  <2> QED
    BY <1>3, <1>6, <2>1, <2>2, <2>3, <2>4, <2>5, <2>6 DEF JobFits, Creating
<1>11. ASSUME NEW v \in Requests \ {w} PROVE JobFits(v)'
  <2>1. job'[v] = job[v] /\ JobFits(v) /\ row' = row
    BY <1>1, <1>9 DEF RegistryInv, JobsFit
  <2>2. Creating(v) => j.row # job[v].row
    BY <1>5, <2>1 DEF JobFits
  <2>3. job[v].op = "number" => job[v].new.ref # b
    BY <1>1 DEF BatchFree
  <2>4. Creating(v) => \A u \in Requests \ {v} : job'[u].row # job'[v].row
    BY <1>9, <2>1, <2>2 DEF JobFits
  <2>5. job[v].op = "number" =>
          \A u \in Requests \ {v} : job'[u].op = "number" => job'[u].new.ref # job'[v].new.ref
    BY <1>6, <1>9, <2>1, <2>3 DEF JobFits
  <2> QED
    BY <2>1, <2>4, <2>5 DEF JobFits, Creating, Present, RefExists
<1>12. RegistryInv'
  BY <1>1, <1>8, <1>10, <1>11, SameRows DEF RegistryInv, JobsFit
<1>13. ASSUME ChecksStand PROVE ChecksStand'
  <2>1. ASSUME NEW v \in Requests, ~ overlap'[v] PROVE StillChecked(v)'
    <3>1. StillChecked(v) /\ row' = row
      BY <1>1, <1>13, <2>1 DEF ChecksStand
    <3>2. \A r, n : SlotFree(r, n)' <=> SlotFree(r, n)
      BY <1>1 DEF SlotFree, Of, Present
    <3>3. SlotFree(j.row, job[w].new) <=> SlotFree(j.row, j.new)
      BY <1>6 DEF SlotFree, SameSpace
    <3>4. CASE v = w
      BY <1>1, <1>5, <1>9, <3>1, <3>2, <3>3, <3>4 DEF StillChecked
    <3>5. CASE v # w
      BY <1>9, <3>1, <3>2, <3>5 DEF StillChecked
    <3> QED
      BY <3>4, <3>5
  <2> QED
    BY <2>1 DEF ChecksStand
<1> QED
  BY <1>12, <1>13

-----------------------------------------------------------------------------
(* Writing.                                                                *)

\* A commit tells every other request in flight that its reads are old.
LEMMA CommitChecks ==
  ASSUME RegistryInv, NEW w \in Requests, NEW rows, Commit(w, rows)
  PROVE  ChecksStand'
<1>1. /\ job' = [job EXCEPT ![w] = NoJob]
      /\ overlap' = [v \in Requests |-> v # w /\ job[v] # NoJob]
  BY DEF Commit
<1>2. ASSUME NEW v \in Requests, ~ overlap'[v] PROVE StillChecked(v)'
  <2>1. job'[v] = NoJob
    BY <1>1, <1>2 DEF RegistryInv, RegistryTypeOK
  <2> QED
    BY <2>1 DEF StillChecked, NoJob
<1> QED
  BY <1>2 DEF ChecksStand

\* Every other request still fits after a commit that spares the uuids drawn and
\* the counters held.
LEMMA CommitJobs ==
  ASSUME RegistryAssumption, RegistryInv, NEW w \in Requests, NEW rows, Commit(w, rows),
         rows \in [Rows -> Record \cup {None}],
         \A v \in Requests \ {w} : Creating(v) => rows[job[v].row] = None,
         \A x \in Of("batch") : rows[x] # None,
         \A v \in Requests \ {w} : job[v].op = "number" =>
            rows[job[v].new.ref].seq = row[job[v].new.ref].seq
  PROVE  RegistryTypeOK' /\ JobsFit'
<1>1. /\ row' = rows /\ job' = [job EXCEPT ![w] = NoJob] /\ UNCHANGED office
      /\ overlap' = [v \in Requests |-> v # w /\ job[v] # NoJob]
  BY DEF Commit
<1>2. RegistryTypeOK'
  <2>1. NoJob \in [op : {"none", "create", "admit", "number", "update", "delete"},
                   row : Rows \cup {None}, was : Record \cup {None},
                   new : Record \cup {None}]
    BY DEF NoJob
  <2> QED
    BY <1>1, <2>1 DEF RegistryInv, RegistryTypeOK
<1>3. job'[w] = NoJob /\ \A v \in Requests \ {w} : job'[v] = job[v]
  BY <1>1 DEF RegistryInv, RegistryTypeOK
<1>4. JobFits(w)'
  BY <1>3 DEF JobFits, NoJob, Creating
<1>5. ASSUME NEW v \in Requests \ {w} PROVE JobFits(v)'
  <2>1. JobFits(v) /\ job'[v] = job[v]
    BY <1>3 DEF RegistryInv, JobsFit
  <2>2. Creating(v) => ~ Present(job[v].row)' /\ job'[w].row # job[v].row
    BY <1>1, <1>3, <2>1, RegistryAssumption
    DEF Present, NoJob, JobFits, Creating, RegistryAssumption
  <2>3. job[v].op \in {"admit", "number"} => RefExists("student", job[v].new)'
    <3> SUFFICES ASSUME job[v].op \in {"admit", "number"}
                 PROVE  RefExists("student", job[v].new)'
      OBVIOUS
    <3>1. job[v].new.ref \in Rows /\ RefExists("student", job[v].new)
      BY <2>1 DEF JobFits
    <3>2. job[v].new.ref \in Of("batch")
      BY <3>1, TablesFacts DEF RefExists, Of, RegistryAssumption
    <3> QED
      BY <1>1, <1>3, <3>1, <3>2 DEF RefExists, Present
  <2>4. job[v].op = "number" => rows[job[v].new.ref].seq = row[job[v].new.ref].seq
    OBVIOUS
  <2> QED
    BY <1>1, <1>3, <2>1, <2>2, <2>3, <2>4 DEF JobFits, Creating, NoJob
<1> QED
  BY <1>2, <1>4, <1>5 DEF JobsFit

\* One row is written: a new one, another version of one that is there, or
\* nothing in the place of one that nobody refers to.
LEMMA OneRowInv ==
  ASSUME RegistryAssumption, RegistryInv, NEW w \in Requests, NEW val \in Record \cup {None},
         Commit(w, [row EXCEPT ![job[w].row] = val]), job[w].op # "none",
         val # None => RefExists(TableOf[job[w].row], val),
         val = None => HasNoChildren(job[w].row),
         TableOf[job[w].row] = "batch" =>
           ~ Present(job[w].row) /\ val # None /\ val.seq = 1,
         TableOf[job[w].row] = "student" =>
           /\ Present(job[w].row) /\ val # None
           /\ val.ref = row[job[w].row].ref /\ val.seq = row[job[w].row].seq
  PROVE  RegistryInv'
<1> DEFINE r == job[w].row
           rows == [row EXCEPT ![r] = val]
<1>1. /\ r \in Rows
      /\ row' = rows /\ rows \in [Rows -> Record \cup {None}]
      /\ rows[r] = val /\ \A x \in Rows \ {r} : rows[x] = row[x]
  BY DEF RegistryInv, JobsFit, JobFits, RegistryTypeOK, Commit
<1>2. RegistryTypeOK' /\ JobsFit'
  <2>1. \A v \in Requests \ {w} : Creating(v) => rows[job[v].row] = None
    BY <1>1 DEF RegistryInv, JobsFit, JobFits, Present, Creating
  <2>2. \A x \in Of("batch") : rows[x] # None
    BY <1>1 DEF Of, Present
  <2>3. ASSUME NEW v \in Requests \ {w}, job[v].op = "number"
        PROVE  rows[job[v].new.ref].seq = row[job[v].new.ref].seq
    <3>1. job[v].new.ref \in Rows /\ Present(job[v].new.ref) /\ TableOf[job[v].new.ref] = "batch"
      BY <2>3, TablesFacts DEF RegistryInv, JobsFit, JobFits, RefExists, RegistryAssumption
    <3> QED
      BY <1>1, <3>1
  <2> HIDE DEF r, rows
  <2> QED
    BY <1>1, <2>1, <2>2, <2>3, CommitJobs DEF r, rows
<1>3. ReferencesStand'
  <2>1. ASSUME NEW x \in Rows, Present(x)' PROVE RefExists(TableOf[x], row[x])'
    <3>1. RefExists(TableOf[x], rows[x])
      BY <1>1, <2>1 DEF RegistryInv, ReferencesStand, Present
    <3>2. rows[x].ref = r /\ x # r => val # None
      BY <1>1, <2>1 DEF HasNoChildren, Children, Present
    <3>3. val = None => x # r
      BY <1>1, <2>1 DEF Present
    <3>4. rows[x].ref \in Rows \cup {None}
      BY <1>1, <2>1 DEF Present, Record
    <3>5. Present(rows[x].ref) /\ rows[x].ref # None => row'[rows[x].ref] # None
      BY <1>1, <3>2, <3>3, <3>4 DEF Present
    <3> HIDE DEF rows
    <3> QED
      BY <1>1, <3>1, <3>5 DEF RefExists, Present
  <2> QED
    BY <2>1 DEF ReferencesStand
<1>4. ASSUME NEW b \in Of("batch")'
      PROVE  /\ \A x, y \in Children(b)' : row'[x].seq = row'[y].seq => x = y
             /\ {row'[x].seq : x \in Children(b)'} = 1 .. (row'[b].seq - 1)
             /\ row'[b].seq >= 1
  <2>0. b \in Rows /\ TableOf[b] = "batch" /\ b # None
    BY <1>4 DEF Of, RegistryAssumption
  <2>1. \A x \in Rows : Present(x) /\ row[x].ref = b => TableOf[x] = "student"
    <3>1. ASSUME NEW x \in Rows, Present(x), row[x].ref = b PROVE TableOf[x] = "student"
      BY <2>0, <3>1, TablesFacts
      DEF RegistryInv, ReferencesStand, RefExists, RegistryAssumption
    <3> QED
      BY <3>1
  <2>2. \A x \in Rows : rows[x] # None /\ rows[x].ref = b => TableOf[x] = "student"
    <3>1. ASSUME NEW x \in Rows, rows[x] # None, rows[x].ref = b PROVE TableOf[x] = "student"
      <4>1. CASE x = r
        BY <1>1, <2>0, <3>1, <4>1, TablesFacts DEF RefExists, RegistryAssumption
      <4>2. CASE x # r
        BY <1>1, <2>1, <3>1, <4>2 DEF Present
      <4> QED
        BY <4>1, <4>2
    <3> QED
      BY <3>1
  <2>3. Children(b)' = Children(b)
    BY <1>1, <2>1, <2>2 DEF Children, Present
  <2>4. \A x \in Children(b) : row'[x].seq = row[x].seq
    BY <1>1, <2>1 DEF Children
  <2>5. CASE b = r
    <3>1. row'[b].seq = 1 /\ ~ Present(b)
      BY <1>1, <2>0, <2>5
    <3>2. Children(b) = {}
      <4>1. ASSUME NEW x \in Rows, Present(x), row[x].ref = b PROVE FALSE
        BY <2>0, <3>1, <4>1 DEF RegistryInv, ReferencesStand, RefExists
      <4> QED
        BY <4>1 DEF Children
    <3> QED
      BY <2>3, <3>1, <3>2
  <2>6. CASE b # r
    <3>1. b \in Of("batch") /\ row'[b] = row[b]
      BY <1>1, <1>4, <2>0, <2>6 DEF Of, Present
    <3>2. /\ \A x, y \in Children(b) : row[x].seq = row[y].seq => x = y
          /\ {row[x].seq : x \in Children(b)} = 1 .. (row[b].seq - 1)
          /\ row[b].seq >= 1
      BY <3>1 DEF RegistryInv, NumbersInOrder, CountersStarted
    <3>3. {row'[x].seq : x \in Children(b)} = {row[x].seq : x \in Children(b)}
      BY <2>4
    <3> QED
      BY <2>3, <2>4, <3>1, <3>2, <3>3
  <2> QED
    BY <2>5, <2>6
<1>5. NumbersInOrder' /\ CountersStarted'
  BY <1>4 DEF NumbersInOrder, CountersStarted
<1> QED
  BY <1>2, <1>3, <1>5 DEF RegistryInv

LEMMA CommitCreateInv ==
  ASSUME RegistryAssumption, RegistryInv, NEW w \in Requests, CommitCreate(w)
  PROVE  RegistryInv' /\ (ChecksStand => ChecksStand')
<1>1. /\ job[w].op = "create" /\ job[w].row \in Rows /\ ~ Present(job[w].row)
      /\ job[w].new \in Record
      /\ TableOf[job[w].row] # "student" /\ job[w].new.seq = FreshSeq(TableOf[job[w].row])
  BY DEF CommitCreate, RegistryInv, JobsFit, JobFits, Creating
<1>2. CASE Fail(w)
  BY <1>2, FailInv, FailChecks
<1>3. CASE /\ RefExists(TableOf[job[w].row], job[w].new)
           /\ Commit(w, [row EXCEPT ![job[w].row] = job[w].new])
  <2>1. job[w].new # None
    BY <1>1 DEF RegistryAssumption
  <2>2. RegistryInv'
    BY <1>1, <1>3, <2>1, OneRowInv DEF FreshSeq
  <2> QED
    BY <1>3, <2>2, CommitChecks
<1> QED
  BY <1>2, <1>3 DEF CommitCreate

LEMMA WrittenFacts ==
  ASSUME RegistryInv, NEW w \in Requests, job[w].op = "update", Present(job[w].row)
  PROVE  /\ job[w].row \in Rows
         /\ row[job[w].row] \in Record /\ job[w].was \in Record /\ job[w].new \in Record
         /\ Written(w) \in Record
         /\ Written(w).seq = row[job[w].row].seq
         /\ Written(w).key = IF job[w].new.key = job[w].was.key THEN row[job[w].row].key
                                                             ELSE job[w].new.key
         /\ Written(w).ref = IF job[w].new.ref = job[w].was.ref THEN row[job[w].row].ref
                                                             ELSE job[w].new.ref
<1>1. job[w].row \in Rows /\ job[w].was \in Record /\ job[w].new \in Record
  BY DEF RegistryInv, JobsFit, JobFits
<1>2. row[job[w].row] \in Record
  BY <1>1 DEF RegistryInv, RegistryTypeOK, Present
<1> QED
  BY <1>1, <1>2 DEF Written, Record

LEMMA CommitUpdateInv ==
  ASSUME RegistryAssumption, RegistryInv, NEW w \in Requests, CommitUpdate(w)
  PROVE  RegistryInv' /\ (ChecksStand => ChecksStand')
<1>1. /\ job[w].op = "update" /\ TableOf[job[w].row] # "batch"
      /\ TableOf[job[w].row] = "student" => job[w].new.ref = job[w].was.ref
  BY DEF CommitUpdate, RegistryInv, JobsFit, JobFits
<1>2. CASE Fail(w)
  BY <1>2, FailInv, FailChecks
<1>3. CASE /\ Present(job[w].row) /\ RefExists(TableOf[job[w].row], Written(w))
           /\ Commit(w, [row EXCEPT ![job[w].row] = Written(w)])
  <2>1. Written(w) \in Record /\ Written(w) # None
    BY <1>1, <1>3, WrittenFacts DEF RegistryAssumption
  <2>2. TableOf[job[w].row] = "student" =>
          Written(w).ref = row[job[w].row].ref /\ Written(w).seq = row[job[w].row].seq
    BY <1>1, <1>3, WrittenFacts
  <2>3. RegistryInv'
    BY <1>1, <1>3, <2>1, <2>2, OneRowInv
  <2> QED
    BY <1>3, <2>3, CommitChecks
<1> QED
  BY <1>2, <1>3 DEF CommitUpdate

LEMMA CommitDeleteInv ==
  ASSUME RegistryAssumption, RegistryInv, NEW w \in Requests, CommitDelete(w)
  PROVE  RegistryInv' /\ (ChecksStand => ChecksStand')
<1>1. job[w].op = "delete" /\ TableOf[job[w].row] \notin {"batch", "student"}
  BY DEF CommitDelete, RegistryInv, JobsFit, JobFits
<1>2. CASE Fail(w)
  BY <1>2, FailInv, FailChecks
<1>3. CASE HasNoChildren(job[w].row) /\ Commit(w, [row EXCEPT ![job[w].row] = None])
  <2>1. RegistryInv'
    BY <1>1, <1>3, OneRowInv
  <2> QED
    BY <1>3, <2>1, CommitChecks
<1> QED
  BY <1>2, <1>3 DEF CommitDelete

\* An admission writes the student and the counter, and the number is the next.
LEMMA CommitAdmissionInv ==
  ASSUME RegistryAssumption, RegistryInv, NEW w \in Requests, CommitAdmission(w)
  PROVE  RegistryInv' /\ (ChecksStand => ChecksStand')
<1> DEFINE r == job[w].row
           b == job[w].new.ref
           n == row[b].seq
           rows == [row EXCEPT ![r] = job[w].new, ![b].seq = Numbered(w)]
<1>1. /\ job[w].op = "number" /\ r \in Rows /\ ~ Present(r) /\ TableOf[r] = "student"
      /\ job[w].new \in Record /\ b \in Rows /\ RefExists("student", job[w].new)
      /\ job[w].new.seq = n
      /\ \A v \in Requests \ {w} : job[v].row # r
      /\ \A v \in Requests \ {w} : job[v].op = "number" => job[v].new.ref # b
  BY DEF CommitAdmission, RegistryInv, JobsFit, JobFits, Creating
<1>2. Present(b) /\ TableOf[b] = "batch" /\ b # r /\ b # None /\ row[b] \in Record
  BY <1>1, TablesFacts DEF RefExists, RegistryAssumption, RegistryInv, RegistryTypeOK, Present
<1>3. /\ n \in Nat /\ n >= 1
      /\ \A x, y \in Children(b) : row[x].seq = row[y].seq => x = y
      /\ {row[x].seq : x \in Children(b)} = 1 .. (n - 1)
  BY <1>1, <1>2 DEF RegistryInv, CountersStarted, NumbersInOrder, Of, Record
<1>4. CASE Fail(w)
  BY <1>4, FailInv, FailChecks
<1>5. CASE Commit(w, rows)
  <2>1. /\ row' = rows /\ rows \in [Rows -> Record \cup {None}]
        /\ rows[r] = job[w].new /\ rows[b] = [row[b] EXCEPT !.seq = n + 1]
        /\ \A x \in Rows \ {r, b} : rows[x] = row[x]
    <3>1. Numbered(w) = n + 1
      BY <1>1 DEF Numbered
    <3>2. [row[b] EXCEPT !.seq = n + 1] \in Record
      BY <1>2, <1>3 DEF Record
    <3>3. rows = [row EXCEPT ![r] = job[w].new, ![b] = [row[b] EXCEPT !.seq = n + 1]]
      BY <1>1, <1>2, <3>1 DEF RegistryInv, RegistryTypeOK
    <3>4. row \in [Rows -> Record \cup {None}]
      BY DEF RegistryInv, RegistryTypeOK
    <3> HIDE DEF rows
    <3> QED
      BY <1>1, <1>2, <1>5, <3>2, <3>3, <3>4 DEF Commit
  <2>2. /\ rows[b].seq = n + 1 /\ rows[b].ref = row[b].ref /\ rows[b] # None
        /\ rows[r] # None
    <3> DEFINE counted == [row[b] EXCEPT !.seq = n + 1]
    <3>1. counted \in Record /\ counted.seq = n + 1 /\ counted.ref = row[b].ref
      BY <1>2, <1>3 DEF Record
    <3>2. None \notin Record
      BY DEF RegistryAssumption
    <3> HIDE DEF rows, counted
    <3>3. rows[b] = counted /\ rows[r] = job[w].new
      BY <2>1 DEF counted
    <3> QED
      BY <1>1, <3>1, <3>2, <3>3
  <2> HIDE DEF rows
  <2>3. RegistryTypeOK' /\ JobsFit'
    <3>1. ASSUME NEW v \in Requests \ {w}, Creating(v) PROVE rows[job[v].row] = None
      <4>1. job[v].row \in Rows /\ row[job[v].row] = None /\ job[v].row # r
        BY <1>1, <3>1 DEF RegistryInv, JobsFit, JobFits, Creating, Present
      <4>2. job[v].row # b
        BY <1>2, <4>1 DEF Present
      <4> QED
        BY <2>1, <4>1, <4>2
    <3>2. \A x \in Of("batch") : rows[x] # None
      BY <1>1, <2>1, <2>2 DEF Of, Present
    <3>3. ASSUME NEW v \in Requests \ {w}, job[v].op = "number"
          PROVE  rows[job[v].new.ref].seq = row[job[v].new.ref].seq
      <4>1. job[v].new.ref \in Rows /\ Present(job[v].new.ref) /\ job[v].new.ref # b
        BY <1>1, <3>3, TablesFacts DEF RegistryInv, JobsFit, JobFits, RefExists
      <4> QED
        BY <1>1, <2>1, <4>1
    <3> QED
      BY <1>5, <2>1, <3>1, <3>2, <3>3, CommitJobs
  <2>4. ReferencesStand'
    <3>1. ASSUME NEW x \in Rows, Present(x)' PROVE RefExists(TableOf[x], row[x])'
      <4>1. \A y \in Rows : Present(y) => Present(y)'
        BY <2>1, <2>2 DEF Present
      <4>2. CASE x = r
        BY <1>1, <2>1, <4>1, <4>2 DEF RefExists
      <4>3. CASE x # r
        <5>1. row'[x].ref = row[x].ref /\ Present(x)
          BY <1>2, <2>1, <2>2, <3>1, <4>3 DEF Present
        <5>2. row[x].ref \in Rows \cup {None}
          BY <5>1 DEF RegistryInv, RegistryTypeOK, Present, Record
        <5> QED
          BY <4>1, <5>1, <5>2 DEF RegistryInv, ReferencesStand, RefExists
      <4> QED
        BY <4>2, <4>3
    <3> QED
      BY <3>1 DEF ReferencesStand
  <2>5. ASSUME NEW c \in Of("batch")'
        PROVE  /\ \A x, y \in Children(c)' : row'[x].seq = row'[y].seq => x = y
               /\ {row'[x].seq : x \in Children(c)'} = 1 .. (row'[c].seq - 1)
               /\ row'[c].seq >= 1
    <3>1. c \in Rows /\ TableOf[c] = "batch" /\ c # r /\ c \in Of("batch") /\ c # None
      BY <1>1, <1>2, <2>1, <2>5 DEF Of, Present, RegistryAssumption
    <3>2. \A x \in Children(c) : x # r /\ x # b /\ x \in Rows
      BY <1>1, <1>2, <3>1, BatchesHaveStudents DEF RegistryInv
    <3>3. \A x \in Children(c) : row'[x] = row[x]
      BY <2>1, <3>2
    <3>4. CASE c = b
      <4>1. Children(c)' = Children(b) \cup {r}
        <5>1. row[b].ref # b
          BY <1>1, <1>2, TablesFacts DEF RegistryInv, ReferencesStand, RefExists
        <5> QED
          BY <1>1, <1>2, <2>1, <2>2, <3>4, <5>1 DEF Children, Present
      <4>2. row'[r].seq = n /\ row'[b].seq = n + 1
        BY <1>1, <2>1, <2>2
      <4>3. \A x \in Children(b) : row'[x].seq \in 1 .. (n - 1)
        BY <1>3, <3>3, <3>4
      <4>4. {row'[x].seq : x \in Children(c)'} = {row[x].seq : x \in Children(b)} \cup {n}
        BY <3>3, <3>4, <4>1, <4>2
      <4>5. (1 .. (n - 1)) \cup {n} = 1 .. ((n + 1) - 1)
        BY <1>3
      <4> HIDE DEF n
      <4> QED
        BY <1>3, <3>3, <3>4, <4>1, <4>2, <4>3, <4>4, <4>5
    <3>5. CASE c # b
      <4>1. Children(c)' = Children(c) /\ row'[c] = row[c]
        <5>1. \A x \in Rows : rows[x] # None /\ rows[x].ref = c <=> row[x] # None /\ row[x].ref = c
          <6>1. rows[r].ref = b /\ row[r] = None /\ row[b] # None
            BY <1>1, <1>2, <2>1 DEF Present
          <6> HIDE DEF b, r
          <6> QED
            BY <2>1, <2>2, <3>5, <6>1
        <5>2. row'[c] = row[c]
          BY <2>1, <3>1, <3>5
        <5> QED
          BY <2>1, <5>1, <5>2 DEF Children, Present
      <4>2. /\ \A x, y \in Children(c) : row[x].seq = row[y].seq => x = y
            /\ {row[x].seq : x \in Children(c)} = 1 .. (row[c].seq - 1)
            /\ row[c].seq >= 1
        BY <3>1 DEF RegistryInv, NumbersInOrder, CountersStarted
      <4>3. {row'[x].seq : x \in Children(c)} = {row[x].seq : x \in Children(c)}
        BY <3>3
      <4> QED
        BY <3>3, <4>1, <4>2, <4>3
    <3> QED
      BY <3>4, <3>5
  <2>6. NumbersInOrder' /\ CountersStarted'
    BY <2>5 DEF NumbersInOrder, CountersStarted
  <2> QED
    BY <1>5, <2>3, <2>4, <2>6, CommitChecks DEF RegistryInv
<1> QED
  BY <1>4, <1>5 DEF CommitAdmission

-----------------------------------------------------------------------------
(* Every step.                                                             *)

LEMMA OfARow == \A t : Of(t) \in SUBSET Rows
  BY DEF Of

LEMMA StepInv ==
  ASSUME RegistryAssumption, RegistryInv, NEW w \in Requests, RequestStep(w)
  PROVE  RegistryInv' /\ (ChecksStand => ChecksStand')
<1>0. /\ Typed \in SUBSET (Keys \cup {None}) /\ Typed \cup {None} \in SUBSET (Keys \cup {None})
      /\ None \notin Typed
      /\ {None} \in SUBSET (Rows \cup {None}) /\ {} \in SUBSET (Rows \cup {None})
      /\ \A t : Of(t) \in SUBSET (Rows \cup {None})
                /\ Of(t) \cup {None} \in SUBSET (Rows \cup {None})
  BY OfARow DEF RegistryAssumption
<1>1. {"program", "class", "faculty", "subject", "batch", "student"} \subseteq Tables
  BY DEF Tables
<1>2. CASE \/ CreateProgram(w) \/ CreateClass(w) \/ CreateMember(w)
           \/ CreateSubject(w) \/ CreateSession(w) \/ CreateStudent(w)
  BY <1>0, <1>1, <1>2, ReadForCreateInv
  DEF CreateProgram, CreateClass, CreateMember, CreateSubject, CreateSession, CreateStudent
<1>3. CASE \/ UpdateProgram(w) \/ UpdateClass(w) \/ UpdateMember(w)
           \/ UpdateSubject(w) \/ UpdateStudent(w)
  BY <1>0, <1>1, <1>3, ReadForUpdateInv
  DEF UpdateProgram, UpdateClass, UpdateMember, UpdateSubject, UpdateStudent
<1>4. CASE \/ DeleteProgram(w) \/ DeleteClass(w) \/ DeleteMember(w) \/ DeleteSubject(w)
  BY <1>1, <1>4, ReadForDeleteInv
  DEF DeleteProgram, DeleteClass, DeleteMember, DeleteSubject
<1>5. CASE Allocate(w)
  BY <1>5, AllocateInv
<1>6. CASE CommitCreate(w) \/ CommitAdmission(w) \/ CommitUpdate(w) \/ CommitDelete(w)
  BY <1>6, CommitCreateInv, CommitAdmissionInv, CommitUpdateInv, CommitDeleteInv
<1>7. CASE Abort(w)
  BY <1>7, FailInv, FailChecks DEF Abort
<1> QED
  BY <1>2, <1>3, <1>4, <1>5, <1>6, <1>7 DEF RequestStep

LEMMA NextInv ==
  ASSUME RegistryAssumption, RegistryInv, [Next]_vars
  PROVE  RegistryInv' /\ (ChecksStand => ChecksStand')
<1>1. CASE UNCHANGED vars
  BY <1>1 DEF vars, RegistryInv, RegistryTypeOK, JobsFit, JobFits, Creating, Present, RefExists,
              ReferencesStand, NumbersInOrder, CountersStarted, Of, Children,
              ChecksStand, StillChecked, SlotFree
<1>2. CASE Next
  BY <1>2, StepInv DEF Next
<1> QED
  BY <1>1, <1>2

LEMMA InvAlways == Spec => [](RegistryInv /\ ChecksStand)
<1>1. Init => RegistryInv /\ ChecksStand
  BY InitInv, InitChecks, RegistryAssumption
<1>2. RegistryInv /\ ChecksStand /\ [Next]_vars => (RegistryInv /\ ChecksStand)'
  BY NextInv, RegistryAssumption
<1> QED
  BY <1>1, <1>2, PTL DEF Spec

-----------------------------------------------------------------------------
(* Twins.                                                                  *)

\* A row written over nothing, or over a version with another key, has no twin
\* when its slot was free.
LEMMA FreeSlotNoTwin ==
  ASSUME NEW r \in Rows, NEW val, NEW t, row'[r] = val, SlotFree(r, val),
         NEW s \in Rows, s # r, Present(s), TableOf[s] = t, TableOf[r] = t,
         row'[s].key = row[s].key, row'[s].ref = row[s].ref
  PROVE  ~ AreTwins(t, r, s)' /\ ~ AreTwins(t, s, r)'
<1>1. s \in Of(t) \ {r}
  BY DEF Of
<1>2. val.key # None /\ row[s].key # None /\ SameSpace(t, row[s], val)
        => Folded(t, row[s].key) # Folded(t, val.key)
  BY <1>1 DEF SlotFree
<1> QED
  BY <1>2 DEF AreTwins, SameSpace

\* Rows that keep what twins are made of make no new ones.
LEMMA OldTwins ==
  ASSUME NEW r \in Rows, NEW s \in Rows, NEW t, t \in office, UNCHANGED office,
         AreTwins(t, r, s)', TableOf[r] = t, TableOf[s] = t, Present(r), Present(s),
         row'[r].key = row[r].key, row'[s].key = row[s].key,
         t = "class" => row'[r].ref = row[r].ref /\ row'[s].ref = row[s].ref
  PROVE  <<r, s>> \in Twins
<1>1. AreTwins(t, r, s)
  BY DEF AreTwins, SameSpace
<1>2. r \in Of(t) /\ s \in Of(t)
  BY DEF Of
<1> QED
  BY <1>1, <1>2 DEF Twins

\* A write makes a new twin only of the row it writes, and not when that row's
\* slot was free, or its key and what it is compared within stay as they were.
LEMMA WriteTwins ==
  ASSUME RegistryAssumption, RegistryInv, NEW r \in Rows, NEW val,
         UNCHANGED office, row'[r] = val, val # None,
         \A x \in Rows \ {r} : row'[x] # None =>
            Present(x) /\ row'[x].key = row[x].key /\ row'[x].ref = row[x].ref,
         \/ SlotFree(r, val)
         \/ /\ Present(r) /\ TableOf[r] # "class" /\ val.key = row[r].key
  PROVE  Twins' \subseteq Twins
<1>2. ASSUME NEW p \in Twins' PROVE p \in Twins
  <2>1. PICK t \in office' : /\ p \in Of(t)' \X Of(t)'
                             /\ AreTwins(t, p[1], p[2])'
    BY <1>2 DEF Twins
  <2> DEFINE x == p[1]
             y == p[2]
  <2>2. p = <<x, y>> /\ x \in Of(t)' /\ y \in Of(t)'
    BY <2>1
  <2>3. /\ x \in Rows /\ y \in Rows /\ TableOf[x] = t /\ TableOf[y] = t /\ t \in office
        /\ AreTwins(t, x, y)' /\ x # y
        /\ x # r => Present(x) /\ row'[x].key = row[x].key /\ row'[x].ref = row[x].ref
        /\ y # r => Present(y) /\ row'[y].key = row[y].key /\ row'[y].ref = row[y].ref
    BY <2>1, <2>2 DEF Of, Present, AreTwins
  <2> HIDE DEF x, y
  <2>4. CASE x # r /\ y # r
    BY <2>2, <2>3, <2>4, OldTwins
  <2>5. CASE x = r
    <3>1. y # r
      BY <2>3, <2>5
    <3>2. ~ SlotFree(r, val)
      BY <2>3, <2>5, <3>1, FreeSlotNoTwin
    <3>3. Present(r) /\ t # "class" /\ row'[r].key = row[r].key
      BY <2>3, <2>5, <3>2
    <3> QED
      BY <2>2, <2>3, <2>5, <3>1, <3>3, OldTwins
  <2>6. CASE y = r
    <3>1. x # r
      BY <2>3, <2>6
    <3>2. ~ SlotFree(r, val)
      BY <2>3, <2>6, <3>1, FreeSlotNoTwin
    <3>3. Present(r) /\ t # "class" /\ row'[r].key = row[r].key
      BY <2>3, <2>6, <3>2
    <3> QED
      BY <2>2, <2>3, <2>6, <3>1, <3>3, OldTwins
  <2> QED
    BY <2>4, <2>5, <2>6
<1> QED
  BY <1>2

LEMMA SameTwins ==
  ASSUME UNCHANGED <<office, row>> PROVE Twins' \subseteq Twins
  BY DEF Twins, Of, Present, AreTwins

LEMMA DeleteTwins ==
  ASSUME UNCHANGED office, NEW r, row' = [row EXCEPT ![r] = None], RegistryTypeOK
  PROVE  Twins' \subseteq Twins
<1>1. \A x \in Rows : row'[x] # None => row'[x] = row[x]
  BY DEF RegistryTypeOK
<1> QED
  BY <1>1 DEF Twins, Of, Present, AreTwins

LEMMA StepTwins ==
  ASSUME RegistryAssumption, RegistryInv, ChecksStand, NEW w \in Requests, RequestStep(w)
  PROVE  \/ Twins' \subseteq Twins
         \/ job[w] # NoJob /\ job'[w] = NoJob /\ (overlap[w] \/ HiresFaculty(w))
<1> DEFINE r == job[w].row
<1>1. row \in [Rows -> Record \cup {None}]
  BY DEF RegistryInv, RegistryTypeOK
<1>2. ASSUME NEW rows, Commit(w, rows), job[w].op # "none"
      PROVE  /\ row' = rows /\ UNCHANGED office /\ job[w] # NoJob /\ job'[w] = NoJob
             /\ ~ overlap[w] => StillChecked(w)
             /\ r \in Rows
  BY <1>2 DEF Commit, NoJob, RegistryInv, RegistryTypeOK, ChecksStand, JobsFit, JobFits
<1>3. CASE \/ UNCHANGED <<office, row>> \/ Fail(w) \/ Abort(w) \/ Allocate(w)
  BY <1>3, SameTwins DEF Fail, Abort, Allocate
<1>4. CASE CommitCreate(w)
  <2>1. CASE Fail(w)
    BY <2>1, <1>3
  <2>2. CASE Commit(w, [row EXCEPT ![r] = job[w].new])
    <3>1. job[w].op = "create" /\ job[w].new # None
      BY <1>4 DEF CommitCreate, RegistryInv, JobsFit, JobFits, Creating, RegistryAssumption
    <3>2. CASE overlap[w] \/ HiresFaculty(w)
      BY <1>2, <2>2, <3>1, <3>2
    <3>3. CASE ~ overlap[w] /\ ~ HiresFaculty(w)
      <4>1. SlotFree(r, job[w].new)
        BY <1>2, <2>2, <3>1, <3>3 DEF HiresFaculty, StillChecked
      <4> QED
        <5>1. row' = [row EXCEPT ![r] = job[w].new] /\ UNCHANGED office /\ r \in Rows
          BY <1>2, <2>2, <3>1
        <5>2. /\ row'[r] = job[w].new
              /\ \A x \in Rows \ {r} : row'[x] = row[x]
          BY <1>1, <5>1
        <5> QED
          BY <3>1, <4>1, <5>1, <5>2, WriteTwins DEF Present
    <3> QED
      BY <3>2, <3>3
  <2> QED
    BY <1>4, <2>1, <2>2 DEF CommitCreate
<1>5. CASE CommitAdmission(w)
  <2> DEFINE b == job[w].new.ref
             rows == [row EXCEPT ![r] = job[w].new, ![b].seq = Numbered(w)]
  <2>1. CASE Fail(w)
    BY <2>1, <1>3
  <2>2. CASE Commit(w, rows)
    <3>1. /\ job[w].op = "number" /\ job[w].new # None /\ b \in Rows /\ r \in Rows
          /\ Present(b) /\ ~ Present(r) /\ row[b] \in Record
      BY <1>5, TablesFacts DEF CommitAdmission, RegistryInv, RegistryTypeOK, JobsFit, JobFits,
                               Creating, RefExists, RegistryAssumption, Present
    <3>2. CASE overlap[w]
      BY <1>2, <2>2, <3>1, <3>2
    <3>3. CASE ~ overlap[w]
      <4>1. SlotFree(r, job[w].new)
        BY <1>2, <2>2, <3>1, <3>3 DEF StillChecked
      <4>2. b # r
        BY <3>1 DEF Present
      <4>3. row' = rows /\ UNCHANGED office
        BY <1>2, <2>2, <3>1
      <4>4. /\ row'[r] = job[w].new
            /\ \A x \in Rows \ {r} : row'[x] # None =>
                 Present(x) /\ row'[x].key = row[x].key /\ row'[x].ref = row[x].ref
        <5>1. row'[r] = job[w].new
          BY <1>1, <3>1, <4>2, <4>3
        <5>2. row'[b] = [row[b] EXCEPT !.seq = Numbered(w)]
          BY <1>1, <3>1, <4>2, <4>3
        <5>3. row'[b].key = row[b].key /\ row'[b].ref = row[b].ref
          BY <3>1, <5>2 DEF Record
        <5>4. \A x \in Rows \ {r, b} : row'[x] = row[x]
          BY <1>1, <3>1, <4>3
        <5> HIDE DEF b
        <5> QED
          BY <3>1, <5>1, <5>3, <5>4 DEF Present
      <4> HIDE DEF rows
      <4> QED
        BY <3>1, <4>1, <4>3, <4>4, WriteTwins
    <3> QED
      BY <3>2, <3>3
  <2> QED
    BY <1>5, <2>1, <2>2 DEF CommitAdmission
<1>6. CASE CommitUpdate(w)
  <2>1. CASE Fail(w)
    BY <2>1, <1>3
  <2>2. CASE Present(r) /\ Commit(w, [row EXCEPT ![r] = Written(w)])
    <3>1. job[w].op = "update" /\ Written(w) # None
      BY <1>6, <2>2, WrittenFacts DEF CommitUpdate, RegistryAssumption
    <3>2. CASE overlap[w]
      BY <1>2, <2>2, <3>1, <3>2
    <3>3. CASE ~ overlap[w]
      <4>1. /\ job[w].was = row[r]
            /\ TableOf[r] = "class" \/ job[w].new.key # job[w].was.key => SlotFree(r, job[w].new)
        BY <1>2, <2>2, <3>1, <3>3 DEF StillChecked
      <4>2. Written(w).key = job[w].new.key /\ Written(w).ref = job[w].new.ref
        BY <2>2, <3>1, <4>1, WrittenFacts
      <4>3. SlotFree(r, job[w].new) => SlotFree(r, Written(w))
        BY <4>2 DEF SlotFree, SameSpace
      <4>4. \/ SlotFree(r, Written(w))
            \/ Present(r) /\ TableOf[r] # "class" /\ Written(w).key = row[r].key
        BY <2>2, <4>1, <4>2, <4>3
      <4>5. row' = [row EXCEPT ![r] = Written(w)] /\ UNCHANGED office /\ r \in Rows
        BY <1>2, <2>2, <3>1
      <4>6. /\ row'[r] = Written(w)
            /\ \A x \in Rows \ {r} : row'[x] = row[x]
        BY <1>1, <4>5
      <4> QED
        BY <3>1, <4>4, <4>5, <4>6, WriteTwins DEF Present
    <3> QED
      BY <3>2, <3>3
  <2> QED
    BY <1>6, <2>1, <2>2 DEF CommitUpdate
<1>7. CASE CommitDelete(w)
  <2>1. CASE Fail(w)
    BY <2>1, <1>3
  <2>2. CASE Commit(w, [row EXCEPT ![r] = None])
    BY <1>7, <1>2, <2>2, DeleteTwins DEF CommitDelete, RegistryInv
  <2> QED
    BY <1>7, <2>1, <2>2 DEF CommitDelete
<1>8. ASSUME NEW t, NEW keys, NEW parents,
             \/ ReadForCreate(w, t, keys, parents) \/ ReadForUpdate(w, t, keys, parents)
             \/ ReadForDelete(w, t)
      PROVE  UNCHANGED <<office, row>>
  <2>1. \A j : Begin(w, j) => UNCHANGED <<office, row>>
    BY DEF Begin
  <2>2. CASE ReadForCreate(w, t, keys, parents)
    BY <2>1, <2>2 DEF ReadForCreate
  <2>3. CASE ReadForUpdate(w, t, keys, parents)
    BY <2>1, <2>3 DEF ReadForUpdate
  <2>4. CASE ReadForDelete(w, t)
    BY <2>1, <2>4 DEF ReadForDelete
  <2> QED
    BY <1>8, <2>2, <2>3, <2>4
<1>9. CASE \/ CreateProgram(w) \/ CreateClass(w) \/ CreateMember(w)
           \/ CreateSubject(w) \/ CreateSession(w) \/ CreateStudent(w)
           \/ UpdateProgram(w) \/ UpdateClass(w) \/ UpdateMember(w)
           \/ UpdateSubject(w) \/ UpdateStudent(w)
           \/ DeleteProgram(w) \/ DeleteClass(w) \/ DeleteMember(w) \/ DeleteSubject(w)
  <2>1. UNCHANGED <<office, row>>
    BY <1>8, <1>9
    DEF CreateProgram, CreateClass, CreateMember, CreateSubject, CreateSession,
        CreateStudent, UpdateProgram, UpdateClass, UpdateMember, UpdateSubject, UpdateStudent,
        DeleteProgram, DeleteClass, DeleteMember, DeleteSubject
  <2> QED
    BY <2>1, <1>3
<1> QED
  BY <1>3, <1>4, <1>5, <1>6, <1>7, <1>9 DEF RequestStep

-----------------------------------------------------------------------------
(* Theorems.                                                               *)

\* Every variable of the registry keeps its type, in every office.
THEOREM RegistryTypes == Spec => []RegistryTypeOK
<1>1. RegistryInv => RegistryTypeOK
  BY DEF RegistryInv
<1> QED
  BY <1>1, InvAlways, PTL

\* However creations, moves and deletions overlap, a class has its program, a
\* subject its teacher and a student their batch.
THEOREM ReferencesAlwaysStand == Spec => []ReferencesStand
<1>1. RegistryInv => ReferencesStand
  BY DEF RegistryInv
<1> QED
  BY <1>1, InvAlways, PTL

\* The roll numbers of a batch are 1, 2, ... without a gap or a repetition, for
\* any number of admissions at once and of admissions rolled back.
THEOREM NumbersStayInOrder == Spec => []NumbersInOrder
<1>1. RegistryInv => NumbersInOrder
  BY DEF RegistryInv
<1> QED
  BY <1>1, InvAlways, PTL

\* Two rows whose unique columns differ in case only appear only when somebody
\* committed between the check and the write of one of them, or when a faculty
\* member is created.
THEOREM TwinsComeFromOverlap == Spec => TwinsNeedOverlap
<1>1. ASSUME RegistryInv, ChecksStand, [Next]_vars
      PROVE  [Twins' \subseteq Twins
              \/ \E w \in Requests :
                   job[w] # NoJob /\ job'[w] = NoJob /\ (overlap[w] \/ HiresFaculty(w))]_vars
  BY <1>1, StepTwins, RegistryAssumption DEF Next
<1> QED
  BY <1>1, InvAlways, PTL DEF Spec, TwinsNeedOverlap
=============================================================================
