----------------------------- MODULE MCRegistry -----------------------------
(* Small instances of Registry. *)
EXTENDS Registry, TLC

CONSTANTS p1, p2, c1, c2, f1, f2, s1, s2, b1, t1, t2, t3

RowTables == p1 :> "program" @@ p2 :> "program" @@ c1 :> "class" @@ c2 :> "class"
             @@ f1 :> "faculty" @@ f2 :> "faculty" @@ s1 :> "subject" @@ s2 :> "subject"
             @@ b1 :> "batch" @@ t1 :> "student" @@ t2 :> "student" @@ t3 :> "student"

\* A key, the same in capitals, and the latter after a blank.
AllKeys == {"ab", "AB", " AB", " ab"}
TypedKeys == {"ab", "AB", " AB"}
LowerCase == "ab" :> "ab" @@ "AB" :> "ab" @@ " AB" :> " ab" @@ " ab" :> " ab"
Trimmed == "ab" :> "ab" @@ "AB" :> "AB" @@ " AB" :> "AB" @@ " ab" :> "ab"

Desks == {{"program", "class"}, {"faculty", "subject"}, {"batch", "student"}}
Symmetry == Permutations(Requests)
=============================================================================
