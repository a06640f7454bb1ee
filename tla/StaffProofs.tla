---------------------------- MODULE StaffProofs ----------------------------
(***************************************************************************)
(* Theorems about Staff, for any accounts, roles, permissions, requests    *)
(* and token lifetime.                                                     *)
(***************************************************************************)
EXTENDS Staff, TLAPS

-----------------------------------------------------------------------------
(* The inductive invariant.                                                *)

Jobs == [op : StaffOps \cup {"none"}, user : Users \cup {Nobody},
         role : Roles \cup {Nobody}, name : Names \cup {Nobody},
         active : BOOLEAN, roles : SUBSET Roles, heldSeen : SUBSET Roles,
         grants : SUBSET Codes, grantsSeen : SUBSET Codes]

\* Nobody works before the migration is done.
Quiet == ~ serving => /\ \A u \in Users : active[u] = Nobody /\ held[u] = {} /\ token[u] = Nobody
                      /\ \A w \in Requests : job[w] = NoJob

\* A role carries known permissions, the super admin all of them.
GrantsKnown == /\ serving => codes = Codes
               /\ codes \subseteq Codes \cup OldCodes
               /\ grants[Super] = codes
               /\ \A i \in Roles : grants[i] \subseteq codes

\* A permission split off reached every role that had the whole.
WritesCarried ==
  ~ serving => \A i \in Roles, res \in DOMAIN Split : \A a \in Split[res] :
                 <<res, a>> \in codes /\ Write(res) \in grants[i] => <<res, a>> \in grants[i]

NamesUnique == /\ role[Super] = SuperName
               /\ \A i, j \in Roles : role[i] # Nobody /\ role[i] = role[j] => i = j

\* What a request may rely on: accounts never go away, the super admin is not edited.
JobFits(w) ==
  LET j == job[w] IN
  /\ j.op \in {"createUser", "setRoles", "setActive"} => j.user \in Users
  /\ j.op \in {"setRoles", "setActive"} => active[j.user] # Nobody
  /\ j.op \in {"rename", "setGrants", "deleteRole"} => j.role \in Roles \ {Super}
  /\ j.op \in {"rename", "createRole"} => j.name \in Names

JobsFit == \A w \in Requests : JobFits(w)

\* Whoever has the watched permission has it now.
Counted == \A u \in Users : Probe \in May(u) => since[u] = 0

StaffInv == /\ StaffTypeOK /\ Quiet /\ GrantsKnown /\ WritesCarried /\ NamesUnique
            /\ AssignmentsStand /\ JobsFit /\ Counted /\ TokensLagByTTL

-----------------------------------------------------------------------------
(* The first state.                                                        *)

LEMMA NoJobTyped == NoJob \in Jobs /\ NoJob.op = "none"
  BY DEF NoJob, Jobs

LEMMA TypeJobs == StaffTypeOK => job \in [Requests -> Jobs]
  BY DEF StaffTypeOK, Jobs

LEMMA OldNotNew ==
  ASSUME StaffAssumption, NEW res \in DOMAIN Split, NEW a \in Split[res]
  PROVE  <<res, a>> \notin OldCodes /\ <<res, a>> \in Codes
<1>1. \A other \in DOMAIN Split : Write(other) # <<res, a>>
  BY DEF StaffAssumption, Write
<1>2. <<res, a>> \in {res} \X Split[res]
  OBVIOUS
<1> QED
  BY <1>1, <1>2 DEF OldCodes, Codes

LEMMA InitInv == ASSUME StaffAssumption, Init PROVE StaffInv
<1>1. ASSUME NEW u \in Users PROVE Probe \notin May(u)
  <2>1. \A i : i \notin held[u]
    BY DEF Init
  <2> QED
    BY <2>1 DEF May
<1>2. StaffTypeOK
  <2>1. job \in [Requests -> Jobs]
    BY NoJobTyped DEF Init
  <2>2. grants \in [Roles -> SUBSET (Codes \cup OldCodes)]
    BY DEF Init
  <2>3. since \in [Users -> 0 .. TTL + 1]
    BY DEF Init, StaffAssumption
  <2>4. /\ serving \in BOOLEAN /\ codes \subseteq Codes \cup OldCodes
        /\ role \in [Roles -> Names \cup {Nobody}]
        /\ active \in [Users -> BOOLEAN \cup {Nobody}] /\ held \in [Users -> SUBSET Roles]
        /\ token \in [Users -> [perms : SUBSET Codes, age : 0 .. TTL] \cup {Nobody}]
    BY DEF Init
  <2> QED
    BY <2>1, <2>2, <2>3, <2>4 DEF StaffTypeOK, Jobs
<1>3. Quiet
  BY DEF Init, Quiet
<1>4. GrantsKnown
  BY DEF Init, GrantsKnown
<1>5. WritesCarried
  BY OldNotNew DEF Init, WritesCarried
<1>6. NamesUnique
  BY DEF Init, NamesUnique
<1>7. AssignmentsStand
  BY DEF Init, AssignmentsStand
<1>8. JobsFit
  BY NoJobTyped DEF Init, JobsFit, JobFits
<1>9. Counted /\ TokensLagByTTL
  BY <1>1 DEF Init, Counted, TokensLagByTTL
<1> QED
  BY <1>2, <1>3, <1>4, <1>5, <1>6, <1>7, <1>8, <1>9 DEF StaffInv

-----------------------------------------------------------------------------
(* Requests.                                                               *)

\* A request arrives: the tables stay as they are.
LEMMA BeginInv ==
  ASSUME StaffAssumption, StaffInv, NEW w \in Requests, NEW j \in Jobs, Begin(w, j),
         j.op \in {"createUser", "setRoles", "setActive"} => j.user \in Users,
         j.op \in {"setRoles", "setActive"} => active[j.user] # Nobody,
         j.op \in {"rename", "setGrants", "deleteRole"} => j.role \in Roles \ {Super},
         j.op \in {"rename", "createRole"} => j.name \in Names
  PROVE  StaffInv'
<1>1. job' = [job EXCEPT ![w] = j] /\ UNCHANGED <<serving, dbVars, tokenVars>>
  BY DEF Begin
<1>2. serving
  BY DEF Begin, Authorised, Accounts, StaffInv, Quiet
<1>3. job \in [Requests -> Jobs]
  BY TypeJobs DEF StaffInv
<1>4. job' \in [Requests -> Jobs] /\ job'[w] = j /\ \A v \in Requests \ {w} : job'[v] = job[v]
  BY <1>1, <1>3
<1>5. StaffTypeOK'
  BY <1>1, <1>4 DEF StaffInv, StaffTypeOK, Jobs, dbVars, tokenVars
<1>6. JobsFit'
  BY <1>1, <1>4 DEF StaffInv, JobsFit, JobFits, dbVars
<1>7. Quiet' /\ WritesCarried'
  BY <1>1, <1>2 DEF Quiet, WritesCarried
<1>8. GrantsKnown' /\ NamesUnique' /\ AssignmentsStand'
  BY <1>1 DEF StaffInv, GrantsKnown, NamesUnique, AssignmentsStand, RoleIds, dbVars
<1>9. Counted' /\ TokensLagByTTL'
  BY <1>1 DEF StaffInv, Counted, TokensLagByTTL, May, dbVars, tokenVars
<1> QED
  BY <1>5, <1>6, <1>7, <1>8, <1>9 DEF StaffInv

\* Recording the watched permission at a commit keeps tokens within its history.
LEMMA RecordedInv ==
  ASSUME StaffAssumption, StaffInv, Recorded, UNCHANGED token
  PROVE  Counted' /\ TokensLagByTTL' /\ since' \in [Users -> 0 .. TTL + 1]
<1>1. /\ token \in [Users -> [perms : SUBSET Codes, age : 0 .. TTL] \cup {Nobody}]
      /\ since \in [Users -> 0 .. TTL + 1] /\ TTL \in Nat
  BY DEF StaffInv, StaffTypeOK, StaffAssumption
<1>2. since' \in [Users -> 0 .. TTL + 1]
  BY <1>1 DEF Recorded
<1>3. Counted'
  BY DEF Recorded, Counted
<1>4. ASSUME NEW u \in Users, token'[u] # Nobody, Probe \in token'[u].perms
      PROVE  since'[u] <= token'[u].age
  <2>1. since[u] <= token[u].age /\ token[u].age \in 0 .. TTL
    BY <1>1, <1>4 DEF StaffInv, TokensLagByTTL
  <2>2. since'[u] = 0 \/ since'[u] = since[u]
    BY DEF Recorded
  <2> QED
    BY <1>1, <2>1, <2>2
<1> QED
  BY <1>2, <1>3, <1>4 DEF TokensLagByTTL

\* A request ends: what it wrote is checked in the hypotheses.
LEMMA FinishInv ==
  ASSUME StaffAssumption, StaffInv, NEW w \in Requests, Finish(w), job[w].op # "none",
         role' \in [Roles -> Names \cup {Nobody}],
         grants' \in [Roles -> SUBSET (Codes \cup OldCodes)],
         active' \in [Users -> BOOLEAN \cup {Nobody}],
         held' \in [Users -> SUBSET Roles],
         grants'[Super] = grants[Super], \A i \in Roles : grants'[i] \subseteq Codes,
         \A u \in Users : active[u] # Nobody => active'[u] # Nobody,
         NamesUnique', AssignmentsStand'
  PROVE  StaffInv'
<1>1. /\ job' = [job EXCEPT ![w] = NoJob] /\ UNCHANGED <<serving, codes, token>> /\ Recorded
  BY DEF Finish
<1>2. serving
  BY NoJobTyped DEF StaffInv, Quiet
<1>3. job \in [Requests -> Jobs]
  BY TypeJobs DEF StaffInv
<1>4. /\ job' \in [Requests -> Jobs] /\ job'[w] = NoJob
      /\ \A v \in Requests \ {w} : job'[v] = job[v]
  BY <1>1, <1>3, NoJobTyped
<1>5. Counted' /\ TokensLagByTTL' /\ since' \in [Users -> 0 .. TTL + 1]
  BY <1>1, RecordedInv
<1>6. StaffTypeOK'
  BY <1>1, <1>4, <1>5 DEF StaffInv, StaffTypeOK, Jobs
<1>7. JobsFit'
  BY <1>4, NoJobTyped DEF StaffInv, JobsFit, JobFits
<1>8. Quiet' /\ WritesCarried'
  BY <1>1, <1>2 DEF Quiet, WritesCarried
<1>9. GrantsKnown'
  BY <1>1, <1>2 DEF StaffInv, GrantsKnown
<1> QED
  BY <1>5, <1>6, <1>7, <1>8, <1>9 DEF StaffInv

LEMMA FailInv ==
  ASSUME StaffAssumption, StaffInv, NEW w \in Requests, Fail(w), job[w].op # "none"
  PROVE  StaffInv'
<1>1. UNCHANGED <<role, grants, active, held>> /\ Finish(w)
  BY DEF Fail
<1>2. serving
  BY NoJobTyped DEF StaffInv, Quiet
<1>3. NamesUnique' /\ AssignmentsStand'
  BY <1>1 DEF StaffInv, NamesUnique, AssignmentsStand, RoleIds
<1> QED
  BY <1>1, <1>2, <1>3, FinishInv DEF StaffInv, StaffTypeOK, GrantsKnown

-----------------------------------------------------------------------------
(* What a request reads.                                                   *)

LEMMA ResolvedRoles == \A ns : Resolved(ns) \subseteq RoleIds /\ Resolved(ns) \subseteq Roles
  BY DEF Resolved, RoleIds

LEMMA ReadForUserInv ==
  ASSUME StaffAssumption, StaffInv, NEW w \in Requests, ReadForUser(w)
  PROVE  StaffInv'
<1>1. PICK u \in Users \ Accounts, ns \in NameSets :
        Begin(w, [NoJob EXCEPT !.op = "createUser", !.user = u, !.roles = Resolved(ns)])
  BY DEF ReadForUser
<1> DEFINE j == [NoJob EXCEPT !.op = "createUser", !.user = u, !.roles = Resolved(ns)]
<1>2. "createUser" \in StaffOps
  BY <1>1, NoJobTyped DEF Begin, Jobs
<1>3. j \in Jobs /\ j.op = "createUser" /\ j.user = u
  BY <1>2, NoJobTyped, ResolvedRoles DEF Jobs
<1>9. Begin(w, j)
  BY <1>1
<1> HIDE DEF j
<1> QED
  BY <1>9, <1>3, BeginInv

LEMMA ReadRolesInv ==
  ASSUME StaffAssumption, StaffInv, NEW w \in Requests, ReadRoles(w)
  PROVE  StaffInv'
<1>1. PICK u \in Accounts, ns \in NameSets :
        Begin(w, [NoJob EXCEPT !.op = "setRoles", !.user = u, !.roles = Resolved(ns),
                               !.heldSeen = held[u]])
  BY DEF ReadRoles
<1> DEFINE j == [NoJob EXCEPT !.op = "setRoles", !.user = u, !.roles = Resolved(ns),
                              !.heldSeen = held[u]]
<1>2. "setRoles" \in StaffOps
  BY <1>1, NoJobTyped DEF Begin, Jobs
<1>3. u \in Users /\ active[u] # Nobody /\ held[u] \in SUBSET Roles
  BY DEF Accounts, StaffInv, StaffTypeOK
<1>4. j \in Jobs /\ j.op = "setRoles" /\ j.user = u
  BY <1>2, <1>3, NoJobTyped, ResolvedRoles DEF Jobs
<1>9. Begin(w, j)
  BY <1>1
<1> HIDE DEF j
<1> QED
  BY <1>9, <1>3, <1>4, BeginInv

LEMMA ReadAccountInv ==
  ASSUME StaffAssumption, StaffInv, NEW w \in Requests, ReadAccount(w)
  PROVE  StaffInv'
<1>1. PICK u \in Accounts, b \in BOOLEAN :
        Begin(w, [NoJob EXCEPT !.op = "setActive", !.user = u, !.active = b])
  BY DEF ReadAccount
<1> DEFINE j == [NoJob EXCEPT !.op = "setActive", !.user = u, !.active = b]
<1>2. "setActive" \in StaffOps
  BY <1>1, NoJobTyped DEF Begin, Jobs
<1>3. u \in Users /\ active[u] # Nobody
  BY DEF Accounts
<1>4. j \in Jobs /\ j.op = "setActive" /\ j.user = u
  BY <1>2, <1>3, NoJobTyped DEF Jobs
<1>9. Begin(w, j)
  BY <1>1
<1> HIDE DEF j
<1> QED
  BY <1>9, <1>3, <1>4, BeginInv

LEMMA ReadForRoleInv ==
  ASSUME StaffAssumption, StaffInv, NEW w \in Requests, ReadForRole(w)
  PROVE  StaffInv'
<1>1. PICK n \in Names, g \in GrantSets :
        Begin(w, [NoJob EXCEPT !.op = "createRole", !.name = n, !.grants = g])
  BY DEF ReadForRole
<1> DEFINE j == [NoJob EXCEPT !.op = "createRole", !.name = n, !.grants = g]
<1>2. "createRole" \in StaffOps
  BY <1>1, NoJobTyped DEF Begin, Jobs
<1>3. g \in SUBSET Codes
  BY DEF StaffAssumption
<1>4. j \in Jobs /\ j.op = "createRole" /\ j.name = n
  BY <1>2, <1>3, NoJobTyped DEF Jobs
<1>9. Begin(w, j)
  BY <1>1
<1> HIDE DEF j
<1> QED
  BY <1>9, <1>4, BeginInv

\* The super admin role may not be edited.
LEMMA EditableNotSuper ==
  ASSUME StaffInv, NEW i \in RoleIds, ~ Immutable(i)
  PROVE  i \in Roles \ {Super}
  BY DEF RoleIds, Immutable

LEMMA ReadNameInv ==
  ASSUME StaffAssumption, StaffInv, NEW w \in Requests, ReadName(w)
  PROVE  StaffInv'
<1>1. PICK i \in RoleIds, n \in Names :
        /\ ~ Immutable(i)
        /\ Begin(w, [NoJob EXCEPT !.op = "rename", !.role = i, !.name = n])
  BY DEF ReadName
<1> DEFINE j == [NoJob EXCEPT !.op = "rename", !.role = i, !.name = n]
<1>2. "rename" \in StaffOps
  BY <1>1, NoJobTyped DEF Begin, Jobs
<1>3. i \in Roles \ {Super}
  BY <1>1, EditableNotSuper
<1>4. j \in Jobs /\ j.op = "rename" /\ j.role = i /\ j.name = n
  BY <1>2, <1>3, NoJobTyped DEF Jobs
<1>9. Begin(w, j)
  BY <1>1
<1> HIDE DEF j
<1> QED
  BY <1>9, <1>3, <1>4, BeginInv

LEMMA ReadGrantsInv ==
  ASSUME StaffAssumption, StaffInv, NEW w \in Requests, ReadGrants(w)
  PROVE  StaffInv'
<1>1. PICK i \in RoleIds, g \in GrantSets :
        /\ ~ Immutable(i)
        /\ Begin(w, [NoJob EXCEPT !.op = "setGrants", !.role = i, !.grants = g,
                                  !.grantsSeen = grants[i]])
  BY DEF ReadGrants
<1> DEFINE j == [NoJob EXCEPT !.op = "setGrants", !.role = i, !.grants = g,
                              !.grantsSeen = grants[i]]
<1>2. "setGrants" \in StaffOps
  BY <1>1, NoJobTyped DEF Begin, Jobs
<1>3. i \in Roles \ {Super} /\ g \in SUBSET Codes
  BY <1>1, EditableNotSuper DEF StaffAssumption
<1>4. serving
  BY <1>1 DEF Begin, Authorised, Accounts, StaffInv, Quiet
<1>5. grants[i] \in SUBSET Codes
  BY <1>3, <1>4 DEF StaffInv, GrantsKnown
<1>6. j \in Jobs /\ j.op = "setGrants" /\ j.role = i
  BY <1>2, <1>3, <1>5, NoJobTyped DEF Jobs
<1>9. Begin(w, j)
  BY <1>1
<1> HIDE DEF j
<1> QED
  BY <1>9, <1>3, <1>6, BeginInv

LEMMA CountHoldersInv ==
  ASSUME StaffAssumption, StaffInv, NEW w \in Requests, CountHolders(w)
  PROVE  StaffInv'
<1>1. PICK i \in RoleIds :
        ~ Immutable(i) /\ Begin(w, [NoJob EXCEPT !.op = "deleteRole", !.role = i])
  BY DEF CountHolders
<1> DEFINE j == [NoJob EXCEPT !.op = "deleteRole", !.role = i]
<1>2. "deleteRole" \in StaffOps
  BY <1>1, NoJobTyped DEF Begin, Jobs
<1>3. i \in Roles \ {Super}
  BY <1>1, EditableNotSuper
<1>4. j \in Jobs /\ j.op = "deleteRole" /\ j.role = i
  BY <1>2, <1>3, NoJobTyped DEF Jobs
<1>9. Begin(w, j)
  BY <1>1
<1> HIDE DEF j
<1> QED
  BY <1>9, <1>3, <1>4, BeginInv

-----------------------------------------------------------------------------
(* What a request writes.                                                  *)

\* What every commit starts from.
LEMMA Working ==
  ASSUME StaffAssumption, StaffInv, NEW w \in Requests, job[w].op # "none"
  PROVE  /\ serving /\ codes = Codes /\ job[w] \in Jobs
         /\ role \in [Roles -> Names \cup {Nobody}]
         /\ grants \in [Roles -> SUBSET (Codes \cup OldCodes)]
         /\ \A i \in Roles : grants[i] \subseteq Codes
         /\ active \in [Users -> BOOLEAN \cup {Nobody}]
         /\ held \in [Users -> SUBSET Roles]
         /\ NamesUnique /\ AssignmentsStand
         /\ Super \in Roles /\ Nobody \notin Names /\ Nobody \notin BOOLEAN
<1>1. serving
  BY NoJobTyped DEF StaffInv, Quiet
<1> QED
  BY <1>1, TypeJobs DEF StaffInv, StaffTypeOK, GrantsKnown, StaffAssumption

\* The assignments after a commit: the difference is applied to one account.
LEMMA AssignedFacts ==
  ASSUME StaffAssumption, StaffInv, NEW w \in Requests,
         job[w].op \in {"createUser", "setRoles"}, MayAssign(w)
  PROVE  /\ Assigned(w) \in [Users -> SUBSET Roles]
         /\ \A u \in Users : Assigned(w)[u] \subseteq RoleIds
         /\ \A u \in Users \ {job[w].user} : Assigned(w)[u] = held[u]
<1>1. /\ held \in [Users -> SUBSET Roles] /\ job[w].user \in Users /\ RoleIds \subseteq Roles
      /\ \A u \in Users : held[u] \subseteq RoleIds
  BY DEF StaffInv, StaffTypeOK, JobsFit, JobFits, AssignmentsStand, RoleIds
<1>2. job[w].roles \ job[w].heldSeen \subseteq RoleIds
  BY DEF MayAssign
<1> QED
  BY <1>1, <1>2 DEF Assigned

LEMMA CommitUserInv ==
  ASSUME StaffAssumption, StaffInv, NEW w \in Requests, CommitUser(w)
  PROVE  StaffInv'
<1>1. job[w].op = "createUser" /\ job[w].user \in Users
  BY DEF CommitUser, StaffInv, JobsFit, JobFits
<1>2. CASE Fail(w)
  BY <1>1, <1>2, FailInv
<1>3. CASE /\ MayAssign(w) /\ active' = [active EXCEPT ![job[w].user] = TRUE]
           /\ held' = Assigned(w) /\ UNCHANGED <<role, grants>> /\ Finish(w)
  <2>1. NamesUnique'
    BY <1>1, <1>3, Working DEF NamesUnique
  <2>2. AssignmentsStand'
    <3>1. /\ \A u \in Users : Assigned(w)[u] \subseteq RoleIds
          /\ \A u \in Users \ {job[w].user} : Assigned(w)[u] = held[u]
      BY <1>1, <1>3, AssignedFacts
    <3>2. active \in [Users -> BOOLEAN \cup {Nobody}] /\ AssignmentsStand
      BY <1>1, Working
    <3> QED
      BY <1>1, <1>3, <3>1, <3>2 DEF AssignmentsStand, RoleIds
  <2> QED
    BY <1>1, <1>3, <2>1, <2>2, Working, AssignedFacts, FinishInv
<1> QED
  BY <1>2, <1>3 DEF CommitUser

LEMMA CommitRolesInv ==
  ASSUME StaffAssumption, StaffInv, NEW w \in Requests, CommitRoles(w)
  PROVE  StaffInv'
<1>1. job[w].op = "setRoles" /\ job[w].user \in Users /\ active[job[w].user] # Nobody
  BY DEF CommitRoles, StaffInv, JobsFit, JobFits
<1>2. CASE Fail(w)
  BY <1>1, <1>2, FailInv
<1>3. CASE /\ MayAssign(w) /\ held' = Assigned(w)
           /\ UNCHANGED <<role, grants, active>> /\ Finish(w)
  <2>1. NamesUnique'
    BY <1>1, <1>3, Working DEF NamesUnique
  <2>2. AssignmentsStand'
    BY <1>1, <1>3, Working, AssignedFacts DEF AssignmentsStand, RoleIds
  <2> QED
    BY <1>1, <1>3, <2>1, <2>2, Working, AssignedFacts, FinishInv
<1> QED
  BY <1>2, <1>3 DEF CommitRoles

LEMMA CommitAccountInv ==
  ASSUME StaffAssumption, StaffInv, NEW w \in Requests, CommitAccount(w)
  PROVE  StaffInv'
<1>1. job[w].op = "setActive" /\ job[w].user \in Users /\ active[job[w].user] # Nobody
  BY DEF CommitAccount, StaffInv, JobsFit, JobFits
<1>2. /\ active' = [active EXCEPT ![job[w].user] = job[w].active]
      /\ UNCHANGED <<role, grants, held>> /\ Finish(w)
  BY DEF CommitAccount
<1>3. job[w].active \in BOOLEAN
  BY <1>1, Working DEF Jobs
<1>4. /\ active' \in [Users -> BOOLEAN \cup {Nobody}]
      /\ \A u \in Users : active[u] # Nobody => active'[u] # Nobody
  BY <1>1, <1>2, <1>3, Working
<1>5. NamesUnique' /\ AssignmentsStand'
  BY <1>1, <1>2, <1>4, Working DEF NamesUnique, AssignmentsStand, RoleIds
<1> QED
  BY <1>1, <1>2, <1>4, <1>5, Working, FinishInv

LEMMA CommitRoleInv ==
  ASSUME StaffAssumption, StaffInv, NEW w \in Requests, CommitRole(w)
  PROVE  StaffInv'
<1>1. job[w].op = "createRole" /\ job[w].name \in Names /\ job[w].grants \in SUBSET Codes
  BY Working DEF CommitRole, StaffInv, JobsFit, JobFits, Jobs
<1>2. CASE Fail(w)
  BY <1>1, <1>2, FailInv
<1>3. ASSUME NameFree(Nobody, job[w].name), NEW i \in Roles \ RoleIds,
             role' = [role EXCEPT ![i] = job[w].name],
             grants' = [grants EXCEPT ![i] = job[w].grants],
             UNCHANGED <<active, held>>, Finish(w)
      PROVE  StaffInv'
  <2>1. role[i] = Nobody /\ i # Super
    BY <1>1, Working, StaffAssumption DEF RoleIds, NamesUnique, StaffAssumption
  <2>2. \A k \in Roles : role[k] # job[w].name
    BY <1>1, <1>3, Working, StaffAssumption DEF NameFree, RoleIds, StaffAssumption
  <2>3. role' \in [Roles -> Names \cup {Nobody}]
        /\ role'[i] = job[w].name /\ \A k \in Roles \ {i} : role'[k] = role[k]
    BY <1>1, <1>3, Working
  <2>4. NamesUnique'
    BY <1>1, <2>1, <2>2, <2>3, Working DEF NamesUnique
  <2>5. AssignmentsStand'
    BY <1>1, <1>3, <2>3, Working DEF AssignmentsStand, RoleIds
  <2>6. grants' \in [Roles -> SUBSET (Codes \cup OldCodes)] /\ grants'[Super] = grants[Super]
        /\ \A k \in Roles : grants'[k] \subseteq Codes
    BY <1>1, <1>3, <2>1, Working
  <2> QED
    BY <1>1, <1>3, <2>3, <2>4, <2>5, <2>6, Working, FinishInv
<1> QED
  BY <1>2, <1>3 DEF CommitRole

LEMMA CommitNameInv ==
  ASSUME StaffAssumption, StaffInv, NEW w \in Requests, CommitName(w)
  PROVE  StaffInv'
<1> DEFINE i == job[w].role
<1>1. job[w].op = "rename" /\ job[w].name \in Names /\ i \in Roles \ {Super}
  BY DEF CommitName, StaffInv, JobsFit, JobFits
<1>2. CASE Fail(w)
  BY <1>1, <1>2, FailInv
<1>3. CASE /\ i \in RoleIds /\ NameFree(i, job[w].name)
           /\ role' = [role EXCEPT ![i] = job[w].name]
           /\ UNCHANGED <<grants, active, held>> /\ Finish(w)
  <2> HIDE DEF i
  <2>1. \A k \in Roles \ {i} : role[k] # job[w].name
    BY <1>1, <1>3, Working DEF NameFree, RoleIds
  <2>2. role' \in [Roles -> Names \cup {Nobody}]
        /\ role'[i] = job[w].name /\ \A k \in Roles \ {i} : role'[k] = role[k]
    BY <1>1, <1>3, Working
  <2>3. NamesUnique'
    BY <1>1, <2>1, <2>2, Working DEF NamesUnique
  <2>4. AssignmentsStand'
    BY <1>1, <1>3, <2>2, Working DEF AssignmentsStand, RoleIds
  <2> QED
    BY <1>1, <1>3, <2>2, <2>3, <2>4, Working, FinishInv
<1> QED
  BY <1>2, <1>3 DEF CommitName

LEMMA CommitGrantsInv ==
  ASSUME StaffAssumption, StaffInv, NEW w \in Requests, CommitGrants(w)
  PROVE  StaffInv'
<1> DEFINE i == job[w].role
           added == job[w].grants \ job[w].grantsSeen
           dropped == job[w].grantsSeen \ job[w].grants
<1>1. job[w].op = "setGrants" /\ i \in Roles \ {Super} /\ added \subseteq Codes
  BY Working DEF CommitGrants, StaffInv, JobsFit, JobFits, Jobs
<1>2. CASE Fail(w)
  BY <1>1, <1>2, FailInv
<1>3. CASE /\ grants' = [grants EXCEPT ![i] = (@ \ dropped) \cup added]
           /\ UNCHANGED <<role, active, held>> /\ Finish(w)
  <2> HIDE DEF i, added, dropped
  <2>1. NamesUnique' /\ AssignmentsStand'
    BY <1>1, <1>3, Working DEF NamesUnique, AssignmentsStand, RoleIds
  <2>2. grants' \in [Roles -> SUBSET (Codes \cup OldCodes)] /\ grants'[Super] = grants[Super]
        /\ \A k \in Roles : grants'[k] \subseteq Codes
    BY <1>1, <1>3, Working
  <2> QED
    BY <1>1, <1>3, <2>1, <2>2, Working, FinishInv
<1> QED
  BY <1>2, <1>3 DEF CommitGrants

LEMMA CommitDeletionInv ==
  ASSUME StaffAssumption, StaffInv, NEW w \in Requests, CommitDeletion(w)
  PROVE  StaffInv'
<1> DEFINE i == job[w].role
<1>1. job[w].op = "deleteRole" /\ i \in Roles \ {Super}
  BY DEF CommitDeletion, StaffInv, JobsFit, JobFits
<1>2. /\ role' = [role EXCEPT ![i] = Nobody] /\ grants' = [grants EXCEPT ![i] = {}]
      /\ held' = [u \in Users |-> held[u] \ {i}] /\ UNCHANGED active /\ Finish(w)
  BY DEF CommitDeletion
<1> HIDE DEF i
<1>3. role' \in [Roles -> Names \cup {Nobody}]
      /\ role'[i] = Nobody /\ \A k \in Roles \ {i} : role'[k] = role[k]
  BY <1>1, <1>2, Working
<1>4. NamesUnique'
  BY <1>1, <1>3, Working DEF NamesUnique
<1>5. AssignmentsStand'
  BY <1>1, <1>2, <1>3, Working DEF AssignmentsStand, RoleIds
<1>6. /\ grants' \in [Roles -> SUBSET (Codes \cup OldCodes)] /\ grants'[Super] = grants[Super]
      /\ \A k \in Roles : grants'[k] \subseteq Codes
      /\ held' \in [Users -> SUBSET Roles]
  BY <1>1, <1>2, Working
<1> QED
  BY <1>1, <1>2, <1>3, <1>4, <1>5, <1>6, Working, FinishInv

LEMMA RequestInv ==
  ASSUME StaffAssumption, StaffInv, NEW w \in Requests, RequestStep(w)
  PROVE  StaffInv'
  BY ReadForUserInv, ReadRolesInv, ReadAccountInv, CommitUserInv, CommitRolesInv,
     CommitAccountInv, ReadForRoleInv, ReadNameInv, ReadGrantsInv, CountHoldersInv,
     CommitRoleInv, CommitNameInv, CommitGrantsInv, CommitDeletionInv
  DEF RequestStep

-----------------------------------------------------------------------------
(* Server start, tokens and time.                                          *)

\* Before serving only the permissions and grants change.
LEMMA MigrationInv ==
  ASSUME StaffAssumption, StaffInv, ~ serving,
         UNCHANGED <<serving, role, active, held, tokenVars, job>>,
         grants' \in [Roles -> SUBSET (Codes \cup OldCodes)],
         codes' \subseteq Codes \cup OldCodes,
         grants'[Super] = codes', \A i \in Roles : grants'[i] \subseteq codes',
         WritesCarried'
  PROVE  StaffInv'
<1>1. StaffTypeOK'
  BY DEF StaffInv, StaffTypeOK, tokenVars
<1>2. Quiet'
  BY DEF StaffInv, Quiet, tokenVars
<1>3. GrantsKnown'
  BY DEF GrantsKnown
<1>4. NamesUnique' /\ AssignmentsStand'
  BY DEF StaffInv, NamesUnique, AssignmentsStand, RoleIds
<1>5. JobsFit'
  BY NoJobTyped DEF StaffInv, Quiet, JobsFit, JobFits
<1>6. ASSUME NEW u \in Users PROVE Probe \notin May(u)'
  <2>1. \A i : i \notin held'[u]
    BY DEF StaffInv, Quiet
  <2> QED
    BY <2>1 DEF May
<1>7. Counted'
  BY <1>6 DEF Counted
<1>8. TokensLagByTTL'
  BY DEF StaffInv, TokensLagByTTL, tokenVars
<1> QED
  BY <1>1, <1>2, <1>3, <1>4, <1>5, <1>7, <1>8 DEF StaffInv

LEMMA PairsApart ==
  ASSUME NEW res, NEW a, NEW res2, NEW a2
  PROVE  <<res, a>> = <<res2, a2>> <=> res = res2 /\ a = a2
  OBVIOUS

LEMMA CarryGrantInv ==
  ASSUME StaffAssumption, StaffInv, NEW res \in DOMAIN Split, NEW a \in Split[res],
         CarryGrant(res, a)
  PROVE  StaffInv'
<1> DEFINE c == <<res, a>>
           w == Write(res)
<1>1. /\ ~ serving /\ w \in codes /\ c \notin codes /\ codes' = codes \cup {c}
      /\ grants' = Carried(res, a) /\ UNCHANGED <<serving, role, active, held, tokenVars, job>>
  BY DEF CarryGrant
<1>2. c \in Codes
  BY OldNotNew
<1>3. /\ grants \in [Roles -> SUBSET (Codes \cup OldCodes)] /\ Super \in Roles
      /\ codes \subseteq Codes \cup OldCodes /\ grants[Super] = codes
      /\ \A i \in Roles : grants[i] \subseteq codes
  BY DEF StaffInv, StaffTypeOK, GrantsKnown, StaffAssumption
<1>4. \A i \in Roles : \A x : x \in grants'[i] <=> x \in grants[i] \/ (x = c /\ w \in grants[i])
  <2> HIDE DEF c, w
  <2>1. grants' = [i \in Roles |-> IF w \in grants[i] THEN grants[i] \cup {c} ELSE grants[i]]
    BY <1>1 DEF Carried, c, w
  <2>2. ASSUME NEW i \in Roles
        PROVE  grants'[i] = IF w \in grants[i] THEN grants[i] \cup {c} ELSE grants[i]
    BY <2>1
  <2>3. ASSUME NEW i \in Roles, w \in grants[i] PROVE grants'[i] = grants[i] \cup {c}
    BY <2>2, <2>3
  <2>4. ASSUME NEW i \in Roles, w \notin grants[i] PROVE grants'[i] = grants[i]
    BY <2>2, <2>4
  <2> QED
    BY <2>3, <2>4
<1>5. grants' \in [Roles -> SUBSET (Codes \cup OldCodes)]
  <2> HIDE DEF c, w
  <2>1. grants' = [i \in Roles |-> IF w \in grants[i] THEN grants[i] \cup {c} ELSE grants[i]]
    BY <1>1 DEF Carried, c, w
  <2> QED
    BY <1>2, <1>3, <2>1
<1>6. WritesCarried'
  <2>1. ASSUME NEW i \in Roles, NEW r \in DOMAIN Split, NEW b \in Split[r],
               <<r, b>> \in codes', Write(r) \in grants'[i]
        PROVE  <<r, b>> \in grants'[i]
    <3> HIDE DEF c, w
    <3>1. Write(r) # c
      BY DEF Write, StaffAssumption, c
    <3>2. Write(r) \in grants[i]
      BY <1>4, <2>1, <3>1
    <3>3. CASE <<r, b>> = c
      <4>1. Write(r) = w
        BY <3>3, PairsApart DEF Write, c, w
      <4> QED
        BY <1>4, <3>2, <3>3, <4>1
    <3>4. CASE <<r, b>> # c
      BY <1>1, <1>4, <2>1, <3>2, <3>4 DEF StaffInv, WritesCarried
    <3> QED
      BY <3>3, <3>4
  <2> QED
    BY <2>1 DEF WritesCarried
<1> HIDE DEF c, w
<1> QED
  BY <1>1, <1>2, <1>3, <1>4, <1>5, <1>6, MigrationInv

LEMMA DropWriteInv ==
  ASSUME StaffAssumption, StaffInv, NEW res \in DOMAIN Split, DropWrite(res)
  PROVE  StaffInv'
<1>1. /\ ~ serving /\ codes' = codes \ {Write(res)}
      /\ grants' = [i \in Roles |-> grants[i] \ {Write(res)}]
      /\ UNCHANGED <<serving, role, active, held, tokenVars, job>>
  BY DEF DropWrite
<1>2. /\ grants \in [Roles -> SUBSET (Codes \cup OldCodes)] /\ Super \in Roles
      /\ codes \subseteq Codes \cup OldCodes /\ grants[Super] = codes
      /\ \A i \in Roles : grants[i] \subseteq codes
  BY DEF StaffInv, StaffTypeOK, GrantsKnown, StaffAssumption
<1>3. WritesCarried'
  <2>1. ASSUME NEW i \in Roles, NEW r \in DOMAIN Split, NEW b \in Split[r],
               <<r, b>> \in codes', Write(r) \in grants'[i]
        PROVE  <<r, b>> \in grants'[i]
    <3>1. <<r, b>> \in grants[i]
      BY <1>1, <2>1 DEF StaffInv, WritesCarried
    <3>2. <<r, b>> # Write(res)
      BY <1>1, <2>1
    <3> QED
      BY <1>1, <3>1, <3>2
  <2> QED
    BY <2>1 DEF WritesCarried
<1> QED
  BY <1>1, <1>2, <1>3, MigrationInv

LEMMA ServeInv ==
  ASSUME StaffAssumption, StaffInv, Serve
  PROVE  StaffInv'
<1>1. ~ serving /\ codes = Codes /\ serving' /\ UNCHANGED <<dbVars, tokenVars, job>>
  BY DEF Serve
<1>2. StaffTypeOK'
  BY <1>1, Serve DEF StaffInv, StaffTypeOK, dbVars, tokenVars
<1>3. Quiet' /\ WritesCarried'
  BY <1>1 DEF Quiet, WritesCarried
<1>4. GrantsKnown' /\ NamesUnique' /\ AssignmentsStand' /\ JobsFit'
  BY <1>1 DEF StaffInv, GrantsKnown, NamesUnique, AssignmentsStand, RoleIds, JobsFit, JobFits, dbVars
<1>5. Counted' /\ TokensLagByTTL'
  BY <1>1 DEF StaffInv, Counted, TokensLagByTTL, May, dbVars, tokenVars
<1> QED
  BY <1>2, <1>3, <1>4, <1>5 DEF StaffInv

\* Steps of a running server that leave the requests and the roles alone.
LEMMA ServingInv ==
  ASSUME StaffInv, serving, UNCHANGED <<serving, codes, role, grants, job>>,
         StaffTypeOK', AssignmentsStand', Counted', TokensLagByTTL',
         \A u \in Users : active[u] # Nobody => active'[u] # Nobody
  PROVE  StaffInv'
<1>1. Quiet' /\ WritesCarried'
  BY DEF Quiet, WritesCarried
<1>2. GrantsKnown' /\ NamesUnique'
  BY DEF StaffInv, GrantsKnown, NamesUnique
<1>3. JobsFit'
  BY DEF StaffInv, JobsFit, JobFits
<1> QED
  BY <1>1, <1>2, <1>3 DEF StaffInv

\* What an account may do are known permissions.
LEMMA MayKnown ==
  ASSUME StaffInv, serving, NEW u \in Users PROVE May(u) \in SUBSET Codes
<1>1. /\ held[u] \subseteq Roles /\ codes = Codes
      /\ \A i \in Roles : grants[i] \subseteq codes
  BY DEF StaffInv, StaffTypeOK, GrantsKnown
<1>2. ASSUME NEW c \in May(u) PROVE c \in Codes
  <2>1. PICK i \in held[u] : c \in grants[i]
    BY <1>2 DEF May
  <2> QED
    BY <1>1, <2>1
<1> QED
  BY <1>2

LEMMA IssueInv ==
  ASSUME StaffAssumption, StaffInv, NEW u \in Users, Issue(u)
  PROVE  StaffInv'
<1>1. /\ serving /\ token' = [token EXCEPT ![u] = [perms |-> Claims(u), age |-> 0]]
      /\ UNCHANGED <<serving, dbVars, since, job>>
  BY DEF Issue
<1>2. /\ token \in [Users -> [perms : SUBSET Codes, age : 0 .. TTL] \cup {Nobody}]
      /\ Claims(u) \in SUBSET Codes /\ 0 \in 0 .. TTL
  BY <1>1, MayKnown DEF StaffInv, StaffTypeOK, StaffAssumption, Claims
<1>3. /\ token' \in [Users -> [perms : SUBSET Codes, age : 0 .. TTL] \cup {Nobody}]
      /\ token'[u] = [perms |-> Claims(u), age |-> 0]
      /\ \A v \in Users \ {u} : token'[v] = token[v]
  BY <1>1, <1>2
<1>4. StaffTypeOK'
  BY <1>1, <1>3 DEF StaffInv, StaffTypeOK, dbVars
<1>5. AssignmentsStand' /\ Counted'
  BY <1>1 DEF StaffInv, AssignmentsStand, RoleIds, Counted, May, dbVars
<1>6. TokensLagByTTL'
  <2>1. Probe \in Claims(u) => since[u] <= 0
    BY DEF StaffInv, Counted, Claims
  <2> QED
    BY <1>1, <1>3, <2>1 DEF StaffInv, TokensLagByTTL
<1> QED
  BY <1>1, <1>4, <1>5, <1>6, ServingInv DEF dbVars

LEMMA TickInv ==
  ASSUME StaffAssumption, StaffInv, Tick
  PROVE  StaffInv'
<1>1. /\ serving
      /\ token' = [u \in Users |-> IF token[u] = Nobody \/ token[u].age = TTL THEN Nobody
                                   ELSE [token[u] EXCEPT !.age = @ + 1]]
      /\ since' = [u \in Users |-> IF Probe \in May(u) THEN 0
                                   ELSE IF since[u] > TTL THEN since[u] ELSE since[u] + 1]
      /\ UNCHANGED <<serving, dbVars, job>>
  BY DEF Tick
<1>2. /\ token \in [Users -> [perms : SUBSET Codes, age : 0 .. TTL] \cup {Nobody}]
      /\ since \in [Users -> 0 .. TTL + 1] /\ TTL \in Nat
  BY DEF StaffInv, StaffTypeOK, StaffAssumption
<1>3. since' \in [Users -> 0 .. TTL + 1]
  BY <1>1, <1>2
<1>4. ASSUME NEW u \in Users
      PROVE  \/ token'[u] = Nobody
             \/ /\ token[u] # Nobody /\ token'[u].perms = token[u].perms
                /\ token'[u].age = token[u].age + 1 /\ token[u].age \in 0 .. TTL - 1
                /\ token'[u] \in [perms : SUBSET Codes, age : 0 .. TTL]
  <2>1. CASE token[u] = Nobody \/ token[u].age = TTL
    BY <1>1, <2>1
  <2>2. CASE ~ (token[u] = Nobody \/ token[u].age = TTL)
    <3>1. token[u] \in [perms : SUBSET Codes, age : 0 .. TTL]
      BY <1>2, <2>2
    <3>2. token'[u] = [token[u] EXCEPT !.age = @ + 1]
      BY <1>1, <2>2
    <3> QED
      BY <1>2, <2>2, <3>1, <3>2
  <2> QED
    BY <2>1, <2>2
<1>5. token' \in [Users -> [perms : SUBSET Codes, age : 0 .. TTL] \cup {Nobody}]
  <2>1. token' = [u \in Users |-> token'[u]]
    BY <1>1
  <2> QED
    BY <1>4, <2>1
<1>6. StaffTypeOK'
  BY <1>1, <1>3, <1>5 DEF StaffInv, StaffTypeOK, dbVars
<1>7. AssignmentsStand'
  BY <1>1 DEF StaffInv, AssignmentsStand, RoleIds, dbVars
<1>8. Counted'
  <2>1. \A u \in Users : May(u)' = May(u)
    BY <1>1 DEF May, dbVars
  <2> QED
    BY <1>1, <2>1 DEF Counted
<1>9. TokensLagByTTL'
  <2>1. ASSUME NEW u \in Users, token'[u] # Nobody, Probe \in token'[u].perms
        PROVE  since'[u] <= token'[u].age
    <3>1. since[u] <= token[u].age /\ token'[u].age = token[u].age + 1
          /\ token[u].age \in 0 .. TTL - 1
      BY <1>4, <2>1 DEF StaffInv, TokensLagByTTL
    <3>2. since'[u] = 0 \/ since'[u] = since[u] \/ since'[u] = since[u] + 1
      BY <1>1
    <3> QED
      BY <1>2, <3>1, <3>2
  <2> QED
    BY <2>1 DEF TokensLagByTTL
<1> QED
  BY <1>1, <1>6, <1>7, <1>8, <1>9, ServingInv DEF dbVars

LEMMA SeedFacts ==
  ASSUME StaffAssumption, StaffInv, Seed
  PROVE  /\ serving /\ UNCHANGED <<serving, codes, role, grants, token, job>> /\ Recorded
         /\ active' \in [Users -> BOOLEAN \cup {Nobody}]
         /\ held' \in [Users -> SUBSET Roles]
         /\ active'[Root] = TRUE /\ Super \in held'[Root]
         /\ \A u \in Users : held'[u] \subseteq RoleIds
         /\ \A u \in Users \ {Root} : active'[u] = active[u] /\ held'[u] = held[u]
<1>1. /\ active \in [Users -> BOOLEAN \cup {Nobody}] /\ held \in [Users -> SUBSET Roles]
      /\ Root \in Users /\ \A u \in Users : held[u] \subseteq RoleIds
      /\ RoleIds \subseteq Roles
  BY DEF StaffInv, StaffTypeOK, StaffAssumption, AssignmentsStand, RoleIds
<1>2. Super \in AdminRole /\ AdminRole \subseteq RoleIds
  BY DEF AdminRole, RoleIds, StaffInv, NamesUnique, StaffAssumption
<1>3. /\ serving /\ UNCHANGED <<serving, codes, role, grants, token, job>> /\ Recorded
      /\ active' = [active EXCEPT ![Root] = TRUE]
      /\ held' = [held EXCEPT ![Root] = @ \cup AdminRole]
  BY DEF Seed
<1> QED
  BY <1>1, <1>2, <1>3

LEMMA SeedInv ==
  ASSUME StaffAssumption, StaffInv, Seed
  PROVE  StaffInv'
<1>1. AssignmentsStand'
  BY SeedFacts DEF StaffInv, AssignmentsStand, RoleIds, StaffAssumption
<1>2. Counted' /\ TokensLagByTTL' /\ since' \in [Users -> 0 .. TTL + 1]
  BY SeedFacts, RecordedInv
<1>3. StaffTypeOK'
  <2>1. StaffTypeOK /\ UNCHANGED <<serving, codes, role, grants, token, job>>
    BY SeedFacts DEF StaffInv
  <2>2. /\ active' \in [Users -> BOOLEAN \cup {Nobody}]
        /\ held' \in [Users -> SUBSET Roles]
    BY SeedFacts
  <2> QED
    BY <1>2, <2>1, <2>2 DEF StaffTypeOK
<1>4. \A u \in Users : active[u] # Nobody => active'[u] # Nobody
  BY SeedFacts DEF StaffAssumption
<1> QED
  BY <1>1, <1>2, <1>3, <1>4, SeedFacts, ServingInv

LEMMA NextInv ==
  ASSUME StaffAssumption, StaffInv, [Next]_vars
  PROVE  StaffInv'
<1>1. CASE UNCHANGED vars
  BY <1>1 DEF vars, dbVars, tokenVars, StaffInv, StaffTypeOK, Quiet, GrantsKnown, WritesCarried,
              NamesUnique, AssignmentsStand, RoleIds, JobsFit, JobFits, Counted, May,
              TokensLagByTTL
<1>2. CASE Next
  BY <1>2, DropWriteInv, CarryGrantInv, ServeInv, TickInv, SeedInv, IssueInv, RequestInv DEF Next
<1> QED
  BY <1>1, <1>2

LEMMA InvAlways == Spec => []StaffInv
<1>1. Init => StaffInv
  BY InitInv, StaffAssumption
<1>2. StaffInv /\ [Next]_vars => StaffInv'
  BY NextInv, StaffAssumption
<1> QED
  BY <1>1, <1>2, PTL DEF Spec

-----------------------------------------------------------------------------
(* Theorems.                                                               *)

\* Every variable keeps its type.
THEOREM StaffTypes == Spec => []StaffTypeOK
<1>1. StaffInv => StaffTypeOK
  BY DEF StaffInv
<1> QED
  BY <1>1, InvAlways, PTL

\* No call, however it overlaps others, renames, deletes or strips the super
\* admin role.
THEOREM SuperAdminStaysIntact == Spec => []SuperAdminIntact
<1>1. StaffInv => SuperAdminIntact
  BY StaffAssumption DEF StaffInv, GrantsKnown, NamesUnique, SuperAdminIntact, StaffAssumption
<1> QED
  BY <1>1, InvAlways, PTL

\* Assignments refer to roles and accounts that exist, although roles are
\* deleted while they are being given.
THEOREM AssignmentsAlwaysStand == Spec => []AssignmentsStand
<1>1. StaffInv => AssignmentsStand
  BY DEF StaffInv
<1> QED
  BY <1>1, InvAlways, PTL

\* A token allows what its account was allowed when it was issued or later, for
\* every lifetime.
THEOREM TokensLagByTheirLife == Spec => []TokensLagByTTL
<1>1. StaffInv => TokensLagByTTL
  BY DEF StaffInv
<1> QED
  BY <1>1, InvAlways, PTL

\* Each statement of the migration leaves everybody the access they had.
THEOREM UpgradeIsFair == Spec => UpgradeKeepsAccess
<1>1. ASSUME StaffInv, Next, ~ serving, NEW i \in Roles
      PROVE  Access(i)' = Access(i)
  <2>1. CASE \E res \in DOMAIN Split : \E a \in Split[res] : CarryGrant(res, a)
    <3>1. PICK res \in DOMAIN Split : \E a \in Split[res] : CarryGrant(res, a)
      BY <2>1
    <3>2. PICK a \in Split[res] : CarryGrant(res, a)
      BY <3>1
    <3>3. grants'[i] = IF Write(res) \in grants[i] THEN grants[i] \cup {<<res, a>>} ELSE grants[i]
      BY <3>2 DEF CarryGrant, Carried
    <3>4. \A r : Write(r) # <<res, a>>
      BY StaffAssumption DEF Write, StaffAssumption
    <3>5. \A r : Write(r) \in grants'[i] <=> Write(r) \in grants[i]
      BY <3>3, <3>4
    <3>6. \A c : c = <<res, a>> => c[1] = res
      OBVIOUS
    <3> QED
      BY <3>3, <3>5, <3>6 DEF Access
  <2>2. CASE \E res \in DOMAIN Split : DropWrite(res)
    <3>1. PICK res \in DOMAIN Split : DropWrite(res)
      BY <2>2
    <3>2. /\ grants'[i] = grants[i] \ {Write(res)}
          /\ \A a \in Split[res] : <<res, a>> \in codes
      BY <3>1 DEF DropWrite
    <3>3. ASSUME NEW c \in Codes PROVE c \in Access(i)' <=> c \in Access(i)
      <4>1. PICK r \in DOMAIN Split : c \in {r} \X Split[r]
        BY DEF Codes
      <4>2. PICK b \in Split[r] : c = <<r, b>>
        BY <4>1
      <4>3. c # Write(res) /\ c[1] = r
        BY <4>2, StaffAssumption DEF Write, StaffAssumption
      <4>4. CASE r = res
        <5>1. Write(res) \in grants[i] => c \in grants[i]
          BY <1>1, <3>2, <4>2, <4>4 DEF StaffInv, WritesCarried
        <5>2. Write(c[1]) \in grants'[i] => Write(c[1]) \in grants[i]
          BY <3>2
        <5> QED
          BY <3>2, <4>3, <4>4, <5>1, <5>2 DEF Access
      <4>5. CASE r # res
        <5>1. Write(r) # Write(res)
          BY <4>5 DEF Write
        <5> QED
          BY <3>2, <4>3, <5>1 DEF Access
      <4> QED
        BY <4>4, <4>5
    <3>4. \A c : c \in Access(i) \/ c \in Access(i)' => c \in Codes
      BY DEF Access
    <3> QED
      BY <3>3, <3>4
  <2>3. CASE Serve
    BY <2>3 DEF Serve, dbVars, Access
  <2>4. CASE \E w \in Requests : RequestStep(w)
    <3>1. PICK w \in Requests : RequestStep(w)
      BY <2>4
    <3>2. job[w].op = "none" /\ \A u \in Users : active[u] = Nobody
      BY <1>1, NoJobTyped DEF StaffInv, Quiet
    <3>3. \A j : ~ Begin(w, j)
      BY <3>2 DEF Begin, Authorised, Accounts
    <3> QED
      BY <3>1, <3>2, <3>3
      DEF RequestStep, ReadForUser, ReadRoles, ReadAccount, ReadForRole, ReadName, ReadGrants,
          CountHolders, CommitUser, CommitRoles, CommitAccount, CommitRole, CommitName,
          CommitGrants, CommitDeletion
  <2> QED
    BY <1>1, <2>1, <2>2, <2>3, <2>4 DEF Next, Tick, Seed, Issue
<1>2. ASSUME StaffInv, [Next]_vars
      PROVE  [~ serving => \A i \in Roles : Access(i)' = Access(i)]_vars
  BY <1>1, <1>2
<1> QED
  BY <1>2, InvAlways, PTL DEF Spec, UpgradeKeepsAccess

\* Whatever legal calls did, the bootstrap at the next start of the server leaves
\* an active account that may administer accounts and roles.
THEOREM SeedAlwaysRestores == Spec => SeedRestores
<1>1. ASSUME StaffInv, Seed PROVE Administered'
  <2>1. /\ serving /\ UNCHANGED grants /\ active'[Root] = TRUE /\ Super \in held'[Root]
        /\ grants[Super] = Codes /\ Root \in Users /\ TRUE # Nobody
    BY <1>1, SeedFacts, StaffAssumption DEF StaffInv, GrantsKnown, StaffAssumption
  <2>2. Codes \subseteq May(Root)'
    BY <2>1 DEF May
  <2> QED
    BY <2>1, <2>2 DEF Administered, Accounts
<1>2. StaffInv /\ [Next]_vars => [Seed => Administered']_vars
  BY <1>1
<1> QED
  BY <1>2, InvAlways, PTL DEF Spec, SeedRestores
=============================================================================
