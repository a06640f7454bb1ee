------------------------------- MODULE Staff -------------------------------
(***************************************************************************)
(* Staff accounts, roles and permissions (app/services/users.py behind     *)
(* app/api/v1/users.py, app/api/v1/roles.py and the permission check of    *)
(* app/api/deps.py), with the migration that split the write permissions   *)
(* and the bootstrap of the super admin, both run when the server starts.  *)
(* A request is authorised by the permissions baked into its access token, *)
(* reads what it needs and later commits; between the two any other        *)
(* request may run.  Its consecutive reads are one step, and a request     *)
(* refused by what it reads changes nothing and is left out.               *)
(***************************************************************************)
EXTENDS Naturals

CONSTANTS
  Users, Root,     \* staff accounts, by e-mail; Root is SUPERADMIN_EMAIL
  Roles, Super,    \* role ids; Super is the seeded super_admin
  Names, SuperName,
  Split,           \* resource -> the actions its write permission became
  Inherited,       \* permission sets a custom role may have before the migration
  GrantSets,       \* permission sets a client may ask for
  NameSets,        \* role lists a client may assign
  Probe,           \* the permission whose outdated tokens are watched
  Requests, StaffOps,
  TTL,             \* ticks an access token is valid after the tick it is issued in
  Nobody           \* no row, no token

Write(res) == <<res, "write">>
Codes == UNION {{res} \X Split[res] : res \in DOMAIN Split}
OldCodes == {Write(res) : res \in DOMAIN Split}

Need == [createUser |-> <<"users", "create">>, setRoles |-> <<"users", "update">>,
         setActive |-> <<"users", "update">>, createRole |-> <<"roles", "create">>,
         rename |-> <<"roles", "update">>, setGrants |-> <<"roles", "update">>,
         deleteRole |-> <<"roles", "delete">>]

ASSUME StaffAssumption ==
  /\ Root \in Users /\ Super \in Roles /\ SuperName \in Names
  /\ \A res \in DOMAIN Split : "write" \notin Split[res]
  /\ Inherited \subseteq SUBSET OldCodes
  /\ GrantSets \subseteq SUBSET Codes
  /\ NameSets \subseteq SUBSET Names
  /\ Probe \in Codes
  /\ StaffOps \subseteq DOMAIN Need
  /\ TTL \in Nat
  /\ Nobody \notin Users \cup Roles \cup Names \cup BOOLEAN

VARIABLES
  serving,   \* FALSE until the migration is done
  codes,     \* permissions
  role,      \* roles: the name of a role
  grants,    \* role_permissions
  active,    \* users: is_active, Nobody when there is no such account
  held,      \* user_roles
  token,     \* the access token of an account: its permissions and its age
  since,     \* history: ticks since an account last had Probe, at most TTL + 1
  job        \* what a request asks for and what it has read

dbVars == <<codes, role, grants, active, held>>
tokenVars == <<token, since>>
vars == <<serving, dbVars, tokenVars, job>>

\* roles, grants and active are what is asked for, heldSeen and grantsSeen what
\* the rows said.
NoJob == [op |-> "none", user |-> Nobody, role |-> Nobody, name |-> Nobody, active |-> FALSE,
          roles |-> {}, heldSeen |-> {}, grants |-> {}, grantsSeen |-> {}]

RoleIds == {i \in Roles : role[i] # Nobody}
Accounts == {u \in Users : active[u] # Nobody}
\* Union of the permissions carried by all of the user's roles.
May(u) == UNION {grants[i] : i \in held[u]}

\* The columns hold what their types allow.
StaffTypeOK ==
  /\ serving \in BOOLEAN
  /\ codes \subseteq Codes \cup OldCodes
  /\ role \in [Roles -> Names \cup {Nobody}]
  /\ grants \in [Roles -> SUBSET (Codes \cup OldCodes)]
  /\ active \in [Users -> BOOLEAN \cup {Nobody}]
  /\ held \in [Users -> SUBSET Roles]
  /\ token \in [Users -> [perms : SUBSET Codes, age : 0 .. TTL] \cup {Nobody}]
  /\ since \in [Users -> 0 .. TTL + 1]
  /\ job \in [Requests -> [op : StaffOps \cup {"none"}, user : Users \cup {Nobody},
                           role : Roles \cup {Nobody}, name : Names \cup {Nobody},
                           active : BOOLEAN, roles : SUBSET Roles, heldSeen : SUBSET Roles,
                           grants : SUBSET Codes, grantsSeen : SUBSET Codes]]

\* The database before the migration: custom roles with some write permissions.
Init ==
  /\ serving = FALSE
  /\ codes = OldCodes
  /\ role \in [Roles -> Names \cup {Nobody}]
  /\ role[Super] = SuperName
  /\ \A i, j \in Roles : role[i] # Nobody /\ role[i] = role[j] => i = j
  /\ grants \in [Roles -> SUBSET OldCodes]
  /\ grants[Super] = OldCodes
  /\ \A i \in Roles \ {Super} : grants[i] \in IF role[i] = Nobody THEN {{}} ELSE Inherited
  /\ active = [u \in Users |-> Nobody]
  /\ held = [u \in Users |-> {}]
  /\ token = [u \in Users |-> Nobody]
  /\ since = [u \in Users |-> TTL + 1]
  /\ job = [w \in Requests |-> NoJob]

-----------------------------------------------------------------------------
(* Mutants of what comes below.                                            *)

Immutable_Never(i) == FALSE
MayAssign_NoForeignKey(w) == (job[w].roles \ job[w].heldSeen) \cap held[job[w].user] = {}
Claims_Kept(u) == IF token[u] = Nobody THEN May(u) ELSE May(u) \cup token[u].perms
Carried_None(res, a) == grants
Seed_OnlyMissing ==
  /\ serving
  /\ active' = [active EXCEPT ![Root] = IF @ = Nobody THEN TRUE ELSE @]
  /\ held' = [held EXCEPT ![Root] = @ \cup {i \in RoleIds : role[i] = SuperName}]
  /\ UNCHANGED <<serving, codes, role, grants, token, job>>
  /\ since' = [u \in Users |-> IF Probe \in May(u)' THEN 0 ELSE since[u]]

-----------------------------------------------------------------------------
(* Server start: the migration splits every write permission, one          *)
(* statement per step, then serving begins.                                *)

\* Grant a code to every role that holds the resource's write permission.
Carried(res, a) ==
  [i \in Roles |-> IF Write(res) \in grants[i] THEN grants[i] \cup {<<res, a>>} ELSE grants[i]]

CarryGrant(res, a) ==
  /\ ~ serving
  /\ Write(res) \in codes /\ <<res, a>> \notin codes
  /\ codes' = codes \cup {<<res, a>>}
  /\ grants' = Carried(res, a)
  /\ UNCHANGED <<serving, role, active, held, tokenVars, job>>

DropWrite(res) ==
  /\ ~ serving
  /\ Write(res) \in codes
  /\ \A a \in Split[res] : <<res, a>> \in codes
  /\ codes' = codes \ {Write(res)}
  /\ grants' = [i \in Roles |-> grants[i] \ {Write(res)}]
  /\ UNCHANGED <<serving, role, active, held, tokenVars, job>>

Serve ==
  /\ ~ serving /\ codes = Codes
  /\ serving' = TRUE
  /\ UNCHANGED <<dbVars, tokenVars, job>>

-----------------------------------------------------------------------------
(* Tokens and time.                                                        *)

\* The permissions a new token carries.
Claims(u) == May(u)

\* Login or refresh.
Issue(u) ==
  /\ serving
  /\ active[u] = TRUE
  /\ token' = [token EXCEPT ![u] = [perms |-> Claims(u), age |-> 0]]
  /\ UNCHANGED <<serving, dbVars, since, job>>

\* Tokens of age TTL expire.
Tick ==
  /\ serving
  /\ token' = [u \in Users |-> IF token[u] = Nobody \/ token[u].age = TTL THEN Nobody
                               ELSE [token[u] EXCEPT !.age = @ + 1]]
  /\ since' = [u \in Users |-> IF Probe \in May(u) THEN 0
                               ELSE IF since[u] > TTL THEN since[u] ELSE since[u] + 1]
  /\ UNCHANGED <<serving, dbVars, job>>

\* A permission gained or kept by a commit counts for this tick.
Recorded == since' = [u \in Users |-> IF Probe \in May(u)' THEN 0 ELSE since[u]]

-----------------------------------------------------------------------------
(* Bookkeeping of one request.                                             *)

\* The token is valid, its account is active now, and it carries the permission.
Authorised(op) == \E u \in Accounts : /\ active[u] /\ token[u] # Nobody
                                      /\ Need[op] \in token[u].perms

Begin(w, j) ==
  /\ job[w] = NoJob
  /\ j.op \in StaffOps
  /\ Authorised(j.op)
  /\ job' = [job EXCEPT ![w] = j]
  /\ UNCHANGED <<serving, dbVars, tokenVars>>

Finish(w) == /\ job' = [job EXCEPT ![w] = NoJob]
             /\ UNCHANGED <<serving, codes, token>>
             /\ Recorded

Fail(w) == UNCHANGED <<role, grants, active, held>> /\ Finish(w)

\* A system role is not renamed, deleted or edited.
Immutable(i) == i = Super \/ role[i] = SuperName

-----------------------------------------------------------------------------
(* Accounts.                                                               *)

\* _resolve_roles: the rows of the names, all of them or none.
Resolved(ns) == {i \in RoleIds : role[i] \in ns}
AllResolved(ns) == {role[i] : i \in Resolved(ns)} = ns

ReadForUser(w) == \E u \in Users \ Accounts, ns \in NameSets :
  /\ AllResolved(ns)
  /\ Begin(w, [NoJob EXCEPT !.op = "createUser", !.user = u, !.roles = Resolved(ns)])

ReadRoles(w) == \E u \in Accounts, ns \in NameSets :
  /\ AllResolved(ns)
  /\ Begin(w, [NoJob EXCEPT !.op = "setRoles", !.user = u, !.roles = Resolved(ns),
                            !.heldSeen = held[u]])

ReadAccount(w) == \E u \in Accounts, b \in BOOLEAN :
  /\ active[u] # b
  /\ Begin(w, [NoJob EXCEPT !.op = "setActive", !.user = u, !.active = b])

\* user_roles: the added rows are new and their roles exist.
MayAssign(w) ==
  LET added == job[w].roles \ job[w].heldSeen IN
  added \subseteq RoleIds /\ added \cap held[job[w].user] = {}

\* Only the difference to the roles loaded is written.
Assigned(w) ==
  LET dropped == job[w].heldSeen \ job[w].roles
      added == job[w].roles \ job[w].heldSeen IN
  [held EXCEPT ![job[w].user] = (@ \ dropped) \cup added]

CommitUser(w) ==
  /\ job[w].op = "createUser"
  /\ IF active[job[w].user] = Nobody /\ MayAssign(w)
       THEN /\ active' = [active EXCEPT ![job[w].user] = TRUE]
            /\ held' = Assigned(w)
            /\ UNCHANGED <<role, grants>>
            /\ Finish(w)
       ELSE Fail(w)

CommitRoles(w) ==
  /\ job[w].op = "setRoles"
  /\ IF MayAssign(w)
       THEN held' = Assigned(w) /\ UNCHANGED <<role, grants, active>> /\ Finish(w)
       ELSE Fail(w)

CommitAccount(w) ==
  /\ job[w].op = "setActive"
  /\ active' = [active EXCEPT ![job[w].user] = job[w].active]
  /\ UNCHANGED <<role, grants, held>>
  /\ Finish(w)

-----------------------------------------------------------------------------
(* Roles.                                                                  *)

\* The look-up before a name is taken, and UNIQUE(name).
NameFree(i, n) == \A j \in RoleIds \ {i} : role[j] # n

ReadForRole(w) == \E n \in Names, g \in GrantSets :
  /\ NameFree(Nobody, n)
  /\ Begin(w, [NoJob EXCEPT !.op = "createRole", !.name = n, !.grants = g])

\* uuid4: an id no request remembers.
CommitRole(w) ==
  /\ job[w].op = "createRole"
  /\ IF NameFree(Nobody, job[w].name)
       THEN \E i \in Roles \ RoleIds :
              /\ \A v \in Requests : job[v].role # i /\ i \notin job[v].roles \cup job[v].heldSeen
              /\ role' = [role EXCEPT ![i] = job[w].name]
              /\ grants' = [grants EXCEPT ![i] = job[w].grants]
              /\ UNCHANGED <<active, held>>
              /\ Finish(w)
       ELSE Fail(w)

ReadName(w) == \E i \in RoleIds, n \in Names :
  /\ n # role[i] /\ ~ Immutable(i) /\ NameFree(i, n)
  /\ Begin(w, [NoJob EXCEPT !.op = "rename", !.role = i, !.name = n])

\* The UPDATE of a vanished row is an error.
CommitName(w) ==
  /\ job[w].op = "rename"
  /\ IF job[w].role \in RoleIds /\ NameFree(job[w].role, job[w].name)
       THEN role' = [role EXCEPT ![job[w].role] = job[w].name]
            /\ UNCHANGED <<grants, active, held>> /\ Finish(w)
       ELSE Fail(w)

ReadGrants(w) == \E i \in RoleIds, g \in GrantSets :
  /\ ~ Immutable(i)
  /\ Begin(w, [NoJob EXCEPT !.op = "setGrants", !.role = i, !.grants = g,
                            !.grantsSeen = grants[i]])

\* Only the difference to the permissions loaded is written.
CommitGrants(w) ==
  LET i == job[w].role
      added == job[w].grants \ job[w].grantsSeen
      dropped == job[w].grantsSeen \ job[w].grants IN
  /\ job[w].op = "setGrants"
  /\ IF (added # {} => i \in RoleIds) /\ added \cap grants[i] = {}
       THEN grants' = [grants EXCEPT ![i] = (@ \ dropped) \cup added]
            /\ UNCHANGED <<role, active, held>> /\ Finish(w)
       ELSE Fail(w)

CountHolders(w) == \E i \in RoleIds :
  /\ ~ Immutable(i)
  /\ \A u \in Users : i \notin held[u]
  /\ Begin(w, [NoJob EXCEPT !.op = "deleteRole", !.role = i])

\* The assignments and grants of the role go with it.
CommitDeletion(w) ==
  LET i == job[w].role IN
  /\ job[w].op = "deleteRole"
  /\ role' = [role EXCEPT ![i] = Nobody]
  /\ grants' = [grants EXCEPT ![i] = {}]
  /\ held' = [u \in Users |-> held[u] \ {i}]
  /\ UNCHANGED active
  /\ Finish(w)

-----------------------------------------------------------------------------
(* cli/seed_superadmin: run whenever the server starts.                    *)

AdminRole == {i \in RoleIds : role[i] = SuperName}

\* There is an account that may administer accounts and roles.
Administered == \E u \in Accounts : active[u] /\ Codes \subseteq May(u)

Seed ==
  /\ serving
  /\ AdminRole # {}
  /\ active' = [active EXCEPT ![Root] = TRUE]
  /\ held' = [held EXCEPT ![Root] = @ \cup AdminRole]
  /\ UNCHANGED <<serving, codes, role, grants, token, job>>
  /\ Recorded

-----------------------------------------------------------------------------
RequestStep(w) ==
  \/ ReadForUser(w) \/ ReadRoles(w) \/ ReadAccount(w)
  \/ CommitUser(w) \/ CommitRoles(w) \/ CommitAccount(w)
  \/ ReadForRole(w) \/ ReadName(w) \/ ReadGrants(w) \/ CountHolders(w)
  \/ CommitRole(w) \/ CommitName(w) \/ CommitGrants(w) \/ CommitDeletion(w)

Next ==
  \/ \E res \in DOMAIN Split : DropWrite(res) \/ \E a \in Split[res] : CarryGrant(res, a)
  \/ Serve \/ Tick \/ Seed
  \/ \E u \in Users : Issue(u)
  \/ \E w \in Requests : RequestStep(w)

Spec == Init /\ [][Next]_vars

-----------------------------------------------------------------------------
(* Properties.                                                             *)

\* No call, however it overlaps others, renames, deletes or strips the super
\* admin role, so an account that holds it may do everything
\* (app/services/users.py:104-111, app/db/models/rbac.py:37-38).
SuperAdminIntact ==
  serving => /\ role[Super] = SuperName
             /\ grants[Super] = Codes
             /\ \A i \in Roles : role[i] = SuperName => i = Super

\* Assignments refer to roles and accounts that exist, although roles are
\* deleted while they are being given (app/services/users.py:162-175).
AssignmentsStand ==
  \A u \in Users : /\ held[u] \subseteq RoleIds
                   /\ held[u] # {} => active[u] # Nobody

\* The migration changes what nobody may do: a role may act on a resource
\* after each statement if it might before (20260908_0010 migration:15-19).
Access(i) == {c \in Codes : c \in grants[i] \/ Write(c[1]) \in grants[i]}
UpgradeKeepsAccess == [][~ serving => \A i \in Roles : Access(i)' = Access(i)]_vars

\* A token outlives a permission it carries by its own lifetime at most: what
\* it allows, its account was allowed when it was issued or later
\* (app/api/deps.py:48-51).
TokensLagByTTL ==
  \A u \in Users : token[u] # Nobody /\ Probe \in token[u].perms => since[u] <= token[u].age

\* Legal calls can leave the college without anybody who may administer accounts
\* and roles; whatever they did, the bootstrap at the next start of the server
\* brings such an account back (app/cli/seed_superadmin.py:34-55).
SeedRestores == [][Seed => Administered']_vars
=============================================================================
