-------------------------- MODULE RefreshSessions --------------------------
(***************************************************************************)
(* Refresh sessions (app/services/auth.py behind app/api/v1/auth.py and    *)
(* student_portal.py), the administrative calls that end them, and the     *)
(* browsers that hold their cookies.  A request is a transaction that runs *)
(* one SQL statement per step:                                             *)
(*                                                                         *)
(*   login      account -> sessions -> commit -> reply                     *)
(*   refresh    session -> owner -> commit -> reply                        *)
(*   logout     session -> commit -> reply                                 *)
(*   logoutAll  account -> sessions -> commit -> reply                     *)
(*   revoke     account -> session -> commit                               *)
(*   reset      account -> sessions -> commit                              *)
(*   activate, deactivate   account -> (sessions ->) commit                *)
(*                                                                         *)
(* The ORM flushes at the end of a request, writing only the columns whose *)
(* values it changed, and COMMIT follows: one step.  A cookie names a      *)
(* session and carries its secret; a secret is a number that grows with    *)
(* every rotation and stands for a fresh random one.  The two principals   *)
(* have cookies of different names, so a Browser here is one browser as    *)
(* one of the two applications uses it, all its tabs together.             *)
(***************************************************************************)
EXTENDS Integers, FiniteSets

CONSTANTS
  Accounts,         \* users and students who can sign in
  Students,         \* the accounts that are students
  Browsers,
  Requests,         \* HTTP requests in flight at the same time
  Passwords,
  MaxSessions,      \* settings.MAX_SESSIONS_PER_USER
  MaxOpened,        \* bound: sessions opened in a behaviour
  MaxSecrets,       \* bound: secrets of one session
  InitialPassword,  \* what the stored hashes verify at the start
  OldHashes,        \* accounts whose hash has outdated Argon2 parameters
  Ops,              \* the endpoints exercised
  Expiring,         \* TRUE: sessions reach expires_at
  Overlap,          \* FALSE: the account-wide requests of an account take turns
  SingleFlight,     \* TRUE: a browser has at most one refresh in flight
  Lossy,            \* TRUE: answers get lost
  None              \* SQL NULL, "no cookie", "nobody"

SessionIds == 1..MaxOpened   \* in the order of created_at

ASSUME SessionsAssumption ==
  /\ Students \subseteq Accounts
  /\ MaxSessions \in Nat \ {0}
  /\ MaxOpened \in Nat
  /\ MaxSecrets \in Nat \ {0}
  /\ None \notin Accounts \cup Browsers \cup Requests \cup Passwords \cup SessionIds
  /\ None \notin [session : SessionIds, secret : 1..MaxSecrets]
  /\ InitialPassword \in [Accounts -> Passwords \cup {None}]
  /\ OldHashes \subseteq Accounts
  /\ Ops \subseteq {"login", "refresh", "logout", "logoutAll", "revoke",
                    "reset", "activate", "deactivate"}
  /\ {Expiring, Overlap, SingleFlight, Lossy} \subseteq BOOLEAN

VARIABLES
  owner,      \* refresh_sessions: user_id or student_id; None: no such row yet
  secret,     \* ... token_hash
  revoked,    \* ... the rows with a revoked_at
  expired,    \* ... the rows whose expires_at has passed
  openedBy,   \* history: the password a session was opened with
  password,   \* users, students: the password hashed_password verifies
  outdated,   \* ... the rows whose hash needs rehashing
  active,     \* ... the rows with is_active
  jar,        \* the refresh cookie of each browser, or None
  pc,         \* the statement a request is about to run
  job,        \* what the request asks for
  seen,       \* is_active and "needs rehash" of the account as it was loaded
  doomed,     \* the sessions whose revoked_at the request has set, unflushed
  setCookie   \* Set-Cookie of the answer; None clears the cookie

sessionVars == <<owner, secret, revoked, expired, openedBy>>
accountVars == <<password, outdated, active>>
requestVars == <<pc, job, seen, doomed, setCookie>>
vars == <<sessionVars, accountVars, jar, requestVars>>

Cookies == [session : SessionIds, secret : 1..MaxSecrets]
Labels == {"idle", "account", "sessions", "session", "owner", "commit", "reply"}

Jobs == [op : {"none", "login", "refresh", "logout", "logoutAll", "revoke",
               "reset", "activate", "deactivate"},
         browser : Browsers \cup {None}, account : Accounts \cup {None},
         password : Passwords \cup {None}, session : SessionIds \cup {None},
         secret : 0..MaxSecrets]

NoJob == [op |-> "none", browser |-> None, account |-> None, password |-> None,
          session |-> None, secret |-> 0]
NothingSeen == [active |-> FALSE, outdated |-> FALSE]

TypeOK ==
  /\ owner \in [SessionIds -> Accounts \cup {None}]
  /\ secret \in [SessionIds -> 0..MaxSecrets]
  /\ revoked \subseteq SessionIds
  /\ expired \subseteq SessionIds
  /\ openedBy \in [SessionIds -> Passwords \cup {None}]
  /\ password \in [Accounts -> Passwords \cup {None}]
  /\ outdated \subseteq Accounts
  /\ active \subseteq Accounts
  /\ jar \in [Browsers -> Cookies \cup {None}]
  /\ pc \in [Requests -> Labels]
  /\ job \in [Requests -> Jobs]
  /\ seen \in [Requests -> [active : BOOLEAN, outdated : BOOLEAN]]
  /\ doomed \in [Requests -> SUBSET SessionIds]
  /\ setCookie \in [Requests -> Cookies \cup {None}]

Init ==
  /\ owner = [s \in SessionIds |-> None]
  /\ secret = [s \in SessionIds |-> 0]
  /\ revoked = {}
  /\ expired = {}
  /\ openedBy = [s \in SessionIds |-> None]
  /\ password = InitialPassword
  /\ outdated = OldHashes
  /\ active = Accounts
  /\ jar = [b \in Browsers |-> None]
  /\ pc = [r \in Requests |-> "idle"]
  /\ job = [r \in Requests |-> NoJob]
  /\ seen = [r \in Requests |-> NothingSeen]
  /\ doomed = [r \in Requests |-> {}]
  /\ setCookie = [r \in Requests |-> None]

-----------------------------------------------------------------------------
(* Queries.                                                                *)

\* _is_active_session
IsActiveSession(s) == owner[s] # None /\ s \notin revoked \cup expired

ActiveSessionsOf(a) == {s \in SessionIds : owner[s] = a /\ IsActiveSession(s)}

\* Mutants: one session too many is kept; the newest are given up.
Evicted_KeepsCap(sessions) ==
  {s \in sessions : Cardinality({t \in sessions : t > s}) >= MaxSessions}
Evicted_Newest(sessions) ==
  {s \in sessions : Cardinality({t \in sessions : t < s}) >= MaxSessions - 1}

\* The oldest of them, so that with the new one there are at most MaxSessions.
Evicted(sessions) ==
  {s \in sessions : Cardinality({t \in sessions : t > s}) >= MaxSessions - 1}

\* Mutant: the presented secret is not compared with token_hash.
VerifySecret_Any(r, s) == TRUE

VerifySecret(r, s) == job[r].secret = secret[s]

-----------------------------------------------------------------------------
(* Bookkeeping of one request.                                             *)

At(r, label) == pc[r] = label

Goto(r, label) == pc' = [pc EXCEPT ![r] = label]

Finish(r) ==
  /\ Goto(r, "idle")
  /\ job' = [job EXCEPT ![r] = NoJob]
  /\ seen' = [seen EXCEPT ![r] = NothingSeen]
  /\ doomed' = [doomed EXCEPT ![r] = {}]
  /\ setCookie' = [setCookie EXCEPT ![r] = None]

\* An answer that touches no cookie and wrote nothing: a 401 or 404.  The
\* delete_cookie of a refused refresh is lost with its response object: the
\* exception handler builds another.
Refuse(r) == Finish(r) /\ UNCHANGED <<sessionVars, accountVars, jar>>

\* The answer leaves with a cookie, or with the order to delete it.
Reply(r, cookie) ==
  /\ Goto(r, "reply")
  /\ setCookie' = [setCookie EXCEPT ![r] = cookie]
  /\ UNCHANGED <<job, seen, doomed>>

AccountWide == {"login", "reset", "activate", "deactivate"}

\* r's request decides about all sessions of a, and is not committed yet.
Deciding(r, a) ==
  /\ job[r].op \in AccountWide
  /\ job[r].account = a
  /\ pc[r] # "reply"

MaySend(r, op, a) ==
  /\ At(r, "idle")
  /\ op \in Ops
  /\ (~Overlap /\ op \in AccountWide) => ~\E v \in Requests : Deciding(v, a)

Send(r, label, request) ==
  /\ Goto(r, label)
  /\ job' = [job EXCEPT ![r] = request]
  /\ UNCHANGED <<sessionVars, accountVars, jar, seen, doomed, setCookie>>

-----------------------------------------------------------------------------
(* A request arrives.                                                      *)

SendLogin(r, b, a, p) ==
  /\ MaySend(r, "login", a)
  /\ Send(r, "account", [NoJob EXCEPT !.op = "login", !.browser = b, !.account = a,
                                      !.password = p])

RefreshingIn(b) == \E v \in Requests : job[v].op = "refresh" /\ job[v].browser = b

SendRefresh(r, b) ==
  /\ MaySend(r, "refresh", None)
  /\ jar[b] # None
  /\ SingleFlight => ~RefreshingIn(b)
  /\ Send(r, "session", [NoJob EXCEPT !.op = "refresh", !.browser = b,
                                      !.session = jar[b].session, !.secret = jar[b].secret])

SendLogout(r, b) ==
  /\ MaySend(r, "logout", None)
  /\ jar[b] # None
  /\ Send(r, "session", [NoJob EXCEPT !.op = "logout", !.browser = b,
                                      !.session = jar[b].session, !.secret = jar[b].secret])

\* The access token in the browser is one of the account its cookie is for.
StaffIn(b) == IF jar[b] = None THEN None ELSE owner[jar[b].session]

SendLogoutAll(r, b) ==
  /\ StaffIn(b) \in Accounts \ Students
  /\ MaySend(r, "logoutAll", StaffIn(b))
  /\ Send(r, "account", [NoJob EXCEPT !.op = "logoutAll", !.browser = b,
                                      !.account = StaffIn(b)])

SendRevoke(r, b, s) ==
  /\ StaffIn(b) \in Accounts \ Students
  /\ MaySend(r, "revoke", StaffIn(b))
  /\ Send(r, "account", [NoJob EXCEPT !.op = "revoke", !.browser = b,
                                      !.account = StaffIn(b), !.session = s])

SendReset(r, a, p) ==
  /\ a \in Students
  /\ MaySend(r, "reset", a)
  /\ Send(r, "account", [NoJob EXCEPT !.op = "reset", !.account = a, !.password = p])

\* PATCH of a student or a user with is_active.
SendActive(r, a, op) ==
  /\ op \in {"activate", "deactivate"}
  /\ MaySend(r, op, a)
  /\ Send(r, "account", [NoJob EXCEPT !.op = op, !.account = a])

-----------------------------------------------------------------------------
(* The statements before the commit.                                       *)

\* Mutant: a password is accepted without being verified.
Admitted_AnyPassword(r) == job[r].op \in {"login", "logoutAll", "revoke"} => job[r].account \in active

\* authenticate, authenticate_student; get_current_user; get_student, get_user.
Admitted(r) ==
  LET a == job[r].account IN
  CASE job[r].op = "login" -> password[a] = job[r].password /\ a \in active
    [] job[r].op \in {"logoutAll", "revoke"} -> a \in active
    [] OTHER -> TRUE

\* Mutant: a reset and a deactivation that end no sessions.
AfterAccount_NoRevocation(r) ==
  CASE job[r].op = "revoke" -> "session"
    [] job[r].op \in {"login", "logoutAll"} -> "sessions"
    [] OTHER -> "commit"

\* Where create_session, revoke_all_sessions, revoke_session are reached.
AfterAccount(r) ==
  CASE job[r].op = "revoke" -> "session"
    [] job[r].op = "activate" -> "commit"
    [] job[r].op = "deactivate" /\ job[r].account \notin Students -> "commit"
    [] OTHER -> "sessions"

ReadAccount(r) ==
  /\ At(r, "account")
  /\ \/ ~Admitted(r) /\ Refuse(r)
     \/ /\ Admitted(r)
        /\ Goto(r, AfterAccount(r))
        /\ seen' = [seen EXCEPT ![r] = [active |-> job[r].account \in active,
                                        outdated |-> job[r].account \in outdated]]
        /\ UNCHANGED <<sessionVars, accountVars, jar, job, doomed, setCookie>>

\* The active sessions: a login gives up the oldest, other requests end all.
ReadSessions(r) ==
  LET found == ActiveSessionsOf(job[r].account) IN
  /\ At(r, "sessions")
  /\ Goto(r, "commit")
  /\ doomed' = [doomed EXCEPT ![r] = IF job[r].op = "login" THEN Evicted(found) ELSE found]
  /\ UNCHANGED <<sessionVars, accountVars, jar, job, seen, setCookie>>

Doom(r) ==
  /\ Goto(r, "commit")
  /\ doomed' = [doomed EXCEPT ![r] = {job[r].session}]
  /\ UNCHANGED <<sessionVars, accountVars, jar, job, seen, setCookie>>

\* db.get of the session in a refresh: a wrong secret ends a live session.
ReadRefreshed(r) ==
  LET s == job[r].session IN
  /\ At(r, "session") /\ job[r].op = "refresh"
  /\ \/ ~IsActiveSession(s) /\ Refuse(r)
     \/ IsActiveSession(s) /\ ~VerifySecret(r, s) /\ Doom(r)
     \/ /\ IsActiveSession(s) /\ VerifySecret(r, s)
        /\ Goto(r, "owner")
        /\ UNCHANGED <<sessionVars, accountVars, jar, job, seen, doomed, setCookie>>

\* In a logout only the secret is checked; the cookie is deleted anyway.
ReadLoggedOut(r) ==
  /\ At(r, "session") /\ job[r].op = "logout"
  /\ \/ VerifySecret(r, job[r].session) /\ Doom(r)
     \/ ~VerifySecret(r, job[r].session) /\ Reply(r, None)
        /\ UNCHANGED <<sessionVars, accountVars, jar>>

ReadRevoked(r) ==
  LET s == job[r].session
      found == IsActiveSession(s) /\ owner[s] = job[r].account IN
  /\ At(r, "session") /\ job[r].op = "revoke"
  /\ \/ found /\ Doom(r)
     \/ ~found /\ Refuse(r)

\* _load_subject
ReadOwner(r) ==
  /\ At(r, "owner")
  /\ \/ owner[job[r].session] \notin active /\ Doom(r)
     \/ /\ owner[job[r].session] \in active
        /\ Goto(r, "commit")
        /\ UNCHANGED <<sessionVars, accountVars, jar, job, seen, doomed, setCookie>>

-----------------------------------------------------------------------------
(* Flush, COMMIT and the answer.                                           *)

\* Mutant: built before the secret is generated.
NewCookie_OldSecret(s) == [session |-> s, secret |-> secret[s]]

\* build_refresh_cookie with the secret just generated.
NewCookie(s) == [session |-> s, secret |-> secret'[s]]

RevokeDoomed(r) == revoked' = revoked \cup doomed[r]

\* authenticate's rehash of the password it verified, when the hash it loaded
\* asked for one.
Rehash(r) ==
  LET a == job[r].account IN
  \/ /\ seen[r].outdated
     /\ password' = [password EXCEPT ![a] = job[r].password]
     /\ outdated' = outdated \ {a}
  \/ ~seen[r].outdated /\ UNCHANGED <<password, outdated>>

CommitLogin(r) ==
  /\ At(r, "commit") /\ job[r].op = "login"
  /\ \E s \in SessionIds :
       /\ owner[s] = None
       /\ \A t \in SessionIds : t < s => owner[t] # None
       /\ owner' = [owner EXCEPT ![s] = job[r].account]
       /\ secret' = [secret EXCEPT ![s] = 1]
       /\ openedBy' = [openedBy EXCEPT ![s] = job[r].password]
       /\ Reply(r, NewCookie(s))
  /\ RevokeDoomed(r)
  /\ Rehash(r)
  /\ UNCHANGED <<expired, active, jar>>

\* Mutant: the whole row is written back as it was loaded.
CommitRotation_WritesRow(r) ==
  LET s == job[r].session IN
  /\ At(r, "commit") /\ job[r].op = "refresh" /\ doomed[r] = {}
  /\ secret[s] < MaxSecrets
  /\ secret' = [secret EXCEPT ![s] = @ + 1]
  /\ expired' = expired \ {s}
  /\ revoked' = revoked \ {s}
  /\ Reply(r, NewCookie(s))
  /\ UNCHANGED <<owner, openedBy, accountVars, jar>>

\* The rotation writes token_hash, jti and expires_at, not revoked_at.
CommitRotation(r) ==
  LET s == job[r].session IN
  /\ At(r, "commit") /\ job[r].op = "refresh" /\ doomed[r] = {}
  /\ secret[s] < MaxSecrets
  /\ secret' = [secret EXCEPT ![s] = @ + 1]
  /\ expired' = expired \ {s}
  /\ Reply(r, NewCookie(s))
  /\ UNCHANGED <<owner, revoked, openedBy, accountVars, jar>>

\* The endpoint commits before it passes the 401 on.
CommitRefusal(r) ==
  /\ At(r, "commit") /\ job[r].op = "refresh" /\ doomed[r] # {}
  /\ RevokeDoomed(r)
  /\ Finish(r)
  /\ UNCHANGED <<owner, secret, expired, openedBy, accountVars, jar>>

CommitLogout(r) ==
  /\ At(r, "commit") /\ job[r].op \in {"logout", "logoutAll"}
  /\ RevokeDoomed(r)
  /\ Reply(r, None)
  /\ UNCHANGED <<owner, secret, expired, openedBy, accountVars, jar>>

CommitRevoke(r) ==
  /\ At(r, "commit") /\ job[r].op = "revoke"
  /\ RevokeDoomed(r)
  /\ Finish(r)
  /\ UNCHANGED <<owner, secret, expired, openedBy, accountVars, jar>>

CommitReset(r) ==
  LET a == job[r].account IN
  /\ At(r, "commit") /\ job[r].op = "reset"
  /\ password' = [password EXCEPT ![a] = job[r].password]
  /\ outdated' = outdated \ {a}
  /\ RevokeDoomed(r)
  /\ Finish(r)
  /\ UNCHANGED <<owner, secret, expired, openedBy, active, jar>>

\* Assigning is_active the value it was loaded with writes nothing.
CommitActive(r) ==
  LET a == job[r].account IN
  /\ At(r, "commit") /\ job[r].op \in {"activate", "deactivate"}
  /\ active' = CASE job[r].op = "activate" /\ ~seen[r].active -> active \cup {a}
                 [] job[r].op = "deactivate" /\ seen[r].active -> active \ {a}
                 [] OTHER -> active
  /\ RevokeDoomed(r)
  /\ Finish(r)
  /\ UNCHANGED <<owner, secret, expired, openedBy, password, outdated, jar>>

Deliver(r) ==
  /\ At(r, "reply")
  /\ jar' = [jar EXCEPT ![job[r].browser] = setCookie[r]]
  /\ Finish(r)
  /\ UNCHANGED <<sessionVars, accountVars>>

-----------------------------------------------------------------------------
(* The network, the process and time.                                      *)

LoseAnswer(r) ==
  /\ Lossy
  /\ At(r, "reply")
  /\ Refuse(r)

\* The connection or the process dies: the transaction is rolled back.
Disconnect(r) ==
  /\ ~At(r, "idle") /\ ~At(r, "reply")
  /\ Refuse(r)

\* Past its check of the session s, before its commit.
Rotating(r, s) ==
  job[r].op = "refresh" /\ job[r].session = s /\ pc[r] \in {"owner", "commit"}

Expire(s) ==
  /\ Expiring
  /\ owner[s] # None /\ s \notin expired
  /\ ~Overlap => ~\E r \in Requests : Rotating(r, s)
  /\ expired' = expired \cup {s}
  /\ UNCHANGED <<owner, secret, revoked, openedBy, accountVars, jar, requestVars>>

-----------------------------------------------------------------------------
Arrive(r) ==
  \/ \E b \in Browsers :
       \/ \E a \in Accounts, p \in Passwords : SendLogin(r, b, a, p)
       \/ SendRefresh(r, b)
       \/ SendLogout(r, b)
       \/ SendLogoutAll(r, b)
       \/ \E s \in SessionIds : SendRevoke(r, b, s)
  \/ \E a \in Accounts :
       \/ \E p \in Passwords : SendReset(r, a, p)
       \/ \E op \in Ops : SendActive(r, a, op)

Work(r) ==
  \/ ReadAccount(r) \/ ReadSessions(r) \/ ReadOwner(r)
  \/ ReadRefreshed(r) \/ ReadLoggedOut(r) \/ ReadRevoked(r)
  \/ CommitLogin(r) \/ CommitRotation(r) \/ CommitRefusal(r)
  \/ CommitLogout(r) \/ CommitRevoke(r) \/ CommitReset(r) \/ CommitActive(r)

Next ==
  \/ \E r \in Requests :
       Arrive(r) \/ Work(r) \/ Deliver(r) \/ LoseAnswer(r) \/ Disconnect(r)
  \/ \E s \in SessionIds : Expire(s)

Spec == Init /\ [][Next]_vars

-----------------------------------------------------------------------------
(* Properties.                                                             *)

\* Once revoked_at is set nothing clears it and no rotation brings the session
\* back, whatever request was under way when it was revoked.
RevokedForGood ==
  [][\A s \in SessionIds :
       owner[s] # None /\ s \in revoked => s \in revoked' /\ owner'[s] = owner[s]]_vars

\* create_session gives up the oldest sessions: when one opens, no session of
\* the account that ends with it is newer than one that survives.
EvictsOldest ==
  [][\A new, gone, kept \in SessionIds :
       /\ owner[new] = None /\ owner'[new] # None
       /\ {gone, kept} \subseteq ActiveSessionsOf(owner'[new])
       /\ gone \in revoked' /\ kept \notin revoked'
       => gone < kept]_vars

\* set_password: a student's live sessions were all opened with the password
\* that is in force.
OldPasswordLockedOut ==
  \A a \in Students : \A s \in ActiveSessionsOf(a) : openedBy[s] = password[a]

\* update_student: a deactivated student has no live session.
InactiveHasNoSession ==
  \A a \in Students \ active : ActiveSessionsOf(a) = {}

\* authenticate's rehash changes how a password is stored, never which one it
\* is: only a reset changes that.
ResetSticks ==
  [][\A a \in Accounts : password'[a] # password[a]
       => \E r \in Requests : job[r].op = "reset" /\ job[r].account = a /\ At(r, "commit")]_vars

\* rotate_session: a refresh is granted only on the secret that is in force, so
\* that of two uses of one secret at most one succeeds.
ReuseIsRefused ==
  [][\A s \in SessionIds : secret'[s] # secret[s]
       => \/ owner[s] = None
          \/ \E r \in Requests : /\ Rotating(r, s) /\ job[r].secret = secret[s]
                               /\ pc'[r] = "reply"]_vars

\* auth.service.ts: with one refresh in flight per browser, and answers that all
\* arrive, in whatever order, the cookie of a live session is never a stale one
\* that the next refresh would be punished for.
CookiesAreCurrent ==
  \A b \in Browsers : LET cookie == jar[b] IN
    cookie # None /\ IsActiveSession(cookie.session) =>
      \/ cookie.secret = secret[cookie.session]
      \/ \E r \in Requests : /\ job[r].browser = b
                           /\ setCookie[r] = [session |-> cookie.session,
                                              secret |-> secret[cookie.session]]

\* The register of sessions that is promised, with a login, a rotation or a
\* revocation as one indivisible step each.
Book == INSTANCE SessionBook WITH live <- {s \in SessionIds : IsActiveSession(s)}
BookSpec == Book!BookSpec
=============================================================================
