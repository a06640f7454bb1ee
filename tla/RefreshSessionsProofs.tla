----------------------- MODULE RefreshSessionsProofs -----------------------
(***************************************************************************)
(* Theorems about RefreshSessions, for any number of accounts, browsers,   *)
(* requests and sessions: types; what is revoked stays revoked; resets and *)
(* deactivations lock out; the refinement of SessionBook; only resets      *)
(* change a password; logins end the oldest sessions; and where a          *)
(* session's cookie is, so that browsers stay logged in and no secret is   *)
(* exchanged twice.                                                        *)
(***************************************************************************)
EXTENDS RefreshSessions, FiniteSetTheorems, WellFoundedInduction, TLAPS

-----------------------------------------------------------------------------
(* Types.  TypeOK is not inductive alone: that an answer goes to a browser *)
(* and a statement finds the argument it needs depends on the endpoint.    *)

\* The arguments of a request are those of its endpoint.
JobFits(r) ==
  /\ pc[r] = "idle" => job[r] = NoJob
  /\ pc[r] = "account" => job[r].op \in AccountWide \cup {"logoutAll", "revoke"}
  /\ pc[r] = "sessions" => job[r].op \in {"login", "logoutAll", "reset", "deactivate"}
  /\ pc[r] = "session" => job[r].op \in {"refresh", "logout", "revoke"}
  /\ pc[r] = "owner" => job[r].op = "refresh"
  /\ pc[r] = "reply" => job[r].op \in {"login", "refresh", "logout", "logoutAll"}
  /\ job[r].op \in AccountWide \cup {"logoutAll", "revoke"} => job[r].account \in Accounts
  /\ job[r].op \in {"login", "reset"} => job[r].password \in Passwords
  /\ job[r].op \in {"refresh", "logout", "revoke"} => job[r].session \in SessionIds
  /\ job[r].op \in {"login", "refresh", "logout", "logoutAll"} => job[r].browser \in Browsers

TypeInv == TypeOK /\ \A r \in Requests : JobFits(r)

\* A request that ends leaves the types of its session state intact.
LEMMA FinishTypes ==
  ASSUME TypeInv, NEW r \in Requests, Finish(r)
  PROVE  /\ pc' \in [Requests -> Labels]
         /\ job' \in [Requests -> Jobs]
         /\ seen' \in [Requests -> [active : BOOLEAN, outdated : BOOLEAN]]
         /\ doomed' \in [Requests -> SUBSET SessionIds]
         /\ setCookie' \in [Requests -> Cookies \cup {None}]
         /\ \A v \in Requests : JobFits(v)'
<1>1. NoJob \in Jobs
  BY SessionsAssumption DEF NoJob, Jobs
<1>2. NothingSeen \in [active : BOOLEAN, outdated : BOOLEAN]
  BY DEF NothingSeen
<1>3. pc' \in [Requests -> Labels] /\ job' \in [Requests -> Jobs]
  BY <1>1 DEF TypeInv, TypeOK, Finish, Goto, Labels
<1>4. /\ seen' \in [Requests -> [active : BOOLEAN, outdated : BOOLEAN]]
      /\ doomed' \in [Requests -> SUBSET SessionIds]
      /\ setCookie' \in [Requests -> Cookies \cup {None}]
  BY <1>2 DEF TypeInv, TypeOK, Finish
<1>5. ASSUME NEW v \in Requests PROVE JobFits(v)'
  BY <1>3, <1>5 DEF TypeInv, TypeOK, JobFits, Finish, Goto, NoJob, AccountWide
<1> QED BY <1>3, <1>4, <1>5

\* A refusal, a rollback and a lost answer keep the types.
LEMMA RefuseTypes ==
  ASSUME TypeInv, NEW r \in Requests, Refuse(r)
  PROVE  TypeInv'
BY FinishTypes DEF Refuse, TypeInv, TypeOK, sessionVars, accountVars

\* So does an answer that leaves.
LEMMA ReplyTypes ==
  ASSUME TypeInv, NEW r \in Requests, NEW cookie \in Cookies \cup {None}, Reply(r, cookie),
         job[r].op \in {"login", "refresh", "logout", "logoutAll"}
  PROVE  /\ pc' \in [Requests -> Labels]
         /\ job' \in [Requests -> Jobs]
         /\ seen' \in [Requests -> [active : BOOLEAN, outdated : BOOLEAN]]
         /\ doomed' \in [Requests -> SUBSET SessionIds]
         /\ setCookie' \in [Requests -> Cookies \cup {None}]
         /\ \A v \in Requests : JobFits(v)'
<1>1. ASSUME NEW v \in Requests PROVE JobFits(v)'
  BY <1>1 DEF TypeInv, TypeOK, JobFits, Reply, Goto, AccountWide
<1> QED BY <1>1 DEF TypeInv, TypeOK, Reply, Goto, Labels

\* A request that goes on to a next statement.
LEMMA GotoTypes ==
  ASSUME TypeInv, NEW r \in Requests, NEW label \in Labels, Goto(r, label),
         NEW s \in [active : BOOLEAN, outdated : BOOLEAN], NEW d \in SUBSET SessionIds,
         seen' = [seen EXCEPT ![r] = s], doomed' = [doomed EXCEPT ![r] = d],
         UNCHANGED <<sessionVars, accountVars, jar, job, setCookie>>,
         \/ label = "commit"
         \/ label = "sessions" /\ job[r].op \in {"login", "logoutAll", "reset", "deactivate"}
         \/ label = "session" /\ job[r].op = "revoke"
         \/ label = "owner" /\ job[r].op = "refresh"
  PROVE  TypeInv'
<1>1. TypeOK'
  BY DEF TypeInv, TypeOK, Goto, sessionVars, accountVars
<1>2. ASSUME NEW v \in Requests PROVE JobFits(v)'
  <2>1. CASE v = r
    BY <1>2, <2>1 DEF TypeInv, TypeOK, JobFits, Goto
  <2>2. CASE v # r
    BY <1>2, <2>2 DEF TypeInv, TypeOK, JobFits, Goto
  <2> QED BY <2>1, <2>2
<1> QED BY <1>1, <1>2 DEF TypeInv

\* A request that arrives with arguments of its endpoint.
LEMMA SendTypes ==
  ASSUME TypeInv, NEW r \in Requests, NEW label \in {"account", "session"},
         NEW request \in Jobs, Send(r, label, request),
         label = "account" => request.op \in AccountWide \cup {"logoutAll", "revoke"},
         label = "session" => request.op \in {"refresh", "logout"},
         request.op \in AccountWide \cup {"logoutAll", "revoke"} => request.account \in Accounts,
         request.op \in {"login", "reset"} => request.password \in Passwords,
         request.op \in {"refresh", "logout", "revoke"} => request.session \in SessionIds,
         request.op \in {"login", "refresh", "logout", "logoutAll"} => request.browser \in Browsers
  PROVE  TypeInv'
<1>1. TypeOK'
  BY DEF TypeInv, TypeOK, Send, Goto, Labels, sessionVars, accountVars
<1>2. ASSUME NEW v \in Requests PROVE JobFits(v)'
  <2>1. CASE v = r
    BY <1>2, <2>1 DEF TypeInv, TypeOK, JobFits, Send, Goto
  <2>2. CASE v # r
    BY <1>2, <2>2 DEF TypeInv, TypeOK, JobFits, Send, Goto
  <2> QED BY <2>1, <2>2
<1> QED BY <1>1, <1>2 DEF TypeInv

LEMMA ArriveTypes ==
  ASSUME TypeInv, NEW r \in Requests, Arrive(r)
  PROVE  TypeInv'
<1>0. 0 \in 0..MaxSecrets
  BY SessionsAssumption
<1>1. ASSUME NEW b \in Browsers, NEW a \in Accounts, NEW p \in Passwords, SendLogin(r, b, a, p)
      PROVE  TypeInv'
  <2> DEFINE request == [NoJob EXCEPT !.op = "login", !.browser = b, !.account = a, !.password = p]
  <2>1. request \in Jobs /\ request.op = "login" /\ request.account = a
        /\ request.password = p /\ request.browser = b
    BY <1>0 DEF NoJob, Jobs
  <2>2. Send(r, "account", request)
    BY <1>1 DEF SendLogin
  <2> HIDE DEF request
  <2> QED BY <2>1, <2>2, SendTypes DEF AccountWide
<1>2. ASSUME NEW b \in Browsers, NEW op \in {"refresh", "logout"}, jar[b] # None,
             Send(r, "session", [NoJob EXCEPT !.op = op, !.browser = b,
                                  !.session = jar[b].session, !.secret = jar[b].secret])
      PROVE  TypeInv'
  <2> DEFINE request == [NoJob EXCEPT !.op = op, !.browser = b,
                                  !.session = jar[b].session, !.secret = jar[b].secret]
  <2>1. jar[b].session \in SessionIds /\ jar[b].secret \in 0..MaxSecrets
    BY <1>2, SessionsAssumption DEF TypeInv, TypeOK, Cookies
  <2>2. request \in Jobs /\ request.op = op /\ request.session \in SessionIds
        /\ request.browser = b
    BY <2>1, <1>2, SessionsAssumption DEF NoJob, Jobs
  <2> HIDE DEF request
  <2>3. Send(r, "session", request)
    BY <1>2 DEF request
  <2> QED BY <2>2, <2>3, SendTypes DEF AccountWide
<1>3. ASSUME NEW b \in Browsers, SendLogoutAll(r, b)
      PROVE  TypeInv'
  <2> DEFINE request == [NoJob EXCEPT !.op = "logoutAll", !.browser = b, !.account = StaffIn(b)]
  <2>1. StaffIn(b) \in Accounts /\ Send(r, "account", request)
    BY <1>3 DEF SendLogoutAll
  <2>2. request \in Jobs /\ request.op = "logoutAll" /\ request.account \in Accounts
        /\ request.browser = b
    BY <1>0, <2>1 DEF NoJob, Jobs
  <2> HIDE DEF request
  <2> QED BY <2>1, <2>2, SendTypes DEF AccountWide
<1>4. ASSUME NEW b \in Browsers, NEW s \in SessionIds, SendRevoke(r, b, s)
      PROVE  TypeInv'
  <2> DEFINE request == [NoJob EXCEPT !.op = "revoke", !.browser = b, !.account = StaffIn(b),
                                      !.session = s]
  <2>1. StaffIn(b) \in Accounts /\ Send(r, "account", request)
    BY <1>4 DEF SendRevoke
  <2>2. request \in Jobs /\ request.op = "revoke" /\ request.account \in Accounts
        /\ request.session = s
    BY <1>0, <2>1 DEF NoJob, Jobs
  <2> HIDE DEF request
  <2> QED BY <2>1, <2>2, SendTypes DEF AccountWide
<1>5. ASSUME NEW a \in Accounts, NEW p \in Passwords, SendReset(r, a, p)
      PROVE  TypeInv'
  <2> DEFINE request == [NoJob EXCEPT !.op = "reset", !.account = a, !.password = p]
  <2>1. request \in Jobs /\ request.op = "reset" /\ request.account = a /\ request.password = p
    BY <1>0 DEF NoJob, Jobs
  <2>2. Send(r, "account", request)
    BY <1>5 DEF SendReset
  <2> HIDE DEF request
  <2> QED BY <2>1, <2>2, SendTypes DEF AccountWide
<1>6. ASSUME NEW a \in Accounts, NEW op \in Ops, SendActive(r, a, op)
      PROVE  TypeInv'
  <2> DEFINE request == [NoJob EXCEPT !.op = op, !.account = a]
  <2>1. op \in {"activate", "deactivate"} /\ Send(r, "account", request)
    BY <1>6 DEF SendActive
  <2>2. request \in Jobs /\ request.op = op /\ request.account = a
    BY <1>0, <2>1 DEF NoJob, Jobs
  <2> HIDE DEF request
  <2> QED BY <2>1, <2>2, SendTypes DEF AccountWide
<1>7. ASSUME NEW b \in Browsers, SendRefresh(r, b) \/ SendLogout(r, b)
      PROVE  TypeInv'
  BY <1>7, <1>2 DEF SendRefresh, SendLogout
<1> QED BY <1>1, <1>3, <1>4, <1>5, <1>6, <1>7 DEF Arrive

\* The statements before the commit.
LEMMA ReadTypes ==
  ASSUME TypeInv, NEW r \in Requests,
         \/ ReadAccount(r) \/ ReadSessions(r) \/ ReadOwner(r)
         \/ ReadRefreshed(r) \/ ReadLoggedOut(r) \/ ReadRevoked(r)
  PROVE  TypeInv'
<1>0. /\ seen = [seen EXCEPT ![r] = seen[r]] /\ doomed = [doomed EXCEPT ![r] = doomed[r]]
      /\ seen[r] \in [active : BOOLEAN, outdated : BOOLEAN] /\ doomed[r] \in SUBSET SessionIds
      /\ JobFits(r)
  BY DEF TypeInv, TypeOK
<1>1. ASSUME Doom(r), job[r].session \in SessionIds PROVE TypeInv'
  <2>1. {job[r].session} \in SUBSET SessionIds
    BY <1>1
  <2> QED BY <1>0, <1>1, <2>1, GotoTypes DEF Doom, Labels
<1>2. ASSUME ReadAccount(r), Admitted(r), ~Refuse(r) PROVE TypeInv'
  <2>1. job[r].op \in AccountWide \cup {"logoutAll", "revoke"}
    BY <1>0, <1>2 DEF ReadAccount, At, JobFits
  <2>2. \/ AfterAccount(r) = "commit"
        \/ AfterAccount(r) = "sessions" /\ job[r].op \in {"login", "logoutAll", "reset", "deactivate"}
        \/ AfterAccount(r) = "session" /\ job[r].op = "revoke"
    BY <2>1 DEF AfterAccount, AccountWide
  <2> DEFINE loaded == [active |-> job[r].account \in active,
                        outdated |-> job[r].account \in outdated]
  <2>3. loaded \in [active : BOOLEAN, outdated : BOOLEAN]
    OBVIOUS
  <2>4. /\ Goto(r, AfterAccount(r)) /\ seen' = [seen EXCEPT ![r] = loaded]
        /\ UNCHANGED <<sessionVars, accountVars, jar, job, doomed, setCookie>>
    BY <1>2 DEF ReadAccount
  <2>5. AfterAccount(r) \in Labels
    BY <2>2 DEF Labels
  <2> HIDE DEF loaded
  <2> QED BY <1>0, <2>2, <2>3, <2>4, <2>5, GotoTypes
<1>3. ASSUME ReadSessions(r) PROVE TypeInv'
  <2> DEFINE found == ActiveSessionsOf(job[r].account)
             d == IF job[r].op = "login" THEN Evicted(found) ELSE found
  <2>1. d \in SUBSET SessionIds
    BY DEF ActiveSessionsOf, Evicted
  <2>2. /\ Goto(r, "commit") /\ doomed' = [doomed EXCEPT ![r] = d]
        /\ UNCHANGED <<sessionVars, accountVars, jar, job, seen, setCookie>>
    BY <1>3 DEF ReadSessions
  <2> HIDE DEF d
  <2> QED BY <1>0, <2>1, <2>2, GotoTypes DEF Labels
<1>4. ASSUME ReadRefreshed(r) PROVE TypeInv'
  <2>1. job[r].session \in SessionIds
    BY <1>0, <1>4 DEF ReadRefreshed, JobFits
  <2>2. CASE Refuse(r)
    BY <2>2, RefuseTypes
  <2>3. CASE Doom(r)
    BY <2>1, <2>3, <1>1
  <2>4. CASE /\ Goto(r, "owner")
             /\ UNCHANGED <<sessionVars, accountVars, jar, job, seen, doomed, setCookie>>
    BY <1>0, <1>4, <2>4, GotoTypes DEF Labels, ReadRefreshed
  <2> QED BY <1>4, <2>2, <2>3, <2>4 DEF ReadRefreshed
<1>5. ASSUME ReadLoggedOut(r) PROVE TypeInv'
  <2>1. job[r].session \in SessionIds
    BY <1>0, <1>5 DEF ReadLoggedOut, JobFits
  <2>2. CASE Doom(r)
    BY <2>1, <2>2, <1>1
  <2>3. CASE Reply(r, None) /\ UNCHANGED <<sessionVars, accountVars, jar>>
    BY <1>5, <2>3, ReplyTypes DEF ReadLoggedOut, TypeInv, TypeOK, sessionVars, accountVars
  <2> QED BY <1>5, <2>2, <2>3 DEF ReadLoggedOut
<1>6. ASSUME ReadRevoked(r) PROVE TypeInv'
  BY <1>0, <1>1, <1>6, RefuseTypes DEF ReadRevoked, JobFits
<1>7. ASSUME ReadOwner(r) PROVE TypeInv'
  <2>1. job[r].session \in SessionIds
    BY <1>0, <1>7 DEF ReadOwner, At, JobFits
  <2>2. CASE Doom(r)
    BY <2>1, <2>2, <1>1
  <2>3. CASE /\ Goto(r, "commit")
             /\ UNCHANGED <<sessionVars, accountVars, jar, job, seen, doomed, setCookie>>
    BY <1>0, <2>3, GotoTypes DEF Labels
  <2> QED BY <1>7, <2>2, <2>3 DEF ReadOwner
<1>8. CASE ReadAccount(r)
  BY <1>2, <1>8, RefuseTypes DEF ReadAccount
<1> QED BY <1>3, <1>4, <1>5, <1>6, <1>7, <1>8

\* The commits.
LEMMA CommitTypes ==
  ASSUME TypeInv, NEW r \in Requests,
         \/ CommitLogin(r) \/ CommitRotation(r) \/ CommitRefusal(r)
         \/ CommitLogout(r) \/ CommitRevoke(r) \/ CommitReset(r) \/ CommitActive(r)
  PROVE  TypeInv'
<1>0. JobFits(r) /\ doomed[r] \in SUBSET SessionIds /\ 1 \in 1..MaxSecrets /\ 1 \in 0..MaxSecrets
  BY SessionsAssumption DEF TypeInv, TypeOK
<1>1. RevokeDoomed(r) => revoked' \subseteq SessionIds
  BY <1>0 DEF RevokeDoomed, TypeInv, TypeOK
<1>2. CASE CommitLogin(r)
  <2>1. PICK s \in SessionIds : /\ owner' = [owner EXCEPT ![s] = job[r].account]
                                /\ secret' = [secret EXCEPT ![s] = 1]
                                /\ openedBy' = [openedBy EXCEPT ![s] = job[r].password]
                                /\ Reply(r, NewCookie(s))
    BY <1>2 DEF CommitLogin
  <2>2. job[r].op = "login" /\ job[r].account \in Accounts /\ job[r].password \in Passwords
    BY <1>0, <1>2 DEF CommitLogin, JobFits, AccountWide
  <2>3. /\ owner' \in [SessionIds -> Accounts \cup {None}]
        /\ secret' \in [SessionIds -> 0..MaxSecrets]
        /\ openedBy' \in [SessionIds -> Passwords \cup {None}]
    BY <1>0, <2>1, <2>2 DEF TypeInv, TypeOK
  <2>4. /\ password' \in [Accounts -> Passwords \cup {None}] /\ outdated' \subseteq Accounts
    BY <1>2, <2>2 DEF CommitLogin, Rehash, TypeInv, TypeOK
  <2>5. NewCookie(s) \in Cookies
    BY <1>0, <2>1 DEF NewCookie, Cookies, TypeInv, TypeOK
  <2> QED
    BY <1>1, <1>2, <2>1, <2>2, <2>3, <2>4, <2>5, ReplyTypes DEF CommitLogin, TypeInv, TypeOK
<1>3. CASE CommitRotation(r)
  <2> DEFINE s == job[r].session
  <2>1. /\ job[r].op = "refresh" /\ s \in SessionIds /\ Reply(r, NewCookie(s))
        /\ secret' = [secret EXCEPT ![s] = secret[s] + 1] /\ secret[s] < MaxSecrets
        /\ expired' = expired \ {s}
        /\ UNCHANGED <<owner, revoked, openedBy, accountVars, jar>>
    BY <1>0, <1>3 DEF CommitRotation, JobFits
  <2>2. secret[s] + 1 \in 1..MaxSecrets
    BY <2>1, SessionsAssumption DEF TypeInv, TypeOK
  <2>3. secret' \in [SessionIds -> 0..MaxSecrets] /\ NewCookie(s) \in Cookies
    BY <2>1, <2>2 DEF NewCookie, Cookies, TypeInv, TypeOK
  <2> QED
    BY <2>1, <2>3, ReplyTypes DEF TypeInv, TypeOK, accountVars
<1>4. CASE CommitRefusal(r) \/ CommitRevoke(r)
  BY <1>1, <1>4, FinishTypes DEF CommitRefusal, CommitRevoke, TypeInv, TypeOK, accountVars
<1>5. CASE CommitLogout(r)
  BY <1>1, <1>5, ReplyTypes DEF CommitLogout, TypeInv, TypeOK, accountVars
<1>6. CASE CommitReset(r)
  <2>1. job[r].password \in Passwords
    BY <1>0, <1>6 DEF CommitReset, JobFits
  <2>2. password' \in [Accounts -> Passwords \cup {None}] /\ outdated' \subseteq Accounts
    BY <1>6, <2>1 DEF CommitReset, TypeInv, TypeOK
  <2> QED BY <1>1, <1>6, <2>2, FinishTypes DEF CommitReset, TypeInv, TypeOK
<1>7. CASE CommitActive(r)
  <2>1. job[r].account \in Accounts
    BY <1>0, <1>7 DEF CommitActive, JobFits, AccountWide
  <2>2. active' \subseteq Accounts
    BY <1>7, <2>1 DEF CommitActive, TypeInv, TypeOK
  <2> QED BY <1>1, <1>7, <2>2, FinishTypes DEF CommitActive, TypeInv, TypeOK
<1> QED BY <1>2, <1>3, <1>4, <1>5, <1>6, <1>7

LEMMA InitTypes == Init => TypeInv
<1>1. 0 \in 0..MaxSecrets
  BY SessionsAssumption
<1>2. NoJob \in Jobs /\ NothingSeen \in [active : BOOLEAN, outdated : BOOLEAN]
  BY <1>1 DEF NoJob, Jobs, NothingSeen
<1>3. Init => TypeOK
  BY <1>1, <1>2, SessionsAssumption DEF Init, TypeOK, Labels
<1> QED BY <1>3 DEF Init, TypeInv, JobFits, NoJob, AccountWide

LEMMA StepTypes == TypeInv /\ [Next]_vars => TypeInv'
<1> SUFFICES ASSUME TypeInv, [Next]_vars PROVE TypeInv'
  OBVIOUS
<1>1. ASSUME NEW r \in Requests, Deliver(r) PROVE TypeInv'
  <2>1. job[r].browser \in Browsers /\ setCookie[r] \in Cookies \cup {None}
    BY <1>1 DEF Deliver, At, TypeInv, TypeOK, JobFits
  <2>2. jar' \in [Browsers -> Cookies \cup {None}]
    BY <1>1, <2>1 DEF Deliver, TypeInv, TypeOK
  <2> QED BY <1>1, <2>2, FinishTypes DEF Deliver, TypeInv, TypeOK, sessionVars, accountVars
<1>2. ASSUME NEW r \in Requests, LoseAnswer(r) \/ Disconnect(r) PROVE TypeInv'
  BY <1>2, RefuseTypes DEF LoseAnswer, Disconnect
<1>3. ASSUME NEW s \in SessionIds, Expire(s) PROVE TypeInv'
  BY <1>3 DEF Expire, TypeInv, TypeOK, JobFits, accountVars, requestVars
<1>4. CASE UNCHANGED vars
  BY <1>4 DEF vars, sessionVars, accountVars, requestVars, TypeInv, TypeOK, JobFits
<1> QED BY <1>1, <1>2, <1>3, <1>4, ArriveTypes, ReadTypes, CommitTypes DEF Next, Work

\* Every variable keeps its type, and every request the arguments its endpoint
\* needs (services/auth.py, api/v1/auth.py).
THEOREM TypesHold == Spec => []TypeInv
BY InitTypes, StepTypes, PTL DEF Spec

\* What TypesHold says of the variables alone: each keeps its type.
THEOREM SessionTypes == Spec => []TypeOK
<1>1. TypeInv => TypeOK
  BY DEF TypeInv
<1> QED BY <1>1, TypesHold, PTL

-----------------------------------------------------------------------------
(* A revoked session.                                                      *)

LEMMA StepKeepsRevoked ==
  ASSUME TypeInv, [Next]_vars, NEW s \in SessionIds, owner[s] # None, s \in revoked
  PROVE  s \in revoked' /\ owner'[s] = owner[s]
<1>1. ASSUME NEW r \in Requests, Arrive(r) PROVE UNCHANGED sessionVars
  BY <1>1 DEF Arrive, SendLogin, SendRefresh, SendLogout, SendLogoutAll, SendRevoke, SendReset,
              SendActive, Send
<1>2. ASSUME NEW r \in Requests,
             \/ ReadAccount(r) \/ ReadSessions(r) \/ ReadOwner(r)
             \/ ReadRefreshed(r) \/ ReadLoggedOut(r) \/ ReadRevoked(r)
             \/ Deliver(r) \/ LoseAnswer(r) \/ Disconnect(r)
      PROVE  UNCHANGED sessionVars
  BY <1>2 DEF ReadAccount, ReadSessions, ReadOwner, ReadRefreshed, ReadLoggedOut, ReadRevoked,
              Deliver, LoseAnswer, Disconnect, Doom, Refuse
<1>3. ASSUME NEW r \in Requests, CommitLogin(r)
      PROVE  s \in revoked' /\ owner'[s] = owner[s]
  BY <1>3 DEF CommitLogin, RevokeDoomed, TypeInv, TypeOK
<1>4. ASSUME NEW r \in Requests,
             \/ CommitRotation(r) \/ CommitRefusal(r) \/ CommitLogout(r)
             \/ CommitRevoke(r) \/ CommitReset(r) \/ CommitActive(r)
      PROVE  s \in revoked' /\ owner'[s] = owner[s]
  BY <1>4 DEF CommitRotation, CommitRefusal, CommitLogout, CommitRevoke, CommitReset,
              CommitActive, RevokeDoomed
<1>5. ASSUME NEW t \in SessionIds, Expire(t)
      PROVE  s \in revoked' /\ owner'[s] = owner[s]
  BY <1>5 DEF Expire
<1> QED BY <1>1, <1>2, <1>3, <1>4, <1>5 DEF Next, Work, vars, sessionVars

\* A session that is revoked, by whoever and for whatever reason, is revoked for
\* good, also when a rotation that has passed its checks commits afterwards
\* (rotate_session, create_session, revoke_all_sessions).
THEOREM RevokedStaysRevoked == Spec => RevokedForGood
<1>1. TypeInv /\ [Next]_vars =>
        [\A s \in SessionIds :
           owner[s] # None /\ s \in revoked => s \in revoked' /\ owner'[s] = owner[s]]_vars
  BY StepKeepsRevoked
<1> QED BY <1>1, TypesHold, PTL DEF Spec, RevokedForGood

-----------------------------------------------------------------------------
(* Lock-out.  That a reset or a deactivation leaves no session behind is   *)
(* decided by what its transaction has read, so the invariant says what    *)
(* readings are still good when they are used, if the account-wide         *)
(* requests of an account take turns (Overlap = FALSE).                    *)

TakesTurns ==
  \A a \in Accounts : \A r, v \in Requests : Deciding(r, a) /\ Deciding(v, a) => r = v

\* What authenticate found is so until the session is opened.
LoginStands(r) ==
  job[r].op = "login" /\ pc[r] \in {"sessions", "commit"} =>
    password[job[r].account] = job[r].password /\ job[r].account \in active

\* A reset or a deactivation ends all sessions there are.
EndsAll(r) ==
  /\ pc[r] = "commit"
  /\ job[r].op = "reset" \/ (job[r].op = "deactivate" /\ job[r].account \in Students)
  => ActiveSessionsOf(job[r].account) \subseteq doomed[r]

\* A rotation brings no expired session back.
RotatesLive(r) == \A s \in SessionIds : Rotating(r, s) => s \notin expired

ReadingsHold(r) == LoginStands(r) /\ EndsAll(r) /\ RotatesLive(r)

LockedOut ==
  /\ TakesTurns
  /\ \A r \in Requests : ReadingsHold(r)
  /\ OldPasswordLockedOut
  /\ InactiveHasNoSession

\* A step of r that opens no session and leaves the accounts alone.
LEMMA QuietStep ==
  ASSUME TypeInv, LockedOut, NEW r \in Requests,
         \A v \in Requests \ {r} : pc'[v] = pc[v] /\ job'[v] = job[v] /\ doomed'[v] = doomed[v],
         job'[r] = NoJob \/ (job'[r] = job[r] /\ pc[r] # "reply"),
         UNCHANGED <<password, active, openedBy>>,
         \A a \in Accounts : ActiveSessionsOf(a)' \subseteq ActiveSessionsOf(a),
         expired' \subseteq expired,
         ReadingsHold(r)'
  PROVE  LockedOut'
<1>1. TakesTurns'
  BY DEF LockedOut, TakesTurns, Deciding, NoJob, AccountWide
<1>2. ASSUME NEW v \in Requests, v # r PROVE ReadingsHold(v)'
  <2>1. pc'[v] = pc[v] /\ job'[v] = job[v] /\ doomed'[v] = doomed[v] /\ ReadingsHold(v) /\ JobFits(v)
    BY <1>2 DEF LockedOut, TypeInv
  <2>2. LoginStands(v)' /\ RotatesLive(v)'
    BY <2>1 DEF ReadingsHold, LoginStands, RotatesLive, Rotating
  <2>3. job[v].op \in {"reset", "deactivate"} => job[v].account \in Accounts
    BY <2>1 DEF JobFits, AccountWide
  <2>4. EndsAll(v)'
    BY <2>1, <2>3 DEF ReadingsHold, EndsAll
  <2> QED BY <2>2, <2>4 DEF ReadingsHold
<1>3. OldPasswordLockedOut' /\ InactiveHasNoSession'
  BY SessionsAssumption DEF LockedOut, OldPasswordLockedOut, InactiveHasNoSession
<1> QED BY <1>1, <1>2, <1>3 DEF LockedOut

\* A step that leaves the session rows alone keeps the active sessions.
LEMMA SameSessions ==
  ASSUME UNCHANGED <<owner, revoked, expired>>
  PROVE  \A a \in Accounts : ActiveSessionsOf(a)' = ActiveSessionsOf(a)
BY DEF ActiveSessionsOf, IsActiveSession

\* A request that is over promises nothing.
LEMMA OverPromisesNothing ==
  ASSUME NEW r \in Requests, TypeInv, Finish(r)
  PROVE  /\ ReadingsHold(r)' /\ job'[r] = NoJob
         /\ \A v \in Requests \ {r} : pc'[v] = pc[v] /\ job'[v] = job[v] /\ doomed'[v] = doomed[v]
BY DEF Finish, Goto, TypeInv, TypeOK, NoJob, ReadingsHold, LoginStands, EndsAll, RotatesLive,
       Rotating

LEMMA AnswerPromisesNothing ==
  ASSUME NEW r \in Requests, TypeInv, NEW cookie, Reply(r, cookie)
  PROVE  /\ ReadingsHold(r)' /\ job'[r] = job[r]
         /\ \A v \in Requests \ {r} : pc'[v] = pc[v] /\ job'[v] = job[v] /\ doomed'[v] = doomed[v]
BY DEF Reply, Goto, TypeInv, TypeOK, ReadingsHold, LoginStands, EndsAll, RotatesLive, Rotating

LEMMA RefuseKeeps ==
  ASSUME TypeInv, LockedOut, NEW r \in Requests, Refuse(r)
  PROVE  LockedOut'
<1>1. UNCHANGED <<password, active, openedBy, owner, revoked, expired>> /\ Finish(r)
  BY DEF Refuse, sessionVars, accountVars
<1> QED BY <1>1, SameSessions, OverPromisesNothing, QuietStep

\* An arriving request has read nothing; it takes its turn.
LEMMA SendKeeps ==
  ASSUME TypeInv, LockedOut, NEW r \in Requests, NEW label \in {"account", "session"},
         NEW request, Send(r, label, request), At(r, "idle"),
         \A a \in Accounts : request.op \in AccountWide /\ request.account = a
           => ~\E v \in Requests : Deciding(v, a)
  PROVE  LockedOut'
<1>1. /\ UNCHANGED <<password, active, openedBy, owner, revoked, expired, doomed>>
      /\ pc' = [pc EXCEPT ![r] = label] /\ job' = [job EXCEPT ![r] = request]
  BY DEF Send, Goto, sessionVars, accountVars
<1>2. pc'[r] = label /\ job'[r] = request
      /\ \A v \in Requests \ {r} : pc'[v] = pc[v] /\ job'[v] = job[v]
  BY <1>1 DEF TypeInv, TypeOK
<1>3. TakesTurns'
  BY <1>2 DEF LockedOut, TakesTurns, Deciding
<1>4. \A a \in Accounts : ActiveSessionsOf(a)' = ActiveSessionsOf(a)
  BY <1>1, SameSessions
<1>5. ReadingsHold(r)'
  BY <1>2 DEF ReadingsHold, LoginStands, EndsAll, RotatesLive, Rotating
<1>6. ASSUME NEW v \in Requests, v # r PROVE ReadingsHold(v)'
  <2>1. pc'[v] = pc[v] /\ job'[v] = job[v] /\ ReadingsHold(v) /\ JobFits(v)
    BY <1>2, <1>6 DEF LockedOut, TypeInv
  <2>2. LoginStands(v)' /\ RotatesLive(v)'
    BY <1>1, <2>1 DEF ReadingsHold, LoginStands, RotatesLive, Rotating
  <2>3. job[v].op \in {"reset", "deactivate"} => job[v].account \in Accounts
    BY <2>1 DEF JobFits, AccountWide
  <2>4. EndsAll(v)'
    BY <1>1, <1>4, <2>1, <2>3 DEF ReadingsHold, EndsAll
  <2> QED BY <2>2, <2>4 DEF ReadingsHold
<1>7. OldPasswordLockedOut' /\ InactiveHasNoSession'
  BY <1>1, <1>4, SessionsAssumption DEF LockedOut, OldPasswordLockedOut, InactiveHasNoSession
<1> QED BY <1>3, <1>5, <1>6, <1>7 DEF LockedOut

LEMMA ArriveKeeps ==
  ASSUME TypeInv, LockedOut, ~Overlap, NEW r \in Requests, Arrive(r)
  PROVE  LockedOut'
<1>1. ASSUME NEW b \in Browsers, NEW a \in Accounts, NEW p \in Passwords, SendLogin(r, b, a, p)
      PROVE  LockedOut'
  <2> DEFINE request == [NoJob EXCEPT !.op = "login", !.browser = b, !.account = a, !.password = p]
  <2>1. request.op = "login" /\ request.account = a
    BY DEF NoJob
  <2>2. /\ Send(r, "account", request) /\ At(r, "idle")
        /\ ~\E v \in Requests : Deciding(v, a)
    BY <1>1 DEF SendLogin, MaySend, AccountWide
  <2> HIDE DEF request
  <2> QED BY <2>1, <2>2, SendKeeps
<1>2. ASSUME NEW request, NEW label \in {"account", "session"}, Send(r, label, request),
             At(r, "idle"), request.op \notin AccountWide
      PROVE  LockedOut'
  BY <1>2, SendKeeps
<1>3. ASSUME NEW b \in Browsers, SendRefresh(r, b) PROVE LockedOut'
  <2> DEFINE request == [NoJob EXCEPT !.op = "refresh", !.browser = b,
                                !.session = jar[b].session, !.secret = jar[b].secret]
  <2>1. request.op \notin AccountWide
    BY DEF NoJob, AccountWide
  <2>2. Send(r, "session", request) /\ At(r, "idle")
    BY <1>3 DEF SendRefresh, MaySend
  <2> HIDE DEF request
  <2> QED BY <1>2, <2>1, <2>2
<1>4. ASSUME NEW b \in Browsers, SendLogout(r, b) PROVE LockedOut'
  <2> DEFINE request == [NoJob EXCEPT !.op = "logout", !.browser = b,
                                !.session = jar[b].session, !.secret = jar[b].secret]
  <2>1. request.op \notin AccountWide
    BY DEF NoJob, AccountWide
  <2>2. Send(r, "session", request) /\ At(r, "idle")
    BY <1>4 DEF SendLogout, MaySend
  <2> HIDE DEF request
  <2> QED BY <1>2, <2>1, <2>2
<1>5. ASSUME NEW b \in Browsers, SendLogoutAll(r, b) PROVE LockedOut'
  <2> DEFINE request == [NoJob EXCEPT !.op = "logoutAll", !.browser = b, !.account = StaffIn(b)]
  <2>1. request.op \notin AccountWide
    BY DEF NoJob, AccountWide
  <2>2. Send(r, "account", request) /\ At(r, "idle")
    BY <1>5 DEF SendLogoutAll, MaySend
  <2> HIDE DEF request
  <2> QED BY <1>2, <2>1, <2>2
<1>6. ASSUME NEW b \in Browsers, NEW s \in SessionIds, SendRevoke(r, b, s) PROVE LockedOut'
  <2> DEFINE request == [NoJob EXCEPT !.op = "revoke", !.browser = b, !.account = StaffIn(b),
                                      !.session = s]
  <2>1. request.op \notin AccountWide
    BY DEF NoJob, AccountWide
  <2>2. Send(r, "account", request) /\ At(r, "idle")
    BY <1>6 DEF SendRevoke, MaySend
  <2> HIDE DEF request
  <2> QED BY <1>2, <2>1, <2>2
<1>7. ASSUME NEW a \in Accounts, NEW p \in Passwords, SendReset(r, a, p) PROVE LockedOut'
  <2> DEFINE request == [NoJob EXCEPT !.op = "reset", !.account = a, !.password = p]
  <2>1. request.op = "reset" /\ request.account = a
    BY DEF NoJob
  <2>2. /\ Send(r, "account", request) /\ At(r, "idle")
        /\ ~\E v \in Requests : Deciding(v, a)
    BY <1>7 DEF SendReset, MaySend, AccountWide
  <2> HIDE DEF request
  <2> QED BY <2>1, <2>2, SendKeeps
<1>8. ASSUME NEW a \in Accounts, NEW op \in Ops, SendActive(r, a, op) PROVE LockedOut'
  <2> DEFINE request == [NoJob EXCEPT !.op = op, !.account = a]
  <2>1. request.account = a
    BY DEF NoJob
  <2>2. /\ Send(r, "account", request) /\ At(r, "idle")
        /\ ~\E v \in Requests : Deciding(v, a)
    BY <1>8 DEF SendActive, MaySend, AccountWide
  <2> HIDE DEF request
  <2> QED BY <2>1, <2>2, SendKeeps
<1> QED BY <1>1, <1>3, <1>4, <1>5, <1>6, <1>7, <1>8 DEF Arrive

\* A request that goes on to another statement with its readings good.
LEMMA GotoKeeps ==
  ASSUME TypeInv, LockedOut, NEW r \in Requests, NEW label, Goto(r, label), pc[r] # "reply",
         NEW d, doomed' = [doomed EXCEPT ![r] = d],
         UNCHANGED <<sessionVars, accountVars, jar, job, setCookie>>,
         ReadingsHold(r)'
  PROVE  LockedOut'
<1>1. /\ UNCHANGED <<password, active, openedBy, owner, revoked, expired>> /\ job'[r] = job[r]
      /\ \A v \in Requests \ {r} : pc'[v] = pc[v] /\ job'[v] = job[v] /\ doomed'[v] = doomed[v]
  BY DEF Goto, TypeInv, TypeOK, sessionVars, accountVars
<1> QED BY <1>1, SameSessions, QuietStep

LEMMA ReadKeeps ==
  ASSUME TypeInv, LockedOut, NEW r \in Requests,
         \/ ReadAccount(r) \/ ReadSessions(r) \/ ReadOwner(r)
         \/ ReadRefreshed(r) \/ ReadLoggedOut(r) \/ ReadRevoked(r)
  PROVE  LockedOut'
<1>0. JobFits(r) /\ doomed = [doomed EXCEPT ![r] = doomed[r]] /\ ReadingsHold(r)
  BY DEF TypeInv, TypeOK, LockedOut
<1>1. ASSUME Doom(r), pc[r] # "reply", job[r].op \in {"refresh", "logout", "revoke"},
             job[r].op = "refresh" => job[r].session \notin expired
      PROVE  LockedOut'
  <2>1. Goto(r, "commit") /\ doomed' = [doomed EXCEPT ![r] = {job[r].session}]
        /\ UNCHANGED <<sessionVars, accountVars, jar, job, setCookie>>
    BY <1>1 DEF Doom
  <2>2. pc'[r] = "commit" /\ job'[r] = job[r] /\ expired' = expired
    BY <2>1 DEF Goto, TypeInv, TypeOK, sessionVars
  <2>3. ReadingsHold(r)'
    BY <1>1, <2>2 DEF ReadingsHold, LoginStands, EndsAll, RotatesLive, Rotating
  <2> QED BY <1>1, <2>1, <2>3, GotoKeeps
<1>2. ASSUME ReadAccount(r), Admitted(r), ~Refuse(r) PROVE LockedOut'
  <2> DEFINE label == AfterAccount(r)
  <2>1. /\ Goto(r, label) /\ pc[r] = "account"
        /\ UNCHANGED <<sessionVars, accountVars, jar, job, doomed, setCookie>>
    BY <1>2 DEF ReadAccount, At
  <2>2. pc'[r] = label /\ job'[r] = job[r] /\ UNCHANGED <<password, active, expired>>
        /\ doomed' = [doomed EXCEPT ![r] = doomed[r]]
    BY <1>0, <2>1 DEF Goto, TypeInv, TypeOK, sessionVars, accountVars
  <2>3. job[r].op = "login" => password[job[r].account] = job[r].password /\ job[r].account \in active
    BY <1>2 DEF Admitted
  <2>4. job[r].op = "reset" => label = "sessions"
    BY DEF AfterAccount
  <2>5. job[r].op = "deactivate" /\ job[r].account \in Students => label = "sessions"
    BY DEF AfterAccount
  <2>6. job[r].op # "refresh"
    BY <1>0, <2>1 DEF JobFits, AccountWide
  <2> HIDE DEF label
  <2>7. ReadingsHold(r)'
    BY <2>2, <2>3, <2>4, <2>5, <2>6 DEF ReadingsHold, LoginStands, EndsAll, RotatesLive, Rotating
  <2> QED BY <2>1, <2>2, <2>7, GotoKeeps
<1>3. ASSUME ReadSessions(r) PROVE LockedOut'
  <2> DEFINE found == ActiveSessionsOf(job[r].account)
             d == IF job[r].op = "login" THEN Evicted(found) ELSE found
  <2>1. /\ Goto(r, "commit") /\ pc[r] = "sessions" /\ doomed' = [doomed EXCEPT ![r] = d]
        /\ UNCHANGED <<sessionVars, accountVars, jar, job, setCookie>>
    BY <1>3 DEF ReadSessions, At
  <2>2. pc'[r] = "commit" /\ job'[r] = job[r] /\ doomed'[r] = d
        /\ UNCHANGED <<password, active, owner, revoked, expired>>
    BY <2>1 DEF Goto, TypeInv, TypeOK, sessionVars, accountVars
  <2>3. job[r].op # "refresh" /\ job[r].account \in Accounts
    BY <1>0, <2>1 DEF JobFits, AccountWide
  <2>4. ActiveSessionsOf(job[r].account)' = found
    BY <2>2, <2>3, SameSessions
  <2>5. LoginStands(r)'
    BY <1>0, <2>1, <2>2 DEF ReadingsHold, LoginStands
  <2>6. EndsAll(r)'
    BY <2>2, <2>4 DEF EndsAll
  <2>7. RotatesLive(r)'
    BY <2>2, <2>3 DEF RotatesLive, Rotating
  <2> HIDE DEF d
  <2> QED BY <2>1, <2>5, <2>6, <2>7, GotoKeeps DEF ReadingsHold
<1>4. ASSUME ReadRefreshed(r) PROVE LockedOut'
  <2>1. job[r].op = "refresh" /\ pc[r] = "session"
    BY <1>4 DEF ReadRefreshed, At
  <2>2. CASE Refuse(r)
    BY <2>2, RefuseKeeps
  <2>3. CASE ~Refuse(r)
    <3>1. job[r].session \notin expired
      BY <1>4, <2>3 DEF ReadRefreshed, IsActiveSession
    <3>2. CASE Doom(r)
      BY <2>1, <3>1, <3>2, <1>1
    <3>3. CASE /\ Goto(r, "owner")
               /\ UNCHANGED <<sessionVars, accountVars, jar, job, seen, doomed, setCookie>>
      <4>1. pc'[r] = "owner" /\ job'[r] = job[r] /\ expired' = expired
        BY <3>3 DEF Goto, TypeInv, TypeOK, sessionVars
      <4>2. ReadingsHold(r)'
        BY <2>1, <3>1, <4>1 DEF ReadingsHold, LoginStands, EndsAll, RotatesLive, Rotating
      <4> QED BY <1>0, <2>1, <3>3, <4>2, GotoKeeps
    <3> QED BY <1>4, <2>3, <3>2, <3>3 DEF ReadRefreshed
  <2> QED BY <2>2, <2>3
<1>5. ASSUME ReadLoggedOut(r) PROVE LockedOut'
  <2>1. job[r].op = "logout" /\ pc[r] = "session"
    BY <1>5 DEF ReadLoggedOut, At
  <2>2. CASE Doom(r)
    BY <2>1, <2>2, <1>1
  <2>3. CASE Reply(r, None) /\ UNCHANGED <<sessionVars, accountVars, jar>>
    <3>1. UNCHANGED <<password, active, openedBy, owner, revoked, expired>>
      BY <2>3 DEF sessionVars, accountVars
    <3> QED BY <2>1, <2>3, <3>1, SameSessions, AnswerPromisesNothing, QuietStep
  <2> QED BY <1>5, <2>2, <2>3 DEF ReadLoggedOut
<1>6. ASSUME ReadRevoked(r) PROVE LockedOut'
  <2>1. job[r].op = "revoke" /\ pc[r] = "session"
    BY <1>6 DEF ReadRevoked, At
  <2> QED BY <1>6, <2>1, <1>1, RefuseKeeps DEF ReadRevoked
<1>7. ASSUME ReadOwner(r) PROVE LockedOut'
  <2>1. job[r].op = "refresh" /\ pc[r] = "owner" /\ job[r].session \in SessionIds
    BY <1>0, <1>7 DEF ReadOwner, At, JobFits
  <2>2. job[r].session \notin expired
    BY <1>0, <2>1 DEF ReadingsHold, RotatesLive, Rotating
  <2>3. CASE Doom(r)
    BY <2>1, <2>2, <2>3, <1>1
  <2>4. CASE /\ Goto(r, "commit")
             /\ UNCHANGED <<sessionVars, accountVars, jar, job, seen, doomed, setCookie>>
    <3>1. pc'[r] = "commit" /\ job'[r] = job[r] /\ expired' = expired
      BY <2>4 DEF Goto, TypeInv, TypeOK, sessionVars
    <3>2. ReadingsHold(r)'
      BY <2>1, <2>2, <3>1 DEF ReadingsHold, LoginStands, EndsAll, RotatesLive, Rotating
    <3> QED BY <1>0, <2>1, <2>4, <3>2, GotoKeeps
  <2> QED BY <1>7, <2>3, <2>4 DEF ReadOwner
<1>8. CASE ReadAccount(r)
  BY <1>2, <1>8, RefuseKeeps DEF ReadAccount
<1> QED BY <1>3, <1>4, <1>5, <1>6, <1>7, <1>8

\* A session opens for an account no other request is deciding about.
LEMMA LoginKeeps ==
  ASSUME TypeInv, LockedOut, NEW r \in Requests, CommitLogin(r)
  PROVE  LockedOut'
<1> DEFINE a == job[r].account
<1>1. /\ At(r, "commit") /\ job[r].op = "login" /\ RevokeDoomed(r) /\ Rehash(r)
      /\ UNCHANGED <<expired, active>>
  BY DEF CommitLogin
<1>2. PICK s \in SessionIds : /\ owner[s] = None
                              /\ owner' = [owner EXCEPT ![s] = a]
                              /\ openedBy' = [openedBy EXCEPT ![s] = job[r].password]
                              /\ Reply(r, NewCookie(s))
  BY DEF CommitLogin
<1>3. a \in Accounts /\ password[a] = job[r].password /\ a \in active /\ Deciding(r, a)
  BY <1>1 DEF TypeInv, JobFits, LockedOut, ReadingsHold, LoginStands, At, AccountWide, Deciding
<1>4. \A b \in Accounts : password'[b] = password[b]
  BY <1>1, <1>3 DEF Rehash, TypeInv, TypeOK
<1>5. \A b \in Accounts : ActiveSessionsOf(b)' \subseteq ActiveSessionsOf(b) \cup
                                                 (IF b = a THEN {s} ELSE {})
  BY <1>1, <1>2 DEF ActiveSessionsOf, IsActiveSession, RevokeDoomed, TypeInv, TypeOK
<1>6. /\ ReadingsHold(r)' /\ job'[r] = job[r] /\ pc'[r] = "reply"
      /\ \A v \in Requests \ {r} : pc'[v] = pc[v] /\ job'[v] = job[v] /\ doomed'[v] = doomed[v]
  BY <1>2, AnswerPromisesNothing DEF Reply, Goto, TypeInv, TypeOK
<1> HIDE DEF a
<1>7. TakesTurns'
  BY <1>6 DEF LockedOut, TakesTurns, Deciding
<1>8. ASSUME NEW v \in Requests, v # r PROVE ReadingsHold(v)'
  <2>1. pc'[v] = pc[v] /\ job'[v] = job[v] /\ doomed'[v] = doomed[v] /\ ReadingsHold(v) /\ JobFits(v)
    BY <1>6, <1>8 DEF LockedOut, TypeInv
  <2>2. job[v].op \in {"login", "reset", "deactivate"} => job[v].account \in Accounts
    BY <2>1 DEF JobFits, AccountWide
  <2>3. LoginStands(v)' /\ RotatesLive(v)'
    BY <1>1, <1>4, <2>1, <2>2 DEF ReadingsHold, LoginStands, RotatesLive, Rotating
  <2>4. pc[v] = "commit" /\ job[v].op \in {"reset", "deactivate"} => job[v].account # a
    BY <1>3, <1>8 DEF LockedOut, TakesTurns, Deciding, AccountWide
  <2>5. EndsAll(v)'
    BY <1>5, <2>1, <2>2, <2>4 DEF ReadingsHold, EndsAll
  <2> QED BY <2>3, <2>5 DEF ReadingsHold
<1>9. OldPasswordLockedOut'
  <2> SUFFICES ASSUME NEW b \in Students, NEW t \in ActiveSessionsOf(b)'
               PROVE  openedBy'[t] = password'[b]
    BY DEF OldPasswordLockedOut
  <2>1. b \in Accounts /\ t \in SessionIds
    BY SessionsAssumption DEF ActiveSessionsOf
  <2>2. CASE t = s
    <3>1. b = a
      BY <1>2, <2>2 DEF ActiveSessionsOf, TypeInv, TypeOK
    <3> QED BY <1>2, <1>3, <1>4, <2>2, <3>1 DEF TypeInv, TypeOK
  <2>3. CASE t # s
    <3>1. t \in ActiveSessionsOf(b) /\ openedBy'[t] = openedBy[t]
      BY <1>2, <1>5, <2>1, <2>3 DEF TypeInv, TypeOK
    <3> QED BY <1>4, <2>1, <3>1 DEF LockedOut, OldPasswordLockedOut
  <2> QED BY <2>2, <2>3
<1>10. InactiveHasNoSession'
  BY <1>1, <1>3, <1>5, SessionsAssumption DEF LockedOut, InactiveHasNoSession
<1> QED BY <1>6, <1>7, <1>8, <1>9, <1>10 DEF LockedOut

\* Revoking sessions makes no session active.
LEMMA RevokeShrinks ==
  ASSUME NEW r \in Requests, RevokeDoomed(r), UNCHANGED <<owner, expired>>
  PROVE  \A a \in Accounts : ActiveSessionsOf(a)' = ActiveSessionsOf(a) \ doomed[r]
BY DEF RevokeDoomed, ActiveSessionsOf, IsActiveSession

\* A reset or a (de)activation decides about an account of its own, and every
\* session of it that must end ends.
LEMMA AdminKeeps ==
  ASSUME TypeInv, LockedOut, NEW r \in Requests, CommitReset(r) \/ CommitActive(r)
  PROVE  LockedOut'
<1>1. /\ pc[r] = "commit" /\ job[r].op \in {"reset", "activate", "deactivate"}
      /\ RevokeDoomed(r) /\ Finish(r) /\ UNCHANGED <<owner, expired, openedBy>>
  BY DEF CommitReset, CommitActive, At
<1>2. PICK a \in Accounts : a = job[r].account /\ Deciding(r, a)
  BY <1>1 DEF TypeInv, JobFits, AccountWide, Deciding
<1>3. \A b \in Accounts : ActiveSessionsOf(b)' = ActiveSessionsOf(b) \ doomed[r]
  BY <1>1, RevokeShrinks
<1>4. \A b \in Accounts : b # a =>
        password'[b] = password[b] /\ (b \in active' <=> b \in active)
  BY <1>2 DEF CommitReset, CommitActive, TypeInv, TypeOK
<1>5. /\ ReadingsHold(r)' /\ job'[r] = NoJob
      /\ \A v \in Requests \ {r} : pc'[v] = pc[v] /\ job'[v] = job[v] /\ doomed'[v] = doomed[v]
  BY <1>1, OverPromisesNothing
<1>6. \/ ActiveSessionsOf(a)' = {}
      \/ a \notin Students /\ password' = password
      \/ job[r].op = "activate" /\ password' = password /\ active \subseteq active'
  <2>1. CASE job[r].op = "reset" \/ (job[r].op = "deactivate" /\ a \in Students)
    BY <1>1, <1>2, <1>3, <2>1 DEF LockedOut, ReadingsHold, EndsAll
  <2>2. CASE job[r].op = "deactivate" /\ a \notin Students
    BY <1>2, <2>2 DEF CommitReset, CommitActive
  <2>3. CASE job[r].op = "activate"
    BY <2>3 DEF CommitReset, CommitActive
  <2> QED BY <1>1, <1>2, <2>1, <2>2, <2>3
<1>7. TakesTurns'
  BY <1>5 DEF LockedOut, TakesTurns, Deciding, NoJob, AccountWide
<1>8. ASSUME NEW v \in Requests, v # r PROVE ReadingsHold(v)'
  <2>1. pc'[v] = pc[v] /\ job'[v] = job[v] /\ doomed'[v] = doomed[v] /\ ReadingsHold(v) /\ JobFits(v)
    BY <1>5, <1>8 DEF LockedOut, TypeInv
  <2>2. job[v].op \in {"login", "reset", "deactivate"} => job[v].account \in Accounts
    BY <2>1 DEF JobFits, AccountWide
  <2>3. job[v].op = "login" /\ pc[v] \in {"sessions", "commit"} => job[v].account # a
    BY <1>2, <1>8 DEF LockedOut, TakesTurns, Deciding, AccountWide
  <2>4. LoginStands(v)'
    BY <1>4, <2>1, <2>2, <2>3 DEF ReadingsHold, LoginStands
  <2>5. RotatesLive(v)'
    BY <1>1, <2>1 DEF ReadingsHold, RotatesLive, Rotating
  <2>6. EndsAll(v)'
    BY <1>3, <2>1, <2>2 DEF ReadingsHold, EndsAll
  <2> QED BY <2>4, <2>5, <2>6 DEF ReadingsHold
<1>9. OldPasswordLockedOut'
  BY <1>1, <1>3, <1>4, <1>6, SessionsAssumption DEF LockedOut, OldPasswordLockedOut
<1>10. InactiveHasNoSession'
  BY <1>3, <1>4, <1>6, SessionsAssumption DEF LockedOut, InactiveHasNoSession
<1> QED BY <1>5, <1>7, <1>8, <1>9, <1>10 DEF LockedOut

LEMMA CommitKeepsOut ==
  ASSUME TypeInv, LockedOut, NEW r \in Requests,
         \/ CommitLogin(r) \/ CommitRotation(r) \/ CommitRefusal(r)
         \/ CommitLogout(r) \/ CommitRevoke(r) \/ CommitReset(r) \/ CommitActive(r)
  PROVE  LockedOut'
<1>1. CASE CommitRotation(r)
  <2> DEFINE s == job[r].session
  <2>1. /\ pc[r] = "commit" /\ job[r].op = "refresh" /\ s \in SessionIds
        /\ expired' = expired \ {s} /\ Reply(r, NewCookie(s))
        /\ UNCHANGED <<owner, revoked, openedBy, password, active>>
    BY <1>1 DEF CommitRotation, At, TypeInv, JobFits, accountVars
  <2>2. expired' = expired
    BY <2>1 DEF LockedOut, ReadingsHold, RotatesLive, Rotating
  <2> QED BY <2>1, <2>2, SameSessions, AnswerPromisesNothing, QuietStep
<1>2. CASE CommitRefusal(r) \/ CommitRevoke(r)
  <2>1. /\ RevokeDoomed(r) /\ Finish(r)
        /\ UNCHANGED <<owner, expired, openedBy, password, active>>
    BY <1>2 DEF CommitRefusal, CommitRevoke, accountVars
  <2> QED BY <2>1, RevokeShrinks, OverPromisesNothing, QuietStep
<1>3. CASE CommitLogout(r)
  <2>1. /\ RevokeDoomed(r) /\ Reply(r, None) /\ pc[r] = "commit"
        /\ UNCHANGED <<owner, expired, openedBy, password, active>>
    BY <1>3 DEF CommitLogout, At, accountVars
  <2> QED BY <2>1, RevokeShrinks, AnswerPromisesNothing, QuietStep
<1> QED BY <1>1, <1>2, <1>3, LoginKeeps, AdminKeeps

LEMMA ExpireKeeps ==
  ASSUME TypeInv, LockedOut, ~Overlap, NEW t \in SessionIds, Expire(t)
  PROVE  LockedOut'
<1>1. /\ expired' = expired \cup {t} /\ ~\E r \in Requests : Rotating(r, t)
      /\ UNCHANGED <<owner, revoked, openedBy, password, active, pc, job, doomed>>
  BY DEF Expire, accountVars, requestVars
<1>2. \A a \in Accounts : ActiveSessionsOf(a)' \subseteq ActiveSessionsOf(a)
  BY <1>1 DEF ActiveSessionsOf, IsActiveSession
<1>3. TakesTurns'
  BY <1>1 DEF LockedOut, TakesTurns, Deciding
<1>4. ASSUME NEW v \in Requests PROVE ReadingsHold(v)'
  <2>1. ReadingsHold(v) /\ JobFits(v)
    BY DEF LockedOut, TypeInv
  <2>2. job[v].op \in {"reset", "deactivate"} => job[v].account \in Accounts
    BY <2>1 DEF JobFits, AccountWide
  <2>3. LoginStands(v)' /\ RotatesLive(v)'
    BY <1>1, <2>1 DEF ReadingsHold, LoginStands, RotatesLive, Rotating
  <2>4. EndsAll(v)'
    BY <1>1, <1>2, <2>1, <2>2 DEF ReadingsHold, EndsAll
  <2> QED BY <2>3, <2>4 DEF ReadingsHold
<1>5. OldPasswordLockedOut' /\ InactiveHasNoSession'
  BY <1>1, <1>2, SessionsAssumption DEF LockedOut, OldPasswordLockedOut, InactiveHasNoSession
<1> QED BY <1>3, <1>4, <1>5 DEF LockedOut

LEMMA InitLockedOut == Init => LockedOut
BY DEF Init, LockedOut, TakesTurns, Deciding, NoJob, AccountWide, ReadingsHold, LoginStands,
       EndsAll, RotatesLive, Rotating, OldPasswordLockedOut, InactiveHasNoSession,
       ActiveSessionsOf, IsActiveSession

LEMMA StepLockedOut ==
  ASSUME TypeInv, ~Overlap => LockedOut, [Next]_vars
  PROVE  ~Overlap => LockedOut'
<1> SUFFICES ASSUME ~Overlap, LockedOut PROVE LockedOut'
  OBVIOUS
<1>1. ASSUME NEW r \in Requests, Deliver(r) PROVE LockedOut'
  <2>1. Finish(r) /\ UNCHANGED <<password, active, openedBy, owner, revoked, expired>>
    BY <1>1 DEF Deliver, sessionVars, accountVars
  <2> QED BY <2>1, SameSessions, OverPromisesNothing, QuietStep
<1>2. ASSUME NEW r \in Requests, LoseAnswer(r) \/ Disconnect(r) PROVE LockedOut'
  BY <1>2, RefuseKeeps DEF LoseAnswer, Disconnect
<1>3. CASE UNCHANGED vars
  BY <1>3 DEF vars, sessionVars, accountVars, requestVars, LockedOut, TakesTurns, Deciding,
              ReadingsHold, LoginStands, EndsAll, RotatesLive, Rotating, OldPasswordLockedOut,
              InactiveHasNoSession, ActiveSessionsOf, IsActiveSession
<1> QED BY <1>1, <1>2, <1>3, ArriveKeeps, ReadKeeps, CommitKeepsOut, ExpireKeeps DEF Next, Work

\* The inductive invariant of the lock-out (services/students.py).
THEOREM LockedOutHolds == Spec => [](~Overlap => LockedOut)
<1>1. Init => (~Overlap => LockedOut)
  BY InitLockedOut
<1>2. TypeInv /\ (~Overlap => LockedOut) /\ [Next]_vars => (~Overlap => LockedOut)'
  BY StepLockedOut
<1> QED BY <1>1, <1>2, TypesHold, PTL DEF Spec

\* set_password: after a reset no session opened with the old password is live,
\* provided the account's logins, resets and deactivations take turns.
THEOREM ResetLocksOut == Spec => [](~Overlap => OldPasswordLockedOut)
<1>1. (~Overlap => LockedOut) => (~Overlap => OldPasswordLockedOut)
  BY DEF LockedOut
<1> QED BY <1>1, LockedOutHolds, PTL

\* update_student: under the same proviso a deactivation leaves no session live,
\* and no refresh that was under way brings one back.
THEOREM DeactivationLocksOut == Spec => [](~Overlap => InactiveHasNoSession)
<1>1. (~Overlap => LockedOut) => (~Overlap => InactiveHasNoSession)
  BY DEF LockedOut
<1> QED BY <1>1, LockedOutHolds, PTL

-----------------------------------------------------------------------------
(* Which sessions are given up for a new one.                              *)

LEMMA SessionsAreFinite ==
  ASSUME NEW S \in SUBSET SessionIds
  PROVE  IsFiniteSet(S) /\ Cardinality(S) \in Nat
<1>1. 1 \in Int /\ MaxOpened \in Int
  BY SessionsAssumption
<1>2. IsFiniteSet(SessionIds)
  BY <1>1, FS_Interval DEF SessionIds
<1>3. IsFiniteSet(S)
  BY <1>2, FS_Subset
<1> QED BY <1>3, FS_CardinalityType

LEMMA SmallestSession ==
  ASSUME NEW S \in SUBSET SessionIds, S # {}
  PROVE  \E m \in S : \A t \in S : m <= t
<1>1. S \subseteq Nat
  BY SessionsAssumption DEF SessionIds
<1>2. PICK m \in S : \A t \in S : ~(<<t, m>> \in OpToRel(<, Nat))
  BY <1>1, NatLessThanWellFounded, WFMin
<1>3. \A t \in S : ~(t < m)
  BY <1>1, <1>2 DEF OpToRel
<1> QED BY <1>1, <1>3

\* create_session's slice keeps fewer than MaxSessions, and the newest ones.
LEMMA EvictionMakesRoom ==
  ASSUME NEW found \in SUBSET SessionIds
  PROVE  /\ Cardinality(found \ Evicted(found)) < MaxSessions
         /\ \A gone \in Evicted(found), kept \in found \ Evicted(found) : gone < kept
<1> DEFINE Newer(s) == {t \in found : t > s}
           kept == found \ Evicted(found)
<1>0. SessionIds \subseteq Nat
  BY SessionsAssumption DEF SessionIds
<1>1. /\ \A s \in found : s \in Evicted(found) <=> Cardinality(Newer(s)) >= MaxSessions - 1
      /\ kept \in SUBSET SessionIds /\ Evicted(found) \in SUBSET found
      /\ \A s \in found : Newer(s) \in SUBSET SessionIds
  BY DEF Evicted
<1>2. Cardinality(kept) < MaxSessions
  <2>1. CASE kept = {}
    <3>1. Cardinality(kept) = 0
      BY <2>1, FS_EmptySet
    <3> QED BY <3>1, SessionsAssumption
  <2>2. CASE kept # {}
    <3>1. PICK m \in kept : \A t \in kept : m <= t
      BY <1>1, <2>2, SmallestSession
    <3>2. kept \ {m} \subseteq Newer(m)
      <4> SUFFICES ASSUME NEW t \in kept, t # m PROVE t \in found /\ t > m
        OBVIOUS
      <4>1. t \in found /\ t \in Nat /\ m \in Nat /\ m <= t
        BY <1>0, <1>1, <3>1
      <4> QED BY <4>1
    <3>3. Cardinality(kept \ {m}) <= Cardinality(Newer(m))
      BY <1>1, <3>1, <3>2, SessionsAreFinite, FS_Subset
    <3>4. Cardinality(kept \ {m}) = Cardinality(kept) - 1
      BY <1>1, <3>1, SessionsAreFinite, FS_RemoveElement
    <3>5. Cardinality(Newer(m)) < MaxSessions - 1
      BY <1>1, <3>1, SessionsAreFinite, SessionsAssumption
    <3>6. /\ Cardinality(kept) \in Nat /\ Cardinality(Newer(m)) \in Nat
          /\ Cardinality(kept \ {m}) \in Nat
      BY <1>1, <3>1, SessionsAreFinite
    <3> QED BY <3>3, <3>4, <3>5, <3>6, SessionsAssumption
  <2> QED BY <2>1, <2>2
<1>3. ASSUME NEW g \in Evicted(found), NEW k \in kept PROVE g < k
  <2>1. SUFFICES ASSUME ~(g < k) PROVE FALSE
    OBVIOUS
  <2>2. Newer(g) \subseteq Newer(k)
    <3> SUFFICES ASSUME NEW t \in found, t > g PROVE t > k
      OBVIOUS
    <3>1. t \in Nat /\ g \in Nat /\ k \in Nat
      BY <1>0, <1>1, <1>3
    <3> QED BY <2>1, <3>1
  <2>3. Cardinality(Newer(g)) <= Cardinality(Newer(k))
    BY <1>1, <1>3, <2>2, SessionsAreFinite, FS_Subset
  <2>4. Cardinality(Newer(g)) >= MaxSessions - 1 /\ ~(Cardinality(Newer(k)) >= MaxSessions - 1)
    BY <1>1, <1>3
  <2>5. Cardinality(Newer(g)) \in Nat /\ Cardinality(Newer(k)) \in Nat
    BY <1>1, <1>3, SessionsAreFinite
  <2> QED BY <2>3, <2>4, <2>5, SessionsAssumption
<1> QED BY <1>2, <1>3

-----------------------------------------------------------------------------
(* The invariant: cookies name sessions that were opened, a request ends   *)
(* only sessions of its own account, a session that was not opened yet is  *)
(* neither revoked nor expired, and what a login gives up still makes room *)
(* when it commits.                                                        *)

DoomsOwn(r) ==
  /\ pc[r] = "idle" => doomed[r] = {}
  /\ \A s \in doomed[r] :
       /\ owner[s] # None
       /\ IF job[r].op \in {"refresh", "logout", "revoke"}
          THEN s = job[r].session ELSE owner[s] = job[r].account

MakesRoom(r) ==
  pc[r] = "commit" /\ job[r].op = "login" =>
    LET held == ActiveSessionsOf(job[r].account) IN
    /\ Cardinality(held \ doomed[r]) < MaxSessions
    /\ \A gone \in held \cap doomed[r], kept \in held \ doomed[r] : gone < kept

KnowsItsSessions(r) ==
  /\ setCookie[r] # None => owner[setCookie[r].session] # None
  /\ job[r].op \in {"refresh", "logout"} => owner[job[r].session] # None
  /\ DoomsOwn(r)
  /\ MakesRoom(r)

BookInv ==
  /\ \A r \in Requests : KnowsItsSessions(r)
  /\ \A b \in Browsers : jar[b] # None => owner[jar[b].session] # None
  /\ \A s \in SessionIds : owner[s] = None => s \notin revoked \cup expired

\* What r does leaves the others' knowledge good, unless it opens a session for
\* an account another request is opening one for.
LEMMA OthersKnow ==
  ASSUME TypeInv, BookInv, NEW r \in Requests, NEW v \in Requests, v # r,
         pc'[v] = pc[v], job'[v] = job[v], doomed'[v] = doomed[v], setCookie'[v] = setCookie[v],
         \A s \in SessionIds : owner[s] # None => owner'[s] = owner[s],
         pc[v] = "commit" /\ job[v].op = "login" =>
           ActiveSessionsOf(job[v].account)' \subseteq ActiveSessionsOf(job[v].account)
  PROVE  KnowsItsSessions(v)'
<1>1. KnowsItsSessions(v) /\ JobFits(v) /\ doomed[v] \in SUBSET SessionIds
      /\ setCookie[v] \in Cookies \cup {None}
  BY DEF BookInv, TypeInv, TypeOK
<1>2. setCookie[v] # None => setCookie[v].session \in SessionIds
  BY <1>1 DEF Cookies
<1>3. DoomsOwn(v)'
  BY <1>1 DEF KnowsItsSessions, DoomsOwn
<1>4. MakesRoom(v)'
  <2> SUFFICES ASSUME pc[v] = "commit", job[v].op = "login"
               PROVE  LET held == ActiveSessionsOf(job[v].account)' IN
                      /\ Cardinality(held \ doomed[v]) < MaxSessions
                      /\ \A gone \in held \cap doomed[v], kept \in held \ doomed[v] : gone < kept
    BY DEF MakesRoom
  <2> DEFINE held == ActiveSessionsOf(job[v].account)
             later == ActiveSessionsOf(job[v].account)'
  <2>1. later \subseteq held /\ held \in SUBSET SessionIds
    BY DEF ActiveSessionsOf
  <2>2. /\ Cardinality(held \ doomed[v]) < MaxSessions
        /\ \A gone \in held \cap doomed[v], kept \in held \ doomed[v] : gone < kept
    BY <1>1 DEF KnowsItsSessions, MakesRoom
  <2>3. (later \ doomed[v]) \in SUBSET (held \ doomed[v]) /\ (held \ doomed[v]) \in SUBSET SessionIds
        /\ (later \ doomed[v]) \in SUBSET SessionIds
    BY <2>1
  <2> HIDE DEF held, later
  <2>4. Cardinality(later \ doomed[v]) <= Cardinality(held \ doomed[v])
    BY <2>3, SessionsAreFinite, FS_Subset
  <2>5. Cardinality(later \ doomed[v]) \in Nat /\ Cardinality(held \ doomed[v]) \in Nat
    BY <2>3, SessionsAreFinite
  <2>6. Cardinality(later \ doomed[v]) < MaxSessions
    BY <2>2, <2>4, <2>5, SessionsAssumption
  <2>7. \A gone \in later \cap doomed[v], kept \in later \ doomed[v] : gone < kept
    BY <2>1, <2>2
  <2> QED BY <2>6, <2>7 DEF later
<1> QED BY <1>1, <1>2, <1>3, <1>4 DEF KnowsItsSessions, JobFits

\* A request that is over, or whose answer is on its way, has no plans left.
LEMMA OverKnows ==
  ASSUME TypeInv, NEW r \in Requests, Finish(r)
  PROVE  /\ KnowsItsSessions(r)'
         /\ \A v \in Requests \ {r} : /\ pc'[v] = pc[v] /\ job'[v] = job[v]
                                      /\ doomed'[v] = doomed[v] /\ setCookie'[v] = setCookie[v]
BY DEF Finish, Goto, TypeInv, TypeOK, NoJob, KnowsItsSessions, DoomsOwn, MakesRoom

LEMMA AnswerKnows ==
  ASSUME TypeInv, BookInv, NEW r \in Requests, NEW cookie, Reply(r, cookie),
         \A s \in SessionIds : owner[s] # None => owner'[s] = owner[s],
         cookie # None => owner'[cookie.session] # None
  PROVE  /\ KnowsItsSessions(r)'
         /\ \A v \in Requests \ {r} : /\ pc'[v] = pc[v] /\ job'[v] = job[v]
                                      /\ doomed'[v] = doomed[v] /\ setCookie'[v] = setCookie[v]
<1>1. /\ pc'[r] = "reply" /\ job'[r] = job[r] /\ doomed'[r] = doomed[r] /\ setCookie'[r] = cookie
      /\ KnowsItsSessions(r) /\ JobFits(r) /\ doomed[r] \in SUBSET SessionIds
  BY DEF Reply, Goto, TypeInv, TypeOK, BookInv
<1>2. DoomsOwn(r)' /\ MakesRoom(r)'
  BY <1>1 DEF KnowsItsSessions, DoomsOwn, MakesRoom
<1>3. job[r].op \in {"refresh", "logout"} => owner'[job[r].session] # None
  BY <1>1 DEF KnowsItsSessions, JobFits
<1> QED BY <1>1, <1>2, <1>3 DEF KnowsItsSessions, Reply, Goto, TypeInv, TypeOK

\* Steps that open no session and close some of those there are.
LEMMA ClosingKeepsBook ==
  ASSUME TypeInv, BookInv, NEW r \in Requests, KnowsItsSessions(r)',
         \A v \in Requests \ {r} : /\ pc'[v] = pc[v] /\ job'[v] = job[v]
                                   /\ doomed'[v] = doomed[v] /\ setCookie'[v] = setCookie[v],
         UNCHANGED owner, expired' \subseteq expired,
         \A s \in revoked' : s \in revoked \/ s \in doomed[r],
         \A a \in Accounts : ActiveSessionsOf(a)' \subseteq ActiveSessionsOf(a),
         \A b \in Browsers : jar'[b] # None => owner[jar'[b].session] # None
  PROVE  BookInv'
<1>1. ASSUME NEW v \in Requests, v # r PROVE KnowsItsSessions(v)'
  <2>1. job[v].op = "login" => job[v].account \in Accounts
    BY DEF TypeInv, JobFits, AccountWide
  <2> QED BY <1>1, <2>1, OthersKnow
<1>2. ASSUME NEW s \in SessionIds, owner'[s] = None PROVE s \notin revoked' \cup expired'
  BY <1>2 DEF BookInv, KnowsItsSessions, DoomsOwn
<1> QED BY <1>1, <1>2 DEF BookInv

LEMMA SendKeepsBook ==
  ASSUME TypeInv, BookInv, NEW r \in Requests, NEW label \in {"account", "session"},
         NEW request, Send(r, label, request), At(r, "idle"),
         request.op \in {"refresh", "logout"} => owner[request.session] # None
  PROVE  BookInv'
<1>1. /\ pc'[r] = label /\ job'[r] = request
      /\ UNCHANGED <<owner, revoked, expired, jar, doomed, setCookie>>
      /\ \A v \in Requests \ {r} : pc'[v] = pc[v] /\ job'[v] = job[v]
  BY DEF Send, Goto, TypeInv, TypeOK, sessionVars
<1>2. KnowsItsSessions(r)'
  BY <1>1 DEF BookInv, KnowsItsSessions, DoomsOwn, MakesRoom, At
<1>3. \A b \in Browsers : jar'[b] # None => owner[jar'[b].session] # None
  BY <1>1 DEF BookInv
<1> QED BY <1>1, <1>2, <1>3, SameSessions, ClosingKeepsBook

LEMMA ArriveKeepsBook ==
  ASSUME TypeInv, BookInv, NEW r \in Requests, Arrive(r)
  PROVE  BookInv'
<1>1. ASSUME NEW b \in Browsers, NEW op \in {"refresh", "logout"}, jar[b] # None, At(r, "idle"),
             Send(r, "session", [NoJob EXCEPT !.op = op, !.browser = b,
                                  !.session = jar[b].session, !.secret = jar[b].secret])
      PROVE  BookInv'
  <2> DEFINE request == [NoJob EXCEPT !.op = op, !.browser = b,
                                  !.session = jar[b].session, !.secret = jar[b].secret]
  <2>1. request.session = jar[b].session /\ owner[jar[b].session] # None
    BY <1>1 DEF NoJob, BookInv
  <2>2. Send(r, "session", request)
    BY <1>1
  <2> HIDE DEF request
  <2> QED BY <1>1, <2>1, <2>2, SendKeepsBook
<1>2. ASSUME NEW request, Send(r, "account", request), At(r, "idle"),
             request.op \notin {"refresh", "logout"}
      PROVE  BookInv'
  BY <1>2, SendKeepsBook
<1>3. ASSUME NEW b \in Browsers, NEW a \in Accounts, NEW p \in Passwords, SendLogin(r, b, a, p)
      PROVE  BookInv'
  <2> DEFINE request == [NoJob EXCEPT !.op = "login", !.browser = b, !.account = a, !.password = p]
  <2>1. request.op \notin {"refresh", "logout"}
    BY DEF NoJob
  <2>2. Send(r, "account", request) /\ At(r, "idle")
    BY <1>3 DEF SendLogin, MaySend
  <2> HIDE DEF request
  <2> QED BY <1>2, <2>1, <2>2
<1>4. ASSUME NEW b \in Browsers, SendLogoutAll(r, b) PROVE BookInv'
  <2> DEFINE request == [NoJob EXCEPT !.op = "logoutAll", !.browser = b, !.account = StaffIn(b)]
  <2>1. request.op \notin {"refresh", "logout"}
    BY DEF NoJob
  <2>2. Send(r, "account", request) /\ At(r, "idle")
    BY <1>4 DEF SendLogoutAll, MaySend
  <2> HIDE DEF request
  <2> QED BY <1>2, <2>1, <2>2
<1>5. ASSUME NEW b \in Browsers, NEW s \in SessionIds, SendRevoke(r, b, s) PROVE BookInv'
  <2> DEFINE request == [NoJob EXCEPT !.op = "revoke", !.browser = b, !.account = StaffIn(b),
                                      !.session = s]
  <2>1. request.op \notin {"refresh", "logout"}
    BY DEF NoJob
  <2>2. Send(r, "account", request) /\ At(r, "idle")
    BY <1>5 DEF SendRevoke, MaySend
  <2> HIDE DEF request
  <2> QED BY <1>2, <2>1, <2>2
<1>6. ASSUME NEW a \in Accounts, NEW p \in Passwords, SendReset(r, a, p) PROVE BookInv'
  <2> DEFINE request == [NoJob EXCEPT !.op = "reset", !.account = a, !.password = p]
  <2>1. request.op \notin {"refresh", "logout"}
    BY DEF NoJob
  <2>2. Send(r, "account", request) /\ At(r, "idle")
    BY <1>6 DEF SendReset, MaySend
  <2> HIDE DEF request
  <2> QED BY <1>2, <2>1, <2>2
<1>7. ASSUME NEW a \in Accounts, NEW op \in Ops, SendActive(r, a, op) PROVE BookInv'
  <2> DEFINE request == [NoJob EXCEPT !.op = op, !.account = a]
  <2>1. request.op = op
    BY DEF NoJob
  <2>2. Send(r, "account", request) /\ At(r, "idle") /\ op \in {"activate", "deactivate"}
    BY <1>7 DEF SendActive, MaySend
  <2> HIDE DEF request
  <2> QED BY <1>2, <2>1, <2>2
<1>8. ASSUME NEW b \in Browsers, SendRefresh(r, b) \/ SendLogout(r, b) PROVE BookInv'
  BY <1>1, <1>8 DEF SendRefresh, SendLogout, MaySend
<1> QED BY <1>3, <1>4, <1>5, <1>6, <1>7, <1>8 DEF Arrive

LEMMA RefuseKeepsBook ==
  ASSUME TypeInv, BookInv, NEW r \in Requests, Refuse(r)
  PROVE  BookInv'
<1>1. Finish(r) /\ UNCHANGED <<owner, revoked, expired, jar>>
  BY DEF Refuse, sessionVars
<1>2. \A b \in Browsers : jar'[b] # None => owner[jar'[b].session] # None
  BY <1>1 DEF BookInv
<1> QED BY <1>1, <1>2, SameSessions, OverKnows, ClosingKeepsBook

LEMMA GotoKeepsBook ==
  ASSUME TypeInv, BookInv, NEW r \in Requests, NEW label, Goto(r, label), label # "idle",
         NEW d, doomed' = [doomed EXCEPT ![r] = d],
         UNCHANGED <<sessionVars, accountVars, jar, job, setCookie>>,
         \A s \in d : /\ owner[s] # None
                      /\ IF job[r].op \in {"refresh", "logout", "revoke"}
                         THEN s = job[r].session ELSE owner[s] = job[r].account,
         MakesRoom(r)'
  PROVE  BookInv'
<1>1. /\ pc'[r] = label /\ doomed'[r] = d
      /\ UNCHANGED <<owner, revoked, expired, jar, job, setCookie>>
      /\ \A v \in Requests \ {r} : pc'[v] = pc[v] /\ doomed'[v] = doomed[v]
  BY DEF Goto, TypeInv, TypeOK, sessionVars
<1>2. KnowsItsSessions(r)'
  BY <1>1 DEF BookInv, KnowsItsSessions, DoomsOwn
<1>3. \A b \in Browsers : jar'[b] # None => owner[jar'[b].session] # None
  BY <1>1 DEF BookInv
<1> QED BY <1>1, <1>2, <1>3, SameSessions, ClosingKeepsBook

LEMMA ReadKeepsBook ==
  ASSUME TypeInv, BookInv, NEW r \in Requests,
         \/ ReadAccount(r) \/ ReadSessions(r) \/ ReadOwner(r)
         \/ ReadRefreshed(r) \/ ReadLoggedOut(r) \/ ReadRevoked(r)
  PROVE  BookInv'
<1>0. /\ JobFits(r) /\ doomed = [doomed EXCEPT ![r] = doomed[r]] /\ KnowsItsSessions(r)
      /\ \A s \in doomed[r] : /\ owner[s] # None
                              /\ IF job[r].op \in {"refresh", "logout", "revoke"}
                                 THEN s = job[r].session ELSE owner[s] = job[r].account
  BY DEF TypeInv, TypeOK, BookInv, KnowsItsSessions, DoomsOwn
<1>1. ASSUME Doom(r), job[r].op \in {"refresh", "logout", "revoke"},
             owner[job[r].session] # None
      PROVE  BookInv'
  <2>1. /\ Goto(r, "commit") /\ doomed' = [doomed EXCEPT ![r] = {job[r].session}]
        /\ UNCHANGED <<sessionVars, accountVars, jar, job, setCookie>>
    BY <1>1 DEF Doom
  <2>2. MakesRoom(r)'
    BY <1>1, <2>1 DEF MakesRoom
  <2> DEFINE d == {job[r].session}
  <2>3. \A s \in d : /\ owner[s] # None
                    /\ IF job[r].op \in {"refresh", "logout", "revoke"}
                       THEN s = job[r].session ELSE owner[s] = job[r].account
    BY <1>1
  <2>4. doomed' = [doomed EXCEPT ![r] = d]
    BY <2>1
  <2> HIDE DEF d
  <2> QED BY <2>1, <2>2, <2>3, <2>4, GotoKeepsBook
<1>2. ASSUME NEW label, Goto(r, label), label # "idle", job[r].op = "login" => label # "commit",
             UNCHANGED <<sessionVars, accountVars, jar, job, doomed, setCookie>>
      PROVE  BookInv'
  <2>1. pc'[r] = label
    BY <1>2 DEF Goto, TypeInv, TypeOK
  <2>2. MakesRoom(r)'
    BY <1>2, <2>1 DEF MakesRoom
  <2> QED BY <1>0, <1>2, <2>2, GotoKeepsBook
<1>3. CASE ReadAccount(r)
  <2>1. AfterAccount(r) # "idle" /\ (job[r].op = "login" => AfterAccount(r) # "commit")
    BY DEF AfterAccount
  <2> QED BY <1>2, <1>3, <2>1, RefuseKeepsBook DEF ReadAccount
<1>4. CASE ReadSessions(r)
  <2> DEFINE found == ActiveSessionsOf(job[r].account)
             d == IF job[r].op = "login" THEN Evicted(found) ELSE found
  <2>1. /\ Goto(r, "commit") /\ pc[r] = "sessions" /\ doomed' = [doomed EXCEPT ![r] = d]
        /\ UNCHANGED <<sessionVars, accountVars, jar, job, setCookie>>
    BY <1>4 DEF ReadSessions, At
  <2>2. pc'[r] = "commit" /\ job'[r] = job[r] /\ doomed'[r] = d /\ UNCHANGED <<owner, revoked, expired>>
    BY <2>1 DEF Goto, TypeInv, TypeOK, sessionVars
  <2>3. job[r].op \in {"login", "logoutAll", "reset", "deactivate"} /\ job[r].account \in Accounts
    BY <1>0, <2>1 DEF JobFits, AccountWide
  <2>4. found \in SUBSET SessionIds /\ ActiveSessionsOf(job[r].account)' = found
    BY <2>2, <2>3, SameSessions DEF ActiveSessionsOf
  <2>5. \A s \in d : owner[s] # None /\ owner[s] = job[r].account
    BY <2>3, SessionsAssumption DEF ActiveSessionsOf, Evicted
  <2>6. MakesRoom(r)'
    <3>1. job[r].op = "login" => d = Evicted(found)
      OBVIOUS
    <3>2. Evicted(found) \in SUBSET found
      BY DEF Evicted
    <3> HIDE DEF found, d
    <3>3. found \cap Evicted(found) = Evicted(found)
      BY <3>2
    <3> QED BY <2>2, <2>4, <3>1, <3>3, EvictionMakesRoom DEF MakesRoom
  <2> HIDE DEF d
  <2> QED BY <2>1, <2>3, <2>5, <2>6, GotoKeepsBook
<1>5. CASE ReadRefreshed(r)
  BY <1>0, <1>1, <1>2, <1>5, RefuseKeepsBook DEF ReadRefreshed, KnowsItsSessions
<1>6. CASE ReadLoggedOut(r)
  <2>1. job[r].op = "logout" /\ owner[job[r].session] # None
    BY <1>0, <1>6 DEF ReadLoggedOut, KnowsItsSessions
  <2>2. CASE Reply(r, None) /\ UNCHANGED <<sessionVars, accountVars, jar>>
    <3>1. UNCHANGED <<owner, revoked, expired, jar>>
      BY <2>2 DEF sessionVars
    <3>2. \A b \in Browsers : jar'[b] # None => owner[jar'[b].session] # None
      BY <3>1 DEF BookInv
    <3> QED BY <2>2, <3>1, <3>2, SameSessions, AnswerKnows, ClosingKeepsBook
  <2> QED BY <1>1, <1>6, <2>1, <2>2 DEF ReadLoggedOut
<1>7. CASE ReadRevoked(r)
  BY <1>1, <1>7, RefuseKeepsBook DEF ReadRevoked, IsActiveSession
<1>8. CASE ReadOwner(r)
  <2>1. job[r].op = "refresh" /\ owner[job[r].session] # None
    BY <1>0, <1>8 DEF ReadOwner, At, JobFits, KnowsItsSessions
  <2> QED BY <1>1, <1>2, <1>8, <2>1 DEF ReadOwner
<1> QED BY <1>3, <1>4, <1>5, <1>6, <1>7, <1>8

-----------------------------------------------------------------------------
(* The commits, as steps of the register.                                  *)

Live == {s \in SessionIds : IsActiveSession(s)}

\* The register counts as the requests do.
LEMMA SameCardinality == \A S : Book!Cardinality(S) = Cardinality(S)
BY DEF Cardinality, Book!Cardinality

LEMMA CommitLoginIsOpen ==
  ASSUME TypeInv, LockedOut, BookInv, NEW r \in Requests, CommitLogin(r)
  PROVE  BookInv' /\ Book!BookNext
<1>1. /\ pc[r] = "commit" /\ job[r].op = "login" /\ RevokeDoomed(r) /\ UNCHANGED <<expired, jar>>
      /\ KnowsItsSessions(r) /\ doomed[r] \in SUBSET SessionIds
  BY DEF CommitLogin, At, BookInv, TypeInv, TypeOK
<1>2. PICK s \in SessionIds : /\ owner[s] = None
                              /\ \A t \in SessionIds : t < s => owner[t] # None
                              /\ owner' = [owner EXCEPT ![s] = job[r].account]
                              /\ secret' = [secret EXCEPT ![s] = 1]
                              /\ Reply(r, NewCookie(s))
  BY DEF CommitLogin
<1>3. PICK a \in Accounts : a = job[r].account /\ Deciding(r, a) /\ a # None
  BY <1>1, SessionsAssumption DEF TypeInv, JobFits, AccountWide, Deciding
<1>4. /\ owner'[s] = a /\ \A t \in SessionIds : t # s => owner'[t] = owner[t]
      /\ s \notin doomed[r] /\ s \notin revoked \cup expired
  BY <1>1, <1>2, <1>3 DEF TypeInv, TypeOK, BookInv, KnowsItsSessions, DoomsOwn
<1>5. /\ \A b \in Accounts : b # a => ActiveSessionsOf(b)' \subseteq ActiveSessionsOf(b)
      /\ Live' = (Live \ (ActiveSessionsOf(a) \cap doomed[r])) \cup {s}
  <2>1. ASSUME NEW t \in SessionIds, t # s
        PROVE  t \in Live' <=> t \in Live /\ t \notin ActiveSessionsOf(a) \cap doomed[r]
    <3>1. t \in doomed[r] => owner[t] = a
      BY <1>1, <1>3 DEF KnowsItsSessions, DoomsOwn
    <3> QED BY <1>1, <1>4, <2>1, <3>1 DEF Live, IsActiveSession, ActiveSessionsOf, RevokeDoomed
  <2>2. s \in Live'
    BY <1>1, <1>3, <1>4 DEF Live, IsActiveSession, RevokeDoomed
  <2>3. \A b \in Accounts : b # a => ActiveSessionsOf(b)' \subseteq ActiveSessionsOf(b)
    BY <1>1, <1>4 DEF IsActiveSession, ActiveSessionsOf, RevokeDoomed
  <2>4. Live \subseteq SessionIds /\ Live' \subseteq SessionIds
    BY DEF Live
  <2> QED BY <2>1, <2>2, <2>3, <2>4
<1>6. /\ KnowsItsSessions(r)'
      /\ \A v \in Requests \ {r} : /\ pc'[v] = pc[v] /\ job'[v] = job[v]
                                   /\ doomed'[v] = doomed[v] /\ setCookie'[v] = setCookie[v]
  <2>1. NewCookie(s) # None => owner'[NewCookie(s).session] # None
    BY <1>3, <1>4 DEF NewCookie
  <2>2. \A t \in SessionIds : owner[t] # None => owner'[t] = owner[t]
    BY <1>2, <1>4
  <2> QED BY <1>2, <2>1, <2>2, AnswerKnows
<1>7. BookInv'
  <2>1. ASSUME NEW v \in Requests, v # r PROVE KnowsItsSessions(v)'
    <3>1. pc[v] = "commit" /\ job[v].op = "login" => job[v].account \in Accounts \ {a}
      BY <1>3, <2>1 DEF LockedOut, TakesTurns, Deciding, AccountWide, TypeInv, JobFits
    <3> QED BY <1>2, <1>4, <1>5, <1>6, <2>1, <3>1, OthersKnow
  <2>2. ASSUME NEW b \in Browsers, jar'[b] # None PROVE owner'[jar'[b].session] # None
    BY <1>1, <1>3, <1>4, <2>2 DEF BookInv, TypeInv, TypeOK, Cookies
  <2>3. ASSUME NEW t \in SessionIds, owner'[t] = None PROVE t \notin revoked' \cup expired'
    BY <1>1, <1>3, <1>4, <2>3 DEF BookInv, RevokeDoomed, KnowsItsSessions, DoomsOwn
  <2> QED BY <1>6, <2>1, <2>2, <2>3 DEF BookInv
<1>8. Book!Open(a)
  <2> DEFINE gone == ActiveSessionsOf(a) \cap doomed[r]
  <2>1. Book!LiveOf(a) = ActiveSessionsOf(a)
    BY DEF Book!LiveOf, ActiveSessionsOf
  <2>2. gone \in SUBSET Book!LiveOf(a) /\ Book!LiveOf(a) \ gone = ActiveSessionsOf(a) \ doomed[r]
    BY <2>1
  <2>3. /\ \A t \in gone, kept \in Book!LiveOf(a) \ gone : t < kept
        /\ Book!Cardinality(Book!LiveOf(a) \ gone) < MaxSessions
    BY <1>1, <1>3, <2>2, SameCardinality DEF KnowsItsSessions, MakesRoom
  <2>4. owner' = [owner EXCEPT ![s] = a]
    BY <1>2, <1>3
  <2>5. Live' = (Live \ gone) \cup {s}
    BY <1>5
  <2> HIDE DEF gone
  <2> QED BY <1>2, <2>2, <2>3, <2>4, <2>5 DEF Book!Open, Live
<1> QED BY <1>7, <1>8 DEF Book!BookNext

\* Closing sessions of one account is a step of the register or none.
LEMMA ClosingIsClose ==
  ASSUME NEW a \in Accounts, UNCHANGED owner, Live' \subseteq Live,
         \A s \in Live \ Live' : owner[s] = a
  PROVE  Book!BookNext
<1> DEFINE gone == Live \ Live'
<1>1. gone \in SUBSET Book!LiveOf(a) /\ Live' = Live \ gone
  BY DEF Book!LiveOf, Live
<1> HIDE DEF gone
<1> QED BY <1>1 DEF Book!BookNext, Book!Close, Live

LEMMA RevokingIsClose ==
  ASSUME TypeInv, BookInv, NEW r \in Requests, RevokeDoomed(r), UNCHANGED <<owner, expired>>
  PROVE  Book!BookNext \/ UNCHANGED <<owner, Live>>
<1>1. /\ DoomsOwn(r) /\ doomed[r] \in SUBSET SessionIds /\ owner \in [SessionIds -> Accounts \cup {None}]
      /\ JobFits(r)
  BY DEF BookInv, KnowsItsSessions, TypeInv, TypeOK
<1>2. Live' = Live \ doomed[r]
  BY DEF RevokeDoomed, Live, IsActiveSession
<1>3. CASE doomed[r] = {}
  BY <1>2, <1>3
<1>4. CASE doomed[r] # {}
  <2>1. PICK s \in doomed[r] : TRUE
    BY <1>4
  <2>2. owner[s] \in Accounts /\ \A t \in doomed[r] : owner[t] = owner[s]
    BY <1>1, <2>1 DEF DoomsOwn
  <2> QED BY <1>2, <2>2, ClosingIsClose
<1> QED BY <1>3, <1>4

LEMMA CommitIsBookStep ==
  ASSUME TypeInv, LockedOut, BookInv, NEW r \in Requests,
         \/ CommitLogin(r) \/ CommitRotation(r) \/ CommitRefusal(r)
         \/ CommitLogout(r) \/ CommitRevoke(r) \/ CommitReset(r) \/ CommitActive(r)
  PROVE  BookInv' /\ (Book!BookNext \/ UNCHANGED <<owner, Live>>)
<1>1. ASSUME RevokeDoomed(r), UNCHANGED <<owner, expired, jar>>, Finish(r) \/ Reply(r, None)
      PROVE  BookInv' /\ (Book!BookNext \/ UNCHANGED <<owner, Live>>)
  <2>1. /\ KnowsItsSessions(r)'
        /\ \A v \in Requests \ {r} : /\ pc'[v] = pc[v] /\ job'[v] = job[v]
                                     /\ doomed'[v] = doomed[v] /\ setCookie'[v] = setCookie[v]
    BY <1>1, OverKnows, AnswerKnows
  <2>2. \A b \in Browsers : jar'[b] # None => owner[jar'[b].session] # None
    BY <1>1 DEF BookInv
  <2>3. \A s \in revoked' : s \in revoked \/ s \in doomed[r]
    BY <1>1 DEF RevokeDoomed
  <2>4. BookInv'
    BY <1>1, <2>1, <2>2, <2>3, RevokeShrinks, ClosingKeepsBook
  <2> QED BY <1>1, <2>4, RevokingIsClose
<1>2. CASE CommitRotation(r)
  <2> DEFINE s == job[r].session
  <2>1. /\ pc[r] = "commit" /\ job[r].op = "refresh" /\ s \in SessionIds
        /\ expired' = expired \ {s} /\ Reply(r, NewCookie(s))
        /\ UNCHANGED <<owner, revoked, jar>> /\ owner[s] # None
    BY <1>2 DEF CommitRotation, At, TypeInv, JobFits, BookInv, KnowsItsSessions
  <2>2. expired' = expired
    BY <2>1 DEF LockedOut, ReadingsHold, RotatesLive, Rotating
  <2>3. NewCookie(s).session = s
    BY DEF NewCookie
  <2>4. /\ KnowsItsSessions(r)'
        /\ \A v \in Requests \ {r} : /\ pc'[v] = pc[v] /\ job'[v] = job[v]
                                     /\ doomed'[v] = doomed[v] /\ setCookie'[v] = setCookie[v]
    BY <2>1, <2>3, AnswerKnows
  <2>5. \A b \in Browsers : jar'[b] # None => owner[jar'[b].session] # None
    BY <2>1 DEF BookInv
  <2>6. BookInv'
    BY <2>1, <2>2, <2>4, <2>5, SameSessions, ClosingKeepsBook
  <2>7. UNCHANGED <<owner, Live>>
    BY <2>1, <2>2 DEF Live, IsActiveSession
  <2> QED BY <2>6, <2>7
<1>3. CASE CommitRefusal(r) \/ CommitLogout(r) \/ CommitRevoke(r) \/ CommitReset(r) \/ CommitActive(r)
  BY <1>1, <1>3 DEF CommitRefusal, CommitLogout, CommitRevoke, CommitReset, CommitActive
<1> QED BY <1>2, <1>3, CommitLoginIsOpen

LEMMA ExpireIsClose ==
  ASSUME TypeInv, BookInv, NEW t \in SessionIds, Expire(t)
  PROVE  BookInv' /\ Book!BookNext
<1>1. /\ owner[t] # None /\ expired' = expired \cup {t}
      /\ UNCHANGED <<owner, revoked, jar, pc, job, doomed, setCookie>>
  BY DEF Expire, requestVars
<1>2. \A a \in Accounts : ActiveSessionsOf(a)' \subseteq ActiveSessionsOf(a)
  BY <1>1 DEF ActiveSessionsOf, IsActiveSession
<1>3. owner[t] \in Accounts /\ Live' = Live \ {t}
  BY <1>1 DEF TypeInv, TypeOK, Live, IsActiveSession
<1>4. Book!BookNext
  BY <1>1, <1>3, ClosingIsClose
<1>5. ASSUME NEW v \in Requests PROVE KnowsItsSessions(v)'
  <2>1. KnowsItsSessions(v) /\ (job[v].op = "login" => job[v].account \in Accounts)
    BY DEF BookInv, TypeInv, JobFits, AccountWide
  <2>2. MakesRoom(v)'
    <3> SUFFICES ASSUME pc[v] = "commit", job[v].op = "login"
                 PROVE  LET held == ActiveSessionsOf(job[v].account)' IN
                        /\ Cardinality(held \ doomed[v]) < MaxSessions
                        /\ \A gone \in held \cap doomed[v], kept \in held \ doomed[v] : gone < kept
      BY <1>1 DEF MakesRoom
    <3> DEFINE held == ActiveSessionsOf(job[v].account)
    <3>1. PICK later \in SUBSET held : later = ActiveSessionsOf(job[v].account)'
      BY <1>1, <1>2, <2>1
    <3>2. /\ Cardinality(held \ doomed[v]) < MaxSessions
          /\ \A gone \in held \cap doomed[v], kept \in held \ doomed[v] : gone < kept
      BY <2>1 DEF KnowsItsSessions, MakesRoom
    <3>3. (held \ doomed[v]) \in SUBSET SessionIds
      BY DEF ActiveSessionsOf
    <3> HIDE DEF held
    <3>4. later \ doomed[v] \in SUBSET (held \ doomed[v]) /\ later \ doomed[v] \in SUBSET SessionIds
      BY <3>1, <3>3
    <3>5. Cardinality(later \ doomed[v]) <= Cardinality(held \ doomed[v])
          /\ Cardinality(later \ doomed[v]) \in Nat /\ Cardinality(held \ doomed[v]) \in Nat
      BY <3>3, <3>4, SessionsAreFinite, FS_Subset
    <3>6. Cardinality(later \ doomed[v]) < MaxSessions
      BY <3>2, <3>5, SessionsAssumption
    <3>7. \A gone \in later \cap doomed[v], kept \in later \ doomed[v] : gone < kept
      BY <3>1, <3>2
    <3> QED BY <3>1, <3>6, <3>7
  <2> QED BY <1>1, <2>1, <2>2 DEF KnowsItsSessions, DoomsOwn
<1>6. /\ \A b \in Browsers : jar'[b] # None => owner'[jar'[b].session] # None
      /\ \A s \in SessionIds : owner'[s] = None => s \notin revoked' \cup expired'
  BY <1>1 DEF BookInv
<1> QED BY <1>4, <1>5, <1>6 DEF BookInv

LEMMA InitBook == Init => BookInv /\ Book!BookInit
BY DEF Init, NoJob, BookInv, KnowsItsSessions, DoomsOwn, MakesRoom, Book!BookInit, IsActiveSession

LEMMA StepBook ==
  ASSUME TypeInv, ~Overlap => LockedOut /\ BookInv, [Next]_vars
  PROVE  ~Overlap => BookInv' /\ [Book!BookNext]_(Book!bookVars)
<1> SUFFICES ASSUME ~Overlap, LockedOut, BookInv
             PROVE  BookInv' /\ (Book!BookNext \/ UNCHANGED <<owner, Live>>)
  BY DEF Book!bookVars, Live
<1>1. ASSUME UNCHANGED <<owner, revoked, expired>> PROVE UNCHANGED <<owner, Live>>
  BY <1>1 DEF Live, IsActiveSession
<1>2. ASSUME NEW r \in Requests, Arrive(r) PROVE BookInv' /\ UNCHANGED <<owner, Live>>
  <2>1. UNCHANGED sessionVars
    BY <1>2 DEF Arrive, SendLogin, SendRefresh, SendLogout, SendLogoutAll, SendRevoke, SendReset,
                SendActive, Send
  <2> QED BY <1>1, <1>2, <2>1, ArriveKeepsBook DEF sessionVars
<1>3. ASSUME NEW r \in Requests,
             \/ ReadAccount(r) \/ ReadSessions(r) \/ ReadOwner(r)
             \/ ReadRefreshed(r) \/ ReadLoggedOut(r) \/ ReadRevoked(r)
      PROVE  BookInv' /\ UNCHANGED <<owner, Live>>
  <2>1. UNCHANGED sessionVars
    BY <1>3 DEF ReadAccount, ReadSessions, ReadOwner, ReadRefreshed, ReadLoggedOut, ReadRevoked,
                Doom, Refuse
  <2> QED BY <1>1, <1>3, <2>1, ReadKeepsBook DEF sessionVars
<1>4. ASSUME NEW r \in Requests, Deliver(r) PROVE BookInv' /\ UNCHANGED <<owner, Live>>
  <2>1. /\ Finish(r) /\ UNCHANGED <<owner, revoked, expired>>
        /\ jar' = [jar EXCEPT ![job[r].browser] = setCookie[r]]
    BY <1>4 DEF Deliver, sessionVars
  <2>2. \A b \in Browsers : jar'[b] # None => owner[jar'[b].session] # None
    BY <2>1 DEF BookInv, KnowsItsSessions, TypeInv, TypeOK
  <2> QED BY <1>1, <2>1, <2>2, SameSessions, OverKnows, ClosingKeepsBook
<1>5. ASSUME NEW r \in Requests, LoseAnswer(r) \/ Disconnect(r)
      PROVE  BookInv' /\ UNCHANGED <<owner, Live>>
  BY <1>1, <1>5, RefuseKeepsBook DEF LoseAnswer, Disconnect, Refuse, sessionVars
<1>6. CASE UNCHANGED vars
  BY <1>1, <1>6 DEF vars, sessionVars, accountVars, requestVars, BookInv, KnowsItsSessions,
                    DoomsOwn, MakesRoom, ActiveSessionsOf, IsActiveSession
<1> QED BY <1>2, <1>3, <1>4, <1>5, <1>6, CommitIsBookStep, ExpireIsClose DEF Next, Work

\* create_session, rotate_session and the revocations implement the register:
\* while the logins, resets and (de)activations of an account take turns, every
\* request acts on its sessions in one indivisible step, the cap holds, the
\* oldest sessions go first and what was closed stays closed.
THEOREM SessionsImplementBook == Spec => (~Overlap => BookSpec)
<1>1. Init => (~Overlap => BookInv)
  BY InitBook
<1>2. TypeInv /\ (~Overlap => LockedOut) /\ (~Overlap => BookInv) /\ [Next]_vars
        => (~Overlap => BookInv)'
  BY StepBook
<1>3. Spec => [](~Overlap => BookInv)
  BY <1>1, <1>2, TypesHold, LockedOutHolds, PTL DEF Spec
<1>4. SUFFICES ASSUME ~Overlap PROVE Spec => BookSpec
  OBVIOUS
<1>5. Init => Book!BookInit
  BY InitBook
<1>6. TypeInv /\ (~Overlap => LockedOut) /\ (~Overlap => BookInv) /\ [Next]_vars
        => [Book!BookNext]_(Book!bookVars)
  BY <1>4, StepBook
<1> QED BY <1>3, <1>5, <1>6, TypesHold, LockedOutHolds, PTL DEF Spec, BookSpec, Book!BookSpec

-----------------------------------------------------------------------------
(* Passwords.                                                              *)

\* The rehash of a login writes the password it verified, which is still the one
\* in force when it commits.
LEMMA StepKeepsPassword ==
  ASSUME TypeInv, LockedOut, [Next]_vars, NEW a \in Accounts, password'[a] # password[a]
  PROVE  \E r \in Requests : job[r].op = "reset" /\ job[r].account = a /\ At(r, "commit")
<1>1. ASSUME NEW r \in Requests, Arrive(r) PROVE FALSE
  BY <1>1 DEF Arrive, SendLogin, SendRefresh, SendLogout, SendLogoutAll, SendRevoke, SendReset,
              SendActive, Send, accountVars
<1>2. ASSUME NEW r \in Requests,
             \/ ReadAccount(r) \/ ReadSessions(r) \/ ReadOwner(r)
             \/ ReadRefreshed(r) \/ ReadLoggedOut(r) \/ ReadRevoked(r)
             \/ Deliver(r) \/ LoseAnswer(r) \/ Disconnect(r)
      PROVE  FALSE
  BY <1>2 DEF ReadAccount, ReadSessions, ReadOwner, ReadRefreshed, ReadLoggedOut, ReadRevoked,
              Deliver, LoseAnswer, Disconnect, Doom, Refuse, accountVars
<1>3. ASSUME NEW r \in Requests,
             \/ CommitRotation(r) \/ CommitRefusal(r) \/ CommitLogout(r)
             \/ CommitRevoke(r) \/ CommitActive(r)
      PROVE  FALSE
  BY <1>3 DEF CommitRotation, CommitRefusal, CommitLogout, CommitRevoke, CommitActive, accountVars
<1>4. ASSUME NEW r \in Requests, CommitLogin(r) PROVE FALSE
  <2>1. At(r, "commit") /\ job[r].op = "login" /\ Rehash(r)
    BY <1>4 DEF CommitLogin
  <2>2. password[job[r].account] = job[r].password /\ job[r].account \in Accounts
    BY <2>1 DEF LockedOut, ReadingsHold, LoginStands, At, TypeInv, JobFits, AccountWide
  <2> QED BY <2>1, <2>2 DEF Rehash, TypeInv, TypeOK
<1>5. ASSUME NEW r \in Requests, CommitReset(r)
      PROVE  job[r].op = "reset" /\ job[r].account = a /\ At(r, "commit")
  BY <1>5 DEF CommitReset, TypeInv, TypeOK
<1>6. ASSUME NEW t \in SessionIds, Expire(t) PROVE FALSE
  BY <1>6 DEF Expire, accountVars
<1> QED BY <1>1, <1>2, <1>3, <1>4, <1>5, <1>6 DEF Next, Work, vars, accountVars

\* authenticate's rehash never puts an old password back in force: if the account's
\* logins and resets take turns, only a reset changes a password
\* (services/auth.py authenticate, services/students.py set_password).
THEOREM OnlyResetsChangePasswords == Spec => (~Overlap => ResetSticks)
<1>1. SUFFICES ASSUME ~Overlap PROVE Spec => ResetSticks
  OBVIOUS
<1>2. TypeInv /\ (~Overlap => LockedOut) /\ [Next]_vars =>
        [\A a \in Accounts : password'[a] # password[a]
           => \E r \in Requests : job[r].op = "reset" /\ job[r].account = a /\ At(r, "commit")]_vars
  BY <1>1, StepKeepsPassword
<1> QED BY <1>2, TypesHold, LockedOutHolds, PTL DEF Spec, ResetSticks

-----------------------------------------------------------------------------
(* Eviction.  What a login gives up was chosen from the sessions it read;  *)
(* that they are still the oldest when it commits needs the sessions that  *)
(* opened since to be newer and none to have come back, which only the     *)
(* rotation of an expired session could do.                                *)

NoneExpireInFlight == ~Expiring \/ ~Overlap

OpenedInOrder == \A s, t \in SessionIds : t < s /\ owner[s] # None => owner[t] # None

GivesUpOldest(r) ==
  job[r].op = "login" /\ pc[r] = "commit" =>
    \A gone \in doomed[r] :
      /\ owner[gone] # None
      /\ \A kept \in ActiveSessionsOf(job[r].account) \ doomed[r] : gone < kept

EvictInv == OpenedInOrder /\ \A r \in Requests : GivesUpOldest(r) /\ RotatesLive(r)

\* A step of r that opens no session and brings none back.
LEMMA EvictionKept ==
  ASSUME TypeInv, EvictInv, NEW r \in Requests,
         \A v \in Requests \ {r} : pc'[v] = pc[v] /\ job'[v] = job[v] /\ doomed'[v] = doomed[v],
         UNCHANGED owner, expired' \subseteq expired,
         \A a \in Accounts : ActiveSessionsOf(a)' \subseteq ActiveSessionsOf(a),
         GivesUpOldest(r)', RotatesLive(r)'
  PROVE  EvictInv'
<1>1. OpenedInOrder'
  BY DEF EvictInv, OpenedInOrder
<1>2. ASSUME NEW v \in Requests, v # r PROVE GivesUpOldest(v)' /\ RotatesLive(v)'
  <2>1. /\ pc'[v] = pc[v] /\ job'[v] = job[v] /\ doomed'[v] = doomed[v]
        /\ GivesUpOldest(v) /\ RotatesLive(v) /\ JobFits(v)
    BY <1>2 DEF EvictInv, TypeInv
  <2>2. job[v].op = "login" => job[v].account \in Accounts
    BY <2>1 DEF JobFits, AccountWide
  <2>3. RotatesLive(v)'
    BY <2>1 DEF RotatesLive, Rotating
  <2> QED BY <2>1, <2>2, <2>3 DEF GivesUpOldest
<1> QED BY <1>1, <1>2 DEF EvictInv

\* A request that is over, or answered, has nothing left to give up.
LEMMA OverEvictsNothing ==
  ASSUME TypeInv, NEW r \in Requests, Finish(r) \/ (\E cookie : Reply(r, cookie))
  PROVE  /\ GivesUpOldest(r)' /\ RotatesLive(r)'
         /\ \A v \in Requests \ {r} : pc'[v] = pc[v] /\ job'[v] = job[v] /\ doomed'[v] = doomed[v]
<1>1. pc'[r] \in {"idle", "reply"}
      /\ \A v \in Requests \ {r} : pc'[v] = pc[v] /\ job'[v] = job[v] /\ doomed'[v] = doomed[v]
  BY DEF Finish, Reply, Goto, TypeInv, TypeOK
<1> QED BY <1>1 DEF GivesUpOldest, RotatesLive, Rotating

LEMMA RefuseEvicts ==
  ASSUME TypeInv, EvictInv, NEW r \in Requests, Refuse(r)
  PROVE  EvictInv'
<1>1. Finish(r) /\ UNCHANGED <<owner, revoked, expired>>
  BY DEF Refuse, sessionVars
<1> QED BY <1>1, SameSessions, OverEvictsNothing, EvictionKept

\* A request that arrives or goes on to a statement of its own.
LEMMA GotoEvicts ==
  ASSUME TypeInv, EvictInv, NEW r \in Requests, NEW label, Goto(r, label),
         NEW request, job' = [job EXCEPT ![r] = request],
         NEW d, doomed' = [doomed EXCEPT ![r] = d],
         UNCHANGED <<owner, revoked, expired>>,
         GivesUpOldest(r)', RotatesLive(r)'
  PROVE  EvictInv'
<1>1. \A v \in Requests \ {r} : pc'[v] = pc[v] /\ job'[v] = job[v] /\ doomed'[v] = doomed[v]
  BY DEF Goto, TypeInv, TypeOK
<1> QED BY <1>1, SameSessions, EvictionKept

LEMMA ArriveForms ==
  ASSUME NEW r \in Requests, Arrive(r)
  PROVE  At(r, "idle") /\ \E label \in {"account", "session"} : \E request : Send(r, label, request)
BY DEF Arrive, SendLogin, SendRefresh, SendLogout, SendLogoutAll, SendRevoke, SendReset,
       SendActive, MaySend

LEMMA ArriveEvicts ==
  ASSUME TypeInv, EvictInv, NEW r \in Requests, Arrive(r)
  PROVE  EvictInv'
<1>1. PICK label \in {"account", "session"} : \E request : Send(r, label, request)
  BY ArriveForms
<1>2. PICK request : Send(r, label, request)
  BY <1>1
<1>3. /\ Goto(r, label) /\ job' = [job EXCEPT ![r] = request]
      /\ doomed' = [doomed EXCEPT ![r] = doomed[r]]
      /\ UNCHANGED <<owner, revoked, expired>>
  BY <1>2 DEF Send, sessionVars, TypeInv, TypeOK
<1>4. pc'[r] = label
  BY <1>3 DEF Goto, TypeInv, TypeOK
<1>5. GivesUpOldest(r)' /\ RotatesLive(r)'
  BY <1>1, <1>4 DEF GivesUpOldest, RotatesLive, Rotating
<1> QED BY <1>3, <1>5, GotoEvicts

LEMMA ReadEvicts ==
  ASSUME TypeInv, EvictInv, NEW r \in Requests,
         \/ ReadAccount(r) \/ ReadSessions(r) \/ ReadOwner(r)
         \/ ReadRefreshed(r) \/ ReadLoggedOut(r) \/ ReadRevoked(r)
  PROVE  EvictInv'
<1>0. /\ JobFits(r) /\ RotatesLive(r) /\ doomed = [doomed EXCEPT ![r] = doomed[r]]
      /\ job = [job EXCEPT ![r] = job[r]]
  BY DEF TypeInv, TypeOK, EvictInv
<1>1. ASSUME NEW label, Goto(r, label), NEW d, doomed' = [doomed EXCEPT ![r] = d],
             UNCHANGED <<sessionVars, job>>, label = "commit" => job[r].op # "login",
             job[r].op = "refresh" => job[r].session \notin expired
      PROVE  EvictInv'
  <2>1. pc'[r] = label /\ job'[r] = job[r] /\ UNCHANGED <<owner, revoked, expired>>
    BY <1>1 DEF Goto, TypeInv, TypeOK, sessionVars
  <2>2. GivesUpOldest(r)' /\ RotatesLive(r)'
    BY <1>1, <2>1 DEF GivesUpOldest, RotatesLive, Rotating
  <2> QED BY <1>0, <1>1, <2>1, <2>2, GotoEvicts
<1>2. ASSUME Doom(r), job[r].op # "login", job[r].op = "refresh" => job[r].session \notin expired
      PROVE  EvictInv'
  BY <1>1, <1>2 DEF Doom
<1>3. CASE ReadAccount(r)
  <2>1. CASE Refuse(r)
    BY <2>1, RefuseEvicts
  <2>2. CASE Goto(r, AfterAccount(r)) /\ UNCHANGED <<sessionVars, job, doomed>>
    <3>1. AfterAccount(r) = "commit" => job[r].op # "login"
      BY DEF AfterAccount
    <3>2. job[r].op # "refresh"
      BY <1>0, <1>3 DEF ReadAccount, At, JobFits, AccountWide
    <3> QED BY <1>0, <1>1, <2>2, <3>1, <3>2
  <2> QED BY <1>3, <2>1, <2>2 DEF ReadAccount
<1>4. CASE ReadSessions(r)
  <2> DEFINE found == ActiveSessionsOf(job[r].account)
             d == IF job[r].op = "login" THEN Evicted(found) ELSE found
  <2>1. /\ Goto(r, "commit") /\ pc[r] = "sessions" /\ doomed' = [doomed EXCEPT ![r] = d]
        /\ UNCHANGED <<sessionVars, job>>
    BY <1>4 DEF ReadSessions, At
  <2>2. pc'[r] = "commit" /\ job'[r] = job[r] /\ doomed'[r] = d
        /\ UNCHANGED <<owner, revoked, expired>>
    BY <2>1 DEF Goto, TypeInv, TypeOK, sessionVars
  <2>3. job[r].op # "refresh" /\ job[r].account \in Accounts
    BY <1>0, <2>1 DEF JobFits, AccountWide
  <2>4. ActiveSessionsOf(job[r].account)' = found
    BY <2>2, <2>3, SameSessions
  <2>5. found \in SUBSET SessionIds /\ Evicted(found) \subseteq found
        /\ \A s \in found : owner[s] # None
    BY DEF ActiveSessionsOf, IsActiveSession, Evicted
  <2>6. \A gone \in Evicted(found), kept \in found \ Evicted(found) : gone < kept
    BY <2>5, EvictionMakesRoom
  <2> HIDE DEF found
  <2>7. GivesUpOldest(r)'
    BY <2>2, <2>4, <2>5, <2>6 DEF GivesUpOldest
  <2>8. RotatesLive(r)'
    BY <2>2, <2>3 DEF RotatesLive, Rotating
  <2> HIDE DEF d
  <2> QED BY <1>0, <2>1, <2>2, <2>7, <2>8, GotoEvicts
<1>5. CASE ReadRefreshed(r)
  <2>1. job[r].op = "refresh"
    BY <1>5 DEF ReadRefreshed
  <2>2. CASE Refuse(r)
    BY <2>2, RefuseEvicts
  <2>3. CASE IsActiveSession(job[r].session) /\ Doom(r)
    BY <1>2, <2>1, <2>3 DEF IsActiveSession
  <2>4. CASE /\ IsActiveSession(job[r].session) /\ Goto(r, "owner")
             /\ UNCHANGED <<sessionVars, job, doomed>>
    BY <1>0, <1>1, <2>1, <2>4 DEF IsActiveSession
  <2> QED BY <1>5, <2>2, <2>3, <2>4 DEF ReadRefreshed
<1>6. CASE ReadLoggedOut(r)
  <2>1. job[r].op = "logout"
    BY <1>6 DEF ReadLoggedOut
  <2>2. CASE Reply(r, None) /\ UNCHANGED sessionVars
    BY <2>2, SameSessions, OverEvictsNothing, EvictionKept DEF sessionVars
  <2> QED BY <1>2, <1>6, <2>1, <2>2 DEF ReadLoggedOut
<1>7. CASE ReadRevoked(r)
  BY <1>2, <1>7, RefuseEvicts DEF ReadRevoked
<1>8. CASE ReadOwner(r)
  <2>1. job[r].op = "refresh" /\ pc[r] = "owner" /\ job[r].session \in SessionIds
    BY <1>0, <1>8 DEF ReadOwner, At, JobFits
  <2>2. job[r].session \notin expired
    BY <1>0, <2>1 DEF RotatesLive, Rotating
  <2>3. CASE Goto(r, "commit") /\ UNCHANGED <<sessionVars, job, doomed>>
    BY <1>0, <1>1, <2>1, <2>2, <2>3
  <2> QED BY <1>2, <1>8, <2>1, <2>2, <2>3 DEF ReadOwner
<1> QED BY <1>3, <1>4, <1>5, <1>6, <1>7, <1>8

\* The session a login opens is newer than every one there is.
LEMMA LoginEvicts ==
  ASSUME TypeInv, EvictInv, NEW r \in Requests, CommitLogin(r)
  PROVE  EvictInv'
<1> DEFINE a == job[r].account
<1>1. PICK s \in SessionIds : /\ owner[s] = None
                              /\ \A t \in SessionIds : t < s => owner[t] # None
                              /\ owner' = [owner EXCEPT ![s] = a]
                              /\ Reply(r, NewCookie(s))
  BY DEF CommitLogin
<1>2. RevokeDoomed(r) /\ expired' = expired /\ a \in Accounts /\ None \notin Accounts
  BY SessionsAssumption DEF CommitLogin, TypeInv, JobFits, AccountWide
<1>3. /\ owner'[s] = a /\ \A t \in SessionIds \ {s} : owner'[t] = owner[t]
      /\ SessionIds \subseteq Nat
  BY <1>1, SessionsAssumption DEF TypeInv, TypeOK, SessionIds
<1>4. \A b \in Accounts : ActiveSessionsOf(b)' \subseteq ActiveSessionsOf(b) \cup {s}
  BY <1>2, <1>3 DEF ActiveSessionsOf, IsActiveSession, RevokeDoomed
<1>5. \A t \in SessionIds : owner[t] # None => t < s
  BY <1>1, <1>3 DEF EvictInv, OpenedInOrder
<1> HIDE DEF a
<1>6. OpenedInOrder'
  <2> SUFFICES ASSUME NEW u \in SessionIds, NEW t \in SessionIds, t < u, owner'[u] # None
               PROVE  owner'[t] # None
    BY DEF OpenedInOrder
  <2>1. CASE u = s
    BY <1>1, <1>2, <1>3, <2>1
  <2>2. CASE u # s
    BY <1>2, <1>3, <2>2 DEF EvictInv, OpenedInOrder
  <2> QED BY <2>1, <2>2
<1>7. /\ GivesUpOldest(r)' /\ RotatesLive(r)'
      /\ \A v \in Requests \ {r} : pc'[v] = pc[v] /\ job'[v] = job[v] /\ doomed'[v] = doomed[v]
  BY <1>1, OverEvictsNothing
<1>8. ASSUME NEW v \in Requests, v # r PROVE GivesUpOldest(v)' /\ RotatesLive(v)'
  <2>1. /\ pc'[v] = pc[v] /\ job'[v] = job[v] /\ doomed'[v] = doomed[v]
        /\ GivesUpOldest(v) /\ RotatesLive(v) /\ JobFits(v) /\ doomed[v] \in SUBSET SessionIds
    BY <1>7, <1>8 DEF EvictInv, TypeInv, TypeOK
  <2>2. RotatesLive(v)'
    BY <1>2, <2>1 DEF RotatesLive, Rotating
  <2>3. ASSUME job[v].op = "login", pc[v] = "commit", NEW gone \in doomed[v]
        PROVE  /\ owner'[gone] # None
               /\ \A kept \in ActiveSessionsOf(job[v].account)' \ doomed[v] : gone < kept
    <3>1. job[v].account \in Accounts /\ owner[gone] # None /\ gone \in SessionIds
          /\ \A kept \in ActiveSessionsOf(job[v].account) \ doomed[v] : gone < kept
      BY <2>1, <2>3 DEF GivesUpOldest, JobFits, AccountWide
    <3>2. owner'[gone] # None
      BY <1>1, <1>3, <3>1
    <3>3. ActiveSessionsOf(job[v].account)' \subseteq ActiveSessionsOf(job[v].account) \cup {s}
      BY <1>4, <2>1, <3>1
    <3>4. gone < s
      BY <1>5, <3>1
    <3> QED BY <3>1, <3>2, <3>3, <3>4
  <2>4. GivesUpOldest(v)'
    BY <2>1, <2>3 DEF GivesUpOldest
  <2> QED BY <2>2, <2>4
<1> QED BY <1>6, <1>7, <1>8 DEF EvictInv

LEMMA CommitEvicts ==
  ASSUME TypeInv, EvictInv, NEW r \in Requests,
         \/ CommitRotation(r) \/ CommitRefusal(r) \/ CommitLogout(r)
         \/ CommitRevoke(r) \/ CommitReset(r) \/ CommitActive(r)
  PROVE  EvictInv'
<1>1. CASE CommitRotation(r)
  <2> DEFINE s == job[r].session
  <2>1. /\ pc[r] = "commit" /\ job[r].op = "refresh" /\ s \in SessionIds
        /\ expired' = expired \ {s} /\ Reply(r, NewCookie(s)) /\ UNCHANGED <<owner, revoked>>
    BY <1>1 DEF CommitRotation, At, TypeInv, JobFits
  <2>2. expired' = expired
    BY <2>1 DEF EvictInv, RotatesLive, Rotating
  <2> QED BY <2>1, <2>2, SameSessions, OverEvictsNothing, EvictionKept
<1>2. CASE ~CommitRotation(r)
  <2>1. RevokeDoomed(r) /\ UNCHANGED <<owner, expired>> /\ (Finish(r) \/ Reply(r, None))
    BY <1>2 DEF CommitRefusal, CommitLogout, CommitRevoke, CommitReset, CommitActive
  <2> QED BY <2>1, RevokeShrinks, OverEvictsNothing, EvictionKept
<1> QED BY <1>1, <1>2

LEMMA InitEvictInv == Init => EvictInv
BY DEF Init, EvictInv, OpenedInOrder, GivesUpOldest, RotatesLive, Rotating, NoJob

LEMMA StepKeepsEvictInv ==
  ASSUME TypeInv, NoneExpireInFlight, EvictInv, [Next]_vars
  PROVE  EvictInv'
<1>1. ASSUME NEW r \in Requests, Deliver(r) PROVE EvictInv'
  <2>1. Finish(r) /\ UNCHANGED <<owner, revoked, expired>>
    BY <1>1 DEF Deliver, sessionVars
  <2> QED BY <2>1, SameSessions, OverEvictsNothing, EvictionKept
<1>2. ASSUME NEW r \in Requests, LoseAnswer(r) \/ Disconnect(r) PROVE EvictInv'
  BY <1>2, RefuseEvicts DEF LoseAnswer, Disconnect
<1>3. ASSUME NEW t \in SessionIds, Expire(t) PROVE EvictInv'
  <2>1. /\ expired' = expired \cup {t} /\ \A r \in Requests : ~Rotating(r, t)
        /\ UNCHANGED <<owner, revoked, pc, job, doomed>>
    BY <1>3 DEF Expire, NoneExpireInFlight, requestVars
  <2>2. \A a : ActiveSessionsOf(a)' \subseteq ActiveSessionsOf(a)
    BY <2>1 DEF ActiveSessionsOf, IsActiveSession
  <2>3. \A r \in Requests : RotatesLive(r)'
    BY <2>1 DEF EvictInv, RotatesLive, Rotating
  <2>4. \A r \in Requests : GivesUpOldest(r)'
    BY <2>1, <2>2 DEF EvictInv, GivesUpOldest
  <2> QED BY <2>1, <2>3, <2>4 DEF EvictInv, OpenedInOrder
<1>4. CASE UNCHANGED vars
  BY <1>4 DEF vars, sessionVars, requestVars, EvictInv, OpenedInOrder, GivesUpOldest,
              RotatesLive, Rotating, ActiveSessionsOf, IsActiveSession
<1> QED BY <1>1, <1>2, <1>3, <1>4, ArriveEvicts, ReadEvicts, LoginEvicts, CommitEvicts
     DEF Next, Work

\* Only a login opens a session.
LEMMA OpenedByLogin ==
  ASSUME TypeInv, [Next]_vars, NEW new \in SessionIds, owner'[new] # owner[new]
  PROVE  \E r \in Requests : CommitLogin(r) /\ owner'[new] = job[r].account
<1>1. ASSUME NEW r \in Requests, Arrive(r) PROVE FALSE
  BY <1>1, ArriveForms DEF Send, sessionVars
<1>2. ASSUME NEW r \in Requests,
             \/ ReadAccount(r) \/ ReadSessions(r) \/ ReadOwner(r)
             \/ ReadRefreshed(r) \/ ReadLoggedOut(r) \/ ReadRevoked(r)
             \/ Deliver(r) \/ LoseAnswer(r) \/ Disconnect(r)
      PROVE  FALSE
  BY <1>2 DEF ReadAccount, ReadSessions, ReadOwner, ReadRefreshed, ReadLoggedOut, ReadRevoked,
              Deliver, LoseAnswer, Disconnect, Doom, Refuse, sessionVars
<1>3. ASSUME NEW r \in Requests,
             \/ CommitRotation(r) \/ CommitRefusal(r) \/ CommitLogout(r)
             \/ CommitRevoke(r) \/ CommitReset(r) \/ CommitActive(r)
      PROVE  FALSE
  BY <1>3 DEF CommitRotation, CommitRefusal, CommitLogout, CommitRevoke, CommitReset, CommitActive
<1>4. ASSUME NEW t \in SessionIds, Expire(t) PROVE FALSE
  BY <1>4 DEF Expire
<1>5. ASSUME NEW r \in Requests, CommitLogin(r) PROVE owner'[new] = job[r].account
  BY <1>5 DEF CommitLogin, TypeInv, TypeOK
<1> QED BY <1>1, <1>2, <1>3, <1>4, <1>5 DEF Next, Work, vars, sessionVars

LEMMA StepEvictsOldest ==
  ASSUME TypeInv, EvictInv, [Next]_vars,
         NEW new \in SessionIds, NEW gone \in SessionIds, NEW kept \in SessionIds,
         owner[new] = None, owner'[new] # None,
         {gone, kept} \subseteq ActiveSessionsOf(owner'[new]),
         gone \in revoked', kept \notin revoked'
  PROVE  gone < kept
<1>1. PICK r \in Requests : CommitLogin(r) /\ owner'[new] = job[r].account
  BY OpenedByLogin
<1>2. GivesUpOldest(r) /\ pc[r] = "commit" /\ job[r].op = "login"
      /\ revoked' = revoked \cup doomed[r]
  BY <1>1 DEF EvictInv, CommitLogin, At, RevokeDoomed
<1>3. gone \notin revoked
  BY DEF ActiveSessionsOf, IsActiveSession
<1> QED BY <1>1, <1>2, <1>3 DEF GivesUpOldest

\* create_session: whatever opened or ended since a login chose what to give up, it
\* ends the oldest sessions of the account.  Sessions expire between a refresh's
\* check and its commit only where NoneExpireInFlight fails.
THEOREM OldestGoFirst == NoneExpireInFlight /\ Spec => EvictsOldest
<1>1. TypeInv /\ EvictInv /\ [Next]_vars =>
        [\A new, gone, kept \in SessionIds :
           /\ owner[new] = None /\ owner'[new] # None
           /\ {gone, kept} \subseteq ActiveSessionsOf(owner'[new])
           /\ gone \in revoked' /\ kept \notin revoked'
           => gone < kept]_vars
  BY StepEvictsOldest
<1>2. NoneExpireInFlight /\ Init => NoneExpireInFlight /\ EvictInv
  BY InitEvictInv
<1>3. TypeInv /\ (NoneExpireInFlight /\ EvictInv) /\ [Next]_vars => (NoneExpireInFlight /\ EvictInv)'
  BY StepKeepsEvictInv DEF NoneExpireInFlight
<1> QED BY <1>1, <1>2, <1>3, TypesHold, PTL DEF Spec, EvictsOldest

-----------------------------------------------------------------------------
(* Cookies.  The cookie of a session lives in one browser, that of the     *)
(* login, so a browser with one refresh in flight is the only one who can  *)
(* rotate its secret, and one refresh at a time does.                      *)

\* r brings the cookie of s to the server or back.
Carries(r, s) ==
  \/ job[r].op \in {"refresh", "logout"} /\ job[r].session = s
  \/ setCookie[r] # None /\ setCookie[r].session = s

Keeps(b, s) == jar[b] # None /\ jar[b].session = s

Holds(b, s) == Keeps(b, s) \/ \E r \in Requests : job[r].browser = b /\ Carries(r, s)

OneHome ==
  \A b, c \in Browsers, s \in SessionIds : Holds(b, s) /\ Holds(c, s) => b = c

HeldAreOpened ==
  \A b \in Browsers, s \in SessionIds : Holds(b, s) => owner[s] # None

\* A cookie leaves with the answer to a login or a refresh.
CookieAtReply(r) ==
  setCookie[r] # None =>
    /\ pc[r] = "reply" /\ job[r].op \in {"login", "refresh"}
    /\ job[r].op = "refresh" => setCookie[r].session = job[r].session

\* Nobody has the cookie of a login that is still to be answered.
FreshLogin(r) ==
  job[r].op = "login" /\ setCookie[r] # None =>
    /\ \A b \in Browsers : ~Keeps(b, setCookie[r].session)
    /\ \A v \in Requests \ {r} : ~Carries(v, setCookie[r].session)

CookieInv ==
  /\ OneHome /\ HeldAreOpened
  /\ \A r \in Requests : CookieAtReply(r) /\ FreshLogin(r)

OneRefresh ==
  \A v, w \in Requests :
    job[v].op = "refresh" /\ job[w].op = "refresh" /\ job[v].browser = job[w].browser => v = w

RotatesCurrent(r) ==
  \A s \in SessionIds : Rotating(r, s) /\ doomed[r] = {} => job[r].secret = secret[s]

AnswersCurrent(r) ==
  setCookie[r] # None => setCookie[r].secret = secret[setCookie[r].session]

SecretsCurrent == OneRefresh /\ \A r \in Requests : RotatesCurrent(r) /\ AnswersCurrent(r)

\* A browser's cookie carries the secret in force, or its answer is on the way.
JarsCurrent ==
  \A b \in Browsers : jar[b] # None =>
    \/ jar[b].secret = secret[jar[b].session]
    \/ \E r \in Requests :
         /\ job[r].browser = b
         /\ setCookie[r] # None /\ setCookie[r].session = jar[b].session
         /\ setCookie[r].secret = secret[jar[b].session]

CookiesStand ==
  /\ CookieInv
  /\ SingleFlight => SecretsCurrent
  /\ SingleFlight /\ ~Lossy => JarsCurrent

OthersStand(r) ==
  \A v \in Requests \ {r} : /\ pc'[v] = pc[v] /\ job'[v] = job[v]
                            /\ doomed'[v] = doomed[v] /\ setCookie'[v] = setCookie[v]

LEMMA InitCookiesStand == Init => CookiesStand
<1> SUFFICES ASSUME Init PROVE CookiesStand
  OBVIOUS
<1>1. /\ \A b \in Browsers : jar[b] = None
      /\ \A r \in Requests : job[r].op = "none" /\ setCookie[r] = None
  BY DEF Init, NoJob
<1>2. \A b \in Browsers, s \in SessionIds : ~Holds(b, s)
  BY <1>1 DEF Holds, Keeps, Carries
<1>3. CookieInv
  BY <1>1, <1>2 DEF CookieInv, OneHome, HeldAreOpened, CookieAtReply, FreshLogin
<1>4. SecretsCurrent /\ JarsCurrent
  BY <1>1 DEF SecretsCurrent, OneRefresh, RotatesCurrent, Rotating, AnswersCurrent, JarsCurrent
<1> QED BY <1>3, <1>4 DEF CookiesStand

\* A step of r that passes cookies on and issues none for a new session.
LEMMA CookiesPassOn ==
  ASSUME TypeInv, CookieInv, NEW r \in Requests, OthersStand(r),
         \A s \in SessionIds : owner[s] # None => owner'[s] # None,
         \A s \in SessionIds : Carries(r, s)' =>
           \/ Carries(r, s) /\ job'[r].browser = job[r].browser
           \/ \E b \in Browsers : Keeps(b, s) /\ job'[r].browser = b,
         \A b \in Browsers, s \in SessionIds : Keeps(b, s)' =>
           Keeps(b, s) \/ (b = job[r].browser /\ Carries(r, s)),
         CookieAtReply(r)', FreshLogin(r)'
  PROVE  CookieInv'
<1>1. ASSUME NEW b \in Browsers, NEW s \in SessionIds, Holds(b, s)' PROVE Holds(b, s)
  <2>1. CASE Keeps(b, s)'
    BY <2>1 DEF Holds
  <2>2. ASSUME NEW v \in Requests, job'[v].browser = b, Carries(v, s)' PROVE Holds(b, s)
    <3>1. CASE v = r
      BY <2>2, <3>1 DEF Holds
    <3>2. CASE v # r
      BY <2>2, <3>2 DEF Holds, OthersStand, Carries
    <3> QED BY <3>1, <3>2
  <2> QED BY <1>1, <2>1, <2>2 DEF Holds
<1>2. OneHome' /\ HeldAreOpened'
  BY <1>1 DEF CookieInv, OneHome, HeldAreOpened
<1>3. ASSUME NEW v \in Requests, v # r PROVE CookieAtReply(v)' /\ FreshLogin(v)'
  <2>1. /\ pc'[v] = pc[v] /\ job'[v] = job[v] /\ setCookie'[v] = setCookie[v]
        /\ CookieAtReply(v) /\ FreshLogin(v)
    BY <1>3 DEF CookieInv, OthersStand
  <2>2. CookieAtReply(v)'
    BY <2>1 DEF CookieAtReply
  <2>3. ASSUME job[v].op = "login", setCookie[v] # None PROVE FreshLogin(v)'
    <3>1. PICK s \in SessionIds : s = setCookie[v].session
      BY <2>3 DEF TypeInv, TypeOK, Cookies
    <3>2. /\ \A b \in Browsers : ~Keeps(b, s)
          /\ \A w \in Requests \ {v} : ~Carries(w, s)
      BY <2>1, <2>3, <3>1 DEF FreshLogin
    <3>3. \A b \in Browsers : ~Keeps(b, s)'
      BY <1>3, <3>1, <3>2
    <3>4. ~Carries(r, s)'
      BY <1>3, <3>1, <3>2
    <3>5. \A w \in Requests \ {v} : ~Carries(w, s)'
      BY <3>2, <3>4 DEF OthersStand, Carries
    <3> QED BY <2>1, <3>1, <3>3, <3>5 DEF FreshLogin
  <2>4. FreshLogin(v)'
    BY <2>1, <2>3 DEF FreshLogin
  <2> QED BY <2>2, <2>4
<1> QED BY <1>2, <1>3 DEF CookieInv

\* A step of r that touches no cookie and no secret.
LEMMA QuietCookies ==
  ASSUME TypeInv, CookiesStand, NEW r \in Requests, OthersStand(r), pc[r] # "reply",
         setCookie'[r] = None, job'[r] = job[r] \/ job'[r] = NoJob,
         UNCHANGED <<jar, secret, owner>>,
         SingleFlight /\ RotatesCurrent(r) => RotatesCurrent(r)'
  PROVE  CookiesStand'
<1>1. setCookie[r] = None
  BY DEF CookiesStand, CookieInv, CookieAtReply
<1>2. \A s \in SessionIds : Carries(r, s)' => Carries(r, s) /\ job'[r].browser = job[r].browser
  BY DEF Carries, NoJob
<1>3. \A b \in Browsers, s \in SessionIds : Keeps(b, s)' = Keeps(b, s)
  BY DEF Keeps
<1>4. CookieAtReply(r)' /\ FreshLogin(r)'
  BY DEF CookieAtReply, FreshLogin
<1>5. CookieInv'
  BY <1>2, <1>3, <1>4, CookiesPassOn DEF CookiesStand
<1>6. ASSUME SingleFlight PROVE SecretsCurrent'
  <2>1. SecretsCurrent
    BY <1>6 DEF CookiesStand
  <2>2. OneRefresh'
    BY <2>1 DEF SecretsCurrent, OneRefresh, OthersStand, NoJob
  <2>3. \A v \in Requests : AnswersCurrent(v)'
    BY <2>1 DEF SecretsCurrent, AnswersCurrent, OthersStand
  <2>4. \A v \in Requests : RotatesCurrent(v)'
    BY <1>6, <2>1 DEF SecretsCurrent, RotatesCurrent, Rotating, OthersStand
  <2> QED BY <2>2, <2>3, <2>4 DEF SecretsCurrent
<1>7. ASSUME SingleFlight, ~Lossy PROVE JarsCurrent'
  <2>1. JarsCurrent
    BY <1>7 DEF CookiesStand
  <2> QED BY <1>1, <2>1 DEF JarsCurrent, OthersStand
<1> QED BY <1>5, <1>6, <1>7 DEF CookiesStand

LEMMA FinishStands ==
  ASSUME TypeInv, NEW r \in Requests, Finish(r)
  PROVE  OthersStand(r) /\ setCookie'[r] = None /\ job'[r] = NoJob /\ pc'[r] = "idle"
BY DEF Finish, Goto, TypeInv, TypeOK, OthersStand

LEMMA ReplyStands ==
  ASSUME TypeInv, NEW r \in Requests, NEW cookie, Reply(r, cookie)
  PROVE  /\ OthersStand(r) /\ setCookie'[r] = cookie /\ job'[r] = job[r] /\ pc'[r] = "reply"
         /\ doomed'[r] = doomed[r]
BY DEF Reply, Goto, TypeInv, TypeOK, OthersStand

\* Requests that end with nothing to say, or with the order to drop the cookie.
LEMMA EndsQuietly ==
  ASSUME TypeInv, CookiesStand, NEW r \in Requests, pc[r] # "reply",
         Finish(r) \/ Reply(r, None), UNCHANGED <<jar, secret, owner>>
  PROVE  CookiesStand'
<1>1. OthersStand(r) /\ setCookie'[r] = None /\ (job'[r] = job[r] \/ job'[r] = NoJob)
      /\ pc'[r] \in {"idle", "reply"}
  BY FinishStands, ReplyStands
<1>2. RotatesCurrent(r)'
  BY <1>1 DEF RotatesCurrent, Rotating
<1> QED BY <1>1, <1>2, QuietCookies

LEMMA ReadsQuietly ==
  ASSUME TypeInv, CookiesStand, NEW r \in Requests,
         \/ ReadAccount(r) \/ ReadSessions(r) \/ ReadOwner(r)
         \/ ReadRefreshed(r) \/ ReadLoggedOut(r) \/ ReadRevoked(r)
  PROVE  CookiesStand'
<1>0. JobFits(r) /\ doomed = [doomed EXCEPT ![r] = doomed[r]]
  BY DEF TypeInv, TypeOK
<1>1. pc[r] # "reply"
  BY DEF ReadAccount, ReadSessions, ReadOwner, ReadRefreshed, ReadLoggedOut, ReadRevoked, At
<1>2. setCookie[r] = None
  BY <1>1 DEF CookiesStand, CookieInv, CookieAtReply
<1>3. ASSUME Refuse(r) \/ (Reply(r, None) /\ UNCHANGED <<sessionVars, jar>>) PROVE CookiesStand'
  BY <1>1, <1>3, EndsQuietly DEF Refuse, sessionVars
<1>4. ASSUME NEW label, Goto(r, label), NEW d, doomed' = [doomed EXCEPT ![r] = d],
             UNCHANGED <<sessionVars, jar, job, setCookie>>,
             \/ job[r].op # "refresh" \/ d # {}
             \/ job[r].secret = secret[job[r].session]
             \/ pc[r] = "owner" /\ d = doomed[r]
      PROVE  CookiesStand'
  <2>1. OthersStand(r) /\ pc'[r] = label /\ doomed'[r] = d /\ UNCHANGED <<jar, secret, owner>>
    BY <1>4 DEF OthersStand, Goto, TypeInv, TypeOK, sessionVars
  <2>2. RotatesCurrent(r) => RotatesCurrent(r)'
    BY <1>4, <2>1 DEF RotatesCurrent, Rotating, sessionVars
  <2> QED BY <1>1, <1>2, <1>4, <2>1, <2>2, QuietCookies
<1>5. ASSUME Doom(r) PROVE CookiesStand'
  BY <1>4, <1>5 DEF Doom
<1>6. CASE ReadAccount(r)
  <2>1. job[r].op # "refresh"
    BY <1>0, <1>6 DEF ReadAccount, At, JobFits, AccountWide
  <2> QED BY <1>0, <1>3, <1>4, <1>6, <2>1 DEF ReadAccount
<1>7. CASE ReadSessions(r)
  <2>1. job[r].op # "refresh"
    BY <1>0, <1>7 DEF ReadSessions, At, JobFits
  <2>2. PICK d : doomed' = [doomed EXCEPT ![r] = d]
    BY <1>7 DEF ReadSessions
  <2> QED BY <1>4, <1>7, <2>1, <2>2 DEF ReadSessions
<1>8. CASE ReadRefreshed(r)
  <2>1. CASE VerifySecret(r, job[r].session) /\ Goto(r, "owner")
             /\ UNCHANGED <<sessionVars, jar, job, doomed, setCookie>>
    BY <1>0, <1>4, <2>1 DEF VerifySecret
  <2> QED BY <1>3, <1>5, <1>8, <2>1 DEF ReadRefreshed
<1>9. CASE ReadLoggedOut(r) \/ ReadRevoked(r)
  BY <1>3, <1>5, <1>9 DEF ReadLoggedOut, ReadRevoked
<1>10. CASE ReadOwner(r)
  <2>1. CASE Goto(r, "commit") /\ UNCHANGED <<sessionVars, jar, job, doomed, setCookie>>
    BY <1>0, <1>4, <1>10, <2>1 DEF ReadOwner, At
  <2> QED BY <1>5, <1>10, <2>1 DEF ReadOwner
<1> QED BY <1>6, <1>7, <1>8, <1>9, <1>10

\* A request brings the cookie of its browser, or none.
LEMMA SendCarries ==
  ASSUME TypeInv, CookiesStand, NEW r \in Requests, At(r, "idle"),
         NEW label \in {"account", "session"}, NEW request, Send(r, label, request),
         \/ request.op \notin {"refresh", "logout"}
         \/ \E b \in Browsers :
              /\ request.browser = b /\ Keeps(b, request.session)
              /\ (request.op = "refresh" /\ SingleFlight) => ~RefreshingIn(b)
  PROVE  CookiesStand'
<1>1. /\ pc'[r] = label /\ job'[r] = request /\ OthersStand(r)
      /\ UNCHANGED <<jar, secret, owner, setCookie, doomed>> /\ pc[r] = "idle"
  BY DEF Send, Goto, TypeInv, TypeOK, OthersStand, sessionVars, At
<1>2. setCookie[r] = None /\ setCookie'[r] = None
  BY <1>1 DEF CookiesStand, CookieInv, CookieAtReply
<1>3. \A s \in SessionIds : Carries(r, s)' =>
           \E b \in Browsers : Keeps(b, s) /\ job'[r].browser = b
  BY <1>1, <1>2 DEF Carries
<1>4. \A b \in Browsers, s \in SessionIds : Keeps(b, s)' = Keeps(b, s)
  BY <1>1 DEF Keeps
<1>5. CookieAtReply(r)' /\ FreshLogin(r)'
  BY <1>2 DEF CookieAtReply, FreshLogin
<1>6. CookieInv'
  BY <1>1, <1>3, <1>4, <1>5, CookiesPassOn DEF CookiesStand
<1>7. ASSUME SingleFlight PROVE SecretsCurrent'
  <2>1. SecretsCurrent
    BY <1>7 DEF CookiesStand
  <2>2. OneRefresh'
    <3>1. \A v \in Requests \ {r} :
            ~(request.op = "refresh" /\ job[v].op = "refresh" /\ job[v].browser = request.browser)
      BY <1>7 DEF RefreshingIn
    <3> QED BY <1>1, <2>1, <3>1 DEF SecretsCurrent, OneRefresh, OthersStand
  <2>3. \A v \in Requests : AnswersCurrent(v)'
    BY <1>1, <2>1 DEF SecretsCurrent, AnswersCurrent
  <2>4. \A v \in Requests : RotatesCurrent(v)'
    BY <1>1, <2>1 DEF SecretsCurrent, RotatesCurrent, Rotating, OthersStand
  <2> QED BY <2>2, <2>3, <2>4 DEF SecretsCurrent
<1>8. ASSUME SingleFlight, ~Lossy PROVE JarsCurrent'
  <2>1. JarsCurrent
    BY <1>8 DEF CookiesStand
  <2> QED BY <1>1, <1>2, <2>1 DEF JarsCurrent, OthersStand
<1> QED BY <1>6, <1>7, <1>8 DEF CookiesStand

LEMMA ArriveCarries ==
  ASSUME TypeInv, CookiesStand, NEW r \in Requests, Arrive(r)
  PROVE  CookiesStand'
<1>0. At(r, "idle")
  BY ArriveForms
<1>1. ASSUME NEW request, NEW label \in {"account", "session"}, Send(r, label, request),
             request.op \notin {"refresh", "logout"}
      PROVE  CookiesStand'
  BY <1>0, <1>1, SendCarries
<1>2. ASSUME NEW b \in Browsers, NEW op \in {"refresh", "logout"}, jar[b] # None,
             op = "refresh" /\ SingleFlight => ~RefreshingIn(b),
             Send(r, "session", [NoJob EXCEPT !.op = op, !.browser = b,
                                  !.session = jar[b].session, !.secret = jar[b].secret])
      PROVE  CookiesStand'
  <2> DEFINE request == [NoJob EXCEPT !.op = op, !.browser = b,
                                !.session = jar[b].session, !.secret = jar[b].secret]
  <2>1. request.op = op /\ request.browser = b /\ Keeps(b, request.session)
    BY <1>2 DEF NoJob, Keeps
  <2>2. Send(r, "session", request)
    BY <1>2
  <2> HIDE DEF request
  <2> QED BY <1>0, <1>2, <2>1, <2>2, SendCarries
<1>3. ASSUME NEW b \in Browsers, NEW a \in Accounts, NEW p \in Passwords, SendLogin(r, b, a, p)
      PROVE  CookiesStand'
  <2> DEFINE request == [NoJob EXCEPT !.op = "login", !.browser = b, !.account = a, !.password = p]
  <2>1. request.op \notin {"refresh", "logout"}
    BY DEF NoJob
  <2> QED BY <1>1, <1>3, <2>1 DEF SendLogin
<1>4. ASSUME NEW b \in Browsers, SendLogoutAll(r, b) PROVE CookiesStand'
  <2> DEFINE request == [NoJob EXCEPT !.op = "logoutAll", !.browser = b, !.account = StaffIn(b)]
  <2>1. request.op \notin {"refresh", "logout"}
    BY DEF NoJob
  <2> QED BY <1>1, <1>4, <2>1 DEF SendLogoutAll
<1>5. ASSUME NEW b \in Browsers, NEW s \in SessionIds, SendRevoke(r, b, s) PROVE CookiesStand'
  <2> DEFINE request == [NoJob EXCEPT !.op = "revoke", !.browser = b, !.account = StaffIn(b),
                                      !.session = s]
  <2>1. request.op \notin {"refresh", "logout"}
    BY DEF NoJob
  <2> QED BY <1>1, <1>5, <2>1 DEF SendRevoke
<1>6. ASSUME NEW a \in Accounts, NEW p \in Passwords, SendReset(r, a, p) PROVE CookiesStand'
  <2> DEFINE request == [NoJob EXCEPT !.op = "reset", !.account = a, !.password = p]
  <2>1. request.op \notin {"refresh", "logout"}
    BY DEF NoJob
  <2> QED BY <1>1, <1>6, <2>1 DEF SendReset
<1>7. ASSUME NEW a \in Accounts, NEW op \in Ops, SendActive(r, a, op) PROVE CookiesStand'
  <2> DEFINE request == [NoJob EXCEPT !.op = op, !.account = a]
  <2>1. request.op \notin {"refresh", "logout"}
    BY <1>7 DEF NoJob, SendActive
  <2> QED BY <1>1, <1>7, <2>1 DEF SendActive
<1>8. ASSUME NEW b \in Browsers, SendRefresh(r, b) \/ SendLogout(r, b) PROVE CookiesStand'
  BY <1>2, <1>8 DEF SendRefresh, SendLogout
<1> QED BY <1>3, <1>4, <1>5, <1>6, <1>7, <1>8 DEF Arrive

\* The first cookie of a session goes to the browser that signed in.
LEMMA LoginCarries ==
  ASSUME TypeInv, CookiesStand, NEW r \in Requests, CommitLogin(r)
  PROVE  CookiesStand'
<1>1. PICK s \in SessionIds : /\ owner[s] = None
                              /\ owner' = [owner EXCEPT ![s] = job[r].account]
                              /\ secret' = [secret EXCEPT ![s] = 1]
                              /\ Reply(r, NewCookie(s))
  BY DEF CommitLogin
<1>2. /\ job[r].op = "login" /\ pc[r] = "commit" /\ jar' = jar
      /\ job[r].account \in Accounts /\ None \notin Accounts
  BY SessionsAssumption DEF CommitLogin, At, TypeInv, JobFits, AccountWide
<1>3. /\ owner'[s] # None /\ secret'[s] = 1
      /\ \A t \in SessionIds \ {s} : owner'[t] = owner[t] /\ secret'[t] = secret[t]
  BY <1>1, <1>2 DEF TypeInv, TypeOK
<1>4. /\ OthersStand(r) /\ job'[r] = job[r] /\ pc'[r] = "reply" /\ setCookie[r] = None
      /\ setCookie'[r] = [session |-> s, secret |-> 1]
  BY <1>1, <1>2, <1>3, ReplyStands DEF NewCookie, CookiesStand, CookieInv, CookieAtReply
<1>5. setCookie'[r] # None /\ setCookie'[r].session = s /\ setCookie'[r].secret = 1
  <2>1. [session |-> s, secret |-> 1] \in Cookies
    BY SessionsAssumption DEF Cookies
  <2> QED BY <1>4, <2>1, SessionsAssumption DEF Cookies
<1>6. \A b \in Browsers : ~Holds(b, s)
  BY <1>1 DEF CookiesStand, CookieInv, HeldAreOpened
<1>7. \A v \in Requests : ~Carries(v, s)
  <2> SUFFICES ASSUME NEW v \in Requests, Carries(v, s) PROVE FALSE
    OBVIOUS
  <2>1. job[v].browser \in Browsers
    BY DEF Carries, CookiesStand, CookieInv, CookieAtReply, TypeInv, JobFits
  <2> QED BY <1>6, <2>1 DEF Holds
<1>8. \A v \in Requests, t \in SessionIds :
        Carries(v, t)' => Carries(v, t) \/ (v = r /\ t = s)
  BY <1>2, <1>4, <1>5 DEF Carries, OthersStand
<1>9. \A b \in Browsers, t \in SessionIds : Keeps(b, t)' = Keeps(b, t)
  BY <1>2 DEF Keeps
<1>10. ASSUME NEW b \in Browsers, NEW t \in SessionIds, Holds(b, t)'
       PROVE  Holds(b, t) \/ (t = s /\ b = job[r].browser)
  <2>1. \A v \in Requests : job'[v].browser = job[v].browser
    BY <1>4 DEF OthersStand
  <2> QED BY <1>8, <1>9, <1>10, <2>1 DEF Holds
<1>11. OneHome' /\ HeldAreOpened'
  BY <1>3, <1>6, <1>10 DEF CookiesStand, CookieInv, OneHome, HeldAreOpened
<1>12. ASSUME NEW v \in Requests PROVE CookieAtReply(v)' /\ FreshLogin(v)'
  <2>1. CASE v = r
    <3>1. CookieAtReply(r)'
      BY <1>2, <1>4 DEF CookieAtReply
    <3>2. \A b \in Browsers : ~Keeps(b, s)'
      BY <1>6, <1>9 DEF Holds
    <3>3. \A w \in Requests \ {r} : ~Carries(w, s)'
      BY <1>7, <1>8
    <3> QED BY <1>5, <2>1, <3>1, <3>2, <3>3 DEF FreshLogin
  <2>2. CASE v # r
    <3>1. /\ pc'[v] = pc[v] /\ job'[v] = job[v] /\ setCookie'[v] = setCookie[v]
          /\ CookieAtReply(v) /\ FreshLogin(v)
      BY <1>4, <2>2 DEF CookiesStand, CookieInv, OthersStand
    <3>2. CookieAtReply(v)'
      BY <3>1 DEF CookieAtReply
    <3>3. ASSUME job[v].op = "login", setCookie[v] # None PROVE FreshLogin(v)'
      <4>1. PICK t \in SessionIds : t = setCookie[v].session
        BY <3>3 DEF TypeInv, TypeOK, Cookies
      <4>2. t # s
        BY <1>7, <3>3, <4>1 DEF Carries
      <4>3. /\ \A b \in Browsers : ~Keeps(b, t)'
            /\ \A w \in Requests \ {v} : ~Carries(w, t)'
        BY <1>8, <1>9, <3>1, <3>3, <4>1, <4>2 DEF FreshLogin
      <4> QED BY <3>1, <4>1, <4>3 DEF FreshLogin
    <3> QED BY <3>1, <3>2, <3>3 DEF FreshLogin
  <2> QED BY <2>1, <2>2
<1>13. ASSUME SingleFlight PROVE SecretsCurrent'
  <2>1. SecretsCurrent
    BY <1>13 DEF CookiesStand
  <2>2. OneRefresh'
    BY <1>4, <2>1 DEF SecretsCurrent, OneRefresh, OthersStand
  <2>3. ASSUME NEW v \in Requests PROVE AnswersCurrent(v)'
    <3>1. CASE v = r
      BY <1>3, <1>5, <3>1 DEF AnswersCurrent
    <3>2. CASE v # r
      <4>1. setCookie'[v] = setCookie[v] /\ AnswersCurrent(v)
        BY <1>4, <2>1, <3>2 DEF OthersStand, SecretsCurrent
      <4>2. setCookie[v] # None => setCookie[v].session \in SessionIds \ {s}
        BY <1>7 DEF Carries, TypeInv, TypeOK, Cookies
      <4> QED BY <1>3, <4>1, <4>2 DEF AnswersCurrent
    <3> QED BY <3>1, <3>2
  <2>4. ASSUME NEW v \in Requests PROVE RotatesCurrent(v)'
    <3>1. CASE v = r
      BY <1>4, <3>1 DEF RotatesCurrent, Rotating
    <3>2. CASE v # r
      <4>1. /\ pc'[v] = pc[v] /\ job'[v] = job[v] /\ doomed'[v] = doomed[v] /\ RotatesCurrent(v)
        BY <1>4, <2>1, <3>2 DEF OthersStand, SecretsCurrent
      <4>2. \A t \in SessionIds : Rotating(v, t) => t # s
        BY <1>7 DEF Carries, Rotating
      <4> QED BY <1>3, <4>1, <4>2 DEF RotatesCurrent, Rotating
    <3> QED BY <3>1, <3>2
  <2> QED BY <2>2, <2>3, <2>4 DEF SecretsCurrent
<1>14. ASSUME SingleFlight, ~Lossy PROVE JarsCurrent'
  <2>1. JarsCurrent
    BY <1>14 DEF CookiesStand
  <2>2. \A b \in Browsers : jar[b] # None => jar[b].session \in SessionIds \ {s}
    BY <1>6 DEF Holds, Keeps, TypeInv, TypeOK, Cookies
  <2> QED BY <1>2, <1>3, <1>4, <2>1, <2>2 DEF JarsCurrent, OthersStand
<1> QED BY <1>11, <1>12, <1>13, <1>14 DEF CookiesStand, CookieInv

\* A rotation: nobody else has a cookie of the session whose secret changes.
LEMMA RotationCarries ==
  ASSUME TypeInv, CookiesStand, NEW r \in Requests, CommitRotation(r)
  PROVE  CookiesStand'
<1>1. PICK s \in SessionIds : s = job[r].session
  BY DEF CommitRotation, TypeInv, JobFits
<1>2. /\ job[r].op = "refresh" /\ pc[r] = "commit" /\ UNCHANGED <<jar, owner>>
      /\ job[r].browser \in Browsers
      /\ secret[s] < MaxSecrets /\ secret' = [secret EXCEPT ![s] = secret[s] + 1]
      /\ Reply(r, NewCookie(s))
  BY <1>1 DEF CommitRotation, At, TypeInv, JobFits
<1>3. /\ secret'[s] = secret[s] + 1 /\ secret'[s] \in 1..MaxSecrets
      /\ \A t \in SessionIds \ {s} : secret'[t] = secret[t]
  BY <1>2, SessionsAssumption DEF TypeInv, TypeOK
<1>4. /\ OthersStand(r) /\ job'[r] = job[r] /\ pc'[r] = "reply" /\ setCookie[r] = None
      /\ setCookie'[r] = [session |-> s, secret |-> secret'[s]]
  BY <1>2, ReplyStands DEF NewCookie, CookiesStand, CookieInv, CookieAtReply
<1>5. setCookie'[r] # None /\ setCookie'[r].session = s /\ setCookie'[r].secret = secret'[s]
  <2>1. [session |-> s, secret |-> secret'[s]] \in Cookies
    BY <1>3 DEF Cookies
  <2> QED BY <1>4, <2>1, SessionsAssumption DEF Cookies
<1>6. Carries(r, s) /\ Holds(job[r].browser, s)
  BY <1>1, <1>2 DEF Carries, Holds
<1>7. CookieInv'
  <2>1. \A t \in SessionIds : Carries(r, t)' => Carries(r, t) /\ job'[r].browser = job[r].browser
    BY <1>1, <1>4, <1>5, <1>6 DEF Carries
  <2>2. \A b \in Browsers, t \in SessionIds : Keeps(b, t)' = Keeps(b, t)
    BY <1>2 DEF Keeps
  <2>3. CookieAtReply(r)' /\ FreshLogin(r)'
    BY <1>1, <1>2, <1>4, <1>5 DEF CookieAtReply, FreshLogin
  <2> QED BY <1>2, <1>4, <2>1, <2>2, <2>3, CookiesPassOn DEF CookiesStand
<1>8. ASSUME SingleFlight PROVE SecretsCurrent'
  <2>1. SecretsCurrent
    BY <1>8 DEF CookiesStand
  <2>2. OneRefresh'
    BY <1>4, <2>1 DEF SecretsCurrent, OneRefresh, OthersStand
  <2>3. ASSUME NEW v \in Requests, v # r, job[v].op = "refresh", Carries(v, s) PROVE FALSE
    <3>1. job[v].browser \in Browsers /\ Holds(job[v].browser, s)
      BY <2>3 DEF TypeInv, JobFits, Holds
    <3>2. job[v].browser = job[r].browser
      BY <1>2, <1>6, <3>1 DEF CookiesStand, CookieInv, OneHome
    <3> QED BY <1>2, <2>1, <2>3, <3>2 DEF SecretsCurrent, OneRefresh
  <2>4. ASSUME NEW v \in Requests PROVE AnswersCurrent(v)'
    <3>1. CASE v = r
      BY <1>5, <3>1 DEF AnswersCurrent
    <3>2. CASE v # r
      <4>1. setCookie'[v] = setCookie[v] /\ AnswersCurrent(v)
        BY <1>4, <2>1, <3>2 DEF OthersStand, SecretsCurrent
      <4>2. ASSUME setCookie[v] # None PROVE setCookie[v].session \in SessionIds \ {s}
        <5>1. setCookie[v].session \in SessionIds /\ job[v].op \in {"login", "refresh"}
          BY <4>2 DEF TypeInv, TypeOK, Cookies, CookiesStand, CookieInv, CookieAtReply
        <5>2. CASE job[v].op = "refresh"
          BY <2>3, <3>2, <4>2, <5>1, <5>2 DEF Carries
        <5>3. CASE job[v].op = "login"
          BY <1>6, <3>2, <4>2, <5>1, <5>3 DEF CookiesStand, CookieInv, FreshLogin
        <5> QED BY <5>1, <5>2, <5>3
      <4> QED BY <1>3, <4>1, <4>2 DEF AnswersCurrent
    <3> QED BY <3>1, <3>2
  <2>5. ASSUME NEW v \in Requests PROVE RotatesCurrent(v)'
    <3>1. CASE v = r
      BY <1>4, <3>1 DEF RotatesCurrent, Rotating
    <3>2. CASE v # r
      <4>1. /\ pc'[v] = pc[v] /\ job'[v] = job[v] /\ doomed'[v] = doomed[v] /\ RotatesCurrent(v)
        BY <1>4, <2>1, <3>2 DEF OthersStand, SecretsCurrent
      <4>2. \A t \in SessionIds : Rotating(v, t) => t # s
        BY <2>3, <3>2 DEF Carries, Rotating
      <4> QED BY <1>3, <4>1, <4>2 DEF RotatesCurrent, Rotating
    <3> QED BY <3>1, <3>2
  <2> QED BY <2>2, <2>4, <2>5 DEF SecretsCurrent
<1>9. ASSUME SingleFlight, ~Lossy PROVE JarsCurrent'
  <2> SUFFICES ASSUME NEW b \in Browsers, jar[b] # None
               PROVE  \/ jar[b].secret = secret'[jar[b].session]
                      \/ \E v \in Requests :
                           /\ job'[v].browser = b
                           /\ setCookie'[v] # None /\ setCookie'[v].session = jar[b].session
                           /\ setCookie'[v].secret = secret'[jar[b].session]
    BY <1>2 DEF JarsCurrent
  <2>1. PICK t \in SessionIds : t = jar[b].session
    BY DEF TypeInv, TypeOK, Cookies
  <2>2. CASE t = s
    <3>1. Holds(b, s)
      BY <2>1, <2>2 DEF Holds, Keeps
    <3>2. b = job[r].browser
      BY <1>2, <1>6, <3>1 DEF CookiesStand, CookieInv, OneHome
    <3> QED BY <1>4, <1>5, <2>1, <2>2, <3>2
  <2>3. CASE t # s
    <3>1. secret'[t] = secret[t]
      BY <1>3, <2>3
    <3>2. \/ jar[b].secret = secret[t]
          \/ \E v \in Requests : /\ job[v].browser = b
                                 /\ setCookie[v] # None /\ setCookie[v].session = t
                                 /\ setCookie[v].secret = secret[t]
      BY <1>9, <2>1 DEF CookiesStand, JarsCurrent
    <3> QED BY <1>4, <2>1, <3>1, <3>2 DEF OthersStand
  <2> QED BY <2>2, <2>3
<1> QED BY <1>7, <1>8, <1>9 DEF CookiesStand

\* The answer arrives, or is lost.
LEMMA AnswerCarries ==
  ASSUME TypeInv, CookiesStand, NEW r \in Requests, Deliver(r) \/ LoseAnswer(r)
  PROVE  CookiesStand'
<1>1. /\ pc[r] = "reply" /\ Finish(r) /\ UNCHANGED <<secret, owner>>
      /\ \/ Lossy /\ jar' = jar
         \/ jar' = [jar EXCEPT ![job[r].browser] = setCookie[r]]
  BY DEF Deliver, LoseAnswer, Refuse, At, sessionVars
<1>2. OthersStand(r) /\ setCookie'[r] = None /\ job'[r] = NoJob /\ pc'[r] = "idle"
  BY <1>1, FinishStands
<1>3. NoJob.op = "none"
  BY DEF NoJob
<1>4. CookieInv'
  <2>1. \A t \in SessionIds : ~Carries(r, t)'
    BY <1>2, <1>3 DEF Carries
  <2>2. \A b \in Browsers, t \in SessionIds : Keeps(b, t)' =>
           Keeps(b, t) \/ (b = job[r].browser /\ Carries(r, t))
    BY <1>1 DEF Keeps, Carries, TypeInv, TypeOK
  <2>3. CookieAtReply(r)' /\ FreshLogin(r)'
    BY <1>2 DEF CookieAtReply, FreshLogin
  <2> QED BY <1>1, <1>2, <2>1, <2>2, <2>3, CookiesPassOn DEF CookiesStand
<1>5. ASSUME SingleFlight PROVE SecretsCurrent'
  <2>1. SecretsCurrent
    BY <1>5 DEF CookiesStand
  <2>2. OneRefresh'
    BY <1>2, <1>3, <2>1 DEF SecretsCurrent, OneRefresh, OthersStand
  <2>3. \A v \in Requests : AnswersCurrent(v)'
    BY <1>1, <1>2, <2>1 DEF SecretsCurrent, AnswersCurrent, OthersStand
  <2>4. \A v \in Requests : RotatesCurrent(v)'
    BY <1>1, <1>2, <2>1 DEF SecretsCurrent, RotatesCurrent, Rotating, OthersStand
  <2> QED BY <2>2, <2>3, <2>4 DEF SecretsCurrent
<1>6. ASSUME SingleFlight, ~Lossy PROVE JarsCurrent'
  <2> SUFFICES ASSUME NEW b \in Browsers, jar'[b] # None
               PROVE  \/ jar'[b].secret = secret[jar'[b].session]
                      \/ \E v \in Requests :
                           /\ job'[v].browser = b
                           /\ setCookie'[v] # None /\ setCookie'[v].session = jar'[b].session
                           /\ setCookie'[v].secret = secret[jar'[b].session]
    BY <1>1 DEF JarsCurrent
  <2>1. jar' = [jar EXCEPT ![job[r].browser] = setCookie[r]]
    BY <1>1, <1>6
  <2>2. CASE b = job[r].browser
    <3>1. jar'[b] = setCookie[r]
      BY <2>1, <2>2 DEF TypeInv, TypeOK
    <3> QED BY <1>6, <3>1 DEF CookiesStand, SecretsCurrent, AnswersCurrent
  <2>3. CASE b # job[r].browser
    <3>1. jar'[b] = jar[b]
      BY <2>1, <2>3 DEF TypeInv, TypeOK
    <3>2. \/ jar[b].secret = secret[jar[b].session]
          \/ \E v \in Requests : /\ job[v].browser = b
                                 /\ setCookie[v] # None /\ setCookie[v].session = jar[b].session
                                 /\ setCookie[v].secret = secret[jar[b].session]
      BY <1>6, <3>1 DEF CookiesStand, JarsCurrent
    <3> QED BY <1>2, <2>3, <3>1, <3>2 DEF OthersStand
  <2> QED BY <2>2, <2>3
<1> QED BY <1>4, <1>5, <1>6 DEF CookiesStand

LEMMA StepCookies == TypeInv /\ CookiesStand /\ [Next]_vars => CookiesStand'
<1> SUFFICES ASSUME TypeInv, CookiesStand, [Next]_vars PROVE CookiesStand'
  OBVIOUS
<1>1. ASSUME NEW r \in Requests, Disconnect(r) PROVE CookiesStand'
  <2>1. pc[r] # "reply" /\ Finish(r) /\ UNCHANGED <<jar, secret, owner>>
    BY <1>1 DEF Disconnect, At, Refuse, sessionVars
  <2> QED BY <2>1, EndsQuietly
<1>2. ASSUME NEW r \in Requests,
             \/ CommitRefusal(r) \/ CommitLogout(r) \/ CommitRevoke(r)
             \/ CommitReset(r) \/ CommitActive(r)
      PROVE  CookiesStand'
  <2>1. pc[r] # "reply" /\ (Finish(r) \/ Reply(r, None)) /\ UNCHANGED <<jar, secret, owner>>
    BY <1>2 DEF CommitRefusal, CommitLogout, CommitRevoke, CommitReset, CommitActive, At
  <2> QED BY <2>1, EndsQuietly
<1>3. ASSUME UNCHANGED <<jar, secret, owner, requestVars>> PROVE CookiesStand'
  BY <1>3 DEF requestVars, CookiesStand, CookieInv, OneHome, HeldAreOpened, Holds, Keeps, Carries,
              CookieAtReply, FreshLogin, SecretsCurrent, OneRefresh, RotatesCurrent, Rotating,
              AnswersCurrent, JarsCurrent
<1>4. ASSUME NEW t \in SessionIds, Expire(t) PROVE CookiesStand'
  BY <1>3, <1>4 DEF Expire
<1>5. CASE UNCHANGED vars
  BY <1>3, <1>5 DEF vars, sessionVars
<1> QED BY <1>1, <1>2, <1>4, <1>5, ArriveCarries, ReadsQuietly, LoginCarries, RotationCarries,
           AnswerCarries DEF Next, Work

\* Where every session's cookie is, and that its secret is in force
\* (services/auth.py rotate_session, core/auth/auth.service.ts).
THEOREM CookiesStandHolds == Spec => []CookiesStand
BY TypesHold, InitCookiesStand, StepCookies, PTL DEF Spec

\* With one refresh in flight per browser and every answer arriving, whatever the
\* order, no browser is left with a secret that its next refresh would be punished
\* for, however many browsers, accounts and administrators are at work
\* (auth.service.ts:27-34).
THEOREM CookiesStayCurrent == SingleFlight /\ ~Lossy /\ Spec => []CookiesAreCurrent
<1>1. TypeInv /\ CookiesStand /\ SingleFlight /\ ~Lossy => CookiesAreCurrent
  <2> SUFFICES ASSUME TypeInv, JarsCurrent, NEW b \in Browsers, jar[b] # None,
                      jar[b].secret # secret[jar[b].session]
               PROVE  \E r \in Requests : /\ job[r].browser = b
                        /\ setCookie[r] = [session |-> jar[b].session,
                                           secret |-> secret[jar[b].session]]
    BY DEF CookiesStand, CookiesAreCurrent
  <2>1. PICK r \in Requests :
          /\ job[r].browser = b
          /\ setCookie[r] # None /\ setCookie[r].session = jar[b].session
          /\ setCookie[r].secret = secret[jar[b].session]
    BY DEF JarsCurrent
  <2>2. setCookie[r] \in Cookies
    BY <2>1 DEF TypeInv, TypeOK
  <2> QED BY <2>1, <2>2 DEF Cookies
<1>2. SUFFICES ASSUME SingleFlight, ~Lossy PROVE Spec => []CookiesAreCurrent
  OBVIOUS
<1>3. TypeInv /\ CookiesStand => CookiesAreCurrent
  BY <1>1, <1>2
<1> QED BY <1>3, TypesHold, CookiesStandHolds, PTL

LEMMA StepRefusesReuse ==
  ASSUME TypeInv, CookiesStand, SingleFlight, [Next]_vars,
         NEW s \in SessionIds, secret'[s] # secret[s]
  PROVE  \/ owner[s] = None
         \/ \E r \in Requests : /\ Rotating(r, s) /\ job[r].secret = secret[s]
                              /\ pc'[r] = "reply"
<1>1. ASSUME NEW r \in Requests, Arrive(r) PROVE FALSE
  BY <1>1, ArriveForms DEF Send, sessionVars
<1>2. ASSUME NEW r \in Requests,
             \/ ReadAccount(r) \/ ReadSessions(r) \/ ReadOwner(r)
             \/ ReadRefreshed(r) \/ ReadLoggedOut(r) \/ ReadRevoked(r)
             \/ Deliver(r) \/ LoseAnswer(r) \/ Disconnect(r)
      PROVE  FALSE
  BY <1>2 DEF ReadAccount, ReadSessions, ReadOwner, ReadRefreshed, ReadLoggedOut, ReadRevoked,
              Deliver, LoseAnswer, Disconnect, Doom, Refuse, sessionVars
<1>3. ASSUME NEW r \in Requests,
             \/ CommitRefusal(r) \/ CommitLogout(r) \/ CommitRevoke(r)
             \/ CommitReset(r) \/ CommitActive(r)
      PROVE  FALSE
  BY <1>3 DEF CommitRefusal, CommitLogout, CommitRevoke, CommitReset, CommitActive
<1>4. ASSUME NEW t \in SessionIds, Expire(t) PROVE FALSE
  BY <1>4 DEF Expire
<1>5. ASSUME NEW r \in Requests, CommitLogin(r) PROVE owner[s] = None
  BY <1>5 DEF CommitLogin, TypeInv, TypeOK
<1>6. ASSUME NEW r \in Requests, CommitRotation(r)
      PROVE  Rotating(r, s) /\ job[r].secret = secret[s] /\ pc'[r] = "reply"
  <2>1. Rotating(r, s) /\ doomed[r] = {} /\ pc'[r] = "reply"
    BY <1>6 DEF CommitRotation, At, Rotating, Reply, Goto, TypeInv, TypeOK
  <2> QED BY <2>1 DEF CookiesStand, SecretsCurrent, RotatesCurrent
<1> QED BY <1>1, <1>2, <1>3, <1>4, <1>5, <1>6 DEF Next, Work, vars, sessionVars

\* rotate_session checks the secret and changes it in two statements; still, with
\* one refresh in flight per browser, no secret is exchanged twice: a cookie lives
\* in one browser, so no two requests carry the same secret at the same time.
THEOREM SecretsAreUsedOnce == Spec => (SingleFlight => ReuseIsRefused)
<1>1. SUFFICES ASSUME SingleFlight PROVE Spec => ReuseIsRefused
  OBVIOUS
<1>2. TypeInv /\ CookiesStand /\ [Next]_vars =>
        [\A s \in SessionIds : secret'[s] # secret[s]
           => \/ owner[s] = None
              \/ \E r \in Requests : /\ Rotating(r, s) /\ job[r].secret = secret[s]
                                   /\ pc'[r] = "reply"]_vars
  BY <1>1, StepRefusesReuse
<1> QED BY <1>2, TypesHold, CookiesStandHolds, PTL DEF Spec, ReuseIsRefused
=============================================================================
