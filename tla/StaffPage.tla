----------------------------- MODULE StaffPage -----------------------------
(***************************************************************************)
(* One page of the staff application (src/frontend-staff/src/app): a list  *)
(* (shared/list-state.ts), a form that saves, and the interceptor that     *)
(* renews an expired access token and replays the request                  *)
(* (core/interceptors/auth.interceptor.ts, core/auth/auth.service.ts).     *)
(* Every request goes through the server, which handles it in one step     *)
(* here, and its answer arrives later and in any order.  A JavaScript      *)
(* callback is one step.                                                   *)
(***************************************************************************)
EXTENDS Naturals

CONSTANTS
  Calls,       \* requests of the page in flight at one time
  Queries,     \* what can be typed into the search box
  NoFilter,    \* the empty search box
  MaxLoads,    \* bound: list loads the page starts
  MaxSaves,    \* bound: saves the server applies
  MaxTokens,   \* bound: access tokens issued, after which no session is renewed
  None

Tokens == 1 .. MaxTokens
Versions == 0 .. MaxSaves
RefreshRecord == [secret : Tokens \cup {None}, phase : {"sent", "renewed", "refused"},
                  token : Tokens \cup {None}]

ASSUME StaffPageAssumption ==
  /\ MaxLoads \in Nat \ {0} /\ MaxTokens \in Nat \ {0} /\ MaxSaves \in Nat
  /\ NoFilter \in Queries
  /\ None \notin Nat \cup Queries \cup Calls \cup RefreshRecord

VARIABLES
  token,      \* TokenService: the access token held, by number, or None
  jar,        \* the secret in the refresh cookie
  session,    \* server: the first and the current secret of the live session
  issued,     \* server: tokens (and secrets) issued, one of each at a time
  expired,    \* server: tokens 1 .. expired are no longer valid
  call,       \* a request of the page and what became of it
  refresh,    \* the refresh a call has started: the secret sent, then the token got
  list,       \* ListState
  data,       \* server: the version of the rows
  told,       \* the version the page was told its last save made
  applied,    \* history: how often the server applied a save
  tripped     \* history: a live session was revoked because of a secret used before

pageVars == <<token, jar, list, told>>
serverVars == <<session, issued, expired, data, applied, tripped>>
vars == <<pageVars, serverVars, call, refresh>>

-----------------------------------------------------------------------------
NoCall == [phase |-> "idle", kind |-> "load", ticket |-> 0, query |-> None,
           token |-> None, replay |-> FALSE, via |-> None, answer |-> "none", version |-> 0]

PageTypeOK ==
  /\ token \in Tokens \cup {None} /\ jar \in Tokens \cup {None}
  /\ session \in [first : Tokens, current : Tokens] \cup {None}
  /\ issued \in Tokens /\ expired \in 0 .. issued
  /\ call \in [Calls -> [phase : {"idle", "sent", "answered", "waiting"},
                         kind : {"load", "save", "logout"}, ticket : 0 .. MaxLoads,
                         query : Queries \cup {None}, token : Tokens \cup {None},
                         replay : BOOLEAN, via : Calls \cup {None},
                         answer : {"none", "ok", "failed", "unauthorized"}, version : Versions]]
  /\ refresh \in [Calls -> RefreshRecord \cup {None}]
  /\ list \in [sequence : 0 .. MaxLoads, query : Queries, loading : BOOLEAN,
               error : BOOLEAN, shown : Queries \cup {None}, version : Versions]
  /\ data \in Versions /\ told \in Versions
  /\ applied \in [Calls -> Nat] /\ tripped \in BOOLEAN
  /\ \A c \in Calls : call[c].phase = "waiting" <=> call[c].via # None

Init ==
  /\ token = 1 /\ jar = 1
  /\ session = [first |-> 1, current |-> 1]
  /\ issued = 1 /\ expired = 0
  /\ call = [c \in Calls |-> NoCall]
  /\ refresh = [c \in Calls |-> None]
  /\ list = [sequence |-> 0, query |-> NoFilter, loading |-> FALSE, error |-> FALSE,
             shown |-> None, version |-> 0]
  /\ data = 0 /\ told = 0
  /\ applied = [c \in Calls |-> 0]
  /\ tripped = FALSE

-----------------------------------------------------------------------------
(* Mutants of what comes below.                                            *)

Current_Any(c) == TRUE
Renewable_AnyError(c) == call[c].kind # "logout" /\ ~ call[c].replay /\ call[c].answer # "ok"
InFlight_Unshared == {}
Waiters_OwnerOnly(o) == {o}

-----------------------------------------------------------------------------
(* Requests the page sends.                                                *)

Idle(c) == call[c].phase = "idle"
Saving == \E c \in Calls : ~ Idle(c) /\ call[c].kind = "save"

\* authorize: the token held when the request goes out.
AccessToken == token

\* list-state.ts load: the newest load has the highest ticket.
Loaded(c, q) ==
  /\ list' = [list EXCEPT !.sequence = @ + 1, !.query = q, !.loading = TRUE, !.error = FALSE]
  /\ call' = [call EXCEPT ![c] = [NoCall EXCEPT !.phase = "sent", !.ticket = list.sequence + 1,
                                                !.query = q, !.token = AccessToken]]

\* A save is followed by a load: one load is kept for it.
Load(c, q) ==
  /\ Idle(c) /\ token # None
  /\ list.sequence + (IF Saving THEN 1 ELSE 0) < MaxLoads
  /\ Loaded(c, q)
  /\ UNCHANGED <<token, jar, told, serverVars, refresh>>

Save(c) ==
  /\ Idle(c) /\ token # None /\ ~ Saving
  /\ list.sequence < MaxLoads /\ data < MaxSaves
  /\ call' = [call EXCEPT ![c] = [NoCall EXCEPT !.phase = "sent", !.kind = "save",
                                                !.token = AccessToken]]
  /\ applied' = [applied EXCEPT ![c] = 0]
  /\ UNCHANGED <<pageVars, session, issued, expired, data, tripped, refresh>>

\* A logout presents the cookie and no access token.
Logout(c) ==
  /\ Idle(c) /\ token # None
  /\ call' = [call EXCEPT ![c] = [NoCall EXCEPT !.phase = "sent", !.kind = "logout",
                                                !.token = jar]]
  /\ UNCHANGED <<pageVars, serverVars, refresh>>

\* Signing in takes the page's only token and cookie; it opens a new session.
Login ==
  /\ token = None /\ issued < MaxTokens
  /\ issued' = issued + 1
  /\ session' = [first |-> issued + 1, current |-> issued + 1]
  /\ token' = issued + 1 /\ jar' = issued + 1
  /\ UNCHANGED <<expired, list, told, data, applied, tripped, call, refresh>>

-----------------------------------------------------------------------------
(* The server.                                                             *)

Answered(c, answer, version) ==
  call' = [call EXCEPT ![c].phase = "answered", ![c].answer = answer, ![c].version = version]

\* An access token is valid until it expires, whatever became of the session.
Valid(c) == call[c].token # None /\ call[c].token > expired

\* A save may be applied and its answer still be an error, or get lost.
Handle(c) ==
  /\ call[c].phase = "sent"
  /\ \/ /\ call[c].kind # "logout" /\ ~ Valid(c)
        /\ Answered(c, "unauthorized", 0)
        /\ UNCHANGED <<session, data, applied>>
     \/ /\ call[c].kind = "load" /\ Valid(c)
        /\ \E answer \in {"ok", "failed"} : Answered(c, answer, data)
        /\ UNCHANGED <<session, data, applied>>
     \/ /\ call[c].kind = "save" /\ Valid(c)
        /\ \/ /\ \E answer \in {"ok", "failed"} : Answered(c, answer, data + 1)
              /\ data' = data + 1
              /\ applied' = [applied EXCEPT ![c] = @ + 1]
           \/ Answered(c, "failed", data) /\ UNCHANGED <<data, applied>>
        /\ UNCHANGED session
     \/ /\ call[c].kind = "logout"
        /\ \/ /\ \E answer \in {"ok", "failed"} : Answered(c, answer, 0)
              /\ session' = IF session # None /\ call[c].token = session.current
                              THEN None ELSE session
           \/ Answered(c, "failed", 0) /\ UNCHANGED session
        /\ UNCHANGED <<data, applied>>
  /\ UNCHANGED <<pageVars, issued, expired, tripped, refresh>>

\* A secret used before ends its session.
HandleRefresh(o) ==
  /\ refresh[o] # None /\ refresh[o].phase = "sent"
  /\ LET secret == refresh[o].secret
         ours == session # None /\ secret # None /\ secret >= session.first
         renew == ours /\ secret = session.current /\ issued < MaxTokens IN
     /\ issued' = IF renew THEN issued + 1 ELSE issued
     /\ session' = IF renew THEN [session EXCEPT !.current = issued + 1]
                   ELSE IF ours THEN None ELSE session
     /\ tripped' = (tripped \/ (ours /\ secret # session.current))
     /\ refresh' = [refresh EXCEPT ![o].phase = IF renew THEN "renewed" ELSE "refused",
                                   ![o].token = IF renew THEN issued + 1 ELSE None]
  /\ UNCHANGED <<pageVars, expired, data, applied, call>>

ExpireToken ==
  /\ expired < issued
  /\ expired' = expired + 1
  /\ UNCHANGED <<pageVars, session, issued, data, applied, tripped, call, refresh>>

\* The session is revoked elsewhere or expires.
EndSession ==
  /\ session # None
  /\ session' = None
  /\ UNCHANGED <<pageVars, issued, expired, data, applied, tripped, call, refresh>>

-----------------------------------------------------------------------------
(* Answers reach the page.                                                 *)

\* Answers to superseded loads are dropped.
Current(c) == call[c].ticket = list.sequence

\* The calls of cs end with an error: their subscribers are told.
ListAfterErrors(cs) ==
  IF \E c \in cs : call[c].kind = "load" /\ Current(c)
    THEN [list EXCEPT !.loading = FALSE, !.error = TRUE] ELSE list

\* A 401, but not of the auth endpoints and not of a replay.
Renewable(c) == /\ call[c].answer = "unauthorized"
                /\ call[c].kind # "logout" /\ ~ call[c].replay

\* AuthService.inFlightRefresh: who started the refresh that is under way.
InFlight == {o \in Calls : refresh[o] # None}

\* refresh(): share the one in flight or start one with the cookie in the jar.
AwaitRefresh(c) ==
  /\ call[c].phase = "answered" /\ Renewable(c)
  /\ \/ /\ InFlight # {}
        /\ \E o \in InFlight : call' = [call EXCEPT ![c].phase = "waiting", ![c].via = o]
        /\ UNCHANGED refresh
     \/ /\ InFlight = {} /\ refresh[c] = None
        /\ call' = [call EXCEPT ![c].phase = "waiting", ![c].via = c]
        /\ refresh' = [refresh EXCEPT ![c] = [secret |-> jar, phase |-> "sent", token |-> None]]
  /\ UNCHANGED <<pageVars, serverVars>>

Succeed(c) ==
  /\ call[c].phase = "answered" /\ call[c].answer = "ok"
  /\ CASE call[c].kind = "load" ->
            /\ list' = IF Current(c)
                         THEN [list EXCEPT !.loading = FALSE, !.shown = call[c].query,
                                           !.version = call[c].version]
                         ELSE list
            /\ call' = [call EXCEPT ![c] = NoCall]
            /\ UNCHANGED <<token, jar, told>>
       [] call[c].kind = "save" ->
            /\ told' = call[c].version
            /\ Loaded(c, list.query)
            /\ UNCHANGED <<token, jar>>
       [] call[c].kind = "logout" ->
            /\ token' = None /\ jar' = None
            /\ call' = [call EXCEPT ![c] = NoCall]
            /\ UNCHANGED <<list, told>>
  /\ UNCHANGED <<serverVars, refresh>>

\* catchError of the interceptor covers the replay too; a logout that failed
\* still signs the page out.
GiveUp(c) ==
  /\ call[c].phase = "answered" /\ call[c].answer # "ok" /\ ~ Renewable(c)
  /\ token' = IF call[c].replay \/ call[c].kind = "logout" THEN None ELSE token
  /\ list' = ListAfterErrors({c})
  /\ call' = [call EXCEPT ![c] = NoCall]
  /\ UNCHANGED <<jar, told, serverVars, refresh>>

Waiters(o) == {c \in Calls : call[c].via = o}

\* The new token is accepted and every request that waited is replayed with it.
Renewed(o) ==
  /\ refresh[o] # None /\ refresh[o].phase = "renewed"
  /\ token' = refresh[o].token /\ jar' = refresh[o].token
  /\ call' = [c \in Calls |->
       IF c \in Waiters(o) THEN [call[c] EXCEPT !.phase = "sent", !.via = None, !.replay = TRUE,
                                                !.token = refresh[o].token]
       ELSE call[c]]
  /\ refresh' = [refresh EXCEPT ![o] = None]
  /\ UNCHANGED <<list, told, serverVars>>

\* The session is over: the page forgets its token, the requests fail.
Refused(o) ==
  /\ refresh[o] # None /\ refresh[o].phase = "refused"
  /\ token' = None
  /\ list' = ListAfterErrors(Waiters(o))
  /\ call' = [c \in Calls |-> IF c \in Waiters(o) THEN NoCall ELSE call[c]]
  /\ refresh' = [refresh EXCEPT ![o] = None]
  /\ UNCHANGED <<jar, told, serverVars>>

-----------------------------------------------------------------------------
\* What happens to a request once it is sent.
Progress(c) == \/ Handle(c) \/ Succeed(c) \/ GiveUp(c) \/ AwaitRefresh(c)
               \/ HandleRefresh(c) \/ Renewed(c) \/ Refused(c)

Next ==
  \/ \E c \in Calls : \/ \E q \in Queries : Load(c, q)
                      \/ Save(c) \/ Logout(c) \/ Progress(c)
  \/ Login \/ ExpireToken \/ EndSession

Spec == Init /\ [][Next]_vars

\* Every request sent is answered, or fails, and the callbacks run.
FairSpec == Spec /\ \A c \in Calls : WF_vars(Progress(c))

-----------------------------------------------------------------------------
(* Properties.                                                             *)

\* A list that has finished loading shows what was asked for last, and at least
\* what the page's own last save made of it, in whatever order the answers came
\* (shared/list-state.ts:10-15, :29-50).
ShowsLatest ==
  (~ list.loading /\ ~ list.error /\ list.sequence > 0)
  => list.shown = list.query /\ list.version >= told

\* A save that fails for another reason than an outdated token is not replayed, so
\* the server applies it at most once (auth.interceptor.ts:41-47).
AppliedOnce == \A c \in Calls : applied[c] <= 1

\* However many requests find the token outdated, one page never presents a
\* secret twice and so never ends its own session (auth.service.ts:27-34).
SessionSurvives == ~ tripped

\* Every request of the page ends, through renewal and replay, and whether or not
\* the session can be renewed (auth.interceptor.ts:39-55).
CallsEnd == \A c \in Calls : call[c].phase # "idle" ~> call[c].phase = "idle"
=============================================================================
