-------------------------- MODULE StaffPageProofs --------------------------
(***************************************************************************)
(* Theorems about StaffPage, for any number of requests in flight, tokens, *)
(* loads and saves.                                                        *)
(***************************************************************************)
EXTENDS StaffPage, TLAPS

-----------------------------------------------------------------------------
(* Types and saves.  That a save is applied once rests on what may still   *)
(* become of it: it has not been applied while it is under way, waits for  *)
(* a token or was refused one.                                             *)

CallRecord == [phase : {"idle", "sent", "answered", "waiting"},
               kind : {"load", "save", "logout"}, ticket : 0 .. MaxLoads,
               query : Queries \cup {None}, token : Tokens \cup {None},
               replay : BOOLEAN, via : Calls \cup {None},
               answer : {"none", "ok", "failed", "unauthorized"}, version : Versions]

Pending(c, kind) == ~ Idle(c) /\ call[c].kind = kind

ToApply(c) ==
  /\ Pending(c, "save")
  /\ call[c].phase \in {"sent", "waiting"} \/ call[c].answer = "unauthorized"

OneSave == \A c, d \in Calls : Pending(c, "save") /\ Pending(d, "save") => c = d

SavesHaveRoom ==
  \A c \in Calls :
    /\ Pending(c, "save") => list.sequence < MaxLoads
    /\ ToApply(c) => applied[c] = 0 /\ data < MaxSaves

SaveInv == PageTypeOK /\ OneSave /\ SavesHaveRoom /\ AppliedOnce

LEMMA NoCallType == NoCall \in CallRecord
BY StaffPageAssumption DEF NoCall, CallRecord, Tokens, Versions

LEMMA InitSaveInv == Init => SaveInv
<1> SUFFICES ASSUME Init PROVE SaveInv
  OBVIOUS
<1> USE StaffPageAssumption DEF Init
<1>1. /\ call \in [Calls -> CallRecord]
      /\ \A c \in Calls : call[c].phase = "idle" /\ call[c].via = None
  BY NoCallType DEF NoCall
<1>2. /\ token \in Tokens /\ jar \in Tokens /\ issued \in Tokens /\ expired \in 0 .. issued
      /\ session \in [first : Tokens, current : Tokens]
      /\ data \in Versions /\ told \in Versions
  BY DEF Tokens, Versions
<1>3. list \in [sequence : 0 .. MaxLoads, query : Queries, loading : BOOLEAN,
                error : BOOLEAN, shown : Queries \cup {None}, version : Versions]
  BY DEF Versions
<1>4. /\ refresh \in [Calls -> RefreshRecord \cup {None}]
      /\ applied \in [Calls -> Nat] /\ \A c \in Calls : applied[c] = 0
      /\ tripped \in BOOLEAN
  OBVIOUS
<1>5. PageTypeOK
  <2> HIDE DEF Init
  <2> QED BY <1>1, <1>2, <1>3, <1>4 DEF PageTypeOK, CallRecord, RefreshRecord
<1>6. OneSave /\ SavesHaveRoom /\ AppliedOnce
  <2> HIDE DEF Init
  <2> QED BY <1>1, <1>4 DEF OneSave, SavesHaveRoom, AppliedOnce, ToApply, Pending, Idle
<1> QED BY <1>5, <1>6 DEF SaveInv

\* The calls keep their types when each is left alone, dropped or well formed.
LEMMA CallsStayTyped ==
  ASSUME PageTypeOK, NEW f \in [Calls -> CallRecord], call' = f,
         \A c \in Calls : f[c].phase = "waiting" <=> f[c].via # None,
         token' \in Tokens \cup {None}, jar' \in Tokens \cup {None},
         refresh' \in [Calls -> RefreshRecord \cup {None}],
         UNCHANGED <<session, issued, expired, tripped>>,
         list' \in [sequence : 0 .. MaxLoads, query : Queries, loading : BOOLEAN,
                    error : BOOLEAN, shown : Queries \cup {None}, version : Versions],
         data' \in Versions, told' \in Versions, applied' \in [Calls -> Nat]
  PROVE  PageTypeOK'
BY DEF PageTypeOK, CallRecord, RefreshRecord, Tokens, Versions

\* Steps that apply no save and start neither a save nor a load.
LEMMA SavesKept ==
  ASSUME SaveInv, list'.sequence = list.sequence, data' = data, applied' = applied,
         \A c \in Calls : \/ call'[c] = call[c]
                          \/ call'[c].phase = "idle" \/ call'[c].kind # "save"
                          \/ /\ Pending(c, "save")
                             /\ \/ ToApply(c)
                                \/ /\ call'[c].phase = "answered"
                                   /\ call'[c].answer # "unauthorized"
  PROVE  OneSave' /\ SavesHaveRoom' /\ AppliedOnce'
<1>1. \A c \in Calls : /\ Pending(c, "save")' => Pending(c, "save")
                       /\ ToApply(c)' => ToApply(c)
  BY DEF Pending, ToApply, Idle
<1> QED BY <1>1 DEF SaveInv, OneSave, SavesHaveRoom, AppliedOnce

ListRecord == [sequence : 0 .. MaxLoads, query : Queries, loading : BOOLEAN,
               error : BOOLEAN, shown : Queries \cup {None}, version : Versions]

\* What the type invariant says of the parts a step works with.
LEMMA PageTypes ==
  ASSUME PageTypeOK
  PROVE  /\ call \in [Calls -> CallRecord]
         /\ \A c \in Calls : call[c] \in CallRecord
         /\ \A c \in Calls : call[c].phase = "waiting" <=> call[c].via # None
         /\ refresh \in [Calls -> RefreshRecord \cup {None}]
         /\ list \in ListRecord
         /\ applied \in [Calls -> Nat]
         /\ token \in Tokens \cup {None} /\ jar \in Tokens \cup {None}
         /\ data \in Versions /\ told \in Versions
BY DEF PageTypeOK, CallRecord, RefreshRecord, ListRecord

\* A step keeps the types that changes each variable within its type or not at all.
LEMMA TypedAgain ==
  ASSUME PageTypeOK, call' \in [Calls -> CallRecord],
         \A c \in Calls : call'[c].phase = "waiting" <=> call'[c].via # None,
         list' = list \/ list' \in ListRecord,
         token' = token \/ token' \in Tokens \cup {None},
         jar' = jar \/ jar' \in Tokens \cup {None},
         refresh' = refresh \/ refresh' \in [Calls -> RefreshRecord \cup {None}],
         told' = told \/ told' \in Versions,
         applied' = applied \/ applied' \in [Calls -> Nat],
         UNCHANGED <<session, issued, expired, data, tripped>>
  PROVE  PageTypeOK'
<1>1. /\ list' \in ListRecord /\ data' \in Versions /\ told' \in Versions
      /\ applied' \in [Calls -> Nat]
  BY PageTypes
<1>2. /\ token' \in Tokens \cup {None} /\ jar' \in Tokens \cup {None}
      /\ refresh' \in [Calls -> RefreshRecord \cup {None}]
  BY PageTypes
<1> QED BY <1>1, <1>2, CallsStayTyped DEF ListRecord

\* The record a request or a load is sent with.
LEMMA LoadedTypes ==
  ASSUME PageTypeOK, NEW c \in Calls, NEW q \in Queries, Loaded(c, q), list.sequence < MaxLoads
  PROVE  /\ call' \in [Calls -> CallRecord] /\ list' \in ListRecord
         /\ list'.sequence = list.sequence + 1 /\ list'.loading /\ ~ list'.error
         /\ list'.query = q /\ list'.version = list.version /\ list'.shown = list.shown
         /\ call'[c].phase = "sent" /\ call'[c].kind = "load" /\ call'[c].via = None
         /\ call'[c].ticket = list.sequence + 1 /\ call'[c].query = q
         /\ \A d \in Calls \ {c} : call'[d] = call[d]
<1> DEFINE k == [NoCall EXCEPT !.phase = "sent", !.ticket = list.sequence + 1,
                               !.query = q, !.token = AccessToken]
<1>1. list.sequence + 1 \in 0 .. MaxLoads /\ token \in Tokens \cup {None}
  BY PageTypes, StaffPageAssumption DEF ListRecord
<1>2. /\ k \in CallRecord /\ k.phase = "sent" /\ k.kind = "load" /\ k.via = None
      /\ k.ticket = list.sequence + 1 /\ k.query = q
  BY <1>1, NoCallType DEF CallRecord, NoCall, AccessToken
<1>3. call' = [call EXCEPT ![c] = k]
  BY DEF Loaded
<1> HIDE DEF k
<1>4. /\ call' \in [Calls -> CallRecord] /\ call'[c] = k
      /\ \A d \in Calls \ {c} : call'[d] = call[d]
  BY <1>2, <1>3, PageTypes
<1>5. /\ list' \in ListRecord
      /\ list'.sequence = list.sequence + 1 /\ list'.loading /\ ~ list'.error
      /\ list'.query = q /\ list'.version = list.version /\ list'.shown = list.shown
  BY <1>1, PageTypes DEF Loaded, ListRecord
<1> QED BY <1>2, <1>4, <1>5

LEMMA LoadSaves ==
  ASSUME SaveInv, NEW c \in Calls, NEW q \in Queries, Load(c, q)
  PROVE  SaveInv'
<1>1. PageTypeOK /\ list.sequence \in Nat /\ list.sequence < MaxLoads
  BY PageTypes, StaffPageAssumption DEF SaveInv, Load, ListRecord
<1>2. /\ call' \in [Calls -> CallRecord] /\ list' \in ListRecord
      /\ list'.sequence = list.sequence + 1
      /\ call'[c].phase = "sent" /\ call'[c].kind = "load" /\ call'[c].via = None
      /\ \A d \in Calls \ {c} : call'[d] = call[d]
  BY <1>1, LoadedTypes DEF Load
<1>3. \A d \in Calls : call'[d].phase = "waiting" <=> call'[d].via # None
  BY <1>1, <1>2, PageTypes
<1>4. UNCHANGED <<token, jar, told, serverVars, refresh>>
  BY DEF Load
<1>5. PageTypeOK'
  BY <1>1, <1>2, <1>3, <1>4, TypedAgain DEF serverVars
<1>6. \A d \in Calls : /\ Pending(d, "save")' => Pending(d, "save") /\ Saving
                       /\ ToApply(d)' => ToApply(d)
  BY <1>2 DEF Pending, ToApply, Idle, Saving
<1>7. Saving => list'.sequence < MaxLoads
  BY <1>1, <1>2, StaffPageAssumption DEF Load
<1>8. OneSave' /\ SavesHaveRoom' /\ AppliedOnce'
  BY <1>4, <1>6, <1>7 DEF SaveInv, OneSave, SavesHaveRoom, AppliedOnce, serverVars
<1> QED BY <1>5, <1>8 DEF SaveInv

LEMMA SaveSaves ==
  ASSUME SaveInv, NEW c \in Calls, Save(c)
  PROVE  SaveInv'
<1> DEFINE k == [NoCall EXCEPT !.phase = "sent", !.kind = "save", !.token = AccessToken]
<1>1. PageTypeOK
  BY DEF SaveInv
<1>2. k \in CallRecord /\ k.phase = "sent" /\ k.kind = "save" /\ k.via = None
  BY <1>1, PageTypes, NoCallType DEF CallRecord, NoCall, AccessToken
<1>3. /\ call' = [call EXCEPT ![c] = k] /\ applied' = [applied EXCEPT ![c] = 0]
      /\ UNCHANGED <<pageVars, session, issued, expired, data, tripped, refresh>>
      /\ list.sequence < MaxLoads /\ data < MaxSaves /\ ~ Saving
  BY DEF Save
<1> HIDE DEF k
<1>4. /\ call' \in [Calls -> CallRecord] /\ call'[c] = k
      /\ \A d \in Calls \ {c} : call'[d] = call[d]
      /\ applied' \in [Calls -> Nat] /\ applied'[c] = 0
      /\ \A d \in Calls \ {c} : applied'[d] = applied[d]
  BY <1>1, <1>2, <1>3, PageTypes
<1>5. \A d \in Calls : call'[d].phase = "waiting" <=> call'[d].via # None
  BY <1>1, <1>2, <1>4, PageTypes
<1>6. PageTypeOK'
  BY <1>1, <1>3, <1>4, <1>5, TypedAgain DEF pageVars
<1>7. \A d \in Calls \ {c} : ~ Pending(d, "save")' /\ ~ ToApply(d)'
  BY <1>3, <1>4 DEF Saving, Pending, ToApply, Idle
<1>8. OneSave'
  BY <1>7 DEF OneSave
<1>9. SavesHaveRoom'
  BY <1>3, <1>4, <1>7 DEF SavesHaveRoom, pageVars
<1>10. AppliedOnce'
  BY <1>4 DEF SaveInv, AppliedOnce
<1> QED BY <1>6, <1>8, <1>9, <1>10 DEF SaveInv

LEMMA LogoutSaves ==
  ASSUME SaveInv, NEW c \in Calls, Logout(c)
  PROVE  SaveInv'
<1> DEFINE k == [NoCall EXCEPT !.phase = "sent", !.kind = "logout", !.token = jar]
<1>1. PageTypeOK
  BY DEF SaveInv
<1>2. k \in CallRecord /\ k.phase = "sent" /\ k.kind = "logout" /\ k.via = None
  BY <1>1, PageTypes, NoCallType DEF CallRecord, NoCall
<1>3. call' = [call EXCEPT ![c] = k] /\ UNCHANGED <<pageVars, serverVars, refresh>>
  BY DEF Logout
<1> HIDE DEF k
<1>4. /\ call' \in [Calls -> CallRecord] /\ call'[c] = k
      /\ \A d \in Calls \ {c} : call'[d] = call[d]
  BY <1>1, <1>2, <1>3, PageTypes
<1>5. \A d \in Calls : call'[d].phase = "waiting" <=> call'[d].via # None
  BY <1>1, <1>2, <1>4, PageTypes
<1>6. PageTypeOK'
  BY <1>1, <1>3, <1>4, <1>5, TypedAgain DEF pageVars, serverVars
<1>7. OneSave' /\ SavesHaveRoom' /\ AppliedOnce'
  BY <1>2, <1>3, <1>4, SavesKept DEF pageVars, serverVars
<1> QED BY <1>6, <1>7 DEF SaveInv

\* Steps of the server and of the person that leave the calls alone.
LEMMA SavesUntouched ==
  ASSUME SaveInv, PageTypeOK', UNCHANGED <<call, list, data, applied>>
  PROVE  SaveInv'
<1>1. OneSave' /\ SavesHaveRoom' /\ AppliedOnce'
  BY SavesKept
<1> QED BY <1>1 DEF SaveInv

LEMMA OthersSave ==
  ASSUME SaveInv, Login \/ ExpireToken \/ EndSession
         \/ \E o \in Calls : HandleRefresh(o)
  PROVE  SaveInv'
<1> USE StaffPageAssumption
<1>1. PageTypeOK
  BY DEF SaveInv
<1>2. CASE Login
  <2>1. issued + 1 \in Tokens /\ issued < issued + 1 /\ expired \in 0 .. issued + 1
    BY <1>1, <1>2 DEF Login, PageTypeOK, Tokens
  <2>2. PageTypeOK'
    BY <1>1, <1>2, <2>1 DEF Login, PageTypeOK
  <2> QED BY <1>2, <2>2, SavesUntouched DEF Login
<1>3. CASE ExpireToken
  <2>1. expired' \in 0 .. issued
    BY <1>1, <1>3 DEF ExpireToken, PageTypeOK, Tokens
  <2>2. PageTypeOK'
    BY <1>1, <1>3, <2>1 DEF ExpireToken, PageTypeOK, pageVars
  <2> QED BY <1>3, <2>2, SavesUntouched DEF ExpireToken, pageVars
<1>4. CASE EndSession
  <2>1. PageTypeOK'
    BY <1>1, <1>4 DEF EndSession, PageTypeOK, pageVars
  <2> QED BY <1>4, <2>1, SavesUntouched DEF EndSession, pageVars
<1>5. ASSUME NEW o \in Calls, HandleRefresh(o) PROVE SaveInv'
  <2> DEFINE renew == issued' = issued + 1
  <2>1. /\ issued' = issued \/ (issued' = issued + 1 /\ issued < MaxTokens)
        /\ UNCHANGED <<pageVars, expired, data, applied, call>>
    BY <1>5 DEF HandleRefresh
  <2>2. issued' \in Tokens /\ expired' \in 0 .. issued'
    BY <1>1, <2>1 DEF PageTypeOK, Tokens
  <2>3. \/ session' = session \/ session' = None
        \/ session # None /\ issued' = issued + 1 /\ session' = [session EXCEPT !.current = issued + 1]
    BY <1>5 DEF HandleRefresh
  <2>4. session' \in [first : Tokens, current : Tokens] \cup {None}
    BY <1>1, <2>2, <2>3 DEF PageTypeOK
  <2>5. refresh[o] \in RefreshRecord
    BY <1>1, <1>5, PageTypes DEF HandleRefresh
  <2>6. \E p \in {"renewed", "refused"}, t \in {issued', None} :
          refresh' = [refresh EXCEPT ![o].phase = p, ![o].token = t]
    <3>1. CASE session # None /\ refresh[o].secret # None /\ refresh[o].secret >= session.first
               /\ refresh[o].secret = session.current /\ issued < MaxTokens
      BY <1>5, <3>1 DEF HandleRefresh
    <3>2. CASE ~ (session # None /\ refresh[o].secret # None /\ refresh[o].secret >= session.first
               /\ refresh[o].secret = session.current /\ issued < MaxTokens)
      BY <1>5, <3>2 DEF HandleRefresh
    <3> QED BY <3>1, <3>2
  <2>7. refresh' \in [Calls -> RefreshRecord \cup {None}]
    <3>1. PICK p \in {"renewed", "refused"}, t \in {issued', None} :
            refresh' = [refresh EXCEPT ![o].phase = p, ![o].token = t]
      BY <2>6
    <3>2. [[refresh[o] EXCEPT !.phase = p] EXCEPT !.token = t] \in RefreshRecord
      BY <2>2, <2>5 DEF RefreshRecord
    <3>3. refresh' = [refresh EXCEPT ![o] = [[refresh[o] EXCEPT !.phase = p] EXCEPT !.token = t]]
      BY <1>1, <2>5, <3>1, PageTypes DEF RefreshRecord
    <3> QED BY <1>1, <3>2, <3>3, PageTypes
  <2>8. tripped' \in BOOLEAN
    BY <1>1, <1>5 DEF HandleRefresh, PageTypeOK
  <2>9. PageTypeOK'
    BY <1>1, <2>1, <2>2, <2>4, <2>7, <2>8 DEF PageTypeOK, RefreshRecord, pageVars
  <2> QED BY <2>1, <2>9, SavesUntouched DEF pageVars
<1> QED BY <1>2, <1>3, <1>4, <1>5

LEMMA AnsweredTypes ==
  ASSUME PageTypeOK, NEW c \in Calls, call[c].phase = "sent",
         NEW a \in {"ok", "failed", "unauthorized"}, NEW v \in Versions, Answered(c, a, v)
  PROVE  /\ call' \in [Calls -> CallRecord]
         /\ call'[c].phase = "answered" /\ call'[c].answer = a /\ call'[c].version = v
         /\ call'[c].kind = call[c].kind /\ call'[c].ticket = call[c].ticket
         /\ call'[c].query = call[c].query /\ call'[c].via = None
         /\ \A d \in Calls \ {c} : call'[d] = call[d]
<1> DEFINE k == [[[call[c] EXCEPT !.phase = "answered"] EXCEPT !.answer = a] EXCEPT !.version = v]
<1>1. call[c] \in CallRecord /\ call[c].via = None
  BY PageTypes
<1>2. /\ k \in CallRecord /\ k.phase = "answered" /\ k.answer = a /\ k.version = v
      /\ k.kind = call[c].kind /\ k.ticket = call[c].ticket
      /\ k.query = call[c].query /\ k.via = None
  BY <1>1 DEF CallRecord
<1>3. call' = [call EXCEPT ![c] = k]
  BY <1>1, PageTypes DEF Answered, CallRecord
<1> HIDE DEF k
<1> QED BY <1>2, <1>3, PageTypes

\* The server's step in one formula: the answer, the version and a save applied.
LEMMA HandleForms ==
  ASSUME SaveInv, NEW c \in Calls, Handle(c)
  PROVE  /\ call[c].phase = "sent"
         /\ UNCHANGED <<pageVars, issued, expired, tripped, refresh>>
         /\ session' = session \/ session' = None
         /\ \/ /\ call[c].kind = "save" /\ data' = data + 1
               /\ applied' = [applied EXCEPT ![c] = @ + 1]
               /\ \E a \in {"ok", "failed"} : Answered(c, a, data + 1)
            \/ /\ UNCHANGED <<data, applied>>
               /\ \E a \in {"ok", "failed", "unauthorized"}, v \in {0, data} :
                    /\ Answered(c, a, v)
                    /\ a = "ok" /\ call[c].kind = "load" => v = data
<1>1. CASE call[c].kind # "logout" /\ ~ Valid(c) /\ Answered(c, "unauthorized", 0)
           /\ UNCHANGED <<session, data, applied>>
  BY <1>1 DEF Handle
<1>2. CASE call[c].kind = "load" /\ Valid(c) /\ UNCHANGED <<session, data, applied>>
           /\ \E answer \in {"ok", "failed"} : Answered(c, answer, data)
  BY <1>2 DEF Handle
<1>3. CASE call[c].kind = "save" /\ UNCHANGED session
           /\ \/ /\ \E answer \in {"ok", "failed"} : Answered(c, answer, data + 1)
                 /\ data' = data + 1
                 /\ applied' = [applied EXCEPT ![c] = @ + 1]
              \/ Answered(c, "failed", data) /\ UNCHANGED <<data, applied>>
  BY <1>3 DEF Handle
<1>4. CASE /\ call[c].kind = "logout" /\ UNCHANGED <<data, applied>>
           /\ session' = session \/ session' = None
           /\ \E answer \in {"ok", "failed"} : Answered(c, answer, 0)
  BY <1>4 DEF Handle
<1> QED BY <1>1, <1>2, <1>3, <1>4 DEF Handle

LEMMA HandleSaves ==
  ASSUME SaveInv, NEW c \in Calls, Handle(c)
  PROVE  SaveInv'
<1>1. PageTypeOK /\ call[c].phase = "sent" /\ call[c] \in CallRecord
  BY HandleForms, PageTypes DEF SaveInv
<1>2. /\ UNCHANGED <<pageVars, issued, expired, tripped, refresh>>
      /\ session' = session \/ session' = None
  BY HandleForms
<1>3. ASSUME NEW a \in {"ok", "failed", "unauthorized"}, NEW v \in Versions, Answered(c, a, v),
             data' \in Versions, applied' \in [Calls -> Nat]
      PROVE  PageTypeOK'
  <2>1. /\ call' \in [Calls -> CallRecord]
        /\ call'[c].phase = "answered" /\ call'[c].via = None
        /\ \A d \in Calls \ {c} : call'[d] = call[d]
    BY <1>1, <1>3, AnsweredTypes
  <2>2. \A d \in Calls : call'[d].phase = "waiting" <=> call'[d].via # None
    BY <1>1, <2>1, PageTypes
  <2> QED BY <1>1, <1>2, <1>3, <2>1, <2>2 DEF PageTypeOK, CallRecord, pageVars
<1>4. CASE /\ call[c].kind = "save" /\ data' = data + 1
           /\ applied' = [applied EXCEPT ![c] = @ + 1]
           /\ \E a \in {"ok", "failed"} : Answered(c, a, data + 1)
  <2>1. PICK a \in {"ok", "failed"} : Answered(c, a, data + 1)
    BY <1>4
  <2>2. Pending(c, "save") /\ ToApply(c)
    BY <1>1, <1>4 DEF Pending, ToApply, Idle
  <2>3. applied[c] = 0 /\ data < MaxSaves /\ list.sequence < MaxLoads
    BY <2>2 DEF SaveInv, SavesHaveRoom
  <2>4. data + 1 \in Versions
    BY <1>1, <2>3, PageTypes, StaffPageAssumption DEF Versions
  <2>5. /\ applied' \in [Calls -> Nat] /\ applied'[c] = 1
        /\ \A d \in Calls \ {c} : applied'[d] = applied[d]
    BY <1>1, <1>4, <2>3, PageTypes
  <2>6. PageTypeOK'
    BY <1>3, <1>4, <2>1, <2>4, <2>5
  <2>7. /\ call'[c].phase = "answered" /\ call'[c].answer = a /\ call'[c].kind = "save"
        /\ \A d \in Calls \ {c} : call'[d] = call[d]
    BY <1>1, <1>4, <2>1, <2>4, AnsweredTypes
  <2>8. \A d \in Calls : Pending(d, "save")' => d = c
    BY <2>2, <2>7 DEF SaveInv, OneSave, Pending, Idle
  <2>9. \A d \in Calls : ~ ToApply(d)'
    BY <2>7, <2>8 DEF ToApply
  <2>10. OneSave' /\ SavesHaveRoom'
    BY <1>2, <2>3, <2>8, <2>9 DEF OneSave, SavesHaveRoom, pageVars
  <2>11. AppliedOnce'
    BY <2>5 DEF SaveInv, AppliedOnce
  <2> QED BY <2>6, <2>10, <2>11 DEF SaveInv
<1>5. CASE /\ UNCHANGED <<data, applied>>
           /\ \E a \in {"ok", "failed", "unauthorized"}, v \in {0, data} : Answered(c, a, v)
  <2>1. PICK a \in {"ok", "failed", "unauthorized"}, v \in {0, data} : Answered(c, a, v)
    BY <1>5
  <2>2. v \in Versions
    BY <1>1, PageTypes, StaffPageAssumption DEF Versions
  <2>3. PageTypeOK'
    BY <1>1, <1>3, <1>5, <2>1, <2>2, PageTypes
  <2>4. /\ call'[c].phase = "answered" /\ call'[c].kind = call[c].kind
        /\ \A d \in Calls \ {c} : call'[d] = call[d]
    BY <1>1, <2>1, <2>2, AnsweredTypes
  <2>5. call[c].kind = "save" => Pending(c, "save") /\ ToApply(c)
    BY <1>1 DEF Pending, ToApply, Idle
  <2>6. OneSave' /\ SavesHaveRoom' /\ AppliedOnce'
    BY <1>2, <1>5, <2>4, <2>5, SavesKept DEF pageVars
  <2> QED BY <2>3, <2>6 DEF SaveInv
<1> QED BY <1>4, <1>5, HandleForms

\* A call that ends leaves its place to another.
LEMMA EndedCalls ==
  ASSUME PageTypeOK, NEW cs \in SUBSET Calls,
         call' = [c \in Calls |-> IF c \in cs THEN NoCall ELSE call[c]]
  PROVE  /\ call' \in [Calls -> CallRecord]
         /\ \A c \in cs : call'[c].phase = "idle"
         /\ \A c \in Calls \ cs : call'[c] = call[c]
         /\ \A c \in Calls : call'[c].phase = "waiting" <=> call'[c].via # None
<1>1. /\ call' \in [Calls -> CallRecord]
      /\ \A c \in cs : call'[c] = NoCall
      /\ \A c \in Calls \ cs : call'[c] = call[c]
  BY PageTypes, NoCallType
<1>2. NoCall.phase = "idle" /\ NoCall.via = None
  BY DEF NoCall
<1> QED BY <1>1, <1>2, PageTypes

LEMMA OneEnds ==
  ASSUME PageTypeOK, NEW c \in Calls, call' = [call EXCEPT ![c] = NoCall]
  PROVE  call' = [d \in Calls |-> IF d \in {c} THEN NoCall ELSE call[d]]
BY PageTypes

\* Calls that fail tell the list, and no more.
LEMMA ErrorsTyped ==
  ASSUME PageTypeOK, NEW cs \in SUBSET Calls, list' = ListAfterErrors(cs)
  PROVE  /\ list' \in ListRecord
         /\ list'.sequence = list.sequence /\ list'.query = list.query
         /\ list' = list \/ list'.error
<1>1. list' = list \/ list' = [list EXCEPT !.loading = FALSE, !.error = TRUE]
  BY DEF ListAfterErrors
<1> QED BY <1>1, PageTypes DEF ListRecord

\* Calls that end disturb no save.
LEMMA EndsSave ==
  ASSUME SaveInv, NEW cs \in SUBSET Calls,
         call' = [c \in Calls |-> IF c \in cs THEN NoCall ELSE call[c]],
         list' \in ListRecord, list'.sequence = list.sequence,
         token' \in Tokens \cup {None}, jar' \in Tokens \cup {None},
         refresh' \in [Calls -> RefreshRecord \cup {None}],
         UNCHANGED <<session, issued, expired, data, applied, tripped, told>>
  PROVE  SaveInv'
<1>1. PageTypeOK
  BY DEF SaveInv
<1>2. PageTypeOK'
  <2>1. /\ call' \in [Calls -> CallRecord]
        /\ \A c \in Calls : call'[c].phase = "waiting" <=> call'[c].via # None
    BY <1>1, EndedCalls
  <2> QED BY <1>1, <2>1, TypedAgain
<1>3. OneSave' /\ SavesHaveRoom' /\ AppliedOnce'
  BY <1>1, EndedCalls, SavesKept
<1> QED BY <1>2, <1>3 DEF SaveInv

LEMMA GiveUpSaves ==
  ASSUME SaveInv, NEW c \in Calls, GiveUp(c)
  PROVE  SaveInv'
<1>1. PageTypeOK
  BY DEF SaveInv
<1>2. call' = [d \in Calls |-> IF d \in {c} THEN NoCall ELSE call[d]]
  BY <1>1, OneEnds DEF GiveUp
<1> {c} \in SUBSET Calls
  OBVIOUS
<1>3. list' \in ListRecord /\ list'.sequence = list.sequence
  BY <1>1, ErrorsTyped DEF GiveUp
<1>4. token' \in Tokens \cup {None}
  BY <1>1, PageTypes DEF GiveUp
<1>5. UNCHANGED <<jar, told, serverVars, refresh>>
  BY DEF GiveUp
<1> QED BY <1>1, <1>2, <1>3, <1>4, <1>5, PageTypes, EndsSave DEF serverVars

LEMMA RefusedSaves ==
  ASSUME SaveInv, NEW o \in Calls, Refused(o)
  PROVE  SaveInv'
<1>1. PageTypeOK /\ Waiters(o) \in SUBSET Calls
  BY DEF SaveInv, Waiters
<1>2. call' = [c \in Calls |-> IF c \in Waiters(o) THEN NoCall ELSE call[c]]
  BY DEF Refused
<1>3. list' \in ListRecord /\ list'.sequence = list.sequence
  BY <1>1, ErrorsTyped DEF Refused
<1>4. token' = None /\ UNCHANGED <<jar, told, serverVars>>
      /\ refresh' = [refresh EXCEPT ![o] = None]
  BY DEF Refused
<1>5. refresh' \in [Calls -> RefreshRecord \cup {None}]
  BY <1>1, <1>4, PageTypes
<1> QED BY <1>1, <1>2, <1>3, <1>4, <1>5, PageTypes, EndsSave DEF serverVars

LEMMA SucceedSaves ==
  ASSUME SaveInv, NEW c \in Calls, Succeed(c)
  PROVE  SaveInv'
<1>1. PageTypeOK /\ call[c] \in CallRecord /\ call[c].phase = "answered"
      /\ UNCHANGED <<serverVars, refresh>>
  BY PageTypes DEF SaveInv, Succeed
<1> {c} \in SUBSET Calls
  OBVIOUS
<1>2. CASE call[c].kind = "load"
  <2>1. /\ call' = [call EXCEPT ![c] = NoCall] /\ UNCHANGED <<token, jar, told>>
        /\ \/ list' = list
           \/ list' = [list EXCEPT !.loading = FALSE, !.shown = call[c].query,
                                   !.version = call[c].version]
    BY <1>2 DEF Succeed
  <2>2. list' \in ListRecord /\ list'.sequence = list.sequence
    BY <1>1, <2>1, PageTypes DEF ListRecord, CallRecord
  <2> QED BY <1>1, <2>1, <2>2, OneEnds, PageTypes, EndsSave DEF serverVars
<1>3. CASE call[c].kind = "save"
  <2>1. told' = call[c].version /\ Loaded(c, list.query) /\ UNCHANGED <<token, jar>>
    BY <1>3 DEF Succeed
  <2>2. Pending(c, "save") /\ list.sequence < MaxLoads
    BY <1>1, <1>3 DEF Pending, Idle, SaveInv, SavesHaveRoom
  <2>3. list.query \in Queries
    BY <1>1, PageTypes DEF ListRecord
  <2>4. /\ call' \in [Calls -> CallRecord] /\ list' \in ListRecord
        /\ call'[c].phase = "sent" /\ call'[c].kind = "load" /\ call'[c].via = None
        /\ \A d \in Calls \ {c} : call'[d] = call[d]
    BY <1>1, <2>1, <2>2, <2>3, LoadedTypes
  <2>5. \A d \in Calls : call'[d].phase = "waiting" <=> call'[d].via # None
    BY <1>1, <2>4, PageTypes
  <2>6. told' \in Versions
    BY <1>1, <2>1 DEF CallRecord
  <2>7. PageTypeOK'
    BY <1>1, <2>1, <2>4, <2>5, <2>6, TypedAgain DEF serverVars
  <2>8. \A d \in Calls : ~ Pending(d, "save")'
    BY <2>2, <2>4 DEF SaveInv, OneSave, Pending, Idle
  <2>9. OneSave' /\ SavesHaveRoom' /\ AppliedOnce'
    BY <1>1, <2>8 DEF SaveInv, OneSave, SavesHaveRoom, ToApply, AppliedOnce, serverVars
  <2> QED BY <2>7, <2>9 DEF SaveInv
<1>4. CASE call[c].kind = "logout"
  <2>1. /\ call' = [call EXCEPT ![c] = NoCall] /\ UNCHANGED <<list, told>>
        /\ token' = None /\ jar' = None
    BY <1>4 DEF Succeed
  <2> QED BY <1>1, <2>1, OneEnds, PageTypes, EndsSave DEF serverVars
<1> QED BY <1>1, <1>2, <1>3, <1>4 DEF CallRecord

LEMMA AwaitRefreshSaves ==
  ASSUME SaveInv, NEW c \in Calls, AwaitRefresh(c)
  PROVE  SaveInv'
<1>1. PageTypeOK /\ call[c] \in CallRecord /\ call[c].phase = "answered"
      /\ call[c].answer = "unauthorized" /\ UNCHANGED <<pageVars, serverVars>>
  BY PageTypes DEF SaveInv, AwaitRefresh, Renewable
<1>2. PICK o \in Calls : call' = [call EXCEPT ![c].phase = "waiting", ![c].via = o]
  BY DEF AwaitRefresh, InFlight
<1> DEFINE k == [[call[c] EXCEPT !.phase = "waiting"] EXCEPT !.via = o]
<1>3. /\ k \in CallRecord /\ k.phase = "waiting" /\ k.via = o /\ k.kind = call[c].kind
      /\ o # None
  BY <1>1, StaffPageAssumption DEF CallRecord
<1>4. call' = [call EXCEPT ![c] = k]
  BY <1>1, <1>2, PageTypes DEF CallRecord
<1> HIDE DEF k
<1>5. /\ call' \in [Calls -> CallRecord] /\ call'[c] = k
      /\ \A d \in Calls \ {c} : call'[d] = call[d]
  BY <1>1, <1>3, <1>4, PageTypes
<1>6. \A d \in Calls : call'[d].phase = "waiting" <=> call'[d].via # None
  BY <1>1, <1>3, <1>5, PageTypes
<1>7. \/ refresh' = refresh
      \/ refresh' = [refresh EXCEPT ![c] = [secret |-> jar, phase |-> "sent", token |-> None]]
  BY DEF AwaitRefresh
<1>8. refresh' \in [Calls -> RefreshRecord \cup {None}]
  <2>1. [secret |-> jar, phase |-> "sent", token |-> None] \in RefreshRecord
    BY <1>1, PageTypes DEF RefreshRecord
  <2> QED BY <1>1, <1>7, <2>1, PageTypes
<1>9. PageTypeOK'
  BY <1>1, <1>5, <1>6, <1>8, TypedAgain DEF pageVars, serverVars
<1>10. call[c].kind = "save" => Pending(c, "save") /\ ToApply(c)
  BY <1>1 DEF Pending, ToApply, Idle
<1>11. OneSave' /\ SavesHaveRoom' /\ AppliedOnce'
  BY <1>1, <1>3, <1>5, <1>10, SavesKept DEF pageVars, serverVars
<1> QED BY <1>9, <1>11 DEF SaveInv

LEMMA RenewedSaves ==
  ASSUME SaveInv, NEW o \in Calls, Renewed(o)
  PROVE  SaveInv'
<1>1. PageTypeOK /\ refresh[o] \in RefreshRecord
  BY PageTypes DEF SaveInv, Renewed
<1> DEFINE t == refresh[o].token
           k(c) == [call[c] EXCEPT !.phase = "sent", !.via = None, !.replay = TRUE, !.token = t]
<1>2. /\ token' = t /\ jar' = t /\ UNCHANGED <<list, told, serverVars>>
      /\ refresh' = [refresh EXCEPT ![o] = None]
      /\ call' = [c \in Calls |-> IF c \in Waiters(o) THEN k(c) ELSE call[c]]
  BY DEF Renewed
<1>3. t \in Tokens \cup {None}
  BY <1>1 DEF RefreshRecord
<1>4. \A c \in Calls : /\ k(c) \in CallRecord /\ k(c).phase = "sent" /\ k(c).via = None
                       /\ k(c).kind = call[c].kind
  <2> HIDE DEF t
  <2> TAKE c \in Calls
  <2>1. call[c] \in CallRecord
    BY <1>1, PageTypes
  <2> QED BY <1>3, <2>1, StaffPageAssumption DEF CallRecord
<1> HIDE DEF k, t
<1>5. /\ call' \in [Calls -> CallRecord]
      /\ \A c \in Calls \ Waiters(o) : call'[c] = call[c]
      /\ \A c \in Waiters(o) : /\ call'[c].phase = "sent" /\ call'[c].via = None
                               /\ call'[c].kind = call[c].kind
  <2>1. Waiters(o) \subseteq Calls
    BY DEF Waiters
  <2> QED BY <1>1, <1>2, <1>4, <2>1, PageTypes
<1>6. \A c \in Calls : call'[c].phase = "waiting" <=> call'[c].via # None
  BY <1>1, <1>5, PageTypes
<1>7. refresh' \in [Calls -> RefreshRecord \cup {None}]
  BY <1>1, <1>2, PageTypes
<1>8. PageTypeOK'
  BY <1>1, <1>2, <1>3, <1>5, <1>6, <1>7, TypedAgain DEF serverVars
<1>9. \A c \in Waiters(o) : call[c].phase = "waiting"
  BY <1>1, PageTypes, StaffPageAssumption DEF Waiters
<1>10. \A c \in Waiters(o) : call[c].kind = "save" => Pending(c, "save") /\ ToApply(c)
  BY <1>9 DEF Pending, ToApply, Idle
<1>11. OneSave' /\ SavesHaveRoom' /\ AppliedOnce'
  BY <1>2, <1>5, <1>10, SavesKept DEF serverVars
<1> QED BY <1>8, <1>11 DEF SaveInv

LEMMA StepKeepsSaves == SaveInv /\ [Next]_vars => SaveInv'
<1> SUFFICES ASSUME SaveInv, [Next]_vars PROVE SaveInv'
  OBVIOUS
<1>1. CASE UNCHANGED vars
  BY <1>1 DEF vars, pageVars, serverVars, SaveInv, PageTypeOK, OneSave, SavesHaveRoom,
              AppliedOnce, ToApply, Pending, Idle
<1>2. CASE Login \/ ExpireToken \/ EndSession
  BY <1>2, OthersSave
<1>3. ASSUME NEW c \in Calls,
             (\E q \in Queries : Load(c, q)) \/ Save(c) \/ Logout(c) \/ Progress(c)
      PROVE  SaveInv'
  BY <1>3, LoadSaves, SaveSaves, LogoutSaves, HandleSaves, SucceedSaves, GiveUpSaves,
     AwaitRefreshSaves, OthersSave, RenewedSaves, RefusedSaves DEF Progress
<1> QED BY <1>1, <1>2, <1>3 DEF Next

LEMMA SaveInvHolds == Spec => []SaveInv
<1> QED BY InitSaveInv, StepKeepsSaves, PTL DEF Spec

\* Every variable of the page and of the server keeps its type: no list load finds
\* the tickets used up and no save more rows than there may be.
THEOREM PageKeepsTypes == Spec => []PageTypeOK
<1>1. SaveInv => PageTypeOK
  BY DEF SaveInv
<1> QED BY <1>1, SaveInvHolds, PTL

\* However often tokens expire and requests are replayed, the server applies a save
\* of the page at most once (auth.interceptor.ts:41-47).
THEOREM SavesApplyOnce == Spec => []AppliedOnce
<1>1. SaveInv => AppliedOnce
  BY DEF SaveInv
<1> QED BY <1>1, SaveInvHolds, PTL

-----------------------------------------------------------------------------
(* What the list shows.  Tickets order the loads: only the newest carries  *)
(* the query asked for last, and its answer was read after everything the  *)
(* page had been told of.                                                  *)

LoadOK(c) ==
  Pending(c, "load") =>
    /\ call[c].ticket <= list.sequence
    /\ Current(c) => call[c].query = list.query
    /\ Current(c) /\ call[c].phase = "answered" /\ call[c].answer = "ok"
         => call[c].version >= told

LoadsOrdered == \A c \in Calls : LoadOK(c)

ToldOfData ==
  /\ told <= data
  /\ \A c \in Calls : call[c].kind = "save" => call[c].version <= data

ListInv == SaveInv /\ LoadsOrdered /\ ToldOfData /\ ShowsLatest

LEMMA InitListInv == Init => ListInv
<1> SUFFICES ASSUME Init PROVE ListInv
  OBVIOUS
<1>1. \A c \in Calls : Idle(c) /\ call[c].kind = "load"
  BY DEF Init, NoCall, Idle
<1>2. data = 0 /\ told = 0 /\ list.sequence = 0
  BY DEF Init
<1>3. LoadsOrdered /\ ToldOfData /\ ShowsLatest
  BY <1>1, <1>2 DEF LoadsOrdered, LoadOK, Pending, ToldOfData, ShowsLatest
<1> QED BY <1>3, InitSaveInv DEF ListInv

\* The parts of the state this is about, as numbers.
LEMMA ListNumbers ==
  ASSUME SaveInv
  PROVE  /\ list \in ListRecord /\ list.sequence \in Nat /\ list.version \in Nat
         /\ data \in Nat /\ told \in Nat
         /\ \A c \in Calls : /\ call[c] \in CallRecord
                             /\ call[c].ticket \in Nat /\ call[c].version \in Nat
BY PageTypes, StaffPageAssumption DEF SaveInv, ListRecord, CallRecord, Versions

\* Steps that neither start a load nor tell the page of a save.
LEMMA LoadsKept ==
  ASSUME ListInv, SaveInv', told' = told, data' \in {data, data + 1},
         list'.sequence = list.sequence, list'.query = list.query,
         \A c \in Calls :
           \/ call'[c] = call[c]
           \/ call'[c].phase = "idle" /\ call'[c].kind = "load"
           \/ /\ ~ Idle(c)
              /\ call'[c].kind = call[c].kind /\ call'[c].ticket = call[c].ticket
              /\ call'[c].query = call[c].query
              /\ \/ call'[c].version = call[c].version /\ call'[c].phase # "answered"
                 \/ /\ call[c].kind = "load" /\ call'[c].answer = "ok" => call'[c].version = data
                    /\ call'[c].version <= data'
           \/ call'[c].kind = "save" /\ call'[c].version = 0
           \/ call'[c].kind = "logout"
  PROVE  LoadsOrdered' /\ ToldOfData'
<1>1. /\ told <= data /\ data <= data'
      /\ \A c \in Calls : call'[c].kind = "save" =>
           \/ call'[c].version = call[c].version /\ call[c].kind = "save"
           \/ call'[c].version <= data'
  BY ListNumbers DEF ListInv, ToldOfData
<1>2. ToldOfData'
  BY <1>1, ListNumbers DEF ListInv, ToldOfData
<1>3. ASSUME NEW c \in Calls PROVE LoadOK(c)'
  <2>1. LoadOK(c) /\ call[c].version \in Nat
    BY ListNumbers DEF ListInv, LoadsOrdered
  <2> QED BY <1>1, <2>1, ListNumbers DEF ListInv, LoadOK, Pending, Idle, Current
<1> QED BY <1>2, <1>3 DEF LoadsOrdered

\* A step that leaves the list as it is, or ends a load of it in an error.
LEMMA ListStays ==
  ASSUME ListInv, told' = told, list' = list \/ list'.error
  PROVE  ShowsLatest'
BY DEF ListInv, ShowsLatest

LEMMA HandleLists ==
  ASSUME ListInv, NEW c \in Calls, Handle(c)
  PROVE  ListInv'
<1>1. SaveInv /\ SaveInv' /\ call[c].phase = "sent" /\ UNCHANGED <<list, told>>
  BY HandleForms, HandleSaves DEF ListInv, pageVars
<1>2. data + 1 \in Nat /\ (call[c].kind = "save" => data < MaxSaves)
  BY <1>1, ListNumbers DEF SaveInv, SavesHaveRoom, ToApply, Pending, Idle
<1>3. \E a \in {"ok", "failed", "unauthorized"}, v \in Versions :
        /\ Answered(c, a, v) /\ data' \in {data, data + 1} /\ v <= data'
        /\ a = "ok" /\ call[c].kind = "load" => v = data
  <2>1. CASE call[c].kind = "save" /\ data' = data + 1
             /\ \E a \in {"ok", "failed"} : Answered(c, a, data + 1)
    <3>1. data + 1 \in Versions /\ data + 1 <= data'
      BY <1>1, <1>2, <2>1, ListNumbers, StaffPageAssumption DEF Versions
    <3>2. PICK a \in {"ok", "failed"} : Answered(c, a, data + 1)
      BY <2>1
    <3> QED BY <2>1, <3>1, <3>2
  <2>2. CASE data' = data
             /\ \E a \in {"ok", "failed", "unauthorized"}, v \in {0, data} :
                  /\ Answered(c, a, v)
                  /\ a = "ok" /\ call[c].kind = "load" => v = data
    <3>1. 0 \in Versions /\ data \in Versions /\ 0 <= data' /\ data <= data'
      BY <1>1, <2>2, ListNumbers, PageTypes, StaffPageAssumption DEF Versions, SaveInv
    <3> QED BY <2>2, <3>1
  <2> QED BY <1>1, <2>1, <2>2, HandleForms
<1>4. PICK a \in {"ok", "failed", "unauthorized"}, v \in Versions :
        /\ Answered(c, a, v) /\ data' \in {data, data + 1} /\ v <= data'
        /\ a = "ok" /\ call[c].kind = "load" => v = data
  BY <1>3
<1>5. /\ call'[c].phase = "answered" /\ call'[c].answer = a /\ call'[c].version = v
      /\ call'[c].kind = call[c].kind /\ call'[c].ticket = call[c].ticket
      /\ call'[c].query = call[c].query
      /\ \A d \in Calls \ {c} : call'[d] = call[d]
  BY <1>1, <1>4, AnsweredTypes DEF SaveInv
<1>6. LoadsOrdered' /\ ToldOfData'
  <2> ~ Idle(c)
    BY <1>1 DEF Idle
  <2> QED BY <1>1, <1>4, <1>5, LoadsKept
<1> QED BY <1>1, <1>6, ListStays DEF ListInv

\* A new load carries the newest ticket and what is asked for.
LEMMA NewLoad ==
  ASSUME ListInv, NEW c \in Calls, NEW q \in Queries, Loaded(c, q), SaveInv',
         list.sequence < MaxLoads, data' = data, told' <= data, told' \in Nat
  PROVE  ListInv'
<1>1. /\ list'.sequence = list.sequence + 1 /\ list'.loading /\ list'.query = q
      /\ call'[c].phase = "sent" /\ call'[c].kind = "load"
      /\ call'[c].ticket = list.sequence + 1 /\ call'[c].query = q
      /\ \A d \in Calls \ {c} : call'[d] = call[d]
  BY LoadedTypes DEF ListInv, SaveInv
<1>2. ShowsLatest'
  BY <1>1 DEF ShowsLatest
<1>3. ToldOfData'
  BY <1>1 DEF ListInv, ToldOfData
<1>4. LoadOK(c)'
  BY <1>1, ListNumbers DEF ListInv, LoadOK, Current
<1>5. ASSUME NEW d \in Calls \ {c} PROVE LoadOK(d)'
  <2>1. LoadOK(d) /\ call'[d] = call[d] /\ call[d].ticket \in Nat /\ list.sequence \in Nat
    BY <1>1, ListNumbers DEF ListInv, LoadsOrdered
  <2> QED BY <1>1, <2>1 DEF LoadOK, Current, Pending, Idle
<1> QED BY <1>2, <1>3, <1>4, <1>5 DEF ListInv, LoadsOrdered

LEMMA SucceedLists ==
  ASSUME ListInv, NEW c \in Calls, Succeed(c)
  PROVE  ListInv'
<1>1. SaveInv /\ SaveInv' /\ PageTypeOK /\ call[c] \in CallRecord
      /\ call[c].phase = "answered" /\ call[c].answer = "ok" /\ data' = data
  BY SucceedSaves, PageTypes DEF ListInv, SaveInv, Succeed, serverVars
<1>2. NoCall.phase = "idle" /\ NoCall.kind = "load"
  BY DEF NoCall
<1>3. CASE call[c].kind = "load"
  <2>1. /\ call' = [call EXCEPT ![c] = NoCall] /\ told' = told
        /\ list' = IF Current(c)
                     THEN [list EXCEPT !.loading = FALSE, !.shown = call[c].query,
                                       !.version = call[c].version]
                     ELSE list
    BY <1>3 DEF Succeed
  <2>2. call'[c] = NoCall /\ \A d \in Calls \ {c} : call'[d] = call[d]
    BY <1>1, <2>1, PageTypes
  <2>3. list'.sequence = list.sequence /\ list'.query = list.query
    BY <1>1, <2>1, PageTypes DEF ListRecord
  <2>4. LoadsOrdered' /\ ToldOfData'
    BY <1>1, <1>2, <2>1, <2>2, <2>3, LoadsKept
  <2>5. CASE Current(c)
    <3>1. call[c].query = list.query /\ call[c].version >= told
      BY <1>1, <1>3, <2>5 DEF ListInv, LoadsOrdered, LoadOK, Pending, Idle
    <3>2. list'.shown = call[c].query /\ list'.version = call[c].version
      BY <1>1, <2>1, <2>5, PageTypes DEF ListRecord
    <3>3. ShowsLatest'
      BY <2>1, <2>3, <3>1, <3>2 DEF ShowsLatest
    <3> QED BY <1>1, <2>4, <3>3 DEF ListInv
  <2>6. CASE ~ Current(c)
    BY <1>1, <2>1, <2>4, <2>6, ListStays DEF ListInv
  <2> QED BY <2>5, <2>6
<1>4. CASE call[c].kind = "save"
  <2>1. told' = call[c].version /\ Loaded(c, list.query)
    BY <1>4 DEF Succeed
  <2>2. told' \in Nat /\ told' <= data /\ list.query \in Queries
    BY <1>1, <1>4, <2>1, ListNumbers DEF ListInv, ToldOfData, ListRecord
  <2>3. list.sequence < MaxLoads
    BY <1>1, <1>4 DEF SaveInv, SavesHaveRoom, Pending, Idle
  <2> QED BY <1>1, <2>1, <2>2, <2>3, NewLoad
<1>5. CASE call[c].kind = "logout"
  <2>1. call' = [call EXCEPT ![c] = NoCall] /\ told' = told /\ list' = list
    BY <1>5 DEF Succeed
  <2>2. call'[c] = NoCall /\ \A d \in Calls \ {c} : call'[d] = call[d]
    BY <1>1, <2>1, PageTypes
  <2>3. LoadsOrdered' /\ ToldOfData'
    BY <1>1, <1>2, <2>1, <2>2, LoadsKept
  <2> QED BY <1>1, <2>1, <2>3, ListStays DEF ListInv
<1> QED BY <1>1, <1>3, <1>4, <1>5 DEF CallRecord

\* Requests that end unanswered or unwanted.
LEMMA ErrorsList ==
  ASSUME ListInv, SaveInv', NEW cs \in SUBSET Calls, list' = ListAfterErrors(cs),
         call' = [c \in Calls |-> IF c \in cs THEN NoCall ELSE call[c]],
         told' = told, data' = data
  PROVE  ListInv'
<1>1. PageTypeOK
  BY DEF ListInv, SaveInv
<1>2. list'.sequence = list.sequence /\ list'.query = list.query /\ (list' = list \/ list'.error)
  BY <1>1, ErrorsTyped
<1>3. \A c \in Calls : \/ call'[c] = call[c]
                       \/ call'[c].phase = "idle" /\ call'[c].kind = "load"
  BY DEF NoCall
<1>4. LoadsOrdered' /\ ToldOfData'
  BY <1>2, <1>3, LoadsKept
<1>5. ShowsLatest'
  BY <1>2, ListStays
<1> QED BY <1>4, <1>5 DEF ListInv

LEMMA GiveUpLists ==
  ASSUME ListInv, NEW c \in Calls, GiveUp(c)
  PROVE  ListInv'
<1>1. PageTypeOK /\ SaveInv' /\ {c} \in SUBSET Calls
  BY GiveUpSaves DEF ListInv, SaveInv
<1>2. call' = [d \in Calls |-> IF d \in {c} THEN NoCall ELSE call[d]]
  BY <1>1, OneEnds DEF GiveUp
<1>3. list' = ListAfterErrors({c}) /\ told' = told /\ data' = data
  BY DEF GiveUp, serverVars
<1> QED BY <1>1, <1>2, <1>3, ErrorsList

LEMMA RefusedLists ==
  ASSUME ListInv, NEW o \in Calls, Refused(o)
  PROVE  ListInv'
<1>1. SaveInv' /\ Waiters(o) \in SUBSET Calls
  BY RefusedSaves DEF ListInv, Waiters
<1>2. /\ call' = [c \in Calls |-> IF c \in Waiters(o) THEN NoCall ELSE call[c]]
      /\ list' = ListAfterErrors(Waiters(o)) /\ told' = told /\ data' = data
  BY DEF Refused, serverVars
<1> QED BY <1>1, <1>2, ErrorsList

\* Requests that wait for a token or are sent again ask for the same.
LEMMA RenewalLists ==
  ASSUME ListInv, NEW c \in Calls, AwaitRefresh(c) \/ Renewed(c)
  PROVE  ListInv'
<1>1. SaveInv /\ SaveInv' /\ PageTypeOK
  BY AwaitRefreshSaves, RenewedSaves DEF ListInv, SaveInv
<1>2. UNCHANGED <<list, told, data>>
  BY DEF AwaitRefresh, Renewed, pageVars, serverVars
<1>3. ASSUME NEW d \in Calls
      PROVE  \/ call'[d] = call[d]
             \/ /\ ~ Idle(d) /\ call'[d].phase # "answered"
                /\ call'[d].kind = call[d].kind /\ call'[d].ticket = call[d].ticket
                /\ call'[d].query = call[d].query /\ call'[d].version = call[d].version
  <2>1. call[d] \in CallRecord
    BY <1>1, PageTypes
  <2>2. CASE AwaitRefresh(c)
    <3>1. PICK o \in Calls : call' = [call EXCEPT ![c].phase = "waiting", ![c].via = o]
      BY <2>2 DEF AwaitRefresh, InFlight
    <3>2. call[c].phase = "answered"
      BY <2>2 DEF AwaitRefresh
    <3> QED BY <1>1, <2>1, <3>1, <3>2, PageTypes DEF CallRecord, Idle
  <2>3. CASE Renewed(c)
    <3>1. \/ call'[d] = call[d]
          \/ d \in Waiters(c) /\ call'[d] = [call[d] EXCEPT !.phase = "sent", !.via = None,
                                        !.replay = TRUE, !.token = refresh[c].token]
      BY <2>3 DEF Renewed
    <3>2. d \in Waiters(c) => call[d].phase = "waiting"
      BY <1>1, PageTypes, StaffPageAssumption DEF Waiters
    <3> QED BY <2>1, <3>1, <3>2 DEF CallRecord, Idle
  <2> QED BY <2>2, <2>3
<1>4. LoadsOrdered' /\ ToldOfData'
  BY <1>1, <1>2, <1>3, LoadsKept
<1> QED BY <1>1, <1>2, <1>4, ListStays DEF ListInv

\* What the person does; the server's own steps touch no list and no save.
LEMMA SendsList ==
  ASSUME ListInv, NEW c \in Calls, (\E q \in Queries : Load(c, q)) \/ Save(c) \/ Logout(c)
  PROVE  ListInv'
<1>1. SaveInv /\ SaveInv' /\ PageTypeOK
  BY LoadSaves, SaveSaves, LogoutSaves DEF ListInv, SaveInv
<1>2. ASSUME NEW q \in Queries, Load(c, q) PROVE ListInv'
  <2>1. Loaded(c, q) /\ list.sequence < MaxLoads /\ data' = data /\ told' = told
    BY <1>1, <1>2, ListNumbers, StaffPageAssumption DEF Load, serverVars
  <2> QED BY <1>1, <2>1, NewLoad, ListNumbers DEF ListInv, ToldOfData
<1>3. CASE Save(c) \/ Logout(c)
  <2>1. /\ UNCHANGED <<list, told, data>>
        /\ \A d \in Calls \ {c} : call'[d] = call[d]
        /\ \/ call'[c].kind = "save" /\ call'[c].version = 0
           \/ call'[c].kind = "logout"
    <3>1. \E k : /\ call' = [call EXCEPT ![c] = k]
                 /\ (k.kind = "save" /\ k.version = 0) \/ k.kind = "logout"
      <4>1. CASE Save(c)
        <5> DEFINE k == [NoCall EXCEPT !.phase = "sent", !.kind = "save", !.token = AccessToken]
        <5>1. k.kind = "save" /\ k.version = 0
          BY DEF NoCall
        <5> QED BY <4>1, <5>1 DEF Save
      <4>2. CASE Logout(c)
        <5> DEFINE k == [NoCall EXCEPT !.phase = "sent", !.kind = "logout", !.token = jar]
        <5>1. k.kind = "logout"
          BY DEF NoCall
        <5> QED BY <4>2, <5>1 DEF Logout
      <4> QED BY <1>3, <4>1, <4>2
    <3> QED BY <1>1, <1>3, <3>1, PageTypes DEF Save, Logout, pageVars, serverVars
  <2>2. LoadsOrdered' /\ ToldOfData'
    BY <1>1, <2>1, LoadsKept
  <2> QED BY <1>1, <2>1, <2>2, ListStays DEF ListInv
<1> QED BY <1>2, <1>3

LEMMA OthersList ==
  ASSUME ListInv, SaveInv', UNCHANGED <<call, list, told, data>>
  PROVE  ListInv'
BY LoadsKept, ListStays DEF ListInv

LEMMA StepKeepsList == ListInv /\ [Next]_vars => ListInv'
<1> SUFFICES ASSUME ListInv, [Next]_vars PROVE ListInv'
  OBVIOUS
<1>1. SaveInv'
  BY StepKeepsSaves DEF ListInv
<1>2. CASE UNCHANGED vars
  BY <1>1, <1>2, OthersList DEF vars, pageVars, serverVars
<1>3. CASE Login \/ ExpireToken \/ EndSession
  BY <1>1, <1>3, OthersList DEF Login, ExpireToken, EndSession, pageVars
<1>4. ASSUME NEW c \in Calls,
             (\E q \in Queries : Load(c, q)) \/ Save(c) \/ Logout(c) \/ Progress(c)
      PROVE  ListInv'
  <2>1. CASE HandleRefresh(c)
    BY <1>1, <2>1, OthersList DEF HandleRefresh, pageVars
  <2> QED BY <1>4, <2>1, SendsList, HandleLists, SucceedLists, GiveUpLists, RenewalLists,
             RefusedLists DEF Progress
<1> QED BY <1>2, <1>3, <1>4 DEF Next

\* A list that has finished loading shows what was asked for last and at least what
\* the page's own last save made of it, for any number of loads and saves under way
\* and whatever order their answers come in (shared/list-state.ts:29-50).
THEOREM ListShowsLatest == Spec => []ShowsLatest
<1>1. Spec => []ListInv
  BY InitListInv, StepKeepsList, PTL DEF Spec
<1>2. ListInv => ShowsLatest
  BY DEF ListInv
<1> QED BY <1>1, <1>2, PTL

-----------------------------------------------------------------------------
(* The secrets the page presents.  The server ends a session whose earlier *)
(* secret comes back; the page avoids that because it starts one refresh   *)
(* at a time and keeps its answer before it starts another.                *)

\* Presenting s renews the live session or does not concern it.
Live(s) == (session # None /\ s # None /\ s >= session.first) => s = session.current

OneRefresh == \A o, p \in InFlight : o = p

SecretsIssued ==
  /\ jar # None => jar <= issued
  /\ \A o \in InFlight : /\ refresh[o].secret # None => refresh[o].secret <= issued
                         /\ refresh[o].token # None => refresh[o].token <= issued

JarLive == (\A o \in InFlight : refresh[o].phase # "renewed") => Live(jar)

RefreshLive ==
  \A o \in InFlight : /\ refresh[o].phase = "sent" => Live(refresh[o].secret)
                      /\ refresh[o].phase = "renewed" => Live(refresh[o].token)

SecretInv == OneRefresh /\ SecretsIssued /\ JarLive /\ RefreshLive /\ SessionSurvives

LEMMA InitSecretInv == Init => SecretInv
BY StaffPageAssumption DEF Init, SecretInv, OneRefresh, SecretsIssued, JarLive, RefreshLive,
   SessionSurvives, Live, InFlight

\* Most steps leave the secrets alone, or end the session or the page's hold on it.
LEMMA SecretsKept ==
  ASSUME SecretInv, UNCHANGED <<issued, refresh, tripped>>,
         session' = session \/ session' = None, jar' = jar \/ jar' = None
  PROVE  SecretInv'
<1>1. InFlight' = InFlight
  BY DEF InFlight
<1>2. ASSUME NEW s, Live(s) PROVE session' = None \/ (session' = session /\ Live(s))
  BY <1>2
<1>3. /\ OneRefresh' /\ SecretsIssued' /\ SessionSurvives'
  BY <1>1 DEF SecretInv, OneRefresh, SecretsIssued, SessionSurvives
<1>4. JarLive'
  BY <1>1 DEF SecretInv, JarLive, Live
<1>5. RefreshLive'
  BY <1>1 DEF SecretInv, RefreshLive, Live
<1> QED BY <1>3, <1>4, <1>5 DEF SecretInv

LEMMA AwaitRefreshSecret ==
  ASSUME PageTypeOK, SecretInv, NEW c \in Calls, AwaitRefresh(c)
  PROVE  SecretInv'
<1>1. UNCHANGED <<jar, session, issued, tripped>>
  BY DEF AwaitRefresh, pageVars, serverVars
<1>2. CASE refresh' = refresh
  BY <1>1, <1>2, SecretsKept
<1>3. CASE InFlight = {} /\ refresh' = [refresh EXCEPT ![c] = [secret |-> jar, phase |-> "sent",
                                                              token |-> None]]
  <2>1. /\ refresh'[c].secret = jar /\ refresh'[c].phase = "sent" /\ refresh'[c].token = None
        /\ \A o \in Calls \ {c} : refresh'[o] = None
    BY <1>3, PageTypes DEF InFlight
  <2>2. InFlight' \subseteq {c}
    BY <2>1 DEF InFlight
  <2>3. Live(jar)
    BY <1>3 DEF SecretInv, JarLive
  <2>4. OneRefresh' /\ SecretsIssued' /\ SessionSurvives'
    BY <1>1, <2>1, <2>2 DEF SecretInv, OneRefresh, SecretsIssued, SessionSurvives
  <2>5. JarLive' /\ RefreshLive'
    BY <1>1, <2>1, <2>2, <2>3 DEF JarLive, RefreshLive, Live
  <2> QED BY <2>4, <2>5 DEF SecretInv
<1> QED BY <1>2, <1>3 DEF AwaitRefresh

LEMMA HandleRefreshSecret ==
  ASSUME PageTypeOK, SecretInv, NEW o \in Calls, HandleRefresh(o)
  PROVE  SecretInv'
<1> DEFINE secret == refresh[o].secret
           ours == session # None /\ secret # None /\ secret >= session.first
           renew == ours /\ secret = session.current /\ issued < MaxTokens
<1>1. /\ o \in InFlight /\ refresh[o].phase = "sent" /\ jar' = jar
      /\ issued' = IF renew THEN issued + 1 ELSE issued
      /\ session' = IF renew THEN [session EXCEPT !.current = issued + 1]
                    ELSE IF ours THEN None ELSE session
      /\ tripped' = (tripped \/ (ours /\ secret # session.current))
      /\ refresh' = [refresh EXCEPT ![o].phase = IF renew THEN "renewed" ELSE "refused",
                                    ![o].token = IF renew THEN issued + 1 ELSE None]
  BY DEF HandleRefresh, InFlight, pageVars
<1>2. refresh[o] \in RefreshRecord
  BY <1>1, PageTypes DEF InFlight
<1>3. /\ refresh'[o] \in [secret : {secret}, phase : {IF renew THEN "renewed" ELSE "refused"},
                           token : {IF renew THEN issued + 1 ELSE None}]
      /\ \A p \in Calls \ {o} : refresh'[p] = refresh[p]
  <2> DEFINE p == IF renew THEN "renewed" ELSE "refused"
             t == IF renew THEN issued + 1 ELSE None
             f == [[refresh[o] EXCEPT !.phase = p] EXCEPT !.token = t]
  <2>1. refresh' = [refresh EXCEPT ![o].phase = p, ![o].token = t]
    BY <1>1
  <2> HIDE DEF p, t, secret
  <2>2. f \in [secret : {refresh[o].secret}, phase : {p}, token : {t}]
    BY <1>2 DEF RefreshRecord
  <2>3. refresh' = [refresh EXCEPT ![o] = f]
    BY <1>2, <2>1, PageTypes DEF RefreshRecord
  <2> HIDE DEF f
  <2>4. refresh'[o] = f /\ \A q \in Calls \ {o} : refresh'[q] = refresh[q]
    BY <2>3, PageTypes
  <2> USE DEF secret, p, t
  <2> QED BY <2>2, <2>4
<1>4. refresh'[o].secret = secret
      /\ refresh'[o].phase = (IF renew THEN "renewed" ELSE "refused")
      /\ refresh'[o].token = (IF renew THEN issued + 1 ELSE None)
  <2> HIDE DEF renew, secret
  <2> QED BY <1>3
<1>5. InFlight = {o} /\ InFlight' \subseteq {o}
  BY <1>1, <1>3 DEF SecretInv, OneRefresh, InFlight
<1>6. Live(secret)
  BY <1>1 DEF SecretInv, RefreshLive
<1>7. issued \in Nat /\ issued <= issued'
  <2> HIDE DEF renew
  <2> QED BY <1>1, StaffPageAssumption DEF PageTypeOK, Tokens
<1>8. SessionSurvives'
  BY <1>1, <1>6 DEF SecretInv, SessionSurvives, Live
<1>9. OneRefresh'
  BY <1>5 DEF OneRefresh
<1>10. SecretsIssued'
  <2>1. jar \in Nat \cup {None} /\ secret \in Nat \cup {None} /\ None \notin Nat
    BY <1>2, PageTypes, StaffPageAssumption DEF RefreshRecord, Tokens
  <2>2. (jar # None => jar <= issued) /\ (secret # None => secret <= issued)
    BY <1>1 DEF SecretInv, SecretsIssued
  <2>3. issued' = issued \/ issued' = issued + 1
    <3> HIDE DEF renew
    <3> QED BY <1>1
  <2>4. refresh'[o].token # None => refresh'[o].token <= issued'
    <3> HIDE DEF renew
    <3> QED BY <1>1, <1>4, <1>7
  <2>5. jar' # None => jar' <= issued'
    BY <1>1, <1>7, <2>1, <2>2, <2>3
  <2>6. refresh'[o].secret # None => refresh'[o].secret <= issued'
    <3> HIDE DEF secret, renew
    <3> QED BY <1>4, <1>7, <2>1, <2>2, <2>3
  <2> QED BY <1>5, <2>4, <2>5, <2>6 DEF SecretsIssued
<1>11. CASE renew
  <2>1. session'.current = issued + 1 /\ refresh'[o].phase = "renewed"
        /\ refresh'[o].token = issued + 1
    BY <1>1, <1>4, <1>11 DEF PageTypeOK
  <2>2. Live(refresh[o].token)'
    BY <2>1 DEF Live
  <2>3. o \in InFlight'
    <3>1. issued + 1 \in Tokens /\ secret \in Tokens \cup {None}
      BY <1>2, <1>11, StaffPageAssumption DEF PageTypeOK, Tokens, RefreshRecord
    <3>2. refresh'[o] \in [secret : {secret}, phase : {"renewed"}, token : {issued + 1}]
      BY <1>3, <1>11
    <3>3. refresh'[o] \in RefreshRecord
      <4> HIDE DEF secret
      <4> QED BY <3>1, <3>2 DEF RefreshRecord
    <3> QED BY <3>3, StaffPageAssumption DEF InFlight
  <2>4. JarLive' /\ RefreshLive'
    BY <1>5, <2>1, <2>2, <2>3 DEF JarLive, RefreshLive
  <2> QED BY <1>8, <1>9, <1>10, <2>4 DEF SecretInv
<1>12. CASE ~ renew
  <2>1. refresh'[o].phase = "refused" /\ (session' = session \/ session' = None)
    BY <1>1, <1>4, <1>12
  <2>2. Live(jar)
    BY <1>1, <1>5 DEF SecretInv, JarLive
  <2>3. JarLive' /\ RefreshLive'
    BY <1>1, <1>5, <2>1, <2>2 DEF JarLive, RefreshLive, Live
  <2> QED BY <1>8, <1>9, <1>10, <2>3 DEF SecretInv
<1> QED BY <1>11, <1>12

\* The page takes the answer to its refresh.
LEMMA AnsweredSecret ==
  ASSUME PageTypeOK, SecretInv, NEW o \in Calls, Renewed(o) \/ Refused(o)
  PROVE  SecretInv'
<1>1. /\ o \in InFlight /\ refresh' = [refresh EXCEPT ![o] = None]
      /\ UNCHANGED <<session, issued, tripped>>
      /\ \/ refresh[o].phase = "renewed" /\ jar' = refresh[o].token
         \/ refresh[o].phase = "refused" /\ jar' = jar
  BY DEF Renewed, Refused, InFlight, serverVars
<1>2. InFlight = {o}
  BY <1>1 DEF SecretInv, OneRefresh
<1>3. InFlight' = {}
  BY <1>1, <1>2, PageTypes DEF InFlight
<1>4. Live(jar')
  BY <1>1, <1>2 DEF SecretInv, JarLive, RefreshLive
<1>5. jar' # None => jar' <= issued
  BY <1>1 DEF SecretInv, SecretsIssued
<1>6. JarLive'
  BY <1>1, <1>4 DEF JarLive, Live
<1> QED BY <1>1, <1>3, <1>5, <1>6
     DEF SecretInv, OneRefresh, SecretsIssued, RefreshLive, SessionSurvives

\* A new session starts above every secret there is.
LEMMA LoginSecret ==
  ASSUME PageTypeOK, SecretInv, Login
  PROVE  SecretInv'
<1>1. /\ issued' = issued + 1 /\ session' = [first |-> issued + 1, current |-> issued + 1]
      /\ jar' = issued + 1 /\ refresh' = refresh /\ tripped' = tripped
  BY DEF Login
<1>2. issued \in Nat /\ InFlight' = InFlight
      /\ \A o \in InFlight : /\ refresh[o].secret \in Nat \cup {None}
                             /\ refresh[o].token \in Nat \cup {None}
  <2>1. issued \in Nat /\ InFlight' = InFlight
    BY <1>1, StaffPageAssumption DEF PageTypeOK, Tokens, InFlight
  <2>2. ASSUME NEW o \in InFlight PROVE refresh[o] \in RefreshRecord
    BY PageTypes DEF InFlight
  <2> QED BY <2>1, <2>2, StaffPageAssumption DEF RefreshRecord, Tokens
<1>3. SecretsIssued'
  BY <1>1, <1>2, StaffPageAssumption DEF SecretInv, SecretsIssued
<1>4. JarLive' /\ RefreshLive'
  <2>1. JarLive'
    BY <1>1 DEF JarLive, Live
  <2>2. ASSUME NEW s \in Nat \cup {None}, s # None => s <= issued
        PROVE  s # None => ~ (s >= session'.first)
    BY <1>1, <1>2, <2>2, StaffPageAssumption
  <2>3. RefreshLive'
    BY <1>1, <1>2, <2>2 DEF SecretInv, SecretsIssued, RefreshLive, Live
  <2> QED BY <2>1, <2>3
<1> QED BY <1>1, <1>2, <1>3, <1>4 DEF SecretInv, OneRefresh, SessionSurvives

LEMMA StepKeepsSecrets == PageTypeOK /\ SecretInv /\ [Next]_vars => SecretInv'
<1> SUFFICES ASSUME PageTypeOK, SecretInv, [Next]_vars PROVE SecretInv'
  OBVIOUS
<1>1. CASE UNCHANGED vars
  BY <1>1, SecretsKept DEF vars, pageVars, serverVars
<1>2. CASE Login
  BY <1>2, LoginSecret
<1>3. CASE ExpireToken \/ EndSession
  BY <1>3, SecretsKept DEF ExpireToken, EndSession, pageVars
<1>4. ASSUME NEW c \in Calls,
             (\E q \in Queries : Load(c, q)) \/ Save(c) \/ Logout(c) \/ Progress(c)
      PROVE  SecretInv'
  <2>1. CASE (\E q \in Queries : Load(c, q)) \/ Save(c) \/ Logout(c)
    BY <2>1, SecretsKept DEF Load, Save, Logout, pageVars, serverVars
  <2>2. CASE Handle(c)
    <3>1. UNCHANGED <<jar, issued, refresh, tripped>>
      BY <2>2 DEF Handle, pageVars
    <3>2. session' = session \/ session' = None
      BY <2>2 DEF Handle
    <3> QED BY <3>1, <3>2, SecretsKept
  <2>3. CASE Succeed(c)
    <3>1. UNCHANGED <<session, issued, refresh, tripped>>
      BY <2>3 DEF Succeed, serverVars
    <3>2. call[c].kind \in {"load", "save", "logout"}
      BY PageTypes DEF CallRecord
    <3>3. jar' = jar \/ jar' = None
      BY <2>3, <3>2 DEF Succeed
    <3> QED BY <3>1, <3>3, SecretsKept
  <2>4. CASE GiveUp(c)
    BY <2>4, SecretsKept DEF GiveUp, serverVars
  <2> QED BY <1>4, <2>1, <2>2, <2>3, <2>4, AwaitRefreshSecret, HandleRefreshSecret,
             AnsweredSecret DEF Progress
<1> QED BY <1>1, <1>2, <1>3, <1>4 DEF Next

\* However many requests find the token outdated at once, the page never presents a
\* secret a second time and so never ends its own session
\* (auth.service.ts:27-34, app/services/auth.py:215-223).
THEOREM SessionStaysAlive == Spec => []SessionSurvives
<1>1. Init => PageTypeOK /\ SecretInv
  BY InitSaveInv, InitSecretInv DEF SaveInv
<1>2. Spec => [](PageTypeOK /\ SecretInv)
  BY <1>1, PageKeepsTypes, StepKeepsSecrets, PTL DEF Spec
<1>3. SecretInv => SessionSurvives
  BY DEF SecretInv
<1> QED BY <1>2, <1>3, PTL
=============================================================================
