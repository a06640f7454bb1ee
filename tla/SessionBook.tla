---------------------------- MODULE SessionBook ----------------------------
(***************************************************************************)
(* What the refresh-session machinery promises, without requests, cookies  *)
(* or secrets: a register of sessions in the order they were opened.  An   *)
(* account never has more than MaxSessions live ones; opening one closes   *)
(* others oldest first; a closed session stays closed.                     *)
(***************************************************************************)
EXTENDS Integers, FiniteSets

CONSTANTS
  Accounts,
  SessionIds,    \* numbered in the order of created_at
  MaxSessions,   \* settings.MAX_SESSIONS_PER_USER
  None

VARIABLES
  owner,   \* the account a session was opened for, or None
  live     \* the sessions that may still be refreshed

bookVars == <<owner, live>>

LiveOf(a) == {s \in live : owner[s] = a}

BookInit ==
  /\ owner = [s \in SessionIds |-> None]
  /\ live = {}

\* A login: the sessions given up for it are the oldest ones.
Open(a) ==
  \E s \in SessionIds, gone \in SUBSET LiveOf(a) :
    /\ owner[s] = None
    /\ \A t \in SessionIds : t < s => owner[t] # None
    /\ \A t \in gone, kept \in LiveOf(a) \ gone : t < kept
    /\ Cardinality(LiveOf(a) \ gone) < MaxSessions
    /\ owner' = [owner EXCEPT ![s] = a]
    /\ live' = (live \ gone) \cup {s}

\* A logout, a revocation, a replay detected, an expiry, a password reset.
Close(a) ==
  \E gone \in SUBSET LiveOf(a) :
    /\ live' = live \ gone
    /\ UNCHANGED owner

BookNext == \E a \in Accounts : Open(a) \/ Close(a)

BookSpec == BookInit /\ [][BookNext]_bookVars
=============================================================================
