------------------------------- MODULE Sessions -------------------------------
(***************************************************************************)
(* The sessions of backend/accounts/service.py: families of refresh tokens *)
(* that replace each other, and the access tokens that live by them.       *)
(*                                                                         *)
(* A session is its place in the sequence; so is the refresh token, and    *)
(* the access token, that was issued with it.  Every route is one step of  *)
(* the event loop, so only a crash parts the writes of a route.            *)
(***************************************************************************)
EXTENDS Naturals, Sequences, FiniteSets

CONSTANTS
  ACCESS_TTL, REFRESH_TTL,  \* lifetimes of the two tokens
  MaxTime,                  \* bound: the clock
  MaxSessions,              \* bound: sessions ever started
  MaxCrashes                \* bound: crashes of the server inside a route

ASSUME SessionsAssumption == {REFRESH_TTL, MaxTime, MaxSessions, MaxCrashes} \subseteq Nat

VARIABLES
  now,       \* the clock
  sessions,  \* the rows: user, family, amr, expires_at, revoked_at
  answers,   \* sessions whose tokens are on their way to somebody
  ended,     \* history: families that a route answered to have ended
  reused,    \* history: families with a live session when a reuse ended them
  crashes    \* crashes so far

sessionVars == <<sessions, answers, ended, reused, crashes>>

SessionsTypeOK ==
  /\ now \in 0..MaxTime /\ crashes \in 0..MaxCrashes
  /\ Len(sessions) <= MaxSessions /\ answers \subseteq DOMAIN sessions
  /\ ended \subseteq DOMAIN sessions /\ reused \subseteq ended
  /\ \A i \in DOMAIN sessions :
       /\ sessions[i].family \in 1..i /\ sessions[i].revoked \in BOOLEAN
       /\ sessions[i].expires \in 0..(MaxTime + REFRESH_TTL)
       /\ sessions[i].user = sessions[sessions[i].family].user

SessionsInit ==
  /\ now = 0 /\ sessions = <<>> /\ answers = {} /\ ended = {} /\ reused = {} /\ crashes = 0

Tick == now < MaxTime /\ now' = now + 1 /\ UNCHANGED sessionVars

-----------------------------------------------------------------------------
Family(f) == {i \in DOMAIN sessions : sessions[i].family = f}
Live(f)   == {i \in Family(f) : ~sessions[i].revoked}
Own(u)    == {i \in DOMAIN sessions : sessions[i].user = u}

Revoked(S) ==
  [i \in DOMAIN sessions |-> [sessions[i] EXCEPT !.revoked = @ \/ i \in S]]

Crash == crashes < MaxCrashes /\ crashes' = crashes + 1

\* validate_token: the signature and the age of the access token, then session_active.
session_active(i) == ~sessions[i].revoked \/ Live(sessions[i].family) # {}

validate_token(i) ==
  /\ i \in DOMAIN sessions
  /\ now < sessions[i].expires - REFRESH_TTL + ACCESS_TTL
  /\ session_active(i)

\* _start_session: a session of a family; the first of a family names it.
NewId == Len(sessions) + 1
NewSession(u, family, amr) ==
  [user |-> u, family |-> family, amr |-> amr, expires |-> now + REFRESH_TTL,
   revoked |-> FALSE]

_start_session(u, amr) ==
  /\ Len(sessions) < MaxSessions
  /\ sessions' = Append(sessions, NewSession(u, NewId, amr))
  /\ answers' = answers \cup {NewId}

-----------------------------------------------------------------------------
(* refresh(raw), by the branch it takes. *)

Found(raw) == raw \in DOMAIN sessions
Fresh(raw) == Found(raw) /\ ~sessions[raw].revoked /\ now < sessions[raw].expires
Successor(raw) == NewSession(sessions[raw].user, sessions[raw].family, sessions[raw].amr)

\* Mutant: the old token stays good until it expires.
RotateKeeps(raw) ==
  /\ Fresh(raw) /\ Len(sessions) < MaxSessions
  /\ sessions' = Append(sessions, Successor(raw))
  /\ UNCHANGED <<answers, ended, reused, crashes>>

\* A good token: its successor is inserted, then it is revoked.
Rotate(raw) ==
  /\ Fresh(raw) /\ Len(sessions) < MaxSessions
  /\ sessions' = Append(Revoked({raw}), Successor(raw))
  /\ UNCHANGED <<answers, ended, reused, crashes>>

\* The server dies between the two writes; nobody gets the successor.
RotateCut(raw) ==
  /\ Fresh(raw) /\ Len(sessions) < MaxSessions /\ Crash
  /\ sessions' = Append(sessions, Successor(raw))
  /\ UNCHANGED <<answers, ended, reused>>

\* A revoked token, unless the TTL index took its row: the whole family ends.
Reuse(raw) ==
  /\ Found(raw) /\ sessions[raw].revoked
  /\ LET f == sessions[raw].family IN
     /\ sessions' = Revoked(Family(f))
     /\ ended' = ended \cup {f}
     /\ reused' = IF Live(f) # {} THEN reused \cup {f} ELSE reused
  /\ UNCHANGED <<answers, crashes>>

\* No row, or an expired one.
RefuseRefresh(raw) ==
  /\ Found(raw) => now >= sessions[raw].expires
  /\ UNCHANGED sessionVars

\* sign_out with the access token i, and revoke_all.
sign_out(i) ==
  LET f == sessions[i].family IN
  /\ sessions' = Revoked(Family(f)) /\ ended' = ended \cup {f}
  /\ UNCHANGED <<answers, reused, crashes>>

revoke_all(u) ==
  /\ sessions' = Revoked(Own(u))
  /\ ended' = ended \cup {sessions[i].family : i \in Own(u)}

-----------------------------------------------------------------------------
\* A family that was ended, by a sign-out, a sign-out everywhere, a new password or a
\* token that came back, has no live session again, whatever refresh was under way; and
\* a family never has more live sessions than one, and one for every crash in between.
EndedStaysEnded ==
  /\ \A f \in ended : Live(f) = {}
  /\ \A f \in DOMAIN sessions : Cardinality(Live(f)) <= 1 + crashes
=============================================================================
