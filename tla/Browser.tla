-------------------------------- MODULE Browser --------------------------------
(***************************************************************************)
(* A browser signed in to the web application: its tabs (lib/api.js and    *)
(* hooks/useAuth.jsx), which share the refresh cookie and the access token *)
(* in local storage, and the routes of backend/server.py they call.        *)
(*                                                                         *)
(* A call sent with an access token may be answered 401; the tab then      *)
(* refreshes once for all its calls and sends each of them again.  Calls   *)
(* and answers may be lost, and pages reloaded.                            *)
(***************************************************************************)
EXTENDS Sessions

CONSTANTS
  Tabs,     \* the tabs
  Slots,    \* of each tab, its calls: data, logout and init, one of each at a time
  MaxLost   \* bound: calls and answers that are lost, and pages reloaded

\* The calls of a page that are told apart.
ASSUME BrowserAssumption ==
  /\ MaxLost \in Nat /\ IsFiniteSet(Tabs)
  /\ \A t \in Tabs : Slots[t] \subseteq {"data", "init", "logout"}

VARIABLES
  open,    \* the tabs that are open
  cookie,  \* the refresh cookie; 0 without one
  access,  \* the access token in local storage; 0 without one
  user,    \* tabs that show a user, with the timer of scheduleRefresh running
  calls,   \* of each tab and call: [at, kind, token]
  flight,  \* of each tab, the call behind refreshPromise: [at, token]
  lost     \* calls, answers and pages lost so far

browserVars == <<open, cookie, access, user, calls, flight, lost>>

At(stage, token) == [at |-> stage, token |-> token]
Idle == At("idle", 0)
NoFlight == At("none", 0)

Tokens == 0..MaxSessions

BrowserTypeOK ==
  /\ open \subseteq Tabs /\ user \subseteq open
  /\ cookie \in Tokens /\ access \in Tokens /\ lost \in 0..MaxLost
  /\ \A t \in Tabs : calls[t] \in [Slots[t] -> [at : {"idle", "sent", "waiting", "again"}, token : Tokens]]
  /\ flight \in [Tabs -> [at : {"none", "sent", "answered", "refused"}, token : Tokens]]
  /\ \A t \in Tabs : (\E c \in Slots[t] : calls[t][c].at = "waiting") => flight[t] # NoFlight

BrowserInit ==
  /\ cookie = 0 /\ access = 0 /\ user = {} /\ lost = 0
  /\ calls = [t \in Tabs |-> [c \in Slots[t] |-> Idle]] /\ flight = [t \in Tabs |-> NoFlight]

-----------------------------------------------------------------------------
Loss == lost < MaxLost /\ lost' = lost + 1

SetCall(t, c, x) == calls' = [calls EXCEPT ![t][c] = x]

\* Mutant: every call that needs a refresh makes one of its own.
attemptRefreshEach(t) == flight' = [flight EXCEPT ![t] = At("sent", cookie)]

\* attemptRefresh: the refresh under way, or a new one with the cookie.
attemptRefresh(t) ==
  flight' = IF flight[t] # NoFlight THEN flight ELSE [flight EXCEPT ![t] = At("sent", cookie)]

\* The answer of a sign-in arrives: the cookie, storeSession, finish.
SignedIn(t, i) ==
  /\ t \in open \ user /\ i \in answers
  /\ cookie' = i /\ access' = i /\ user' = user \cup {t}
  /\ answers' = answers \ {i}
  /\ UNCHANGED <<now, sessions, ended, reused, crashes, open, calls, flight, lost>>

\* req: a call leaves with the access token of the moment.  logout clears the session
\* of the page without waiting for the answer.
Send(t, c) ==
  /\ t \in open /\ calls[t][c] = Idle /\ access # 0
  /\ c = "init" <=> t \notin user
  /\ SetCall(t, c, At("sent", access))
  /\ access' = IF c = "logout" THEN 0 ELSE access
  /\ UNCHANGED <<now, sessionVars, open, cookie, user, flight, lost>>

\* The server takes the call and the answer arrives.
Succeeds(t, c) ==
  LET x == calls[t][c] IN
  /\ x.at \in {"sent", "again"} /\ validate_token(x.token)
  /\ SetCall(t, c, Idle)
  /\ CASE c = "data" -> UNCHANGED <<sessionVars, cookie, access, user>>
       [] c = "init" -> user' = user \cup {t} /\ UNCHANGED <<sessionVars, cookie, access>>
       [] c = "logout" ->
            /\ sign_out(x.token)
            /\ cookie' = 0 /\ access' = 0 /\ user' = user \ {t}
  /\ UNCHANGED <<now, open, flight, lost>>

\* The first 401: the call waits for the refresh of the tab.
Unauthorised(t, c) ==
  /\ calls[t][c].at = "sent" /\ ~validate_token(calls[t][c].token)
  /\ SetCall(t, c, [calls[t][c] EXCEPT !.at = "waiting"])
  /\ attemptRefresh(t)
  /\ UNCHANGED <<now, sessionVars, open, cookie, access, user, lost>>

\* clearAuth, when init or logout is through with a call that failed.
GivesUp(t, c) ==
  IF c = "data" THEN UNCHANGED <<access, user>> ELSE access' = 0 /\ user' = user \ {t}

\* A second 401 is an error.
StillUnauthorised(t, c) ==
  /\ calls[t][c].at = "again" /\ ~validate_token(calls[t][c].token)
  /\ SetCall(t, c, Idle) /\ GivesUp(t, c)
  /\ UNCHANGED <<now, sessionVars, open, cookie, flight, lost>>

\* A call is lost, or its answer: a sign-out may have happened.
CallLost(t, c) ==
  LET x == calls[t][c] IN
  /\ x.at \in {"sent", "again"} /\ Loss
  /\ SetCall(t, c, Idle) /\ GivesUp(t, c)
  /\ \/ UNCHANGED sessionVars
     \/ c = "logout" /\ validate_token(x.token) /\ sign_out(x.token)
  /\ UNCHANGED <<now, open, cookie, flight>>

-----------------------------------------------------------------------------
\* The timer of scheduleRefresh, thirteen minutes after the last one.
Timer(t) ==
  /\ t \in user /\ flight[t] = NoFlight
  /\ attemptRefresh(t)
  /\ UNCHANGED <<now, sessionVars, open, cookie, access, user, calls, lost>>

\* The refresh route.
ServeRefresh(t) ==
  LET raw == flight[t].token IN
  /\ flight[t].at = "sent"
  /\ \/ Rotate(raw) /\ flight' = [flight EXCEPT ![t] = At("answered", NewId)]
     \/ (Reuse(raw) \/ RefuseRefresh(raw)) /\ flight' = [flight EXCEPT ![t].at = "refused"]
  /\ UNCHANGED <<now, open, cookie, access, user, calls, lost>>

\* The new cookie and access token: the waiting calls leave again.
Refreshed(t) ==
  LET i == flight[t].token IN
  /\ flight[t].at = "answered"
  /\ cookie' = i /\ access' = i
  /\ calls' = [calls EXCEPT ![t] = [c \in Slots[t] |->
                 IF @[c].at = "waiting" THEN At("again", i) ELSE @[c]]]
  /\ flight' = [flight EXCEPT ![t] = NoFlight]
  /\ UNCHANGED <<now, sessionVars, open, user, lost>>

\* A page is left: its calls and its timer go with it.
Leave(t) ==
  /\ flight' = [flight EXCEPT ![t] = NoFlight]
  /\ calls' = [calls EXCEPT ![t] = [c \in Slots[t] |-> Idle]]
  /\ user' = user \ {t}

\* The catch of attemptRefresh: clearSession, and on to the login page.
NotRefreshed(t) ==
  /\ flight[t].at = "refused" /\ Leave(t) /\ access' = 0
  /\ UNCHANGED <<now, sessionVars, open, cookie, lost>>

\* The refresh, or its answer, is lost; or the server dies inside of it.
RefreshLost(t) ==
  /\ flight[t].at \in {"sent", "answered"} /\ Leave(t) /\ access' = 0
  /\ \/ Loss /\ UNCHANGED sessionVars
     \/ flight[t].at = "sent" /\ RotateCut(flight[t].token) /\ UNCHANGED lost
  /\ UNCHANGED <<now, open, cookie>>

\* The page is reloaded: init starts over with what local storage holds.
Reload(t) ==
  /\ t \in open /\ Loss /\ Leave(t)
  /\ UNCHANGED <<now, sessionVars, open, cookie, access>>

BrowserNext ==
  \E t \in Tabs :
    \/ \E i \in answers : SignedIn(t, i)
    \/ \E c \in Slots[t] : \/ Send(t, c) \/ Succeeds(t, c) \/ Unauthorised(t, c) \/ StillUnauthorised(t, c)
                        \/ CallLost(t, c)
    \/ Timer(t) \/ ServeRefresh(t) \/ Refreshed(t) \/ NotRefreshed(t) \/ RefreshLost(t)
    \/ Reload(t)

-----------------------------------------------------------------------------
\* The reuse detection never ends a live family of a browser with one tab whose calls
\* and answers all arrive, however many of its calls find their token expired at once:
\* only a second tab, a lost answer or a crash of the server can cost it the session.
ReuseNeedsLossOrTabs == reused # {} => lost > 0 \/ crashes > 0 \/ Cardinality(open) > 1
=============================================================================
