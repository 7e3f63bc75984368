---------------------------- MODULE AccountsProofs ----------------------------
(***************************************************************************)
(* Sessions, for any number of users, sessions and crashes: whatever the   *)
(* routes do, in any order and however often they are cut short, a family  *)
(* that was ended stays ended.  The accounts and the browser are shown to  *)
(* take no step on the sessions that Sessions does not have.  Then the     *)
(* organisation, the second factors, the browser and the lock of an        *)
(* account, for any sets of people, accounts, tabs and calls.              *)
(***************************************************************************)
EXTENDS MCAccounts, FiniteSetTheorems, TLAPS

\* Every way the accounts and the browser use Sessions: a sign-in, a refresh, a sign-out,
\* a sign-out everywhere, a crash that leaves the sessions as they are, a delivery.
RefreshStep(raw) == Rotate(raw) \/ RotateCut(raw) \/ Reuse(raw) \/ RefuseRefresh(raw)
SignInStep(u) ==
  (\E amr : _start_session(u, amr)) /\ UNCHANGED <<now, ended, reused, crashes>>
RevokeStep == \E u : revoke_all(u) /\ UNCHANGED <<answers, reused, crashes>>
OtherStep  == /\ UNCHANGED <<sessions, ended, reused>> /\ answers' \subseteq answers
              /\ crashes' = crashes \/ Crash

\* Nobody signs in or refreshes; nobody signs in, and the owners of the sessions stay.
EndsNext ==
  \/ Tick
  \/ /\ UNCHANGED now
     /\ RevokeStep \/ OtherStep \/ \E i \in DOMAIN sessions : sign_out(i)
KnownNext    == EndsNext \/ (UNCHANGED now /\ \E raw : RefreshStep(raw))
SessionsNext == KnownNext \/ \E u : SignInStep(u)
SessionsSpec == SessionsInit /\ [][SessionsNext]_<<now, sessionVars>>

-----------------------------------------------------------------------------
Rows(U, W) == [user : U, family : Nat, amr : W, expires : Nat, revoked : BOOLEAN]

\* The first session of a family names it, and all of it is one user's.
Named ==
  \A i \in DOMAIN sessions :
    sessions[i].family \in 1..i /\ sessions[i].user = sessions[sessions[i].family].user

Typed ==
  /\ now \in Nat /\ crashes \in Nat /\ \E U, W : sessions \in Seq(Rows(U, W))
  /\ ended \subseteq DOMAIN sessions

IInv == Typed /\ Named /\ EndedStaysEnded

\* A session of a family that nobody has is the first one.
LEMMA LiveFinite ==
  ASSUME Typed, Named
  PROVE  /\ \A f : IsFiniteSet(Live(f)) /\ Cardinality(Live(f)) \in Nat
         /\ \A f : f \notin DOMAIN sessions => Family(f) = {}
         /\ NewId = Len(sessions) + 1 /\ NewId \notin DOMAIN sessions
         /\ DOMAIN sessions = 1..Len(sessions) /\ Len(sessions) \in Nat
<1>1. DOMAIN sessions = 1..Len(sessions) /\ Len(sessions) \in Nat
  BY DEF Typed
<1>2. \A f : Live(f) \in SUBSET (1..Len(sessions))
  BY <1>1 DEF Live, Family
<1>3. IsFiniteSet(1..Len(sessions))
  BY <1>1, FS_Interval
<1>4. \A f : IsFiniteSet(Live(f)) /\ Cardinality(Live(f)) \in Nat
  BY <1>2, <1>3, FS_Subset, FS_CardinalityType
<1>5. \A f : f \notin DOMAIN sessions => Family(f) = {}
  BY <1>1 DEF Named, Family
<1> QED
  BY <1>1, <1>4, <1>5 DEF NewId

\* What marking a set of sessions as revoked does to a row.
LEMMA Marked ==
  ASSUME NEW U, NEW W, sessions \in Seq(Rows(U, W)), NEW S
  PROVE  /\ Revoked(S) \in Seq(Rows(U, W)) /\ Len(Revoked(S)) = Len(sessions)
         /\ \A i \in 1..Len(sessions) :
              /\ Revoked(S)[i].family = sessions[i].family /\ Revoked(S)[i].user = sessions[i].user
              /\ Revoked(S)[i].revoked = (sessions[i].revoked \/ i \in S)
              /\ Revoked(S)[i].expires = sessions[i].expires
<1>1. /\ DOMAIN sessions = 1..Len(sessions) /\ Len(sessions) \in Nat
      /\ \A i \in 1..Len(sessions) : sessions[i] \in Rows(U, W)
  OBVIOUS
<1>2. \A i \in 1..Len(sessions) :
        /\ Revoked(S)[i] \in Rows(U, W)
        /\ Revoked(S)[i].family = sessions[i].family /\ Revoked(S)[i].user = sessions[i].user
        /\ Revoked(S)[i].revoked = (sessions[i].revoked \/ i \in S)
        /\ Revoked(S)[i].expires = sessions[i].expires
  BY <1>1 DEF Revoked, Rows
<1>3. Revoked(S) \in [1..Len(sessions) -> Rows(U, W)]
  BY <1>1, <1>2 DEF Revoked
<1> QED
  BY <1>1, <1>2, <1>3

\* Rows are marked and, if there is a new one, it is appended.
LEMMA MarkStep ==
  ASSUME IInv, NEW S, sessions' = Revoked(S), now' \in Nat, crashes' \in Nat, crashes' >= crashes,
         ended' \subseteq DOMAIN sessions
  PROVE  /\ Typed' /\ Named'
         /\ \A f : Family(f)' = Family(f) /\ Live(f)' = Live(f) \ S
         /\ \A f \in DOMAIN sessions' : Cardinality(Live(f)') <= 1 + crashes'
<1>1. PICK U, W : sessions \in Seq(Rows(U, W))
  BY DEF IInv, Typed
<1>2. /\ sessions' \in Seq(Rows(U, W)) /\ Len(sessions') = Len(sessions)
      /\ \A i \in 1..Len(sessions) :
           /\ sessions'[i].family = sessions[i].family /\ sessions'[i].user = sessions[i].user
           /\ sessions'[i].revoked = (sessions[i].revoked \/ i \in S)
  BY <1>1, Marked
<1>3. DOMAIN sessions = 1..Len(sessions) /\ DOMAIN sessions' = 1..Len(sessions) /\ Len(sessions) \in Nat
  BY <1>1, <1>2
<1>4. Typed'
  BY <1>2, <1>3 DEF Typed
<1>5. Named'
  BY <1>2, <1>3 DEF Named, IInv
<1>6. \A f : Family(f)' = Family(f) /\ Live(f)' = Live(f) \ S
  <2>1. \A f : Family(f)' = Family(f)
    BY <1>2, <1>3 DEF Family
  <2>2. \A f, i : i \in Family(f) => i \in 1..Len(sessions)
    BY <1>3 DEF Family
  <2> QED
    BY <1>2, <2>1, <2>2 DEF Live
<1>7. \A f \in DOMAIN sessions' : Cardinality(Live(f)') <= 1 + crashes'
  <2> TAKE f \in DOMAIN sessions'
  <2>1. Cardinality(Live(f)) <= 1 + crashes /\ crashes \in Nat
    BY <1>3 DEF IInv, EndedStaysEnded, Typed
  <2>2. Live(f)' \in SUBSET Live(f) /\ IsFiniteSet(Live(f)) /\ Cardinality(Live(f)) \in Nat
    BY <1>6, LiveFinite DEF IInv
  <2>3. IsFiniteSet(Live(f)') /\ Cardinality(Live(f)') <= Cardinality(Live(f)) /\ Cardinality(Live(f)') \in Nat
    BY <2>2, FS_Subset, FS_CardinalityType
  <2> QED
    BY <2>1, <2>2, <2>3
<1> QED
  BY <1>4, <1>5, <1>6, <1>7

LEMMA AppendStep ==
  ASSUME IInv, NEW S, NEW A, NEW B, NEW r \in Rows(A, B), ~r.revoked,
         sessions' = Append(Revoked(S), r),
         r.family = NewId \/ (r.family \in DOMAIN sessions /\ sessions[r.family].user = r.user),
         now' \in Nat, crashes' \in Nat, UNCHANGED ended
  PROVE  /\ Typed' /\ Named' /\ DOMAIN sessions' = DOMAIN sessions \cup {NewId}
         /\ \A f : Live(f)' = IF f = r.family THEN (Live(f) \ S) \cup {NewId} ELSE Live(f) \ S
<1>1. PICK U, W : sessions \in Seq(Rows(U, W))
  BY DEF IInv, Typed
<1>2. PICK n \in Nat : n = Len(sessions)
  BY <1>1
<1>3. PICK s : s = Revoked(S)
  OBVIOUS
<1>4. /\ s \in Seq(Rows(U, W)) /\ Len(s) = n /\ DOMAIN sessions = 1..n /\ NewId = n + 1
      /\ \A i \in 1..n :
           /\ s[i].family = sessions[i].family /\ s[i].user = sessions[i].user
           /\ s[i].revoked = (sessions[i].revoked \/ i \in S)
  BY <1>1, <1>2, <1>3, Marked DEF NewId
<1>5. PICK V : V = Rows(U \cup A, W \cup B)
  OBVIOUS
<1>6. r \in V /\ Rows(U, W) \subseteq V
  BY <1>5 DEF Rows
<1>7. s \in Seq(V)
  <2>1. \A i \in 1..Len(s) : s[i] \in V
    BY <1>4, <1>6
  <2>2. s = [i \in 1..Len(s) |-> s[i]] /\ Len(s) \in Nat
    BY <1>4
  <2> QED
    BY <2>1, <2>2
<1>8. /\ sessions' \in Seq(V) /\ Len(sessions') = n + 1 /\ DOMAIN sessions' = 1..(n + 1)
      /\ sessions'[n + 1] = r /\ \A i \in 1..n : sessions'[i] = s[i]
  BY <1>2, <1>3, <1>4, <1>6, <1>7
<1>9. \A i : i \in 1..(n + 1) <=> i \in 1..n \/ i = n + 1
  BY <1>2
<1>10. n + 1 \notin 1..n
  BY <1>2
<1>11. Typed'
  BY <1>4, <1>5, <1>8, <1>9 DEF Typed, IInv
<1>12. Named'
  <2>1. \A i \in 1..n : sessions[i].family \in 1..i /\ sessions[i].user = sessions[sessions[i].family].user
    BY <1>4 DEF IInv, Named
  <2>2. \A i \in 1..n : 1..i \subseteq 1..n
    BY <1>2
  <2>3. ASSUME NEW i \in 1..n
        PROVE  sessions'[i].family \in 1..i /\ sessions'[i].user = sessions'[sessions'[i].family].user
    <3>1. PICK f : f = sessions[i].family
      OBVIOUS
    <3>2. f \in 1..i /\ f \in 1..n /\ sessions[i].user = sessions[f].user
      BY <2>1, <2>2, <3>1
    <3>3. /\ sessions'[i].family = f /\ sessions'[i].user = sessions[i].user
          /\ sessions'[f].user = sessions[f].user
      BY <1>4, <1>8, <3>1, <3>2
    <3> QED
      BY <3>2, <3>3
  <2>4. r.family \in 1..(n + 1) /\ r.user = sessions'[r.family].user
    BY <1>4, <1>8, <1>9
  <2> QED
    BY <1>8, <1>9, <2>3, <2>4 DEF Named
<1>13. \A f : Live(f)' = IF f = r.family THEN (Live(f) \ S) \cup {NewId} ELSE Live(f) \ S
  <2> TAKE f
  <2>1. \A i : i \in Live(f) <=> i \in 1..n /\ sessions[i].family = f /\ ~sessions[i].revoked
    BY <1>4 DEF Live, Family
  <2>2. \A i : i \in Live(f)' <=> i \in 1..(n + 1) /\ sessions'[i].family = f /\ ~sessions'[i].revoked
    BY <1>8 DEF Live, Family
  <2>3. ASSUME NEW i \in 1..n PROVE i \in Live(f)' <=> i \in Live(f) /\ i \notin S
    <3>1. /\ sessions'[i].family = sessions[i].family
          /\ sessions'[i].revoked = (sessions[i].revoked \/ i \in S)
      BY <1>4, <1>8
    <3>2. i \in Live(f)' <=> sessions'[i].family = f /\ ~sessions'[i].revoked
      BY <1>9, <2>2
    <3>3. i \in Live(f) <=> sessions[i].family = f /\ ~sessions[i].revoked
      BY <2>1
    <3> QED
      BY <3>1, <3>2, <3>3
  <2>4. n + 1 \in Live(f)' <=> f = r.family
    BY <1>8, <1>9, <2>2
  <2>5. \A i : i \in Live(f)' => i \in 1..n \/ i = n + 1
    BY <1>9, <2>2
  <2> QED
    BY <1>4, <1>10, <2>1, <2>3, <2>4, <2>5
<1> QED
  BY <1>4, <1>8, <1>9, <1>11, <1>12, <1>13

LEMMA Unmarked == ASSUME Typed PROVE Revoked({}) = sessions
<1>1. PICK U, W : sessions \in Seq(Rows(U, W))
  BY DEF Typed
<1>2. \A i \in DOMAIN sessions : sessions[i] \in Rows(U, W)
  BY <1>1
<1>3. \A i \in DOMAIN sessions : [sessions[i] EXCEPT !.revoked = @ \/ i \in {}] = sessions[i]
  BY <1>2 DEF Rows
<1>4. sessions = [i \in DOMAIN sessions |-> sessions[i]]
  BY <1>1
<1> QED
  BY <1>3, <1>4 DEF Revoked

-----------------------------------------------------------------------------
LEMMA SignsIn ==
  ASSUME IInv, REFRESH_TTL \in Nat, NEW u, SignInStep(u)
  PROVE  IInv'
<1>1. PICK amr : _start_session(u, amr) /\ UNCHANGED <<now, ended, reused, crashes>>
  BY DEF SignInStep
<1>2. /\ Typed' /\ Named' /\ DOMAIN sessions' = DOMAIN sessions \cup {NewId}
      /\ \A f : Live(f)' = IF f = NewId THEN Live(f) \cup {NewId} ELSE Live(f)
  <2>1. PICK r : r = NewSession(u, NewId, amr)
    OBVIOUS
  <2>2. NewId \in Nat /\ now + REFRESH_TTL \in Nat
    BY LiveFinite DEF IInv, Typed
  <2>3. PICK A, B, S : A = {u} /\ B = {amr} /\ S = {}
    OBVIOUS
  <2>4. r \in Rows(A, B) /\ ~r.revoked /\ r.family = NewId
    BY <2>1, <2>2, <2>3 DEF NewSession, Rows
  <2>5. sessions' = Append(Revoked(S), r)
    BY <1>1, <2>1, <2>3, Unmarked DEF _start_session, IInv
  <2>6. now' \in Nat /\ crashes' \in Nat /\ UNCHANGED ended
    BY <1>1 DEF IInv, Typed
  <2>7. /\ Typed' /\ Named' /\ DOMAIN sessions' = DOMAIN sessions \cup {NewId}
        /\ \A f : Live(f)' = IF f = r.family THEN (Live(f) \ S) \cup {NewId} ELSE Live(f) \ S
    BY <2>4, <2>5, <2>6, AppendStep
  <2> QED
    BY <2>3, <2>4, <2>7
<1>3. Live(NewId) = {} /\ NewId \notin ended
  BY LiveFinite DEF IInv, Live, Typed
<1>4. EndedStaysEnded'
  <2>1. \A f \in ended' : Live(f)' = {}
    BY <1>1, <1>2, <1>3 DEF IInv, EndedStaysEnded
  <2>2. \A f \in DOMAIN sessions' : Cardinality(Live(f)') <= 1 + crashes'
    <3> TAKE f \in DOMAIN sessions'
    <3>1. CASE f = NewId
      <4>1. Live(f)' = {NewId} /\ crashes' \in Nat
        BY <1>1, <1>2, <1>3, <3>1 DEF IInv, Typed
      <4>2. PICK n : n = NewId
        OBVIOUS
      <4>3. Cardinality({n}) = 1
        BY FS_Singleton
      <4>4. Live(f)' = {n}
        BY <4>1, <4>2
      <4> QED
        BY <4>1, <4>3, <4>4
    <3>2. CASE f # NewId
      <4>1. Live(f)' = Live(f) /\ crashes' = crashes /\ f \in DOMAIN sessions
        BY <1>1, <1>2, <3>2
      <4>2. Cardinality(Live(f)) <= 1 + crashes
        BY <4>1 DEF IInv, EndedStaysEnded
      <4> QED
        BY <4>1, <4>2
    <3> QED
      BY <3>1, <3>2
  <2> QED
    BY <2>1, <2>2 DEF EndedStaysEnded
<1> QED
  BY <1>2, <1>4 DEF IInv

\* The old token is alive, so its family was not ended; it goes (S) or, after a crash, stays.
LEMMA Rotates ==
  ASSUME IInv, REFRESH_TTL \in Nat, NEW raw, Rotate(raw) \/ RotateCut(raw), UNCHANGED now
  PROVE  IInv'
<1>1. /\ raw \in DOMAIN sessions /\ ~sessions[raw].revoked /\ UNCHANGED ended
      /\ \/ sessions' = Append(Revoked({raw}), Successor(raw)) /\ crashes' = crashes
         \/ sessions' = Append(sessions, Successor(raw)) /\ crashes' = crashes + 1
  BY DEF Rotate, RotateCut, Fresh, Found, Crash
<1>2. PICK S \in {{raw}, {}} :
        /\ sessions' = Append(Revoked(S), Successor(raw))
        /\ crashes' = IF S = {raw} THEN crashes ELSE crashes + 1
  BY <1>1, Unmarked DEF IInv
<1>0. PICK F : F = sessions[raw].family
  OBVIOUS
<1>3. F \in DOMAIN sessions /\ F \in Nat /\ sessions[F].user = sessions[raw].user /\ NewId \notin DOMAIN sessions
  BY <1>0, <1>1, LiveFinite DEF IInv, Named
<1>4. /\ Typed' /\ Named' /\ DOMAIN sessions' = DOMAIN sessions \cup {NewId}
      /\ \A f : Live(f)' = IF f = F THEN (Live(f) \ S) \cup {NewId} ELSE Live(f) \ S
  <2>1. PICK r : r = Successor(raw)
    OBVIOUS
  <2>2. PICK A, B : A = {sessions[raw].user} /\ B = {sessions[raw].amr}
    OBVIOUS
  <2>3. r \in Rows(A, B) /\ ~r.revoked /\ r.family = F /\ r.user = sessions[raw].user
    BY <1>0, <1>3, <2>1, <2>2 DEF Successor, NewSession, Rows, IInv, Typed
  <2>4. sessions' = Append(Revoked(S), r) /\ now' \in Nat /\ crashes' \in Nat
    BY <1>2, <2>1 DEF IInv, Typed
  <2>5. r.family = NewId \/ (r.family \in DOMAIN sessions /\ sessions[r.family].user = r.user)
    BY <1>3, <2>3
  <2>6. /\ Typed' /\ Named' /\ DOMAIN sessions' = DOMAIN sessions \cup {NewId}
        /\ \A f : Live(f)' = IF f = r.family THEN (Live(f) \ S) \cup {NewId} ELSE Live(f) \ S
    BY <1>1, <2>3, <2>4, <2>5, AppendStep
  <2> QED
    BY <2>3, <2>6
<1>5. raw \in Live(F) /\ F \notin ended
  <2>1. raw \in Live(F)
    BY <1>0, <1>1 DEF Live, Family
  <2> QED
    BY <2>1 DEF IInv, EndedStaysEnded
<1>6. \A f : f # F => Live(f)' = Live(f)
  <2>1. \A f : f # F => raw \notin Live(f)
    BY <1>0 DEF Live, Family
  <2> QED
    BY <1>2, <1>4, <2>1
<1>7. Family(NewId) = {} /\ NewId \notin Live(F)
  BY <1>3, LiveFinite DEF IInv, Live, Family
<1>8. Cardinality(Live(F)') <= 1 + crashes'
  <2>1. /\ IsFiniteSet(Live(F)) /\ Cardinality(Live(F)) \in Nat /\ crashes \in Nat
        /\ Cardinality(Live(F)) <= 1 + crashes
    BY <1>3, LiveFinite DEF IInv, EndedStaysEnded, Typed
  <2>2. CASE S = {raw}
    <3>1. IsFiniteSet(Live(F) \ {raw}) /\ Cardinality(Live(F) \ {raw}) = Cardinality(Live(F)) - 1
      BY <1>5, <2>1, FS_RemoveElement
    <3>2. PICK n : n = NewId
      OBVIOUS
    <3>3. Cardinality((Live(F) \ {raw}) \cup {n}) = Cardinality(Live(F) \ {raw}) + 1
      BY <1>7, <3>1, <3>2, FS_AddElement
    <3>4. Live(F)' = (Live(F) \ {raw}) \cup {n} /\ crashes' = crashes
      BY <1>2, <1>4, <2>2, <3>2
    <3> QED
      BY <2>1, <3>1, <3>3, <3>4
  <2>3. CASE S = {}
    <3>1. Cardinality(Live(F) \cup {NewId}) = Cardinality(Live(F)) + 1
      BY <1>7, <2>1, FS_AddElement
    <3>2. Live(F)' = (Live(F) \ {}) \cup {NewId}
      BY <1>4, <2>3
    <3>3. S # {raw}
      BY <2>3
    <3>4. crashes' = crashes + 1
      BY <1>2, <3>3
    <3>5. Live(F)' = Live(F) \cup {NewId}
      BY <3>2
    <3> QED
      BY <2>1, <3>1, <3>4, <3>5
  <2> QED
    BY <2>2, <2>3
<1>9. EndedStaysEnded'
  <2>1. \A f \in ended' : Live(f)' = {}
    BY <1>1, <1>5, <1>6 DEF IInv, EndedStaysEnded
  <2>2. \A f \in DOMAIN sessions' : Cardinality(Live(f)') <= 1 + crashes'
    <3> TAKE f \in DOMAIN sessions'
    <3>1. crashes \in Nat /\ crashes' \in {crashes, crashes + 1}
      BY <1>2 DEF IInv, Typed
    <3>2. CASE f \in DOMAIN sessions /\ f # F
      <4>1. Live(f)' = Live(f) /\ Cardinality(Live(f)) <= 1 + crashes /\ Cardinality(Live(f)) \in Nat
        BY <1>6, <3>2, LiveFinite DEF IInv, EndedStaysEnded
      <4> QED
        BY <3>1, <4>1
    <3>3. CASE f = NewId /\ f # F
      <4>1. Live(f)' = {}
        BY <1>6, <1>7, <3>3 DEF Live
      <4> QED
        BY <3>1, <4>1, FS_EmptySet
    <3>4. CASE f = F
      BY <1>8, <3>4
    <3>5. f \in DOMAIN sessions \/ f = NewId
      BY <1>4
    <3> QED
      BY <3>2, <3>3, <3>4, <3>5
  <2> QED
    BY <2>1, <2>2 DEF EndedStaysEnded
<1> QED
  BY <1>4, <1>9 DEF IInv

\* A family ends at a sign-out, and when a token of it comes back.
LEMMA FamilyEnds ==
  ASSUME IInv, NEW i \in DOMAIN sessions, sessions' = Revoked(Family(sessions[i].family)),
         ended' = ended \cup {sessions[i].family}, UNCHANGED <<now, crashes>>
  PROVE  IInv'
<1>0. PICK F : F = sessions[i].family
  OBVIOUS
<1>1. F \in DOMAIN sessions
  BY <1>0, LiveFinite DEF IInv, Named
<1>2. /\ Typed' /\ Named'
      /\ \A f : Family(f)' = Family(f) /\ Live(f)' = Live(f) \ Family(F)
      /\ \A f \in DOMAIN sessions' : Cardinality(Live(f)') <= 1 + crashes'
  <2>1. now' \in Nat /\ crashes' \in Nat /\ crashes' >= crashes /\ ended' \subseteq DOMAIN sessions
    BY <1>0, <1>1 DEF IInv, Typed
  <2>2. PICK S : S = Family(F)
    OBVIOUS
  <2> QED
    BY <1>0, <2>1, <2>2, MarkStep
<1>3. Live(F)' = {}
  BY <1>2 DEF Live
<1>4. \A f \in ended' : Live(f)' = {}
  BY <1>0, <1>2, <1>3 DEF IInv, EndedStaysEnded
<1> QED
  BY <1>2, <1>4 DEF IInv, EndedStaysEnded

\* Every session of a family is its user's, so a family of the user loses all of them.
LEMMA AllEnd ==
  ASSUME IInv, NEW u, revoke_all(u), UNCHANGED <<now, crashes>>
  PROVE  IInv'
<1>1. /\ sessions' = Revoked(Own(u)) /\ ended' = ended \cup {sessions[i].family : i \in Own(u)}
  BY DEF revoke_all
<1>2. /\ Typed' /\ Named'
      /\ \A f : Family(f)' = Family(f) /\ Live(f)' = Live(f) \ Own(u)
      /\ \A f \in DOMAIN sessions' : Cardinality(Live(f)') <= 1 + crashes'
  <2>1. \A i \in DOMAIN sessions : sessions[i].family \in DOMAIN sessions
    BY LiveFinite DEF IInv, Named
  <2>2. now' \in Nat /\ crashes' \in Nat /\ crashes' >= crashes /\ ended' \subseteq DOMAIN sessions
    BY <1>1, <2>1 DEF IInv, Typed, Own
  <2>3. PICK S : S = Own(u)
    OBVIOUS
  <2> QED
    BY <1>1, <2>2, <2>3, MarkStep
<1>3. \A i \in Own(u) : Live(sessions[i].family) \subseteq Own(u)
  BY DEF IInv, Named, Live, Family, Own
<1>4. \A f \in ended' : Live(f)' = {}
  BY <1>1, <1>2, <1>3 DEF IInv, EndedStaysEnded
<1> QED
  BY <1>2, <1>4 DEF IInv, EndedStaysEnded

LEMMA Others ==
  ASSUME IInv, UNCHANGED <<sessions, ended>>, now' \in Nat, crashes' \in {crashes, crashes + 1}
  PROVE  IInv'
<1>1. Typed' /\ Named'
  BY DEF IInv, Typed, Named
<1>2. \A f : Live(f)' = Live(f)
  BY DEF Live, Family
<1>3. \A f : Cardinality(Live(f)) \in Nat
  BY LiveFinite DEF IInv
<1>4. EndedStaysEnded'
  BY <1>2, <1>3 DEF IInv, EndedStaysEnded, Typed
<1> QED
  BY <1>1, <1>4 DEF IInv

LEMMA Preserved ==
  ASSUME REFRESH_TTL \in Nat, IInv, [SessionsNext]_<<now, sessionVars>>
  PROVE  IInv'
<1>0. now \in Nat /\ crashes \in Nat
  BY DEF IInv, Typed
<1>1. CASE Tick \/ UNCHANGED <<now, sessionVars>>
  <2>1. UNCHANGED <<sessions, ended>> /\ now' \in Nat /\ crashes' = crashes
    BY <1>0, <1>1 DEF Tick, sessionVars
  <2> QED
    BY <2>1, Others
<1>2. ASSUME NEW raw, RefreshStep(raw), UNCHANGED now PROVE IInv'
  <2>1. CASE Reuse(raw)
    BY <1>2, <2>1, FamilyEnds DEF Reuse, Found
  <2>2. CASE RefuseRefresh(raw)
    <3>1. UNCHANGED <<sessions, ended, crashes>>
      BY <2>2 DEF RefuseRefresh, sessionVars
    <3> QED
      BY <1>0, <1>2, <3>1, Others
  <2> QED
    BY <1>2, <2>1, <2>2, Rotates DEF RefreshStep
<1>3. ASSUME NEW i \in DOMAIN sessions, sign_out(i), UNCHANGED now PROVE IInv'
  BY <1>3, FamilyEnds DEF sign_out
<1>4. CASE RevokeStep /\ UNCHANGED now
  BY <1>4, AllEnd DEF RevokeStep
<1>5. CASE OtherStep /\ UNCHANGED now
  <2>1. UNCHANGED <<sessions, ended>> /\ crashes' \in {crashes, crashes + 1} /\ now' \in Nat
    BY <1>0, <1>5 DEF OtherStep, Crash
  <2> QED
    BY <2>1, Others
<1> QED
  BY <1>1, <1>2, <1>3, <1>4, <1>5, SignsIn DEF SessionsNext, KnownNext, EndsNext

LEMMA Initially == SessionsInit => IInv
<1> SUFFICES ASSUME SessionsInit PROVE IInv
  OBVIOUS
<1>1. sessions \in Seq(Rows({}, {})) /\ DOMAIN sessions = {}
  BY DEF SessionsInit
<1> QED
  BY <1>1 DEF SessionsInit, IInv, Typed, Named, EndedStaysEnded

LEMMA SessionsSafe == SessionsSpec => []EndedStaysEnded
<1>1. SessionsInit => IInv
  BY Initially
<1>2. IInv /\ [SessionsNext]_<<now, sessionVars>> => IInv'
  BY Preserved, SessionsAssumption
<1>3. IInv => EndedStaysEnded
  BY DEF IInv
<1> QED
  BY <1>1, <1>2, <1>3, PTL DEF SessionsSpec

-----------------------------------------------------------------------------
\* The accounts, the clock and the browsers together: the scenes of MCAccounts at once.
SystemNext ==
  \/ AccountsNext /\ UNCHANGED browserVars
  \/ BrowserNext  /\ UNCHANGED accountVars
  \/ Tick         /\ UNCHANGED <<accountVars, browserVars>>
systemVars == <<now, sessionVars, accountVars, browserVars>>
SystemInit == SessionsInit /\ AccountsInit /\ BrowserInit /\ open \subseteq Tabs
SystemSpec == SystemInit /\ [][SystemNext]_systemVars

\* The calls of the page that Browser tells apart.
NamedSlots == \A t \in Tabs : Slots[t] \subseteq {"data", "init", "logout"}

LEMMA Constants ==
  /\ REFRESH_TTL \in Nat /\ MaxTime \in Nat /\ MaxSessions \in Nat /\ MaxCrashes \in Nat
  /\ NamedSlots /\ MaxLost \in Nat /\ MaxTokens \in Nat /\ MaxSecrets \in Nat
BY SessionsAssumption, BrowserAssumption, AccountsAssumption DEF NamedSlots

LEMMA NothingHappens ==
  ASSUME NoSession, UNCHANGED now, crashes' = crashes \/ Crash
  PROVE  EndsNext
BY DEF EndsNext, OtherStep, NoSession

LEMMA RegistrationObeys ==
  ASSUME NEW u, Register(u) \/ WrongPassword(u) \/ mfa_setup(u) \/ \E x \in Codes : mfa_enable(u, x) \/ mfa_disable(u, x)
  PROVE  EndsNext
<1>1. NoSession /\ UNCHANGED now /\ (crashes' = crashes \/ Crash)
  BY DEF Register, sign_up, send_verification, invite, request_password_reset, WrongPassword,
         mfa_setup, mfa_enable, mfa_disable, CrashHere, NoCrash
<1> QED
  BY <1>1, NothingHappens

LEMMA PasswordObeys ==
  ASSUME NEW u, RightPassword(u) \/ logout_everywhere(u)
  PROVE  EndsNext \/ (Exists(u) /\ SignInStep(u))
<1>1. CASE RightPassword(u)
  <2>1. UNCHANGED now
    BY <1>1 DEF RightPassword
  <2>2. \/ NoSession /\ (crashes' = crashes \/ Crash)
        \/ Exists(u) /\ _start_session(u, {"pwd"}) /\ UNCHANGED <<ended, reused, crashes>>
    BY <1>1 DEF RightPassword, CrashHere, NoCrash
  <2> QED
    BY <2>1, <2>2, NothingHappens DEF SignInStep
<1>2. CASE logout_everywhere(u)
  BY <1>2 DEF logout_everywhere, EndsNext, RevokeStep
<1> QED
  BY <1>1, <1>2

LEMMA TokenObeys ==
  ASSUME NEW k, \/ verify_email(k) \/ WrongCode(k)
                \/ \E x \in Codes : RightCode(k, x)
                \/ \E p \in {"reset_password", "invite"} : reset_password(k, p)
  PROVE  EndsNext \/ SignInStep(tokens[k].user)
<1>1. CASE verify_email(k) \/ WrongCode(k)
  <2>1. NoSession /\ UNCHANGED now /\ (crashes' = crashes \/ Crash)
    BY <1>1 DEF verify_email, WrongCode, CrashHere, NoCrash
  <2> QED
    BY <2>1, NothingHappens
<1>2. ASSUME NEW x \in Codes, RightCode(k, x) PROVE EndsNext \/ SignInStep(tokens[k].user)
  <2>1. UNCHANGED now
    BY <1>2 DEF RightCode
  <2>2. \/ NoSession /\ (crashes' = crashes \/ Crash)
        \/ _start_session(tokens[k].user, {"mfa"}) /\ UNCHANGED <<ended, reused, crashes>>
    BY <1>2 DEF RightCode, CrashHere, NoCrash
  <2> QED
    BY <2>1, <2>2, NothingHappens DEF SignInStep
<1>3. ASSUME NEW p, reset_password(k, p) PROVE EndsNext
  <2>1. UNCHANGED now
    BY <1>3 DEF reset_password
  <2>2. \/ NoSession /\ (crashes' = crashes \/ Crash)
        \/ revoke_all(tokens[k].user) /\ UNCHANGED <<answers, reused, crashes>>
    BY <1>3 DEF reset_password, CrashHere, NoCrash
  <2> QED
    BY <2>1, <2>2, NothingHappens DEF EndsNext, RevokeStep
<1> QED
  BY <1>1, <1>2, <1>3

LEMMA GoogleObeys ==
  ASSUME (\E c \in Claims : GoogleReads(c)) \/ GoogleWrites \/ GoogleSignsIn
  PROVE  [EndsNext]_<<now, sessionVars>> \/ (google.at = "check" /\ SignInStep(google.email))
<1>1. CASE (\E c \in Claims : GoogleReads(c)) \/ GoogleWrites
  <2>1. UNCHANGED <<now, sessionVars>>
    BY <1>1 DEF GoogleReads, GoogleWrites
  <2> QED
    BY <2>1
<1>2. CASE GoogleSignsIn
  <2>1. google.at = "check" /\ UNCHANGED <<now, crashes>>
    BY <1>2 DEF GoogleSignsIn
  <2>2. NoSession \/ (_start_session(google.email, {"google"}) /\ UNCHANGED <<ended, reused>>)
    <3>1. CASE Locked(google.user)
      BY <1>2, <3>1 DEF GoogleSignsIn
    <3>2. CASE ~Locked(google.user) /\ google.user.mfa
      BY <1>2, <3>2 DEF GoogleSignsIn
    <3>3. CASE ~Locked(google.user) /\ ~google.user.mfa
      BY <1>2, <3>3 DEF GoogleSignsIn
    <3> QED
      BY <3>1, <3>2, <3>3
  <2>3. CASE NoSession
    BY <2>1, <2>3, NothingHappens
  <2>4. CASE _start_session(google.email, {"google"}) /\ UNCHANGED <<ended, reused>>
    BY <2>1, <2>4 DEF SignInStep
  <2> QED
    BY <2>2, <2>3, <2>4
<1> QED
  BY <1>1, <1>2

LEMMA AccountsObey == AccountsNext => [SessionsNext]_<<now, sessionVars>>
BY RegistrationObeys, PasswordObeys, TokenObeys, GoogleObeys
   DEF AccountsNext, SessionsNext, KnownNext, EndsNext

LEMMA BrowserObeys ==
  ASSUME NamedSlots, BrowserNext
  PROVE  [KnownNext]_<<now, sessionVars>>
<1>1. PICK t \in Tabs :
        \/ \E i \in answers : SignedIn(t, i)
        \/ \E c \in Slots[t] : \/ Send(t, c) \/ Succeeds(t, c) \/ Unauthorised(t, c) \/ StillUnauthorised(t, c)
                               \/ CallLost(t, c)
        \/ Timer(t) \/ ServeRefresh(t) \/ Refreshed(t) \/ NotRefreshed(t) \/ RefreshLost(t)
        \/ Reload(t)
  BY DEF BrowserNext
<1>2. ASSUME NEW i \in answers, SignedIn(t, i) PROVE KnownNext
  BY <1>2 DEF SignedIn, KnownNext, EndsNext, OtherStep
<1>3. ASSUME NEW c \in Slots[t], Send(t, c) \/ Unauthorised(t, c) \/ StillUnauthorised(t, c)
      PROVE  UNCHANGED <<now, sessionVars>>
  BY <1>3 DEF Send, Unauthorised, StillUnauthorised
<1>4. ASSUME NEW c \in Slots[t], Succeeds(t, c) \/ CallLost(t, c)
      PROVE  [KnownNext]_<<now, sessionVars>>
  <2>1. c \in {"data", "init", "logout"}
    BY DEF NamedSlots
  <2>2. UNCHANGED now
    BY <1>4 DEF Succeeds, CallLost
  <2>3. UNCHANGED sessionVars \/ (validate_token(calls[t][c].token) /\ sign_out(calls[t][c].token))
    BY <1>4, <2>1 DEF Succeeds, CallLost
  <2> QED
    BY <2>2, <2>3 DEF KnownNext, EndsNext, validate_token
<1>5. ASSUME ServeRefresh(t) \/ RefreshLost(t)
      PROVE  [KnownNext]_<<now, sessionVars>>
  <2>1. UNCHANGED now
    BY <1>5 DEF ServeRefresh, RefreshLost
  <2>2. UNCHANGED sessionVars \/ RefreshStep(flight[t].token)
    BY <1>5 DEF ServeRefresh, RefreshLost, RefreshStep
  <2> QED
    BY <2>1, <2>2 DEF KnownNext
<1>6. ASSUME Timer(t) \/ Refreshed(t) \/ NotRefreshed(t) \/ Reload(t)
      PROVE  UNCHANGED <<now, sessionVars>>
  BY <1>6 DEF Timer, Refreshed, NotRefreshed, Reload
<1> QED
  BY <1>1, <1>2, <1>3, <1>4, <1>5, <1>6

\* For any lifetimes, users, tabs and crashes: a family that a sign-out, a sign-out
\* everywhere, a new password or a token that came back has ended never has a live session
\* again, whatever sign-ins and refreshes were under way.
THEOREM EndedStaysEndedHolds == SystemSpec => []EndedStaysEnded
<1>1. [SystemNext]_systemVars => [SessionsNext]_<<now, sessionVars>>
  BY AccountsObey, BrowserObeys, Constants
     DEF SystemNext, systemVars, SessionsNext, KnownNext, EndsNext
<1> QED
  BY <1>1, SessionsSafe, PTL DEF SystemSpec, SystemInit, SessionsSpec

-----------------------------------------------------------------------------
(***************************************************************************)
(* The organisation, for any set of people (an infinite one included:      *)
(* whoever is an admin at a time is finite), of settings and of updates at *)
(* a time.                                                                 *)
(***************************************************************************)

AdminsFinite == IsFiniteSet(Admins)
OrgIInv == OrgTypeOK /\ AdminsFinite /\ OrgKeepsAdmin

LEMMA RanksAreNat ==
  /\ DOMAIN ROLES = {"org_admin", "team_lead", "operator", "individual"}
  /\ \A r \in DOMAIN ROLES : ROLES[r] \in 0..3
  /\ ROLES["individual"] = 0 /\ ALLOWED_ROLES \subseteq DOMAIN ROLES
BY DEF ROLES, ALLOWED_ROLES

\* One person's row is replaced: who the admins are afterwards.
LEMMA OneRow ==
  ASSUME OrgIInv, NEW p \in People, NEW row \in [role : DOMAIN ROLES, joined : BOOLEAN, first : DOMAIN ROLES],
         members' = [members EXCEPT ![p] = row]
  PROVE  /\ members' \in [People -> [role : DOMAIN ROLES, joined : BOOLEAN, first : DOMAIN ROLES]]
         /\ Admins' = IF row.role = "org_admin" THEN Admins \cup {p} ELSE Admins \ {p}
         /\ AdminsFinite'
<1>1. /\ members' \in [People -> [role : DOMAIN ROLES, joined : BOOLEAN, first : DOMAIN ROLES]]
      /\ members'[p] = row
      /\ \A q \in People : q # p => members'[q] = members[q]
  BY DEF OrgIInv, OrgTypeOK
<1>2. Admins' = IF row.role = "org_admin" THEN Admins \cup {p} ELSE Admins \ {p}
  BY <1>1 DEF Admins, get_user_role
<1> QED
  BY <1>1, <1>2, FS_AddElement, FS_RemoveElement DEF OrgIInv, AdminsFinite

\* More than one admin: one of them can go.
LEMMA AnotherAdmin ==
  ASSUME AdminsFinite, Cardinality(Admins) > 1, NEW p
  PROVE  Admins \ {p} # {}
<1>1. /\ IsFiniteSet(Admins \ {p})
      /\ Cardinality(Admins) \in Nat
      /\ Cardinality(Admins \ {p}) \in {Cardinality(Admins), Cardinality(Admins) - 1}
  BY FS_RemoveElement, FS_CardinalityType DEF AdminsFinite
<1> QED
  BY <1>1, FS_EmptySet

LEMMA OrgInitially == OrgInit => OrgIInv
<1> SUFFICES ASSUME OrgInit PROVE OrgIInv
  OBVIOUS
<1>1. OrgTypeOK
  BY RanksAreNat DEF OrgInit, OrgTypeOK, NotMember, Member, IsMember
<1>2. Admins = {} /\ OrgKeepsAdmin
  BY RanksAreNat DEF OrgInit, OrgKeepsAdmin, Admins, get_user_role, NotMember, Member
<1> QED
  BY <1>1, <1>2, FS_EmptySet DEF OrgIInv, AdminsFinite

LEMMA Creates ==
  ASSUME OrgIInv, NEW p \in People, create_org(p)
  PROVE  OrgIInv'
<1> DEFINE row == Member("org_admin", TRUE)
<1>0. row \in [role : DOMAIN ROLES, joined : BOOLEAN, first : DOMAIN ROLES] /\ row.role = "org_admin" /\ row.first = "org_admin"
  BY RanksAreNat DEF Member
<1>1. CASE org' = "answered" /\ members' = [members EXCEPT ![p] = row]
  <2>1. /\ members' \in [People -> [role : DOMAIN ROLES, joined : BOOLEAN, first : DOMAIN ROLES]]
        /\ Admins' = Admins \cup {p} /\ AdminsFinite'
    BY <1>0, <1>1, OneRow
  <2>2. OrgTypeOK'
    BY <1>1, <2>1 DEF create_org, OrgIInv, OrgTypeOK
  <2>3. OrgKeepsAdmin'
    <3>1. /\ members'[p].role = "org_admin" /\ members'[p].first = "org_admin"
          /\ \A q \in People : q # p => members'[q] = members[q]
      BY <1>0, <1>1 DEF OrgIInv, OrgTypeOK
    <3>2. ~(ROLES["org_admin"] > ROLES["org_admin"])
      BY DEF ROLES
    <3> QED
      BY <2>1, <3>1, <3>2 DEF create_org, OrgIInv, OrgKeepsAdmin
  <2> QED
    BY <2>1, <2>2, <2>3 DEF OrgIInv
<1>2. CASE org' = "created" /\ UNCHANGED members
  BY <1>2
     DEF create_org, OrgIInv, OrgTypeOK, AdminsFinite, OrgKeepsAdmin, Admins, get_user_role,
         IsMember
<1> QED
  BY <1>1, <1>2 DEF create_org

LEMMA Invites ==
  ASSUME OrgIInv, NEW by \in People, NEW p \in People, NEW role \in ALLOWED_ROLES, invite_member(by, p, role)
  PROVE  OrgIInv'
<1> DEFINE row == Member(role, p \notin Strangers)
<1>0. row \in [role : DOMAIN ROLES, joined : BOOLEAN, first : DOMAIN ROLES] /\ row.role = role /\ row.first = role
  BY RanksAreNat DEF Member
<1>1. org = "answered" /\ p \notin Admins
  BY RanksAreNat
     DEF invite_member, OrgIInv, OrgTypeOK, IsMember, NotMember, Member, get_user_role,
         Admins
<1>2. /\ members' \in [People -> [role : DOMAIN ROLES, joined : BOOLEAN, first : DOMAIN ROLES]]
      /\ Admins' = (IF role = "org_admin" THEN Admins \cup {p} ELSE Admins \ {p}) /\ AdminsFinite'
  BY <1>0, OneRow DEF invite_member
<1>3. OrgTypeOK'
  BY <1>1, <1>2 DEF invite_member, OrgIInv, OrgTypeOK
<1>4. OrgKeepsAdmin'
  BY <1>0, <1>1, <1>2, RanksAreNat DEF invite_member, OrgIInv, OrgKeepsAdmin, OrgTypeOK
<1> QED
  BY <1>2, <1>3, <1>4 DEF OrgIInv

LEMMA Joins ==
  ASSUME OrgIInv, NEW p \in People, password_update(p)
  PROVE  OrgIInv'
<1> DEFINE row == [members[p] EXCEPT !.joined = TRUE]
<1>0. row \in [role : DOMAIN ROLES, joined : BOOLEAN, first : DOMAIN ROLES]
      /\ row.role = members[p].role /\ row.first = members[p].first
  BY DEF OrgIInv, OrgTypeOK
<1>1. org = "answered"
  BY DEF password_update, OrgIInv, OrgTypeOK
<1>2. /\ members' \in [People -> [role : DOMAIN ROLES, joined : BOOLEAN, first : DOMAIN ROLES]]
      /\ Admins' = (IF row.role = "org_admin" THEN Admins \cup {p} ELSE Admins \ {p}) /\ AdminsFinite'
  <2>1. members' = [members EXCEPT ![p] = row]
    BY DEF password_update
  <2> HIDE DEF row
  <2> QED
    BY <1>0, <2>1, OneRow
<1>3. Admins' = Admins
  BY <1>0, <1>2 DEF Admins, get_user_role
<1>4. OrgTypeOK'
  BY <1>1, <1>2 DEF password_update, OrgIInv, OrgTypeOK
<1>5. OrgKeepsAdmin'
  BY <1>0, <1>2, <1>3, RanksAreNat DEF password_update, OrgIInv, OrgKeepsAdmin, OrgTypeOK
<1> QED
  BY <1>2, <1>4, <1>5 DEF OrgIInv

LEMMA Revokes ==
  ASSUME OrgIInv, NEW by \in People, NEW p \in People, revoke_member(by, p)
  PROVE  OrgIInv'
<1>0. NotMember \in [role : DOMAIN ROLES, joined : BOOLEAN, first : DOMAIN ROLES]
      /\ NotMember.role = "individual" /\ NotMember.first = "individual"
  BY RanksAreNat DEF NotMember, Member
<1>1. /\ members' \in [People -> [role : DOMAIN ROLES, joined : BOOLEAN, first : DOMAIN ROLES]]
      /\ Admins' = Admins \ {p} /\ AdminsFinite'
  BY <1>0, OneRow DEF revoke_member
<1>2. Admins' # {}
  <2>1. by \in Admins
    BY DEF revoke_member, Admins
  <2> QED
    BY <1>1, <2>1, AnotherAdmin DEF revoke_member, OrgIInv
<1>3. OrgTypeOK'
  BY <1>1 DEF revoke_member, OrgIInv, OrgTypeOK, IsMember
<1>4. OrgKeepsAdmin'
  BY <1>0, <1>1, <1>2, RanksAreNat DEF revoke_member, OrgIInv, OrgKeepsAdmin, OrgTypeOK
<1> QED
  BY <1>1, <1>3, <1>4 DEF OrgIInv

\* The role changes, and a rise is reported; the others' reports stay as they are.
LEMMA Changes ==
  ASSUME OrgIInv, NEW by \in People, NEW p \in People, NEW role \in ALLOWED_ROLES, change_role(by, p, role)
  PROVE  OrgIInv'
<1> DEFINE old == IF IsMember(p) THEN get_user_role(p) ELSE "operator"
           row == IF IsMember(p) THEN [members[p] EXCEPT !.role = role] ELSE members[p]
<1>0. /\ row \in [role : DOMAIN ROLES, joined : BOOLEAN, first : DOMAIN ROLES]
      /\ row.first = members[p].first
      /\ row.role = IF IsMember(p) THEN role ELSE members[p].role
      /\ ROLES[role] \in 0..3 /\ ROLES[old] \in 0..3 /\ role \in DOMAIN ROLES
  BY RanksAreNat DEF OrgIInv, OrgTypeOK, get_user_role
<1>1. /\ members' = [members EXCEPT ![p] = row]
      /\ escalated' = Reported(p, old, role)
      /\ old = "org_admin" /\ role # "org_admin" => Cardinality(Admins) > 1
      /\ by \in Admins /\ UNCHANGED <<org, settings, updates>>
  BY DEF change_role, Admins
<1>2. escalated' \in [People -> 0..3] /\ \A q \in People : escalated'[q] >= escalated[q]
  BY <1>0, <1>1 DEF Reported, OrgIInv, OrgTypeOK
<1>3. ROLES[role] > ROLES[old] => escalated'[p] >= ROLES[role]
  BY <1>0, <1>1 DEF Reported, OrgIInv, OrgTypeOK
<1>4. IsMember(p) => old = members[p].role
  BY DEF get_user_role
<1>5. IsMember(p) \/ members[p].role = "individual"
  BY DEF IsMember, NotMember, Member
<1> HIDE DEF row, old
<1>6. /\ members' \in [People -> [role : DOMAIN ROLES, joined : BOOLEAN, first : DOMAIN ROLES]]
      /\ Admins' = (IF row.role = "org_admin" THEN Admins \cup {p} ELSE Admins \ {p}) /\ AdminsFinite'
  BY <1>0, <1>1, OneRow
<1>7. Admins' # {}
  <2>1. CASE row.role = "org_admin"
    BY <1>6, <2>1
  <2>2. CASE row.role # "org_admin" /\ p \in Admins
    <3>1. IsMember(p) /\ old = "org_admin" /\ role # "org_admin"
      BY <1>0, <1>4, <1>5, <2>2 DEF Admins, get_user_role
    <3> QED
      BY <1>1, <1>6, <2>2, <3>1, AnotherAdmin DEF OrgIInv
  <2>3. CASE p \notin Admins
    BY <1>1, <1>6, <2>3
  <2> QED
    BY <2>1, <2>2, <2>3
<1>8. \A q \in People :
        ROLES[members'[q].role] > ROLES[members'[q].first] => escalated'[q] >= ROLES[members'[q].role]
  <2> TAKE q \in People
  <2>1. /\ members[q].role \in DOMAIN ROLES /\ members[q].first \in DOMAIN ROLES
        /\ ROLES[members[q].role] \in 0..3 /\ ROLES[members[q].first] \in 0..3
        /\ escalated[q] \in 0..3 /\ escalated'[q] \in 0..3
    BY <1>2, RanksAreNat DEF OrgIInv, OrgTypeOK
  <2>2. ROLES[members[q].role] > ROLES[members[q].first] => escalated[q] >= ROLES[members[q].role]
    BY DEF OrgIInv, OrgKeepsAdmin
  <2>3. CASE q # p \/ ~IsMember(p)
    <3>1. members'[q].role = members[q].role /\ members'[q].first = members[q].first
      BY <1>0, <1>1, <2>3 DEF OrgIInv, OrgTypeOK
    <3> QED
      BY <1>2, <2>1, <2>2, <3>1
  <2>4. CASE q = p /\ IsMember(p)
    <3>1. members'[q].role = role /\ members'[q].first = members[q].first
      BY <1>0, <1>1, <2>4 DEF OrgIInv, OrgTypeOK
    <3> QED
      BY <1>0, <1>2, <1>3, <1>4, <2>1, <2>2, <2>4, <3>1
  <2> QED
    BY <2>3, <2>4
<1>9. OrgTypeOK'
  <2>1. org = "answered"
    BY <1>1 DEF OrgIInv, OrgTypeOK, Admins, get_user_role, IsMember, NotMember, Member
  <2> QED
    BY <1>1, <1>2, <1>6, <2>1 DEF OrgIInv, OrgTypeOK
<1> QED
  BY <1>6, <1>7, <1>8, <1>9 DEF OrgIInv, OrgKeepsAdmin

LEMMA OrgStays == ASSUME OrgIInv, UNCHANGED <<members, org, escalated>>, settings' \in Settings, updates' \subseteq Settings
               PROVE  OrgIInv'
BY DEF OrgIInv, OrgTypeOK, AdminsFinite, OrgKeepsAdmin, Admins, get_user_role, IsMember

LEMMA OrgPreserved == OrgIInv /\ [OrgNext]_orgVars => OrgIInv'
<1> SUFFICES ASSUME OrgIInv, [OrgNext]_orgVars PROVE OrgIInv'
  OBVIOUS
<1>1. ASSUME NEW by \in People, NEW s \in Settings, UpdateChecked(by, s) PROVE OrgIInv'
  BY <1>1, OrgStays DEF UpdateChecked, OrgIInv, OrgTypeOK
<1>2. ASSUME NEW s \in updates, UpdateApplied(s) PROVE OrgIInv'
  BY <1>2, OrgStays DEF UpdateApplied, OrgIInv, OrgTypeOK
<1>3. CASE UNCHANGED orgVars
  BY <1>3, OrgStays DEF orgVars, OrgIInv, OrgTypeOK
<1> QED
  BY <1>1, <1>2, <1>3, Creates, Joins, Revokes, Invites, Changes DEF OrgNext

\* Whoever of any number of admins revokes or demotes whom, in any order, an organisation
\* keeps one, and no role rises unreported.
THEOREM OrgKeepsAdminHolds == OrgSpec => []OrgKeepsAdmin
<1>1. OrgInit => OrgIInv
  BY OrgInitially
<1>2. OrgIInv /\ [OrgNext]_orgVars => OrgIInv'
  BY OrgPreserved
<1>3. OrgIInv => OrgKeepsAdmin
  BY DEF OrgIInv
<1> QED
  BY <1>1, <1>2, <1>3, PTL DEF OrgSpec

-----------------------------------------------------------------------------
(***************************************************************************)
(* Second factors, for any number of accounts, codes, tokens and crashes.  *)
(* A code that was accepted is gone: the account never accepts it again,   *)
(* for its secret is no secret of the account any more, or its step is not *)
(* after the last one, or it is not among the recovery codes that are left.*)
(***************************************************************************)

Account(row) ==
  /\ row = [state |-> row.state, password |-> row.password, confirmed |-> row.confirmed,
            uid |-> row.uid, failed |-> row.failed, locked |-> row.locked, mfa |-> row.mfa,
            secret |-> row.secret, pending |-> row.pending, last |-> row.last,
            recovery |-> row.recovery]
  /\ row.state = "user" /\ row.secret \in Nat /\ row.pending \in Nat /\ row.last \in Nat
  /\ row.pending # 0 => row.pending > row.secret

GoneFrom(row, x) ==
  /\ x[2] # row.pending
  /\ x[2] = row.secret => IF x[1] = "totp" THEN x[3] <= row.last ELSE x[3] \notin row.recovery
Gone(u, x) == Exists(u) /\ x[2] <= secrets /\ GoneFrom(users[u], x)

UsersHold ==
  /\ users = [u \in Emails |-> users[u]] /\ secrets \in Nat
  /\ \A u \in Emails : Exists(u) =>
       Account(users[u]) /\ users[u].secret <= secrets /\ users[u].pending <= secrets

SpentHold ==
  /\ \E S : spent \in Seq(S)
  /\ \A i \in DOMAIN spent : \E u \in Emails, x \in Codes : spent[i] = <<u, x>> /\ Gone(u, x)
  /\ \A i, j \in DOMAIN spent : spent[i] = spent[j] => i = j

TokenRow(row) ==
  /\ row = [user |-> row.user, purpose |-> row.purpose, expires |-> row.expires,
            used |-> row.used, attempts |-> row.attempts, sessions |-> row.sessions]
  /\ row.used \in BOOLEAN /\ row.attempts \in Nat /\ row.sessions \in {0, 1}
  /\ row.sessions = 1 => row.used
  /\ row.attempts = MFA_MAX_ATTEMPTS => row.used

TokensHold ==
  /\ \E S : tokens \in Seq(S)
  /\ \A k \in DOMAIN tokens :
       TokenRow(tokens[k]) /\ tokens[k].user \in Emails /\ Exists(tokens[k].user)

GoogleHold ==
  /\ google.at \in {"insert", "link", "check"} => google.email \in Emails
  /\ google.at \in {"link", "check"} => Exists(google.email)

FactorsIInv == UsersHold /\ SpentHold /\ TokensHold /\ GoogleHold

LEMMA ACode ==
  ASSUME NEW x \in Codes
  PROVE  x[1] \in {"totp", "recovery"} /\ x[2] \in Nat /\ x[2] # 0 /\ x[3] \in Nat
BY DEF Codes

LEMMA NewAccount ==
  ASSUME NEW pwd, NEW confirmed, NEW uid
  PROVE  LET row == User(pwd, confirmed, uid) IN
         Account(row) /\ row.secret = 0 /\ row.pending = 0
BY DEF User, Account

LEMMA ExistsIsAccount ==
  ASSUME NEW row, Account(row)
  PROVE  row # NoUser
BY DEF Account, NoUser

\* One account changes, and keeps what was spent from being spent again; the code that
\* is spent with the change is a new one.
LEMMA AccountChanges ==
  ASSUME UsersHold, SpentHold, NEW u \in Emails, NEW new, Put(u, new), Account(new),
         secrets' \in Nat, secrets' >= secrets, new.secret <= secrets', new.pending <= secrets',
         \A x \in Codes : Gone(u, x) => GoneFrom(new, x),
         \/ spent' = spent
         \/ \E x \in Codes : /\ ~Gone(u, x) /\ x[2] <= secrets' /\ GoneFrom(new, x)
                             /\ spent' = Append(spent, <<u, x>>)
  PROVE  UsersHold' /\ SpentHold' /\ \A v \in Emails : v = u \/ Exists(v) => Exists(v)'
<1>1. /\ users' = [v \in Emails |-> users'[v]] /\ users'[u] = new
      /\ \A v \in Emails : v # u => users'[v] = users[v]
  BY DEF UsersHold, Put
<1>2. new # NoUser
  BY ExistsIsAccount
<1>3. \A v \in Emails : (v # u /\ Exists(v) => Exists(v)') /\ Exists(u)'
  BY <1>1, <1>2 DEF Exists
<1>4. UsersHold'
  <2>1. ASSUME NEW v \in Emails, Exists(v)'
        PROVE  Account(users'[v]) /\ users'[v].secret <= secrets' /\ users'[v].pending <= secrets'
    <3>1. CASE v = u
      BY <1>1, <3>1
    <3>2. CASE v # u
      <4>1. /\ Account(users[v]) /\ users[v].secret <= secrets /\ users[v].pending <= secrets
            /\ users'[v] = users[v]
        BY <1>1, <2>1, <3>2 DEF UsersHold, Exists
      <4>2. users[v].secret \in Nat /\ users[v].pending \in Nat /\ secrets \in Nat
        BY <4>1 DEF Account, UsersHold
      <4> QED
        BY <4>1, <4>2
    <3> QED
      BY <3>1, <3>2
  <2> QED
    BY <1>1, <2>1 DEF UsersHold, Account
<1>5. \A v \in Emails, x \in Codes : Gone(v, x) => Gone(v, x)'
  <2> TAKE v \in Emails, x \in Codes
  <2>1. x[2] \in Nat /\ secrets \in Nat
    BY ACode DEF UsersHold
  <2>2. CASE v = u
    <3>1. Gone(u, x) => GoneFrom(users'[u], x) /\ x[2] <= secrets'
      BY <1>1, <2>1 DEF Gone
    <3> QED
      BY <1>3, <2>2, <3>1 DEF Gone, GoneFrom
  <2>3. CASE v # u
    BY <1>1, <1>3, <2>1, <2>3 DEF Gone, GoneFrom
  <2> QED
    BY <2>2, <2>3
<1>6. SpentHold'
  <2>1. CASE spent' = spent
    BY <1>5, <2>1 DEF SpentHold
  <2>2. ASSUME NEW x \in Codes, ~Gone(u, x), x[2] <= secrets', GoneFrom(new, x),
               spent' = Append(spent, <<u, x>>)
        PROVE  SpentHold'
    <3> DEFINE n == Len(spent) + 1
    <3>1. PICK S : spent \in Seq(S)
      BY DEF SpentHold
    <3>2. PICK p : p = <<u, x>>
      OBVIOUS
    <3>3. /\ spent' \in Seq(S \cup {p}) /\ DOMAIN spent = 1..Len(spent) /\ DOMAIN spent' = 1..n
          /\ Len(spent) \in Nat /\ spent'[n] = p /\ \A i \in DOMAIN spent : spent'[i] = spent[i]
      BY <2>2, <3>1, <3>2
    <3>4. \A i \in DOMAIN spent : spent[i] # p
      BY <2>2, <3>2 DEF SpentHold
    <3>5. Gone(u, x)'
      BY <1>1, <1>3, <2>2 DEF Gone, GoneFrom
    <3>6. \A i \in DOMAIN spent' : \E v \in Emails, y \in Codes : spent'[i] = <<v, y>> /\ Gone(v, y)'
      <4> TAKE i \in DOMAIN spent'
      <4>1. CASE i = n
        BY <3>2, <3>3, <3>5, <4>1
      <4>2. CASE i # n
        <5>1. i \in DOMAIN spent /\ spent'[i] = spent[i]
          BY <3>3, <4>2
        <5>2. PICK v \in Emails, y \in Codes : spent[i] = <<v, y>> /\ Gone(v, y)
          BY <5>1 DEF SpentHold
        <5> QED
          BY <1>5, <5>1, <5>2
      <4> QED
        BY <4>1, <4>2
    <3>7. \A i, j \in DOMAIN spent' : spent'[i] = spent'[j] => i = j
      BY <3>3, <3>4 DEF SpentHold
    <3> QED
      BY <3>3, <3>6, <3>7 DEF SpentHold
  <2> QED
    BY <2>1, <2>2
<1> QED
  BY <1>3, <1>4, <1>6

LEMMA UsersSame ==
  ASSUME UsersHold, SpentHold, UNCHANGED <<users, secrets, spent>>
  PROVE  UsersHold' /\ SpentHold' /\ \A v \in Emails : Exists(v) => Exists(v)'
BY DEF UsersHold, SpentHold, Exists, Gone

LEMMA TokensSame ==
  ASSUME TokensHold, UNCHANGED tokens, \A v \in Emails : Exists(v) => Exists(v)'
  PROVE  TokensHold'
BY DEF TokensHold

LEMMA TokenIssued ==
  ASSUME TokensHold, NEW u \in Emails, NEW purpose, tokens' = Issued(u, purpose),
         \A v \in Emails : v = u \/ Exists(v) => Exists(v)'
  PROVE  TokensHold'
<1> DEFINE n == Len(tokens) + 1
<1>1. PICK new : new = Token(u, purpose)
  OBVIOUS
<1>2. TokenRow(new) /\ new.user = u
  BY <1>1, AccountsAssumption DEF Token, TokenRow
<1>3. PICK S : tokens \in Seq(S)
  BY DEF TokensHold
<1>4. /\ tokens' \in Seq(S \cup {new}) /\ DOMAIN tokens = 1..Len(tokens) /\ DOMAIN tokens' = 1..n
      /\ Len(tokens) \in Nat /\ tokens'[n] = new
      /\ \A k \in DOMAIN tokens : tokens'[k] = tokens[k]
  BY <1>1, <1>3 DEF Issued
<1>5. ASSUME NEW k \in DOMAIN tokens'
      PROVE  /\ TokenRow(tokens'[k]) /\ tokens'[k].user \in Emails
             /\ users'[tokens'[k].user] # NoUser
  <2>1. CASE k = n
    BY <1>2, <1>4, <2>1 DEF Exists
  <2>2. CASE k # n
    <3>1. k \in DOMAIN tokens /\ tokens'[k] = tokens[k]
      BY <1>4, <2>2
    <3> QED
      BY <3>1 DEF TokensHold, Exists
  <2> QED
    BY <2>1, <2>2
<1> QED
  BY <1>4, <1>5 DEF TokensHold, TokenRow, Exists

LEMMA TokenChanges ==
  ASSUME TokensHold, NEW k \in DOMAIN tokens, NEW new, tokens' = [tokens EXCEPT ![k] = new],
         TokenRow(new), new.user = tokens[k].user, \A v \in Emails : Exists(v) => Exists(v)'
  PROVE  TokensHold'
<1>1. PICK S : tokens \in Seq(S)
  BY DEF TokensHold
<1>2. /\ tokens' \in Seq(S \cup {new}) /\ DOMAIN tokens' = DOMAIN tokens /\ tokens'[k] = new
      /\ \A i \in DOMAIN tokens : i # k => tokens'[i] = tokens[i]
  BY <1>1
<1>3. ASSUME NEW i \in DOMAIN tokens
      PROVE  /\ TokenRow(tokens'[i]) /\ tokens'[i].user \in Emails
             /\ users'[tokens'[i].user] # NoUser
  <2>1. tokens'[i].user = tokens[i].user /\ TokenRow(tokens'[i])
    BY <1>2 DEF TokensHold
  <2>2. PICK v \in Emails : v = tokens[i].user /\ Exists(v)
    BY DEF TokensHold
  <2> QED
    BY <2>1, <2>2 DEF Exists
<1> QED
  BY <1>2, <1>3 DEF TokensHold, TokenRow, Exists

\* A good token that is used.
LEMMA TokenUsed ==
  ASSUME TokensHold, NEW k \in DOMAIN tokens, tokens' = Used(k),
         \A v \in Emails : Exists(v) => Exists(v)'
  PROVE  TokensHold'
<1>1. PICK old : old = tokens[k]
  OBVIOUS
<1>2. PICK new : new = [old EXCEPT !.used = TRUE]
  OBVIOUS
<1>3. TokenRow(old)
  BY <1>1 DEF TokensHold
<1>4. TokenRow(new) /\ new.user = old.user
  BY <1>2, <1>3 DEF TokenRow
<1>5. tokens' = [tokens EXCEPT ![k] = new]
  BY <1>1, <1>2 DEF Used
<1> QED
  BY <1>1, <1>4, <1>5, TokenChanges

\* What an account may become without a second factor being touched.
Changed(row, new) ==
  /\ Account(new) /\ new.secret = row.secret /\ new.pending = row.pending
  /\ new.last = row.last /\ new.recovery = row.recovery

LEMMA AccountKeeps ==
  ASSUME UsersHold, SpentHold, NEW u \in Emails, NEW new, Put(u, new), UNCHANGED <<secrets, spent>>,
         \/ Exists(u) /\ Changed(users[u], new)
         \/ ~Exists(u) /\ Account(new) /\ new.secret = 0 /\ new.pending = 0
  PROVE  UsersHold' /\ SpentHold' /\ \A v \in Emails : v = u \/ Exists(v) => Exists(v)'
<1>1. /\ Account(new) /\ secrets' \in Nat /\ secrets' >= secrets
      /\ new.secret <= secrets' /\ new.pending <= secrets'
  BY DEF UsersHold, Changed
<1>2. \A x \in Codes : Gone(u, x) => GoneFrom(new, x)
  BY DEF Gone, GoneFrom, Changed
<1> QED
  BY <1>1, <1>2, AccountChanges

LEMMA FactorsStart == AccountsInit => FactorsIInv
<1> SUFFICES ASSUME AccountsInit PROVE FactorsIInv
  OBVIOUS
<1>1. PICK new : new = User(TRUE, TRUE, 0)
  OBVIOUS
<1>2. Account(new) /\ new.secret = 0 /\ new.pending = 0
  BY <1>1, NewAccount
<1>3. /\ users = [u \in Emails |-> IF u \in Registered THEN new ELSE NoUser] /\ secrets = 0
      /\ spent = <<>> /\ tokens = <<>> /\ google = NoThread
  BY <1>1 DEF AccountsInit
<1>4. UsersHold
  BY <1>2, <1>3 DEF UsersHold, Exists
<1>5. <<>> \in Seq({}) /\ DOMAIN <<>> = {}
  OBVIOUS
<1>6. SpentHold /\ TokensHold /\ GoogleHold
  BY <1>3, <1>5 DEF SpentHold, TokensHold, GoogleHold, NoThread
<1> QED
  BY <1>4, <1>6 DEF FactorsIInv

\* Google's thread is at rest after a crash and as it was otherwise.
LEMMA GoogleSame ==
  ASSUME GoogleHold, CrashHere \/ NoCrash \/ UNCHANGED google, \A v \in Emails : Exists(v) => Exists(v)'
  PROVE  GoogleHold'
<1>1. CASE CrashHere
  <2>1. google'.at = "idle"
    BY <1>1 DEF CrashHere, NoThread
  <2> QED
    BY <2>1 DEF GoogleHold
<1>2. CASE UNCHANGED google
  BY <1>2 DEF GoogleHold, Exists
<1> QED
  BY <1>1, <1>2 DEF NoCrash

LEMMA RegistrationKeeps ==
  ASSUME FactorsIInv, NEW u \in Emails, Register(u)
  PROVE  FactorsIInv' /\ \A v \in Emails : Exists(v) => Exists(v)'
<1>1. CASE sign_up(u)
  <2>1. PICK new : new = User(TRUE, ~VerifyEmails, 0)
    OBVIOUS
  <2>2. UsersHold' /\ SpentHold' /\ \A v \in Emails : v = u \/ Exists(v) => Exists(v)'
    BY <1>1, <2>1, NewAccount, AccountKeeps DEF sign_up, FactorsIInv
  <2>3. TokensHold'
    BY <1>1, <2>2, TokensSame, TokenIssued DEF sign_up, FactorsIInv
  <2>4. GoogleHold'
    BY <1>1, <2>2, GoogleSame DEF sign_up, FactorsIInv
  <2> QED
    BY <2>2, <2>3, <2>4 DEF FactorsIInv
<1>2. CASE send_verification(u) \/ request_password_reset(u)
  <2>1. UsersHold' /\ SpentHold' /\ Exists(u) /\ \A v \in Emails : Exists(v) => Exists(v)'
    BY <1>2, UsersSame DEF send_verification, request_password_reset, FactorsIInv
  <2>2. TokensHold'
    BY <1>2, <2>1, TokenIssued DEF send_verification, request_password_reset, FactorsIInv
  <2>3. GoogleHold'
    BY <1>2, <2>1, GoogleSame DEF send_verification, request_password_reset, FactorsIInv
  <2> QED
    BY <2>1, <2>2, <2>3 DEF FactorsIInv
<1>3. CASE invite(u)
  <2>1. PICK new : new = IF Exists(u) THEN users[u] ELSE User(FALSE, FALSE, 0)
    OBVIOUS
  <2>2. \/ Exists(u) /\ Changed(users[u], new)
        \/ ~Exists(u) /\ Account(new) /\ new.secret = 0 /\ new.pending = 0
    <3>1. CASE Exists(u)
      BY <2>1, <3>1 DEF Changed, FactorsIInv, UsersHold
    <3>2. CASE ~Exists(u)
      BY <2>1, <3>2, NewAccount
    <3> QED
      BY <3>1, <3>2
  <2>3. UsersHold' /\ SpentHold' /\ \A v \in Emails : v = u \/ Exists(v) => Exists(v)'
    BY <1>3, <2>1, <2>2, AccountKeeps DEF invite, FactorsIInv
  <2>4. TokensHold'
    BY <1>3, <2>3, TokensSame, TokenIssued DEF invite, FactorsIInv
  <2>5. GoogleHold'
    BY <1>3, <2>3, GoogleSame DEF invite, FactorsIInv
  <2> QED
    BY <2>3, <2>4, <2>5 DEF FactorsIInv
<1> QED
  BY <1>1, <1>2, <1>3 DEF Register

\* A right or a wrong password, and a sign-out everywhere: only the counters change.
LEMMA PasswordKeeps ==
  ASSUME FactorsIInv, NEW u \in Emails, WrongPassword(u) \/ RightPassword(u) \/ logout_everywhere(u)
  PROVE  FactorsIInv' /\ \A v \in Emails : Exists(v) => Exists(v)'
<1>1. ASSUME Exists(u) PROVE Account(users[u])
  BY <1>1 DEF FactorsIInv, UsersHold
<1>2. CASE WrongPassword(u)
  <2>1. PICK old : old = users[u] /\ Account(old)
    BY <1>1, <1>2 DEF WrongPassword
  <2>2. PICK new : new = _failed(old)
    OBVIOUS
  <2>3. \/ new = [old EXCEPT !.failed = old.failed + 1]
        \/ new = [old EXCEPT !.failed = 0, !.locked = now + LOCKOUT_TIME]
    BY <2>2 DEF _failed
  <2>4. Changed(old, new)
    BY <2>1, <2>3 DEF Changed, Account
  <2>5. UsersHold' /\ SpentHold' /\ \A v \in Emails : v = u \/ Exists(v) => Exists(v)'
    BY <1>2, <2>1, <2>2, <2>4, AccountKeeps DEF WrongPassword, FactorsIInv
  <2>6. TokensHold' /\ GoogleHold'
    BY <1>2, <2>5, TokensSame, GoogleSame DEF WrongPassword, FactorsIInv
  <2> QED
    BY <2>5, <2>6 DEF FactorsIInv
<1>3. CASE RightPassword(u)
  <2>1. PICK old : old = users[u] /\ Account(old)
    BY <1>1, <1>3 DEF RightPassword
  <2>2. PICK new : new = [old EXCEPT !.failed = 0, !.locked = 0]
    OBVIOUS
  <2>3. Changed(old, new)
    BY <2>1, <2>2 DEF Changed, Account
  <2>4. /\ Put(u, new) /\ Exists(u) /\ UNCHANGED <<secrets, spent>>
        /\ (CrashHere \/ NoCrash)
        /\ (tokens' = tokens \/ tokens' = Issued(u, "mfa_login"))
    BY <1>3, <2>1, <2>2 DEF RightPassword
  <2>5. UsersHold' /\ SpentHold' /\ \A v \in Emails : v = u \/ Exists(v) => Exists(v)'
    BY <2>1, <2>3, <2>4, AccountKeeps DEF FactorsIInv
  <2>6. TokensHold' /\ GoogleHold'
    BY <2>4, <2>5, TokensSame, TokenIssued, GoogleSame DEF FactorsIInv
  <2> QED
    BY <2>5, <2>6 DEF FactorsIInv
<1>4. CASE logout_everywhere(u)
  <2>1. UNCHANGED <<users, secrets, spent, tokens, google>>
    BY <1>4 DEF logout_everywhere, accountVars
  <2> QED
    BY <2>1, UsersSame, TokensSame, GoogleSame DEF FactorsIInv
<1> QED
  BY <1>2, <1>3, <1>4

\* A token that proves an address, or lets its holder choose a password.
LEMMA MailKeeps ==
  ASSUME FactorsIInv, NEW k \in DOMAIN tokens,
         verify_email(k) \/ \E p \in {"reset_password", "invite"} : reset_password(k, p)
  PROVE  FactorsIInv' /\ \A v \in Emails : Exists(v) => Exists(v)'
<1>1. PICK u \in Emails : u = tokens[k].user /\ Exists(u) /\ Account(users[u])
  BY DEF FactorsIInv, UsersHold, TokensHold
<1>2. PICK old : old = users[u]
  OBVIOUS
<1>3. (\E new : Put(u, new) /\ Changed(old, new)) \/ UNCHANGED users
  <2>1. CASE verify_email(k)
    <3>1. PICK new : new = [old EXCEPT !.confirmed = TRUE]
      OBVIOUS
    <3>2. Changed(old, new)
      BY <1>1, <1>2, <3>1 DEF Changed, Account
    <3> QED
      BY <1>1, <1>2, <2>1, <3>1, <3>2 DEF verify_email
  <2>2. ASSUME NEW p, reset_password(k, p)
        PROVE  (\E new : Put(u, new) /\ Changed(old, new)) \/ UNCHANGED users
    <3>1. PICK new : new = [old EXCEPT !.password = TRUE, !.failed = 0, !.locked = 0, !.confirmed = TRUE]
      OBVIOUS
    <3>2. Changed(old, new)
      BY <1>1, <1>2, <3>1 DEF Changed, Account
    <3> QED
      BY <1>1, <1>2, <2>2, <3>1, <3>2 DEF reset_password
  <2> QED
    BY <2>1, <2>2
<1>4. tokens' = Used(k) /\ UNCHANGED <<secrets, spent>> /\ (CrashHere \/ NoCrash)
  BY DEF verify_email, reset_password
<1>5. UsersHold' /\ SpentHold' /\ \A v \in Emails : Exists(v) => Exists(v)'
  <2>1. ASSUME NEW new, Put(u, new), Changed(old, new)
        PROVE  UsersHold' /\ SpentHold' /\ \A v \in Emails : Exists(v) => Exists(v)'
    BY <1>1, <1>2, <1>4, <2>1, AccountKeeps DEF FactorsIInv
  <2> QED
    BY <1>3, <1>4, <2>1, UsersSame DEF FactorsIInv
<1>6. TokensHold' /\ GoogleHold'
  BY <1>4, <1>5, TokenUsed, GoogleSame DEF FactorsIInv
<1> QED
  BY <1>5, <1>6 DEF FactorsIInv

LEMMA WrongCodeKeeps ==
  ASSUME FactorsIInv, NEW k \in DOMAIN tokens, WrongCode(k)
  PROVE  FactorsIInv' /\ \A v \in Emails : Exists(v) => Exists(v)'
<1>1. PICK old : old = tokens[k] /\ TokenRow(old)
  BY DEF FactorsIInv, TokensHold
<1>2. PICK n : n = old.attempts + 1
  OBVIOUS
<1>3. ~old.used /\ old.sessions = 0 /\ n \in Nat /\ MFA_MAX_ATTEMPTS \in Nat
  BY <1>1, <1>2, AccountsAssumption DEF WrongCode, Good, TokenRow
<1>4. PICK new : new = IF n < MFA_MAX_ATTEMPTS THEN [old EXCEPT !.attempts = n]
                       ELSE [old EXCEPT !.attempts = n, !.used = TRUE]
  OBVIOUS
<1>5. TokenRow(new) /\ new.user = old.user
  <2>1. CASE n < MFA_MAX_ATTEMPTS
    <3>1. new = [old EXCEPT !.attempts = n]
      BY <1>4, <2>1
    <3> QED
      BY <1>1, <1>3, <2>1, <3>1 DEF TokenRow
  <2>2. CASE ~(n < MFA_MAX_ATTEMPTS)
    <3>1. new = [old EXCEPT !.attempts = n, !.used = TRUE]
      BY <1>4, <2>2
    <3> QED
      BY <1>1, <1>3, <3>1 DEF TokenRow
  <2> QED
    BY <2>1, <2>2
<1>6. /\ tokens' = [tokens EXCEPT ![k] = new]
      /\ UNCHANGED <<users, secrets, spent>> /\ NoCrash
  BY <1>1, <1>2, <1>4 DEF WrongCode
<1>7. UsersHold' /\ SpentHold' /\ \A v \in Emails : Exists(v) => Exists(v)'
  BY <1>6, UsersSame DEF FactorsIInv
<1>8. TokensHold' /\ GoogleHold'
  BY <1>1, <1>5, <1>6, <1>7, TokenChanges, GoogleSame DEF FactorsIInv
<1> QED
  BY <1>7, <1>8 DEF FactorsIInv

-----------------------------------------------------------------------------
(* The steps that spend a code. *)

\* A code that is accepted was not accepted before, and the account gives it up.
LEMMA SpendGivesUp ==
  ASSUME NEW u \in Emails, Exists(u), Account(users[u]), secrets \in Nat,
         users[u].secret <= secrets, NEW x \in Codes, _check_second_factor(users[u], x),
         NEW new, new = Spend(users[u], x)
  PROVE  /\ Account(new) /\ new.secret = users[u].secret /\ new.pending = users[u].pending
         /\ ~Gone(u, x) /\ x[2] <= secrets /\ GoneFrom(new, x)
         /\ \A y \in Codes : Gone(u, y) => GoneFrom(new, y)
<1>1. PICK old : old = users[u]
  OBVIOUS
<1>2. /\ x[1] \in {"totp", "recovery"} /\ x[2] \in Nat /\ x[2] # 0 /\ x[3] \in Nat
      /\ x[2] = old.secret /\ Account(old)
  BY <1>1, ACode DEF _check_second_factor, verify_code, IsRecovery
<1>3. x[2] # old.pending /\ x[2] <= secrets
  BY <1>1, <1>2 DEF Account
<1>4. CASE x[1] = "totp"
  <2>1. new = [old EXCEPT !.last = x[3]] /\ old.last < x[3]
    BY <1>1, <1>4 DEF Spend, _check_second_factor, verify_code, IsRecovery
  <2>2. /\ Account(new) /\ new.secret = old.secret /\ new.pending = old.pending
        /\ new.last = x[3] /\ new.recovery = old.recovery
    BY <1>2, <2>1 DEF Account
  <2>3. ~GoneFrom(old, x) /\ GoneFrom(new, x)
    BY <1>2, <1>3, <1>4, <2>1, <2>2 DEF GoneFrom, Account
  <2>4. ASSUME NEW y \in Codes, GoneFrom(old, y) PROVE GoneFrom(new, y)
    <3>1. y[3] \in Nat /\ old.last \in Nat
      BY <1>2, ACode DEF Account
    <3> QED
      BY <1>2, <2>1, <2>2, <2>4, <3>1 DEF GoneFrom
  <2> QED
    BY <1>1, <1>3, <2>2, <2>3, <2>4 DEF Gone
<1>5. CASE x[1] = "recovery"
  <2>1. new = [old EXCEPT !.recovery = old.recovery \ {x[3]}] /\ x[3] \in old.recovery
    BY <1>1, <1>5 DEF Spend, _check_second_factor, verify_code, IsRecovery
  <2>2. /\ Account(new) /\ new.secret = old.secret /\ new.pending = old.pending
        /\ new.last = old.last /\ new.recovery = old.recovery \ {x[3]}
    BY <1>2, <2>1 DEF Account
  <2>3. ~GoneFrom(old, x) /\ GoneFrom(new, x)
    BY <1>2, <1>3, <1>5, <2>1, <2>2 DEF GoneFrom
  <2>4. \A y \in Codes : GoneFrom(old, y) => GoneFrom(new, y)
    BY <2>2 DEF GoneFrom
  <2> QED
    BY <1>1, <1>3, <2>2, <2>3, <2>4 DEF Gone
<1> QED
  BY <1>2, <1>4, <1>5

\* sign_in_mfa: the code first, then the token, then the session, with a crash between.
LEMMA RightCodeKeeps ==
  ASSUME FactorsIInv, NEW k \in DOMAIN tokens, NEW x \in Codes, RightCode(k, x)
  PROVE  FactorsIInv' /\ \A v \in Emails : Exists(v) => Exists(v)'
<1>1. PICK u \in Emails : u = tokens[k].user /\ Exists(u)
  BY DEF FactorsIInv, TokensHold
<1>2. /\ Account(users[u]) /\ users[u].secret <= secrets /\ users[u].pending <= secrets
      /\ secrets \in Nat
  BY <1>1 DEF FactorsIInv, UsersHold
<1>3. PICK new : new = Spend(users[u], x)
  OBVIOUS
<1>4. /\ Put(u, new) /\ spent' = Append(spent, <<u, x>>) /\ secrets' = secrets
      /\ _check_second_factor(users[u], x) /\ (CrashHere \/ NoCrash)
  BY <1>1, <1>3 DEF RightCode
<1>5. /\ Account(new) /\ new.secret = users[u].secret /\ new.pending = users[u].pending
      /\ ~Gone(u, x) /\ x[2] <= secrets /\ GoneFrom(new, x)
      /\ \A y \in Codes : Gone(u, y) => GoneFrom(new, y)
  BY <1>1, <1>2, <1>3, <1>4, SpendGivesUp
<1>6. UsersHold' /\ SpentHold' /\ \A v \in Emails : v = u \/ Exists(v) => Exists(v)'
  <2>1. secrets' \in Nat /\ secrets' >= secrets /\ new.secret <= secrets' /\ new.pending <= secrets'
    BY <1>2, <1>4, <1>5
  <2> QED
    BY <1>1, <1>4, <1>5, <2>1, AccountChanges DEF FactorsIInv
<1>7. TokensHold'
  <2>1. PICK old : old = tokens[k] /\ TokenRow(old)
    BY DEF FactorsIInv, TokensHold
  <2>2. PICK row : row = [old EXCEPT !.used = TRUE, !.sessions = 1]
    OBVIOUS
  <2>3. old.sessions = 0
    BY <2>1 DEF RightCode, Good, TokenRow
  <2>4. TokenRow(row) /\ row.user = old.user
    <3>1. row = [user |-> old.user, purpose |-> old.purpose, expires |-> old.expires,
                 used |-> TRUE, attempts |-> old.attempts, sessions |-> 1]
      BY <2>1, <2>2, <2>3 DEF TokenRow
    <3> QED
      BY <2>1, <3>1 DEF TokenRow
  <2>5. CASE tokens' = tokens
    BY <1>6, <2>5, TokensSame DEF FactorsIInv
  <2>6. CASE tokens' = Used(k)
    BY <1>6, <2>6, TokenUsed DEF FactorsIInv
  <2>7. CASE tokens' = [Used(k) EXCEPT ![k].sessions = @ + 1]
    <3>1. PICK held : held = [old EXCEPT !.used = TRUE]
      OBVIOUS
    <3>2. held.sessions = 0 /\ row = [held EXCEPT !.sessions = 1]
      BY <2>1, <2>2, <2>3, <3>1 DEF TokenRow
    <3>3. tokens' = [tokens EXCEPT ![k] = row]
      <4>1. PICK w : w = Used(k)
        OBVIOUS
      <4>2. w = [tokens EXCEPT ![k] = held]
        BY <2>1, <3>1, <4>1 DEF Used
      <4>3. w[k] = held /\ DOMAIN w = DOMAIN tokens
        BY <4>2
      <4>4. tokens' = [w EXCEPT ![k] = [held EXCEPT !.sessions = held.sessions + 1]]
        BY <2>7, <4>1, <4>3
      <4>5. tokens' = [w EXCEPT ![k] = row]
        BY <3>2, <4>4
      <4> QED
        BY <4>2, <4>5
    <3> QED
      BY <1>6, <2>1, <2>4, <3>3, TokenChanges DEF FactorsIInv
  <2> QED
    BY <2>5, <2>6, <2>7 DEF RightCode
<1>8. GoogleHold'
  BY <1>4, <1>6, GoogleSame DEF FactorsIInv
<1> QED
  BY <1>6, <1>7, <1>8 DEF FactorsIInv

\* A new secret is larger than any that was ever spent.
LEMMA SetupKeeps ==
  ASSUME FactorsIInv, NEW u \in Emails, Exists(u), mfa_setup(u)
  PROVE  FactorsIInv' /\ \A v \in Emails : Exists(v) => Exists(v)'
<1>1. PICK old : old = users[u] /\ Account(old) /\ old.secret <= secrets /\ secrets \in Nat
  BY DEF FactorsIInv, UsersHold
<1>2. PICK n : n = secrets + 1
  OBVIOUS
<1>3. PICK new : new = [old EXCEPT !.pending = n]
  OBVIOUS
<1>4. secrets' = n /\ Put(u, new) /\ UNCHANGED <<tokens, spent>> /\ NoCrash
  BY <1>1, <1>2, <1>3 DEF mfa_setup
<1>5. /\ Account(new) /\ new.secret = old.secret /\ new.pending = n
      /\ new.last = old.last /\ new.recovery = old.recovery
  BY <1>1, <1>2, <1>3 DEF Account
<1>6. \A y \in Codes : Gone(u, y) => GoneFrom(new, y)
  <2> TAKE y \in Codes
  <2>1. Gone(u, y) => y[2] # n
    BY <1>1, <1>2, ACode DEF Gone
  <2> QED
    BY <1>1, <1>5, <2>1 DEF Gone, GoneFrom
<1>7. UsersHold' /\ SpentHold' /\ \A v \in Emails : v = u \/ Exists(v) => Exists(v)'
  <2>1. secrets' \in Nat /\ secrets' >= secrets /\ new.secret <= secrets' /\ new.pending <= secrets'
    BY <1>1, <1>2, <1>4, <1>5 DEF Account
  <2> QED
    BY <1>4, <1>5, <1>6, <2>1, AccountChanges DEF FactorsIInv
<1>8. TokensHold' /\ GoogleHold'
  BY <1>4, <1>7, TokensSame, GoogleSame DEF FactorsIInv
<1> QED
  BY <1>7, <1>8 DEF FactorsIInv

\* The code that turns the second factor on is the first that its secret accepted.
LEMMA EnableKeeps ==
  ASSUME FactorsIInv, NEW u \in Emails, Exists(u), NEW x \in Codes, mfa_enable(u, x)
  PROVE  FactorsIInv' /\ \A v \in Emails : Exists(v) => Exists(v)'
<1>1. PICK old : old = users[u] /\ Account(old) /\ old.pending <= secrets /\ secrets \in Nat
  BY DEF FactorsIInv, UsersHold
<1>2. PICK new : new = [old EXCEPT !.mfa = TRUE, !.secret = old.pending, !.pending = 0,
                                   !.last = x[3], !.recovery = 1..RECOVERY_CODES]
  OBVIOUS
<1>3. /\ x[1] = "totp" /\ x[2] = old.pending /\ x[2] \in Nat /\ x[2] # 0 /\ x[3] \in Nat
      /\ Put(u, new) /\ spent' = Append(spent, <<u, x>>) /\ UNCHANGED <<tokens, secrets>> /\ NoCrash
  BY <1>1, <1>2, ACode DEF mfa_enable, verify_code
<1>4. Account(new) /\ new.secret = old.pending /\ new.pending = 0 /\ new.last = x[3]
  BY <1>1, <1>2, <1>3 DEF Account
<1>5. ~Gone(u, x) /\ x[2] <= secrets /\ GoneFrom(new, x)
  BY <1>1, <1>3, <1>4 DEF Gone, GoneFrom
<1>6. \A y \in Codes : Gone(u, y) => GoneFrom(new, y)
  BY <1>1, <1>4, ACode DEF Gone, GoneFrom
<1>7. UsersHold' /\ SpentHold' /\ \A v \in Emails : v = u \/ Exists(v) => Exists(v)'
  <2>1. secrets' \in Nat /\ secrets' >= secrets /\ new.secret <= secrets' /\ new.pending <= secrets'
    BY <1>1, <1>3, <1>4
  <2> QED
    BY <1>3, <1>4, <1>5, <1>6, <2>1, AccountChanges DEF FactorsIInv
<1>8. TokensHold' /\ GoogleHold'
  BY <1>3, <1>7, TokensSame, GoogleSame DEF FactorsIInv
<1> QED
  BY <1>7, <1>8 DEF FactorsIInv

\* The code that turns it off is spent, and with the secret every other one is.
LEMMA DisableKeeps ==
  ASSUME FactorsIInv, NEW u \in Emails, Exists(u), NEW x \in Codes, mfa_disable(u, x)
  PROVE  FactorsIInv' /\ \A v \in Emails : Exists(v) => Exists(v)'
<1>1. /\ Account(users[u]) /\ users[u].secret <= secrets /\ users[u].pending <= secrets
      /\ secrets \in Nat
  BY DEF FactorsIInv, UsersHold
<1>2. PICK row : row = Spend(users[u], x)
  OBVIOUS
<1>3. PICK off : off = [row EXCEPT !.mfa = FALSE, !.secret = 0, !.recovery = {}]
  OBVIOUS
<1>4. /\ _check_second_factor(users[u], x) /\ spent' = Append(spent, <<u, x>>)
      /\ UNCHANGED <<tokens, secrets>> /\ (CrashHere \/ NoCrash)
      /\ \E new \in {row, off} : Put(u, new)
  BY <1>2, <1>3 DEF mfa_disable
<1>5. /\ Account(row) /\ row.secret = users[u].secret /\ row.pending = users[u].pending
      /\ ~Gone(u, x) /\ x[2] <= secrets /\ GoneFrom(row, x)
      /\ \A y \in Codes : Gone(u, y) => GoneFrom(row, y)
  BY <1>1, <1>2, <1>4, SpendGivesUp
<1>6. Account(off) /\ off.secret = 0 /\ off.pending = row.pending
  <2>1. off = [state |-> row.state, password |-> row.password, confirmed |-> row.confirmed,
               uid |-> row.uid, failed |-> row.failed, locked |-> row.locked, mfa |-> FALSE,
               secret |-> 0, pending |-> row.pending, last |-> row.last, recovery |-> {}]
    BY <1>3, <1>5 DEF Account
  <2>2. row.pending \in Nat /\ row.last \in Nat /\ row.state = "user"
    BY <1>5 DEF Account
  <2> QED
    BY <2>1, <2>2 DEF Account
<1>7. GoneFrom(off, x) /\ \A y \in Codes : Gone(u, y) => GoneFrom(off, y)
  BY <1>5, <1>6, ACode DEF GoneFrom
<1>8. UsersHold' /\ SpentHold' /\ \A v \in Emails : v = u \/ Exists(v) => Exists(v)'
  <2>1. ASSUME NEW new \in {row, off}
        PROVE  /\ Account(new) /\ new.secret <= secrets' /\ new.pending <= secrets'
               /\ GoneFrom(new, x) /\ \A y \in Codes : Gone(u, y) => GoneFrom(new, y)
    BY <1>1, <1>4, <1>5, <1>6, <1>7, <2>1
  <2>2. secrets' \in Nat /\ secrets' >= secrets /\ x[2] <= secrets'
    BY <1>1, <1>4, <1>5
  <2> QED
    BY <1>4, <1>5, <2>1, <2>2, AccountChanges DEF FactorsIInv
<1>9. TokensHold' /\ GoogleHold'
  BY <1>4, <1>8, TokensSame, GoogleSame DEF FactorsIInv
<1> QED
  BY <1>8, <1>9 DEF FactorsIInv

\* Google's thread reads an account that is there, and links one that is still there.
LEMMA GoogleReadsKeeps ==
  ASSUME FactorsIInv, NEW c \in Claims, GoogleReads(c)
  PROVE  FactorsIInv' /\ \A v \in Emails : Exists(v) => Exists(v)'
<1>1. UNCHANGED <<users, secrets, spent, tokens>> /\ c[2] \in Emails
  BY AccountsAssumption DEF GoogleReads
<1>2. UsersHold' /\ SpentHold' /\ TokensHold' /\ \A v \in Emails : Exists(v) => Exists(v)'
  BY <1>1, UsersSame, TokensSame DEF FactorsIInv
<1>3. GoogleHold'
  <2>1. CASE ByUid(c[1]) # {}
    <3>1. PICK v : v = CHOOSE u \in ByUid(c[1]) : TRUE
      OBVIOUS
    <3>2. v \in Emails /\ Exists(v)
      BY <2>1, <3>1 DEF ByUid
    <3>3. google'.email = v
      BY <2>1, <3>1 DEF GoogleReads, Thread
    <3> QED
      BY <1>2, <3>2, <3>3 DEF GoogleHold
  <2>2. CASE ByUid(c[1]) = {} /\ ~Exists(c[2])
    <3>1. google'.at = "insert" /\ google'.email = c[2]
      BY <2>2 DEF GoogleReads, Thread
    <3> QED
      BY <1>1, <3>1 DEF GoogleHold
  <2>3. CASE ByUid(c[1]) = {} /\ Exists(c[2])
    <3>1. google'.at = "idle" \/ google'.email = c[2]
      BY <2>3 DEF GoogleReads, Thread, NoThread
    <3>2. google'.at \in {"idle", "link"}
      BY <2>3 DEF GoogleReads, Thread, NoThread
    <3> QED
      BY <1>1, <1>2, <2>3, <3>1, <3>2 DEF GoogleHold
  <2> QED
    BY <2>1, <2>2, <2>3
<1> QED
  BY <1>2, <1>3 DEF FactorsIInv

LEMMA GoogleWritesKeeps ==
  ASSUME FactorsIInv, GoogleWrites
  PROVE  FactorsIInv' /\ \A v \in Emails : Exists(v) => Exists(v)'
<1>1. PICK u \in Emails : u = google.email
  BY DEF GoogleWrites, FactorsIInv, GoogleHold
<1>2. PICK row : row = IF google.at = "insert" THEN User(FALSE, TRUE, google.uid)
                       ELSE [users[u] EXCEPT !.uid = google.uid, !.confirmed = TRUE]
  OBVIOUS
<1>3. UNCHANGED <<secrets, spent, tokens>> /\ google.at \in {"insert", "link"}
  BY DEF GoogleWrites
<1>4. CASE Put(u, row) /\ (google.at = "insert" => ~Exists(u)) /\ google' = Thread("check", <<google.uid, u>>, row)
  <2>1. \/ Exists(u) /\ Changed(users[u], row)
        \/ ~Exists(u) /\ Account(row) /\ row.secret = 0 /\ row.pending = 0
    <3>1. CASE google.at = "insert"
      BY <1>2, <1>4, <3>1, NewAccount
    <3>2. CASE google.at = "link"
      <4>1. PICK old : old = users[u] /\ Account(old)
        BY <1>1, <3>2 DEF FactorsIInv, UsersHold, GoogleHold
      <4>2. Exists(u)
        BY <1>1, <3>2 DEF FactorsIInv, GoogleHold
      <4>3. row = [old EXCEPT !.uid = google.uid, !.confirmed = TRUE]
        BY <1>2, <3>2, <4>1
      <4> QED
        BY <4>1, <4>2, <4>3 DEF Changed, Account
    <3> QED
      BY <1>3, <3>1, <3>2
  <2>2. UsersHold' /\ SpentHold' /\ \A v \in Emails : v = u \/ Exists(v) => Exists(v)'
    BY <1>3, <1>4, <2>1, AccountKeeps DEF FactorsIInv
  <2>3. google'.email = u
    BY <1>4 DEF Thread
  <2>4. GoogleHold'
    BY <2>2, <2>3 DEF GoogleHold
  <2> QED
    BY <1>3, <2>2, <2>4, TokensSame DEF FactorsIInv
<1>5. CASE UNCHANGED users /\ google' = NoThread
  <2>1. google'.at = "idle"
    BY <1>5 DEF NoThread
  <2>2. GoogleHold'
    BY <2>1 DEF GoogleHold
  <2> QED
    BY <1>3, <1>5, <2>2, UsersSame, TokensSame DEF FactorsIInv
<1> QED
  BY <1>1, <1>2, <1>4, <1>5 DEF GoogleWrites

LEMMA GoogleSignsInKeeps ==
  ASSUME FactorsIInv, GoogleSignsIn
  PROVE  FactorsIInv' /\ \A v \in Emails : Exists(v) => Exists(v)'
<1>1. PICK u \in Emails : u = google.email
  BY DEF GoogleSignsIn, FactorsIInv, GoogleHold
<1>2. UNCHANGED <<users, secrets, spent>> /\ Exists(u) /\ google'.at = "idle"
  BY <1>1 DEF GoogleSignsIn, FactorsIInv, GoogleHold, NoThread
<1>3. UsersHold' /\ SpentHold' /\ \A v \in Emails : Exists(v) => Exists(v)'
  BY <1>2, UsersSame DEF FactorsIInv
<1>4. tokens' = tokens \/ tokens' = Issued(u, "mfa_login")
  <2>1. CASE Locked(google.user)
    BY <2>1 DEF GoogleSignsIn
  <2>2. CASE ~Locked(google.user) /\ google.user.mfa
    BY <1>1, <2>2 DEF GoogleSignsIn
  <2>3. CASE ~Locked(google.user) /\ ~google.user.mfa
    BY <2>3 DEF GoogleSignsIn
  <2> QED
    BY <2>1, <2>2, <2>3
<1>5. TokensHold'
  BY <1>2, <1>3, <1>4, TokensSame, TokenIssued DEF FactorsIInv
<1>6. GoogleHold'
  BY <1>2 DEF GoogleHold
<1> QED
  BY <1>3, <1>5, <1>6 DEF FactorsIInv

-----------------------------------------------------------------------------
\* Every session is somebody's, so whoever is authorised has an account.
OwnersHold == \A i \in DOMAIN sessions : sessions[i].user \in Emails /\ Exists(sessions[i].user)

\* A step after which every session has an owner it had before, or the new owner u.
OwnersStay == \A i \in DOMAIN sessions' : \E j \in DOMAIN sessions : sessions'[i].user = sessions[j].user

LEMMA KnownOwners ==
  ASSUME IInv, [KnownNext]_<<now, sessionVars>>
  PROVE  OwnersStay
<1>1. PICK U, W : sessions \in Seq(Rows(U, W))
  BY DEF IInv, Typed
<1>2. DOMAIN sessions = 1..Len(sessions) /\ Len(sessions) \in Nat
  BY <1>1
<1>3. ASSUME UNCHANGED sessions PROVE OwnersStay
  BY <1>3 DEF OwnersStay
<1>4. ASSUME NEW S, sessions' = Revoked(S) PROVE OwnersStay
  <2>1. /\ DOMAIN sessions' = DOMAIN sessions
        /\ \A i \in DOMAIN sessions : sessions'[i].user = sessions[i].user
    BY <1>1, <1>2, <1>4, Marked
  <2> QED
    BY <2>1 DEF OwnersStay
<1>5. ASSUME NEW S, NEW raw \in DOMAIN sessions, sessions' = Append(Revoked(S), Successor(raw))
      PROVE  OwnersStay
  <2>1. /\ Revoked(S) \in Seq(Rows(U, W)) /\ Len(Revoked(S)) = Len(sessions)
        /\ \A i \in 1..Len(sessions) : Revoked(S)[i].user = sessions[i].user
    BY <1>1, Marked
  <2>2. PICK r : r = Successor(raw)
    OBVIOUS
  <2>3. r.user = sessions[raw].user
    BY <2>2 DEF Successor, NewSession
  <2>4. PICK rows : rows = Revoked(S)
    OBVIOUS
  <2>5. sessions' = Append(rows, r)
    BY <1>5, <2>2, <2>4
  <2>6. /\ DOMAIN sessions' = 1..(Len(sessions) + 1) /\ sessions'[Len(sessions) + 1] = r
        /\ \A i \in 1..Len(sessions) : sessions'[i] = rows[i]
    <3>1. PICK R : R = Rows(U, W) \cup {r}
      OBVIOUS
    <3>2. rows \in Seq(R) /\ Len(rows) = Len(sessions)
      BY <2>1, <2>4, <3>1
    <3> QED
      BY <1>2, <2>5, <3>2
  <2>7. \A i \in DOMAIN sessions' : i = Len(sessions) + 1 \/ i \in 1..Len(sessions)
    BY <1>2, <2>6
  <2> QED
    BY <1>2, <1>5, <2>1, <2>3, <2>4, <2>6, <2>7 DEF OwnersStay
<1>6. ASSUME NEW raw, RefreshStep(raw) PROVE OwnersStay
  <2>1. CASE Rotate(raw)
    BY <1>5, <2>1 DEF Rotate, Fresh, Found
  <2>2. CASE RotateCut(raw)
    <3>1. sessions' = Append(Revoked({}), Successor(raw)) /\ raw \in DOMAIN sessions
      BY <2>2, Unmarked DEF RotateCut, Fresh, Found, IInv
    <3> QED
      BY <1>5, <3>1
  <2>3. CASE Reuse(raw)
    BY <1>4, <2>3 DEF Reuse
  <2>4. CASE RefuseRefresh(raw)
    BY <1>3, <2>4 DEF RefuseRefresh, sessionVars
  <2> QED
    BY <1>6, <2>1, <2>2, <2>3, <2>4 DEF RefreshStep
<1>7. CASE RevokeStep
  BY <1>4, <1>7 DEF RevokeStep, revoke_all
<1>8. ASSUME NEW i, sign_out(i) PROVE OwnersStay
  BY <1>4, <1>8 DEF sign_out
<1>9. CASE OtherStep \/ Tick \/ UNCHANGED <<now, sessionVars>>
  BY <1>3, <1>9 DEF OtherStep, Tick, sessionVars
<1> QED
  BY <1>6, <1>7, <1>8, <1>9 DEF KnownNext, EndsNext

LEMMA NewOwner ==
  ASSUME IInv, OwnersHold, NEW u \in Emails, Exists(u), SignInStep(u),
         \A v \in Emails : Exists(v) => Exists(v)'
  PROVE  OwnersHold'
<1>1. PICK r : r.user = u /\ sessions' = Append(sessions, r)
  BY DEF SignInStep, _start_session, NewSession
<1>2. PICK U, W : sessions \in Seq(Rows(U, W))
  BY DEF IInv, Typed
<1>3. /\ DOMAIN sessions = 1..Len(sessions) /\ Len(sessions) \in Nat
      /\ DOMAIN sessions' = 1..(Len(sessions) + 1) /\ sessions'[Len(sessions) + 1] = r
      /\ \A i \in 1..Len(sessions) : sessions'[i] = sessions[i]
  BY <1>1, <1>2
<1>4. ASSUME NEW i \in DOMAIN sessions'
      PROVE  sessions'[i].user \in Emails /\ users'[sessions'[i].user] # NoUser
  <2>1. PICK v \in Emails : v = sessions'[i].user /\ Exists(v)
    <3>1. CASE i = Len(sessions) + 1
      BY <1>1, <1>3, <3>1
    <3>2. CASE i # Len(sessions) + 1
      <4>1. i \in DOMAIN sessions /\ sessions'[i] = sessions[i]
        BY <1>3, <3>2
      <4> QED
        BY <4>1 DEF OwnersHold
    <3> QED
      BY <3>1, <3>2
  <2> QED
    BY <2>1 DEF Exists
<1> QED
  BY <1>4 DEF OwnersHold, Exists

LEMMA SameOwners ==
  ASSUME OwnersHold, OwnersStay, \A v \in Emails : Exists(v) => Exists(v)'
  PROVE  OwnersHold'
<1>1. ASSUME NEW i \in DOMAIN sessions'
      PROVE  sessions'[i].user \in Emails /\ users'[sessions'[i].user] # NoUser
  <2>1. PICK v \in Emails : v = sessions'[i].user /\ Exists(v)
    BY DEF OwnersHold, OwnersStay
  <2> QED
    BY <2>1 DEF Exists
<1> QED
  BY <1>1 DEF OwnersHold, Exists

\* Whoever signs in has an account.
LEMMA WhoSignsIn ==
  ASSUME FactorsIInv, AccountsNext
  PROVE  [EndsNext]_<<now, sessionVars>> \/ \E u \in Emails : Exists(u) /\ SignInStep(u)
<1>1. ASSUME NEW k \in DOMAIN tokens PROVE tokens[k].user \in Emails /\ Exists(tokens[k].user)
  BY DEF FactorsIInv, TokensHold
<1>2. google.at = "check" => google.email \in Emails /\ Exists(google.email)
  BY DEF FactorsIInv, GoogleHold
<1> QED
  BY <1>1, <1>2, RegistrationObeys, PasswordObeys, TokenObeys, GoogleObeys DEF AccountsNext

LEMMA AccountsKeep ==
  ASSUME FactorsIInv, OwnersHold, AccountsNext
  PROVE  FactorsIInv' /\ \A v \in Emails : Exists(v) => Exists(v)'
<1>1. ASSUME NEW u, Authorised(u) PROVE Exists(u)
  BY <1>1 DEF Authorised, Own, OwnersHold
<1>2. ASSUME NEW u \in Emails, NEW x \in Codes, mfa_enable(u, x) \/ mfa_disable(u, x)
      PROVE  FactorsIInv' /\ \A v \in Emails : Exists(v) => Exists(v)'
  <2>1. Exists(u)
    BY <1>1, <1>2 DEF mfa_enable, mfa_disable
  <2> QED
    BY <1>2, <2>1, EnableKeeps, DisableKeeps
<1>3. ASSUME NEW u \in Emails, mfa_setup(u)
      PROVE  FactorsIInv' /\ \A v \in Emails : Exists(v) => Exists(v)'
  <2>1. Exists(u)
    BY <1>1, <1>3 DEF mfa_setup
  <2> QED
    BY <1>3, <2>1, SetupKeeps
<1> QED
  BY <1>2, <1>3, RegistrationKeeps, PasswordKeeps, MailKeeps, WrongCodeKeeps, RightCodeKeeps,
     GoogleReadsKeeps, GoogleWritesKeeps, GoogleSignsInKeeps DEF AccountsNext

\* The browser and the clock leave the accounts alone.
LEMMA FactorsSame ==
  ASSUME FactorsIInv, UNCHANGED accountVars
  PROVE  FactorsIInv' /\ \A v \in Emails : Exists(v) => Exists(v)'
<1>1. UNCHANGED <<users, tokens, secrets, google, spent>>
  BY DEF accountVars
<1> QED
  BY <1>1, UsersSame, TokensSame, GoogleSame DEF FactorsIInv

SystemIInv == IInv /\ OwnersHold /\ FactorsIInv

LEMMA SystemPreserved ==
  ASSUME REFRESH_TTL \in Nat, NamedSlots, SystemIInv, [SystemNext]_systemVars
  PROVE  SystemIInv'
<1>1. [SessionsNext]_<<now, sessionVars>>
  BY AccountsObey, BrowserObeys DEF SystemNext, systemVars, SessionsNext, KnownNext, EndsNext
<1>2. IInv'
  BY <1>1, Preserved DEF SystemIInv
<1>3. CASE AccountsNext
  <2>1. FactorsIInv' /\ \A v \in Emails : Exists(v) => Exists(v)'
    BY <1>3, AccountsKeep DEF SystemIInv
  <2>2. OwnersHold'
    BY <1>3, <2>1, WhoSignsIn, KnownOwners, NewOwner, SameOwners DEF SystemIInv, KnownNext
  <2> QED
    BY <1>2, <2>1, <2>2 DEF SystemIInv
<1>4. CASE UNCHANGED accountVars /\ [KnownNext]_<<now, sessionVars>>
  <2>1. FactorsIInv' /\ \A v \in Emails : Exists(v) => Exists(v)'
    BY <1>4, FactorsSame DEF SystemIInv
  <2>2. OwnersHold'
    BY <1>4, <2>1, KnownOwners, SameOwners DEF SystemIInv
  <2> QED
    BY <1>2, <2>1, <2>2 DEF SystemIInv
<1>5. AccountsNext \/ (UNCHANGED accountVars /\ [KnownNext]_<<now, sessionVars>>)
  BY BrowserObeys DEF SystemNext, systemVars, KnownNext, EndsNext
<1> QED
  BY <1>3, <1>4, <1>5

\* For any number of accounts, secrets, codes, sign-in tokens and crashes: no second factor
\* is accepted twice, however its sign-in, its setup and a crash at any of the writes come
\* together, and a sign-in token stands for one session and MFA_MAX_ATTEMPTS wrong codes.
THEOREM SecondFactorSpentOnceHolds == SystemSpec => []SecondFactorSpentOnce
<1>1. SystemInit => SystemIInv
  <2> SUFFICES ASSUME SystemInit PROVE SystemIInv
    OBVIOUS
  <2>1. IInv /\ FactorsIInv
    BY Initially, FactorsStart DEF SystemInit
  <2>2. OwnersHold
    BY DEF SystemInit, SessionsInit, OwnersHold
  <2> QED
    BY <2>1, <2>2 DEF SystemIInv
<1>2. SystemIInv /\ [SystemNext]_systemVars => SystemIInv'
  BY SystemPreserved, Constants
<1>3. SystemIInv => SecondFactorSpentOnce
  BY DEF SystemIInv, FactorsIInv, SpentHold, TokensHold, TokenRow, SecondFactorSpentOnce
<1> QED
  BY <1>1, <1>2, <1>3, PTL DEF SystemSpec

-----------------------------------------------------------------------------
(***************************************************************************)
(* The browser, for any tabs, calls and sessions.  A refresh token that is *)
(* in the cookie, in an answer or in a refresh under way is good: it is not*)
(* revoked, or its family is over.  The cookie is an old one only while the*)
(* answer that replaces it is on its way.                                  *)
(***************************************************************************)

Sound(n) == n \in DOMAIN sessions => ~sessions[n].revoked \/ Live(sessions[n].family) = {}

LEMMA SoundMarked ==
  ASSUME IInv, NEW S, sessions' = Revoked(S), NEW n, Sound(n),
         \A i \in DOMAIN sessions : i \in S => Live(sessions[i].family) \subseteq S
  PROVE  Sound(n)'
<1> SUFFICES ASSUME n \in DOMAIN sessions', sessions'[n].revoked, NEW i \in DOMAIN sessions',
                    sessions'[i].family = sessions'[n].family
             PROVE  sessions'[i].revoked
  BY DEF Sound, Live, Family
<1>1. PICK U, W : sessions \in Seq(Rows(U, W))
  BY DEF IInv, Typed
<1>2. /\ DOMAIN sessions = 1..Len(sessions) /\ DOMAIN sessions' = 1..Len(sessions)
      /\ \A k \in 1..Len(sessions) :
           /\ sessions'[k].family = sessions[k].family
           /\ sessions'[k].revoked = (sessions[k].revoked \/ k \in S)
  BY <1>1, Marked
<1>3. sessions[i].family = sessions[n].family
  BY <1>2
<1>4. sessions[n].revoked \/ n \in S
  BY <1>2
<1>5. sessions[i].revoked \/ i \in Live(sessions[n].family)
  BY <1>2, <1>3 DEF Live, Family
<1>6. sessions[i].revoked \/ i \in S
  BY <1>2, <1>4, <1>5 DEF Sound
<1> QED
  BY <1>2, <1>6

\* A session more, and S of the old ones are revoked.
LEMMA SoundAppended ==
  ASSUME IInv, NEW S, NEW r, sessions' = Append(Revoked(S), r), ~r.revoked,
         NEW n, Sound(n), n \notin S, n \in DOMAIN sessions => r.family # sessions[n].family \/ ~sessions[n].revoked
  PROVE  Sound(n)'
<1>1. PICK U, W : sessions \in Seq(Rows(U, W))
  BY DEF IInv, Typed
<1>2. PICK rows : rows = Revoked(S)
  OBVIOUS
<1>3. PICK N : N = Len(sessions)
  OBVIOUS
<1>4. /\ N \in Nat /\ DOMAIN sessions = 1..N /\ rows \in Seq(Rows(U, W)) /\ Len(rows) = N
      /\ \A i \in 1..N : /\ rows[i].family = sessions[i].family
                         /\ rows[i].revoked = (sessions[i].revoked \/ i \in S)
  BY <1>1, <1>2, <1>3, Marked
<1>5. /\ DOMAIN sessions' = 1..(N + 1) /\ sessions'[N + 1] = r
      /\ \A i \in 1..N : sessions'[i] = rows[i]
  <2>1. PICK R : R = Rows(U, W) \cup {r}
    OBVIOUS
  <2>2. rows \in Seq(R)
    BY <1>4, <2>1
  <2> QED
    BY <1>2, <1>4, <2>2
<1> SUFFICES ASSUME n \in DOMAIN sessions', sessions'[n].revoked
             PROVE  \A i \in DOMAIN sessions' : sessions'[i].family = sessions'[n].family => sessions'[i].revoked
  BY DEF Sound, Live, Family
<1>6. n \in 1..N
  BY <1>4, <1>5
<1>r. sessions[n].revoked
  <2>1. rows[n].revoked
    BY <1>5, <1>6
  <2> QED
    BY <1>4, <1>6, <2>1
<1>7. /\ sessions'[n].family = sessions[n].family
      /\ r.family # sessions[n].family /\ Live(sessions[n].family) = {}
  BY <1>4, <1>5, <1>6, <1>r DEF Sound
<1>8. PICK F : F = sessions[n].family
  OBVIOUS
<1>9. \A i \in DOMAIN sessions' : sessions'[i].family = F => sessions'[i].revoked
  <2> TAKE i \in DOMAIN sessions'
  <2>1. CASE i = N + 1
    BY <1>5, <1>7, <1>8, <2>1
  <2>2. CASE i # N + 1
    <3>1. i \in 1..N
      BY <1>4, <1>5, <2>2
    <3>2. sessions[i].family = F => sessions[i].revoked
      BY <1>4, <1>7, <1>8, <3>1 DEF Live, Family
    <3> QED
      BY <1>4, <1>5, <3>1, <3>2
  <2> QED
    BY <2>1, <2>2
<1> QED
  BY <1>7, <1>8, <1>9

\* What becomes of a good token at any step but the one that takes it.
LEMMA SoundStays ==
  ASSUME IInv, EndsNext \/ \E u : SignInStep(u), NEW n, Sound(n)
  PROVE  Sound(n)'
<1>1. ASSUME UNCHANGED sessions PROVE Sound(n)'
  BY <1>1 DEF Sound, Live, Family
<1>2. CASE RevokeStep
  <2>1. PICK u : sessions' = Revoked(Own(u))
    BY <1>2 DEF RevokeStep, revoke_all
  <2>2. PICK S : S = Own(u)
    OBVIOUS
  <2>3. \A i \in DOMAIN sessions : i \in S => Live(sessions[i].family) \subseteq S
    BY <2>2 DEF IInv, Named, Live, Family, Own
  <2> QED
    BY <2>1, <2>2, <2>3, SoundMarked
<1>3. ASSUME NEW i \in DOMAIN sessions, sign_out(i) PROVE Sound(n)'
  <2>1. PICK F : F = sessions[i].family
    OBVIOUS
  <2>2. PICK S : S = Family(F)
    OBVIOUS
  <2>3. \A j \in DOMAIN sessions : j \in S => Live(sessions[j].family) \subseteq S
    BY <2>2 DEF Live, Family
  <2>4. sessions' = Revoked(S)
    BY <1>3, <2>1, <2>2 DEF sign_out
  <2> QED
    BY <2>3, <2>4, SoundMarked
<1>4. ASSUME NEW u, SignInStep(u) PROVE Sound(n)'
  <2>1. PICK amr : _start_session(u, amr)
    BY <1>4 DEF SignInStep
  <2>2. PICK r : r = NewSession(u, NewId, amr)
    OBVIOUS
  <2>3. r.family = NewId /\ ~r.revoked
    BY <2>2 DEF NewSession
  <2>4. PICK S : S = {}
    OBVIOUS
  <2>5. sessions' = Append(Revoked(S), r)
    BY <2>1, <2>2, <2>4, Unmarked DEF _start_session, IInv
  <2>6. n \in DOMAIN sessions => r.family # sessions[n].family
    BY <2>3, LiveFinite DEF IInv, Named
  <2> QED
    BY <2>3, <2>4, <2>5, <2>6, SoundAppended
<1> QED
  BY <1>1, <1>2, <1>3, <1>4 DEF EndsNext, OtherStep, Tick, sessionVars

-----------------------------------------------------------------------------
BrowserHold ==
  /\ lost \in Nat /\ open \subseteq Tabs /\ user \subseteq open /\ answers \subseteq DOMAIN sessions
  /\ cookie \in DOMAIN sessions \cup {0}
  /\ flight = [t \in Tabs |-> flight[t]] /\ calls = [t \in Tabs |-> calls[t]]
  /\ \A t \in Tabs : /\ flight[t] = At(flight[t].at, flight[t].token)
                     /\ flight[t].token \in DOMAIN sessions \cup {0}
  /\ \A t \in Tabs \ open : flight[t] = NoFlight /\ \A c \in Slots[t] : calls[t][c] = Idle

\* One tab, nothing lost, no crash.
Calm == lost = 0 /\ crashes = 0 /\ \A t, v \in open : t = v

\* The tokens that the tab may still bring to the server.
InUse(t, n) ==
  \/ n \in answers
  \/ n = cookie /\ flight[t].at # "answered"
  \/ n = flight[t].token /\ flight[t].at \in {"sent", "answered"}

TabSound(t) ==
  /\ \A n : InUse(t, n) => Sound(n)
  /\ cookie \notin answers
  /\ flight[t].at \in {"sent", "answered"} => flight[t].token \notin answers
SoundHold == Calm => reused = {} /\ \A t \in open : TabSound(t)

LEMMA SessionsGrow ==
  ASSUME IInv, [SessionsNext]_<<now, sessionVars>>
  PROVE  /\ DOMAIN sessions \subseteq DOMAIN sessions'
         /\ answers \subseteq DOMAIN sessions => answers' \subseteq DOMAIN sessions'
<1>1. PICK U, W : sessions \in Seq(Rows(U, W))
  BY DEF IInv, Typed
<1>2. DOMAIN sessions = 1..Len(sessions) /\ Len(sessions) \in Nat
  BY <1>1
<1>3. ASSUME NEW S, sessions' = Revoked(S) PROVE DOMAIN sessions' = DOMAIN sessions
  BY <1>3 DEF Revoked
<1>4. ASSUME NEW S, NEW r, sessions' = Append(Revoked(S), r)
      PROVE  DOMAIN sessions' = DOMAIN sessions \cup {NewId}
  <2>1. PICK rows : rows = Revoked(S)
    OBVIOUS
  <2>2. PICK R : R = Rows(U, W) \cup {r}
    OBVIOUS
  <2>3. rows \in Seq(R) /\ Len(rows) = Len(sessions)
    BY <1>1, <2>1, <2>2, Marked
  <2>4. DOMAIN sessions' = 1..(Len(sessions) + 1)
    BY <1>2, <1>4, <2>1, <2>2, <2>3
  <2> QED
    BY <1>2, <2>4 DEF NewId
<1>5. ASSUME NEW u, SignInStep(u)
      PROVE  DOMAIN sessions' = DOMAIN sessions \cup {NewId} /\ answers' = answers \cup {NewId}
  BY <1>4, <1>5, Unmarked DEF SignInStep, _start_session, IInv
<1>6. ASSUME NEW raw, RefreshStep(raw)
      PROVE  DOMAIN sessions \subseteq DOMAIN sessions' /\ answers' = answers
  BY <1>3, <1>4, <1>6, Unmarked
     DEF RefreshStep, Rotate, RotateCut, Reuse, RefuseRefresh, sessionVars, IInv
<1>7. CASE EndsNext \/ UNCHANGED <<now, sessionVars>>
  <2>1. DOMAIN sessions' = DOMAIN sessions /\ answers' \subseteq answers
    BY <1>3, <1>7 DEF EndsNext, Tick, RevokeStep, revoke_all, OtherStep, sign_out, sessionVars
  <2> QED
    BY <2>1
<1> QED
  BY <1>5, <1>6, <1>7 DEF SessionsNext, KnownNext

\* One tab acts, and the others stay as they are.
LEMMA TabHolds ==
  ASSUME BrowserHold, DOMAIN sessions \subseteq DOMAIN sessions', answers' \subseteq DOMAIN sessions',
         NEW t \in open, UNCHANGED open, lost' \in Nat, user' \subseteq open,
         cookie' \in DOMAIN sessions' \cup {0}, NEW a, NEW n \in DOMAIN sessions' \cup {0},
         flight' = [flight EXCEPT ![t] = At(a, n)], NEW x, calls' = [calls EXCEPT ![t] = x]
  PROVE  BrowserHold'
<1>1. t \in Tabs
  BY DEF BrowserHold
<1>2. /\ flight' = [v \in Tabs |-> flight'[v]] /\ calls' = [v \in Tabs |-> calls'[v]]
      /\ flight'[t] = At(a, n)
      /\ \A v \in Tabs : v # t => flight'[v] = flight[v] /\ calls'[v] = calls[v]
  BY <1>1 DEF BrowserHold
<1>3. \A v \in Tabs : /\ flight'[v] = At(flight'[v].at, flight'[v].token)
                      /\ flight'[v].token \in DOMAIN sessions' \cup {0}
  BY <1>2 DEF BrowserHold, At
<1>4. \A v \in Tabs \ open : flight'[v] = NoFlight /\ \A c \in Slots[v] : calls'[v][c] = Idle
  BY <1>2 DEF BrowserHold
<1> QED
  BY <1>2, <1>3, <1>4 DEF BrowserHold, At, NoFlight, Idle

\* Whoever acts is open.
LEMMA TabActs ==
  ASSUME BrowserHold, NEW t \in Tabs
  PROVE  /\ \A c \in Slots[t] : calls[t][c] # Idle => t \in open
         /\ flight[t] # NoFlight => t \in open
         /\ t \in user => t \in open
BY DEF BrowserHold

LEMMA TabStep ==
  ASSUME SoundHold, NEW t \in open, UNCHANGED open, Calm' => Calm,
         Calm' /\ reused = {} /\ TabSound(t) => reused' = {} /\ TabSound(t)'
  PROVE  SoundHold'
<1> SUFFICES ASSUME Calm' PROVE reused' = {} /\ \A v \in open' : TabSound(v)'
  BY DEF SoundHold
<1>1. reused' = {} /\ TabSound(t)'
  BY DEF SoundHold
<1>2. \A v \in open' : v = t
  BY DEF Calm
<1> QED
  BY <1>1, <1>2

\* What a tab does, but for the server's part of it.
CallStep(t) == \E c \in Slots[t] : \/ Send(t, c) \/ Succeeds(t, c) \/ Unauthorised(t, c)
                                   \/ StillUnauthorised(t, c) \/ CallLost(t, c)
PageStep(t) == \/ \E i \in answers : SignedIn(t, i)
               \/ Timer(t) \/ Refreshed(t) \/ NotRefreshed(t) \/ Reload(t)
ServerStep(t) == ServeRefresh(t) \/ RefreshLost(t)

LEMMA Same ==
  ASSUME BrowserHold, NEW t \in open
  PROVE  /\ calls = [calls EXCEPT ![t] = calls[t]]
         /\ flight = [flight EXCEPT ![t] = At(flight[t].at, flight[t].token)]
         /\ flight[t].token \in DOMAIN sessions \cup {0}
         /\ \A c, y : [calls EXCEPT ![t][c] = y] = [calls EXCEPT ![t] = [calls[t] EXCEPT ![c] = y]]
BY DEF BrowserHold

LEMMA AttemptIs ==
  ASSUME BrowserHold, NEW t \in open, attemptRefresh(t)
  PROVE  \E a : \E n \in {flight[t].token, cookie} :
           /\ flight' = [flight EXCEPT ![t] = At(a, n)]
           /\ \/ a = flight[t].at /\ n = flight[t].token
              \/ flight[t].at = "none" /\ a = "sent" /\ n = cookie
<1>1. CASE flight[t] # NoFlight
  BY <1>1, Same DEF attemptRefresh
<1>2. CASE flight[t] = NoFlight
  <2>1. flight[t].at = "none"
    BY <1>2 DEF NoFlight, At
  <2>2. flight' = [flight EXCEPT ![t] = At("sent", cookie)]
    BY <1>2 DEF attemptRefresh
  <2> QED
    BY <2>1, <2>2
<1> QED
  BY <1>1, <1>2

LEMMA CallHolds ==
  ASSUME IInv, BrowserHold, NamedSlots, NEW t \in Tabs, CallStep(t), [SessionsNext]_<<now, sessionVars>>
  PROVE  t \in open /\ BrowserHold'
<1>1. PICK c \in Slots[t] : \/ Send(t, c) \/ Succeeds(t, c) \/ Unauthorised(t, c)
                            \/ StillUnauthorised(t, c) \/ CallLost(t, c)
  BY DEF CallStep
<1>2. t \in open
  <2>1. t \in open \/ calls[t][c].at # "idle"
    BY <1>1 DEF Send, Succeeds, Unauthorised, StillUnauthorised, CallLost
  <2> QED
    BY <2>1, TabActs DEF Idle, At
<1>3. DOMAIN sessions \subseteq DOMAIN sessions' /\ answers' \subseteq DOMAIN sessions'
  BY SessionsGrow DEF BrowserHold
<1>4. \E y : SetCall(t, c, y)
  BY <1>1 DEF Send, Succeeds, Unauthorised, StillUnauthorised, CallLost
<1>5. \E x : calls' = [calls EXCEPT ![t] = x]
  BY <1>2, <1>4, Same DEF SetCall
<1>6. c \in {"data", "init", "logout"}
  BY DEF NamedSlots
<1>7. /\ UNCHANGED open /\ lost' \in Nat /\ user' \subseteq open
      /\ cookie' \in DOMAIN sessions' \cup {0}
  <2>1. CASE Send(t, c)
    BY <1>3, <2>1 DEF Send, BrowserHold
  <2>2. CASE Succeeds(t, c)
    BY <1>2, <1>3, <1>6, <2>2 DEF Succeeds, BrowserHold
  <2>3. CASE Unauthorised(t, c)
    BY <1>3, <2>3 DEF Unauthorised, BrowserHold
  <2>4. CASE StillUnauthorised(t, c)
    BY <1>3, <2>4 DEF StillUnauthorised, GivesUp, BrowserHold
  <2>5. CASE CallLost(t, c)
    BY <1>3, <2>5 DEF CallLost, GivesUp, Loss, BrowserHold
  <2> QED
    BY <1>1, <2>1, <2>2, <2>3, <2>4, <2>5
<1>8. \E a : \E n \in DOMAIN sessions' \cup {0} : flight' = [flight EXCEPT ![t] = At(a, n)]
  <2>1. CASE UNCHANGED flight
    BY <1>2, <1>3, <2>1, Same
  <2>2. CASE attemptRefresh(t)
    BY <1>2, <1>3, <2>2, Same, AttemptIs DEF BrowserHold
  <2> QED
    BY <1>1, <2>1, <2>2 DEF Send, Succeeds, Unauthorised, StillUnauthorised, CallLost
<1> QED
  BY <1>2, <1>3, <1>5, <1>7, <1>8, TabHolds

LEMMA PageHolds ==
  ASSUME IInv, BrowserHold, NEW t \in Tabs, PageStep(t), [SessionsNext]_<<now, sessionVars>>
  PROVE  t \in open /\ BrowserHold'
<1>1. DOMAIN sessions \subseteq DOMAIN sessions' /\ answers' \subseteq DOMAIN sessions'
  BY SessionsGrow DEF BrowserHold
<1>2. ASSUME NEW i \in answers, SignedIn(t, i) PROVE t \in open /\ BrowserHold'
  <2>1. t \in open
    BY <1>2 DEF SignedIn
  <2>2. /\ UNCHANGED <<open, calls, flight, sessions>> /\ lost' \in Nat /\ user' \subseteq open
        /\ cookie' \in DOMAIN sessions' \cup {0}
    BY <1>2 DEF SignedIn, BrowserHold
  <2> QED
    BY <1>1, <2>1, <2>2, Same, TabHolds
<1>3. CASE Timer(t)
  <2>1. t \in open /\ attemptRefresh(t)
    BY <1>3, TabActs DEF Timer
  <2>2. /\ UNCHANGED <<open, calls, sessions>> /\ lost' \in Nat /\ user' \subseteq open
        /\ cookie' \in DOMAIN sessions' \cup {0}
    BY <1>3 DEF Timer, sessionVars, BrowserHold
  <2>3. \E a : \E n \in DOMAIN sessions' \cup {0} : flight' = [flight EXCEPT ![t] = At(a, n)]
    BY <1>1, <2>1, Same, AttemptIs DEF BrowserHold
  <2>4. calls' = [calls EXCEPT ![t] = calls[t]]
    BY <2>1, <2>2, Same
  <2> QED
    BY <1>1, <2>1, <2>2, <2>3, <2>4, TabHolds
<1>4. ASSUME Refreshed(t) \/ NotRefreshed(t) \/ Reload(t) PROVE t \in open /\ BrowserHold'
  <2>1. t \in open
    BY <1>4, TabActs DEF Refreshed, NotRefreshed, Reload, NoFlight, At
  <2>2. /\ UNCHANGED <<open, sessions>> /\ lost' \in Nat /\ user' \subseteq open
        /\ cookie' \in DOMAIN sessions' \cup {0}
    <3>1. flight[t].token \in DOMAIN sessions \cup {0}
      BY <2>1, Same
    <3> QED
      BY <1>4, <3>1 DEF Refreshed, NotRefreshed, Reload, Leave, Loss, sessionVars, BrowserHold
  <2>3. flight' = [flight EXCEPT ![t] = At("none", 0)] /\ \E x : calls' = [calls EXCEPT ![t] = x]
    BY <1>4 DEF Refreshed, NotRefreshed, Reload, Leave, NoFlight
  <2> QED
    BY <1>1, <2>1, <2>2, <2>3, TabHolds
<1> QED
  BY <1>2, <1>3, <1>4 DEF PageStep

LEMMA RotateIs ==
  ASSUME IInv, NEW raw, Rotate(raw)
  PROVE  /\ raw \in DOMAIN sessions /\ NewId \in DOMAIN sessions' /\ NewId \notin DOMAIN sessions
         /\ ~sessions[raw].revoked /\ UNCHANGED <<answers, reused, crashes>>
         /\ sessions'[NewId] = Successor(raw) /\ ~sessions'[NewId].revoked
         /\ \A n : n # raw /\ Sound(n) => Sound(n)'
<1>1. /\ raw \in DOMAIN sessions /\ ~sessions[raw].revoked /\ UNCHANGED <<answers, reused, crashes>>
      /\ sessions' = Append(Revoked({raw}), Successor(raw))
  BY DEF Rotate, Fresh, Found
<1>2. PICK r : r = Successor(raw)
  OBVIOUS
<1>3. ~r.revoked /\ r.family = sessions[raw].family
  BY <1>2 DEF Successor, NewSession
<1>4. PICK S : S = {raw}
  OBVIOUS
<1>5. NewId \in DOMAIN sessions' /\ NewId \notin DOMAIN sessions /\ sessions'[NewId] = r
  <2>1. PICK U, W : sessions \in Seq(Rows(U, W))
    BY DEF IInv, Typed
  <2>2. PICK rows : rows = Revoked(S)
    OBVIOUS
  <2>3. PICK R : R = Rows(U, W) \cup {r}
    OBVIOUS
  <2>4. rows \in Seq(R) /\ Len(rows) = Len(sessions) /\ sessions' = Append(rows, r)
    BY <1>1, <1>2, <1>4, <2>1, <2>2, <2>3, Marked
  <2> QED
    BY <2>1, <2>3, <2>4 DEF NewId
<1>6. ASSUME NEW n, n # raw, Sound(n) PROVE Sound(n)'
  <2>1. n \in DOMAIN sessions => r.family # sessions[n].family \/ ~sessions[n].revoked
    <3>1. ASSUME n \in DOMAIN sessions, r.family = sessions[n].family, sessions[n].revoked PROVE FALSE
      <4>1. raw \in Live(sessions[n].family)
        BY <1>1, <1>3, <3>1 DEF Live, Family
      <4> QED
        BY <1>6, <3>1, <4>1 DEF Sound
    <3> QED
      BY <3>1
  <2>2. n \notin S /\ sessions' = Append(Revoked(S), r)
    BY <1>1, <1>2, <1>4, <1>6
  <2> QED
    BY <1>3, <1>6, <2>1, <2>2, SoundAppended
<1> QED
  BY <1>1, <1>2, <1>3, <1>5, <1>6

\* A refresh starts with the cookie, and only when no other is under way.
LEMMA AttemptSound ==
  ASSUME BrowserHold, SoundHold, NEW t \in open, t \in Tabs, attemptRefresh(t),
         UNCHANGED <<sessionVars, cookie, open, lost>>
  PROVE  SoundHold'
<1>1. UNCHANGED <<sessions, answers, reused, crashes>>
  BY DEF sessionVars
<1>2. PICK a, n : /\ flight' = [flight EXCEPT ![t] = At(a, n)]
                  /\ \/ a = flight[t].at /\ n = flight[t].token
                     \/ flight[t].at = "none" /\ a = "sent" /\ n = cookie
  BY AttemptIs
<1>3. flight'[t].at = a /\ flight'[t].token = n
  BY <1>2 DEF At, BrowserHold
<1>4. ASSUME TabSound(t) PROVE TabSound(t)'
  <2>1. \A m : InUse(t, m)' => InUse(t, m)
    BY <1>1, <1>2, <1>3 DEF InUse
  <2>2. \A m : Sound(m) => Sound(m)'
    BY <1>1 DEF Sound, Live, Family
  <2> QED
    BY <1>1, <1>2, <1>3, <1>4, <2>1, <2>2 DEF TabSound
<1> QED
  BY <1>1, <1>4, TabStep DEF Calm

LEMMA ServerHolds ==
  ASSUME IInv, BrowserHold, NEW t \in Tabs, ServerStep(t), [SessionsNext]_<<now, sessionVars>>
  PROVE  t \in open /\ BrowserHold'
<1>1. DOMAIN sessions \subseteq DOMAIN sessions' /\ answers' \subseteq DOMAIN sessions'
  BY SessionsGrow DEF BrowserHold
<1>2. t \in open
  BY TabActs DEF ServerStep, ServeRefresh, RefreshLost, NoFlight, At
<1>3. flight[t] = At(flight[t].at, flight[t].token) /\ flight[t].token \in DOMAIN sessions' \cup {0}
  BY <1>1, <1>2, Same DEF BrowserHold
<1>4. CASE ServeRefresh(t)
  <2>1. UNCHANGED <<open, calls, lost, user, cookie>>
    BY <1>4 DEF ServeRefresh
  <2>2. ASSUME Rotate(flight[t].token) PROVE NewId \in DOMAIN sessions'
    BY <2>2, RotateIs
  <2>3. \E a : \E n \in DOMAIN sessions' \cup {0} : flight' = [flight EXCEPT ![t] = At(a, n)]
    <3>1. [flight EXCEPT ![t].at = "refused"] = [flight EXCEPT ![t] = At("refused", flight[t].token)]
      <4>1. PICK old : old = flight[t]
        OBVIOUS
      <4>2. PICK new : new = [old EXCEPT !.at = "refused"]
        OBVIOUS
      <4>3. new = At("refused", old.token)
        BY <1>3, <4>1, <4>2 DEF At
      <4> QED
        BY <4>1, <4>2, <4>3
    <3> QED
      BY <1>3, <1>4, <2>2, <3>1 DEF ServeRefresh
  <2>4. calls' = [calls EXCEPT ![t] = calls[t]] /\ lost' \in Nat /\ user' \subseteq open /\ cookie' \in DOMAIN sessions' \cup {0}
    BY <1>1, <1>2, <2>1, Same DEF BrowserHold
  <2> QED
    BY <1>1, <1>2, <2>1, <2>3, <2>4, TabHolds
<1>5. CASE RefreshLost(t)
  <2>1. UNCHANGED open /\ lost' \in Nat /\ user' \subseteq open /\ cookie' \in DOMAIN sessions' \cup {0}
    BY <1>1, <1>5 DEF RefreshLost, Leave, Loss, BrowserHold
  <2>2. flight' = [flight EXCEPT ![t] = At("none", 0)] /\ \E x : calls' = [calls EXCEPT ![t] = x]
    BY <1>5 DEF RefreshLost, Leave, NoFlight
  <2> QED
    BY <1>1, <1>2, <2>1, <2>2, TabHolds
<1> QED
  BY <1>2, <1>4, <1>5 DEF ServerStep

-----------------------------------------------------------------------------
LEMMA SoundSame ==
  ASSUME UNCHANGED sessions, NEW n, Sound(n)
  PROVE  Sound(n)'
BY DEF Sound, Live, Family

\* A call, and what it makes of the cookie and the refresh.
LEMMA CallSound ==
  ASSUME IInv, BrowserHold, SoundHold, NamedSlots, NEW t \in open, CallStep(t), BrowserHold'
  PROVE  SoundHold'
<1>1. PICK c \in Slots[t] : \/ Send(t, c) \/ Succeeds(t, c) \/ Unauthorised(t, c)
                            \/ StillUnauthorised(t, c) \/ CallLost(t, c)
  BY DEF CallStep
<1>2. c \in {"data", "init", "logout"} /\ t \in Tabs
  BY DEF NamedSlots, BrowserHold
<1>3. CASE CallLost(t, c)
  <2>1. lost' = lost + 1 /\ lost \in Nat
    BY <1>3 DEF CallLost, Loss, BrowserHold
  <2> QED
    BY <2>1 DEF SoundHold, Calm
<1>4. CASE Send(t, c) \/ StillUnauthorised(t, c)
  <2>1. UNCHANGED <<sessionVars, cookie, flight, open, lost>>
    BY <1>4 DEF Send, StillUnauthorised
  <2> QED
    BY <2>1, SoundSame DEF SoundHold, Calm, TabSound, InUse, sessionVars
<1>5. CASE Succeeds(t, c)
  <2>1. UNCHANGED <<flight, open, lost, answers, crashes, reused>>
    BY <1>2, <1>5 DEF Succeeds, sign_out, sessionVars
  <2>2. CASE UNCHANGED <<sessions, cookie>>
    BY <2>1, <2>2, SoundSame DEF SoundHold, Calm, TabSound, InUse
  <2>3. CASE cookie' = 0 /\ sign_out(calls[t][c].token) /\ calls[t][c].token \in DOMAIN sessions
    <3>1. Sound(0)' /\ 0 \notin answers
      <4>1. DOMAIN sessions' = DOMAIN sessions
        BY <2>3 DEF sign_out, Revoked
      <4>2. 0 \notin DOMAIN sessions
        BY LiveFinite DEF IInv
      <4> QED
        BY <4>1, <4>2 DEF Sound, BrowserHold
    <3>2. \A n : Sound(n) => Sound(n)'
      BY <1>5, <2>3, SoundStays DEF EndsNext, Succeeds
    <3>3. TabSound(t) => TabSound(t)'
      BY <2>1, <2>3, <3>1, <3>2 DEF TabSound, InUse
    <3> QED
      BY <2>1, <3>3, TabStep DEF Calm
  <2> QED
    BY <1>2, <1>5, <2>2, <2>3 DEF Succeeds, validate_token, sessionVars
<1>6. CASE Unauthorised(t, c)
  <2>1. UNCHANGED <<sessionVars, cookie, open, lost>> /\ attemptRefresh(t)
    BY <1>6 DEF Unauthorised
  <2> QED
    BY <1>2, <2>1, AttemptSound
<1> QED
  BY <1>1, <1>3, <1>4, <1>5, <1>6

\* A sign-in's answer, the timer, the end of a refresh and a reload.
LEMMA PageSound ==
  ASSUME IInv, BrowserHold, SoundHold, NEW t \in open, t \in Tabs, PageStep(t), BrowserHold'
  PROVE  SoundHold'
<1>1. \A n : UNCHANGED sessions /\ Sound(n) => Sound(n)'
  BY SoundSame
<1>2. ASSUME NEW i \in answers, SignedIn(t, i) PROVE SoundHold'
  <2>1. /\ UNCHANGED <<sessions, reused, crashes, open, flight, lost>>
        /\ cookie' = i /\ answers' = answers \ {i}
    BY <1>2 DEF SignedIn
  <2>2. TabSound(t) => TabSound(t)'
    BY <1>1, <1>2, <2>1 DEF TabSound, InUse
  <2> QED
    BY <2>1, <2>2, TabStep DEF Calm
<1>3. CASE Timer(t)
  BY <1>3, AttemptSound DEF Timer
<1>4. CASE Refreshed(t) \/ NotRefreshed(t)
  <2>1. /\ UNCHANGED <<sessions, answers, reused, crashes, open, lost>>
        /\ flight' = [flight EXCEPT ![t] = NoFlight]
        /\ \/ flight[t].at = "answered" /\ cookie' = flight[t].token
           \/ flight[t].at = "refused" /\ cookie' = cookie
    BY <1>4 DEF Refreshed, NotRefreshed, Leave, sessionVars
  <2>2. flight'[t].at = "none"
    BY <2>1 DEF NoFlight, At, BrowserHold
  <2>3. TabSound(t) => TabSound(t)'
    BY <1>1, <2>1, <2>2 DEF TabSound, InUse
  <2> QED
    BY <2>1, <2>3, TabStep DEF Calm
<1>5. CASE Reload(t)
  <2>1. lost' = lost + 1 /\ lost \in Nat
    BY <1>5 DEF Reload, Loss, BrowserHold
  <2> QED
    BY <2>1 DEF SoundHold, Calm
<1> QED
  BY <1>2, <1>3, <1>4, <1>5 DEF PageStep

\* A good token is rotated, and the tab waits for the one that replaces it; a bad one is of
\* a family that is over.
LEMMA ServerSound ==
  ASSUME IInv, BrowserHold, SoundHold, NEW t \in open, t \in Tabs, ServerStep(t), BrowserHold'
  PROVE  SoundHold'
<1>1. CASE RefreshLost(t)
  <2>1. lost \in Nat /\ crashes \in Nat
    BY DEF BrowserHold, IInv, Typed
  <2>2. lost' = lost + 1 \/ crashes' = crashes + 1
    BY <1>1 DEF RefreshLost, Loss, RotateCut, Crash
  <2> QED
    BY <2>1, <2>2 DEF SoundHold, Calm
<1>2. CASE ServeRefresh(t)
  <2>0. PICK raw : raw = flight[t].token
    OBVIOUS
  <2>1. UNCHANGED <<open, cookie, lost>> /\ flight[t].at = "sent"
    BY <1>2 DEF ServeRefresh
  <2>2. CASE Rotate(raw) /\ flight' = [flight EXCEPT ![t] = At("answered", NewId)]
    <3>1. flight'[t].at = "answered" /\ flight'[t].token = NewId
      BY <2>2 DEF At, BrowserHold
    <3>2. /\ NewId \in DOMAIN sessions' /\ NewId \notin DOMAIN sessions
          /\ ~sessions'[NewId].revoked /\ UNCHANGED <<answers, reused, crashes>>
          /\ \A n : n # raw /\ Sound(n) => Sound(n)'
      BY <2>2, RotateIs
    <3>3. ASSUME TabSound(t) PROVE TabSound(t)'
      <4>1. \A n : InUse(t, n)' => n \in answers \/ n = NewId
        BY <3>1, <3>2 DEF InUse
      <4>2. raw \notin answers /\ NewId \notin answers
        BY <2>0, <2>1, <3>2, <3>3 DEF TabSound, BrowserHold
      <4>3. \A n \in answers : Sound(n)'
        BY <3>2, <3>3, <4>2 DEF TabSound, InUse
      <4>4. PICK m : m = NewId
        OBVIOUS
      <4>5. Sound(m)'
        BY <3>2, <4>4 DEF Sound
      <4> QED
        BY <2>1, <3>1, <3>2, <3>3, <4>1, <4>2, <4>3, <4>4, <4>5 DEF TabSound
    <3> QED
      BY <2>1, <3>2, <3>3, TabStep DEF Calm
  <2>3. CASE (Reuse(raw) \/ RefuseRefresh(raw)) /\ flight' = [flight EXCEPT ![t].at = "refused"]
    <3>1. UNCHANGED <<answers, crashes>> /\ flight'[t].at = "refused"
      <4>1. PICK new : new = [flight[t] EXCEPT !.at = "refused"]
        OBVIOUS
      <4>2. new.at = "refused"
        BY <4>1 DEF BrowserHold, At
      <4>3. flight'[t] = new
        BY <2>3, <4>1 DEF BrowserHold
      <4> QED
        BY <2>3, <4>2, <4>3 DEF Reuse, RefuseRefresh, sessionVars
    <3>2. \A n : Sound(n) => Sound(n)'
      <4>1. CASE Reuse(raw)
        <5>1. PICK S : S = Family(sessions[raw].family)
          OBVIOUS
        <5>2. \A i \in DOMAIN sessions : i \in S => Live(sessions[i].family) \subseteq S
          BY <5>1 DEF Live, Family
        <5> QED
          BY <4>1, <5>1, <5>2, SoundMarked DEF Reuse
      <4>2. CASE RefuseRefresh(raw)
        BY <4>2, SoundSame DEF RefuseRefresh, sessionVars
      <4> QED
        BY <2>3, <4>1, <4>2
    <3>3. TabSound(t) => TabSound(t)'
      BY <2>1, <3>1, <3>2 DEF TabSound, InUse
    <3>4. reused = {} /\ TabSound(t) => reused' = {}
      <4>1. TabSound(t) => Sound(raw)
        BY <2>0, <2>1 DEF TabSound, InUse
      <4> QED
        BY <2>3, <4>1 DEF Reuse, RefuseRefresh, Found, Sound, sessionVars
    <3> QED
      BY <2>1, <3>1, <3>3, <3>4, TabStep DEF Calm
  <2> QED
    BY <1>2, <2>0, <2>2, <2>3 DEF ServeRefresh
<1> QED
  BY <1>1, <1>2 DEF ServerStep

LEMMA BrowserSplits ==
  ASSUME BrowserNext
  PROVE  \E t \in Tabs : CallStep(t) \/ PageStep(t) \/ ServerStep(t)
BY DEF BrowserNext, CallStep, PageStep, ServerStep

\* The accounts end sessions and start them; no token in use is rotated.
LEMMA AccountsSound ==
  ASSUME IInv, IInv', BrowserHold, SoundHold, UNCHANGED browserVars,
         [EndsNext]_<<now, sessionVars>> \/ \E u : SignInStep(u)
  PROVE  BrowserHold' /\ SoundHold'
<1>1. UNCHANGED <<open, cookie, user, calls, flight, lost>>
  BY DEF browserVars
<1>2. DOMAIN sessions \subseteq DOMAIN sessions' /\ answers' \subseteq DOMAIN sessions'
  BY SessionsGrow DEF SessionsNext, KnownNext, BrowserHold
<1>3. BrowserHold'
  BY <1>1, <1>2 DEF BrowserHold
<1>4. \A n : Sound(n) => Sound(n)'
  BY SoundStays, SoundSame DEF sessionVars
<1>5. UNCHANGED reused /\ crashes' >= crashes /\ crashes \in Nat /\ crashes' \in Nat
  BY DEF EndsNext, Tick, RevokeStep, OtherStep, sign_out, SignInStep, Crash, sessionVars,
         IInv, Typed
<1>6. \/ answers' \subseteq answers
      \/ /\ answers' = answers \cup {NewId} /\ NewId \notin DOMAIN sessions /\ NewId \notin {0}
         /\ \A n : n = NewId => Sound(n)'
  <2>1. CASE [EndsNext]_<<now, sessionVars>>
    BY <2>1 DEF EndsNext, Tick, RevokeStep, OtherStep, sign_out, sessionVars
  <2>2. ASSUME NEW u, SignInStep(u)
        PROVE  /\ answers' = answers \cup {NewId} /\ NewId \notin DOMAIN sessions /\ NewId # 0
               /\ \A n : n = NewId => Sound(n)'
    <3>1. PICK amr : _start_session(u, amr)
      BY <2>2 DEF SignInStep
    <3>r. PICK r : r = NewSession(u, NewId, amr)
      OBVIOUS
    <3>2. r = NewSession(u, NewId, amr) /\ ~r.revoked
      BY <3>r DEF NewSession
    <3>3. answers' = answers \cup {NewId} /\ sessions' = Append(sessions, r)
      BY <3>1, <3>2 DEF _start_session
    <3>4. PICK U, W : sessions \in Seq(Rows(U, W))
      BY DEF IInv, Typed
    <3>5. sessions'[NewId] = r /\ NewId \notin DOMAIN sessions /\ NewId # 0
      BY <3>3, <3>4 DEF NewId
    <3>6. \A n : n = NewId => Sound(n)'
      BY <3>2, <3>5 DEF Sound
    <3> QED
      BY <3>3, <3>5, <3>6
  <2> QED
    BY <2>1, <2>2
<1>7. ASSUME NEW t \in open, TabSound(t) PROVE TabSound(t)'
  <2>1. \A n : InUse(t, n)' => InUse(t, n) \/ (n = NewId /\ Sound(n)')
    BY <1>1, <1>6 DEF InUse
  <2>2. cookie \in DOMAIN sessions \cup {0} /\ flight[t].token \in DOMAIN sessions \cup {0}
    BY DEF BrowserHold
  <2>3. cookie' \notin answers'
    BY <1>1, <1>6, <1>7, <2>2 DEF TabSound
  <2>4. flight'[t].at \in {"sent", "answered"} => flight'[t].token \notin answers'
    BY <1>1, <1>6, <1>7, <2>2 DEF TabSound
  <2> QED
    BY <1>4, <1>7, <2>1, <2>3, <2>4 DEF TabSound
<1> QED
  BY <1>1, <1>3, <1>5, <1>7 DEF SoundHold, Calm

TabsIInv == BrowserHold /\ SoundHold

LEMMA TabsPreserved ==
  ASSUME REFRESH_TTL \in Nat, NamedSlots, SystemIInv, TabsIInv, [SystemNext]_systemVars
  PROVE  TabsIInv'
<1>1. SystemIInv' /\ IInv /\ IInv' /\ FactorsIInv
  BY SystemPreserved DEF SystemIInv
<1>2. [SessionsNext]_<<now, sessionVars>>
  BY AccountsObey, BrowserObeys DEF SystemNext, systemVars, SessionsNext, KnownNext, EndsNext
<1>3. CASE BrowserNext
  <2>1. PICK t \in Tabs : CallStep(t) \/ PageStep(t) \/ ServerStep(t)
    BY <1>3, BrowserSplits
  <2>2. t \in open /\ BrowserHold'
    BY <1>1, <1>2, <2>1, CallHolds, PageHolds, ServerHolds DEF TabsIInv
  <2>3. SoundHold'
    BY <1>1, <2>1, <2>2, CallSound, PageSound, ServerSound DEF TabsIInv
  <2> QED
    BY <2>2, <2>3 DEF TabsIInv
<1>4. CASE UNCHANGED browserVars /\ ([EndsNext]_<<now, sessionVars>> \/ \E u : SignInStep(u))
  BY <1>1, <1>4, AccountsSound DEF TabsIInv
<1>5. AccountsNext => [EndsNext]_<<now, sessionVars>> \/ \E u : SignInStep(u)
  BY <1>1, WhoSignsIn
<1> QED
  BY <1>3, <1>4, <1>5 DEF SystemNext, systemVars, EndsNext

LEMMA TabsStart == SystemInit => SystemIInv /\ TabsIInv
<1> SUFFICES ASSUME SystemInit PROVE SystemIInv /\ TabsIInv
  OBVIOUS
<1>1. SystemIInv
  BY Initially, FactorsStart DEF SystemInit, SystemIInv, SessionsInit, OwnersHold
<1>2. BrowserHold
  BY DEF SystemInit, BrowserInit, SessionsInit, BrowserHold, NoFlight, Idle, At
<1>3. SoundHold
  BY DEF SystemInit, BrowserInit, SessionsInit, SoundHold, TabSound, InUse, Sound, NoFlight, At
<1> QED
  BY <1>1, <1>2, <1>3 DEF TabsIInv

\* For any tabs, calls, users and sessions: a token that comes back ends a live family only
\* after a lost call, a crash or with a second tab, however many calls of the tab find their
\* token expired at once.
THEOREM ReuseNeedsLossOrTabsHolds == SystemSpec => []ReuseNeedsLossOrTabs
<1>1. SystemInit => SystemIInv /\ TabsIInv
  BY TabsStart
<1>2. SystemIInv /\ TabsIInv /\ [SystemNext]_systemVars => SystemIInv' /\ TabsIInv'
  BY SystemPreserved, TabsPreserved, Constants
<1>3. SystemIInv /\ TabsIInv => ReuseNeedsLossOrTabs
  <2> SUFFICES ASSUME SystemIInv, TabsIInv, ~ReuseNeedsLossOrTabs PROVE FALSE
    OBVIOUS
  <2>1. lost = 0 /\ crashes = 0 /\ reused # {}
    BY DEF ReuseNeedsLossOrTabs, SystemIInv, TabsIInv, BrowserHold, IInv, Typed
  <2>2. IsFiniteSet(open) /\ Cardinality(open) \in Nat /\ Cardinality(open) <= 1
    <3>1. IsFiniteSet(open) /\ Cardinality(open) \in Nat
      BY BrowserAssumption, FS_Subset, FS_CardinalityType DEF TabsIInv, BrowserHold
    <3> QED
      BY <3>1 DEF ReuseNeedsLossOrTabs
  <2>3. \A t, v \in open : t = v
    <3> SUFFICES ASSUME NEW t \in open, NEW v \in open, t # v PROVE FALSE
      OBVIOUS
    <3>1. PICK S : S = {t}
      OBVIOUS
    <3>2. IsFiniteSet(S) /\ Cardinality(S) = 1 /\ v \notin S
      BY <3>1, FS_Singleton
    <3>3. Cardinality(S \cup {v}) = 2
      <4>1. Cardinality(S \cup {v}) = Cardinality(S) + 1
        BY <3>2, FS_AddElement
      <4> QED
        BY <3>2, <4>1
    <3>4. S \cup {v} \in SUBSET open
      BY <3>1
    <3>5. Cardinality(S \cup {v}) <= Cardinality(open)
      BY <2>2, <3>4, FS_Subset
    <3> QED
      BY <2>2, <3>3, <3>5
  <2> QED
    BY <2>1, <2>3 DEF TabsIInv, SoundHold, Calm
<1> QED
  BY <1>1, <1>2, <1>3, PTL DEF SystemSpec

-----------------------------------------------------------------------------
(***************************************************************************)
(* The lock.  An account has had a number of full rounds of wrong          *)
(* passwords and as many more as it counts; the last full round says until *)
(* when it is locked.                                                      *)
(***************************************************************************)

LEMMA OneQuotient ==
  ASSUME NEW T \in Nat \ {0}, NEW p \in Nat, NEW q \in Nat, NEW f \in 0..(T - 1), NEW L \in Nat,
         L = p * T + f, q * T <= L, L < (q + 1) * T
  PROVE  p = q
<1>1. p * T \in Nat /\ q * T \in Nat /\ T \in Nat /\ f \in Nat /\ f < T
  OBVIOUS
<1>2. CASE p < q
  <2>1. PICK d \in Nat : q = p + 1 + d
    <3>1. q - p - 1 \in Nat /\ q = p + 1 + (q - p - 1)
      BY <1>2
    <3> QED
      BY <3>1
  <2>2. d * T \in Nat /\ q * T = p * T + T + d * T
    BY <2>1
  <2> QED
    BY <1>1, <2>2
<1>3. CASE q < p
  <2>1. PICK d \in Nat : p = q + 1 + d
    <3>1. p - q - 1 \in Nat /\ p = q + 1 + (p - q - 1)
      BY <1>3
    <3> QED
      BY <3>1
  <2>2. d * T \in Nat /\ p * T = (q + 1) * T + d * T /\ (q + 1) * T \in Nat
    BY <2>1
  <2> QED
    BY <1>1, <2>2
<1> QED
  BY <1>2, <1>3

Rounds(row, wrong) ==
  \E q \in Nat :
    /\ Len(wrong) = q * LOCKOUT_THRESHOLD + row.failed /\ row.failed \in 0..(LOCKOUT_THRESHOLD - 1)
    /\ q > 0 => row.locked = wrong[q * LOCKOUT_THRESHOLD] + LOCKOUT_TIME

LockHold ==
  /\ tries = [u \in Emails |-> tries[u]]
  /\ \A u \in Emails : /\ tries[u] \in Seq(Nat)
                       /\ IF Exists(u) THEN Rounds(users[u], tries[u]) ELSE tries[u] = <<>>

\* What an account keeps to while it changes: a second factor that is on has a secret and
\* a last step, the recovery codes are few, and no other account has its Google account.
RowHeld(row) ==
  /\ row.mfa => row.secret # 0 /\ row.last # 0
  /\ row.recovery \subseteq 1..RECOVERY_CODES
KeepsRow(u, new) ==
  /\ IF Exists(u) THEN RowHeld(users[u]) => RowHeld(new) ELSE RowHeld(new)
  /\ (Exists(u) /\ new.uid = users[u].uid) \/ new.uid = 0 \/ ByUid(new.uid) \subseteq {u}

\* The ways an account changes: the counters stay, or start over, or a round goes on.
KeepsLock(u, new) ==
  /\ Put(u, new) /\ new # NoUser /\ KeepsRow(u, new) /\ UNCHANGED tries
  /\ IF Exists(u) THEN new.failed = users[u].failed /\ new.locked = users[u].locked ELSE new.failed = 0
ResetsLock(u, new) ==
  /\ Put(u, new) /\ new # NoUser /\ KeepsRow(u, new) /\ new.failed = 0 /\ tries' = [tries EXCEPT ![u] = <<>>] /\ Exists(u)
  /\ ~Locked(users[u]) \/ \E k \in DOMAIN tokens : ~tokens[k].used /\ tokens'[k].used

LEMMA NoRounds ==
  ASSUME NEW row, row.failed = 0
  PROVE  Rounds(row, <<>>)
<1>1. 0 = 0 * LOCKOUT_THRESHOLD + row.failed /\ row.failed \in 0..(LOCKOUT_THRESHOLD - 1)
  BY AccountsAssumption
<1> QED
  BY <1>1 DEF Rounds

LEMMA OneMore ==
  ASSUME now \in Nat, NEW old, NEW wrong \in Seq(Nat), Rounds(old, wrong), Account(old),
         NEW new, new = _failed(old)
  PROVE  Rounds(new, Append(wrong, now))
<1>0. LOCKOUT_THRESHOLD \in Nat \ {0} /\ LOCKOUT_TIME \in Nat
  BY AccountsAssumption
<1>1. PICK q \in Nat :
        /\ Len(wrong) = q * LOCKOUT_THRESHOLD + old.failed /\ old.failed \in 0..(LOCKOUT_THRESHOLD - 1)
        /\ q > 0 => old.locked = wrong[q * LOCKOUT_THRESHOLD] + LOCKOUT_TIME
  BY DEF Rounds
<1>2. PICK n \in Nat : n = q * LOCKOUT_THRESHOLD
  BY <1>0
<1>3. PICK more : more = Append(wrong, now)
  OBVIOUS
<1>4. /\ Len(more) = Len(wrong) + 1 /\ more[Len(wrong) + 1] = now
      /\ \A i \in 1..Len(wrong) : more[i] = wrong[i]
  BY <1>3
<1>5. CASE old.failed + 1 < LOCKOUT_THRESHOLD
  <2>1. PICK f : f = old.failed + 1
    OBVIOUS
  <2>2. new.failed = f /\ new.locked = old.locked
    <3>1. new = [old EXCEPT !.failed = f]
      BY <1>5, <2>1 DEF _failed
    <3> QED
      BY <3>1 DEF Account
  <2>3. Len(more) = n + new.failed /\ new.failed \in 0..(LOCKOUT_THRESHOLD - 1)
    <3>1. PICK m \in Nat : m = old.failed /\ m + 1 < LOCKOUT_THRESHOLD
      BY <1>0, <1>1, <1>5
    <3>2. f = m + 1
      BY <2>1, <3>1
    <3>3. f \in 0..(LOCKOUT_THRESHOLD - 1)
      BY <1>0, <3>1, <3>2
    <3>4. Len(wrong) = n + m
      BY <1>1, <1>2, <3>1
    <3>5. Len(more) = n + f
      BY <1>2, <1>4, <3>1, <3>2, <3>4
    <3> QED
      BY <2>2, <3>3, <3>5
  <2>4. q > 0 => n \in 1..Len(wrong)
    <3>1. q > 0 => n > 0
      BY <1>0, <1>2
    <3> QED
      BY <1>0, <1>1, <1>2, <3>1
  <2>5. q > 0 => new.locked = more[n] + LOCKOUT_TIME
    BY <1>1, <1>2, <1>4, <2>2, <2>4
  <2> QED
    BY <1>2, <1>3, <2>3, <2>5 DEF Rounds
<1>6. CASE ~(old.failed + 1 < LOCKOUT_THRESHOLD)
  <2>1. new = [old EXCEPT !.failed = 0, !.locked = now + LOCKOUT_TIME]
    BY <1>6 DEF _failed
  <2>2. new.failed = 0 /\ new.locked = now + LOCKOUT_TIME
    BY <2>1 DEF Account
  <2>3. (q + 1) * LOCKOUT_THRESHOLD = n + LOCKOUT_THRESHOLD
    BY <1>0, <1>2
  <2>4. old.failed + 1 = LOCKOUT_THRESHOLD
    BY <1>0, <1>1, <1>6
  <2>5. /\ Len(more) = (q + 1) * LOCKOUT_THRESHOLD + new.failed
        /\ new.failed \in 0..(LOCKOUT_THRESHOLD - 1) /\ q + 1 \in Nat
        /\ (q + 1) * LOCKOUT_THRESHOLD = Len(wrong) + 1
    BY <1>0, <1>1, <1>2, <1>4, <2>2, <2>3, <2>4
  <2>6. new.locked = more[(q + 1) * LOCKOUT_THRESHOLD] + LOCKOUT_TIME
    BY <1>4, <2>2, <2>5
  <2> QED
    BY <1>3, <2>5, <2>6 DEF Rounds
<1> QED
  BY <1>5, <1>6

LEMMA LockSame == ASSUME LockHold, UNCHANGED <<users, tries>> PROVE LockHold'
BY DEF LockHold, Exists

LEMMA LockMoves ==
  ASSUME LockHold, NEW u \in Emails, NEW new, NEW wrong, Put(u, new), new # NoUser, users = [v \in Emails |-> users[v]],
         tries' = [tries EXCEPT ![u] = wrong], wrong \in Seq(Nat), Rounds(new, wrong)
  PROVE  LockHold'
<1>1. users'[u] = new /\ tries'[u] = wrong /\ tries' = [v \in Emails |-> tries'[v]]
  BY DEF Put, LockHold
<1>2. \A v \in Emails : v # u => users'[v] = users[v] /\ tries'[v] = tries[v]
  BY DEF Put, LockHold
<1>3. ASSUME NEW v \in Emails
      PROVE  /\ tries'[v] \in Seq(Nat)
             /\ IF users'[v] # NoUser THEN Rounds(users'[v], tries'[v]) ELSE tries'[v] = <<>>
  <2>1. CASE v = u
    BY <1>1, <2>1
  <2>2. CASE v # u
    BY <1>2, <2>2 DEF LockHold, Exists
  <2> QED
    BY <2>1, <2>2
<1> QED
  BY <1>1, <1>3 DEF LockHold, Exists, Rounds

LEMMA LockStep ==
  ASSUME LockHold, UsersHold, now \in Nat, NEW u \in Emails, NEW new,
         KeepsLock(u, new) \/ ResetsLock(u, new) \/ WrongPassword(u)
  PROVE  LockHold'
<1>0. users = [v \in Emails |-> users[v]] /\ tries = [v \in Emails |-> tries[v]] /\ tries[u] \in Seq(Nat)
  BY DEF UsersHold, LockHold
<1>1. CASE KeepsLock(u, new)
  <2>1. tries' = [tries EXCEPT ![u] = tries[u]]
    BY <1>0, <1>1 DEF KeepsLock
  <2>2. Rounds(new, tries[u])
    BY <1>1, NoRounds DEF KeepsLock, LockHold, Rounds
  <2> QED
    BY <1>0, <1>1, <2>1, <2>2, LockMoves DEF KeepsLock
<1>2. CASE ResetsLock(u, new)
  <2>1. <<>> \in Seq(Nat) /\ Rounds(new, <<>>)
    BY <1>2, NoRounds DEF ResetsLock
  <2> QED
    BY <1>0, <1>2, <2>1, LockMoves DEF ResetsLock
<1>3. CASE WrongPassword(u)
  <2>1. PICK old : old = users[u] /\ Account(old) /\ Rounds(old, tries[u])
    BY <1>3 DEF WrongPassword, UsersHold, LockHold
  <2>2. PICK row : row = _failed(old)
    OBVIOUS
  <2>3. PICK wrong : wrong = Append(tries[u], now)
    OBVIOUS
  <2>4. Rounds(row, wrong) /\ wrong \in Seq(Nat)
    BY <1>0, <2>1, <2>2, <2>3, OneMore
  <2>5. row # NoUser
    BY <2>1, <2>2, ExistsIsAccount DEF _failed, Account, NoUser
  <2>6. Put(u, row) /\ tries' = [tries EXCEPT ![u] = wrong]
    BY <1>3, <2>1, <2>2, <2>3 DEF WrongPassword
  <2> QED
    BY <1>0, <2>4, <2>5, <2>6, LockMoves
<1> QED
  BY <1>1, <1>2, <1>3

\* Every step leaves the counters of every account, or moves one of them.
CountersMove ==
  \/ UNCHANGED <<users, tries>>
  \/ \E u \in Emails : (\E new : KeepsLock(u, new) \/ ResetsLock(u, new)) \/ WrongPassword(u)

LEMMA RegistrationMoves ==
  ASSUME FactorsIInv, NEW u \in Emails, Register(u)
  PROVE  CountersMove
<1>1. CASE sign_up(u)
  <2>1. PICK new : new = User(TRUE, ~VerifyEmails, 0)
    OBVIOUS
  <2>2. new.failed = 0 /\ new # NoUser
    BY <2>1, NewAccount, ExistsIsAccount DEF User
  <2>r. RowHeld(new) /\ new.uid = 0
    BY <2>1 DEF User, RowHeld
  <2>3. KeepsLock(u, new)
    BY <1>1, <2>1, <2>2, <2>r DEF sign_up, KeepsLock, KeepsRow
  <2> QED
    BY <2>3 DEF CountersMove
<1>2. CASE send_verification(u) \/ request_password_reset(u)
  BY <1>2 DEF send_verification, request_password_reset, CountersMove
<1>3. CASE invite(u)
  <2>1. CASE Exists(u)
    <3>1. users' = users
      BY <1>3, <2>1 DEF invite, Put, FactorsIInv, UsersHold
    <3> QED
      BY <1>3, <3>1 DEF invite, CountersMove
  <2>2. CASE ~Exists(u)
    <3>1. PICK new : new = User(FALSE, FALSE, 0)
      OBVIOUS
    <3>2. new.failed = 0 /\ new # NoUser
      BY <3>1, NewAccount, ExistsIsAccount DEF User
    <3>r. RowHeld(new) /\ new.uid = 0
      BY <3>1 DEF User, RowHeld
    <3>3. KeepsLock(u, new)
      BY <1>3, <2>2, <3>1, <3>2, <3>r DEF invite, KeepsLock, KeepsRow
    <3> QED
      BY <3>3 DEF CountersMove
  <2> QED
    BY <2>1, <2>2
<1> QED
  BY <1>1, <1>2, <1>3 DEF Register

LEMMA PasswordMoves ==
  ASSUME FactorsIInv, NEW u \in Emails, WrongPassword(u) \/ RightPassword(u) \/ logout_everywhere(u)
  PROVE  CountersMove
<1>1. CASE WrongPassword(u)
  BY <1>1 DEF CountersMove
<1>2. CASE RightPassword(u)
  <2>1. PICK old : old = users[u] /\ Account(old)
    BY <1>2 DEF RightPassword, FactorsIInv, UsersHold
  <2>2. PICK new : new = [old EXCEPT !.failed = 0, !.locked = 0]
    OBVIOUS
  <2>3. new.failed = 0 /\ new # NoUser
    BY <2>1, <2>2 DEF Account, NoUser
  <2>r. (RowHeld(old) => RowHeld(new)) /\ new.uid = old.uid
    BY <2>1, <2>2 DEF Account, RowHeld
  <2>4. ResetsLock(u, new)
    BY <1>2, <2>1, <2>2, <2>3, <2>r DEF RightPassword, ResetsLock, KeepsRow
  <2> QED
    BY <2>4 DEF CountersMove
<1>3. CASE logout_everywhere(u)
  BY <1>3 DEF logout_everywhere, accountVars, CountersMove
<1> QED
  BY <1>1, <1>2, <1>3

\* A token that is used was not.
LEMMA UsesToken ==
  ASSUME TokensHold, NEW k \in DOMAIN tokens, NEW purpose, Good(k, purpose), tokens' = Used(k)
  PROVE  \E j \in DOMAIN tokens : ~tokens[j].used /\ tokens'[j].used
<1>1. PICK old : old = tokens[k] /\ TokenRow(old)
  BY DEF TokensHold
<1>2. PICK new : new = [old EXCEPT !.used = TRUE]
  OBVIOUS
<1>3. new.used /\ ~old.used
  BY <1>1, <1>2 DEF TokenRow, Good
<1>4. tokens' = [tokens EXCEPT ![k] = new]
  BY <1>1, <1>2 DEF Used
<1> QED
  BY <1>1, <1>3, <1>4

LEMMA MailMoves ==
  ASSUME FactorsIInv, NEW k \in DOMAIN tokens,
         verify_email(k) \/ \E p \in {"reset_password", "invite"} : reset_password(k, p)
  PROVE  CountersMove
<1>1. PICK u \in Emails : u = tokens[k].user /\ Exists(u) /\ Account(users[u])
  BY DEF FactorsIInv, UsersHold, TokensHold
<1>2. PICK old : old = users[u]
  OBVIOUS
<1>3. CASE verify_email(k)
  <2>1. PICK new : new = [old EXCEPT !.confirmed = TRUE]
    OBVIOUS
  <2>2. new.failed = old.failed /\ new.locked = old.locked /\ new # NoUser
    BY <1>1, <1>2, <2>1 DEF Account, NoUser
  <2>3. UNCHANGED tries /\ (Put(u, new) \/ UNCHANGED users)
    BY <1>1, <1>2, <1>3, <2>1 DEF verify_email
  <2>r. (RowHeld(old) => RowHeld(new)) /\ new.uid = old.uid
    BY <1>1, <1>2, <2>1 DEF Account, RowHeld
  <2> QED
    BY <1>1, <1>2, <2>2, <2>3, <2>r DEF KeepsLock, KeepsRow, CountersMove
<1>4. ASSUME NEW p, reset_password(k, p) PROVE CountersMove
  <2>1. PICK new : new = [old EXCEPT !.password = TRUE, !.failed = 0, !.locked = 0, !.confirmed = TRUE]
    OBVIOUS
  <2>2. new.failed = 0 /\ new # NoUser
    BY <1>1, <1>2, <2>1 DEF Account, NoUser
  <2>3. \E j \in DOMAIN tokens : ~tokens[j].used /\ tokens'[j].used
    BY <1>4, UsesToken DEF reset_password, FactorsIInv
  <2>4. \/ UNCHANGED <<users, tries>>
        \/ Put(u, new) /\ tries' = [tries EXCEPT ![u] = <<>>]
    BY <1>1, <1>2, <1>4, <2>1 DEF reset_password
  <2>r. (RowHeld(old) => RowHeld(new)) /\ new.uid = old.uid
    BY <1>1, <1>2, <2>1 DEF Account, RowHeld
  <2> QED
    BY <1>1, <1>2, <2>2, <2>3, <2>4, <2>r DEF ResetsLock, KeepsRow, CountersMove
<1> QED
  BY <1>3, <1>4

\* A second factor that is spent, turned on or turned off.
LEMMA CodeMoves ==
  ASSUME FactorsIInv, NEW u \in Emails, Exists(u), NEW x \in Codes,
         \/ \E k \in DOMAIN tokens : u = tokens[k].user /\ RightCode(k, x)
         \/ mfa_enable(u, x) \/ mfa_disable(u, x)
  PROVE  CountersMove
<1>1. PICK old : old = users[u] /\ Account(old)
  BY DEF FactorsIInv, UsersHold
<1>2. PICK row : row = Spend(old, x)
  OBVIOUS
<1>3. /\ row.failed = old.failed /\ row.locked = old.locked /\ Account(row)
      /\ row.uid = old.uid /\ (RowHeld(old) => RowHeld(row))
  <2>1. CASE x[1] = "totp"
    <3>1. row = [old EXCEPT !.last = x[3]] /\ x[3] \in Nat /\ x[3] # 0
      BY <1>2, <2>1, ACode DEF Spend, Codes
    <3> QED
      BY <1>1, <3>1 DEF Account, RowHeld
  <2>2. CASE x[1] # "totp"
    <3>1. row = [old EXCEPT !.recovery = old.recovery \ {x[3]}]
      BY <1>2, <2>2 DEF Spend
    <3> QED
      BY <1>1, <3>1 DEF Account, RowHeld
  <2> QED
    BY <2>1, <2>2
<1>4. ASSUME NEW new, Put(u, new), UNCHANGED tries, new # NoUser,
             new.failed = old.failed /\ new.locked = old.locked, new.uid = old.uid,
             RowHeld(old) => RowHeld(new)
      PROVE  CountersMove
  BY <1>1, <1>4 DEF KeepsLock, KeepsRow, CountersMove
<1>5. row # NoUser
  BY <1>3, ExistsIsAccount
<1>6. CASE \E k \in DOMAIN tokens : u = tokens[k].user /\ RightCode(k, x)
  <2>1. Put(u, row) /\ UNCHANGED tries
    BY <1>1, <1>2, <1>6 DEF RightCode
  <2> QED
    BY <1>3, <1>4, <1>5, <2>1
<1>7. CASE mfa_enable(u, x)
  <2>1. PICK new : new = [old EXCEPT !.mfa = TRUE, !.secret = old.pending, !.pending = 0,
                                     !.last = x[3], !.recovery = 1..RECOVERY_CODES]
    OBVIOUS
  <2>2. /\ new.failed = old.failed /\ new.locked = old.locked /\ new # NoUser /\ new.uid = old.uid
        /\ new.secret = old.pending /\ new.last = x[3] /\ new.recovery = 1..RECOVERY_CODES
    BY <1>1, <2>1 DEF Account, NoUser
  <2>3. Put(u, new) /\ UNCHANGED tries /\ old.pending # 0 /\ x[1] = "totp"
    BY <1>1, <1>7, <2>1 DEF mfa_enable, verify_code
  <2>4. RowHeld(new)
    BY <2>2, <2>3 DEF RowHeld, Codes
  <2> QED
    BY <1>4, <2>2, <2>3, <2>4
<1>8. CASE mfa_disable(u, x)
  <2>1. PICK off : off = [row EXCEPT !.mfa = FALSE, !.secret = 0, !.recovery = {}]
    OBVIOUS
  <2>2. /\ off.failed = row.failed /\ off.locked = row.locked /\ off # NoUser
        /\ off.uid = row.uid /\ RowHeld(off)
    BY <1>3, <2>1 DEF Account, NoUser, RowHeld
  <2>3. (Put(u, row) \/ Put(u, off)) /\ UNCHANGED tries
    BY <1>1, <1>2, <1>8, <2>1 DEF mfa_disable
  <2> QED
    BY <1>3, <1>4, <1>5, <2>2, <2>3
<1> QED
  BY <1>6, <1>7, <1>8

\* Google's thread makes an account that counts nothing, or links one as it stands.
LEMMA GoogleMoves ==
  ASSUME FactorsIInv, GoogleWrites
  PROVE  CountersMove
<1>1. PICK u \in Emails : u = google.email
  BY DEF GoogleWrites, FactorsIInv, GoogleHold
<1>2. PICK new : new = User(FALSE, TRUE, google.uid)
  OBVIOUS
<1>3. PICK linked : linked = [users[u] EXCEPT !.uid = google.uid, !.confirmed = TRUE]
  OBVIOUS
<1>4. google.at \in {"insert", "link"} /\ UNCHANGED tries
  BY DEF GoogleWrites
<1>5. CASE google.at = "insert"
  <2>1. new.failed = 0 /\ new # NoUser /\ RowHeld(new) /\ new.uid = google.uid
    BY <1>2, NewAccount, ExistsIsAccount DEF User, RowHeld
  <2>2. (~Exists(u) /\ Put(u, new) /\ ByUid(google.uid) \subseteq {u}) \/ UNCHANGED users
    BY <1>1, <1>2, <1>5 DEF GoogleWrites
  <2> QED
    BY <1>4, <2>1, <2>2 DEF KeepsLock, KeepsRow, CountersMove
<1>6. CASE google.at = "link"
  <2>1. PICK old : old = users[u] /\ Account(old) /\ Exists(u)
    BY <1>1, <1>6 DEF FactorsIInv, UsersHold, GoogleHold
  <2>2. /\ linked.failed = old.failed /\ linked.locked = old.locked /\ linked # NoUser
        /\ linked.uid = google.uid /\ (RowHeld(old) => RowHeld(linked))
    <3>1. linked = [old EXCEPT !.uid = google.uid, !.confirmed = TRUE]
      BY <1>3, <2>1
    <3> QED
      BY <2>1, <3>1 DEF Account, NoUser, RowHeld
  <2>3. (Put(u, linked) /\ ByUid(google.uid) \subseteq {u}) \/ UNCHANGED users
    BY <1>1, <1>3, <1>6 DEF GoogleWrites
  <2> QED
    BY <1>4, <2>1, <2>2, <2>3 DEF KeepsLock, KeepsRow, CountersMove
<1> QED
  BY <1>4, <1>5, <1>6

LEMMA AccountsMove ==
  ASSUME FactorsIInv, OwnersHold, AccountsNext
  PROVE  CountersMove
<1>1. ASSUME NEW u, Authorised(u) PROVE Exists(u)
  BY <1>1 DEF Authorised, Own, OwnersHold
<1>2. ASSUME NEW u \in Emails, NEW x \in Codes, mfa_enable(u, x) \/ mfa_disable(u, x)
      PROVE  CountersMove
  <2>1. Exists(u)
    BY <1>1, <1>2 DEF mfa_enable, mfa_disable
  <2> QED
    BY <1>2, <2>1, CodeMoves
<1>3. ASSUME NEW u \in Emails, mfa_setup(u) PROVE CountersMove
  <2>1. PICK old : old = users[u] /\ Account(old) /\ Exists(u)
    BY <1>1, <1>3 DEF mfa_setup, FactorsIInv, UsersHold
  <2>2. PICK new : new = [old EXCEPT !.pending = secrets']
    OBVIOUS
  <2>3. new.failed = old.failed /\ new.locked = old.locked /\ new # NoUser
    BY <2>1, <2>2 DEF Account, NoUser
  <2>4. Put(u, new) /\ UNCHANGED tries
    BY <1>3, <2>1, <2>2 DEF mfa_setup
  <2>5. new.uid = old.uid /\ (RowHeld(old) => RowHeld(new))
    BY <2>1, <2>2 DEF Account, RowHeld
  <2> QED
    BY <2>1, <2>3, <2>4, <2>5 DEF KeepsLock, KeepsRow, CountersMove
<1>4. ASSUME NEW k \in DOMAIN tokens, NEW x \in Codes, RightCode(k, x) PROVE CountersMove
  <2>1. PICK u \in Emails : u = tokens[k].user /\ Exists(u)
    BY DEF FactorsIInv, TokensHold
  <2> QED
    BY <1>4, <2>1, CodeMoves
<1>5. ASSUME \/ \E k \in DOMAIN tokens : WrongCode(k)
             \/ \E c \in Claims : GoogleReads(c)
             \/ GoogleSignsIn
      PROVE  CountersMove
  <2>1. UNCHANGED <<users, tries>>
    <3>1. \A k : WrongCode(k) => UNCHANGED <<users, tries>>
      BY DEF WrongCode
    <3>2. \A c : GoogleReads(c) => UNCHANGED <<users, tries>>
      BY DEF GoogleReads
    <3>3. GoogleSignsIn => UNCHANGED <<users, tries>>
      BY DEF GoogleSignsIn
    <3> QED
      BY <1>5, <3>1, <3>2, <3>3
  <2> QED
    BY <2>1 DEF CountersMove
<1> QED
  BY <1>2, <1>3, <1>4, <1>5, RegistrationMoves, PasswordMoves, MailMoves, GoogleMoves
     DEF AccountsNext

LockIInv == SystemIInv /\ LockHold

LEMMA LockPreserved ==
  ASSUME REFRESH_TTL \in Nat, NamedSlots, LockIInv, [SystemNext]_systemVars
  PROVE  LockIInv' /\ CountersMove
<1>1. SystemIInv'
  BY SystemPreserved DEF LockIInv
<1>2. CountersMove
  <2>1. CASE AccountsNext
    BY <2>1, AccountsMove DEF LockIInv, SystemIInv
  <2>2. CASE UNCHANGED accountVars
    BY <2>2 DEF accountVars, CountersMove
  <2> QED
    BY <2>1, <2>2, BrowserObeys DEF SystemNext, systemVars
<1>3. UsersHold /\ LockHold /\ now \in Nat
  BY DEF LockIInv, SystemIInv, FactorsIInv, IInv, Typed
<1>4. LockHold'
  BY <1>2, <1>3, LockSame, LockStep DEF CountersMove
<1> QED
  BY <1>1, <1>2, <1>4 DEF LockIInv

\* What the action property says of one step.
LockStays ==
  \A u \in Emails : \A q \in 1..Len(tries[u]) :
    FullRounds(u, q) /\ tries'[u] = <<>> =>
      \/ tries[u][q * LOCKOUT_THRESHOLD] + LOCKOUT_TIME <= now
      \/ \E k \in DOMAIN tokens : ~tokens[k].used /\ tokens'[k].used

LEMMA LockStaysOn ==
  ASSUME LockIInv, CountersMove
  PROVE  LockStays
<1>1. SUFFICES ASSUME NEW u \in Emails, NEW q \in 1..Len(tries[u]), FullRounds(u, q), tries'[u] = <<>>,
                      ~\E k \in DOMAIN tokens : ~tokens[k].used /\ tokens'[k].used
               PROVE  tries[u][q * LOCKOUT_THRESHOLD] + LOCKOUT_TIME <= now
  BY DEF LockStays
<1>2. /\ tries[u] \in Seq(Nat) /\ Len(tries[u]) \in Nat /\ Len(tries[u]) > 0 /\ tries[u] # <<>>
      /\ tries = [v \in Emails |-> tries[v]] /\ now \in Nat /\ q \in Nat /\ q > 0
  BY <1>1 DEF LockIInv, LockHold, SystemIInv, IInv, Typed
<1>3. ~Locked(users[u]) /\ Exists(u)
  <2>1. ASSUME NEW v \in Emails, NEW new, KeepsLock(v, new) \/ ResetsLock(v, new) \/ WrongPassword(v)
        PROVE  ~Locked(users[u]) /\ Exists(u)
    <3>1. ~KeepsLock(v, new)
      BY <1>1, <1>2 DEF KeepsLock
    <3>2. ~WrongPassword(v)
      <4>1. SUFFICES ASSUME WrongPassword(v) PROVE FALSE
        OBVIOUS
      <4>2. PICK wrong : wrong = Append(tries[v], now)
        OBVIOUS
      <4>3. tries[v] \in Seq(Nat)
        BY DEF LockIInv, LockHold
      <4>4. Len(wrong) = Len(tries[v]) + 1 /\ Len(tries[v]) \in Nat
        BY <4>2, <4>3
      <4>5. wrong # <<>>
        BY <4>4
      <4>6. tries' = [tries EXCEPT ![v] = wrong]
        BY <4>1, <4>2 DEF WrongPassword
      <4> QED
        BY <1>1, <1>2, <4>5, <4>6
    <3>3. CASE ResetsLock(v, new)
      <4>1. v = u
        BY <1>1, <1>2, <3>3 DEF ResetsLock
      <4> QED
        BY <1>1, <3>3, <4>1 DEF ResetsLock
    <3> QED
      BY <2>1, <3>1, <3>2, <3>3
  <2> QED
    BY <1>1, <1>2, <2>1 DEF CountersMove
<1>4. PICK p \in Nat :
        /\ Len(tries[u]) = p * LOCKOUT_THRESHOLD + users[u].failed
        /\ users[u].failed \in 0..(LOCKOUT_THRESHOLD - 1)
        /\ p > 0 => users[u].locked = tries[u][p * LOCKOUT_THRESHOLD] + LOCKOUT_TIME
  BY <1>3 DEF LockIInv, LockHold, Rounds
<1>5. LOCKOUT_THRESHOLD \in Nat \ {0} /\ LOCKOUT_TIME \in Nat
  BY AccountsAssumption
<1>6. p = q
  BY <1>1, <1>2, <1>4, <1>5, OneQuotient DEF FullRounds
<1>7. tries[u][q * LOCKOUT_THRESHOLD] \in Nat
  <2>1. PICK n \in Nat : n = q * LOCKOUT_THRESHOLD /\ n > 0
    BY <1>2, <1>5
  <2>2. n <= Len(tries[u])
    BY <1>1, <2>1 DEF FullRounds
  <2>3. n \in 1..Len(tries[u])
    BY <1>2, <2>1, <2>2
  <2>4. tries[u][n] \in Nat
    BY <1>2, <2>3
  <2> QED
    BY <2>1, <2>4
<1>8. PICK t \in Nat : t = tries[u][q * LOCKOUT_THRESHOLD]
  BY <1>7
<1>9. ~(now < t + LOCKOUT_TIME)
  BY <1>2, <1>3, <1>4, <1>6, <1>8 DEF Locked
<1> QED
  BY <1>2, <1>5, <1>8, <1>9

LEMMA LockStart == SystemInit => LockIInv
<1> SUFFICES ASSUME SystemInit PROVE LockIInv
  OBVIOUS
<1>1. IInv /\ FactorsIInv /\ OwnersHold
  BY Initially, FactorsStart DEF SystemInit, SessionsInit, OwnersHold
<1>2. PICK new : new = User(TRUE, TRUE, 0)
  OBVIOUS
<1>3. Rounds(new, <<>>)
  BY <1>2, NoRounds DEF User
<1>4. /\ users = [u \in Emails |-> IF u \in Registered THEN new ELSE NoUser]
      /\ tries = [u \in Emails |-> <<>>]
  BY <1>2 DEF SystemInit, AccountsInit
<1>5. LockHold
  BY <1>3, <1>4 DEF LockHold, Exists
<1> QED
  BY <1>1, <1>5 DEF LockIInv, SystemIInv

\* For any number of accounts, any threshold and any length of the lock: however right and
\* wrong passwords, resets, Google's sign-ins and crashes come together, a password counts
\* only when the last full round of wrong ones lies LOCKOUT_TIME back.
THEOREM LockoutAlwaysHolds == SystemSpec => LockoutHolds
<1>1. SystemInit => LockIInv
  BY LockStart
<1>2. LockIInv /\ [SystemNext]_systemVars => LockIInv' /\ [LockStays]_<<users, tries>>
  BY LockPreserved, LockStaysOn, Constants
<1>3. LockoutHolds <=> [][LockStays]_<<users, tries>>
  BY DEF LockoutHolds, LockStays
<1> QED
  BY <1>1, <1>2, <1>3, PTL DEF SystemSpec

-----------------------------------------------------------------------------
(***************************************************************************)
(* What an account keeps.  A route changes one account, by what it read in *)
(* the same step, and never its Google account; only Google's sign-in      *)
(* writes after a read of an earlier step, and the account it will link    *)
(* has no Google account until then, for no route gives it one.            *)
(***************************************************************************)

RowKeeps(u, new) ==
  /\ Put(u, new)
  /\ Exists(u) => /\ Keeps(users[u], new) /\ new.uid = users[u].uid
                  /\ Factor(new) # Factor(users[u]) => spent' # spent

RouteKeeps ==
  /\ google' = google \/ google' = NoThread
  /\ UNCHANGED users \/ \E u \in Emails : \E new : RowKeeps(u, new)

GoogleFree == google.at = "link" => users[google.email].uid = 0

KeptStays ==
  \A u \in Emails : Exists(u) =>
    /\ Keeps(users[u], users'[u])
    /\ Factor(users'[u]) # Factor(users[u]) => spent' # spent

LEMMA SpentGrows ==
  ASSUME SpentHold, NEW e, spent' = Append(spent, e)
  PROVE  spent' # spent
<1>1. PICK S : spent \in Seq(S)
  BY DEF SpentHold
<1>2. PICK longer : longer = Append(spent, e)
  OBVIOUS
<1>3. Len(longer) = Len(spent) + 1 /\ Len(spent) \in Nat
  BY <1>1, <1>2
<1>4. longer # spent
  BY <1>3
<1> QED
  BY <1>2, <1>4

LEMMA ItselfKept == ASSUME NEW row, row # NoUser PROVE Keeps(row, row)
BY DEF Keeps

LEMMA RegistrationKeptBy ==
  ASSUME FactorsIInv, NEW u \in Emails, Register(u) \/ WrongPassword(u) \/ RightPassword(u)
  PROVE  RouteKeeps
<1>1. google' = google \/ google' = NoThread
  BY DEF Register, sign_up, send_verification, invite, request_password_reset, WrongPassword,
         RightPassword, NoCrash, CrashHere
<1>2. CASE ~Exists(u)
  <2>1. UNCHANGED users \/ \E new : Put(u, new)
    BY <1>2 DEF Register, sign_up, send_verification, invite, request_password_reset, WrongPassword,
                RightPassword
  <2> QED
    BY <1>1, <1>2, <2>1 DEF RouteKeeps, RowKeeps
<1>3. CASE Exists(u)
  <2>1. PICK old : old = users[u] /\ Account(old) /\ old # NoUser
    BY <1>3 DEF FactorsIInv, UsersHold, Exists
  <2>2. ASSUME NEW new, Put(u, new), Keeps(old, new), new.uid = old.uid, Factor(new) = Factor(old)
        PROVE  RouteKeeps
    BY <1>1, <2>1, <2>2 DEF RouteKeeps, RowKeeps
  <2>3. \/ UNCHANGED users \/ Put(u, old) \/ Put(u, _failed(old))
        \/ Put(u, [old EXCEPT !.failed = 0, !.locked = 0])
    BY <1>3, <2>1 DEF Register, sign_up, send_verification, invite, request_password_reset,
                      WrongPassword, RightPassword
  <2>4. CASE UNCHANGED users
    BY <1>1, <2>4 DEF RouteKeeps
  <2>5. CASE Put(u, old)
    BY <2>1, <2>2, <2>5, ItselfKept
  <2>6. CASE Put(u, _failed(old))
    <3>1. PICK new, n, t : new = _failed(old) /\ n = old.failed + 1 /\ t = now + LOCKOUT_TIME
      OBVIOUS
    <3>2. new = [old EXCEPT !.failed = n] \/ new = [old EXCEPT !.failed = 0, !.locked = t]
      BY <3>1 DEF _failed
    <3>3. Keeps(old, new) /\ new.uid = old.uid /\ Factor(new) = Factor(old)
      BY <2>1, <3>2 DEF Account, Keeps, Factor, NoUser
    <3> QED
      BY <2>2, <2>6, <3>1, <3>3
  <2>7. CASE Put(u, [old EXCEPT !.failed = 0, !.locked = 0])
    <3>1. PICK new : new = [old EXCEPT !.failed = 0, !.locked = 0]
      OBVIOUS
    <3>2. Keeps(old, new) /\ new.uid = old.uid /\ Factor(new) = Factor(old)
      BY <2>1, <3>1 DEF Account, Keeps, Factor, NoUser
    <3> QED
      BY <2>2, <2>7, <3>1, <3>2
  <2> QED
    BY <2>3, <2>4, <2>5, <2>6, <2>7
<1> QED
  BY <1>2, <1>3

LEMMA MailKeptBy ==
  ASSUME FactorsIInv, NEW k \in DOMAIN tokens, NEW p, verify_email(k) \/ reset_password(k, p)
  PROVE  RouteKeeps
<1>1. google' = google \/ google' = NoThread
  BY DEF verify_email, reset_password, NoCrash, CrashHere
<1>2. PICK u \in Emails : u = tokens[k].user /\ Exists(u)
  BY DEF FactorsIInv, TokensHold
<1>3. PICK old : old = users[u] /\ Account(old)
  BY <1>2 DEF FactorsIInv, UsersHold
<1>4. PICK proved, chosen :
        /\ proved = [old EXCEPT !.confirmed = TRUE]
        /\ chosen = [old EXCEPT !.password = TRUE, !.failed = 0, !.locked = 0, !.confirmed = TRUE]
  OBVIOUS
<1>5. UNCHANGED users \/ Put(u, proved) \/ Put(u, chosen)
  BY <1>2, <1>3, <1>4 DEF verify_email, reset_password
<1>6. \A new \in {proved, chosen} : Keeps(old, new) /\ new.uid = old.uid /\ Factor(new) = Factor(old)
  <2>1. Keeps(old, proved) /\ proved.uid = old.uid /\ Factor(proved) = Factor(old)
    BY <1>3, <1>4 DEF Account, Keeps, Factor, NoUser
  <2>2. Keeps(old, chosen) /\ chosen.uid = old.uid /\ Factor(chosen) = Factor(old)
    BY <1>3, <1>4 DEF Account, Keeps, Factor, NoUser
  <2> QED
    BY <2>1, <2>2
<1> QED
  BY <1>1, <1>3, <1>5, <1>6 DEF RouteKeeps, RowKeeps

LEMMA SetupKeptBy ==
  ASSUME FactorsIInv, OwnersHold, NEW u \in Emails, mfa_setup(u)
  PROVE  RouteKeeps
<1>1. Exists(u) /\ google' = google
  BY DEF mfa_setup, NoCrash, Authorised, Own, OwnersHold
<1>2. PICK old : old = users[u] /\ Account(old)
  BY <1>1 DEF FactorsIInv, UsersHold
<1>3. PICK new, n : new = [old EXCEPT !.pending = n] /\ n = secrets'
  OBVIOUS
<1>4. Keeps(old, new) /\ new.uid = old.uid /\ Factor(new) = Factor(old)
  BY <1>2, <1>3 DEF Account, Keeps, Factor, NoUser
<1>5. Put(u, new)
  BY <1>2, <1>3 DEF mfa_setup
<1> QED
  BY <1>1, <1>2, <1>4, <1>5 DEF RouteKeeps, RowKeeps

LEMMA CodeKeptBy ==
  ASSUME FactorsIInv, NEW u \in Emails, Exists(u), NEW x \in Codes,
         \/ \E k \in DOMAIN tokens : u = tokens[k].user /\ RightCode(k, x)
         \/ mfa_enable(u, x) \/ mfa_disable(u, x)
  PROVE  RouteKeeps
<1>1. PICK old : old = users[u] /\ Account(old)
  BY DEF FactorsIInv, UsersHold
<1>2. PICK row, r : row = Spend(old, x) /\ r = old.recovery \ {x[3]}
  OBVIOUS
<1>3. row = [old EXCEPT !.last = x[3]] \/ row = [old EXCEPT !.recovery = r]
  BY <1>2 DEF Spend
<1>4. Keeps(old, row) /\ row.uid = old.uid
  BY <1>1, <1>3 DEF Account, Keeps, NoUser
<1>5. ASSUME NEW new, Put(u, new), Keeps(old, new), new.uid = old.uid, CrashHere \/ NoCrash,
             spent' = Append(spent, <<u, x>>)
      PROVE  RouteKeeps
  <2>1. google' = google \/ google' = NoThread
    BY <1>5 DEF CrashHere, NoCrash
  <2>2. spent' # spent
    BY <1>5, SpentGrows DEF FactorsIInv
  <2> QED
    BY <1>1, <1>5, <2>1, <2>2 DEF RouteKeeps, RowKeeps
<1>6. CASE \E k \in DOMAIN tokens : u = tokens[k].user /\ RightCode(k, x)
  <2>1. Put(u, row) /\ spent' = Append(spent, <<u, x>>) /\ (CrashHere \/ NoCrash)
    BY <1>1, <1>2, <1>6 DEF RightCode
  <2> QED
    BY <1>4, <1>5, <2>1
<1>7. CASE mfa_enable(u, x)
  <2>1. PICK new : new = [old EXCEPT !.mfa = TRUE, !.secret = old.pending, !.pending = 0,
                                     !.last = x[3], !.recovery = 1..RECOVERY_CODES]
    OBVIOUS
  <2>2. Keeps(old, new) /\ new.uid = old.uid
    BY <1>1, <2>1 DEF Account, Keeps, NoUser
  <2>3. Put(u, new) /\ spent' = Append(spent, <<u, x>>) /\ NoCrash
    BY <1>1, <1>7, <2>1 DEF mfa_enable
  <2> QED
    BY <1>5, <2>2, <2>3
<1>8. CASE mfa_disable(u, x)
  <2>1. PICK off : off = [row EXCEPT !.mfa = FALSE, !.secret = 0, !.recovery = {}]
    OBVIOUS
  <2>2. Keeps(old, off) /\ off.uid = old.uid
    BY <1>1, <1>3, <2>1 DEF Account, Keeps, NoUser
  <2>3. /\ Put(u, row) \/ Put(u, off)
        /\ spent' = Append(spent, <<u, x>>) /\ (CrashHere \/ NoCrash)
    BY <1>1, <1>2, <1>8, <2>1 DEF mfa_disable
  <2> QED
    BY <1>4, <1>5, <2>2, <2>3
<1> QED
  BY <1>6, <1>7, <1>8

LEMMA RoutesKeep ==
  ASSUME FactorsIInv, OwnersHold, AccountsNext
  PROVE  RouteKeeps \/ GoogleWrites \/ \E c \in Claims : GoogleReads(c)
<1>1. ASSUME \/ \E u \in Emails : logout_everywhere(u)
             \/ \E k \in DOMAIN tokens : WrongCode(k)
             \/ GoogleSignsIn
      PROVE  RouteKeeps
  <2>1. \A u : logout_everywhere(u) => UNCHANGED <<users, google>>
    BY DEF logout_everywhere, accountVars
  <2>2. \A k : WrongCode(k) => UNCHANGED <<users, google>>
    BY DEF WrongCode, NoCrash
  <2>3. GoogleSignsIn => UNCHANGED users /\ google' = NoThread
    BY DEF GoogleSignsIn
  <2> QED
    BY <1>1, <2>1, <2>2, <2>3 DEF RouteKeeps
<1>2. ASSUME NEW u \in Emails, \/ Register(u) \/ WrongPassword(u) \/ RightPassword(u)
                               \/ logout_everywhere(u) \/ mfa_setup(u)
                               \/ \E x \in Codes : mfa_enable(u, x) \/ mfa_disable(u, x)
      PROVE  RouteKeeps
  <2>1. ASSUME NEW x \in Codes, mfa_enable(u, x) \/ mfa_disable(u, x) PROVE RouteKeeps
    <3>1. Authorised(u) => Exists(u)
      BY DEF Authorised, Own, OwnersHold
    <3>2. Exists(u)
      BY <2>1, <3>1 DEF mfa_enable, mfa_disable
    <3> QED
      BY <2>1, <3>2, CodeKeptBy
  <2> QED
    BY <1>1, <1>2, <2>1, RegistrationKeptBy, SetupKeptBy
<1>3. ASSUME NEW k \in DOMAIN tokens, \/ verify_email(k) \/ WrongCode(k) \/ \E x \in Codes : RightCode(k, x)
                                      \/ \E p \in {"reset_password", "invite"} : reset_password(k, p)
      PROVE  RouteKeeps
  <2>1. tokens[k].user \in Emails /\ Exists(tokens[k].user)
    BY DEF FactorsIInv, TokensHold
  <2> QED
    BY <1>1, <1>3, <2>1, MailKeptBy, CodeKeptBy
<1> QED
  BY <1>1, <1>2, <1>3 DEF AccountsNext

\* A route leaves every account what it had, and gives none a Google account.
LEMMA RouteStays ==
  ASSUME UsersHold, RouteKeeps
  PROVE  KeptStays /\ \A u \in Emails : Exists(u) => users'[u].uid = users[u].uid
<1>1. CASE UNCHANGED users
  BY <1>1, ItselfKept DEF KeptStays, Exists
<1>2. ASSUME NEW u \in Emails, NEW new, RowKeeps(u, new)
      PROVE  KeptStays /\ \A v \in Emails : Exists(v) => users'[v].uid = users[v].uid
  <2>1. users'[u] = new /\ \A v \in Emails : v # u => users'[v] = users[v]
    BY <1>2 DEF RowKeeps, Put, UsersHold
  <2>2. \A v \in Emails : v # u /\ Exists(v) => Keeps(users[v], users'[v])
    BY <2>1, ItselfKept DEF Exists
  <2> QED
    BY <1>2, <2>1, <2>2 DEF RowKeeps, KeptStays
<1> QED
  BY <1>1, <1>2 DEF RouteKeeps

\* The insert is of an address that has no account; the link is of an account as it is
\* when it is written.
LEMMA GoogleStays ==
  ASSUME FactorsIInv, GoogleFree, GoogleWrites
  PROVE  KeptStays /\ google'.at # "link"
<1>1. PICK u \in Emails : u = google.email
  BY DEF GoogleWrites, FactorsIInv, GoogleHold
<1>2. PICK row : row = IF google.at = "insert" THEN User(FALSE, TRUE, google.uid)
                       ELSE [users[u] EXCEPT !.uid = google.uid, !.confirmed = TRUE]
  OBVIOUS
<1>3. google.at \in {"insert", "link"}
  BY DEF GoogleWrites
<1>4. CASE UNCHANGED users /\ google' = NoThread
  <2>1. NoThread.at # "link"
    BY DEF NoThread
  <2> QED
    BY <1>4, <2>1, ItselfKept DEF KeptStays, Exists
<1>5. CASE Put(u, row) /\ (google.at = "insert" => ~Exists(u)) /\ google' = Thread("check", <<google.uid, u>>, row)
  <2>1. google'.at # "link"
    BY <1>5 DEF Thread
  <2>2. users'[u] = row /\ \A v \in Emails : v # u => users'[v] = users[v]
    BY <1>5 DEF Put, UsersHold, FactorsIInv
  <2>3. \A v \in Emails : v # u /\ Exists(v) => Keeps(users[v], users'[v])
    BY <2>2, ItselfKept DEF Exists
  <2>4. Exists(u) => Keeps(users[u], row) /\ Factor(row) = Factor(users[u])
    <3>1. SUFFICES ASSUME Exists(u) PROVE Keeps(users[u], row) /\ Factor(row) = Factor(users[u])
      OBVIOUS
    <3>2. google.at = "link"
      BY <1>3, <1>5, <3>1
    <3>3. PICK old : old = users[u] /\ Account(old) /\ old.uid = 0
      BY <1>1, <3>1, <3>2 DEF FactorsIInv, UsersHold, GoogleFree
    <3>4. PICK uid : uid = google.uid
      OBVIOUS
    <3>5. row = [old EXCEPT !.uid = uid, !.confirmed = TRUE]
      BY <1>2, <3>2, <3>3, <3>4
    <3>6. Keeps(old, row) /\ Factor(row) = Factor(old)
      BY <3>3, <3>5 DEF Account, Keeps, Factor, NoUser
    <3> QED
      BY <3>3, <3>6
  <2> QED
    BY <2>1, <2>2, <2>3, <2>4 DEF KeptStays
<1> QED
  BY <1>1, <1>2, <1>4, <1>5 DEF GoogleWrites

KeptIInv == LockIInv /\ GoogleFree

LEMMA KeptPreserved ==
  ASSUME REFRESH_TTL \in Nat, NamedSlots, KeptIInv, [SystemNext]_systemVars
  PROVE  KeptIInv' /\ KeptStays
<1>1. LockIInv' /\ FactorsIInv /\ OwnersHold /\ UsersHold
  BY LockPreserved DEF KeptIInv, LockIInv, SystemIInv, FactorsIInv
<1>2. CASE AccountsNext /\ GoogleWrites
  BY <1>1, <1>2, GoogleStays DEF KeptIInv, GoogleFree
<1>3. ASSUME NEW c \in Claims, GoogleReads(c) PROVE GoogleFree' /\ KeptStays
  <2>1. UNCHANGED users
    BY <1>3 DEF GoogleReads
  <2>2. CASE google'.at = "link"
    <3>1. ByUid(c[1]) = {} /\ Exists(c[2]) /\ users[c[2]].uid = 0
      <4>1. CASE ByUid(c[1]) # {}
        BY <1>3, <2>2, <4>1 DEF GoogleReads, Thread
      <4>2. CASE ByUid(c[1]) = {} /\ ~Exists(c[2])
        BY <1>3, <2>2, <4>2 DEF GoogleReads, Thread
      <4>3. CASE ByUid(c[1]) = {} /\ Exists(c[2]) /\ users[c[2]].uid # 0
        <5>1. google' = NoThread
          BY <1>3, <4>3 DEF GoogleReads
        <5>2. NoThread.at # "link"
          BY DEF NoThread
        <5> QED
          BY <2>2, <5>1, <5>2
      <4> QED
        BY <4>1, <4>2, <4>3
    <3>2. google'.email = c[2]
      BY <1>3, <3>1 DEF GoogleReads, Thread
    <3> QED
      BY <2>1, <3>1, <3>2, ItselfKept DEF GoogleFree, KeptStays, Exists
  <2>3. CASE google'.at # "link"
    BY <2>1, <2>3, ItselfKept DEF GoogleFree, KeptStays, Exists
  <2> QED
    BY <2>2, <2>3
<1>4. CASE RouteKeeps
  <2>1. /\ KeptStays /\ \A u \in Emails : Exists(u) => users'[u].uid = users[u].uid
    BY <1>1, <1>4, RouteStays
  <2>2. google'.at = "link" => google' = google
    <3>1. NoThread.at # "link"
      BY DEF NoThread
    <3> QED
      BY <1>4, <3>1 DEF RouteKeeps
  <2>3. google.at = "link" => google.email \in Emails /\ Exists(google.email)
    BY <1>1 DEF FactorsIInv, GoogleHold
  <2> QED
    BY <1>1, <2>1, <2>2, <2>3 DEF KeptIInv, GoogleFree
<1>5. CASE UNCHANGED accountVars
  BY <1>1, <1>5, ItselfKept DEF accountVars, KeptIInv, GoogleFree, KeptStays, Exists
<1> QED
  BY <1>1, <1>2, <1>3, <1>4, <1>5, RoutesKeep DEF SystemNext, systemVars, KeptIInv

\* For any number of accounts, Google accounts, tokens and crashes: whoever signs up, is
\* invited, resets, turns on a second factor or signs in with Google at the same time, no
\* account is made anew or loses its password, its proof of the address or its Google
\* account, and its second factor changes only with a code spent.
THEOREM AccountsKeptHolds == SystemSpec => AccountsKept
<1>1. SystemInit => KeptIInv
  <2>1. SystemInit => google = NoThread
    BY DEF SystemInit, AccountsInit
  <2>2. NoThread.at # "link"
    BY DEF NoThread
  <2> QED
    BY <2>1, <2>2, LockStart DEF KeptIInv, GoogleFree
<1>2. KeptIInv /\ [SystemNext]_systemVars => KeptIInv' /\ [KeptStays]_users
  BY KeptPreserved, Constants
<1>3. AccountsKept <=> [][KeptStays]_users
  BY DEF AccountsKept, KeptStays
<1> QED
  BY <1>1, <1>2, <1>3, PTL DEF SystemSpec

-----------------------------------------------------------------------------
(***************************************************************************)
(* Types and bounds: the sessions, then the browser, then the accounts.    *)
(***************************************************************************)

SessionsHeld ==
  /\ now \in 0..MaxTime /\ crashes \in 0..MaxCrashes
  /\ Len(sessions) <= MaxSessions /\ reused \subseteq ended
  /\ \A i \in DOMAIN sessions : sessions[i].expires \in 0..(MaxTime + REFRESH_TTL)

LEMMA MarkHeld ==
  ASSUME IInv, SessionsHeld, NEW S, sessions' = Revoked(S), UNCHANGED now,
         crashes' \in 0..MaxCrashes, reused' \subseteq ended'
  PROVE  SessionsHeld'
<1>1. PICK U, W : sessions \in Seq(Rows(U, W))
  BY DEF IInv, Typed
<1>2. /\ DOMAIN sessions = 1..Len(sessions) /\ DOMAIN sessions' = 1..Len(sessions)
      /\ Len(sessions') = Len(sessions)
      /\ \A i \in 1..Len(sessions) : sessions'[i].expires = sessions[i].expires
  BY <1>1, Marked
<1> QED
  BY <1>2 DEF SessionsHeld

LEMMA AppendHeld ==
  ASSUME IInv, SessionsHeld, NEW S, NEW r, sessions' = Append(Revoked(S), r),
         Len(sessions) < MaxSessions, r.expires = now + REFRESH_TTL, UNCHANGED <<now, ended, reused>>,
         crashes' \in 0..MaxCrashes
  PROVE  SessionsHeld'
<1>1. PICK U, W : sessions \in Seq(Rows(U, W))
  BY DEF IInv, Typed
<1>2. PICK rows : rows = Revoked(S)
  OBVIOUS
<1>3. PICK R : R = Rows(U, W) \cup {r}
  OBVIOUS
<1>4. /\ rows \in Seq(R) /\ Len(rows) = Len(sessions) /\ Len(sessions) \in Nat
      /\ \A i \in 1..Len(sessions) : rows[i].expires = sessions[i].expires
  BY <1>1, <1>2, <1>3, Marked
<1>5. /\ DOMAIN sessions = 1..Len(sessions) /\ DOMAIN sessions' = 1..(Len(sessions) + 1)
      /\ Len(sessions') = Len(sessions) + 1 /\ sessions'[Len(sessions) + 1] = r
      /\ \A i \in 1..Len(sessions) : sessions'[i] = rows[i]
  BY <1>1, <1>2, <1>3, <1>4
<1>6. now + REFRESH_TTL \in 0..(MaxTime + REFRESH_TTL)
  BY Constants DEF SessionsHeld
<1>7. ASSUME NEW i \in DOMAIN sessions' PROVE sessions'[i].expires \in 0..(MaxTime + REFRESH_TTL)
  <2>1. CASE i = Len(sessions) + 1
    BY <1>5, <1>6, <2>1
  <2>2. CASE i # Len(sessions) + 1
    <3>1. i \in 1..Len(sessions)
      BY <1>4, <1>5, <2>2
    <3> QED
      BY <1>4, <1>5, <3>1 DEF SessionsHeld
  <2> QED
    BY <2>1, <2>2
<1>8. Len(sessions') <= MaxSessions
  BY <1>4, <1>5, Constants
<1> QED
  BY <1>7, <1>8 DEF SessionsHeld

LEMMA SessionsHeldStep ==
  ASSUME IInv, SessionsHeld, [SessionsNext]_<<now, sessionVars>>
  PROVE  SessionsHeld'
<1>1. \A n : n = crashes \/ (crashes < MaxCrashes /\ n = crashes + 1) => n \in 0..MaxCrashes
  BY Constants DEF SessionsHeld
<1>2. ASSUME NEW u, SignInStep(u) PROVE SessionsHeld'
  <2>1. PICK amr : _start_session(u, amr) /\ UNCHANGED <<now, ended, reused, crashes>>
    BY <1>2 DEF SignInStep
  <2>2. PICK r : r = NewSession(u, NewId, amr)
    OBVIOUS
  <2>3. r.expires = now + REFRESH_TTL
    BY <2>2 DEF NewSession
  <2>4. PICK S : S = {}
    OBVIOUS
  <2>5. sessions' = Append(Revoked(S), r) /\ Len(sessions) < MaxSessions
    BY <2>1, <2>2, <2>4, Unmarked DEF _start_session, IInv
  <2> QED
    BY <1>1, <2>1, <2>3, <2>5, AppendHeld
<1>3. ASSUME NEW raw, Rotate(raw) \/ RotateCut(raw), UNCHANGED now PROVE SessionsHeld'
  <2>1. PICK r : r = Successor(raw)
    OBVIOUS
  <2>2. r.expires = now + REFRESH_TTL
    BY <2>1 DEF Successor, NewSession
  <2>3. PICK S : sessions' = Append(Revoked(S), r)
    BY <1>3, <2>1, Unmarked DEF Rotate, RotateCut, IInv
  <2>4. Len(sessions) < MaxSessions /\ UNCHANGED <<ended, reused>> /\ crashes' \in 0..MaxCrashes
    BY <1>1, <1>3 DEF Rotate, RotateCut, Crash
  <2> QED
    BY <1>3, <2>2, <2>3, <2>4, AppendHeld
<1>4. ASSUME NEW raw, Reuse(raw), UNCHANGED now PROVE SessionsHeld'
  <2>1. PICK S : S = Family(sessions[raw].family)
    OBVIOUS
  <2>2. sessions' = Revoked(S) /\ crashes' \in 0..MaxCrashes
    BY <1>1, <1>4, <2>1 DEF Reuse
  <2>3. reused' \subseteq ended'
    BY <1>4 DEF Reuse, SessionsHeld
  <2> QED
    BY <1>4, <2>2, <2>3, MarkHeld
<1>5. ASSUME NEW i, sign_out(i), UNCHANGED now PROVE SessionsHeld'
  <2>1. PICK S : S = Family(sessions[i].family)
    OBVIOUS
  <2>2. sessions' = Revoked(S) /\ crashes' \in 0..MaxCrashes
    BY <1>1, <1>5, <2>1 DEF sign_out
  <2>3. reused' \subseteq ended'
    BY <1>5 DEF sign_out, SessionsHeld
  <2> QED
    BY <1>5, <2>2, <2>3, MarkHeld
<1>6. ASSUME RevokeStep, UNCHANGED now PROVE SessionsHeld'
  <2>1. PICK u : revoke_all(u) /\ UNCHANGED <<answers, reused, crashes>>
    BY <1>6 DEF RevokeStep
  <2>2. PICK S : S = Own(u)
    OBVIOUS
  <2>3. sessions' = Revoked(S) /\ crashes' \in 0..MaxCrashes
    BY <1>1, <2>1, <2>2 DEF revoke_all
  <2>4. reused' \subseteq ended'
    BY <2>1 DEF revoke_all, SessionsHeld
  <2> QED
    BY <1>6, <2>3, <2>4, MarkHeld
<1>7. CASE OtherStep /\ UNCHANGED now
  BY <1>1, <1>7 DEF OtherStep, Crash, SessionsHeld
<1>8. CASE Tick
  <2>1. now' \in 0..MaxTime
    BY <1>8, Constants DEF Tick, SessionsHeld
  <2> QED
    BY <1>8, <2>1 DEF Tick, sessionVars, SessionsHeld
<1>9. CASE UNCHANGED <<now, sessionVars>>
  BY <1>9 DEF sessionVars, SessionsHeld
<1>10. ASSUME NEW raw, RefreshStep(raw), UNCHANGED now PROVE SessionsHeld'
  BY <1>3, <1>4, <1>9, <1>10 DEF RefreshStep, RefuseRefresh
<1> QED
  BY <1>2, <1>5, <1>6, <1>7, <1>8, <1>9, <1>10 DEF SessionsNext, KnownNext, EndsNext

LEMMA SessionsTyped ==
  ASSUME IInv, SessionsHeld, answers \subseteq DOMAIN sessions
  PROVE  SessionsTypeOK
<1>1. PICK U, W : sessions \in Seq(Rows(U, W))
  BY DEF IInv, Typed
<1>2. \A i \in DOMAIN sessions : sessions[i] \in Rows(U, W)
  BY <1>1
<1>3. \A i \in DOMAIN sessions : sessions[i].revoked \in BOOLEAN
  BY <1>2 DEF Rows
<1> QED
  BY <1>3 DEF SessionsTypeOK, SessionsHeld, IInv, Typed, Named

-----------------------------------------------------------------------------
(* The accounts: a second factor that is on, the Google accounts, the bounds of the tokens. *)

RowsHeld ==
  /\ \A u \in Emails : Exists(u) => RowHeld(users[u])
  /\ \A u, v \in Emails : Exists(u) /\ Exists(v) /\ users[u].uid = users[v].uid =>
       u = v \/ users[u].uid = 0

CountsHeld ==
  /\ Len(tokens) <= MaxTokens /\ secrets <= MaxSecrets
  /\ \A k \in DOMAIN tokens : tokens[k].attempts <= MFA_MAX_ATTEMPTS
  /\ google.at \in {"idle", "insert", "link", "check"}

LEMMA RowMoves ==
  ASSUME RowsHeld, users = [v \in Emails |-> users[v]], NEW u \in Emails, NEW new, Put(u, new),
         KeepsRow(u, new)
  PROVE  RowsHeld'
<1>1. users'[u] = new /\ \A v \in Emails : v # u => users'[v] = users[v]
  BY DEF Put
<1>2. RowHeld(new)
  BY DEF KeepsRow, RowsHeld
<1>3. ASSUME NEW v \in Emails, users'[v] # NoUser PROVE RowHeld(users'[v])
  BY <1>1, <1>2, <1>3 DEF RowsHeld, Exists
<1>4. ASSUME NEW v \in Emails, v # u, users[v] # NoUser, users[v].uid = new.uid PROVE new.uid = 0
  BY <1>4 DEF KeepsRow, ByUid, RowsHeld, Exists
<1>5. ASSUME NEW v \in Emails, NEW w \in Emails, users'[v] # NoUser, users'[w] # NoUser,
             users'[v].uid = users'[w].uid, v # w
      PROVE  users'[v].uid = 0
  <2>1. CASE v = u
    BY <1>1, <1>4, <1>5, <2>1
  <2>2. CASE w = u
    BY <1>1, <1>4, <1>5, <2>2
  <2>3. CASE v # u /\ w # u
    BY <1>1, <1>5, <2>3 DEF RowsHeld, Exists
  <2> QED
    BY <2>1, <2>2, <2>3
<1> QED
  BY <1>3, <1>5 DEF RowsHeld, Exists, RowHeld

LEMMA RowsStep ==
  ASSUME RowsHeld, UsersHold, CountersMove
  PROVE  RowsHeld'
<1>1. users = [v \in Emails |-> users[v]]
  BY DEF UsersHold
<1>2. CASE UNCHANGED users
  BY <1>2 DEF RowsHeld, RowHeld, Exists
<1>3. ASSUME NEW u \in Emails, NEW new, KeepsLock(u, new) \/ ResetsLock(u, new) PROVE RowsHeld'
  BY <1>1, <1>3, RowMoves DEF KeepsLock, ResetsLock
<1>4. ASSUME NEW u \in Emails, WrongPassword(u) PROVE RowsHeld'
  <2>1. PICK old : old = users[u] /\ Exists(u) /\ Account(old)
    BY <1>4 DEF WrongPassword, UsersHold
  <2>2. PICK new : new = _failed(old)
    OBVIOUS
  <2>3. new.uid = old.uid /\ (RowHeld(old) => RowHeld(new))
    <3>1. \/ new = [old EXCEPT !.failed = old.failed + 1]
          \/ new = [old EXCEPT !.failed = 0, !.locked = now + LOCKOUT_TIME]
      BY <2>2 DEF _failed
    <3> QED
      BY <2>1, <3>1 DEF Account, RowHeld
  <2>4. Put(u, new) /\ KeepsRow(u, new)
    BY <1>4, <2>1, <2>2, <2>3 DEF WrongPassword, KeepsRow
  <2> QED
    BY <1>1, <2>4, RowMoves
<1> QED
  BY <1>2, <1>3, <1>4 DEF CountersMove

\* The tokens stay, or one is issued while there is room, or one changes and counts no more
\* wrong codes than it may.
TokensMove ==
  \/ UNCHANGED tokens
  \/ MayIssue /\ \E u, p : tokens' = Issued(u, p)
  \/ \E k \in DOMAIN tokens : \E new : /\ tokens' = [tokens EXCEPT ![k] = new]
                                       /\ new.attempts <= MFA_MAX_ATTEMPTS

LEMMA TokensStep ==
  ASSUME TokensHold, CountsHeld, TokensMove
  PROVE  /\ Len(tokens') <= MaxTokens
         /\ \A k \in DOMAIN tokens' : tokens'[k].attempts <= MFA_MAX_ATTEMPTS
<1>1. PICK S : tokens \in Seq(S)
  BY DEF TokensHold
<1>2. CASE UNCHANGED tokens
  BY <1>2 DEF CountsHeld
<1>3. ASSUME MayIssue, NEW u, NEW p, tokens' = Issued(u, p)
      PROVE  /\ Len(tokens') <= MaxTokens
             /\ \A k \in DOMAIN tokens' : tokens'[k].attempts <= MFA_MAX_ATTEMPTS
  <2>1. PICK new : new = Token(u, p)
    OBVIOUS
  <2>2. new.attempts <= MFA_MAX_ATTEMPTS
    BY <2>1, AccountsAssumption DEF Token
  <2>3. /\ DOMAIN tokens = 1..Len(tokens) /\ DOMAIN tokens' = 1..(Len(tokens) + 1) /\ Len(tokens) \in Nat
        /\ Len(tokens') = Len(tokens) + 1 /\ tokens'[Len(tokens) + 1] = new
        /\ \A k \in DOMAIN tokens : tokens'[k] = tokens[k]
    BY <1>1, <1>3, <2>1 DEF Issued
  <2>4. ASSUME NEW k \in DOMAIN tokens' PROVE tokens'[k].attempts <= MFA_MAX_ATTEMPTS
    <3>1. CASE k \in DOMAIN tokens
      BY <2>3, <3>1 DEF CountsHeld
    <3>2. CASE k \notin DOMAIN tokens
      BY <2>2, <2>3, <3>2
    <3> QED
      BY <3>1, <3>2
  <2>5. Len(tokens') <= MaxTokens
    BY <1>3, <2>3, Constants DEF MayIssue
  <2> QED
    BY <2>4, <2>5
<1>4. ASSUME NEW k \in DOMAIN tokens, NEW new, tokens' = [tokens EXCEPT ![k] = new],
             new.attempts <= MFA_MAX_ATTEMPTS
      PROVE  /\ Len(tokens') <= MaxTokens
             /\ \A j \in DOMAIN tokens' : tokens'[j].attempts <= MFA_MAX_ATTEMPTS
  <2>1. /\ Len(tokens') = Len(tokens) /\ DOMAIN tokens' = DOMAIN tokens /\ tokens'[k] = new
        /\ \A j \in DOMAIN tokens : j # k => tokens'[j] = tokens[j]
    BY <1>1, <1>4
  <2> QED
    BY <1>4, <2>1 DEF CountsHeld
<1> QED
  BY <1>2, <1>3, <1>4 DEF TokensMove

\* A good token has wrong codes left, and a code more or a use leaves it at most all of them.
LEMMA TokenCounts ==
  ASSUME TokensHold, CountsHeld, NEW k \in DOMAIN tokens, NEW p, Good(k, p),
         \/ WrongCode(k) \/ tokens' = Used(k) \/ tokens' = [Used(k) EXCEPT ![k].sessions = @ + 1]
  PROVE  TokensMove
<1>1. PICK old : old = tokens[k] /\ TokenRow(old) /\ old.attempts <= MFA_MAX_ATTEMPTS /\ ~old.used
  BY DEF TokensHold, CountsHeld, Good
<1>2. old.attempts + 1 <= MFA_MAX_ATTEMPTS
  BY <1>1, AccountsAssumption DEF TokenRow
<1>3. PICK n : n = old.attempts + 1
  OBVIOUS
<1>4. CASE WrongCode(k)
  <2>1. PICK new : new = IF n < MFA_MAX_ATTEMPTS THEN [old EXCEPT !.attempts = n]
                         ELSE [old EXCEPT !.attempts = n, !.used = TRUE]
    OBVIOUS
  <2>2. tokens' = [tokens EXCEPT ![k] = new]
    BY <1>1, <1>3, <1>4, <2>1 DEF WrongCode
  <2>3. new.attempts = n
    BY <1>1, <2>1 DEF TokenRow
  <2>4. new.attempts <= MFA_MAX_ATTEMPTS
    BY <1>2, <1>3, <2>3
  <2> QED
    BY <2>2, <2>4 DEF TokensMove
<1>5. PICK used : used = [old EXCEPT !.used = TRUE]
  OBVIOUS
<1>6. PICK again : again = [used EXCEPT !.sessions = used.sessions + 1]
  OBVIOUS
<1>7. used.attempts = old.attempts /\ again.attempts = old.attempts
  BY <1>1, <1>5, <1>6 DEF TokenRow
<1>8. Used(k) = [tokens EXCEPT ![k] = used]
  BY <1>1, <1>5 DEF Used
<1>9. PICK S : tokens \in Seq(S)
  BY DEF TokensHold
<1>10. CASE tokens' = Used(k)
  BY <1>1, <1>7, <1>8, <1>10 DEF TokensMove
<1>11. CASE tokens' = [Used(k) EXCEPT ![k].sessions = @ + 1]
  <2>1. PICK s : s = [tokens EXCEPT ![k] = used]
    OBVIOUS
  <2>2. s[k] = used /\ tokens' = [s EXCEPT ![k] = again]
    BY <1>6, <1>8, <1>9, <1>11, <2>1
  <2>3. tokens' = [tokens EXCEPT ![k] = again]
    BY <1>9, <2>1, <2>2
  <2> QED
    BY <1>1, <1>7, <2>3 DEF TokensMove
<1> QED
  BY <1>4, <1>10, <1>11

\* What the accounts count moves with: the tokens, a secret made, Google's thread.
CountsMove ==
  /\ TokensMove
  /\ UNCHANGED secrets \/ (secrets < MaxSecrets /\ secrets' = secrets + 1)
  /\ google' \in {google, NoThread} \/ google'.at \in {"insert", "link", "check"}

LEMMA GoogleCounts ==
  ASSUME (\E c \in Claims : GoogleReads(c)) \/ GoogleWrites \/ GoogleSignsIn
  PROVE  CountsMove
<1>1. ASSUME NEW c, GoogleReads(c) PROVE CountsMove
  <2>1. UNCHANGED <<tokens, secrets>>
    BY <1>1 DEF GoogleReads
  <2>2. CASE ByUid(c[1]) # {}
    BY <1>1, <2>1, <2>2 DEF GoogleReads, Thread, CountsMove, TokensMove
  <2>3. CASE ByUid(c[1]) = {} /\ ~Exists(c[2])
    BY <1>1, <2>1, <2>3 DEF GoogleReads, Thread, CountsMove, TokensMove
  <2>4. CASE ByUid(c[1]) = {} /\ Exists(c[2])
    <3>1. google' = NoThread \/ google'.at = "link"
      BY <1>1, <2>4 DEF GoogleReads, Thread
    <3> QED
      BY <2>1, <3>1 DEF CountsMove, TokensMove
  <2> QED
    BY <2>2, <2>3, <2>4
<1>2. CASE GoogleWrites
  <2>1. UNCHANGED <<tokens, secrets>>
    BY <1>2 DEF GoogleWrites
  <2>2. google' = NoThread \/ \E c, row : google' = Thread("check", c, row)
    BY <1>2, ZenonT(30) DEF GoogleWrites
  <2>3. \A c, row : Thread("check", c, row).at = "check"
    BY DEF Thread
  <2> QED
    BY <2>1, <2>2, <2>3 DEF CountsMove, TokensMove
<1>3. CASE GoogleSignsIn
  <2>1. UNCHANGED secrets /\ google' = NoThread
    BY <1>3 DEF GoogleSignsIn
  <2>2. UNCHANGED tokens \/ (MayIssue /\ tokens' = Issued(google.email, "mfa_login"))
    <3>1. CASE Locked(google.user)
      BY <1>3, <3>1 DEF GoogleSignsIn
    <3>2. CASE ~Locked(google.user) /\ google.user.mfa
      BY <1>3, <3>2 DEF GoogleSignsIn
    <3>3. CASE ~Locked(google.user) /\ ~google.user.mfa
      BY <1>3, <3>3 DEF GoogleSignsIn
    <3> QED
      BY <3>1, <3>2, <3>3
  <2> QED
    BY <2>1, <2>2 DEF CountsMove, TokensMove
<1> QED
  BY <1>1, <1>2, <1>3

LEMMA AccountsCount ==
  ASSUME TokensHold, CountsHeld, AccountsNext
  PROVE  CountsMove
<1>1. CrashHere \/ NoCrash => google' \in {google, NoThread}
  BY DEF CrashHere, NoCrash
<1>2. ASSUME NEW u, Register(u) PROVE CountsMove
  <2>1. UNCHANGED secrets /\ (CrashHere \/ NoCrash)
    BY <1>2 DEF Register, sign_up, send_verification, invite, request_password_reset
  <2>2. UNCHANGED tokens \/ (MayIssue /\ \E p : tokens' = Issued(u, p))
    BY <1>2 DEF Register, sign_up, send_verification, invite, request_password_reset
  <2> QED
    BY <1>1, <2>1, <2>2 DEF CountsMove, TokensMove
<1>3. ASSUME NEW u, WrongPassword(u) \/ RightPassword(u) PROVE CountsMove
  <2>1. UNCHANGED secrets /\ (CrashHere \/ NoCrash)
    BY <1>3 DEF WrongPassword, RightPassword
  <2>2. UNCHANGED tokens \/ (MayIssue /\ \E p : tokens' = Issued(u, p))
    BY <1>3 DEF WrongPassword, RightPassword
  <2> QED
    BY <1>1, <2>1, <2>2 DEF CountsMove, TokensMove
<1>4. ASSUME NEW u, \/ logout_everywhere(u) \/ mfa_setup(u)
                    \/ \E x \in Codes : mfa_enable(u, x) \/ mfa_disable(u, x)
      PROVE  CountsMove
  <2>1. /\ UNCHANGED tokens
        /\ UNCHANGED secrets \/ (secrets < MaxSecrets /\ secrets' = secrets + 1)
        /\ CrashHere \/ NoCrash \/ UNCHANGED google
    <3>1. CASE logout_everywhere(u)
      BY <3>1 DEF logout_everywhere, accountVars
    <3>2. CASE mfa_setup(u)
      BY <3>2 DEF mfa_setup
    <3>3. ASSUME NEW x, mfa_enable(u, x) \/ mfa_disable(u, x)
          PROVE  UNCHANGED <<tokens, secrets>> /\ (CrashHere \/ NoCrash)
      BY <3>3 DEF mfa_enable, mfa_disable
    <3> QED
      BY <1>4, <3>1, <3>2, <3>3
  <2> QED
    BY <1>1, <2>1 DEF CountsMove, TokensMove
<1>5. ASSUME NEW k \in DOMAIN tokens,
             \/ verify_email(k) \/ WrongCode(k) \/ \E x \in Codes : RightCode(k, x)
             \/ \E p \in {"reset_password", "invite"} : reset_password(k, p)
      PROVE  CountsMove
  <2>1. UNCHANGED tokens \/ \E p : /\ Good(k, p)
                                    /\ \/ WrongCode(k) \/ tokens' = Used(k)
                                       \/ tokens' = [Used(k) EXCEPT ![k].sessions = @ + 1]
    BY <1>5 DEF verify_email, WrongCode, RightCode, reset_password
  <2>2. TokensMove
    BY <2>1, TokenCounts DEF TokensMove
  <2>3. UNCHANGED secrets /\ (CrashHere \/ NoCrash)
    BY <1>5 DEF verify_email, WrongCode, RightCode, reset_password
  <2> QED
    BY <1>1, <2>2, <2>3 DEF CountsMove
<1> QED
  BY <1>2, <1>3, <1>4, <1>5, GoogleCounts DEF AccountsNext

LEMMA CountsStep ==
  ASSUME TokensHold, secrets \in Nat, CountsHeld, CountsMove
  PROVE  CountsHeld'
<1>1. secrets' <= MaxSecrets
  BY Constants DEF CountsHeld, CountsMove
<1>2. google'.at \in {"idle", "insert", "link", "check"}
  <2>1. NoThread.at = "idle"
    BY DEF NoThread
  <2> QED
    BY <2>1 DEF CountsHeld, CountsMove
<1> QED
  BY <1>1, <1>2, TokensStep DEF CountsHeld, CountsMove

-----------------------------------------------------------------------------
(* The browser: what its calls and refreshes are, and that a call waits for a refresh. *)

Stages == {"idle", "sent", "waiting", "again"}
CallRows == [at : Stages, token : Tokens]
Waits(t, x) == \E c \in Slots[t] : x[c].at = "waiting"

TabTyped(t) ==
  /\ calls[t] \in [Slots[t] -> CallRows]
  /\ flight[t].at \in {"none", "sent", "answered", "refused"}
  /\ Waits(t, calls[t]) => flight[t] # NoFlight

CallsHeld == access \in Tokens /\ lost \in 0..MaxLost /\ \A t \in Tabs : TabTyped(t)

LEMMA TokensKnown ==
  ASSUME IInv, SessionsHeld
  PROVE  DOMAIN sessions \cup {0} \subseteq Tokens
<1>1. PICK U, W : sessions \in Seq(Rows(U, W))
  BY DEF IInv, Typed
<1>2. DOMAIN sessions = 1..Len(sessions) /\ Len(sessions) \in Nat /\ Len(sessions) <= MaxSessions
  BY <1>1 DEF SessionsHeld
<1> QED
  BY <1>2, Constants DEF Tokens

LEMMA TabTypedStep ==
  ASSUME BrowserHold, CallsHeld, NEW t \in Tabs, access' \in Tokens, lost' \in 0..MaxLost,
         NEW x \in [Slots[t] -> CallRows], calls' = [calls EXCEPT ![t] = x],
         NEW y, flight' = [flight EXCEPT ![t] = y],
         y.at \in {"none", "sent", "answered", "refused"}, Waits(t, x) => y # NoFlight
  PROVE  CallsHeld'
<1>1. /\ calls'[t] = x /\ flight'[t] = y
      /\ \A v \in Tabs : v # t => calls'[v] = calls[v] /\ flight'[v] = flight[v]
  BY DEF BrowserHold
<1>2. ASSUME NEW v \in Tabs
      PROVE  /\ calls'[v] \in [Slots[v] -> CallRows]
             /\ flight'[v].at \in {"none", "sent", "answered", "refused"}
             /\ Waits(v, calls'[v]) => flight'[v] # NoFlight
  <2>1. CASE v = t
    BY <1>1, <2>1
  <2>2. CASE v # t
    BY <1>1, <2>2 DEF CallsHeld, TabTyped
  <2> QED
    BY <2>1, <2>2
<1> QED
  BY <1>2 DEF CallsHeld, TabTyped, Waits, CallRows, Tokens, NoFlight, At

\* One call changes; it waits only if the tab refreshes.
LEMMA CallChanges ==
  ASSUME BrowserHold, CallsHeld, NEW t \in Tabs, NEW c \in Slots[t], NEW y \in CallRows,
         SetCall(t, c, y), access' \in Tokens, lost' \in 0..MaxLost,
         NEW z, flight' = [flight EXCEPT ![t] = z],
         z.at \in {"none", "sent", "answered", "refused"},
         y.at = "waiting" \/ flight[t] # NoFlight => z # NoFlight
  PROVE  CallsHeld'
<1>1. PICK old : old = calls[t] /\ old \in [Slots[t] -> CallRows]
  BY DEF CallsHeld, TabTyped
<1>2. PICK x : x = [old EXCEPT ![c] = y]
  OBVIOUS
<1>3. x \in [Slots[t] -> CallRows]
  BY <1>1, <1>2
<1>4. calls' = [calls EXCEPT ![t] = x]
  BY <1>1, <1>2 DEF SetCall
<1>5. Waits(t, x) => y.at = "waiting" \/ Waits(t, old)
  BY <1>1, <1>2 DEF Waits
<1>6. Waits(t, old) => flight[t] # NoFlight
  BY <1>1 DEF CallsHeld, TabTyped
<1> QED
  BY <1>3, <1>4, <1>5, <1>6, TabTypedStep

LEMMA AttemptFlies ==
  ASSUME BrowserHold, CallsHeld, NEW t \in Tabs, attemptRefresh(t)
  PROVE  \E z : /\ flight' = [flight EXCEPT ![t] = z] /\ z # NoFlight
                /\ z.at \in {"none", "sent", "answered", "refused"}
<1>1. CASE flight[t] # NoFlight
  <2>1. flight' = [flight EXCEPT ![t] = flight[t]]
    BY <1>1 DEF attemptRefresh, BrowserHold
  <2>2. flight[t].at \in {"none", "sent", "answered", "refused"}
    BY DEF CallsHeld, TabTyped
  <2> QED
    BY <1>1, <2>1, <2>2
<1>2. CASE flight[t] = NoFlight
  <2>1. flight' = [flight EXCEPT ![t] = At("sent", cookie)]
    BY <1>2 DEF attemptRefresh
  <2>2. At("sent", cookie) # NoFlight /\ At("sent", cookie).at = "sent"
    BY DEF At, NoFlight
  <2> QED
    BY <2>1, <2>2
<1> QED
  BY <1>1, <1>2

LEMMA CallTyped ==
  ASSUME IInv, SessionsHeld, BrowserHold, CallsHeld, NEW t \in Tabs, CallStep(t)
  PROVE  CallsHeld'
<1>1. PICK c \in Slots[t] : \/ Send(t, c) \/ Succeeds(t, c) \/ Unauthorised(t, c)
                            \/ StillUnauthorised(t, c) \/ CallLost(t, c)
  BY DEF CallStep
<1>2. 0 \in Tokens /\ access \in Tokens /\ lost \in 0..MaxLost /\ MaxLost \in Nat
  BY TokensKnown, Constants DEF CallsHeld
<1>3. Idle \in CallRows /\ At("sent", access) \in CallRows /\ Idle.at # "waiting"
      /\ At("sent", access).at # "waiting"
  BY <1>2 DEF Idle, At, CallRows, Stages
<1>4. PICK old : old = calls[t][c] /\ old \in CallRows
  BY DEF CallsHeld, TabTyped
<1>5. PICK z : z = flight[t]
  OBVIOUS
<1>6. /\ UNCHANGED flight => flight' = [flight EXCEPT ![t] = z]
      /\ z.at \in {"none", "sent", "answered", "refused"} /\ (flight[t] # NoFlight => z # NoFlight)
  BY <1>5 DEF BrowserHold, CallsHeld, TabTyped
<1>7. CASE Send(t, c)
  <2>1. /\ SetCall(t, c, At("sent", access)) /\ access' \in Tokens /\ lost' \in 0..MaxLost
        /\ UNCHANGED flight
    BY <1>2, <1>7 DEF Send
  <2> QED
    BY <1>3, <1>6, <2>1, CallChanges
<1>8. CASE Succeeds(t, c) \/ StillUnauthorised(t, c) \/ CallLost(t, c)
  <2>1. SetCall(t, c, Idle) /\ UNCHANGED flight
    BY <1>8 DEF Succeeds, StillUnauthorised, CallLost
  <2>2. access' \in Tokens
    <3>1. CASE Succeeds(t, c)
      BY <1>2, <3>1, Constants DEF Succeeds, NamedSlots
    <3>2. CASE StillUnauthorised(t, c) \/ CallLost(t, c)
      BY <1>2, <3>2 DEF StillUnauthorised, CallLost, GivesUp
    <3> QED
      BY <1>8, <3>1, <3>2
  <2>3. lost' \in 0..MaxLost
    <3>1. Loss \/ UNCHANGED lost
      BY <1>8 DEF Succeeds, StillUnauthorised, CallLost
    <3> QED
      BY <1>2, <3>1 DEF Loss
  <2> QED
    BY <1>3, <1>6, <2>1, <2>2, <2>3, CallChanges
<1>9. CASE Unauthorised(t, c)
  <2>1. PICK y : y = [old EXCEPT !.at = "waiting"]
    OBVIOUS
  <2>2. y \in CallRows
    BY <1>4, <2>1 DEF CallRows, Stages
  <2>3. SetCall(t, c, y) /\ attemptRefresh(t) /\ UNCHANGED <<access, lost>>
    BY <1>4, <1>9, <2>1 DEF Unauthorised
  <2> QED
    BY <1>2, <2>2, <2>3, AttemptFlies, CallChanges
<1> QED
  BY <1>1, <1>7, <1>8, <1>9

LEMMA PageTyped ==
  ASSUME IInv, SessionsHeld, BrowserHold, CallsHeld, NEW t \in Tabs, PageStep(t) \/ ServerStep(t)
  PROVE  CallsHeld'
<1>1. /\ 0 \in Tokens /\ access \in Tokens /\ lost \in 0..MaxLost /\ flight[t].token \in Tokens
      /\ answers \subseteq Tokens /\ (Loss => lost' \in 0..MaxLost)
  BY TokensKnown, Constants DEF CallsHeld, BrowserHold, Loss
<1>2. PICK old : old = calls[t] /\ old \in [Slots[t] -> CallRows]
  BY DEF CallsHeld, TabTyped
<1>3. PICK z : /\ z = flight[t] /\ z.at \in {"none", "sent", "answered", "refused"}
               /\ (Waits(t, old) => z # NoFlight)
  BY <1>2 DEF CallsHeld, TabTyped
<1>4. calls = [calls EXCEPT ![t] = old] /\ flight = [flight EXCEPT ![t] = z]
  BY <1>2, <1>3 DEF BrowserHold
<1>5. NoFlight.at = "none"
  BY DEF NoFlight, At
<1>6. ASSUME NEW i \in answers, SignedIn(t, i) PROVE CallsHeld'
  <2>1. UNCHANGED <<calls, flight, lost>> /\ access' \in Tokens
    BY <1>1, <1>6 DEF SignedIn
  <2> QED
    BY <1>1, <1>2, <1>3, <1>4, <2>1, TabTypedStep
<1>7. CASE Timer(t)
  <2>1. UNCHANGED <<calls, access, lost>> /\ attemptRefresh(t)
    BY <1>7 DEF Timer
  <2> QED
    BY <1>1, <1>2, <1>4, <2>1, AttemptFlies, TabTypedStep
<1>8. CASE ServeRefresh(t)
  <2>1. UNCHANGED <<calls, access, lost>> /\ z.at = "sent"
    BY <1>3, <1>8 DEF ServeRefresh
  <2>2. PICK refused : refused = [z EXCEPT !.at = "refused"]
    OBVIOUS
  <2>3. refused.at = "refused"
    <3>1. z = At(z.at, z.token)
      BY <1>3 DEF BrowserHold
    <3> QED
      BY <2>2, <3>1 DEF At
  <2>4. At("answered", NewId).at = "answered"
    BY DEF At
  <2>5. \/ flight' = [flight EXCEPT ![t] = At("answered", NewId)]
        \/ flight' = [flight EXCEPT ![t] = refused]
    BY <1>3, <1>8, <2>2 DEF ServeRefresh
  <2> QED
    BY <1>1, <1>2, <1>4, <1>5, <2>1, <2>3, <2>4, <2>5, TabTypedStep
<1>9. CASE Refreshed(t)
  <2>1. PICK i : i = flight[t].token /\ i \in Tokens
    BY <1>1
  <2>2. PICK again : again = At("again", i)
    OBVIOUS
  <2>3. PICK x : x = [c \in Slots[t] |-> IF old[c].at = "waiting" THEN again ELSE old[c]]
    OBVIOUS
  <2>4. again \in CallRows /\ again.at = "again"
    BY <2>1, <2>2 DEF At, CallRows, Stages
  <2>5. x \in [Slots[t] -> CallRows] /\ ~Waits(t, x)
    BY <1>2, <2>3, <2>4 DEF Waits
  <2>6. calls' = [calls EXCEPT ![t] = x] /\ flight' = [flight EXCEPT ![t] = NoFlight]
    BY <1>2, <1>9, <2>1, <2>2, <2>3 DEF Refreshed
  <2>7. access' \in Tokens /\ lost' \in 0..MaxLost
    BY <1>1, <1>9 DEF Refreshed
  <2> QED
    BY <1>5, <2>5, <2>6, <2>7, TabTypedStep
<1>10. CASE NotRefreshed(t) \/ RefreshLost(t) \/ Reload(t)
  <2>1. Leave(t) /\ access' \in Tokens /\ lost' \in 0..MaxLost
    BY <1>1, <1>10 DEF NotRefreshed, RefreshLost, Reload
  <2>2. PICK x : x = [c \in Slots[t] |-> Idle]
    OBVIOUS
  <2>3. Idle \in CallRows /\ Idle.at # "waiting"
    BY <1>1 DEF Idle, At, CallRows, Stages
  <2>4. x \in [Slots[t] -> CallRows] /\ ~Waits(t, x)
    BY <2>2, <2>3 DEF Waits
  <2>5. calls' = [calls EXCEPT ![t] = x] /\ flight' = [flight EXCEPT ![t] = NoFlight]
    BY <2>1, <2>2 DEF Leave
  <2> QED
    BY <1>5, <2>1, <2>4, <2>5, TabTypedStep
<1> QED
  BY <1>6, <1>7, <1>8, <1>9, <1>10 DEF PageStep, ServerStep

LEMMA BrowserTyped ==
  ASSUME IInv, SessionsHeld, BrowserHold, CallsHeld
  PROVE  BrowserTypeOK
<1>1. DOMAIN sessions \cup {0} \subseteq Tokens
  BY TokensKnown
<1>2. flight \in [Tabs -> [at : {"none", "sent", "answered", "refused"}, token : Tokens]]
  <2>1. ASSUME NEW t \in Tabs
        PROVE  flight[t] \in [at : {"none", "sent", "answered", "refused"}, token : Tokens]
    BY <1>1 DEF BrowserHold, CallsHeld, TabTyped, At
  <2> QED
    BY <2>1 DEF BrowserHold
<1>3. \A t \in Tabs : /\ calls[t] \in [Slots[t] -> [at : {"idle", "sent", "waiting", "again"}, token : Tokens]]
                      /\ (\E c \in Slots[t] : calls[t][c].at = "waiting") => flight[t] # NoFlight
  BY DEF CallsHeld, TabTyped, Waits, CallRows, Stages
<1> QED
  BY <1>1, <1>2, <1>3 DEF BrowserTypeOK, BrowserHold, CallsHeld

LEMMA AccountsTyped ==
  ASSUME FactorsIInv, LockHold, RowsHeld, CountsHeld
  PROVE  AccountsTypeOK
<1>1. ASSUME NEW u \in Emails, Exists(u)
      PROVE  /\ users[u].failed \in 0..(LOCKOUT_THRESHOLD - 1)
             /\ users[u].mfa => users[u].secret # 0 /\ users[u].last # 0
             /\ users[u].secret <= secrets /\ users[u].pending <= secrets
             /\ users[u].recovery \subseteq 1..RECOVERY_CODES
  BY <1>1 DEF FactorsIInv, UsersHold, LockHold, Rounds, RowsHeld, RowHeld
<1>2. secrets \in 0..MaxSecrets
  BY Constants DEF FactorsIInv, UsersHold, CountsHeld
<1>3. \A k \in DOMAIN tokens : tokens[k].attempts \in 0..MFA_MAX_ATTEMPTS
  <2> TAKE k \in DOMAIN tokens
  <2>1. tokens[k].attempts \in Nat
    BY DEF FactorsIInv, TokensHold, TokenRow
  <2> QED
    BY <2>1, AccountsAssumption DEF CountsHeld
<1> QED
  BY <1>1, <1>2, <1>3 DEF AccountsTypeOK, RowsHeld, CountsHeld

-----------------------------------------------------------------------------
\* What every behaviour keeps beside the lock and the tabs.
TypesIInv == SessionsHeld /\ RowsHeld /\ CountsHeld /\ CallsHeld

LEMMA TypesStart == SystemInit => TypesIInv
<1> SUFFICES ASSUME SystemInit PROVE TypesIInv
  BY DEF TypesIInv
<1>1. SessionsHeld
  BY Constants DEF SystemInit, SessionsInit, SessionsHeld
<1>2. RowsHeld
  <2>1. PICK new : new = User(TRUE, TRUE, 0)
    OBVIOUS
  <2>2. RowHeld(new) /\ new.uid = 0
    BY <2>1 DEF User, RowHeld
  <2>3. users = [u \in Emails |-> IF u \in Registered THEN new ELSE NoUser]
    BY <2>1 DEF SystemInit, AccountsInit
  <2> QED
    BY <2>2, <2>3 DEF RowsHeld, Exists
<1>3. CountsHeld
  <2>1. tokens = <<>> /\ secrets = 0 /\ google = NoThread
    BY DEF SystemInit, AccountsInit
  <2>2. NoThread.at = "idle"
    BY DEF NoThread
  <2> QED
    BY <2>1, <2>2, Constants DEF CountsHeld
<1>4. CallsHeld
  <2>1. Idle \in CallRows /\ Idle.at = "idle" /\ NoFlight.at = "none" /\ 0 \in Tokens
    BY Constants DEF Idle, NoFlight, At, CallRows, Stages, Tokens
  <2>2. /\ access = 0 /\ lost = 0 /\ calls = [t \in Tabs |-> [c \in Slots[t] |-> Idle]]
        /\ flight = [t \in Tabs |-> NoFlight]
    BY DEF SystemInit, BrowserInit
  <2> QED
    BY <2>1, <2>2, Constants DEF CallsHeld, TabTyped, Waits
<1> QED
  BY <1>1, <1>2, <1>3, <1>4 DEF TypesIInv

LEMMA TypesPreserved ==
  ASSUME LockIInv, CountersMove, TabsIInv, TypesIInv, [SystemNext]_systemVars
  PROVE  TypesIInv'
<1>1. IInv /\ FactorsIInv /\ BrowserHold
  BY DEF LockIInv, SystemIInv, TabsIInv
<1>2. SessionsHeld'
  <2>1. AccountsNext \/ BrowserNext => [SessionsNext]_<<now, sessionVars>>
    BY AccountsObey, BrowserObeys, Constants DEF SessionsNext
  <2>2. Tick \/ UNCHANGED <<now, sessionVars>> => [SessionsNext]_<<now, sessionVars>>
    BY DEF SessionsNext, KnownNext, EndsNext
  <2>3. [SessionsNext]_<<now, sessionVars>>
    BY <2>1, <2>2 DEF SystemNext, systemVars
  <2> QED
    BY <1>1, <2>3, SessionsHeldStep DEF TypesIInv
<1>3. RowsHeld'
  BY <1>1, RowsStep DEF TypesIInv, FactorsIInv
<1>4. CountsHeld'
  <2>1. CASE AccountsNext
    BY <1>1, <2>1, AccountsCount, CountsStep DEF TypesIInv, FactorsIInv, UsersHold
  <2>2. CASE UNCHANGED accountVars
    BY <2>2 DEF TypesIInv, CountsHeld, accountVars
  <2> QED
    BY <2>1, <2>2 DEF SystemNext, systemVars
<1>5. CallsHeld'
  <2>1. CASE BrowserNext
    BY <1>1, <2>1, BrowserSplits, CallTyped, PageTyped DEF TypesIInv
  <2>2. CASE UNCHANGED browserVars
    BY <2>2 DEF TypesIInv, CallsHeld, TabTyped, Waits, CallRows, Tokens, NoFlight, At, browserVars
  <2> QED
    BY <2>1, <2>2 DEF SystemNext, systemVars
<1> QED
  BY <1>2, <1>3, <1>4, <1>5 DEF TypesIInv

\* For any users, tokens, codes, tabs and calls: every state is one the code's types and
\* bounds allow; a second factor that is on has a secret, no Google account has two
\* accounts, and a call that waits for a refresh waits for one that is under way.
THEOREM AccountsTypeCorrect == SystemSpec /\ OrgSpec => []MCTypeOK
<1>1. SystemInit => LockIInv /\ TabsIInv /\ TypesIInv
  BY LockStart, TabsStart, TypesStart
<1>2. LockIInv /\ TabsIInv /\ TypesIInv /\ [SystemNext]_systemVars
        => LockIInv' /\ TabsIInv' /\ TypesIInv'
  BY LockPreserved, TabsPreserved, TypesPreserved, Constants DEF LockIInv
<1>3. LockIInv /\ TabsIInv /\ TypesIInv /\ OrgIInv => MCTypeOK
  BY SessionsTyped, AccountsTyped, BrowserTyped
     DEF LockIInv, SystemIInv, TabsIInv, TypesIInv, OrgIInv, BrowserHold, MCTypeOK
<1>4. OrgInit => OrgIInv
  BY OrgInitially
<1>5. OrgIInv /\ [OrgNext]_orgVars => OrgIInv'
  BY OrgPreserved
<1> QED
  BY <1>1, <1>2, <1>3, <1>4, <1>5, PTL DEF SystemSpec, OrgSpec

\* The scenes that are model-checked are behaviours of the whole: what the theorems say of
\* the system, and of the organisation, holds of each of them.
THEOREM ScenesAreTheSystem == MCSpec => SystemSpec /\ OrgSpec
<1>1. MCInit => SystemInit /\ OrgInit
  BY MCAccountsAssumption DEF MCInit, SystemInit
<1>2. [MCNext]_vars => [SystemNext]_systemVars
  <2> SUFFICES ASSUME [MCNext]_vars PROVE [SystemNext]_systemVars
    OBVIOUS
  <2>1. Registers \/ Mails => AccountsNext
    BY DEF Registers, Mails, AccountsNext, Register
  <2>2. Passwords \/ Elsewhere => AccountsNext
    BY AccountsAssumption DEF Passwords, Elsewhere, AccountsNext, Register
  <2>3. Factors => AccountsNext
    BY AccountsAssumption DEF Factors, AccountsNext
  <2>4. Googles => AccountsNext
    BY AccountsAssumption DEF Googles, AccountsNext, Register
  <2>5. \/ (Registers \/ Mails \/ Passwords \/ Factors \/ Googles \/ Elsewhere) /\ Still
        \/ Ticks /\ Still
        \/ BrowserNext /\ UNCHANGED accountVars
        \/ UNCHANGED <<accounts, browserVars>>
    BY DEF MCNext, vars
  <2>6. CASE Ticks /\ Still
    BY <2>6 DEF Ticks, Still, SystemNext
  <2>7. CASE UNCHANGED <<accounts, browserVars>>
    BY <2>7 DEF accounts, systemVars
  <2>8. CASE (Registers \/ Mails \/ Passwords \/ Factors \/ Googles \/ Elsewhere) /\ Still
    BY <2>1, <2>2, <2>3, <2>4, <2>8 DEF Still, SystemNext
  <2> QED
    BY <2>5, <2>6, <2>7, <2>8 DEF SystemNext
<1>3. [MCNext]_vars => [OrgNext]_orgVars
  BY DEF MCNext, Still, vars
<1> QED
  BY <1>1, <1>2, <1>3, PTL DEF MCSpec, SystemSpec, OrgSpec
=============================================================================
