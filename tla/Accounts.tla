------------------------------- MODULE Accounts -------------------------------
(***************************************************************************)
(* Accounts: backend/accounts/service.py and the /api/auth routes of       *)
(* backend/server.py.  A person signs up, proves an address, signs in with *)
(* a password, a second factor or Google, and resets the password.         *)
(*                                                                         *)
(* A route is one step of the event loop, or a step cut short by a crash   *)
(* after some of its writes.  Google's sign-in runs in a thread of its     *)
(* own, so the routes come between its calls to the database.              *)
(***************************************************************************)
EXTENDS Sessions

CONSTANTS
  Emails,              \* the addresses
  Registered,          \* addresses with a confirmed account and a password at the start
  Claims,              \* pairs of a Google account and the address it carries
  VerifyEmails,        \* REQUIRE_EMAIL_VERIFICATION
  LOCKOUT_THRESHOLD, LOCKOUT_TIME, MFA_MAX_ATTEMPTS, RECOVERY_CODES,
  TOKEN_TTL,           \* of each purpose
  MaxTokens,           \* bound: one-time tokens issued
  MaxSecrets,          \* bound: TOTP secrets made
  MaxWrong             \* bound: wrong passwords between two right ones

ASSUME AccountsAssumption ==
  /\ {MFA_MAX_ATTEMPTS, LOCKOUT_THRESHOLD} \subseteq Nat \ {0} /\ LOCKOUT_TIME \in Nat
  /\ {MaxTokens, MaxSecrets} \subseteq Nat /\ Registered \subseteq Emails
  /\ \A c \in Claims : c[2] \in Emails

VARIABLES
  users,    \* of each address, its account or NoUser
  tokens,   \* auth_tokens: user, purpose, expires_at, used_at, attempts
  secrets,  \* TOTP secrets made so far
  google,   \* the thread of a Google sign-in: [at, uid, email, user]
  spent,    \* history: second factors accepted, in order
  tries     \* history: when each address had a wrong password since its last right one

accountVars == <<users, tokens, secrets, google, spent, tries>>

NoUser == [state |-> "none"]
User(pwd, confirmed, uid) ==
  [state |-> "user", password |-> pwd, confirmed |-> confirmed, uid |-> uid,
   failed |-> 0, locked |-> 0, mfa |-> FALSE, secret |-> 0, pending |-> 0, last |-> 0,
   recovery |-> {}]
Exists(u) == users[u] # NoUser

Token(u, purpose) ==
  [user |-> u, purpose |-> purpose, expires |-> now + TOKEN_TTL[purpose], used |-> FALSE,
   attempts |-> 0, sessions |-> 0]
NoThread == [at |-> "idle", uid |-> 0, email |-> "", user |-> NoUser]

AccountsTypeOK ==
  /\ \A u \in Emails : Exists(u) =>
       /\ users[u].failed \in 0..(LOCKOUT_THRESHOLD - 1)
       /\ users[u].mfa => users[u].secret # 0 /\ users[u].last # 0
       /\ users[u].secret <= secrets /\ users[u].pending <= secrets
       /\ users[u].recovery \subseteq 1..RECOVERY_CODES
  /\ Len(tokens) <= MaxTokens /\ secrets \in 0..MaxSecrets
  /\ \A k \in DOMAIN tokens : tokens[k].attempts \in 0..MFA_MAX_ATTEMPTS
  /\ \A u, v \in Emails : Exists(u) /\ Exists(v) /\ users[u].uid = users[v].uid =>
       u = v \/ users[u].uid = 0
  /\ google.at \in {"idle", "insert", "link", "check"}

AccountsInit ==
  /\ users = [u \in Emails |-> IF u \in Registered THEN User(TRUE, TRUE, 0) ELSE NoUser]
  /\ tokens = <<>> /\ secrets = 0 /\ google = NoThread
  /\ spent = <<>> /\ tries = [u \in Emails |-> <<>>]

-----------------------------------------------------------------------------
Issued(u, purpose) == Append(tokens, Token(u, purpose))
MayIssue == Len(tokens) < MaxTokens

Good(k, purpose) ==
  tokens[k].purpose = purpose /\ ~tokens[k].used /\ now < tokens[k].expires
Used(k) == [tokens EXCEPT ![k].used = TRUE]

Put(u, row) == users' = [users EXCEPT ![u] = row]

CrashHere == Crash /\ google' = NoThread
NoCrash   == UNCHANGED <<crashes, google>>
NoSession == UNCHANGED <<sessions, answers, ended, reused>>

\* current_user: a call with an access token of the user.
Authorised(u) == \E i \in Own(u) : validate_token(i)

-----------------------------------------------------------------------------
(* Registration. *)

\* sign_up of a new address, with the mail that verifies it; the token may be lost to a
\* crash.
sign_up(u) ==
  /\ ~Exists(u) /\ Put(u, User(TRUE, ~VerifyEmails, 0))
  /\ IF ~VerifyEmails THEN NoCrash /\ UNCHANGED tokens
     ELSE \/ MayIssue /\ tokens' = Issued(u, "verify_email") /\ NoCrash
          \/ CrashHere /\ UNCHANGED tokens
  /\ NoSession /\ UNCHANGED <<now, secrets, spent, tries>>

\* sign_up of a known one, resend and send_verification: a mail if it is unconfirmed.
send_verification(u) ==
  /\ Exists(u) /\ ~users[u].confirmed /\ MayIssue
  /\ tokens' = Issued(u, "verify_email")
  /\ NoCrash /\ NoSession /\ UNCHANGED <<now, users, secrets, spent, tries>>

verify_email(k) ==
  /\ Good(k, "verify_email") /\ tokens' = Used(k)
  /\ \/ Put(tokens[k].user, [users[tokens[k].user] EXCEPT !.confirmed = TRUE]) /\ NoCrash
     \/ CrashHere /\ UNCHANGED users
  /\ NoSession /\ UNCHANGED <<now, secrets, spent, tries>>

\* invite: an account without a password, and a token to choose one.
invite(u) ==
  /\ Exists(u) => ~users[u].confirmed
  /\ Put(u, IF Exists(u) THEN users[u] ELSE User(FALSE, FALSE, 0))
  /\ \/ MayIssue /\ tokens' = Issued(u, "invite") /\ NoCrash
     \/ CrashHere /\ UNCHANGED tokens
  /\ NoSession /\ UNCHANGED <<now, secrets, spent, tries>>

-----------------------------------------------------------------------------
(* Passwords. *)

Locked(row) == now < row.locked

\* Mutant: the lock comes one wrong password late.
_failedLate(row) ==
  IF row.failed < LOCKOUT_THRESHOLD THEN [row EXCEPT !.failed = @ + 1]
  ELSE [row EXCEPT !.failed = 0, !.locked = now + LOCKOUT_TIME]

\* _failed: the threshold locks the account and starts the count over.
_failed(row) ==
  IF row.failed + 1 < LOCKOUT_THRESHOLD THEN [row EXCEPT !.failed = @ + 1]
  ELSE [row EXCEPT !.failed = 0, !.locked = now + LOCKOUT_TIME]

WrongPassword(u) ==
  /\ Exists(u) /\ Len(tries[u]) < MaxWrong
  /\ Put(u, _failed(users[u]))
  /\ tries' = [tries EXCEPT ![u] = Append(@, now)]
  /\ NoCrash /\ NoSession /\ UNCHANGED <<now, tokens, secrets, spent>>

\* Mutant: the counters are reset before the lock is looked at.
RightPasswordUnlocks(u) ==
  /\ Exists(u) /\ users[u].password /\ users[u].confirmed
  /\ Put(u, [users[u] EXCEPT !.failed = 0, !.locked = 0])
  /\ IF Locked(users[u]) THEN UNCHANGED <<tries, tokens>> /\ NoSession
     ELSE /\ tries' = [tries EXCEPT ![u] = <<>>]
          /\ _start_session(u, {"pwd"}) /\ UNCHANGED <<ended, reused, tokens>>
  /\ NoCrash /\ UNCHANGED <<now, secrets, spent>>

\* The right password of an account that is neither locked nor unconfirmed: a session,
\* or a token for the second factor.
RightPassword(u) ==
  /\ Exists(u) /\ users[u].password /\ users[u].confirmed /\ ~Locked(users[u])
  /\ Put(u, [users[u] EXCEPT !.failed = 0, !.locked = 0])
  /\ tries' = [tries EXCEPT ![u] = <<>>]
  /\ \/ CrashHere /\ NoSession /\ UNCHANGED tokens
     \/ /\ NoCrash
        /\ IF users[u].mfa
           THEN MayIssue /\ tokens' = Issued(u, "mfa_login") /\ NoSession
           ELSE _start_session(u, {"pwd"}) /\ UNCHANGED <<ended, reused, tokens>>
  /\ UNCHANGED <<now, secrets, spent>>

request_password_reset(u) ==
  /\ Exists(u) /\ MayIssue /\ tokens' = Issued(u, "reset_password")
  /\ NoCrash /\ NoSession /\ UNCHANGED <<now, users, secrets, spent, tries>>

\* reset_password: the token, the password, then every session; a crash may come after
\* the first write or after the second.
reset_password(k, purpose) ==
  LET u   == tokens[k].user
      row == [users[u] EXCEPT !.password = TRUE, !.failed = 0, !.locked = 0, !.confirmed = TRUE]
  IN /\ Good(k, purpose) /\ tokens' = Used(k)
     /\ \/ CrashHere /\ NoSession /\ UNCHANGED <<users, tries>>
        \/ /\ Put(u, row) /\ tries' = [tries EXCEPT ![u] = <<>>]
           /\ \/ CrashHere /\ NoSession
              \/ NoCrash /\ revoke_all(u) /\ UNCHANGED <<answers, reused>>
     /\ UNCHANGED <<now, secrets, spent>>

logout_everywhere(u) ==
  /\ Authorised(u) /\ revoke_all(u)
  /\ UNCHANGED <<now, answers, reused, crashes, accountVars>>

-----------------------------------------------------------------------------
(* The second factor: codes are <<"totp", secret, step>> or <<"recovery", secret, n>>. *)

Step == now + 1
Codes == {"totp"} \X (1..MaxSecrets) \X (1..(MaxTime + 2))
         \cup {"recovery"} \X (1..MaxSecrets) \X (1..RECOVERY_CODES)

\* verify_code: the step before, this one or the next, after the last one accepted.
verify_code(secret, x, last) ==
  /\ x[1] = "totp" /\ secret # 0 /\ x[2] = secret
  /\ x[3] \in (Step - 1)..(Step + 1) /\ last < x[3]

IsRecovery(row, x) == x[1] = "recovery" /\ x[2] = row.secret /\ x[3] \in row.recovery

\* _check_second_factor, and what it leaves of the account.
_check_second_factor(row, x) == verify_code(row.secret, x, row.last) \/ IsRecovery(row, x)
Spend(row, x) ==
  IF x[1] = "totp" THEN [row EXCEPT !.last = x[3]] ELSE [row EXCEPT !.recovery = @ \ {x[3]}]

\* sign_in_mfa: the code is spent, then the token, then the session begins.
RightCode(k, x) ==
  LET u == tokens[k].user IN
  /\ Good(k, "mfa_login") /\ _check_second_factor(users[u], x)
  /\ Put(u, Spend(users[u], x)) /\ spent' = Append(spent, <<u, x>>)
  /\ \/ CrashHere /\ NoSession /\ tokens' \in {tokens, Used(k)}
     \/ /\ NoCrash /\ tokens' = [Used(k) EXCEPT ![k].sessions = @ + 1]
        /\ _start_session(u, {"mfa"}) /\ UNCHANGED <<ended, reused>>
  /\ UNCHANGED <<now, secrets, tries>>

\* A wrong one counts; the last of them ends the token.
WrongCode(k) ==
  LET n == tokens[k].attempts + 1 IN
  /\ Good(k, "mfa_login")
  /\ tokens' = [tokens EXCEPT ![k] = IF n < MFA_MAX_ATTEMPTS THEN [@ EXCEPT !.attempts = n]
                                     ELSE [@ EXCEPT !.attempts = n, !.used = TRUE]]
  /\ NoCrash /\ NoSession /\ UNCHANGED <<now, users, secrets, spent, tries>>

mfa_setup(u) ==
  /\ Authorised(u) /\ secrets < MaxSecrets
  /\ secrets' = secrets + 1 /\ Put(u, [users[u] EXCEPT !.pending = secrets'])
  /\ NoCrash /\ NoSession /\ UNCHANGED <<now, tokens, spent, tries>>

\* Mutant: the code that enables the second factor can be used again.
mfa_enableForgets(u, x) ==
  LET row == users[u] IN
  /\ Authorised(u) /\ row.pending # 0 /\ verify_code(row.pending, x, 0)
  /\ Put(u, [row EXCEPT !.mfa = TRUE, !.secret = row.pending, !.pending = 0, !.last = 1,
                        !.recovery = 1..RECOVERY_CODES])
  /\ spent' = Append(spent, <<u, x>>)
  /\ NoCrash /\ NoSession /\ UNCHANGED <<now, tokens, secrets, tries>>

mfa_enable(u, x) ==
  LET row == users[u] IN
  /\ Authorised(u) /\ row.pending # 0 /\ verify_code(row.pending, x, 0)
  /\ Put(u, [row EXCEPT !.mfa = TRUE, !.secret = row.pending, !.pending = 0, !.last = x[3],
                        !.recovery = 1..RECOVERY_CODES])
  /\ spent' = Append(spent, <<u, x>>)
  /\ NoCrash /\ NoSession /\ UNCHANGED <<now, tokens, secrets, tries>>

\* mfa_disable: the code is spent before the account is changed.
mfa_disable(u, x) ==
  LET row == Spend(users[u], x) IN
  /\ Authorised(u) /\ users[u].mfa /\ _check_second_factor(users[u], x)
  /\ spent' = Append(spent, <<u, x>>)
  /\ \/ NoCrash /\ Put(u, [row EXCEPT !.mfa = FALSE, !.secret = 0, !.recovery = {}])
     \/ CrashHere /\ Put(u, row)
  /\ NoSession /\ UNCHANGED <<now, tokens, secrets, tries>>

-----------------------------------------------------------------------------
(* sign_in_firebase, call by call. *)

ByUid(uid) == {u \in Emails : Exists(u) /\ users[u].uid = uid}
Thread(stage, c, row) == [at |-> stage, uid |-> c[1], email |-> c[2], user |-> row]

\* The account of the Google account, or else of the address; a link to another Google
\* account is refused.
GoogleReads(c) ==
  /\ google = NoThread
  /\ LET mine == ByUid(c[1]) IN
     google' = CASE mine # {} -> LET u == CHOOSE u \in mine : TRUE
                                 IN Thread("check", <<c[1], u>>, users[u])
                 [] mine = {} /\ ~Exists(c[2]) -> Thread("insert", c, NoUser)
                 [] mine = {} /\ Exists(c[2]) ->
                      IF users[c[2]].uid = 0 THEN Thread("link", c, users[c[2]]) ELSE NoThread
  /\ UNCHANGED <<now, sessionVars, users, tokens, secrets, spent, tries>>

\* Mutant: the account that is linked is written back as it was read.
GoogleWritesBack ==
  LET u    == google.email
      free == ByUid(google.uid) \subseteq {u}
      row  == IF google.at = "insert" THEN User(FALSE, TRUE, google.uid)
              ELSE [google.user EXCEPT !.uid = google.uid, !.confirmed = TRUE]
  IN /\ google.at \in {"insert", "link"}
     /\ IF free /\ (google.at = "insert" => ~Exists(u))
        THEN Put(u, row) /\ google' = Thread("check", <<google.uid, u>>, row)
        ELSE UNCHANGED users /\ google' = NoThread
     /\ UNCHANGED <<now, sessionVars, tokens, secrets, spent, tries>>

\* The insert of a new account, or the update that links one; an address or a Google
\* account that somebody took in between is refused by its index.
GoogleWrites ==
  LET u    == google.email
      free == ByUid(google.uid) \subseteq {u}
      row  == IF google.at = "insert" THEN User(FALSE, TRUE, google.uid)
              ELSE [users[u] EXCEPT !.uid = google.uid, !.confirmed = TRUE]
  IN /\ google.at \in {"insert", "link"}
     /\ IF free /\ (google.at = "insert" => ~Exists(u))
        THEN Put(u, row) /\ google' = Thread("check", <<google.uid, u>>, row)
        ELSE UNCHANGED users /\ google' = NoThread
     /\ UNCHANGED <<now, sessionVars, tokens, secrets, spent, tries>>

\* The lock and the second factor as they were read, then the session or the token.
GoogleSignsIn ==
  LET row == google.user IN
  /\ google.at = "check" /\ google' = NoThread
  /\ CASE Locked(row) -> NoSession /\ UNCHANGED tokens
       [] ~Locked(row) /\ row.mfa ->
            MayIssue /\ tokens' = Issued(google.email, "mfa_login") /\ NoSession
       [] ~Locked(row) /\ ~row.mfa ->
            _start_session(google.email, {"google"}) /\ UNCHANGED <<ended, reused, tokens>>
  /\ UNCHANGED <<now, crashes, users, secrets, spent, tries>>

Register(u) == sign_up(u) \/ send_verification(u) \/ invite(u) \/ request_password_reset(u)
AccountsNext ==
  \/ \E u \in Emails : \/ Register(u) \/ WrongPassword(u) \/ RightPassword(u)
                       \/ logout_everywhere(u) \/ mfa_setup(u)
                       \/ \E x \in Codes : mfa_enable(u, x) \/ mfa_disable(u, x)
  \/ \E k \in DOMAIN tokens :
       \/ verify_email(k) \/ WrongCode(k) \/ \E x \in Codes : RightCode(k, x)
       \/ \E p \in {"reset_password", "invite"} : reset_password(k, p)
  \/ \E c \in Claims : GoogleReads(c)
  \/ GoogleWrites \/ GoogleSignsIn

-----------------------------------------------------------------------------
\* No second factor counts twice: not the code that turned it on, not in two sign-ins,
\* not to sign in and to turn it off; and what a sign-in token stands for ends with one
\* session or MFA_MAX_ATTEMPTS wrong codes, with a crash at any of its writes.
SecondFactorSpentOnce ==
  /\ \A i, j \in DOMAIN spent : spent[i] = spent[j] => i = j
  /\ \A k \in DOMAIN tokens :
       /\ tokens[k].sessions <= 1
       /\ tokens[k].attempts = MFA_MAX_ATTEMPTS => tokens[k].used

\* A password is accepted only if the last full round of LOCKOUT_THRESHOLD wrong ones
\* since it was last accepted or reset lies LOCKOUT_TIME back, however often right and
\* wrong ones were tried while the account was locked.
FullRounds(u, q) ==
  q * LOCKOUT_THRESHOLD <= Len(tries[u]) /\ Len(tries[u]) < (q + 1) * LOCKOUT_THRESHOLD

LockoutHolds ==
  [][\A u \in Emails : \A q \in 1..Len(tries[u]) :
       FullRounds(u, q) /\ tries'[u] = <<>> =>
         \/ tries[u][q * LOCKOUT_THRESHOLD] + LOCKOUT_TIME <= now
         \/ \E k \in DOMAIN tokens : ~tokens[k].used /\ tokens'[k].used
    ]_<<users, tries>>

\* Whoever signs up, is invited, resets, turns on a second factor or signs in with Google
\* at the same time: no account is made anew or loses its password, its proof of the
\* address or its Google account, and its second factor changes only with a code spent.
Factor(row) == <<row.mfa, row.secret, row.last, row.recovery>>
Keeps(old, new) ==
  /\ new # NoUser
  /\ (old.password => new.password) /\ (old.confirmed => new.confirmed)
  /\ old.uid # 0 => new.uid = old.uid

AccountsKept ==
  [][\A u \in Emails : Exists(u) =>
       /\ Keeps(users[u], users'[u])
       /\ Factor(users'[u]) # Factor(users[u]) => spent' # spent
    ]_users
=============================================================================
