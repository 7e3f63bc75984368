------------------------------ MODULE MCAccounts ------------------------------
(***************************************************************************)
(* Model-checking instance: accounts and their sessions, a browser that    *)
(* holds them, and an organisation.  A scene takes the operations that     *)
(* bear on each other: new accounts, passwords, second factors, Google's   *)
(* sign-in, a browser, its tabs at one time, the organisation.             *)
(***************************************************************************)
EXTENDS Browser, Accounts, Organisation

\* The tab of the scene with one tab.
ASSUME MCAccountsAssumption == "t1" \in Tabs

VARIABLE scene   \* the operations of this behaviour

accounts == <<now, sessionVars, accountVars>>
vars == <<accounts, browserVars, orgVars, scene>>

MCClaims == {<<7, "ann">>, <<7, "bob">>, <<8, "bob">>}
MCSlots == [t1 |-> {"data", "logout", "init"}, t2 |-> {}]
MCTTL == [verify_email |-> 2, reset_password |-> 2, invite |-> 2, mfa_login |-> 1]

Scenes == {"register", "password", "factor", "google", "browser", "tabs", "organisation"}

MCInit ==
  /\ SessionsInit /\ AccountsInit /\ BrowserInit /\ OrgInit
  /\ scene \in Scenes
  /\ open = CASE scene = "browser" -> {"t1"} [] scene = "tabs" -> Tabs [] OTHER -> {}
  /\ settings = CHOOSE s \in Settings : TRUE

In(s) == scene = s /\ UNCHANGED scene
Ticks == Tick /\ UNCHANGED accountVars

\* What each scene does with the accounts: new ones, passwords, second factors, Google's
\* sign-ins, and the sign-ins and sign-outs elsewhere of the account of the browser.
Registers == \E u \in Emails \ Registered : Register(u) \/ RightPassword(u)
Mails     == \E k \in DOMAIN tokens :
               verify_email(k) \/ \E p \in {"reset_password", "invite"} : reset_password(k, p)
Passwords == \E u \in Registered :
               \/ WrongPassword(u) \/ RightPassword(u) \/ logout_everywhere(u)
               \/ request_password_reset(u)
Factors   == \/ \E u \in Registered : \/ RightPassword(u) \/ mfa_setup(u)
                                      \/ \E x \in Codes : mfa_enable(u, x) \/ mfa_disable(u, x)
             \/ \E k \in DOMAIN tokens : WrongCode(k) \/ \E x \in Codes : RightCode(k, x)
Googles   == \/ \E c \in Claims : GoogleReads(c)
             \/ GoogleWrites \/ GoogleSignsIn
             \/ \E u \in Emails \ Registered : sign_up(u)
             \/ \E u \in Registered : \/ WrongPassword(u) \/ RightPassword(u) \/ mfa_setup(u)
                                      \/ \E x \in Codes : mfa_enable(u, x)
Elsewhere == \E u \in Registered :
               \/ RightPassword(u) /\ answers = {} /\ UNCHANGED crashes
               \/ logout_everywhere(u)

Still == UNCHANGED <<browserVars, orgVars>>

MCNext ==
  \/ In("register") /\ (Registers \/ Mails \/ Ticks) /\ Still
  \/ In("password") /\ (Passwords \/ Mails \/ Ticks) /\ Still
  \/ In("factor")   /\ (Factors \/ Ticks) /\ Still
  \/ In("google")   /\ Googles /\ Still
  \/ In("browser")  /\ (Elsewhere \/ Ticks) /\ Still
  \/ In("browser")  /\ BrowserNext  /\ UNCHANGED <<accountVars, orgVars>>
  \/ In("tabs") /\ Elsewhere /\ Still
  \/ In("tabs") /\ BrowserNext /\ UNCHANGED <<accountVars, orgVars>>
  \/ In("organisation") /\ OrgNext /\ UNCHANGED <<accounts, browserVars>>

MCSpec == MCInit /\ [][MCNext]_vars

MCTypeOK == SessionsTypeOK /\ AccountsTypeOK /\ BrowserTypeOK /\ OrgTypeOK
=============================================================================
