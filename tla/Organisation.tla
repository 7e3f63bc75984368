----------------------------- MODULE Organisation -----------------------------
(***************************************************************************)
(* An organisation and its members: the /api/orgs routes of                *)
(* backend/server.py, with the role checks of backend/auth.py and          *)
(* backend/security.py.  A route is one step, but update_org reads the     *)
(* body of its request after it has checked the role.                      *)
(***************************************************************************)
EXTENDS Naturals, FiniteSets

CONSTANTS
  People,      \* accounts
  Strangers,   \* addresses that have no confirmed account yet
  Settings,    \* values of the settings of an organisation
  MaxUpdates   \* bound: update_org calls at a time

VARIABLES
  members,   \* of each person: the role and whether they joined, or NotMember
  org,       \* none, created (without its first member) or answered
  settings,  \* the settings
  updates,   \* what update_org calls that are past their role check will write
  escalated  \* history: the highest rank that check_role_escalation was told of

orgVars == <<members, org, settings, updates, escalated>>

ALLOWED_ROLES == {"org_admin", "team_lead", "operator"}
ROLES == [org_admin |-> 3, team_lead |-> 2, operator |-> 1, individual |-> 0]

\* A row, with the role it was inserted with for the record.
Member(role, joined) == [role |-> role, joined |-> joined, first |-> role]
NotMember == Member("individual", FALSE)
IsMember(p) == members[p] # NotMember

\* get_user_role: whoever has no row is an individual; joined_at does not count.
get_user_role(p) == members[p].role
Admins == {p \in People : get_user_role(p) = "org_admin"}

OrgTypeOK ==
  /\ members \in [People -> [role : DOMAIN ROLES, joined : BOOLEAN, first : DOMAIN ROLES]]
  /\ org \in {"none", "created", "answered"} /\ settings \in Settings
  /\ updates \subseteq Settings /\ escalated \in [People -> 0..3]
  /\ org # "answered" => \A p \in People : ~IsMember(p)

OrgInit ==
  /\ members = [p \in People |-> NotMember] /\ org = "none"
  /\ settings \in Settings /\ updates = {} /\ escalated = [p \in People |-> 0]

-----------------------------------------------------------------------------
\* The row of the organisation, then the one of its first member; a crash in between
\* leaves an organisation that nobody belongs to.
create_org(p) ==
  /\ org = "none"
  /\ \/ org' = "answered" /\ members' = [members EXCEPT ![p] = Member("org_admin", TRUE)]
     \/ org' = "created" /\ UNCHANGED members
  /\ UNCHANGED <<settings, updates, escalated>>

\* invite_member: who has a row already is refused by the index; who has no confirmed
\* account joins with the password.
invite_member(by, p, role) ==
  /\ get_user_role(by) = "org_admin" /\ ~IsMember(p)
  /\ members' = [members EXCEPT ![p] = Member(role, p \notin Strangers)]
  /\ UNCHANGED <<org, settings, updates, escalated>>

\* password_update with an invitation: joined_at of every membership without one.
password_update(p) ==
  /\ IsMember(p) /\ ~members[p].joined
  /\ members' = [members EXCEPT ![p].joined = TRUE]
  /\ UNCHANGED <<org, settings, updates, escalated>>

revoke_member(by, p) ==
  /\ get_user_role(by) = "org_admin"
  /\ p \in Admins => Cardinality(Admins) > 1
  /\ members' = [members EXCEPT ![p] = NotMember]
  /\ UNCHANGED <<org, settings, updates, escalated>>

\* check_role_escalation: an anomaly for every rise.
Reported(p, old, new) ==
  IF ROLES[new] > ROLES[old] THEN [escalated EXCEPT ![p] = IF @ < ROLES[new] THEN ROLES[new] ELSE @]
  ELSE escalated

\* Mutant: the last admin counts as enough.
change_roleAny(by, p, role) ==
  LET old == IF IsMember(p) THEN get_user_role(p) ELSE "operator" IN
  /\ get_user_role(by) = "org_admin"
  /\ old = "org_admin" /\ role # "org_admin" => Cardinality(Admins) >= 1
  /\ members' = [members EXCEPT ![p] = IF IsMember(p) THEN [@ EXCEPT !.role = role] ELSE @]
  /\ escalated' = Reported(p, old, role)
  /\ UNCHANGED <<org, settings, updates>>

\* Whoever has no row counts as an operator: the update matches nothing, the rise is
\* reported all the same.
change_role(by, p, role) ==
  LET old == IF IsMember(p) THEN get_user_role(p) ELSE "operator" IN
  /\ get_user_role(by) = "org_admin"
  /\ old = "org_admin" /\ role # "org_admin" => Cardinality(Admins) > 1
  /\ members' = [members EXCEPT ![p] = IF IsMember(p) THEN [@ EXCEPT !.role = role] ELSE @]
  /\ escalated' = Reported(p, old, role)
  /\ UNCHANGED <<org, settings, updates>>

\* update_org: the role is checked, the body awaited, and what it holds is written.
UpdateChecked(by, s) ==
  /\ get_user_role(by) = "org_admin" /\ Cardinality(updates) < MaxUpdates
  /\ updates' = updates \cup {s}
  /\ UNCHANGED <<members, org, settings, escalated>>

UpdateApplied(s) ==
  /\ updates' = updates \ {s} /\ settings' = s
  /\ UNCHANGED <<members, org, escalated>>

OrgNext ==
  \/ \E p \in People : create_org(p) \/ password_update(p)
  \/ \E by, p \in People :
       \/ revoke_member(by, p)
       \/ \E role \in ALLOWED_ROLES : invite_member(by, p, role) \/ change_role(by, p, role)
  \/ \E by \in People, s \in Settings : UpdateChecked(by, s)
  \/ \E s \in updates : UpdateApplied(s)

OrgSpec == OrgInit /\ [][OrgNext]_orgVars

-----------------------------------------------------------------------------
\* An organisation whose creation was answered keeps an org_admin, whoever of them
\* revokes or demotes whom, themselves included; and nobody holds a role above the one
\* they were invited with without a rise that was reported.
OrgKeepsAdmin ==
  /\ org = "answered" => Admins # {}
  /\ \A p \in People :
       ROLES[members[p].role] > ROLES[members[p].first] => escalated[p] >= ROLES[members[p].role]
=============================================================================
