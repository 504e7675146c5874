------------------------------ MODULE Accounts ------------------------------
(***************************************************************************)
(* Owners, administrators and staff of the clubs (modules/auth/signup.py,  *)
(* modules/staff/router.py, the login and change of password of            *)
(* modules/auth/staff.py, update_organization and create_manual_org of     *)
(* modules/platform/service.py, and the SQL functions and policies of      *)
(* migrations 0005, 0006, 0007, 0008, 0019 and 0026 that decide).          *)
(*                                                                         *)
(* A role is looked at in two places: the access token, which says what it *)
(* was when the token was issued and fills the policies of row-level       *)
(* security, and the table, which the SQL functions ask.  Both are older   *)
(* than the UPDATE that follows.  The database is one whose owner is       *)
(* subject to FORCE ROW LEVEL SECURITY, as the hosting of the project is.  *)
(*                                                                         *)
(* Signing up makes one organization with one club and one owner; both are *)
(* named after the owner here.  Logins are different and well formed: a    *)
(* request with another one is refused and changes nothing.                *)
(***************************************************************************)
EXTENDS Integers

CONSTANTS
    Users,     \* primary keys of users of kind staff
    Founders,  \* those of them that a sign-up may get; a bound
    Requests   \* transactions that may be open at the same time

VARIABLES
    user,      \* user[u]: the rows of u in users, memberships and staff_credentials
    org,       \* org[c]: the organization that owner c signed up with: "open" is pending
               \* or active, which no login tells apart
    token,     \* token[u]: the role in the access token u holds
    req        \* req[r]: what the open transaction r holds in memory

vars == <<user, org, token, req>>

NoUser == [role |-> "none"]

Ranks == {"OWNER", "ADMIN", "STAFF"}

\* memberships.role and .status, and whose word the password is: must_change is TRUE
\* for an assigned one
User == [role : Ranks, club : Users, member : {"active", "removed"},
         password : {"own", "assigned", "none"}]

Idle == [op |-> "idle"]

Free(r) == req[r] = Idle

Become(r, q) == req' = [req EXCEPT ![r] = q]

Exists(u) == user[u] # NoUser

\* The row of memberships that the SQL functions select
Member(u, c) == Exists(u) /\ user[u].club = c /\ user[u].member = "active"

\* actor_role, target_role
RoleIn(u, c) == IF Member(u, c) THEN user[u].role ELSE "none"

\* currval of the sequence: no other transaction has the key.
Fresh(u) == ~Exists(u) /\ \A r \in Requests : ~Free(r) => req[r].user # u

\* require_admin and _assert_path_matches_header: the club is the one of the token.
Admits(role) == role \in {"OWNER", "ADMIN"}

-----------------------------------------------------------------------------
\* A new organization

\* owner_signup, also of create_manual_org, up to the end of auth_owner_signup
OwnerSignup(r, u) ==
    /\ Free(r) /\ Fresh(u) /\ u \in Founders
    /\ Become(r, [op |-> "signup", user |-> u])
    /\ UNCHANGED <<user, org, token>>

\* users, organizations, clubs, memberships and staff_credentials, in one COMMIT
SignupCommit(r) ==
    /\ req[r].op = "signup"
    /\ user' = [user EXCEPT ![req[r].user] =
                   [role |-> "OWNER", club |-> req[r].user, member |-> "active", password |-> "own"]]
    /\ org' = [org EXCEPT ![req[r].user] = "open"]
    /\ Become(r, Idle)
    /\ UNCHANGED token

-----------------------------------------------------------------------------
\* A new member of the staff

\* auth_create_staff: OWNER may create both, ADMIN only STAFF, nobody an OWNER.
MayCreate(actor, role) ==
    \/ actor = "OWNER" /\ role \in {"ADMIN", "STAFF"}
    \/ actor = "ADMIN" /\ role = "STAFF"

CreateStaff(r, a, u, role) ==
    LET c == user[a].club
    IN  /\ Free(r) /\ Fresh(u)
        /\ Admits(token[a])
        /\ MayCreate(RoleIn(a, c), role)
        /\ Become(r, [op |-> "create", actor |-> a, user |-> u, role |-> role])
        /\ UNCHANGED <<user, org, token>>

\* auth_assign_password: an administrator only for staff
MayAssign(actor, target) ==
    \/ actor = "OWNER" /\ target # "none"
    \/ actor = "ADMIN" /\ target = "STAFF"

Created(r, password) ==
    [user EXCEPT ![req[r].user] =
        [role |-> req[r].role, club |-> user[req[r].actor].club, member |-> "active",
         password |-> password]]

\* Mutant: create_staff does not look at what auth_assign_password returns.
Unassigned_Kept(r) == Created(r, "none")

\* PASSWORD_NOT_ASSIGNED: the account goes too.
Unassigned(r) == user

\* The second half of create_staff: the password was hashed meanwhile, and the role of
\* the actor is looked up again.  The upsert and the COMMIT follow at once: the row is the
\* transaction's own and what it may become is decided.
AssignPassword(r) ==
    LET a == req[r].actor
    IN  /\ req[r].op = "create"
        /\ user' = IF MayAssign(RoleIn(a, user[a].club), req[r].role)
                   THEN Created(r, "assigned") ELSE Unassigned(r)
        /\ Become(r, Idle)
        /\ UNCHANGED <<org, token>>

-----------------------------------------------------------------------------
\* Changes to a member of the staff: the transaction opens with the claim of the token,
\* the functions read the table, the UPDATE finds the row as it is then.

Open(r, op, a, v, role) ==
    Become(r, [op |-> op, actor |-> a, claim |-> token[a], user |-> v, role |-> role])

\* Mutant: OWNER is not protected.
MayEdit_Owner(actor, target, role) ==
    /\ role \in {"ADMIN", "STAFF"}
    /\ actor = "OWNER" \/ (actor = "ADMIN" /\ target = "STAFF" /\ role = "STAFF")

\* auth_update_staff up to its UPDATEs
MayEdit(actor, target, role) ==
    /\ role \in {"ADMIN", "STAFF"} /\ target \in {"ADMIN", "STAFF"}
    /\ actor = "OWNER" \/ (actor = "ADMIN" /\ target = "STAFF" /\ role = "STAFF")

UpdateStaff(r, a, v, role) ==
    LET c == user[a].club
    IN  /\ Free(r)
        /\ Admits(token[a])
        /\ MayEdit(RoleIn(a, c), RoleIn(v, c), role)
        /\ Open(r, "update", a, v, role)
        /\ UNCHANGED <<user, org, token>>

\* Mutant: memberships_write_admin does not look at the role of the row.
Writable_AnyRole(claim, v) == claim \in {"OWNER", "ADMIN"}

\* memberships_write_owner and memberships_write_admin; an UPDATE that has waited for
\* the row looks at them again.
Writable(claim, v) == claim = "OWNER" \/ (claim = "ADMIN" /\ user[v].role = "STAFF")

\* UPDATE memberships ... WHERE status = 'active', and COMMIT; no row is no error.
UpdateCommit(r) ==
    LET v == req[r].user
    IN  /\ req[r].op = "update"
        /\ user' = IF user[v].member = "active" /\ Writable(req[r].claim, v)
                   THEN [user EXCEPT ![v].role = req[r].role] ELSE user
        /\ Become(r, Idle)
        /\ UNCHANGED <<org, token>>

\* deactivate_staff up to its UPDATE: not oneself
DeactivateStaff(r, a, v) ==
    /\ Free(r)
    /\ Admits(token[a])
    /\ a # v /\ Member(v, user[a].club)
    /\ Open(r, "deactivate", a, v, "none")
    /\ UNCHANGED <<user, org, token>>

\* UPDATE memberships ... AND role <> 'OWNER'; NotFound when no row is left.
DeactivateCommit(r) ==
    LET v == req[r].user
    IN  /\ req[r].op = "deactivate"
        /\ user[v].member = "active" /\ user[v].role # "OWNER" /\ Writable(req[r].claim, v)
        /\ user' = [user EXCEPT ![v].member = "removed"]
        /\ Become(r, Idle)
        /\ UNCHANGED <<org, token>>

\* reset_staff_password up to auth_assign_password
ResetPassword(r, a, v) ==
    /\ Free(r)
    /\ Admits(token[a])
    /\ Member(v, user[a].club)
    /\ Open(r, "password", a, v, "none")
    /\ UNCHANGED <<user, org, token>>

\* auth_assign_password up to its upsert, the password hashed meanwhile
MayReset(r) ==
    LET q == req[r]
        c == user[q.actor].club
    IN  /\ q.op = "password"
        /\ MayAssign(RoleIn(q.actor, c), RoleIn(q.user, c))
        /\ Become(r, [q EXCEPT !.op = "reset"])
        /\ UNCHANGED <<user, org, token>>

\* INSERT ... ON CONFLICT DO UPDATE, and COMMIT; no policy on staff_credentials asks for ranks.
ResetCommit(r) ==
    /\ req[r].op = "reset"
    /\ user' = [user EXCEPT ![req[r].user].password = "assigned"]
    /\ Become(r, Idle)
    /\ UNCHANGED <<org, token>>

\* A refusal, an error, a dropped connection or a crash
Abort(r) ==
    /\ ~Free(r)
    /\ Become(r, Idle)
    /\ UNCHANGED <<user, org, token>>

-----------------------------------------------------------------------------
\* What the people themselves do, and the platform

\* load_memberships: the claim of a new token
Claim(u) == IF user[u].member = "active" THEN user[u].role ELSE "none"

\* staff_login, and a refresh, which reads the memberships again; org_active_for_user
\* refuses only a suspended organization, and only to a member.
StaffLogin(u) ==
    /\ Exists(u) /\ user[u].password # "none"
    /\ org[user[u].club] = "suspended" => user[u].member = "removed"
    /\ token' = [token EXCEPT ![u] = Claim(u)]
    /\ UNCHANGED <<user, org, req>>

\* The access token expires.
Expire(u) ==
    /\ token[u] # "none"
    /\ token' = [token EXCEPT ![u] = "none"]
    /\ UNCHANGED <<user, org, req>>

\* change_password and auth_change_password, behind the password itself
ChangePassword(u) ==
    /\ Exists(u) /\ user[u].password = "assigned"
    /\ user' = [user EXCEPT ![u].password = "own"]
    /\ UNCHANGED <<org, token, req>>

\* update_organization
UpdateOrganization(c, status) ==
    /\ org[c] \notin {"none", status}
    /\ org' = [org EXCEPT ![c] = status]
    /\ UNCHANGED <<user, token, req>>

-----------------------------------------------------------------------------
Init ==
    /\ user = [u \in Users |-> NoUser]
    /\ org = [c \in Users |-> "none"]
    /\ token = [u \in Users |-> "none"]
    /\ req = [r \in Requests |-> Idle]

Next ==
    \/ \E r \in Requests, u \in Users : OwnerSignup(r, u)
    \/ \E r \in Requests :
          \/ SignupCommit(r) \/ AssignPassword(r) \/ UpdateCommit(r)
          \/ DeactivateCommit(r) \/ MayReset(r) \/ ResetCommit(r) \/ Abort(r)
    \/ \E r \in Requests, a \in Users :
          /\ Exists(a)
          /\ \/ \E u \in Users, role \in Ranks : CreateStaff(r, a, u, role)
             \/ \E v \in Users, role \in Ranks : UpdateStaff(r, a, v, role)
             \/ \E v \in Users : DeactivateStaff(r, a, v) \/ ResetPassword(r, a, v)
    \/ \E u \in Users : StaffLogin(u) \/ Expire(u) \/ ChangePassword(u)
    \/ \E c \in Users, status \in {"open", "suspended"} : UpdateOrganization(c, status)

Spec == Init /\ [][Next]_vars

-----------------------------------------------------------------------------
\* Properties

TypeOK ==
    /\ user \in [Users -> User \union {NoUser}]
    /\ org \in [Users -> {"none", "open", "suspended"}]
    /\ token \in [Users -> Ranks \union {"none"}]
    /\ \A r \in Requests :
          ~Free(r) => /\ req[r].op \in {"signup", "create", "update", "deactivate",
                                      "password", "reset"}
                      /\ req[r].user \in Users

\* Whatever is edited, removed and created at the same time, a club has one owner, the
\* one who signed it up (auth_update_staff, auth_create_staff, deactivate_staff).
OneOwner ==
    \A c \in Users :
        {u \in Users : RoleIn(u, c) = "OWNER"} = IF org[c] = "none" THEN {} ELSE {c}

\* The ceiling of the roles: only an owner demotes or removes an administrator, even when
\* the administrator was still STAFF as the other one's request began
\* (auth_update_staff reads before it writes; memberships_write_admin of 0007).  It does not
\* hold of passwords, which are left out: auth_assign_password reads the ranks in one
\* statement and writes staff_credentials in another, where no policy looks at them again,
\* so an administrator may reset the password of one who was STAFF a statement ago.
CeilingHolds ==
    [][\A r \in Requests :
          LET v == req[r].user
          IN  ~Free(r) /\ req'[r] = Idle /\ Exists(v) /\ user[v].role = "ADMIN"
              /\ user'[v] # user[v] /\ req[r].op # "reset"
                  => req[r].claim = "OWNER"]_vars

\* create_staff: nobody is left with an account that has no password, although the
\* creator may lose the role between the two functions.
NobodyWithoutPassword == \A u \in Users : Exists(u) => user[u].password # "none"

\* A club has one owner and nobody an account without a password, whatever is created,
\* edited, reset and removed at the same time (auth_update_staff, create_staff).
RosterSound == TypeOK /\ OneOwner /\ NobodyWithoutPassword

=============================================================================
