------------------------------ MODULE Sessions ------------------------------
(***************************************************************************)
(* Refresh tokens (modules/auth/service.py, auth/staff.py, auth/router.py) *)
(* and what ends them: rotation, reuse, logout, a change of password and   *)
(* the suspension of the organization (modules/platform/service.py,        *)
(* migrations 0026 and 0030).                                              *)
(*                                                                         *)
(* rotate_refresh locks the presented row (FOR UPDATE) until it commits.   *)
(* A revocation of many rows is one UPDATE at READ COMMITTED: its snapshot *)
(* fixes the rows, it waits for those that are locked, and it does not see *)
(* a row that commits meanwhile.  So each revocation is a ...Read and a    *)
(* ...Write.                                                               *)
(*                                                                         *)
(* A chain is named by its first token, what chain_started_at stands for.  *)
(* An expired token is refused like one that does not exist, and passwords *)
(* are right: a refused request changes nothing here.                      *)
(***************************************************************************)
EXTENDS Naturals

CONSTANTS
    Users,     \* people who sign in, members of one organization or of none
    Tokens,    \* rows of refresh_tokens
    Requests   \* transactions that may be open at the same time

VARIABLES
    token,    \* token[t]: the committed row of refresh_tokens
    org,      \* organizations.status
    members,  \* users with an active membership in a club of the organization
    access,   \* users who hold an access token that has not expired
    req       \* req[r]: what the open transaction r holds in memory

vars == <<token, org, members, access, req>>

Row == [status : {"NONE", "LIVE", "REVOKED"}, user : Users, chain : Tokens]

Idle == [op |-> "idle"]

Request ==
    [op : {"issue", "change"}, user : Users]
      \union [op : {"rotate", "reuse"}, old : Tokens]
      \union [op : {"reuse sweep"}, old : Tokens, batch : SUBSET Tokens]
      \union [op : {"change sweep"}, user : Users, batch : SUBSET Tokens]
      \union [op : {"suspend"}, batch : SUBSET Tokens]

Free(r) == req[r] = Idle

Become(r, q) == req' = [req EXCEPT ![r] = q]

-----------------------------------------------------------------------------
\* The table

Exists(t) == token[t].status # "NONE"

Live(t) == token[t].status = "LIVE"

LiveOf(U) == {t \in Tokens : Live(t) /\ token[t].user \in U}

\* Mutant: the SELECT of rotate_refresh has no FOR UPDATE.
Locked_Never(t) == FALSE

\* rotate_refresh of some request holds the row.
Locked(t) ==
    \E r \in Requests :
        req[r].op \in {"rotate", "reuse", "reuse sweep"} /\ req[r].old = t

\* UPDATE refresh_tokens SET revoked_at = now() WHERE revoked_at IS NULL
Revoked(batch) ==
    [t \in Tokens |-> IF t \in batch /\ Live(t) THEN [token[t] EXCEPT !.status = "REVOKED"]
                                                ELSE token[t]]

\* Mutant: a new session has no chain_started_at.
NewToken_Unchained(u, t) == [status |-> "LIVE", user |-> u, chain |-> "null"]

\* issue_tokens without chain_started_at: the token begins a chain
NewToken(u, t) == [status |-> "LIVE", user |-> u, chain |-> t]

-----------------------------------------------------------------------------
\* Signing in: staff_login, and sign_in of a customer, who is no member

\* Mutant: org_active_for_user is not asked.
MayEnter_Anyone(u) == TRUE

\* ORG_SUSPENDED otherwise
MayEnter(u) == ~(u \in members /\ org = "suspended")

LoginRead(r, u) ==
    /\ Free(r)
    /\ MayEnter(u)
    /\ Become(r, [op |-> "issue", user |-> u])
    /\ UNCHANGED <<token, org, members, access>>

\* issue_tokens and the COMMIT, also of change_password
Issue(r, t) ==
    /\ req[r].op = "issue"
    /\ ~Exists(t)
    /\ token' = [token EXCEPT ![t] = NewToken(req[r].user, t)]
    /\ access' = access \union {req[r].user}
    /\ Become(r, Idle)
    /\ UNCHANGED <<org, members>>

-----------------------------------------------------------------------------
\* rotate_refresh

\* Mutant: revoked_at is not looked at.
Usable_Any(t) == Exists(t)

Usable(t) == Live(t)

\* SELECT ... FOR UPDATE: a used token is the sign of a copy.
RefreshRead(r, t) ==
    /\ Free(r)
    /\ Exists(t)
    /\ ~Locked(t)
    /\ Become(r, [op |-> IF Usable(t) THEN "rotate" ELSE "reuse", old |-> t])
    /\ UNCHANGED <<token, org, members, access>>

\* The new token t keeps the owner and the chain of the old one.
Turned(old, t) ==
    [token EXCEPT ![t] = [status |-> "LIVE", user |-> token[old].user, chain |-> token[old].chain],
                  ![old].status = "REVOKED"]

Rotate(r, t) ==
    LET old == req[r].old
    IN  /\ req[r].op = "rotate"
        /\ ~Exists(t)
        /\ token' = Turned(old, t)
        /\ access' = access \union {token[old].user}
        /\ Become(r, Idle)
        /\ UNCHANGED <<org, members>>

\* revoke_all_tokens runs in a transaction of its own, whose UPDATE takes its
\* snapshot here and commits below; the row presented stays locked meanwhile.
ReuseSweepRead(r) ==
    /\ req[r].op = "reuse"
    /\ Become(r, [op |-> "reuse sweep", old |-> req[r].old,
                  batch |-> LiveOf({token[req[r].old].user})])
    /\ UNCHANGED <<token, org, members, access>>

ReuseSweepWrite(r) ==
    /\ req[r].op = "reuse sweep"
    /\ \A t \in req[r].batch : ~Locked(t)
    /\ token' = Revoked(req[r].batch)
    /\ Become(r, Idle)
    /\ UNCHANGED <<org, members, access>>

-----------------------------------------------------------------------------
\* Logout and change of password: both need an access token, which nobody
\* takes back before it expires.

\* sign_out
SignOut(r, t) ==
    /\ Free(r)
    /\ Live(t)
    /\ token[t].user \in access
    /\ ~Locked(t)
    /\ token' = Revoked({t})
    /\ UNCHANGED <<org, members, access, req>>

ChangePassword(r, u) ==
    /\ Free(r)
    /\ u \in access
    /\ Become(r, [op |-> "change", user |-> u])
    /\ UNCHANGED <<token, org, members, access>>

ChangeSweepRead(r) ==
    /\ req[r].op = "change"
    /\ Become(r, [op |-> "change sweep", user |-> req[r].user,
                  batch |-> LiveOf({req[r].user})])
    /\ UNCHANGED <<token, org, members, access>>

\* The old sessions end even if the change itself is rolled back later.
ChangeSweepWrite(r) ==
    /\ req[r].op = "change sweep"
    /\ \A t \in req[r].batch : ~Locked(t)
    /\ token' = Revoked(req[r].batch)
    /\ Become(r, [op |-> "issue", user |-> req[r].user])
    /\ UNCHANGED <<org, members, access>>

AccessExpires(u) ==
    /\ u \in access
    /\ access' = access \ {u}
    /\ UNCHANGED <<token, org, members, req>>

-----------------------------------------------------------------------------
\* The platform and the owner

\* The row of the organization is locked by the first UPDATE.
OrgLocked == \E r \in Requests : req[r].op = "suspend"

\* update_organization with 'suspended': platform_revoke_org_sessions
SuspendRead(r) ==
    /\ Free(r)
    /\ ~OrgLocked
    /\ Become(r, [op |-> "suspend", batch |-> LiveOf(members)])
    /\ UNCHANGED <<token, org, members, access>>

SuspendWrite(r) ==
    /\ req[r].op = "suspend"
    /\ \A t \in req[r].batch : ~Locked(t)
    /\ org' = "suspended"
    /\ token' = Revoked(req[r].batch)
    /\ Become(r, Idle)
    /\ UNCHANGED <<members, access>>

Activate(r) ==
    /\ Free(r)
    /\ ~OrgLocked
    /\ org = "suspended"
    /\ org' = "active"
    /\ UNCHANGED <<token, members, access, req>>

\* deactivate_staff: the tokens stay, the next one carries no membership.
Deactivate(r, u) ==
    /\ Free(r)
    /\ u \in members
    /\ members' = members \ {u}
    /\ UNCHANGED <<token, org, access, req>>

\* An error, a dropped connection or a crash
Abort(r) ==
    /\ ~Free(r)
    /\ Become(r, Idle)
    /\ UNCHANGED <<token, org, members, access>>

-----------------------------------------------------------------------------
Init ==
    /\ \E u \in Users : token = [t \in Tokens |-> [status |-> "NONE", user |-> u, chain |-> t]]
    /\ org = "active"
    /\ members \in SUBSET Users
    /\ access = {}
    /\ req = [r \in Requests |-> Idle]

Step(r) ==
    \/ \E u \in Users : LoginRead(r, u) \/ ChangePassword(r, u) \/ Deactivate(r, u)
    \/ \E t \in Tokens : Issue(r, t) \/ RefreshRead(r, t) \/ Rotate(r, t) \/ SignOut(r, t)
    \/ ReuseSweepRead(r)
    \/ ReuseSweepWrite(r)
    \/ ChangeSweepRead(r)
    \/ ChangeSweepWrite(r)
    \/ SuspendRead(r)
    \/ SuspendWrite(r)
    \/ Activate(r)
    \/ Abort(r)

Next ==
    \/ \E r \in Requests : Step(r)
    \/ \E u \in Users : AccessExpires(u)

Spec == Init /\ [][Next]_vars

-----------------------------------------------------------------------------
\* Properties

\* Rows and transactions in flight keep their type.
TypeOK ==
    /\ token \in [Tokens -> Row]
    /\ org \in {"active", "suspended"}
    /\ members \subseteq Users
    /\ access \subseteq Users
    /\ req \in [Requests -> {Idle} \union Request]

\* "Without the lock both requests would see the token unrevoked and make two
\* valid sessions of one": a sign-in never has two usable tokens, whatever
\* refreshes, sweeps and logouts overlap (rotate_refresh).
OneLivePerChain ==
    \A s, t \in Tokens : Live(s) /\ Live(t) /\ token[s].chain = token[t].chain => s = t

TokensOf(c) == {t \in Tokens : Exists(t) /\ token[t].chain = c}

LifeOf(c) ==
    IF TokensOf(c) = {} THEN "none"
    ELSE IF \E t \in TokensOf(c) : Live(t) THEN "live" ELSE "ended"

Abstract == INSTANCE Chains WITH Chain <- Tokens, life <- [c \in Tokens |-> LifeOf(c)]

\* A session that was ended, by logout, reuse, a new password or a suspension,
\* never comes back, not even through a refresh that was under way when it was
\* ended (rotate_refresh, revoke_all_tokens, platform_revoke_org_sessions).
ImplementsChains == Abstract!Spec

\* Transaction r may still issue a token to u.
Admits(r, u) ==
    \/ req[r].op \in {"issue", "change", "change sweep"} /\ req[r].user = u
    \/ req[r].op = "rotate" /\ token[req[r].old].user = u

\* Suspended, and nothing granted before is left.
LockedOut(u) ==
    /\ org = "suspended"
    /\ u \in members
    /\ u \notin access
    /\ LiveOf({u}) = {}
    /\ \A r \in Requests : ~Admits(r, u)

\* A member of a suspended organization who has no live refresh token and no access token,
\* and for whom no transaction is under way that may still grant one, has no way in until the
\* organization is active again (migration 0026).  That a suspension gets there is not said:
\* a sign-in or a refresh that is open while platform_revoke_org_sessions chooses its rows
\* leaves a live token behind, which rotate_refresh renews without asking for the organization.
LockedOutForEver ==
    [][\A u \in Users : LockedOut(u) /\ org' = "suspended" /\ u \in members' => LockedOut(u)']_vars

=============================================================================
