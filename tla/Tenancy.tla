------------------------------ MODULE Tenancy ------------------------------
(***************************************************************************)
(* Which rows a request sees.  core/db.py and deps.py copy the claims of   *)
(* the token into settings of the transaction (set_config(..., true)), and *)
(* the policies of module Policies read those.  Nothing but the end of the *)
(* transaction takes the settings away: the pool hands the same connection *)
(* to somebody else.  A request may also need a second connection while it *)
(* holds its first (core/audit.py), from a pool that has a limit.          *)
(*                                                                         *)
(* Tokens outlive the membership they were made from, so the claim of a    *)
(* request and the role in the table may differ.                           *)
(***************************************************************************)
EXTENDS Policies, FiniteSets

CONSTANTS
    Posts,         \* pairs <<person, club>>: who may be a member of what
    Grades,        \* the ranks a membership takes
    AppConns,      \* connections of app_engine (pool_size + max_overflow)
    PlatformConns, \* connections of platform_engine
    NoConn,
    Tasks          \* requests at a time

VARIABLES
    role,   \* memberships: the role of a post, or "none"
    token,  \* the roles in the access token of a person (claim mbr)
    guc,    \* the settings of each connection
    task

vars == <<role, token, guc, task>>

Conns == AppConns \union PlatformConns

Stages == {"idle", "waiting", "open", "audit_waiting", "auditing", "written"}

RequestKinds == {"request", "platform", "bot"}

\* The two engines share no connection; a post is of a person at a club.
TenancyAssumption ==
    /\ PoliciesAssumption
    /\ AppConns \intersect PlatformConns = {}
    /\ NoConn \notin Conns
    /\ Posts \subseteq People \X Clubs
    /\ Grades \subseteq Ranks

\* who, club, claim: core/context.py; about: the club a report of the bot is for
Idle == [stage |-> "idle", kind |-> "request", who |-> Nobody, club |-> NoClub,
         claim |-> "none", about |-> NoClub, first |-> NoConn, second |-> NoConn]

TypeOK ==
    /\ role \in [Posts -> Grades \union {"none"}]
    /\ token \in [Posts -> Grades \union {"none"}]
    /\ guc \in [Conns -> TransactionSettings]
    /\ \A t \in Tasks :
           /\ task[t].stage \in Stages
           /\ task[t].kind \in RequestKinds
           /\ task[t].who \in People \union {Nobody}
           /\ {task[t].club, task[t].about} \subseteq Clubs \union {NoClub}
           /\ {task[t].first, task[t].second} \subseteq Conns \union {NoConn}

Init ==
    /\ role = [q \in Posts |-> "none"]
    /\ token = role
    /\ guc = [k \in Conns |-> Clean]
    /\ task = [t \in Tasks |-> Idle]

-----------------------------------------------------------------------------

\* app_club_role(app_club_id())
Member(u, c) == IF <<u, c>> \in Posts THEN role[<<u, c>>] ELSE "none"

Claim(u, c) == IF <<u, c>> \in Posts THEN token[<<u, c>>] ELSE "none"

ClubsOf(u) == {c \in Clubs : Claim(u, c) # "none"}

Busy(k) == \E t \in Tasks : k \in {task[t].first, task[t].second}

-----------------------------------------------------------------------------

\* A token carries the memberships of the moment it was made.
IssueToken(p) ==
    /\ token' = [q \in Posts |-> IF q[1] = p THEN role[q] ELSE token[q]]
    /\ UNCHANGED <<role, guc, task>>

\* create_staff, update_staff, deactivate_staff: the tokens made before stay valid.
ChangeRole(q, r) ==
    /\ r # role[q]
    /\ role' = [role EXCEPT ![q] = r]
    /\ UNCHANGED <<token, guc, task>>

\* current_claims: the club of the header, or the only one there is.
Arrive(t, u, c) ==
    /\ task[t] = Idle
    /\ c \in ClubsOf(u) \/ (c = NoClub /\ Cardinality(ClubsOf(u)) # 1)
    /\ task' = [task EXCEPT ![t] = [Idle EXCEPT !.stage = "waiting", !.who = u, !.club = c,
                                         !.claim = IF c = NoClub THEN "none" ELSE Claim(u, c)]]
    /\ UNCHANGED <<role, token, guc>>

\* A route without a token (public_db): the context is the empty one of the middleware.
ArrivePublic(t) ==
    /\ task[t] = Idle
    /\ task' = [task EXCEPT ![t] = [Idle EXCEPT !.stage = "waiting"]]
    /\ UNCHANGED <<role, token, guc>>

\* handle_callback: the bot's webhook has no token either.  bot_staff_context finds the
\* club the sender manages.
AskBot(t, u, c) ==
    /\ task[t] = Idle
    /\ Member(u, c) \in Managers
    /\ task' = [task EXCEPT ![t] = [Idle EXCEPT !.stage = "waiting", !.kind = "bot", !.about = c]]
    /\ UNCHANGED <<role, token, guc>>

\* require_super_admin, then platform_scope: its own engine, and READ ONLY.
ArrivePlatform(t) ==
    /\ task[t] = Idle
    /\ task' = [task EXCEPT ![t] = [Idle EXCEPT !.stage = "waiting", !.kind = "platform"]]
    /\ UNCHANGED <<role, token, guc>>

\* _apply_context names all of its settings and leaves the others as they are.
Applied(g, r) ==
    IF r.kind = "platform" THEN [g EXCEPT !.flags = @ \union {"platform"}]
    ELSE [g EXCEPT !.user = r.who, !.club = r.club, !.claim = r.claim]

\* session_scope and platform_scope
Begin(t, k) ==
    /\ task[t].stage = "waiting"
    /\ k \in IF task[t].kind = "platform" THEN PlatformConns ELSE AppConns
    /\ ~Busy(k)
    /\ guc' = [guc EXCEPT ![k] = Applied(@, task[t])]
    /\ task' = [task EXCEPT ![t].stage = "open", ![t].first = k]
    /\ UNCHANGED <<role, token>>

\* The pool's timeout: the request fails.
GiveUp(t) ==
    /\ task[t].stage = "waiting"
    /\ task' = [task EXCEPT ![t] = Idle]
    /\ UNCHANGED <<role, token, guc>>

\* set_current_user: a signing-in person becomes known in the middle of the transaction.
SetCurrentUser(t, u) ==
    /\ task[t].stage = "open"
    /\ task[t].kind = "request"
    /\ task[t].who = Nobody
    /\ guc' = [guc EXCEPT ![task[t].first].user = u]
    /\ task' = [task EXCEPT ![t].who = u]
    /\ UNCHANGED <<role, token>>

\* log_action: a second connection while the first is held
AskAudit(t) ==
    /\ task[t].stage = "open"
    /\ task[t].kind = "request"
    /\ task' = [task EXCEPT ![t].stage = "audit_waiting"]
    /\ UNCHANGED <<role, token, guc>>

\* log_action sets app.user_id and nothing else.
BeginAudit(t, k) ==
    /\ task[t].stage = "audit_waiting"
    /\ k \in AppConns
    /\ ~Busy(k)
    /\ guc' = [guc EXCEPT ![k].user = task[t].who]
    /\ task' = [task EXCEPT ![t].stage = "auditing", ![t].second = k]
    /\ UNCHANGED <<role, token>>

\* Mutant: log_action waits for a connection as long as it takes.
AuditGivesUp_Never(t) == FALSE /\ UNCHANGED vars

\* The pool's timeout is one of the exceptions log_action swallows.
AuditGivesUp(t) ==
    /\ task[t].stage = "audit_waiting"
    /\ task' = [task EXCEPT ![t].stage = "written"]
    /\ UNCHANGED <<role, token, guc>>

\* Mutant: set_config(..., false), the setting is the connection's and not the transaction's.
Ended_Kept(g) == g

\* COMMIT or ROLLBACK: what was set locally is gone.
Ended(g) == Clean

EndAudit(t) ==
    /\ task[t].stage = "auditing"
    /\ guc' = [guc EXCEPT ![task[t].second] = Ended(@)]
    /\ task' = [task EXCEPT ![t].stage = "written", ![t].second = NoConn]
    /\ UNCHANGED <<role, token>>

End(t) ==
    /\ task[t].stage \in {"open", "written"}
    /\ guc' = [guc EXCEPT ![task[t].first] = Ended(@)]
    /\ task' = [task EXCEPT ![t] = Idle]
    /\ UNCHANGED <<role, token>>

\* What the program does by itself once a request is there
Step(t) ==
    \/ \E k \in Conns : Begin(t, k)
    \/ GiveUp(t)
    \/ \E k \in AppConns : BeginAudit(t, k)
    \/ AuditGivesUp(t)
    \/ EndAudit(t)
    \/ End(t)

Next ==
    \/ \E p \in People : IssueToken(p)
    \/ \E q \in Posts, r \in Grades \union {"none"} : ChangeRole(q, r)
    \/ \E t \in Tasks :
           \/ \E u \in People, c \in Clubs \union {NoClub} : Arrive(t, u, c)
           \/ ArrivePublic(t)
           \/ \E q \in Posts : AskBot(t, q[1], q[2])
           \/ ArrivePlatform(t)
           \/ \E u \in People : SetCurrentUser(t, u)
           \/ AskAudit(t)
           \/ Step(t)

Spec == Init /\ [][Next]_vars

\* A request runs until it is answered: each await returns or times out.
FairSpec == Spec /\ \A t \in Tasks : WF_vars(Step(t))

-----------------------------------------------------------------------------

\* The connections a request has in a transaction
Held(t) == {task[t].first, task[t].second} \ {NoConn}

\* Rows anybody may read: the calendar, and the catalogue of an active club
Public(row) == row.table = "bookings" \/ (row.table = "stations" /\ row.club \in ActiveClubs)

\* What a transaction on connection k may read and write; a platform transaction is READ ONLY.
Reads(k, u) == {row \in Rows : Readable(guc[k], Member(u, guc[k].club), row)}

Writes(k, u) ==
    IF k \in PlatformConns THEN {} ELSE {row \in Rows : Writable(guc[k], Member(u, guc[k].club), row)}

\* A request never touches another club: what it can write is its own club's or about
\* the person who asks, what it can read besides is public, and its audit entry is about
\* that person alone, whoever had the connection before.  Only the log of sign-ins takes a
\* line from anybody (auth_events_insert).
InsideOwnClub ==
    \A t \in Tasks : \A k \in Held(t) :
        LET own(row) == row.of = task[t].who
            club(row) == k = task[t].first /\ row.club = task[t].club
        IN  /\ \A row \in Writes(k, task[t].who) :
                   own(row) \/ club(row) \/ row.table = "auth_events"
            /\ task[t].kind # "platform" =>
                   \A row \in Reads(k, task[t].who) : own(row) \/ club(row) \/ Public(row)

\* What require_role admits the policies serve: a handler whose caller still has the role
\* of the token finds every row it works on, and none is missing in silence but the persons
\* that Unknown names.  So do a guest, a visitor without a token (0027) and the super
\* administrator (0029).
NoBlindSpot ==
    \A t \in Tasks :
        LET r == task[t]
            k == r.first
            reads == Reads(k, r.who)
            writes == Writes(k, r.who)
        IN  k # NoConn =>
                /\ r.club # NoClub /\ r.claim = Member(r.who, r.club) =>
                       \A route \in ClubRoutes : r.claim \in route.gate =>
                           /\ Needed(route.reads, route, r.who, r.club, r.claim) \subseteq reads
                           /\ Needed(route.writes, route, r.who, r.club, r.claim) \subseteq writes
                /\ r.kind = "request" /\ r.club = NoClub => NeededOutside(r.who) \subseteq reads
                /\ r.kind = "platform" =>
                       {row \in Rows : row.table \in PlatformTables} \subseteq reads

\* modules/auth/botmenu.py:12: the reports of the bot have the same source as the
\* dashboard.  So the transaction of the bot reads the rows a dashboard reads.
BotSeesReport ==
    \A t \in Tasks :
        task[t].kind = "bot" /\ task[t].first # NoConn =>
            Needed(Dashboard.reads, Dashboard, task[t].who, task[t].about, "OWNER")
                \subseteq Reads(task[t].first, task[t].who)

\* Requests that each hold a connection and wait for one more do not wait for ever.
RequestsFinish == \A t \in Tasks : task[t] # Idle ~> task[t] = Idle

=============================================================================
