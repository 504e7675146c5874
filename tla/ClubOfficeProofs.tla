-------------------------- MODULE ClubOfficeProofs --------------------------
(***************************************************************************)
(* Proofs about the club office, for every size of it: that the verdicts   *)
(* of the worker's journal are true (WorkerPass), that the settings of a   *)
(* transaction open the rows they should and no others (WorkerPass,        *)
(* Tenancy, Policies), and that no station changes its kind by itself      *)
(* (Catalogue).                                                            *)
(***************************************************************************)
EXTENDS MCClubOffice, TLAPS

officeVars == <<scene, catalogueVars, tenantVars, workerVars, staffVars>>

-----------------------------------------------------------------------------
\* WorkerPass: the settings of the worker's connection follow from the stage of the turn,
\* and the journal of the club of the turn from how far its handler has come.

workerTypes ==
    /\ todo \subseteq Clubs
    /\ at \in Clubs \union {NoClub}
    /\ stage \in Worker!Stages
    /\ journal \in [Clubs -> {"none", "running", "done", "error"}]
    /\ applied \in [Clubs -> BOOLEAN]
    /\ mute \in [Clubs -> BOOLEAN]

\* The settings are those of the transaction that runs, and of none in between.
Scoped ==
    /\ stage \in {"idle", "listing", "turn", "entering", "worked", "raised"} =>
           workerGuc = Worker!Clean
    /\ stage \in {"starting", "finishing", "failing"} =>
           workerGuc = Worker!JournalWriter(Worker!Clean)
    /\ stage = "working" => workerGuc = Worker!ClubScope(Worker!Clean, at)

\* From journal_start to journal_finish the row says 'running'; the handler has committed
\* when its verdict is due.
Running ==
    /\ stage \notin {"idle", "listing", "turn"} => at \in Clubs
    /\ stage \in {"entering", "working", "worked", "raised", "finishing", "failing"} =>
           journal[at] = "running"
    /\ stage \in {"worked", "finishing"} => applied[at]

WorkerInv == workerTypes /\ Scoped /\ Running /\ DoneMeansCommitted

LEMMA WorkerStep ==
    ASSUME WorkerInv, [OfficeNext]_officeVars
    PROVE  WorkerInv'
<1> USE DEF WorkerInv, workerTypes, Scoped, Running, DoneMeansCommitted,
            Worker!DoneMeansCommitted, Worker!Stages
<1>1. CASE UNCHANGED workerVars
  BY <1>1 DEF workerVars
<1>2. CASE Worker!List
  BY <1>2 DEF Worker!List
<1>3. CASE Worker!Listed
  BY <1>3, OfficeAssumption DEF Worker!Listed, Tenants!TenancyAssumption, Tenants!PoliciesAssumption
<1>4. ASSUME NEW c \in Clubs, Worker!Start(c) PROVE WorkerInv'
  BY <1>4 DEF Worker!Start
<1>5. CASE Worker!Started
  BY <1>5 DEF Worker!Started
<1>6. CASE Worker!StartFails
  BY <1>6 DEF Worker!StartFails
<1>7. CASE Worker!Enter
  BY <1>7 DEF Worker!Enter
<1>8. CASE Worker!Commit
  BY <1>8 DEF Worker!Commit, Worker!Ended
<1>9. ASSUME NEW silent \in BOOLEAN, Worker!Raise(silent) PROVE WorkerInv'
  BY <1>9 DEF Worker!Raise, Worker!Ended
<1>10. ASSUME NEW silent \in BOOLEAN, Worker!FinishFails(silent) PROVE WorkerInv'
  BY <1>10 DEF Worker!FinishFails, Worker!Ended
<1>11. CASE Worker!Finish
  BY <1>11 DEF Worker!Finish
<1>12. CASE Worker!Finished
  BY <1>12 DEF Worker!Finished, Worker!Ended, Worker!Verdict
<1>13. CASE Worker!PassEnds
  BY <1>13 DEF Worker!PassEnds
<1>14. UNCHANGED workerVars \/ Worker!Next
  BY DEF OfficeNext, catalogueVars, tenantVars, workerVars, officeVars
<1> QED BY <1>1, <1>2, <1>3, <1>4, <1>5, <1>6, <1>7, <1>8, <1>9, <1>10, <1>11, <1>12, <1>13,
           <1>14 DEF Worker!Next

LEMMA WorkerAlways == OfficeSpec => []WorkerInv
<1>1. OfficeInit => WorkerInv
  BY DEF OfficeInit, Worker!Init, WorkerInv, workerTypes, Scoped, Running, DoneMeansCommitted,
         Worker!DoneMeansCommitted, Worker!Stages
<1> QED BY <1>1, WorkerStep, PTL DEF OfficeSpec, officeVars

\* The journal says 'done' only of a handler whose transaction has committed, wherever the
\* worker stops, unless an exception had no text (run_per_club, journal_finish).
THEOREM DoneIsDone == OfficeSpec => []DoneMeansCommitted
<1>1. WorkerInv => DoneMeansCommitted
  BY DEF WorkerInv
<1> QED BY <1>1, WorkerAlways, PTL

-----------------------------------------------------------------------------
\* WorkerPass: OneClubAtATime follows from the settings of each stage.

LEMMA WorkerInItsClub ==
    ASSUME WorkerInv
    PROVE  Worker!OneClubAtATime
<1> SUFFICES ASSUME NEW row \in Worker!Rows
             PROVE  /\ Worker!Writable(workerGuc, "none", row) =>
                          \/ stage = "working" /\ row.club = at
                          \/ stage \in {"starting", "finishing", "failing"} /\ row.table = "jobs"
                          \/ row.table = "auth_events"
                    /\ row.table = "payments" /\ Worker!Readable(workerGuc, "none", row) =>
                          stage = "working" /\ row.club = at
  BY DEF Worker!OneClubAtATime
<1>1. /\ row.club \in Clubs /\ row.of \in People
      /\ row.club # NoClub /\ row.of # Nobody
  BY OfficeAssumption DEF Worker!Rows, Tenants!TenancyAssumption, Tenants!PoliciesAssumption
<1> USE DEF Worker!Writable, Worker!Readable, Worker!Clean, Worker!InClub, Worker!StaffAll,
            Worker!PaymentsStaffAll, Worker!CustomerRead, Worker!CustomerInsert,
            Worker!BookingContact, Worker!OfWorker, Worker!CatalogueRead, Worker!CatalogueWrite,
            Worker!TariffsWrite, Worker!ExpensesManage, Worker!OwnShiftRead, Worker!OwnOrAdmin,
            Worker!UserTables, Worker!StaffRoster, Worker!MembershipsRead, Worker!MembershipsWrite, Worker!AuditRead,
            Worker!AuditInsert, Worker!JobWriter, Worker!PlatformRead, Worker!AvailabilityRead,
            Worker!Ranks, Worker!Managers
<1>2. CASE workerGuc = Worker!Clean
  BY <1>1, <1>2
<1>3. CASE /\ workerGuc = Worker!JournalWriter(Worker!Clean)
           /\ stage \in {"starting", "finishing", "failing"}
  BY <1>1, <1>3 DEF Worker!JournalWriter
<1>4. CASE workerGuc = Worker!ClubScope(Worker!Clean, at) /\ stage = "working"
  BY <1>1, <1>4 DEF Worker!ClubScope
<1> QED BY <1>2, <1>3, <1>4 DEF WorkerInv, workerTypes, Scoped, Worker!Stages

-----------------------------------------------------------------------------
\* Tenancy: a connection that nobody holds has no settings, and one that is held has
\* those of its holder, so that the pool passes on nothing.

Request ==
    [stage : Tenants!Stages, kind : Tenants!RequestKinds, who : People \union {Nobody},
     club : Clubs \union {NoClub}, claim : Tenants!Ranks \union {"none"},
     about : Clubs \union {NoClub}, first : Tenants!Conns \union {NoConn},
     second : Tenants!Conns \union {NoConn}]

tenantTypes ==
    /\ role \in [Posts -> Grades \union {"none"}]
    /\ token \in [Posts -> Grades \union {"none"}]
    /\ guc \in [Tenants!Conns -> Tenants!TransactionSettings]
    /\ task \in [Tasks -> Request]

\* The connections a request has at each stage, from which engine
Placed(r) ==
    /\ r.stage \in {"idle", "waiting"} => r.first = NoConn
    /\ r.stage \notin {"idle", "waiting"} =>
           r.first \in IF r.kind = "platform" THEN PlatformConns ELSE AppConns
    /\ r.stage = "auditing" => r.second \in AppConns \ {r.first}
    /\ r.stage # "auditing" => r.second = NoConn
    /\ r.kind # "request" => r.who = Nobody /\ r.club = NoClub /\ r.claim = "none"

\* The settings g of the connections of request r
Settled(g, r) ==
    /\ r.first # NoConn => g[r.first] = Tenants!Applied(Tenants!Clean, r)
    /\ r.second # NoConn => g[r.second] = [Tenants!Clean EXCEPT !.user = r.who]

Holds(r, k) == k \in {r.first, r.second}

TenantInv ==
    /\ tenantTypes
    /\ \A t \in Tasks : Placed(task[t]) /\ Settled(guc, task[t])
    /\ \A t, u \in Tasks : t # u =>
           \A k \in Tenants!Conns : ~(Holds(task[t], k) /\ Holds(task[u], k))
    /\ \A k \in Tenants!Conns :
           (\A t \in Tasks : ~Holds(task[t], k)) => guc[k] = Tenants!Clean

\* A step of request t that settles its connections, takes free ones only and leaves
\* those it gives back without settings
LEMMA OneRequest ==
    ASSUME TenantInv, UNCHANGED <<role, token>>,
           guc' \in [Tenants!Conns -> Tenants!TransactionSettings],
           NEW t \in Tasks, NEW new \in Request,
           task' = [task EXCEPT ![t] = new], Placed(new), Settled(guc', new),
           \A k \in Tenants!Conns : Holds(new, k) =>
               Holds(task[t], k) \/ \A u \in Tasks : ~Holds(task[u], k),
           \A k \in Tenants!Conns : ~Holds(new, k) =>
               guc'[k] = IF Holds(task[t], k) THEN Tenants!Clean ELSE guc[k]
    PROVE  TenantInv'
<1>1. task'[t] = new /\ \A u \in Tasks \ {t} : task'[u] = task[u]
  BY DEF TenantInv, tenantTypes
<1>2. ASSUME NEW u \in Tasks \ {t}, NEW k \in Tenants!Conns, Holds(task[u], k)
      PROVE  ~Holds(new, k) /\ guc'[k] = guc[k]
  <2>1. ~Holds(task[t], k)
    BY <1>2 DEF TenantInv
  <2> QED BY <1>2, <2>1
<1>3. ASSUME NEW u \in Tasks
      PROVE  Placed(task'[u]) /\ Settled(guc', task'[u])
  <2>1. CASE u = t
    BY <1>1, <2>1
  <2>2. CASE u # t
    <3>1. task[u] \in Request /\ Placed(task[u]) /\ Settled(guc, task[u])
      BY DEF TenantInv, tenantTypes
    <3>2. Settled(guc', task[u])
      BY <1>2, <2>2, <3>1 DEF Settled, Holds, Request
    <3> QED BY <1>1, <2>2, <3>1, <3>2
  <2> QED BY <2>1, <2>2
<1>4. ASSUME NEW u \in Tasks, NEW v \in Tasks, u # v, NEW k \in Tenants!Conns
      PROVE  ~(Holds(task'[u], k) /\ Holds(task'[v], k))
  <2>1. CASE u # t /\ v # t
    BY <1>1, <1>4, <2>1 DEF TenantInv
  <2>2. CASE u = t
    BY <1>1, <1>2, <1>4, <2>2
  <2>3. CASE v = t
    BY <1>1, <1>2, <1>4, <2>3
  <2> QED BY <2>1, <2>2, <2>3
<1>5. ASSUME NEW k \in Tenants!Conns, \A u \in Tasks : ~Holds(task'[u], k)
      PROVE  guc'[k] = Tenants!Clean
  <2>1. ~Holds(new, k)
    BY <1>1, <1>5
  <2>2. CASE Holds(task[t], k)
    BY <2>1, <2>2
  <2>3. CASE ~Holds(task[t], k)
    BY <1>1, <1>5, <2>1, <2>3 DEF TenantInv
  <2> QED BY <2>2, <2>3
<1>6. /\ \A u \in Tasks : (Placed(task[u]) /\ Settled(guc, task[u]))'
      /\ \A u, v \in Tasks : u # v =>
             \A k \in Tenants!Conns : ~(Holds(task[u], k) /\ Holds(task[v], k))'
      /\ \A k \in Tenants!Conns :
             ((\A u \in Tasks : ~Holds(task[u], k)) => guc[k] = Tenants!Clean)'
  BY <1>3, <1>4, <1>5
<1>7. tenantTypes'
  BY DEF TenantInv, tenantTypes
<1> QED BY <1>6, <1>7 DEF TenantInv

\* What stays when a request changes without its connections
LEMMA SameConnections ==
    ASSUME TenantInv, UNCHANGED <<role, token, guc>>, NEW t \in Tasks, NEW new \in Request,
           task' = [task EXCEPT ![t] = new], Placed(new),
           new.first = task[t].first, new.second = task[t].second,
           task[t].first = NoConn \/ (/\ new.who = task[t].who /\ new.club = task[t].club
                                      /\ new.claim = task[t].claim /\ new.kind = task[t].kind)
    PROVE  TenantInv'
<1>1. Placed(task[t]) /\ Settled(guc, task[t]) /\ task[t] \in Request
  BY DEF TenantInv, tenantTypes
<1>2. task[t].first = NoConn => task[t].second = NoConn
  BY <1>1, OfficeAssumption DEF Placed, Tenants!TenancyAssumption, Tenants!Conns
<1>3. Settled(guc', new)
  BY <1>1, <1>2 DEF Settled, Tenants!Applied
<1>4. \A k \in Tenants!Conns : /\ Holds(new, k) <=> Holds(task[t], k)
                               /\ guc'[k] = guc[k]
  BY DEF Holds
<1>5. guc' \in [Tenants!Conns -> Tenants!TransactionSettings]
  BY DEF TenantInv, tenantTypes
<1>6. \A k \in Tenants!Conns : ~Holds(new, k) =>
        guc'[k] = IF Holds(task[t], k) THEN Tenants!Clean ELSE guc[k]
  BY <1>4
<1> QED BY <1>3, <1>4, <1>5, <1>6, OneRequest

LEMMA TenantStep ==
    ASSUME TenantInv, [OfficeNext]_officeVars
    PROVE  TenantInv'
<1> USE OfficeAssumption DEF Tenants!TenancyAssumption, Tenants!PoliciesAssumption
<1> DEFINE Typed == [Tenants!Conns -> Tenants!TransactionSettings]
<1>1. tenantTypes
  BY DEF TenantInv
<1>2. ASSUME NEW t \in Tasks
      PROVE  Placed(task[t]) /\ Settled(guc, task[t]) /\ task[t] \in Request
  BY DEF TenantInv, tenantTypes
<1>3. Tenants!Idle \in Request /\ Placed(Tenants!Idle)
  BY DEF Tenants!Idle, Request, Tenants!Stages, Tenants!RequestKinds, Placed
<1>4. CASE UNCHANGED tenantVars
  BY <1>4 DEF TenantInv, tenantTypes, tenantVars
<1>5. ASSUME NEW p \in People, Tenants!IssueToken(p)
      PROVE  TenantInv'
  BY <1>5 DEF Tenants!IssueToken, TenantInv, tenantTypes
<1>6. ASSUME NEW q \in Posts, NEW r \in Grades \union {"none"}, Tenants!ChangeRole(q, r)
      PROVE  TenantInv'
  BY <1>6 DEF Tenants!ChangeRole, TenantInv, tenantTypes
<1>7. ASSUME NEW t \in Tasks, NEW u \in People, NEW c \in Clubs \union {NoClub},
             Tenants!Arrive(t, u, c)
      PROVE  TenantInv'
  <2> DEFINE new == [Tenants!Idle EXCEPT !.stage = "waiting", !.who = u, !.club = c,
                         !.claim = IF c = NoClub THEN "none" ELSE Tenants!Claim(u, c)]
  <2>1. Tenants!Claim(u, c) \in Tenants!Ranks \union {"none"}
    BY <1>1 DEF Tenants!Claim, tenantTypes
  <2>2. new \in Request /\ Placed(new) /\ new.first = NoConn /\ new.second = NoConn
    BY <2>1 DEF Tenants!Idle, Request, Tenants!Stages, Tenants!RequestKinds, Placed
  <2>3. /\ task' = [task EXCEPT ![t] = new] /\ UNCHANGED <<role, token, guc>>
        /\ task[t].first = NoConn /\ task[t].second = NoConn
    BY <1>7 DEF Tenants!Arrive, Tenants!Idle
  <2> HIDE DEF new
  <2> QED BY <2>2, <2>3, SameConnections
<1>8. ASSUME NEW t \in Tasks, Tenants!ArrivePublic(t)
      PROVE  TenantInv'
  <2> DEFINE new == [Tenants!Idle EXCEPT !.stage = "waiting"]
  <2>1. new \in Request /\ Placed(new) /\ new.first = NoConn /\ new.second = NoConn
    BY DEF Tenants!Idle, Request, Tenants!Stages, Tenants!RequestKinds, Placed
  <2>2. /\ task' = [task EXCEPT ![t] = new] /\ UNCHANGED <<role, token, guc>>
        /\ task[t].first = NoConn /\ task[t].second = NoConn
    BY <1>8 DEF Tenants!ArrivePublic, Tenants!Idle
  <2> HIDE DEF new
  <2> QED BY <2>1, <2>2, SameConnections
<1>9. ASSUME NEW t \in Tasks, NEW q \in Posts, Tenants!AskBot(t, q[1], q[2])
      PROVE  TenantInv'
  <2> DEFINE new == [Tenants!Idle EXCEPT !.stage = "waiting", !.kind = "bot", !.about = q[2]]
  <2>1. q[2] \in Clubs
    OBVIOUS
  <2>2. new \in Request /\ Placed(new) /\ new.first = NoConn /\ new.second = NoConn
    BY <2>1 DEF Tenants!Idle, Request, Tenants!Stages, Tenants!RequestKinds, Placed
  <2>3. /\ task' = [task EXCEPT ![t] = new] /\ UNCHANGED <<role, token, guc>>
        /\ task[t].first = NoConn /\ task[t].second = NoConn
    BY <1>9 DEF Tenants!AskBot, Tenants!Idle
  <2> HIDE DEF new
  <2> QED BY <2>2, <2>3, SameConnections
<1>10. ASSUME NEW t \in Tasks, Tenants!ArrivePlatform(t)
       PROVE  TenantInv'
  <2> DEFINE new == [Tenants!Idle EXCEPT !.stage = "waiting", !.kind = "platform"]
  <2>1. new \in Request /\ Placed(new) /\ new.first = NoConn /\ new.second = NoConn
    BY DEF Tenants!Idle, Request, Tenants!Stages, Tenants!RequestKinds, Placed
  <2>2. /\ task' = [task EXCEPT ![t] = new] /\ UNCHANGED <<role, token, guc>>
        /\ task[t].first = NoConn /\ task[t].second = NoConn
    BY <1>10 DEF Tenants!ArrivePlatform, Tenants!Idle
  <2> HIDE DEF new
  <2> QED BY <2>1, <2>2, SameConnections
<1>11. ASSUME NEW t \in Tasks, NEW k \in Tenants!Conns, Tenants!Begin(t, k)
       PROVE  TenantInv'
  <2> DEFINE new == [task[t] EXCEPT !.stage = "open", !.first = k]
  <2>1. /\ \A u \in Tasks : ~Holds(task[u], k)
        /\ guc[k] = Tenants!Clean
        /\ k # NoConn /\ task[t].first = NoConn /\ task[t].second = NoConn
    BY <1>2, <1>11 DEF Tenants!Begin, Tenants!Busy, Holds, TenantInv, Tenants!Conns, Placed
  <2>2. /\ guc' = [guc EXCEPT ![k] = Tenants!Applied(Tenants!Clean, task[t])]
        /\ UNCHANGED <<role, token>>
    BY <1>1, <1>11, <2>1 DEF Tenants!Begin, tenantTypes
  <2>3. task' = [task EXCEPT ![t] = new]
    BY <1>1, <1>11 DEF Tenants!Begin, tenantTypes
  <2>4. new \in Request /\ Placed(new) /\ new.first = k /\ new.second = NoConn
    BY <1>2, <1>11, <2>1 DEF Tenants!Begin, Request, Tenants!Stages, Placed
  <2>5. Tenants!Applied(Tenants!Clean, new) = Tenants!Applied(Tenants!Clean, task[t])
    BY <1>2 DEF Tenants!Applied, Request
  <2>6. Tenants!Applied(Tenants!Clean, task[t]) \in Tenants!TransactionSettings
    BY <1>2 DEF Tenants!Applied, Tenants!Clean, Request, Tenants!TransactionSettings
  <2> HIDE DEF new
  <2>7. guc' \in Typed /\ Settled(guc', new)
    BY <1>1, <2>2, <2>4, <2>5, <2>6 DEF tenantTypes, Settled
  <2>8. \A j \in Tenants!Conns : /\ Holds(new, j) => j = k
                                 /\ ~Holds(task[t], j)
                                 /\ j # k => guc'[j] = guc[j]
                                 /\ Holds(new, k)
    BY <1>1, <2>1, <2>2, <2>4 DEF Holds, tenantTypes, Tenants!Conns
  <2>9. \A j \in Tenants!Conns : ~Holds(new, j) =>
          guc'[j] = IF Holds(task[t], j) THEN Tenants!Clean ELSE guc[j]
    BY <2>8
  <2>10. \A j \in Tenants!Conns : Holds(new, j) =>
           Holds(task[t], j) \/ \A u \in Tasks : ~Holds(task[u], j)
    BY <2>1, <2>8
  <2> QED BY <2>2, <2>3, <2>4, <2>7, <2>9, <2>10, OneRequest
<1>12. ASSUME NEW t \in Tasks, Tenants!GiveUp(t)
       PROVE  TenantInv'
  <2>1. /\ task' = [task EXCEPT ![t] = Tenants!Idle] /\ UNCHANGED <<role, token, guc>>
        /\ task[t].first = NoConn /\ task[t].second = NoConn
    BY <1>2, <1>12 DEF Tenants!GiveUp, Placed
  <2>2. Tenants!Idle.first = NoConn /\ Tenants!Idle.second = NoConn
    BY DEF Tenants!Idle
  <2> QED BY <1>3, <2>1, <2>2, SameConnections
<1>13. ASSUME NEW t \in Tasks, NEW u \in People, Tenants!SetCurrentUser(t, u)
       PROVE  TenantInv'
  <2> DEFINE new == [task[t] EXCEPT !.who = u]
             k == task[t].first
  <2>1. /\ k \in Tenants!Conns /\ k # NoConn /\ task[t].second = NoConn
        /\ guc[k] = Tenants!Applied(Tenants!Clean, task[t])
    BY <1>2, <1>13 DEF Tenants!SetCurrentUser, Tenants!Conns, Placed, Settled
  <2>2. /\ guc' = [guc EXCEPT ![k] = [guc[k] EXCEPT !.user = u]]
        /\ UNCHANGED <<role, token>>
    BY <1>1, <1>13 DEF Tenants!SetCurrentUser, tenantTypes
  <2>3. task' = [task EXCEPT ![t] = new]
    BY <1>1, <1>13 DEF Tenants!SetCurrentUser, tenantTypes
  <2>4. /\ new \in Request /\ Placed(new) /\ new.first = k /\ new.second = NoConn
        /\ new.kind = "request" /\ task[t].kind = "request"
    BY <1>2, <1>13, <2>1 DEF Tenants!SetCurrentUser, Request, Placed
  <2>5. [guc[k] EXCEPT !.user = u] = Tenants!Applied(Tenants!Clean, new)
    BY <1>2, <2>1, <2>4 DEF Tenants!Applied, Tenants!Clean, Request
  <2>6. [guc[k] EXCEPT !.user = u] \in Tenants!TransactionSettings
    <3>1. guc[k] \in Tenants!TransactionSettings
      BY <1>1, <2>1 DEF tenantTypes
    <3> HIDE DEF k
    <3> QED BY <3>1 DEF Tenants!TransactionSettings
  <2> HIDE DEF new, k
  <2>7. guc' \in Typed /\ Settled(guc', new)
    BY <1>1, <2>1, <2>2, <2>4, <2>5, <2>6 DEF tenantTypes, Settled
  <2>8. \A j \in Tenants!Conns : /\ Holds(new, j) => Holds(task[t], j)
                                 /\ Holds(task[t], j) => Holds(new, j)
                                 /\ j # k => guc'[j] = guc[j]
                                 /\ Holds(new, k)
    BY <1>1, <2>1, <2>2, <2>4 DEF Holds, tenantTypes, k
  <2>9. \A j \in Tenants!Conns : ~Holds(new, j) =>
          guc'[j] = IF Holds(task[t], j) THEN Tenants!Clean ELSE guc[j]
    BY <2>8
  <2> QED BY <2>2, <2>3, <2>4, <2>7, <2>8, <2>9, OneRequest
<1>14. ASSUME NEW t \in Tasks, Tenants!AskAudit(t)
       PROVE  TenantInv'
  <2> DEFINE new == [task[t] EXCEPT !.stage = "audit_waiting"]
  <2>1. task' = [task EXCEPT ![t] = new] /\ UNCHANGED <<role, token, guc>>
    BY <1>1, <1>14 DEF Tenants!AskAudit, tenantTypes
  <2>2. /\ new \in Request /\ Placed(new)
        /\ new.first = task[t].first /\ new.second = task[t].second
        /\ new.who = task[t].who /\ new.club = task[t].club
        /\ new.claim = task[t].claim /\ new.kind = task[t].kind
    BY <1>2, <1>14 DEF Tenants!AskAudit, Request, Tenants!Stages, Placed
  <2> HIDE DEF new
  <2> QED BY <2>1, <2>2, SameConnections
<1>15. ASSUME NEW t \in Tasks, NEW k \in AppConns, Tenants!BeginAudit(t, k)
       PROVE  TenantInv'
  <2> DEFINE new == [task[t] EXCEPT !.stage = "auditing", !.second = k]
             mine == [Tenants!Clean EXCEPT !.user = task[t].who]
  <2>1. /\ k \in Tenants!Conns /\ k # NoConn
        /\ \A u \in Tasks : ~Holds(task[u], k)
        /\ guc[k] = Tenants!Clean
        /\ task[t].stage = "audit_waiting" /\ task[t].second = NoConn
    BY <1>2, <1>15 DEF Tenants!BeginAudit, Tenants!Busy, Holds, TenantInv, Tenants!Conns, Placed
  <2>2. guc' = [guc EXCEPT ![k] = mine] /\ UNCHANGED <<role, token>>
    BY <1>1, <1>15, <2>1 DEF Tenants!BeginAudit, tenantTypes
  <2>3. task' = [task EXCEPT ![t] = new]
    BY <1>1, <1>15 DEF Tenants!BeginAudit, tenantTypes
  <2>4. k # task[t].first
    BY <2>1 DEF Holds
  <2>5. /\ new \in Request /\ new.first = task[t].first /\ new.second = k
        /\ new.stage = "auditing" /\ new.kind = task[t].kind
        /\ new.who = task[t].who /\ new.club = task[t].club /\ new.claim = task[t].claim
    BY <1>2, <2>1 DEF Request, Tenants!Stages
  <2>6. Placed(new)
    BY <1>2, <2>1, <2>4, <2>5 DEF Placed
  <2>7. mine \in Tenants!TransactionSettings
    BY <1>2 DEF Tenants!Clean, Request, Tenants!TransactionSettings
  <2>8. guc' \in Typed
    BY <1>1, <2>2, <2>7 DEF tenantTypes
  <2>9. \A j \in Tenants!Conns : j # k => guc'[j] = guc[j]
    BY <1>1, <2>2 DEF tenantTypes
  <2>10. Settled(guc', new)
    <3>1. guc'[k] = mine
      BY <1>1, <2>1, <2>2 DEF tenantTypes
    <3>2. new.first # NoConn => new.first \in Tenants!Conns
      BY <2>5 DEF Request
    <3> HIDE DEF new
    <3>3. Tenants!Applied(Tenants!Clean, new) = Tenants!Applied(Tenants!Clean, task[t])
      BY <2>5 DEF Tenants!Applied
    <3> QED BY <1>2, <2>4, <2>5, <2>9, <3>1, <3>2, <3>3 DEF Settled
  <2> HIDE DEF new
  <2>11. \A j \in Tenants!Conns : /\ Holds(new, j) => Holds(task[t], j) \/ j = k
                                  /\ Holds(task[t], j) => Holds(new, j)
                                  /\ ~Holds(new, j) => guc'[j] = guc[j]
    BY <2>1, <2>5, <2>9 DEF Holds, Tenants!Conns
  <2>12. \A j \in Tenants!Conns : ~Holds(new, j) =>
           guc'[j] = IF Holds(task[t], j) THEN Tenants!Clean ELSE guc[j]
    BY <2>11
  <2>13. \A j \in Tenants!Conns : Holds(new, j) =>
           Holds(task[t], j) \/ \A u \in Tasks : ~Holds(task[u], j)
    BY <2>1, <2>11
  <2> QED BY <2>2, <2>3, <2>5, <2>6, <2>8, <2>10, <2>12, <2>13, OneRequest
<1>16. ASSUME NEW t \in Tasks, Tenants!AuditGivesUp(t)
       PROVE  TenantInv'
  <2> DEFINE new == [task[t] EXCEPT !.stage = "written"]
  <2>1. task' = [task EXCEPT ![t] = new] /\ UNCHANGED <<role, token, guc>>
    BY <1>1, <1>16 DEF Tenants!AuditGivesUp, tenantTypes
  <2>2. /\ new \in Request /\ Placed(new)
        /\ new.first = task[t].first /\ new.second = task[t].second
        /\ new.who = task[t].who /\ new.club = task[t].club
        /\ new.claim = task[t].claim /\ new.kind = task[t].kind
    BY <1>2, <1>16 DEF Tenants!AuditGivesUp, Request, Tenants!Stages, Placed
  <2> HIDE DEF new
  <2> QED BY <2>1, <2>2, SameConnections
<1>17. ASSUME NEW t \in Tasks, Tenants!EndAudit(t)
       PROVE  TenantInv'
  <2> DEFINE new == [task[t] EXCEPT !.stage = "written", !.second = NoConn]
             k == task[t].second
  <2>1. /\ k \in Tenants!Conns /\ k # NoConn /\ k # task[t].first
        /\ task[t].stage = "auditing"
    BY <1>2, <1>17 DEF Tenants!EndAudit, Tenants!Conns, Placed
  <2>2. guc' = [guc EXCEPT ![k] = Tenants!Clean] /\ UNCHANGED <<role, token>>
    BY <1>1, <1>17 DEF Tenants!EndAudit, Tenants!Ended, tenantTypes
  <2>3. task' = [task EXCEPT ![t] = new]
    BY <1>1, <1>17 DEF Tenants!EndAudit, tenantTypes
  <2>4. /\ new \in Request /\ new.first = task[t].first /\ new.second = NoConn
        /\ new.stage = "written" /\ new.kind = task[t].kind
        /\ new.who = task[t].who /\ new.club = task[t].club /\ new.claim = task[t].claim
    BY <1>2, <2>1 DEF Request, Tenants!Stages
  <2>5. Placed(new)
    BY <1>2, <2>1, <2>4 DEF Placed
  <2>6. Tenants!Clean \in Tenants!TransactionSettings
    BY DEF Tenants!Clean, Tenants!TransactionSettings
  <2> HIDE DEF new, k
  <2>7. guc' \in Typed /\ guc'[k] = Tenants!Clean
        /\ \A j \in Tenants!Conns : j # k => guc'[j] = guc[j]
    BY <1>1, <2>1, <2>2, <2>6 DEF tenantTypes
  <2>8. Settled(guc', new)
    <3>1. Tenants!Applied(Tenants!Clean, new) = Tenants!Applied(Tenants!Clean, task[t])
      BY <2>4 DEF Tenants!Applied
    <3>2. task[t].first # NoConn => task[t].first \in Tenants!Conns
      BY <1>2 DEF Request
    <3> QED BY <1>2, <2>1, <2>4, <2>7, <3>1, <3>2 DEF Settled
  <2>9. \A j \in Tenants!Conns : /\ Holds(new, j) => Holds(task[t], j)
                                 /\ Holds(task[t], j) <=> j \in {task[t].first, k}
                                 /\ Holds(new, j) <=> j = task[t].first
    BY <2>4 DEF Holds, k, Tenants!Conns
  <2>10. \A j \in Tenants!Conns : ~Holds(new, j) =>
           guc'[j] = IF Holds(task[t], j) THEN Tenants!Clean ELSE guc[j]
    BY <2>7, <2>9
  <2> QED BY <2>2, <2>3, <2>4, <2>5, <2>7, <2>8, <2>9, <2>10, OneRequest
<1>18. ASSUME NEW t \in Tasks, Tenants!End(t)
       PROVE  TenantInv'
  <2> DEFINE k == task[t].first
  <2>1. k \in Tenants!Conns /\ k # NoConn /\ task[t].second = NoConn
    BY <1>2, <1>18 DEF Tenants!End, Tenants!Conns, Placed
  <2>2. guc' = [guc EXCEPT ![k] = Tenants!Clean] /\ UNCHANGED <<role, token>>
    BY <1>1, <1>18 DEF Tenants!End, Tenants!Ended, tenantTypes
  <2>3. task' = [task EXCEPT ![t] = Tenants!Idle]
    BY <1>18 DEF Tenants!End
  <2>4. Tenants!Clean \in Tenants!TransactionSettings
    BY DEF Tenants!Clean, Tenants!TransactionSettings
  <2>5. \A j \in Tenants!Conns : ~Holds(Tenants!Idle, j) /\ (Holds(task[t], j) <=> j = k)
    BY <2>1 DEF Holds, Tenants!Idle, Tenants!Conns
  <2> HIDE DEF k
  <2>6. guc' \in Typed /\ guc'[k] = Tenants!Clean
        /\ \A j \in Tenants!Conns : j # k => guc'[j] = guc[j]
    BY <1>1, <2>1, <2>2, <2>4 DEF tenantTypes
  <2>7. Settled(guc', Tenants!Idle)
    BY DEF Settled, Tenants!Idle
  <2>8. \A j \in Tenants!Conns : guc'[j] = IF Holds(task[t], j) THEN Tenants!Clean ELSE guc[j]
    BY <2>5, <2>6
  <2> QED BY <1>3, <2>2, <2>3, <2>5, <2>6, <2>7, <2>8, OneRequest
<1>19. UNCHANGED tenantVars \/ Tenants!Next
  BY DEF OfficeNext, catalogueVars, tenantVars, workerVars, officeVars
<1> QED
  BY <1>4, <1>5, <1>6, <1>7, <1>8, <1>9, <1>10, <1>11, <1>12, <1>13, <1>14, <1>15, <1>16, <1>17,
     <1>18, <1>19 DEF Tenants!Next, Tenants!Step

LEMMA TenantAlways == OfficeSpec => []TenantInv
<1>1. OfficeInit => TenantInv
  <2> SUFFICES ASSUME OfficeInit PROVE TenantInv
    OBVIOUS
  <2>1. /\ Tenants!Idle \in Request /\ Placed(Tenants!Idle) /\ Settled(guc, Tenants!Idle)
        /\ \A k \in Tenants!Conns : ~Holds(Tenants!Idle, k)
    BY OfficeAssumption DEF Tenants!Idle, Request, Tenants!Stages, Tenants!RequestKinds, Placed,
           Settled, Holds, Tenants!TenancyAssumption
  <2>2. Tenants!Clean \in Tenants!TransactionSettings
    BY DEF Tenants!Clean, Tenants!TransactionSettings
  <2> QED
    BY <2>1, <2>2 DEF OfficeInit, Tenants!Init, TenantInv, tenantTypes
<1> QED BY <1>1, TenantStep, PTL DEF OfficeSpec, officeVars

-----------------------------------------------------------------------------
\* What settings without flags open, in any role

LEMMA OwnRows ==
    ASSUME NEW g \in Tenants!TransactionSettings, g.flags = {}, NEW member,
           NEW row \in Tenants!Rows
    PROVE  /\ Tenants!Writable(g, member, row) =>
                 row.of = g.user \/ row.club = g.club \/ row.table = "auth_events"
           /\ Tenants!Readable(g, member, row) =>
                 row.of = g.user \/ row.club = g.club \/ Tenants!Public(row)
BY DEF Tenants!Writable, Tenants!Readable, Tenants!InClub, Tenants!StaffAll,
       Tenants!PaymentsStaffAll, Tenants!CustomerRead, Tenants!CustomerInsert,
       Tenants!BookingContact, Tenants!OfWorker, Tenants!CatalogueRead, Tenants!CatalogueWrite,
       Tenants!TariffsWrite, Tenants!ExpensesManage, Tenants!OwnShiftRead, Tenants!OwnOrAdmin,
       Tenants!UserTables, Tenants!StaffRoster, Tenants!MembershipsRead,
       Tenants!MembershipsWrite, Tenants!AuditRead, Tenants!AuditInsert, Tenants!JobWriter, Tenants!PlatformRead, Tenants!AvailabilityRead,
       Tenants!Public

\* A member whose claim is still true reads and writes what belongs to the rank.
LEMMA RankServes ==
    ASSUME NEW g \in Tenants!TransactionSettings, NEW m \in Tenants!Ranks, g.claim = m,
           NEW row \in Tenants!Rows, row.club = g.club
    PROVE  /\ row.table \in {"bookings", "cancelled", "guests", "orders", "payments", "stations"} =>
                 Tenants!Readable(g, m, row)
           /\ row.table \in {"memberships", "colleagues", "audit_log", "auth_events"}
                 /\ m \in Tenants!Managers => Tenants!Readable(g, m, row)
           /\ row.table \in Tenants!UserTables /\ row.of = g.user => Tenants!Readable(g, m, row)
           /\ row.table \in {"expenses", "shifts", "movements"}
                 /\ (m \in Tenants!Managers \/ row.of = g.user) => Tenants!Readable(g, m, row)
           /\ row.table \in {"bookings", "cancelled", "orders", "payments"} =>
                 Tenants!Writable(g, m, row)
           /\ row.table \in {"stations", "expenses"} /\ m \in Tenants!Managers =>
                 Tenants!Writable(g, m, row)
           /\ row.table \in {"shifts", "movements"}
                 /\ (m \in Tenants!Managers \/ row.of = g.user) => Tenants!Writable(g, m, row)
BY DEF Tenants!Writable, Tenants!Readable, Tenants!InClub, Tenants!StaffAll,
       Tenants!PaymentsStaffAll, Tenants!BookingContact, Tenants!CatalogueRead,
       Tenants!CatalogueWrite, Tenants!ExpensesManage, Tenants!OwnShiftRead, Tenants!OwnOrAdmin,
       Tenants!UserTables, Tenants!CustomerRead, Tenants!StaffRoster, Tenants!MembershipsRead,
       Tenants!AuditRead

\* The gates of the routes fit what they read and write; the cash desk alone is for the
\* rows of one cashier.
LEMMA RouteGates ==
    ASSUME NEW route \in Tenants!ClubRoutes
    PROVE  /\ route.gate \in {Tenants!Ranks, Tenants!Managers}
           /\ "jobs" \notin route.reads
           /\ route.reads \subseteq Tenants!Tables
           /\ route.reads \intersect {"memberships", "audit_log", "auth_events"} # {} =>
                 route.gate = Tenants!Managers
           /\ route.reads \intersect {"expenses", "shifts", "movements"} # {} =>
                 route.gate = Tenants!Managers \/ route = Tenants!CashDesk
           /\ route.writes \subseteq {"bookings", "cancelled", "orders", "payments", "stations",
                                      "expenses", "shifts", "movements"}
           /\ "stations" \in route.writes \/ "expenses" \in route.writes =>
                 route.gate = Tenants!Managers
           /\ "shifts" \in route.writes \/ "movements" \in route.writes =>
                 route = Tenants!CashDesk
<1> USE DEF Tenants!Route, Tenants!Tables, Tenants!UserTables
<1>1. CASE route \in {Tenants!OwnClub, Tenants!Timeline, Tenants!Pending, Tenants!Detail,
                      Tenants!Decisions}
  BY <1>1 DEF Tenants!OwnClub, Tenants!Timeline, Tenants!Pending, Tenants!Detail,
              Tenants!Decisions
<1>2. CASE route \in {Tenants!ManageClub, Tenants!Bar, Tenants!Till, Tenants!Live}
  BY <1>2 DEF Tenants!ManageClub, Tenants!Bar, Tenants!Till, Tenants!Live
<1>3. CASE route \in {Tenants!ManageExpenses, Tenants!Dashboard, Tenants!Roster, Tenants!Logs}
  BY <1>3 DEF Tenants!ManageExpenses, Tenants!Dashboard, Tenants!Roster, Tenants!Logs
<1>4. CASE route = Tenants!CashDesk
  <2>1. /\ route.gate = Tenants!Ranks
        /\ route.reads = {"shifts", "movements", "expenses", "payments", "colleagues",
                          "former_staff"}
        /\ route.writes = {"shifts", "movements"}
    BY <1>4 DEF Tenants!CashDesk
  <2> QED BY <1>4, <2>1
<1> QED BY <1>1, <1>2, <1>3, <1>4 DEF Tenants!ClubRoutes

\* The settings of the first connection of a request, once it has one
LEMMA FirstSettings ==
    ASSUME TenantInv, NEW t \in Tasks, task[t].first # NoConn
    PROVE  /\ task[t].first \in Tenants!Conns
           /\ guc[task[t].first] \in Tenants!TransactionSettings
           /\ task[t].kind = "platform" =>
                 task[t].first \in PlatformConns /\ guc[task[t].first].flags = {"platform"}
           /\ task[t].kind # "platform" =>
                 /\ task[t].first \in AppConns /\ task[t].first \notin PlatformConns
                 /\ guc[task[t].first].user = task[t].who
                 /\ guc[task[t].first].club = task[t].club
                 /\ guc[task[t].first].claim = task[t].claim
                 /\ guc[task[t].first].flags = {}
<1>1. Placed(task[t]) /\ Settled(guc, task[t]) /\ task[t] \in Request
  BY DEF TenantInv, tenantTypes
<1>2. task[t].first \in Tenants!Conns
  BY <1>1 DEF Request
<1>3. guc[task[t].first] = Tenants!Applied(Tenants!Clean, task[t])
  BY <1>1 DEF Settled
<1>4. guc[task[t].first] \in Tenants!TransactionSettings
  BY <1>2 DEF TenantInv, tenantTypes
<1>5. task[t].kind = "platform" => guc[task[t].first].flags = {"platform"}
  BY <1>3 DEF Tenants!Applied, Tenants!Clean
<1>6. task[t].kind # "platform" =>
        /\ guc[task[t].first].user = task[t].who
        /\ guc[task[t].first].club = task[t].club
        /\ guc[task[t].first].claim = task[t].claim
        /\ guc[task[t].first].flags = {}
  BY <1>3 DEF Tenants!Applied, Tenants!Clean
<1>7. task[t].first \in IF task[t].kind = "platform" THEN PlatformConns ELSE AppConns
  BY <1>1 DEF Placed
<1> QED
  BY <1>2, <1>4, <1>5, <1>6, <1>7, OfficeAssumption DEF Tenants!TenancyAssumption

\* The audit connection knows who acts, and nothing else.
LEMMA SecondSettings ==
    ASSUME TenantInv, NEW t \in Tasks, task[t].second # NoConn
    PROVE  /\ task[t].second \in Tenants!Conns
           /\ guc[task[t].second] \in Tenants!TransactionSettings
           /\ guc[task[t].second].user = task[t].who
           /\ guc[task[t].second].club = NoClub
           /\ guc[task[t].second].flags = {}
<1>1. Settled(guc, task[t]) /\ task[t] \in Request
  BY DEF TenantInv, tenantTypes
<1>2. task[t].second \in Tenants!Conns
  BY <1>1 DEF Request
<1>3. guc[task[t].second] = [Tenants!Clean EXCEPT !.user = task[t].who]
  BY <1>1 DEF Settled
<1>4. /\ guc[task[t].second].user = task[t].who
      /\ guc[task[t].second].club = NoClub
      /\ guc[task[t].second].flags = {}
  BY <1>3 DEF Tenants!Clean
<1> QED BY <1>2, <1>4 DEF TenantInv, tenantTypes

LEMMA TenantInItsClub ==
    ASSUME TenantInv
    PROVE  Tenants!InsideOwnClub
<1> DEFINE u(t) == task[t].who
<1>1. ASSUME NEW t \in Tasks, NEW k \in Tenants!Held(t)
      PROVE  k \in {task[t].first, task[t].second} /\ k # NoConn
  BY <1>1 DEF Tenants!Held
<1>2. ASSUME NEW t \in Tasks, NEW k \in Tenants!Held(t), NEW row \in Tenants!Rows,
             row \in Tenants!Writes(k, task[t].who)
      PROVE  \/ row.of = task[t].who
             \/ k = task[t].first /\ row.club = task[t].club
             \/ row.table = "auth_events"
  <2>1. k \notin PlatformConns /\ Tenants!Writable(guc[k], Tenants!Member(task[t].who, guc[k].club), row)
    BY <1>2 DEF Tenants!Writes
  <2>2. CASE k = task[t].first
    BY <1>1, <2>1, <2>2, FirstSettings, OwnRows
  <2>3. CASE k = task[t].second
    <3>1. row.club # NoClub
      BY OfficeAssumption DEF Tenants!Rows, Tenants!TenancyAssumption, Tenants!PoliciesAssumption
    <3> QED BY <1>1, <2>1, <2>3, <3>1, SecondSettings, OwnRows
  <2> QED BY <1>1, <1>2, <2>2, <2>3
<1>3. ASSUME NEW t \in Tasks, NEW k \in Tenants!Held(t), task[t].kind # "platform",
             NEW row \in Tenants!Rows, row \in Tenants!Reads(k, task[t].who)
      PROVE  \/ row.of = task[t].who
             \/ k = task[t].first /\ row.club = task[t].club
             \/ Tenants!Public(row)
  <2>1. Tenants!Readable(guc[k], Tenants!Member(task[t].who, guc[k].club), row)
    BY <1>3 DEF Tenants!Reads
  <2>2. CASE k = task[t].first
    BY <1>1, <1>3, <2>1, <2>2, FirstSettings, OwnRows
  <2>3. CASE k = task[t].second
    <3>1. row.club # NoClub
      BY OfficeAssumption DEF Tenants!Rows, Tenants!TenancyAssumption, Tenants!PoliciesAssumption
    <3> QED BY <1>1, <2>1, <2>3, <3>1, SecondSettings, OwnRows
  <2> QED BY <1>1, <1>3, <2>2, <2>3
<1>4. \A t \in Tasks : \A k \in Tenants!Held(t) :
        /\ Tenants!Writes(k, task[t].who) \subseteq Tenants!Rows
        /\ Tenants!Reads(k, task[t].who) \subseteq Tenants!Rows
  BY DEF Tenants!Writes, Tenants!Reads
<1> QED BY <1>2, <1>3, <1>4 DEF Tenants!InsideOwnClub

LEMMA TenantSeesAll ==
    ASSUME TenantInv
    PROVE  Tenants!NoBlindSpot
<1> SUFFICES ASSUME NEW t \in Tasks, task[t].first # NoConn
             PROVE
      LET r == task[t]
          k == r.first
          reads == Tenants!Reads(k, r.who)
          writes == Tenants!Writes(k, r.who)
      IN  /\ r.club # NoClub /\ r.claim = Tenants!Member(r.who, r.club) =>
                 \A route \in Tenants!ClubRoutes : r.claim \in route.gate =>
                     /\ Tenants!Needed(route.reads, route, r.who, r.club, r.claim) \subseteq reads
                     /\ Tenants!Needed(route.writes, route, r.who, r.club, r.claim) \subseteq writes
          /\ r.kind = "request" /\ r.club = NoClub => Tenants!NeededOutside(r.who) \subseteq reads
          /\ r.kind = "platform" =>
                 {row \in Tenants!Rows : row.table \in Tenants!PlatformTables} \subseteq reads
  BY DEF Tenants!NoBlindSpot
<1> DEFINE k == task[t].first
           g == guc[k]
<1>1. task[t].kind # "request" => task[t].club = NoClub
  BY DEF TenantInv, Placed
<1>2. ASSUME task[t].club # NoClub, task[t].claim = Tenants!Member(task[t].who, task[t].club),
             NEW route \in Tenants!ClubRoutes, task[t].claim \in route.gate
      PROVE  /\ Tenants!Needed(route.reads, route, task[t].who, task[t].club, task[t].claim)
                    \subseteq Tenants!Reads(k, task[t].who)
             /\ Tenants!Needed(route.writes, route, task[t].who, task[t].club, task[t].claim)
                    \subseteq Tenants!Writes(k, task[t].who)
  <2> DEFINE m == task[t].claim
  <2>1. /\ g \in Tenants!TransactionSettings /\ k \notin PlatformConns
        /\ g.user = task[t].who /\ g.club = task[t].club /\ g.claim = m
        /\ Tenants!Member(task[t].who, g.club) = m
    BY <1>1, <1>2, FirstSettings
  <2>2. m \in Tenants!Ranks
    BY <1>2, RouteGates DEF Tenants!Ranks
  <2>3. m \notin Tenants!Managers => m = "STAFF"
    BY <2>2 DEF Tenants!Ranks
  <2>4. ASSUME NEW row \in Tenants!Needed(route.reads, route, task[t].who, task[t].club, m)
        PROVE  row \in Tenants!Reads(k, task[t].who)
    <3>1. /\ row \in Tenants!Rows /\ row.table \in route.reads /\ row.club = g.club
          /\ Tenants!Mine(route, task[t].who, m, row)
          /\ ~Tenants!Unknown(task[t].who, m, row)
      BY <2>1, <2>4 DEF Tenants!Needed
    <3>2. row.table \in {"memberships", "audit_log", "auth_events"} => m \in Tenants!Managers
      BY <1>2, <3>1, RouteGates
    <3>3. row.table \in {"expenses", "shifts", "movements"} =>
             m \in Tenants!Managers \/ row.of = g.user
      BY <1>2, <2>1, <2>3, <3>1, RouteGates DEF Tenants!Mine
    <3>4. row.table \in Tenants!Tables \ {"jobs"}
      BY <3>1, RouteGates
    <3>5. /\ row.table \in {"past_guests", "former_staff"} => row.of = g.user
          /\ row.table = "colleagues" => row.of = g.user \/ m \in Tenants!Managers
      BY <2>1, <2>3, <3>1 DEF Tenants!Unknown
    <3>6. Tenants!Readable(g, m, row)
      BY <2>1, <2>2, <3>1, <3>2, <3>3, <3>4, <3>5, RankServes DEF Tenants!Tables, Tenants!UserTables
    <3> QED BY <2>1, <3>1, <3>6 DEF Tenants!Reads
  <2>5. ASSUME NEW row \in Tenants!Needed(route.writes, route, task[t].who, task[t].club, m)
        PROVE  row \in Tenants!Writes(k, task[t].who)
    <3>1. /\ row \in Tenants!Rows /\ row.table \in route.writes /\ row.club = g.club
          /\ Tenants!Mine(route, task[t].who, m, row)
      BY <2>1, <2>5 DEF Tenants!Needed
    <3>2. row.table \in {"stations", "expenses"} => m \in Tenants!Managers
      BY <1>2, <3>1, RouteGates
    <3>3. row.table \in {"shifts", "movements"} => m \in Tenants!Managers \/ row.of = g.user
      BY <1>2, <2>1, <2>3, <3>1, RouteGates DEF Tenants!Mine
    <3>4. row.table \in {"bookings", "cancelled", "orders", "payments", "stations", "expenses",
                         "shifts", "movements"}
      BY <3>1, RouteGates
    <3>5. Tenants!Writable(g, m, row)
      BY <2>1, <2>2, <3>1, <3>2, <3>3, <3>4, RankServes
    <3> QED BY <2>1, <3>1, <3>5 DEF Tenants!Writes
  <2> QED BY <2>4, <2>5
<1>3. ASSUME task[t].kind = "request", task[t].club = NoClub
      PROVE  Tenants!NeededOutside(task[t].who) \subseteq Tenants!Reads(k, task[t].who)
  <2>1. g.user = task[t].who
    BY <1>3, FirstSettings
  <2> QED
    BY <2>1 DEF Tenants!NeededOutside, Tenants!Shop, Tenants!Calendar, Tenants!MyBookings,
        Tenants!MyStats, Tenants!Reads, Tenants!Readable, Tenants!AvailabilityRead,
        Tenants!CustomerRead, Tenants!CatalogueRead
<1>4. ASSUME task[t].kind = "platform"
      PROVE  {row \in Tenants!Rows : row.table \in Tenants!PlatformTables}
                 \subseteq Tenants!Reads(k, task[t].who)
  <2>1. "platform" \in g.flags
    BY <1>4, FirstSettings
  <2> QED
    BY <2>1 DEF Tenants!PlatformTables, Tenants!PlatformStats, Tenants!Organizations,
        Tenants!OrganizationDetail, Tenants!PlatformLogs, Tenants!JobRuns, Tenants!UserTables,
        Tenants!Reads,
        Tenants!Readable, Tenants!PlatformRead
<1> QED BY <1>2, <1>3, <1>4

\* Whoever had the connection before, a transaction opens the rows of its own club and of
\* its own person only: each settles what it needs, and what it settles ends with it
\* (_apply_context, log_action, club_scope).
THEOREM NobodyElsesRows == OfficeSpec => []InsideOwnClub
<1>1. WorkerInv /\ TenantInv => InsideOwnClub
  BY WorkerInItsClub, TenantInItsClub DEF InsideOwnClub
<1> QED BY <1>1, WorkerAlways, TenantAlways, PTL

\* No handler misses rows in silence: what the gate of a route admits, the policies of the
\* tables it works on serve, while the role of the token still is the role of the table; but
\* for the persons of Unknown, who have left or had their bookings cancelled.
THEOREM NothingHidden == OfficeSpec => []NoBlindSpot
<1>1. TenantInv => NoBlindSpot
  BY TenantSeesAll DEF NoBlindSpot
<1> QED BY <1>1, TenantAlways, PTL

-----------------------------------------------------------------------------
\* Catalogue: a station always stands in a room that exists (the foreign key of 0037), and
\* the room it stands in is the only one of its name.

CatalogueInv ==
    /\ Catalogues!TypeOK
    /\ \A s \in Catalogues!Stations : station[s].room \in Catalogues!Rooms

\* An upsert leaves the rooms there are as they are and makes the room of its id.
LEMMA UpsertKeeps ==
    ASSUME CatalogueInv, NEW label \in Names, NEW r \in RoomIds,
           room' = Catalogues!Upserted(label, r)
    PROVE  /\ room' \in [RoomIds -> Catalogues!Room \union {Catalogues!NoRow}]
           /\ room'[r] # Catalogues!NoRow
           /\ \A q \in Catalogues!Rooms : room'[q] = room[q] /\ room'[q] # Catalogues!NoRow
<1> DEFINE new == [status |-> "active", name |-> label, kind |-> label]
<1>1. new \in Catalogues!Room /\ new # Catalogues!NoRow
  BY DEF Catalogues!Room, Catalogues!NoRow
<1>2. room' = IF room[r] = Catalogues!NoRow THEN [room EXCEPT ![r] = new] ELSE room
  BY DEF Catalogues!Upserted
<1> HIDE DEF new
<1> QED BY <1>1, <1>2 DEF CatalogueInv, Catalogues!TypeOK, Catalogues!Rooms

\* The room a station is saved with is the one it stands in, if that bears the label.
LEMMA OneRoomOfAName ==
    ASSUME CatalogueInv, NEW s \in Catalogues!Stations, NEW label \in Names, NEW r \in RoomIds,
           Catalogues!Resolved(label, r), room[station[s].room].name = label
    PROVE  r = station[s].room /\ r \in Catalogues!Rooms
BY DEF CatalogueInv, Catalogues!Resolved, Catalogues!Taken, Catalogues!Rooms

\* Saving station s in room r
LEMMA SavedStation ==
    ASSUME CatalogueInv, NEW s \in StationIds, NEW label \in Names, NEW r \in RoomIds,
           NEW st \in {"active", "maintenance"}, room' = Catalogues!Upserted(label, r),
           station' = [station EXCEPT ![s] = [status |-> st, label |-> label, room |-> r]],
           UNCHANGED <<status, publishing>>
    PROVE  CatalogueInv'
<1> DEFINE new == [status |-> st, label |-> label, room |-> r]
<1>1. new \in Catalogues!Station /\ new.room = r
  BY DEF Catalogues!Station
<1> HIDE DEF new
<1>2. station' = [station EXCEPT ![s] = new]
  BY DEF new
<1>3. Catalogues!TypeOK'
  BY <1>1, <1>2, UpsertKeeps DEF CatalogueInv, Catalogues!TypeOK
<1>4. ASSUME NEW z \in StationIds, station'[z] # Catalogues!NoRow
      PROVE  /\ station'[z].room \in RoomIds
             /\ room'[station'[z].room] # Catalogues!NoRow
  <2>1. CASE z = s
    BY <1>1, <1>2, <2>1, UpsertKeeps DEF CatalogueInv, Catalogues!TypeOK
  <2>2. CASE z # s
    <3>1. station'[z] = station[z] /\ z \in Catalogues!Stations
      BY <1>2, <1>4, <2>2 DEF CatalogueInv, Catalogues!TypeOK, Catalogues!Stations
    <3>2. station[z].room \in Catalogues!Rooms
      BY <3>1 DEF CatalogueInv
    <3> QED BY <3>1, <3>2, UpsertKeeps DEF Catalogues!Rooms
  <2> QED BY <2>1, <2>2
<1> QED BY <1>3, <1>4 DEF CatalogueInv, Catalogues!Stations, Catalogues!Rooms

\* The action of KindFollowsRoom for one station
KindExplained(s) ==
    \/ room'[station'[s].room].kind = room[station[s].room].kind
    \/ /\ station'[s].room = station[s].room
       /\ room[station[s].room].kind # room'[station[s].room].kind
    \/ station'[s].label # station[s].label
    \/ room[station[s].room].name # station[s].label

LEMMA CatalogueStep ==
    ASSUME CatalogueInv, [OfficeNext]_officeVars
    PROVE  CatalogueInv' /\ \A s \in Catalogues!Stations : KindExplained(s)
<1>1. CASE UNCHANGED catalogueVars
  BY <1>1 DEF catalogueVars, CatalogueInv, Catalogues!TypeOK, Catalogues!Stations,
     Catalogues!Rooms, KindExplained
<1>2. ASSUME NEW r \in RoomIds, NEW new \in Catalogues!Room,
             room' = [room EXCEPT ![r] = new], UNCHANGED <<station, status, publishing>>
      PROVE  CatalogueInv' /\ \A s \in Catalogues!Stations : KindExplained(s)
  <2>1. new # Catalogues!NoRow
    BY DEF Catalogues!Room, Catalogues!NoRow
  <2>2. CatalogueInv'
    BY <1>2, <2>1 DEF CatalogueInv, Catalogues!TypeOK, Catalogues!Stations, Catalogues!Rooms
  <2>3. \A s \in Catalogues!Stations : station'[s] = station[s]
    BY <1>2
  <2> QED BY <2>2, <2>3 DEF KindExplained
<1>3. ASSUME NEW r \in RoomIds, NEW n \in Names, NEW k \in Names, Catalogues!CreateRoom(r, n, k)
      PROVE  CatalogueInv' /\ \A s \in Catalogues!Stations : KindExplained(s)
  <2>1. [status |-> "active", name |-> n, kind |-> k] \in Catalogues!Room
    BY DEF Catalogues!Room
  <2> QED BY <1>2, <1>3, <2>1 DEF Catalogues!CreateRoom
<1>4. ASSUME NEW r \in RoomIds, NEW n \in Names, NEW k \in Names,
             NEW st \in {"active", "archived"}, Catalogues!UpdateRoom(r, n, k, st)
      PROVE  CatalogueInv' /\ \A s \in Catalogues!Stations : KindExplained(s)
  <2>1. [status |-> st, name |-> n, kind |-> k] \in Catalogues!Room
    BY DEF Catalogues!Room
  <2> QED BY <1>2, <1>4, <2>1 DEF Catalogues!UpdateRoom
<1>5. ASSUME NEW z \in StationIds, NEW l \in Names, NEW r \in RoomIds,
             Catalogues!CreateStation(z, l, r)
      PROVE  CatalogueInv' /\ \A s \in Catalogues!Stations : KindExplained(s)
  <2>1. CatalogueInv'
    BY <1>5, SavedStation DEF Catalogues!CreateStation
  <2>2. ASSUME NEW s \in Catalogues!Stations PROVE KindExplained(s)
    <3>1. station'[s] = station[s]
      BY <1>5 DEF Catalogues!CreateStation, Catalogues!Stations, CatalogueInv, Catalogues!TypeOK
    <3>2. room'[station[s].room] = room[station[s].room]
      BY <1>5, UpsertKeeps DEF Catalogues!CreateStation, CatalogueInv
    <3> QED BY <3>1, <3>2 DEF KindExplained
  <2> QED BY <2>1, <2>2
<1>6. ASSUME NEW z \in StationIds, NEW l \in Names, NEW r \in RoomIds,
             NEW st \in {"active", "maintenance"}, Catalogues!UpdateStation(z, l, r, st)
      PROVE  CatalogueInv' /\ \A s \in Catalogues!Stations : KindExplained(s)
  <2>1. CatalogueInv'
    BY <1>6, SavedStation DEF Catalogues!UpdateStation
  <2>2. ASSUME NEW s \in Catalogues!Stations PROVE KindExplained(s)
    <3>1. room'[station[s].room] = room[station[s].room]
      BY <1>6, UpsertKeeps DEF Catalogues!UpdateStation, CatalogueInv
    <3>2. CASE s # z
      <4>1. station'[s] = station[s]
        BY <1>6, <3>2 DEF Catalogues!UpdateStation, Catalogues!Stations, CatalogueInv,
           Catalogues!TypeOK
      <4> QED BY <3>1, <4>1 DEF KindExplained
    <3>3. CASE s = z
      <4>1. station'[s].label = l /\ station'[s].room = r
        BY <1>6, <3>3 DEF Catalogues!UpdateStation, CatalogueInv, Catalogues!TypeOK
      <4>2. CASE room[station[s].room].name = station[s].label /\ station[s].label = l
        <5>1. r = station[s].room
          BY <1>6, <4>2, OneRoomOfAName DEF Catalogues!UpdateStation
        <5> QED BY <3>1, <4>1, <5>1 DEF KindExplained
      <4> QED BY <4>1, <4>2 DEF KindExplained
    <3> QED BY <3>2, <3>3
  <2> QED BY <2>1, <2>2
<1>7. CASE Catalogues!PostPublish \/ Catalogues!ClubPublishWrite \/ Catalogues!Abort
  BY <1>7 DEF Catalogues!PostPublish, Catalogues!ClubPublishRead, Catalogues!ClubPublishWrite,
     Catalogues!Abort, CatalogueInv, Catalogues!TypeOK, Catalogues!Stations, Catalogues!Rooms,
     KindExplained
<1>8. UNCHANGED catalogueVars \/ Catalogues!Next
  BY DEF OfficeNext, catalogueVars, tenantVars, workerVars, officeVars
<1> QED
  BY <1>1, <1>3, <1>4, <1>5, <1>6, <1>7, <1>8 DEF Catalogues!Next, Catalogues!PostRoom,
     Catalogues!PatchRoom, Catalogues!PostStation, Catalogues!PatchStation

LEMMA CatalogueAlways == OfficeSpec => []CatalogueInv
<1>1. OfficeInit => CatalogueInv
  BY DEF OfficeInit, Catalogues!Init, CatalogueInv, Catalogues!TypeOK, Catalogues!Stations
<1> QED BY <1>1, CatalogueStep, PTL DEF OfficeSpec, officeVars

\* Whatever rooms are renamed, archived and made, a saved station keeps the kind of room it
\* is priced by, unless its label is changed or was behind its room's name already.
THEOREM PricedAsBefore == OfficeSpec => KindFollowsRoom
<1>1. CatalogueInv /\ [OfficeNext]_officeVars
        => [\A s \in Catalogues!Stations :
               Catalogues!KindOf(s)' # Catalogues!KindOf(s) =>
                   \/ /\ station'[s].room = station[s].room
                      /\ room[station[s].room].kind # room'[station[s].room].kind
                   \/ station'[s].label # station[s].label
                   \/ room[station[s].room].name # station[s].label]_(Catalogues!vars)
  BY CatalogueStep DEF KindExplained, Catalogues!KindOf
<1> QED
  BY <1>1, CatalogueAlways, PTL
     DEF OfficeSpec, officeVars, KindFollowsRoom, Catalogues!KindFollowsRoom

-----------------------------------------------------------------------------
\* Accounts: the staff of the office run by themselves.

StaffProofs == INSTANCE AccountsProofs WITH
    Requests <- Tasks, user <- account, org <- firm, token <- badge, req <- desk

LEMMA StaffMoves == Staff!Next => StaffProofs!Next
BY DEF
     Staff!Next, Staff!OwnerSignup, Staff!SignupCommit, Staff!CreateStaff, Staff!AssignPassword,
     Staff!UpdateStaff, Staff!UpdateCommit, Staff!DeactivateStaff, Staff!DeactivateCommit,
     Staff!ResetPassword, Staff!MayReset, Staff!ResetCommit, Staff!Abort, Staff!StaffLogin,
     Staff!Expire, Staff!ChangePassword, Staff!UpdateOrganization, Staff!NoUser, Staff!Ranks,
     Staff!User, Staff!Idle, Staff!Free, Staff!Become, Staff!Exists, Staff!Member, Staff!RoleIn,
     Staff!Fresh, Staff!Admits, Staff!MayCreate, Staff!MayAssign, Staff!Created,
     Staff!Unassigned, Staff!Open, Staff!MayEdit, Staff!Writable, Staff!Claim, StaffProofs!Next,
     StaffProofs!OwnerSignup, StaffProofs!SignupCommit, StaffProofs!CreateStaff,
     StaffProofs!AssignPassword, StaffProofs!UpdateStaff, StaffProofs!UpdateCommit,
     StaffProofs!DeactivateStaff, StaffProofs!DeactivateCommit, StaffProofs!ResetPassword,
     StaffProofs!MayReset, StaffProofs!ResetCommit, StaffProofs!Abort, StaffProofs!StaffLogin,
     StaffProofs!Expire, StaffProofs!ChangePassword, StaffProofs!UpdateOrganization,
     StaffProofs!NoUser, StaffProofs!Ranks, StaffProofs!User, StaffProofs!Idle,
     StaffProofs!Free, StaffProofs!Become, StaffProofs!Exists, StaffProofs!Member,
     StaffProofs!RoleIn, StaffProofs!Fresh, StaffProofs!Admits, StaffProofs!MayCreate,
     StaffProofs!MayAssign, StaffProofs!Created, StaffProofs!Unassigned, StaffProofs!Open,
     StaffProofs!MayEdit, StaffProofs!Writable, StaffProofs!Claim

LEMMA StaffStep ==
    ASSUME [OfficeNext]_officeVars
    PROVE  [StaffProofs!Next]_(StaffProofs!vars)
BY StaffMoves DEF OfficeNext, officeVars, staffVars, StaffProofs!vars

LEMMA StaffAlways == OfficeSpec => []StaffProofs!IInv
<1>1. OfficeInit => StaffProofs!IInv
  BY StaffProofs!InitHolds
     DEF OfficeInit, Staff!Init, StaffProofs!Init, Staff!NoUser, StaffProofs!NoUser,
         Staff!Idle, StaffProofs!Idle
<1>2. StaffProofs!IInv /\ [OfficeNext]_officeVars => StaffProofs!IInv'
  BY StaffStep, StaffProofs!StepHolds
<1> QED BY <1>1, <1>2, PTL DEF OfficeSpec, officeVars

\* Of any number of clubs, sign-ups, creations and edits that overlap, every club keeps the
\* one owner who signed it up, and nobody has an account without a password
\* (auth_owner_signup, auth_create_staff, auth_update_staff, deactivate_staff, create_staff).
THEOREM RosterStaysSound == OfficeSpec => []RosterSound
<1>1. StaffProofs!IInv => Staff!RosterSound
  <2>1. StaffProofs!IInv => StaffProofs!RosterSound
    BY StaffProofs!OwnersAreFounders DEF StaffProofs!IInv, StaffProofs!RosterSound
  <2> QED
    BY <2>1 DEF StaffProofs!RosterSound, Staff!RosterSound, StaffProofs!TypeOK, Staff!TypeOK,
       StaffProofs!OneOwner, Staff!OneOwner, StaffProofs!NobodyWithoutPassword,
       Staff!NobodyWithoutPassword, StaffProofs!RoleIn, Staff!RoleIn, StaffProofs!Member,
       Staff!Member, StaffProofs!Exists, Staff!Exists, StaffProofs!NoUser, Staff!NoUser,
       StaffProofs!User, Staff!User, StaffProofs!Ranks, Staff!Ranks, StaffProofs!Free,
       Staff!Free, StaffProofs!Idle, Staff!Idle
<1>2. StaffProofs!IInv => RosterSound
  BY <1>1 DEF RosterSound
<1> QED BY <1>2, StaffAlways, PTL

\* An administrator is demoted or removed by a transaction with the claim of an owner, never
\* by one that began when its target was still staff: the policy on memberships is asked
\* again when the row is written (memberships_write_admin).
THEOREM CeilingStays == OfficeSpec => CeilingHolds
<1>1. StaffProofs!IInv /\ [OfficeNext]_officeVars =>
        [\A r \in Tasks :
            LET v == desk[r].user
            IN  ~Staff!Free(r) /\ desk'[r] = Staff!Idle /\ Staff!Exists(v)
                /\ account[v].role = "ADMIN"
                /\ account'[v] # account[v] /\ desk[r].op # "reset"
                    => desk[r].claim = "OWNER"]_(Staff!vars)
  BY StaffStep, StaffProofs!CeilingStep
     DEF Staff!vars, StaffProofs!vars, Staff!Free, StaffProofs!Free, Staff!Idle,
         StaffProofs!Idle, Staff!Exists, StaffProofs!Exists, Staff!NoUser, StaffProofs!NoUser
<1> QED
  BY <1>1, StaffAlways, PTL
     DEF OfficeSpec, officeVars, staffVars, CeilingHolds, Staff!CeilingHolds, Staff!vars

-----------------------------------------------------------------------------
\* Every row of the club office keeps its type.
THEOREM OfficeTypesHold == OfficeSpec => []TypesOK
<1>1. WorkerInv => Worker!TypeOK
  <2> SUFFICES ASSUME WorkerInv PROVE Worker!TypeOK
    OBVIOUS
  <2>1. /\ Worker!Clean \in Worker!TransactionSettings
        /\ Worker!JournalWriter(Worker!Clean) \in Worker!TransactionSettings
        /\ at \in Clubs => Worker!ClubScope(Worker!Clean, at) \in Worker!TransactionSettings
    BY DEF Worker!Clean, Worker!JournalWriter, Worker!ClubScope, Worker!TransactionSettings
  <2>2. workerGuc \in Worker!TransactionSettings
    BY <2>1 DEF WorkerInv, workerTypes, Scoped, Running, Worker!Stages
  <2> QED BY <2>2 DEF WorkerInv, workerTypes, Worker!TypeOK
<1>2. TenantInv => Tenants!TypeOK
  BY DEF TenantInv, tenantTypes, Request, Tenants!TypeOK
<1>3. CatalogueInv => Catalogues!TypeOK
  BY DEF CatalogueInv
<1>4. /\ WorkerInv /\ TenantInv /\ CatalogueInv => TypesOK
  BY <1>1, <1>2, <1>3 DEF TypesOK
<1> QED BY <1>4, WorkerAlways, TenantAlways, CatalogueAlways, PTL

=============================================================================
