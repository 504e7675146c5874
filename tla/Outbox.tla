------------------------------- MODULE Outbox -------------------------------
(***************************************************************************)
(* The offline queue of the staff application (apps/admin/src/offline)     *)
(* against the idempotent server of module Idempotency.                    *)
(*                                                                         *)
(* The queue lives in IndexedDB, which the tabs of a browser share; the    *)
(* flag `draining` does not, so every tab runs its own drainQueue.  Each   *)
(* await is a step boundary.  A tab has two jobs at a time: the command    *)
(* the user just gave (runCommand) and the drain; both run an executor.    *)
(* A pruned item counts as SYNCED: nothing reads either again.             *)
(*                                                                         *)
(* A tab has an active club, that of the session it shows; a command is    *)
(* for one club.  A drain reads the active club once and passes over the   *)
(* items of other clubs, the API client reads it again for the header      *)
(* X-Club-Id of every request.                                             *)
(***************************************************************************)
EXTENDS Integers, Sequences, FiniteSetsExt

CONSTANTS
    Commands,   \* ids of commands (Idempotency-Key), in the order of createdAt
    Bills,      \* the commands BILL_CLOSE, whose executor reads the bill first
    Tabs,       \* tabs of one browser
    Calls,      \* requests under way at the same time
    Bodies,     \* request bodies; a command keeps its payload
    Results,    \* answers of services
    AnswersEarly, \* see Idempotency
    Clubs,
    ClubOf      \* ClubOf[c]: the club command c is for (item.clubId)

ASSUME OutboxAssumption ==
    /\ Commands \subseteq Nat
    /\ Bills \subseteq Commands
    /\ Bodies # {}
    /\ AnswersEarly \in BOOLEAN
    /\ ClubOf \in [Commands -> Clubs]

VARIABLES
    keys, txn, effects, told, broken,  \* the server, see Idempotency
    outbox,     \* outbox[c]: the stored item, NEW before the command is given,
                \* ABSENT if it was given and nothing is stored
    conflicts,  \* ids in the store of conflicts, which the banner shows
    job,        \* job[<<w, p>>]: what tab w is doing, p the prompt or the drain
    active      \* active[w]: activeClubId of tab w

Server == INSTANCE Idempotency WITH Keys <- Commands

serverVars == <<keys, txn, effects, told, broken>>
clientVars == <<outbox, conflicts, job, active>>
vars == <<keys, txn, effects, told, broken, outbox, conflicts, job, active>>

Jobs == Tabs \X {"prompt", "drain"}

NoJob == [at |-> "idle"]

\* ripe: nextRetryAt has passed
Pending(ripe) == [status |-> "PENDING", ripe |-> ripe]

Item(status) == [status |-> status, ripe |-> FALSE]

Final == {"SYNCED", "FAILED", "CONFLICT"}

\* Put item i under id c.
Put(c, i) == outbox' = [outbox EXCEPT ![c] = i]

Become(x, j) == job' = [job EXCEPT ![x] = j]

\* The executor of command c starts; todo is what a drain has left.
Execute(c, todo) == [at |-> IF c \in Bills THEN "bill" ELSE "send", cmd |-> c, todo |-> todo]

Settle(x, event) ==
    Become(x, [at |-> "settle", cmd |-> job[x].cmd, todo |-> job[x].todo, event |-> event])

-----------------------------------------------------------------------------
\* The executor: getBill for a bill, then the request

\* The header X-Club-Id names the club of the path.
HeaderFits(x) == active[x[1]] = ClubOf[job[x].cmd]

\* 403 CLUB_MISMATCH: the routers compare both before anything else.
Mismatch(x) ==
    /\ job[x].at \in {"bill", "send"}
    /\ ~HeaderFits(x)
    /\ Settle(x, "BUSINESS_ERROR")
    /\ UNCHANGED <<serverVars, outbox, conflicts, active>>

\* getBill answers, and the bill is open with the expected total.  A closed
\* bill is an error of _load_open_booking.
BillUnchanged(x) ==
    /\ job[x].at = "bill"
    /\ HeaderFits(x)
    /\ effects[job[x].cmd] = <<>>
    /\ Become(x, [job[x] EXCEPT !.at = "send"])
    /\ UNCHANGED <<serverVars, outbox, conflicts, active>>

\* Another till closed the bill, or this command did; or the total changed.
BillChanged(x) ==
    /\ job[x].at = "bill"
    /\ HeaderFits(x)
    /\ \/ Settle(x, "BUSINESS_ERROR")
       \/ effects[job[x].cmd] = <<>> /\ Settle(x, "VERSION_CONFLICT")
    /\ UNCHANGED <<serverVars, outbox, conflicts, active>>

\* A client waits on the connection of call t.
Awaited(t) == \E x \in Jobs : job[x].at = "wait" /\ job[x].call = t

Send(x, t) ==
    /\ job[x].at = "send"
    /\ HeaderFits(x)
    /\ ~Awaited(t)
    /\ Become(x, [at |-> "wait", cmd |-> job[x].cmd, todo |-> job[x].todo, call |-> t])
    /\ Server!Arrive(t, job[x].cmd, CHOOSE b \in Bodies : TRUE)
    /\ UNCHANGED <<outbox, conflicts, active>>

\* Mutant: a 5xx counts as done.
Classify_Optimistic(reply) ==
    IF reply.ok \/ reply.code = "SERVER_ERROR" THEN "SENT_OK"
    ELSE IF reply.code = "IN_PROGRESS" THEN "NETWORK_ERROR"
    ELSE IF reply.code = "VERSION_CONFLICT" THEN "VERSION_CONFLICT" ELSE "BUSINESS_ERROR"

\* classify() and the success of send()
Classify(reply) ==
    IF reply.ok THEN "SENT_OK"
    ELSE IF reply.code \in {"SERVER_ERROR", "IN_PROGRESS"} THEN "NETWORK_ERROR"
    ELSE IF reply.code = "VERSION_CONFLICT" THEN "VERSION_CONFLICT" ELSE "BUSINESS_ERROR"

Receive(x) ==
    /\ job[x].at = "wait"
    /\ txn[job[x].call].at = "replied"
    /\ Settle(x, Classify(txn[job[x].call].reply))
    /\ Server!Deliver(job[x].call)
    /\ UNCHANGED <<outbox, conflicts, active>>

\* A success arrives whose transaction has not committed yet.
ReceiveEarly(x) ==
    /\ job[x].at = "wait"
    /\ txn[job[x].call].at = "answered"
    /\ Settle(x, "SENT_OK")
    /\ Server!DeliverEarly(job[x].call)
    /\ UNCHANGED <<outbox, conflicts, active>>

\* NetworkError, or TimeoutError after 20 s; the request may still be served.
GiveUp(x) ==
    /\ job[x].at \in {"bill", "send", "wait"}
    /\ Settle(x, "NETWORK_ERROR")
    /\ UNCHANGED <<serverVars, outbox, conflicts, active>>

-----------------------------------------------------------------------------
\* runCommand

\* Commands get their ids in the order of createdAt.
Given(c) == outbox[c].status # "NEW"

NextId(c) == ~Given(c) /\ \A d \in Commands : d < c => Given(d)

RunOffline(w, c) ==
    /\ job[<<w, "prompt">>] = NoJob
    /\ active[w] = ClubOf[c]
    /\ NextId(c)
    /\ Put(c, Pending(TRUE))
    /\ UNCHANGED <<serverVars, conflicts, job, active>>

RunOnline(w, c) ==
    /\ job[<<w, "prompt">>] = NoJob
    /\ active[w] = ClubOf[c]
    /\ NextId(c)
    /\ Put(c, Item("ABSENT"))
    /\ Become(<<w, "prompt">>, Execute(c, {}))
    /\ UNCHANGED <<serverVars, conflicts, active>>

\* Success is returned, a refusal thrown, and only a network error queued.
SettleCommand(w) ==
    LET x == <<w, "prompt">>
    IN  /\ job[x].at = "settle"
        /\ IF job[x].event = "NETWORK_ERROR" THEN Put(job[x].cmd, Pending(FALSE)) ELSE UNCHANGED outbox
        /\ Become(x, NoJob)
        /\ UNCHANGED <<serverVars, conflicts, active>>

-----------------------------------------------------------------------------
\* drainQueue

Interrupted == {c \in Commands : outbox[c].status = "SYNCING"}

StartDrain(w) ==
    /\ job[<<w, "drain">>] = NoJob
    /\ Become(<<w, "drain">>, [at |-> "recover", todo |-> Interrupted])
    /\ UNCHANGED <<serverVars, outbox, conflicts, active>>

\* Mutant: an interrupted item stays as the reload left it.
Recovered_Never(c) == outbox[c]

\* recoverInterrupted, applied to the item as it was listed
Recovered(c) == Pending(TRUE)

Recover(w) ==
    LET x == <<w, "drain">>
        c == Min(job[x].todo)
    IN  /\ job[x].at = "recover"
        /\ job[x].todo # {}
        /\ Put(c, Recovered(c))
        /\ Become(x, [job[x] EXCEPT !.todo = @ \ {c}])
        /\ UNCHANGED <<serverVars, conflicts, active>>

\* Mutant: a conflict is tried again.
Sendable_Conflict(c, club) ==
    /\ (outbox[c].status = "PENDING" /\ outbox[c].ripe) \/ outbox[c].status = "CONFLICT"
    /\ ClubOf[c] = club

\* isRetryable, nextRetryAt has passed, and the item is for the active club
Sendable(c, club) ==
    outbox[c].status = "PENDING" /\ outbox[c].ripe /\ ClubOf[c] = club

List(w) ==
    LET x == <<w, "drain">>
    IN  /\ job[x].at = "recover"
        /\ job[x].todo = {}
        /\ Become(x, [at |-> "next", todo |-> {c \in Commands : Sendable(c, active[w])}])
        /\ UNCHANGED <<serverVars, outbox, conflicts, active>>

\* attemptOne writes SYNCING over whatever is stored by now.
Attempt(w) ==
    LET x == <<w, "drain">>
        c == Min(job[x].todo)
    IN  /\ job[x].at = "next"
        /\ job[x].todo # {}
        /\ Put(c, Item("SYNCING"))
        /\ Become(x, Execute(c, job[x].todo \ {c}))
        /\ UNCHANGED <<serverVars, conflicts, active>>

\* Mutant: success is stored under the name the diagram of the comment uses.
Applied_Success(event) == Item(IF event = "SENT_OK" THEN "SUCCESS" ELSE "FAILED")

\* applyOutboxEvent
Applied(event) ==
    CASE event = "SENT_OK" -> Item("SYNCED")
      [] event = "NETWORK_ERROR" -> Pending(FALSE)
      [] event = "BUSINESS_ERROR" -> Item("FAILED")
      [] event = "VERSION_CONFLICT" -> Item("CONFLICT")

SettleItem(w) ==
    LET x == <<w, "drain">>
    IN  /\ job[x].at = "settle"
        /\ Put(job[x].cmd, Applied(job[x].event))
        /\ Become(x, IF job[x].event = "VERSION_CONFLICT"
                     THEN [at |-> "report", cmd |-> job[x].cmd, todo |-> job[x].todo]
                     ELSE [at |-> "next", todo |-> job[x].todo])
        /\ UNCHANGED <<serverVars, conflicts, active>>

\* putConflict, a transaction of its own
Report(w) ==
    LET x == <<w, "drain">>
    IN  /\ job[x].at = "report"
        /\ conflicts' = conflicts \union {job[x].cmd}
        /\ Become(x, [at |-> "next", todo |-> job[x].todo])
        /\ UNCHANGED <<serverVars, outbox, active>>

EndDrain(w) ==
    LET x == <<w, "drain">>
    IN  /\ job[x].at = "next"
        /\ job[x].todo = {}
        /\ Become(x, NoJob)
        /\ UNCHANGED <<serverVars, outbox, conflicts, active>>

\* isOnline() turned false between two items.
BreakDrain(w) ==
    LET x == <<w, "drain">>
    IN  /\ job[x].at = "next"
        /\ job[x].todo # {}
        /\ Become(x, NoJob)
        /\ UNCHANGED <<serverVars, outbox, conflicts, active>>

-----------------------------------------------------------------------------
\* Time, the user and the environment

Ripen(c) ==
    /\ outbox[c] = Pending(FALSE)
    /\ Put(c, Pending(TRUE))
    /\ UNCHANGED <<serverVars, conflicts, job, active>>

\* dismissConflict
Dismiss(c) ==
    /\ c \in conflicts
    /\ conflicts' = conflicts \ {c}
    /\ UNCHANGED <<serverVars, outbox, job, active>>

\* The tab is closed or crashes, and is opened again.
Reload(w) ==
    /\ \E p \in {"prompt", "drain"} : job[<<w, p>>] # NoJob
    /\ job' = [x \in Jobs |-> IF x[1] = w THEN NoJob ELSE job[x]]
    /\ UNCHANGED <<serverVars, outbox, conflicts, active>>

\* Another session, with another first club; neither the drain nor a request waits.
SwitchClub(w, d) ==
    /\ active[w] # d
    /\ active' = [active EXCEPT ![w] = d]
    /\ UNCHANGED <<serverVars, outbox, conflicts, job>>

Serve(t) == Server!Serve(t) /\ UNCHANGED clientVars

BreakPromise(t) == Server!BreakPromise(t) /\ UNCHANGED clientVars

\* The server dies, or answers a client that has gone.
Lose(t) ==
    /\ txn[t].at = "replied" => ~Awaited(t)
    /\ Server!Lose(t)
    /\ UNCHANGED clientVars

-----------------------------------------------------------------------------
Init ==
    /\ Server!Init
    /\ outbox = [c \in Commands |-> Item("NEW")]
    /\ conflicts = {}
    /\ job = [x \in Jobs |-> NoJob]
    /\ active \in [Tabs -> Clubs]

\* What a job does by itself
Run(x) ==
    \/ Mismatch(x)
    \/ BillUnchanged(x)
    \/ BillChanged(x)
    \/ \E t \in Calls : Send(x, t)
    \/ Receive(x)
    \/ ReceiveEarly(x)

Drain(w) ==
    \/ StartDrain(w)
    \/ Recover(w)
    \/ List(w)
    \/ Attempt(w)
    \/ SettleItem(w)
    \/ Report(w)
    \/ EndDrain(w)

Next ==
    \/ \E x \in Jobs : Run(x) \/ GiveUp(x)
    \/ \E w \in Tabs :
         \/ \E c \in Commands : RunOffline(w, c) \/ RunOnline(w, c)
         \/ SettleCommand(w)
         \/ Drain(w)
         \/ BreakDrain(w)
         \/ Reload(w)
         \/ \E d \in Clubs : SwitchClub(w, d)
    \/ \E c \in Commands : Ripen(c) \/ Dismiss(c)
    \/ \E t \in Calls : Serve(t) \/ BreakPromise(t) \/ Lose(t)

Spec == Init /\ [][Next]_vars

\* A request whose connection is dead is given up: the client's timeout.
TimeOut(x) == job[x].at = "wait" /\ txn[job[x].call].at = "idle" /\ GiveUp(x)

\* What the environment does to the queue: a request that fails though the
\* server lives, a server that dies or answers 5xx or whose COMMIT fails, a
\* tab that goes away, a connection lost between two items.  (A job that ends
\* by itself looks like a reload of its tab.)
Fault ==
    \/ \E x \in Jobs : GiveUp(x) /\ ~TimeOut(x)
    \/ \E t \in Calls : \/ Lose(t) /\ txn[t].at # "replied"
                        \/ Server!Refuse(t, "SERVER_ERROR")
                        \/ BreakPromise(t)
    \/ \E w \in Tabs : BreakDrain(w)
    \/ \E w \in Tabs : Reload(w) /\ ~EndDrain(w) /\ ~SettleCommand(w)

\* A job goes on whatever it is at; a request times out after 20 s.
GoOn(w, p) ==
    \/ Run(<<w, p>>)
    \/ TimeOut(<<w, p>>)
    \/ p = "drain" /\ Drain(w)
    \/ p = "prompt" /\ SettleCommand(w)

\* The server goes on with a request, and drops an answer whose client has gone.
Answers(t) == Serve(t) \/ (txn[t].at = "replied" /\ Lose(t))

\* setInterval drains every 5 s in every tab, promises and the server go on,
\* the client times out after 20 s.  Queues drain only if faults end and the
\* tabs come to rest at some club each.
Fairness ==
    /\ \A w \in Tabs, p \in {"prompt", "drain"} : WF_vars(GoOn(w, p))
    /\ \A c \in Commands : WF_vars(Ripen(c))
    /\ \A t \in Calls : WF_vars(Answers(t))
    /\ <>[][~Fault /\ \A w \in Tabs, d \in Clubs : ~SwitchClub(w, d)]_vars

FairSpec == Spec /\ Fairness

-----------------------------------------------------------------------------
\* Properties

Ids == SUBSET Commands

JobType ==
    {NoJob}
      \union [at : {"recover", "next"}, todo : Ids]
      \union [at : {"bill", "send", "report"}, cmd : Commands, todo : Ids]
      \union [at : {"wait"}, cmd : Commands, todo : Ids, call : Calls]
      \union [at : {"settle"}, cmd : Commands, todo : Ids,
              event : {"SENT_OK", "NETWORK_ERROR", "BUSINESS_ERROR", "VERSION_CONFLICT"}]

\* Items, jobs and the server keep their types.
TypeOK ==
    /\ Server!TypeOK
    /\ outbox \in [Commands ->
         {Item(st) : st \in Final \union {"NEW", "ABSENT", "SYNCING"}}
           \union {Pending(TRUE), Pending(FALSE)}]
    /\ conflicts \in Ids
    /\ job \in [Jobs -> JobType]
    /\ active \in [Tabs -> Clubs]

\* Command c was performed, or its client holds an answer of success that precedes a COMMIT
\* which is still to come or failed.
Answered(c) ==
    \/ effects[c] # <<>>
    \/ AnswersEarly /\ told[c] \intersect (Server!Promised(c) \union broken[c]) # {}

\* An item the banner no longer counts because it is SYNCED was performed, whatever tab wrote
\* it and however many attempts it took (applyOutboxEvent); with responses that precede the
\* COMMIT, unless it is the COMMIT of that very answer that fails.
SyncedIsApplied == \A c \in Commands : outbox[c].status = "SYNCED" => Answered(c)

\* No drain still has item c in its list or in hand.
Settled(c) ==
    /\ outbox[c].status \in Final
    /\ \A w \in Tabs : LET j == job[<<w, "drain">>]
                       IN  j # NoJob => c \notin j.todo /\ (j.at \in {"recover", "next"} \/ j.cmd # c)

\* "Not retried automatically": an outcome is overwritten only by a tab that
\* listed the item before the outcome was written; after that it is for good.
SettledForEver ==
    [][\A c \in Commands : Settled(c) => Settled(c)' /\ outbox'[c] = outbox[c]]_vars

\* "The request reached the server the first time and only the answer was
\* lost: sending it again does not perform it twice", so no attempt of a
\* performed command ends as FAILED or CONFLICT.
RetriesReplay ==
    [][\A x \in Jobs :
         (job'[x].at = "settle" /\ job'[x] # job[x] /\ effects[job'[x].cmd] # <<>>)
         => job'[x].event \in {"SENT_OK", "NETWORK_ERROR"}]_vars

\* "The queue is never stuck": whatever crashed or timed out before, a stored command reaches
\* an outcome once the faults end, if any tab stays with its club (drainQueue,
\* recoverInterrupted); the items of other clubs wait.
QueueDrains ==
    \A c \in Commands :
        outbox[c].status \in {"PENDING", "SYNCING"}
            ~> outbox[c].status \in Final \/ \A w \in Tabs : active[w] # ClubOf[c]

=============================================================================
