---------------------------- MODULE OutboxProofs ----------------------------
(***************************************************************************)
(* Theorems about module Outbox, for any number of commands, tabs and      *)
(* overlapping requests.                                                   *)
(*                                                                         *)
(* What the server promises is proved in IdempotencyProofs and used here   *)
(* of the same variables.  The strengthening joins it to the queue: a      *)
(* request that is awaited is about the command it is awaited for          *)
(* (Linked), what reports success has been performed (Earned), and whose   *)
(* the stored item of a command is, the prompt's that gave it or the       *)
(* drains' (Owned).                                                        *)
(***************************************************************************)
EXTENDS Outbox, FiniteSetTheorems, TLAPS

ServerProofs == INSTANCE IdempotencyProofs WITH Keys <- Commands

LEMMA ServerAssumed == ServerProofs!IdempotencyAssumption
BY OutboxAssumption DEF ServerProofs!IdempotencyAssumption

Prompt(w) == job[<<w, "prompt">>]

\* The steps of a job that has a command in hand
Handling == {"bill", "send", "wait", "settle", "report"}

\* Job x would still write the item of command c.
RefersTo(x, c) ==
    \/ job[x].at \in Handling /\ job[x].cmd = c
    \/ job[x].at \in Handling \union {"recover", "next"} /\ c \in job[x].todo

ItemType ==
    {Item(st) : st \in Final \union {"NEW", "ABSENT", "SYNCING"}}
      \union {Pending(TRUE), Pending(FALSE)}

Types ==
    /\ outbox \in [Commands -> ItemType]
    /\ conflicts \in SUBSET Commands
    /\ job \in [Jobs -> JobType]
    /\ active \in [Tabs -> Clubs]

\* The request a job waits for carries the key of its command.
Linked ==
    \A x \in Jobs : job[x].at = "wait" /\ txn[job[x].call].at # "idle" =>
        txn[job[x].call].key = job[x].cmd

\* A job that learned of success has a command that was performed, or answered before a
\* COMMIT that is still to come or failed.
Earned ==
    \A x \in Jobs : job[x].at = "settle" /\ job[x].event = "SENT_OK" =>
        Answered(job[x].cmd)

\* A command given online is its prompt's alone until it is queued; a drain lists only
\* what is stored.
Owned ==
    /\ \A w \in Tabs : Prompt(w).at \in {"idle"} \union (Handling \ {"report"})
    /\ \A w \in Tabs : Prompt(w).at # "idle" =>
          /\ Prompt(w).todo = {}
          /\ outbox[Prompt(w).cmd].status = "ABSENT"
          /\ \A v \in Tabs : Prompt(v).at # "idle" /\ Prompt(v).cmd = Prompt(w).cmd => v = w
    /\ \A w \in Tabs, c \in Commands :
          RefersTo(<<w, "drain">>, c) => outbox[c].status \notin {"NEW", "ABSENT"}

IInv == ServerProofs!IInv /\ Types /\ Linked /\ Earned /\ Owned /\ SyncedIsApplied

-----------------------------------------------------------------------------
\* A list of commands has a first one: there is no infinite descent in Nat, here of the
\* intervals 0..n by strict inclusion.
LEMMA First ==
    ASSUME NEW S \in SUBSET Commands, S # {}
    PROVE  Min(S) \in S
<1> DEFINE T == {0..n : n \in S}
           R == StrictSubsetOrdering(Nat)
<1>1. T \subseteq FiniteSubsetsOf(Nat) /\ T # {}
  <2>1. \A n \in S : IsFiniteSet(0..n) /\ 0..n \subseteq Nat
    BY FS_Interval, OutboxAssumption
  <2> QED BY <2>1 DEF FiniteSubsetsOf
<1>2. PICK X \in T : \A Y \in T : <<Y, X>> \notin R
  BY <1>1, FS_StrictSubsetOrderingWellFounded, WFMin
<1>3. PICK m \in S : X = 0..m
  OBVIOUS
<1>4. \A y \in S : m <= y
  <2> SUFFICES ASSUME NEW y \in S, y < m PROVE FALSE
    BY OutboxAssumption
  <2>1. 0..y \subseteq 0..m /\ 0..y # 0..m /\ 0..m \subseteq Nat
    BY OutboxAssumption
  <2>2. <<0..y, 0..m>> \in R
    BY <2>1 DEF StrictSubsetOrdering
  <2> QED BY <1>2, <1>3, <2>2
<1> QED BY <1>4 DEF Min

LEMMA Seats ==
    /\ \A w \in Tabs : <<w, "prompt">> \in Jobs /\ <<w, "drain">> \in Jobs
    /\ \A x \in Jobs : \E w \in Tabs : x = <<w, "prompt">> \/ x = <<w, "drain">>
BY DEF Jobs

\* What a job is doing is told apart by its step.
LEMMA Kinds ==
    ASSUME job \in [Jobs -> JobType], NEW x \in Jobs
    PROVE  /\ job[x].at \in {"idle", "recover", "next"} \union Handling
           /\ job[x].at = "idle" <=> job[x] = NoJob
           /\ job[x].at \in {"recover", "next"} =>
                job[x] \in [at : {"recover", "next"}, todo : Ids]
           /\ job[x].at \in {"bill", "send", "report"} =>
                job[x] \in [at : {"bill", "send", "report"}, cmd : Commands, todo : Ids]
           /\ job[x].at = "wait" =>
                job[x] \in [at : {"wait"}, cmd : Commands, todo : Ids, call : Calls]
           /\ job[x].at = "settle" =>
                job[x] \in [at : {"settle"}, cmd : Commands, todo : Ids,
                            event : {"SENT_OK", "NETWORK_ERROR", "BUSINESS_ERROR",
                                     "VERSION_CONFLICT"}]
           /\ job[x].at \in Handling => job[x].cmd \in Commands /\ job[x].todo \in Ids
BY DEF JobType, NoJob, Handling

\* An item shows its status.
LEMMA Items ==
    /\ \A st : Item(st).status = st
    /\ \A ripe : Pending(ripe).status = "PENDING"
    /\ \A st \in Final \union {"NEW", "ABSENT", "SYNCING"} : Item(st) \in ItemType
    /\ \A ripe \in BOOLEAN : Pending(ripe) \in ItemType
BY DEF Item, Pending, ItemType

LEMMA InitHolds == Init => IInv
<1> SUFFICES ASSUME Init PROVE IInv
  OBVIOUS
<1>1. ServerProofs!IInv
  <2>1. ServerProofs!Init
    BY DEF Init, Server!Init, Server!NoRow, Server!Idle, ServerProofs!Init, ServerProofs!NoRow,
       ServerProofs!Idle
  <2> QED BY <2>1, ServerAssumed, ServerProofs!InitHolds
<1>2. \A x \in Jobs : job[x].at = "idle"
  BY DEF Init, NoJob
<1>3. \A c \in Commands : outbox[c].status = "NEW"
  BY Items DEF Init
<1>4. Types
  BY Items DEF Init, Types, JobType
<1>5. Owned
  BY <1>2, Seats DEF Owned, Prompt, RefersTo, Handling
<1> QED
  BY <1>1, <1>2, <1>3, <1>4, <1>5 DEF IInv, Linked, Earned, SyncedIsApplied

-----------------------------------------------------------------------------
\* The server

\* The queue and the server mean the same by an answer.
LEMMA AnsweredKept ==
    \A c \in Commands :
        /\ Answered(c) <=> ServerProofs!Kept(c)
        /\ Answered(c)' <=> ServerProofs!Kept(c)'
BY DEF Answered, Server!Promised, Server!Done, ServerProofs!Kept, ServerProofs!Promised,
   ServerProofs!Done

\* A step of the server or of the network, as the queue sees it: the server's invariant
\* holds on, a request keeps its command or is over, and what was answered stays so.
LEMMA ServerStep ==
    ASSUME ServerProofs!IInv, NEW t \in Calls,
           \/ Server!Serve(t) \/ Server!BreakPromise(t) \/ Server!DeliverEarly(t)
           \/ Server!Deliver(t) \/ Server!Lose(t)
           \/ \E c \in Commands, b \in Bodies : Server!Arrive(t, c, b)
    PROVE  /\ ServerProofs!IInv' /\ ServerProofs!Step(t)
           /\ \A u \in Calls \ {t} : txn'[u] = txn[u]
           /\ ~(\E c \in Commands, b \in Bodies : Server!Arrive(t, c, b)) =>
                txn'[t].at = "idle" \/ (txn[t].at # "idle" /\ txn'[t].key = txn[t].key)
           /\ \A c \in Commands : Answered(c) => Answered(c)'
<1> USE DEF Server!Holds, Server!NoRow, Server!Goto, Server!Answer, Server!Refusals,
    Server!Failure, Server!Success, Server!Idle, Server!Done, ServerProofs!Holds,
    ServerProofs!NoRow, ServerProofs!Goto, ServerProofs!Answer, ServerProofs!Refusals,
    ServerProofs!Failure, ServerProofs!Success, ServerProofs!Idle, ServerProofs!Done
<1>1. ServerProofs!Step(t)
  BY DEF Server!Serve, Server!Claim, Server!Found, Server!Perform, Server!Refuse,
     Server!Finish, Server!SendAnswer, Server!Commit, Server!BreakPromise,
     Server!DeliverEarly, Server!Deliver, Server!Lose, Server!Arrive, Server!Taken,
     Server!Committable, ServerProofs!Step, ServerProofs!Serve, ServerProofs!Claim,
     ServerProofs!Found, ServerProofs!Perform, ServerProofs!Refuse, ServerProofs!Finish,
     ServerProofs!SendAnswer, ServerProofs!Commit, ServerProofs!BreakPromise,
     ServerProofs!DeliverEarly, ServerProofs!Deliver, ServerProofs!Lose,
     ServerProofs!Arrive, ServerProofs!Taken, ServerProofs!Committable
<1>2. ServerProofs!IInv'
  BY <1>1, ServerAssumed, ServerProofs!StepHolds DEF ServerProofs!Next, ServerProofs!Step
<1>3. txn \in [Calls -> {ServerProofs!Idle} \union ServerProofs!Txn]
  BY DEF ServerProofs!IInv, ServerProofs!TypeOK
<1>4. \E p : txn' = [txn EXCEPT ![t] = p]
  <2>1. CASE Server!Serve(t)
    BY <2>1 DEF Server!Serve, Server!Claim, Server!Found, Server!Perform, Server!Refuse,
       Server!Finish, Server!SendAnswer, Server!Commit
  <2>2. CASE Server!DeliverEarly(t)
    <3>1. txn' = [txn EXCEPT ![t] = txn[t]]
      BY <1>3, <2>2 DEF Server!DeliverEarly
    <3> QED BY <3>1
  <2>3. CASE \/ Server!BreakPromise(t) \/ Server!Deliver(t) \/ Server!Lose(t)
             \/ \E c \in Commands, b \in Bodies : Server!Arrive(t, c, b)
    BY <2>3 DEF Server!BreakPromise, Server!Deliver, Server!Lose, Server!Arrive
  <2> QED BY <2>1, <2>2, <2>3
<1>5. \A c \in Commands : Answered(c) => Answered(c)'
  BY <1>1, <1>2, AnsweredKept, ServerAssumed, ServerProofs!KeptStays DEF ServerProofs!IInv
<1>6. CASE Server!Serve(t) \/ Server!BreakPromise(t)
  <2>1. txn[t].at # "idle"
    BY <1>6 DEF Server!Serve, Server!Claim, Server!Found, Server!Perform, Server!Refuse,
       Server!Finish, Server!SendAnswer, Server!Commit, Server!Committable,
       Server!BreakPromise
  <2>2. txn[t] \in ServerProofs!Txn
    BY <1>3, <2>1
  <2>3. CASE Server!Claim(t) \/ Server!Finish(t) \/ Server!SendAnswer(t)
    BY <1>1, <1>2, <1>3, <1>4, <1>5, <2>1, <2>2, <2>3 DEF Server!Claim, Server!Finish,
       Server!SendAnswer, ServerProofs!Txn
  <2>4. CASE Server!Found(t) \/ \E code \in Server!Refusals : Server!Refuse(t, code)
    BY <1>1, <1>2, <1>3, <1>4, <1>5, <2>1, <2>4 DEF Server!Found, Server!Refuse
  <2>5. CASE Server!Commit(t) \/ \E r \in Results : Server!Perform(t, r)
    <3>1. txn'[t].key = txn[t].key
      BY <1>3, <2>1, <2>5 DEF Server!Commit, Server!Perform
    <3> QED BY <1>1, <1>2, <1>3, <1>4, <1>5, <2>1, <3>1
  <2>6. CASE Server!BreakPromise(t)
    BY <1>1, <1>2, <1>3, <1>4, <1>5, <2>1, <2>6 DEF Server!BreakPromise
  <2> QED BY <1>6, <2>3, <2>4, <2>5, <2>6 DEF Server!Serve
<1>7. CASE Server!Deliver(t) \/ Server!Lose(t)
  BY <1>1, <1>2, <1>3, <1>5, <1>7 DEF Server!Deliver, Server!Lose
<1>8. CASE \E c \in Commands, b \in Bodies : Server!Arrive(t, c, b)
  BY <1>1, <1>2, <1>3, <1>4, <1>5, <1>8 DEF Server!Arrive
<1>9. CASE Server!DeliverEarly(t)
  BY <1>1, <1>2, <1>5, <1>9 DEF Server!DeliverEarly
<1> QED BY <1>6, <1>7, <1>8, <1>9

\* Who receives a success knows the command to be answered.
LEMMA Performed ==
    ASSUME ServerProofs!IInv, NEW t \in Calls, NEW c \in Commands, txn[t].key = c,
           (Server!Deliver(t) /\ txn[t].reply.ok) \/ Server!DeliverEarly(t)
    PROVE  Answered(c)'
<1>1. (ServerProofs!Deliver(t) /\ txn[t].reply.ok) \/ ServerProofs!DeliverEarly(t)
  BY DEF Server!Deliver, Server!DeliverEarly, Server!Done, Server!Idle, ServerProofs!Deliver,
     ServerProofs!DeliverEarly, ServerProofs!Done, ServerProofs!Idle
<1>2. ServerProofs!TypeOK'
  BY ServerStep DEF ServerProofs!IInv
<1> QED BY <1>1, <1>2, AnsweredKept, ServerAssumed, ServerProofs!Delivered

\* What the server does not do disturbs neither its invariant nor its answers.
LEMMA ServerRests ==
    ASSUME ServerProofs!IInv, UNCHANGED serverVars
    PROVE  ServerProofs!IInv' /\ \A c \in Commands : Answered(c)' <=> Answered(c)
<1>1. ServerProofs!IInv'
  BY ServerAssumed, ServerProofs!StepHolds DEF serverVars, ServerProofs!serverVars
<1>2. \A c \in Commands : Answered(c)' <=> Answered(c)
  BY DEF serverVars, Answered, Server!Promised, Server!Done
<1> QED BY <1>1, <1>2

-----------------------------------------------------------------------------
\* The executor

\* A job that goes on with its command keeps every item whose it was.
LEMMA SameCommand ==
    ASSUME IInv, NEW x \in Jobs, NEW j \in JobType, Become(x, j),
           job[x].at \in {"bill", "send", "wait"}, j.at \in {"send", "wait", "settle"},
           j.cmd = job[x].cmd, j.todo = job[x].todo,
           UNCHANGED <<outbox, conflicts, active>>
    PROVE  Types' /\ Owned'
<1>1. Types'
  BY DEF IInv, Types, Become
<1>2. job'[x] = j /\ \A y \in Jobs \ {x} : job'[y] = job[y]
  BY DEF IInv, Types, Become
<1>3. \A w \in Tabs :
        /\ Prompt(w)'.at \in {"idle"} \union (Handling \ {"report"})
        /\ Prompt(w)'.at # "idle" =>
              /\ Prompt(w).at # "idle"
              /\ Prompt(w)'.cmd = Prompt(w).cmd /\ Prompt(w)'.todo = Prompt(w).todo
  BY <1>2, Seats DEF IInv, Owned, Prompt, Handling
<1>4. \A w \in Tabs, c \in Commands :
        RefersTo(<<w, "drain">>, c)' => RefersTo(<<w, "drain">>, c)
  BY <1>2, Seats DEF RefersTo, Handling
<1>5. Owned'
  <2> SUFFICES ASSUME NEW w \in Tabs
               PROVE  /\ Prompt(w)'.at \in {"idle"} \union (Handling \ {"report"})
                      /\ Prompt(w)'.at # "idle" =>
                            /\ Prompt(w)'.todo = {}
                            /\ outbox'[Prompt(w)'.cmd].status = "ABSENT"
                            /\ \A v \in Tabs :
                                  Prompt(v)'.at # "idle" /\ Prompt(v)'.cmd = Prompt(w)'.cmd
                                    => v = w
                      /\ \A c \in Commands :
                            RefersTo(<<w, "drain">>, c)' =>
                              outbox'[c].status \notin {"NEW", "ABSENT"}
    BY DEF Owned
  <2> QED BY <1>3, <1>4 DEF IInv, Owned
<1> QED BY <1>1, <1>5

\* getBill, the request, its answer and the client's timeout
LEMMA RunStep ==
    ASSUME IInv, NEW x \in Jobs, Run(x) \/ GiveUp(x)
    PROVE  IInv'
<1> DEFINE c == job[x].cmd
           todo == job[x].todo
<1>1. job[x].at \in {"bill", "send", "wait"} /\ c \in Commands /\ todo \in Ids
  BY Kinds DEF Run, Mismatch, BillUnchanged, BillChanged, Send, Receive, ReceiveEarly, GiveUp,
     IInv, Types, Handling
<1>2. ASSUME NEW event \in {"NETWORK_ERROR", "BUSINESS_ERROR", "VERSION_CONFLICT"},
             Settle(x, event), UNCHANGED <<serverVars, outbox, conflicts, active>>
      PROVE  IInv'
  <2> DEFINE j == [at |-> "settle", cmd |-> c, todo |-> todo, event |-> event]
  <2>1. j \in JobType /\ Become(x, j)
    BY <1>1, <1>2 DEF JobType, Settle
  <2>2. job' = [job EXCEPT ![x] = j]
    BY <2>1 DEF Become
  <2>3. Types' /\ Owned'
    BY <1>1, <1>2, <2>1, SameCommand
  <2>4. ServerProofs!IInv' /\ SyncedIsApplied'
    BY <1>2, ServerRests DEF IInv, SyncedIsApplied
  <2>5. Linked' /\ Earned'
    BY <1>2, <2>2, ServerRests, Kinds DEF IInv, Types, Linked, Earned, serverVars, Handling
  <2> QED BY <2>3, <2>4, <2>5 DEF IInv
<1>3. CASE BillUnchanged(x)
  <2> DEFINE j == [job[x] EXCEPT !.at = "send"]
  <2>1. j \in JobType /\ j.at = "send" /\ j.cmd = c /\ j.todo = todo
    BY <1>3, Kinds DEF IInv, Types, BillUnchanged, JobType
  <2>2. Become(x, j) /\ UNCHANGED <<serverVars, outbox, conflicts, active>>
    BY <1>3 DEF BillUnchanged
  <2> HIDE DEF j
  <2>3. Types' /\ Owned'
    BY <1>1, <2>1, <2>2, SameCommand
  <2>4. ServerProofs!IInv' /\ SyncedIsApplied'
    BY <2>2, ServerRests DEF IInv, SyncedIsApplied
  <2>5. Linked' /\ Earned'
    BY <2>1, <2>2, ServerRests, Kinds DEF IInv, Types, Linked, Earned, serverVars, Become, Handling
  <2> QED BY <2>3, <2>4, <2>5 DEF IInv
<1>4. ASSUME NEW t \in Calls, Send(x, t) PROVE IInv'
  <2> DEFINE j == [at |-> "wait", cmd |-> c, todo |-> todo, call |-> t]
             b == CHOOSE b \in Bodies : TRUE
  <2>1. /\ Become(x, j) /\ ~Awaited(t) /\ Server!Arrive(t, c, b)
        /\ UNCHANGED <<outbox, conflicts, active>>
    BY <1>4 DEF Send
  <2>2. j \in JobType
    BY <1>1 DEF JobType
  <2>3. b \in Bodies
    BY OutboxAssumption
  <2> HIDE DEF b
  <2>4. Types' /\ Owned'
    BY <1>1, <2>1, <2>2, SameCommand
  <2>5. /\ ServerProofs!IInv'
        /\ \A u \in Calls \ {t} : txn'[u] = txn[u]
        /\ \A d \in Commands : Answered(d) => Answered(d)'
    BY <1>1, <2>1, <2>3, ServerStep DEF IInv
  <2>6. txn'[t].key = c
    BY <2>1 DEF Server!Arrive, IInv, ServerProofs!IInv, ServerProofs!TypeOK
  <2>7. job'[x] = j /\ \A y \in Jobs \ {x} : job'[y] = job[y]
    BY <2>1 DEF IInv, Types, Become
  <2>8. Linked'
    <3> SUFFICES ASSUME NEW y \in Jobs, job'[y].at = "wait", txn'[job'[y].call].at # "idle"
                 PROVE  txn'[job'[y].call].key = job'[y].cmd
      BY DEF Linked
    <3>1. CASE y = x
      BY <2>6, <2>7, <3>1
    <3>2. CASE y # x
      <4>1. job[y].call \in Calls \ {t}
        BY <2>1, <2>7, <3>2, Kinds DEF Awaited, IInv, Types
      <4> QED BY <2>5, <2>7, <3>2, <4>1 DEF IInv, Linked
    <3> QED BY <3>1, <3>2
  <2>9. Earned'
    BY <2>5, <2>7, Kinds DEF IInv, Types, Earned, Handling
  <2>10. SyncedIsApplied'
    BY <2>1, <2>5 DEF IInv, SyncedIsApplied
  <2> QED BY <2>4, <2>5, <2>8, <2>9, <2>10 DEF IInv
<1>5. ASSUME Receive(x) \/ ReceiveEarly(x) PROVE IInv'
  <2> DEFINE t == job[x].call
             event == IF txn[t].at = "replied" THEN Classify(txn[t].reply) ELSE "SENT_OK"
             j == [at |-> "settle", cmd |-> c, todo |-> todo, event |-> event]
  <2>1. /\ job[x].at = "wait" /\ txn[t].at \in {"replied", "answered"}
        /\ Become(x, j) /\ UNCHANGED <<outbox, conflicts, active>>
        /\ \/ txn[t].at = "replied" /\ Server!Deliver(t)
           \/ Server!DeliverEarly(t)
    BY <1>5 DEF Receive, ReceiveEarly, Settle
  <2>2. t \in Calls /\ txn[t].key = c
    BY <2>1, Kinds DEF IInv, Types, Linked
  <2>d. PICK own \in Commands : own = c
    BY <1>1
  <2>3. j \in JobType
    BY <1>1 DEF JobType, Classify
  <2>4. event = "SENT_OK" => Answered(own)'
    BY <2>1, <2>2, <2>d, Performed DEF IInv, Classify
  <2> HIDE DEF t, event
  <2>5. Types' /\ Owned'
    BY <1>1, <2>1, <2>3, SameCommand
  <2>6. /\ ServerProofs!IInv'
        /\ \A u \in Calls \ {t} : txn'[u] = txn[u]
        /\ \A d \in Commands : Answered(d) => Answered(d)'
    BY <2>1, <2>2, ServerStep DEF IInv
  <2>7. txn'[t].at = "idle" \/ txn'[t] = txn[t]
    BY <2>1, <2>2 DEF Server!Deliver, Server!DeliverEarly, Server!Idle, IInv,
       ServerProofs!IInv, ServerProofs!TypeOK
  <2>8. job'[x] = j /\ \A y \in Jobs \ {x} : job'[y] = job[y]
    BY <2>1 DEF IInv, Types, Become
  <2>9. Linked'
    BY <2>6, <2>7, <2>8, Kinds DEF IInv, Types, Linked
  <2>10. Earned'
    BY <2>d, <2>4, <2>6, <2>8, Kinds DEF IInv, Types, Earned, Handling
  <2>11. SyncedIsApplied'
    BY <2>1, <2>6 DEF IInv, SyncedIsApplied
  <2> QED BY <2>5, <2>6, <2>9, <2>10, <2>11 DEF IInv
<1>6. ASSUME Mismatch(x) \/ BillChanged(x) \/ GiveUp(x) PROVE IInv'
  BY <1>2, <1>6 DEF Mismatch, BillChanged, GiveUp
<1> QED BY <1>3, <1>4, <1>5, <1>6 DEF Run

-----------------------------------------------------------------------------
\* runCommand

LEMMA CommandStep ==
    ASSUME IInv, NEW w \in Tabs, NEW c \in Commands,
           RunOffline(w, c) \/ RunOnline(w, c) \/ SettleCommand(w)
    PROVE  IInv'
<1> DEFINE x == <<w, "prompt">>
<1>1. x \in Jobs /\ UNCHANGED <<serverVars, conflicts, active>>
  BY Seats DEF RunOffline, RunOnline, SettleCommand
<1>2. /\ ServerProofs!IInv' /\ UNCHANGED txn
      /\ \A d \in Commands : Answered(d)' <=> Answered(d)
  BY <1>1, ServerRests DEF IInv, serverVars
<1>3. CASE RunOffline(w, c)
  <2>1. outbox' = [outbox EXCEPT ![c] = Pending(TRUE)] /\ job' = job
    BY <1>3 DEF RunOffline, Put
  <2>2. outbox[c].status = "NEW"
    BY <1>3 DEF RunOffline, NextId, Given
  <2>3. Types'
    BY <1>1, <2>1, Items DEF IInv, Types
  <2>4. Owned'
    <3>1. \A d \in Commands : d # c => outbox'[d] = outbox[d]
      BY <2>1 DEF IInv, Types
    <3>2. outbox'[c].status = "PENDING"
      BY <2>1, Items DEF IInv, Types
    <3>3. \A v \in Tabs : Prompt(v).at # "idle" => Prompt(v).cmd \in Commands \ {c}
      BY <2>2, Kinds, Seats DEF IInv, Types, Owned, Prompt
    <3>4. \A v \in Tabs, d \in Commands :
            RefersTo(<<v, "drain">>, d)' <=> RefersTo(<<v, "drain">>, d)
      BY <2>1 DEF RefersTo
    <3>5. \A v \in Tabs : Prompt(v)' = Prompt(v)
      BY <2>1 DEF Prompt
    <3> QED
      BY <3>1, <3>2, <3>3, <3>4, <3>5 DEF IInv, Owned
  <2>5. SyncedIsApplied'
    BY <1>2, <2>1, Items DEF IInv, Types, SyncedIsApplied
  <2> QED
    BY <1>2, <2>1, <2>3, <2>4, <2>5, Kinds DEF IInv, Types, Linked, Earned, Handling
<1>4. CASE RunOnline(w, c)
  <2> DEFINE j == Execute(c, {})
  <2>1. /\ outbox' = [outbox EXCEPT ![c] = Item("ABSENT")]
        /\ job' = [job EXCEPT ![x] = j]
    BY <1>4 DEF RunOnline, Put, Become
  <2>2. outbox[c].status = "NEW"
    BY <1>4 DEF RunOnline, NextId, Given
  <2>3. /\ j \in JobType /\ j.at \in {"bill", "send"} /\ j.cmd = c /\ j.todo = {}
    <3>1. {} \in Ids
      BY DEF Ids
    <3>2. CASE c \in Bills
      BY <3>1, <3>2 DEF Execute, JobType
    <3>3. CASE c \notin Bills
      BY <3>1, <3>3 DEF Execute, JobType
    <3> QED BY <3>2, <3>3
  <2> HIDE DEF j
  <2>4. Types'
    BY <1>1, <2>1, <2>3, Items DEF IInv, Types
  <2>5. /\ job'[x] = j /\ \A y \in Jobs \ {x} : job'[y] = job[y]
        /\ outbox'[c].status = "ABSENT" /\ \A d \in Commands \ {c} : outbox'[d] = outbox[d]
    BY <1>1, <2>1, Items DEF IInv, Types
  <2>6. Owned'
    <3>1. \A v \in Tabs : Prompt(v).at # "idle" => Prompt(v).cmd \in Commands \ {c}
      BY <2>2, Kinds, Seats DEF IInv, Types, Owned, Prompt
    <3>2. \A v \in Tabs : ~RefersTo(<<v, "drain">>, c)
      BY <2>2 DEF IInv, Owned
    <3>3. \A v \in Tabs, d \in Commands :
            RefersTo(<<v, "drain">>, d)' <=> RefersTo(<<v, "drain">>, d)
      BY <2>5, Seats DEF RefersTo
    <3>4. \A v \in Tabs : v # w => Prompt(v)' = Prompt(v)
      BY <2>5, Seats DEF Prompt
    <3>5. Prompt(w)' = j
      BY <2>5 DEF Prompt
    <3> QED
      BY <2>3, <2>5, <3>1, <3>2, <3>3, <3>4, <3>5 DEF IInv, Owned, Handling
  <2>7. Linked' /\ Earned' /\ SyncedIsApplied'
    BY <1>2, <2>3, <2>5, Kinds DEF IInv, Types, Linked, Earned, SyncedIsApplied, Handling
  <2> QED BY <1>2, <2>4, <2>6, <2>7 DEF IInv
<1>5. CASE SettleCommand(w)
  <2>1. /\ job[x].at = "settle" /\ job[x].cmd \in Commands
        /\ job' = [job EXCEPT ![x] = NoJob]
        /\ outbox' \in {outbox, [outbox EXCEPT ![job[x].cmd] = Pending(FALSE)]}
    BY <1>1, <1>5, Kinds DEF SettleCommand, Put, Become, IInv, Types, Handling
  <2>2. Types'
    BY <1>1, <2>1, Items DEF IInv, Types, JobType
  <2>3. /\ job'[x] = NoJob /\ \A y \in Jobs \ {x} : job'[y] = job[y]
        /\ \A d \in Commands : 
             \/ outbox'[d] = outbox[d]
             \/ d = job[x].cmd /\ outbox'[d].status = "PENDING"
    <3>1. job'[x] = NoJob /\ \A y \in Jobs \ {x} : job'[y] = job[y]
      BY <1>1, <2>1 DEF IInv, Types
    <3>2. Pending(FALSE).status = "PENDING"
      BY Items
    <3>3. \A d \in Commands :
             \/ outbox'[d] = outbox[d]
             \/ d = job[x].cmd /\ outbox'[d] = Pending(FALSE)
      BY <2>1 DEF IInv, Types
    <3> QED BY <3>1, <3>2, <3>3
  <2>4. NoJob.at = "idle"
    BY DEF NoJob
  <2>5. Owned'
    <3>1. \A v \in Tabs : v # w => Prompt(v)' = Prompt(v)
      BY <2>3, Seats DEF Prompt
    <3>2. Prompt(w)'.at = "idle" /\ Prompt(w).at # "idle" /\ Prompt(w).cmd = job[x].cmd
      BY <2>1, <2>3, <2>4 DEF Prompt
    <3>3. \A v \in Tabs, d \in Commands :
            RefersTo(<<v, "drain">>, d)' <=> RefersTo(<<v, "drain">>, d)
      BY <2>3, Seats DEF RefersTo
    <3>4. \A v \in Tabs : v # w /\ Prompt(v).at # "idle" =>
            Prompt(v).cmd \in Commands /\ Prompt(v).cmd # job[x].cmd
      BY <3>2, Kinds, Seats DEF IInv, Types, Owned, Prompt
    <3> QED
      BY <2>3, <3>1, <3>2, <3>3, <3>4 DEF IInv, Owned
  <2>6. Linked' /\ Earned' /\ SyncedIsApplied'
    BY <1>2, <2>3, <2>4, Kinds DEF IInv, Types, Linked, Earned, SyncedIsApplied, Handling
  <2> QED BY <1>2, <2>2, <2>5, <2>6 DEF IInv
<1> QED BY <1>3, <1>4, <1>5

-----------------------------------------------------------------------------
\* drainQueue

\* c is stored: no prompt has it in hand.
Stored(c) == outbox[c].status \notin {"NEW", "ABSENT"}

\* A step of a drain writes items that are stored and leaves them stored; what it lists or
\* takes in hand is stored.
LEMMA DrainWrites ==
    ASSUME IInv, NEW w \in Tabs, NEW j \in JobType, Become(<<w, "drain">>, j),
           j.at \notin {"wait", "settle"},
           j.at \in Handling => Stored(j.cmd),
           \A c \in Commands : j.at # "idle" /\ c \in j.todo => Stored(c),
           outbox' \in [Commands -> ItemType],
           \A c \in Commands : outbox'[c] # outbox[c] =>
              /\ Stored(c) /\ outbox'[c].status \notin {"NEW", "ABSENT"}
              /\ outbox'[c].status = "SYNCED" => Answered(c),
           conflicts' \in SUBSET Commands, UNCHANGED <<serverVars, active>>
    PROVE  IInv'
<1> DEFINE x == <<w, "drain">>
<1>1. job'[x] = j /\ \A y \in Jobs \ {x} : job'[y] = job[y]
  BY Seats DEF Become, IInv, Types
<1>2. /\ ServerProofs!IInv' /\ UNCHANGED txn
      /\ \A d \in Commands : Answered(d)' <=> Answered(d)
  BY ServerRests DEF IInv, serverVars
<1>3. Types'
  BY Seats DEF IInv, Types, Become
<1>4. Owned'
  <2>1. \A v \in Tabs : Prompt(v)' = Prompt(v)
    BY <1>1, Seats DEF Prompt
  <2>2. \A v \in Tabs : Prompt(v).at # "idle" =>
          Prompt(v).cmd \in Commands /\ outbox'[Prompt(v).cmd].status = "ABSENT"
    <3> SUFFICES ASSUME NEW v \in Tabs, Prompt(v).at # "idle"
                 PROVE  Prompt(v).cmd \in Commands /\ outbox'[Prompt(v).cmd].status = "ABSENT"
      OBVIOUS
    <3>1. Prompt(v).cmd \in Commands /\ outbox[Prompt(v).cmd].status = "ABSENT"
      BY Kinds, Seats DEF IInv, Types, Owned, Prompt
    <3> QED BY <3>1 DEF Stored
  <2>3. \A v \in Tabs, d \in Commands :
          RefersTo(<<v, "drain">>, d)' => RefersTo(<<v, "drain">>, d) \/ Stored(d)
    <3> SUFFICES ASSUME NEW v \in Tabs, NEW d \in Commands, RefersTo(<<v, "drain">>, d)'
                 PROVE  RefersTo(<<v, "drain">>, d) \/ Stored(d)
      OBVIOUS
    <3>1. CASE v = w
      BY <1>1, <3>1 DEF RefersTo, Handling
    <3>2. CASE v # w
      BY <1>1, <3>2, Seats DEF RefersTo
    <3> QED BY <3>1, <3>2
  <2>4. \A d \in Commands : Stored(d) => outbox'[d].status \notin {"NEW", "ABSENT"}
    BY DEF Stored
  <2>5. \A v \in Tabs, d \in Commands :
          RefersTo(<<v, "drain">>, d)' => outbox'[d].status \notin {"NEW", "ABSENT"}
    BY <2>3, <2>4 DEF IInv, Owned, Stored
  <2> QED
    BY <2>1, <2>2, <2>5 DEF IInv, Owned
<1>5. Linked' /\ Earned'
  BY <1>1, <1>2, Kinds DEF IInv, Types, Linked, Earned, Handling
<1>6. SyncedIsApplied'
  BY <1>2 DEF IInv, SyncedIsApplied
<1> QED BY <1>2, <1>3, <1>4, <1>5, <1>6 DEF IInv

\* What a drain writes of a command it settles
LEMMA Outcomes ==
    ASSUME NEW event \in {"SENT_OK", "NETWORK_ERROR", "BUSINESS_ERROR", "VERSION_CONFLICT"}
    PROVE  /\ Applied(event) \in ItemType
           /\ Applied(event).status \in Final \union {"PENDING"}
           /\ Applied(event).status = "SYNCED" => event = "SENT_OK"
BY Items DEF Applied, Final

LEMMA DrainStep ==
    ASSUME IInv, NEW w \in Tabs, Drain(w) \/ BreakDrain(w)
    PROVE  IInv'
<1> DEFINE x == <<w, "drain">>
<1>1. x \in Jobs /\ UNCHANGED <<serverVars, active>>
  BY Seats DEF Drain, BreakDrain, StartDrain, Recover, List, Attempt, SettleItem, Report, EndDrain
<1>2. \A c \in Commands : RefersTo(x, c) => Stored(c)
  BY DEF IInv, Owned, Stored
<1>3. NoJob \in JobType /\ NoJob.at = "idle"
  BY DEF JobType, NoJob
<1>4. outbox \in [Commands -> ItemType] /\ conflicts \in SUBSET Commands
  BY DEF IInv, Types
<1>5. CASE StartDrain(w)
  <2> DEFINE j == [at |-> "recover", todo |-> Interrupted]
  <2>1. j \in JobType /\ \A c \in Interrupted : Stored(c)
    BY DEF JobType, Interrupted, Ids, Stored
  <2>2. Become(x, j) /\ UNCHANGED <<outbox, conflicts>>
    BY <1>5 DEF StartDrain
  <2> QED
    BY <1>1, <1>4, <2>1, <2>2, DrainWrites DEF Handling
<1>6. CASE List(w)
  <2> DEFINE j == [at |-> "next", todo |-> {c \in Commands : Sendable(c, active[w])}]
  <2>1. j \in JobType /\ \A c \in j.todo : Stored(c)
    BY DEF JobType, Sendable, Ids, Stored
  <2>2. Become(x, j) /\ UNCHANGED <<outbox, conflicts>>
    BY <1>6 DEF List
  <2> QED
    BY <1>1, <1>4, <2>1, <2>2, DrainWrites DEF Handling
<1>7. ASSUME \/ Recover(w)
             \/ Attempt(w)
      PROVE  IInv'
  <2> DEFINE c == Min(job[x].todo)
             j == IF job[x].at = "recover" THEN [job[x] EXCEPT !.todo = @ \ {c}]
                  ELSE Execute(c, job[x].todo \ {c})
             i == IF job[x].at = "recover" THEN Recovered(c) ELSE Item("SYNCING")
  <2>1. /\ job[x].at \in {"recover", "next"} /\ job[x].todo # {}
        /\ Put(c, i) /\ Become(x, j) /\ UNCHANGED conflicts
    BY <1>7 DEF Recover, Attempt
  <2>2. job[x].todo \in SUBSET Commands
    BY <1>1, <2>1, Kinds DEF IInv, Types, Ids
  <2>3. c \in job[x].todo
    BY <2>1, <2>2, First
  <2> HIDE DEF c
  <2>4. Stored(c)
    BY <1>2, <2>1, <2>2, <2>3 DEF RefersTo
  <2>5. /\ j \in JobType /\ j.at \notin {"wait", "settle", "idle"}
        /\ j.at \in Handling => j.cmd = c
        /\ j.todo \subseteq job[x].todo
    <3>1. CASE job[x].at = "recover"
      <4>1. job[x] \in [at : {"recover", "next"}, todo : Ids]
        BY <1>1, <3>1, Kinds DEF IInv, Types
      <4> QED BY <3>1, <4>1 DEF JobType, Ids, Handling
    <3>2. CASE job[x].at = "next"
      <4>1. job[x].todo \ {c} \in Ids
        BY <2>2 DEF Ids
      <4> QED BY <2>2, <2>3, <3>2, <4>1 DEF Execute, JobType
    <3> QED BY <2>1, <3>1, <3>2
  <2>6. i \in ItemType /\ i.status \in {"PENDING", "SYNCING"}
    BY Items DEF Recovered
  <2> HIDE DEF j, i
  <2>7. \A d \in Commands : d \in j.todo => Stored(d)
    BY <1>2, <2>1, <2>5 DEF RefersTo
  <2>8. /\ outbox' \in [Commands -> ItemType]
        /\ \A d \in Commands : outbox'[d] = outbox[d] \/ (d = c /\ outbox'[d] = i)
    BY <1>4, <2>1, <2>6 DEF Put
  <2> QED
    BY <1>1, <1>4, <2>1, <2>4, <2>5, <2>6, <2>7, <2>8, DrainWrites
<1>8. ASSUME SettleItem(w) \/ Report(w) PROVE IInv'
  <2> DEFINE c == job[x].cmd
             j == IF job[x].at = "settle" /\ job[x].event = "VERSION_CONFLICT"
                  THEN [at |-> "report", cmd |-> c, todo |-> job[x].todo]
                  ELSE [at |-> "next", todo |-> job[x].todo]
  <2>1. /\ job[x].at \in {"settle", "report"} /\ Become(x, j)
        /\ job[x].at = "settle" => Put(c, Applied(job[x].event)) /\ UNCHANGED conflicts
        /\ job[x].at = "report" => UNCHANGED outbox /\ conflicts' = conflicts \union {c}
    BY <1>8 DEF SettleItem, Report
  <2>2. c \in Commands /\ job[x].todo \in Ids
    BY <1>1, <2>1, Kinds DEF IInv, Types, Handling
  <2> HIDE DEF c
  <2>3. j \in JobType /\ j.at \in {"report", "next"} /\ j.todo = job[x].todo
        /\ (j.at = "report" => j.cmd = c)
    BY <2>2 DEF JobType
  <2> HIDE DEF j
  <2>4. Stored(c) /\ \A d \in j.todo : Stored(d)
    BY <1>2, <2>1, <2>2, <2>3 DEF RefersTo, Handling, c, Ids
  <2>5. CASE job[x].at = "report"
    BY <1>1, <1>4, <2>1, <2>2, <2>3, <2>4, <2>5, DrainWrites DEF Handling
  <2>6. CASE job[x].at = "settle"
    <3> DEFINE i == Applied(job[x].event)
    <3>1. job[x].event \in {"SENT_OK", "NETWORK_ERROR", "BUSINESS_ERROR", "VERSION_CONFLICT"}
      BY <1>1, <2>6, Kinds DEF IInv, Types
    <3>2. /\ i \in ItemType /\ i.status \in Final \union {"PENDING"}
          /\ i.status = "SYNCED" => Answered(c)
      BY <1>1, <2>6, <3>1, Outcomes DEF IInv, Earned, c
    <3> HIDE DEF i
    <3>3. /\ outbox' \in [Commands -> ItemType]
          /\ \A d \in Commands : outbox'[d] = outbox[d] \/ (d = c /\ outbox'[d] = i)
      BY <1>4, <2>1, <2>6, <3>2 DEF Put, i
    <3> QED
      BY <1>1, <1>4, <2>1, <2>3, <2>4, <2>6, <3>2, <3>3, DrainWrites DEF Final, Handling
  <2> QED BY <2>1, <2>5, <2>6
<1>9. CASE EndDrain(w) \/ BreakDrain(w)
  <2>1. Become(x, NoJob) /\ UNCHANGED <<outbox, conflicts>>
    BY <1>9 DEF EndDrain, BreakDrain
  <2> QED
    BY <1>1, <1>3, <1>4, <2>1, DrainWrites DEF Handling
<1> QED BY <1>5, <1>6, <1>7, <1>8, <1>9 DEF Drain

-----------------------------------------------------------------------------
\* Time, the user and the environment

\* The banner and the active club are nobody's business here.
LEMMA AtRest ==
    ASSUME IInv, UNCHANGED <<serverVars, outbox, job>>,
           conflicts' \in SUBSET Commands, active' \in [Tabs -> Clubs]
    PROVE  IInv'
<1>1. ServerProofs!IInv' /\ \A c \in Commands : Answered(c)' <=> Answered(c)
  BY ServerRests DEF IInv
<1>2. Types' /\ Owned'
  BY DEF IInv, Types, Owned, Prompt, RefersTo
<1>3. Linked' /\ Earned' /\ SyncedIsApplied'
  BY <1>1, Kinds DEF IInv, Types, Linked, Earned, SyncedIsApplied, serverVars, Handling
<1> QED BY <1>1, <1>2, <1>3 DEF IInv

LEMMA EnvironmentStep ==
    ASSUME IInv,
           \/ \E c \in Commands : Ripen(c) \/ Dismiss(c)
           \/ \E w \in Tabs : Reload(w) \/ \E d \in Clubs : SwitchClub(w, d)
           \/ \E t \in Calls : Serve(t) \/ BreakPromise(t) \/ Lose(t)
    PROVE  IInv'
<1>1. ASSUME NEW c \in Commands, Ripen(c) PROVE IInv'
  <2>1. /\ outbox[c].status = "PENDING" /\ outbox' = [outbox EXCEPT ![c] = Pending(TRUE)]
        /\ UNCHANGED <<serverVars, conflicts, job, active>>
    BY <1>1, Items DEF Ripen, Put
  <2>2. Types'
    BY <2>1, Items DEF IInv, Types
  <2>3. \A d \in Commands : outbox'[d].status = outbox[d].status
    BY <2>1, Items DEF IInv, Types
  <2>4. \A w \in Tabs : Prompt(w).at # "idle" => Prompt(w).cmd \in Commands
    BY Kinds, Seats DEF IInv, Types, Owned, Prompt
  <2>5. \A w \in Tabs : Prompt(w)' = Prompt(w)
    BY <2>1 DEF Prompt
  <2>6. \A w \in Tabs, d \in Commands :
          RefersTo(<<w, "drain">>, d)' <=> RefersTo(<<w, "drain">>, d)
    BY <2>1 DEF RefersTo
  <2>7. Owned'
    BY <2>3, <2>4, <2>5, <2>6 DEF IInv, Owned
  <2>8. Linked' /\ Earned' /\ SyncedIsApplied'
    BY <2>1, <2>3, ServerRests, Kinds DEF IInv, Types, Linked, Earned, SyncedIsApplied,
       serverVars, Handling
  <2> QED BY <2>1, <2>2, <2>7, <2>8, ServerRests DEF IInv
<1>2. ASSUME NEW c \in Commands, Dismiss(c) PROVE IInv'
  <2>1. conflicts' \in SUBSET Commands /\ UNCHANGED <<serverVars, outbox, job, active>>
    BY <1>2 DEF Dismiss, IInv, Types
  <2> QED BY <2>1, AtRest DEF IInv, Types
<1>3. ASSUME NEW w \in Tabs, Reload(w) PROVE IInv'
  <2>1. /\ \A x \in Jobs : job'[x] = NoJob \/ job'[x] = job[x]
        /\ job' \in [Jobs -> JobType]
        /\ UNCHANGED <<serverVars, outbox, conflicts, active>>
    BY <1>3 DEF Reload, IInv, Types, JobType
  <2>2. NoJob.at = "idle"
    BY DEF NoJob
  <2>3. Owned'
    <3>1. \A v \in Tabs : Prompt(v)'.at # "idle" => Prompt(v)' = Prompt(v)
      BY <2>1, <2>2, Seats DEF Prompt
    <3>2. \A v \in Tabs, d \in Commands :
            RefersTo(<<v, "drain">>, d)' => RefersTo(<<v, "drain">>, d)
      BY <2>1, <2>2, Seats DEF RefersTo, Handling
    <3> QED BY <2>1, <3>1, <3>2 DEF IInv, Owned
  <2>4. Linked' /\ Earned'
    BY <2>1, <2>2, ServerRests, Kinds DEF IInv, Types, Linked, Earned, serverVars, Handling
  <2> QED
    BY <2>1, <2>3, <2>4, ServerRests DEF IInv, Types, SyncedIsApplied
<1>4. ASSUME NEW t \in Calls, Serve(t) \/ BreakPromise(t) \/ Lose(t) PROVE IInv'
  <2>1. /\ Server!Serve(t) \/ Server!BreakPromise(t) \/ Server!Lose(t)
        /\ UNCHANGED clientVars
    BY <1>4 DEF Serve, BreakPromise, Lose
  <2>2. /\ ServerProofs!IInv'
        /\ \A u \in Calls \ {t} : txn'[u] = txn[u]
        /\ txn'[t].at = "idle" \/ (txn[t].at # "idle" /\ txn'[t].key = txn[t].key)
        /\ \A c \in Commands : Answered(c) => Answered(c)'
    <3>1. txn[t].at # "idle"
      BY <2>1, ServerAssumed, ServerProofs!Shapes DEF IInv, ServerProofs!IInv, Server!Lose, Server!Idle,
         Server!Serve, Server!Claim, Server!Found, Server!Perform, Server!Refuse,
         Server!Finish, Server!SendAnswer, Server!Commit, Server!Committable,
         Server!BreakPromise, ServerProofs!Idle
    <3>2. ~(\E c \in Commands, b \in Bodies : Server!Arrive(t, c, b))
      BY <3>1 DEF Server!Arrive, Server!Idle
    <3> QED BY <2>1, <3>2, ServerStep DEF IInv
  <2>3. Types' /\ Owned'
    BY <2>1 DEF clientVars, IInv, Types, Owned, Prompt, RefersTo
  <2>4. Linked'
    BY <2>1, <2>2, Kinds DEF clientVars, IInv, Types, Linked
  <2>5. Earned' /\ SyncedIsApplied'
    BY <2>1, <2>2, Kinds DEF clientVars, IInv, Types, Earned, SyncedIsApplied, Handling
  <2> QED BY <2>2, <2>3, <2>4, <2>5 DEF IInv
<1>5. ASSUME NEW w \in Tabs, NEW d \in Clubs, SwitchClub(w, d) PROVE IInv'
  <2>1. active' \in [Tabs -> Clubs] /\ UNCHANGED <<serverVars, outbox, conflicts, job>>
    BY <1>5 DEF SwitchClub, IInv, Types
  <2> QED BY <2>1, AtRest DEF IInv, Types
<1> QED BY <1>1, <1>2, <1>3, <1>4, <1>5

-----------------------------------------------------------------------------
\* The invariant is inductive.
LEMMA StepHolds == IInv /\ [Next]_vars => IInv'
<1> SUFFICES ASSUME IInv, [Next]_vars PROVE IInv'
  OBVIOUS
<1>1. CASE UNCHANGED vars
  BY <1>1, AtRest DEF vars, serverVars, IInv, Types
<1>2. ASSUME NEW x \in Jobs, Run(x) \/ GiveUp(x) PROVE IInv'
  BY <1>2, RunStep
<1>3. ASSUME NEW w \in Tabs,
             \/ \E c \in Commands : RunOffline(w, c) \/ RunOnline(w, c)
             \/ SettleCommand(w)
      PROVE  IInv'
  <2>1. CASE \E c \in Commands : RunOffline(w, c) \/ RunOnline(w, c)
    BY <2>1, CommandStep
  <2>2. CASE SettleCommand(w)
    <3>1. job[<<w, "prompt">>].cmd \in Commands
      BY <2>2, Kinds, Seats DEF SettleCommand, IInv, Types, Handling
    <3> QED BY <2>2, <3>1, CommandStep
  <2> QED BY <1>3, <2>1, <2>2
<1>4. ASSUME NEW w \in Tabs, Drain(w) \/ BreakDrain(w) PROVE IInv'
  BY <1>4, DrainStep
<1> QED BY <1>1, <1>2, <1>3, <1>4, EnvironmentStep DEF Next

LEMMA Invariance == Spec => []IInv
BY InitHolds, StepHolds, PTL DEF Spec

\* Items, jobs and the server keep their types.
THEOREM TypesHold == Spec => []TypeOK
<1>1. IInv => TypeOK
  <2> SUFFICES ASSUME IInv PROVE TypeOK
    OBVIOUS
  <2>1. Server!TypeOK
    BY DEF IInv, ServerProofs!IInv, ServerProofs!TypeOK, ServerProofs!Idle, ServerProofs!NoRow,
       ServerProofs!Effect, ServerProofs!Row, ServerProofs!Txn, ServerProofs!Reply,
       ServerProofs!Refusals, ServerProofs!Success, ServerProofs!Failure,
       Server!TypeOK, Server!Idle, Server!NoRow, Server!Effect, Server!Row, Server!Txn,
       Server!Reply, Server!Refusals, Server!Success, Server!Failure
  <2> QED BY <2>1 DEF IInv, Types, TypeOK, ItemType, Ids
<1> QED BY <1>1, Invariance, PTL

\* A command the queue has down as SYNCED was performed by the server, whatever tab wrote it,
\* however many attempts it took and whichever of them died (applyOutboxEvent, finish); where
\* the response precedes the COMMIT, unless that COMMIT is still to come or failed.
THEOREM SyncedAlwaysApplied == Spec => []SyncedIsApplied
<1>1. IInv => SyncedIsApplied
  BY DEF IInv
<1> QED BY <1>1, Invariance, PTL

\* What no drain refers to is what Settled asks of the drains.
LEMMA Leaves ==
    ASSUME NEW j \in JobType, NEW c,
           ~(j.at \in Handling /\ j.cmd = c),
           ~(j.at \in Handling \union {"recover", "next"} /\ c \in j.todo)
    PROVE  j # NoJob => c \notin j.todo /\ (j.at \in {"recover", "next"} \/ j.cmd # c)
BY DEF JobType, Handling, NoJob

\* A step leaves the item of c alone, and no drain comes to refer to it.
LeftAlone(c) ==
    /\ outbox'[c] = outbox[c]
    /\ \A w \in Tabs : ~RefersTo(<<w, "drain">>, c)'

\* A step leaves the outcome of an item alone if no drain refers to it any more.
LEMMA OutcomeStays ==
    ASSUME IInv, Next, NEW c \in Commands, Settled(c)
    PROVE  Settled(c)' /\ outbox'[c] = outbox[c]
<1> USE Items
<1>1. /\ outbox[c].status \in Final
      /\ \A w \in Tabs : ~RefersTo(<<w, "drain">>, c)
  <2> SUFFICES ASSUME NEW w \in Tabs PROVE ~RefersTo(<<w, "drain">>, c)
    BY DEF Settled
  <2> DEFINE j == job[<<w, "drain">>]
  <2>1. j # NoJob => c \notin j.todo /\ (j.at \in {"recover", "next"} \/ j.cmd # c)
    BY DEF Settled
  <2>2. j = NoJob => j.at = "idle"
    BY DEF NoJob
  <2> QED BY <2>1, <2>2 DEF RefersTo, Handling
<1>2. /\ outbox \in [Commands -> ItemType] /\ job \in [Jobs -> JobType]
      /\ IInv'
  BY StepHolds DEF IInv, Types
<1>3. outbox[c].status \notin {"NEW", "ABSENT", "PENDING", "SYNCING"}
  BY <1>1 DEF Final
<1>4. ASSUME NEW x \in Jobs, Run(x) \/ GiveUp(x)
      PROVE  LeftAlone(c)
  <2>1. job[x].at \in Handling /\ UNCHANGED outbox
    BY <1>4 DEF Run, Mismatch, BillUnchanged, BillChanged, Send, Receive, ReceiveEarly, GiveUp,
       Handling
  <2>2. PICK j : /\ job' = [job EXCEPT ![x] = j]
                 /\ j.at \in Handling /\ j.cmd = job[x].cmd /\ j.todo = job[x].todo
    <3>1. CASE BillUnchanged(x)
      <4> DEFINE j == [job[x] EXCEPT !.at = "send"]
      <4>1. job[x] \in [at : {"bill", "send", "report"}, cmd : Commands, todo : Ids]
        BY <1>2, <3>1, Kinds DEF BillUnchanged
      <4>2. j.at = "send" /\ j.cmd = job[x].cmd /\ j.todo = job[x].todo
        BY <4>1
      <4>3. job' = [job EXCEPT ![x] = j]
        BY <3>1 DEF BillUnchanged, Become
      <4> QED BY <4>2, <4>3 DEF Handling
    <3>2. ASSUME NEW event, Settle(x, event)
          PROVE  \E j : /\ job' = [job EXCEPT ![x] = j]
                        /\ j.at \in Handling /\ j.cmd = job[x].cmd /\ j.todo = job[x].todo
      BY <3>2 DEF Settle, Become, Handling
    <3>3. ASSUME NEW t \in Calls, Send(x, t)
          PROVE  \E j : /\ job' = [job EXCEPT ![x] = j]
                        /\ j.at \in Handling /\ j.cmd = job[x].cmd /\ j.todo = job[x].todo
      BY <3>3 DEF Send, Become, Handling
    <3> QED
      BY <1>4, <3>1, <3>2, <3>3 DEF Run, Mismatch, BillChanged, Receive, ReceiveEarly, GiveUp
  <2>3. job'[x] = j /\ \A y \in Jobs \ {x} : job'[y] = job[y]
    BY <1>2, <2>2
  <2> QED BY <1>1, <2>1, <2>2, <2>3, Seats DEF RefersTo, LeftAlone
<1>5. ASSUME NEW w \in Tabs, NEW d \in Commands,
             RunOffline(w, d) \/ RunOnline(w, d) \/ SettleCommand(w)
      PROVE  LeftAlone(c)
  <2> DEFINE x == <<w, "prompt">>
  <2>1. outbox'[c] = outbox[c]
    <3>1. CASE RunOffline(w, d) \/ RunOnline(w, d)
      BY <1>2, <1>3, <3>1 DEF RunOffline, RunOnline, NextId, Given, Put
    <3>2. CASE SettleCommand(w)
      <4>1. outbox[job[x].cmd].status = "ABSENT"
        BY <3>2 DEF SettleCommand, IInv, Owned, Prompt
      <4> QED BY <1>2, <1>3, <3>2, <4>1 DEF SettleCommand, Put
    <3> QED BY <1>5, <3>1, <3>2
  <2>2. \A y \in Jobs \ {x} : job'[y] = job[y]
    BY <1>2, <1>5 DEF RunOffline, RunOnline, SettleCommand, Become
  <2> QED BY <1>1, <2>1, <2>2, Seats DEF RefersTo, LeftAlone
<1>6. ASSUME NEW w \in Tabs, Drain(w) \/ BreakDrain(w)
      PROVE  LeftAlone(c)
  <2> DEFINE x == <<w, "drain">>
  <2>1. x \in Jobs /\ ~RefersTo(x, c)
    BY <1>1, Seats
  <2>2. ASSUME outbox'[c] = outbox[c], NEW j, Become(x, j),
               ~(j.at \in Handling /\ j.cmd = c),
               ~(j.at \in Handling \union {"recover", "next"} /\ c \in j.todo)
        PROVE  LeftAlone(c)
    <3>1. job'[x] = j /\ \A y \in Jobs \ {x} : job'[y] = job[y]
      BY <1>2, <2>1, <2>2 DEF Become
    <3> QED BY <1>1, <2>2, <3>1, Seats DEF RefersTo, LeftAlone
  <2>3. CASE StartDrain(w) \/ List(w)
    <3>1. c \notin Interrupted /\ ~Sendable(c, active[w])
      BY <1>3 DEF Interrupted, Sendable
    <3> QED BY <2>2, <2>3, <3>1 DEF StartDrain, List, Handling
  <2>4. CASE Recover(w) \/ Attempt(w)
    <3> DEFINE d == Min(job[x].todo)
    <3>1. job[x].at \in {"recover", "next"} /\ job[x].todo # {} /\ c \notin job[x].todo
      BY <2>1, <2>4 DEF Recover, Attempt, RefersTo
    <3>2. job[x].todo \in SUBSET Commands
      BY <1>2, <2>1, <3>1, Kinds DEF Ids
    <3>3. d # c
      BY <3>1, <3>2, First
    <3> HIDE DEF d
    <3>4. outbox'[c] = outbox[c]
      BY <1>2, <2>4, <3>3 DEF Recover, Attempt, Put, d
    <3>5. CASE Recover(w)
      <4>1. job[x] \in [at : {"recover", "next"}, todo : Ids]
        BY <1>2, <2>1, <3>1, Kinds
      <4> DEFINE j == [job[x] EXCEPT !.todo = @ \ {d}]
      <4>2. j.at = "recover" /\ j.todo = job[x].todo \ {d}
        BY <3>5, <4>1 DEF Recover
      <4>3. Become(x, j)
        BY <3>5 DEF Recover, d
      <4> QED BY <2>2, <3>1, <3>4, <4>2, <4>3 DEF Handling
    <3>6. CASE Attempt(w)
      BY <2>2, <3>1, <3>3, <3>4, <3>6 DEF Attempt, Execute, d
    <3> QED BY <2>4, <3>5, <3>6
  <2>5. CASE SettleItem(w) \/ Report(w)
    <3>1. job[x].cmd # c /\ c \notin job[x].todo
      BY <2>1, <2>5 DEF SettleItem, Report, RefersTo, Handling
    <3>2. outbox'[c] = outbox[c]
      BY <1>2, <2>5, <3>1 DEF SettleItem, Report, Put
    <3> QED BY <2>2, <2>5, <3>1, <3>2 DEF SettleItem, Report, Handling
  <2>6. CASE EndDrain(w) \/ BreakDrain(w)
    BY <2>2, <2>6 DEF EndDrain, BreakDrain, NoJob, Handling
  <2> QED BY <1>6, <2>3, <2>4, <2>5, <2>6 DEF Drain
<1>7. ASSUME \/ \E d \in Commands : Ripen(d) \/ Dismiss(d)
             \/ \E w \in Tabs : Reload(w) \/ \E d \in Clubs : SwitchClub(w, d)
             \/ \E t \in Calls : Serve(t) \/ BreakPromise(t) \/ Lose(t)
      PROVE  LeftAlone(c)
  <2>1. outbox'[c] = outbox[c]
    BY <1>2, <1>3, <1>7 DEF Ripen, Put, Dismiss, Reload, SwitchClub, Serve, BreakPromise, Lose,
       clientVars
  <2>2. \A x \in Jobs : job'[x] = job[x] \/ job'[x] = NoJob
    BY <1>7 DEF Ripen, Dismiss, Reload, SwitchClub, Serve, BreakPromise, Lose, clientVars
  <2>3. NoJob.at \notin Handling \union {"recover", "next"}
    BY DEF NoJob, Handling
  <2> QED BY <1>1, <2>1, <2>2, <2>3, Seats DEF RefersTo, LeftAlone
<1>8. LeftAlone(c)
  BY <1>4, <1>5, <1>6, <1>7 DEF Next
<1>9. \A w \in Tabs : LET j == job'[<<w, "drain">>]
                      IN  j # NoJob =>
                            c \notin j.todo /\ (j.at \in {"recover", "next"} \/ j.cmd # c)
  <2> SUFFICES ASSUME NEW w \in Tabs
               PROVE  job'[<<w, "drain">>] # NoJob =>
                        /\ c \notin job'[<<w, "drain">>].todo
                        /\ \/ job'[<<w, "drain">>].at \in {"recover", "next"}
                           \/ job'[<<w, "drain">>].cmd # c
    OBVIOUS
  <2>1. job'[<<w, "drain">>] \in JobType
    BY <1>2, Seats DEF IInv, Types
  <2> QED BY <1>8, <2>1, Leaves DEF LeftAlone, RefersTo
<1> QED BY <1>1, <1>8, <1>9 DEF Settled, LeftAlone

\* An outcome no drain refers to any more is for good: no command is sent again after the
\* queue says SYNCED, FAILED or CONFLICT of it, but by a tab that listed it before
\* (isRetryable, attemptOne).
THEOREM OutcomesAreForEver == Spec => SettledForEver
<1>1. IInv /\ [Next]_vars =>
        [\A c \in Commands : Settled(c) => Settled(c)' /\ outbox'[c] = outbox[c]]_vars
  BY OutcomeStays
<1> QED BY <1>1, Invariance, PTL DEF Spec, SettledForEver

=============================================================================
