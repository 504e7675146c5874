----------------------------- MODULE Idempotency -----------------------------
(***************************************************************************)
(* Requests that carry an Idempotency-Key (core/idempotency.py and the     *)
(* routers that call begin, the service and finish inside one              *)
(* transaction).                                                           *)
(*                                                                         *)
(* begin() INSERTs the key in a SAVEPOINT: an uncommitted row of another   *)
(* transaction makes the INSERT wait, a committed one makes it fail with   *)
(* 23505, after which the stored answer is read.  A key here is the triple *)
(* (club_id, idempotency_key, route) of the unique constraint; a body is   *)
(* what _hash() tells apart.                                               *)
(*                                                                         *)
(* COMMIT is the exit of the yield dependency db() (deps.py).  FastAPI     *)
(* runs that exit before it sends the response up to 0.117 and after it    *)
(* from 0.118; pyproject.toml admits every version from 0.115.  A refusal  *)
(* is an exception and rolls back before it is answered in all of them.    *)
(***************************************************************************)
EXTENDS Sequences

CONSTANTS
    Keys,     \* keys of requests
    Bodies,   \* request_hash of requests
    Results,  \* answers of a service that succeeded
    Calls,    \* requests that may be processed at the same time
    AnswersEarly  \* the response is sent before the COMMIT: FastAPI 0.118 and later

ASSUME IdempotencyAssumption == AnswersEarly \in BOOLEAN

VARIABLES
    keys,     \* keys[k]: the committed row of idempotency_keys, or NoRow
    txn,      \* txn[t]: the request that call t processes
    effects,  \* effects[k]: what committed transactions did under key k
    told,     \* told[k]: the answers of success clients received under key k
    broken    \* broken[k]: the successes that were answered and whose COMMIT then failed

serverVars == <<keys, txn, effects, told, broken>>

Idle == [at |-> "idle"]

NoRow == [done |-> FALSE]

Effect == [body : Bodies, result : Results]

\* completed_at is filled: the row has an answer
Row == [done : {TRUE}, completed : BOOLEAN, body : Bodies, result : Results]

\* A rolled back service: 4xx, a version conflict, or 5xx
Refusals == {"BUSINESS", "VERSION_CONFLICT", "SERVER_ERROR"}

Success(r) == [ok |-> TRUE, result |-> r]

Failure(code) == [ok |-> FALSE, code |-> code]

Reply ==
    {Success(r) : r \in Results}
      \union {Failure(c) : c \in Refusals \union {"KEY_REUSED", "IN_PROGRESS"}}

Txn ==
    [at : {"begin", "claimed"}, key : Keys, body : Bodies]
      \union [at : {"performed", "finished", "answered"}, key : Keys, body : Bodies,
              result : Results]
      \union [at : {"replied"}, key : Keys, body : Bodies, reply : Reply]

\* Transaction t holds an uncommitted row for key k.
Holds(t, k) ==
    txn[t].at \in {"claimed", "performed", "finished", "answered"} /\ txn[t].key = k

\* What the request of call t does, once its service has run
Done(t) == [body |-> txn[t].body, result |-> txn[t].result]

Goto(t, step, reply) ==
    txn' = [txn EXCEPT ![t] = [at |-> step, key |-> @.key, body |-> @.body, reply |-> reply]]

-----------------------------------------------------------------------------
Arrive(t, k, b) ==
    /\ txn[t] = Idle
    /\ txn' = [txn EXCEPT ![t] = [at |-> "begin", key |-> k, body |-> b]]
    /\ UNCHANGED <<keys, effects, told, broken>>

\* Mutant: SELECT, then INSERT, without the unique constraint.
Taken_Committed(k) == keys[k] # NoRow

\* idempotency_keys_club_key_route_uk
Taken(k) == keys[k] # NoRow \/ \E t \in Calls : Holds(t, k)

\* The INSERT succeeds.
Claim(t) ==
    /\ txn[t].at = "begin"
    /\ ~Taken(txn[t].key)
    /\ txn' = [txn EXCEPT ![t].at = "claimed"]
    /\ UNCHANGED <<keys, effects, told, broken>>

\* Mutant: the hash of the request is not compared.
Answer_AnyBody(row, b) ==
    IF row.completed THEN Success(row.result) ELSE Failure("IN_PROGRESS")

\* Mutant: the stored body is handed out without its status.
Answer_Bare(row, b) == row.result

Answer(row, b) ==
    IF row.body # b THEN Failure("KEY_REUSED")
    ELSE IF row.completed THEN Success(row.result) ELSE Failure("IN_PROGRESS")

\* The INSERT fails with 23505 and the committed row is read.
Found(t) ==
    /\ txn[t].at = "begin"
    /\ keys[txn[t].key] # NoRow
    /\ Goto(t, "replied", Answer(keys[txn[t].key], txn[t].body))
    /\ UNCHANGED <<keys, effects, told, broken>>

\* The service changes its rows in the same transaction.
Perform(t, r) ==
    /\ txn[t].at = "claimed"
    /\ txn' = [txn EXCEPT ![t] =
                 [at |-> "performed", key |-> @.key, body |-> @.body, result |-> r]]
    /\ UNCHANGED <<keys, effects, told, broken>>

\* The service raises: the rollback removes the key as well.
Refuse(t, code) ==
    /\ txn[t].at = "claimed"
    /\ Goto(t, "replied", Failure(code))
    /\ UNCHANGED <<keys, effects, told, broken>>

\* finish()
Finish(t) ==
    /\ txn[t].at = "performed"
    /\ txn' = [txn EXCEPT ![t].at = "finished"]
    /\ UNCHANGED <<keys, effects, told, broken>>

\* The response goes out while the transaction is still open.
SendAnswer(t) ==
    /\ AnswersEarly
    /\ txn[t].at = "finished"
    /\ txn' = [txn EXCEPT ![t].at = "answered"]
    /\ UNCHANGED <<keys, effects, told, broken>>

\* Mutant: a router returns without calling finish().
Committable_Unfinished(t) ==
    txn[t].at \in {"performed", IF AnswersEarly THEN "answered" ELSE "finished"}

Committable(t) == txn[t].at = IF AnswersEarly THEN "answered" ELSE "finished"

\* COMMIT of session_scope(): the key and the effect together
Commit(t) ==
    LET q == txn[t]
    IN  /\ Committable(t)
        /\ keys' = [keys EXCEPT ![q.key] =
                      [done |-> TRUE, completed |-> q.at # "performed",
                       body |-> q.body, result |-> q.result]]
        /\ effects' = [effects EXCEPT ![q.key] = Append(@, Done(t))]
        /\ Goto(t, "replied", Success(q.result))
        /\ UNCHANGED <<told, broken>>

\* The COMMIT fails, or the process dies before it, with the answer on its way.
BreakPromise(t) ==
    /\ txn[t].at = "answered"
    /\ broken' = [broken EXCEPT ![txn[t].key] = @ \union {Done(t)}]
    /\ Goto(t, "replied", Success(txn[t].result))
    /\ UNCHANGED <<keys, effects, told>>

\* The client receives an answer whose transaction is still open.
DeliverEarly(t) ==
    /\ txn[t].at = "answered"
    /\ told' = [told EXCEPT ![txn[t].key] = @ \union {Done(t)}]
    /\ UNCHANGED <<keys, txn, effects, broken>>

\* The client receives the answer of a transaction that has ended.
Deliver(t) ==
    LET q == txn[t]
    IN  /\ q.at = "replied"
        /\ told' = IF q.reply.ok
                   THEN [told EXCEPT ![q.key] =
                           @ \union {[body |-> q.body, result |-> q.reply.result]}]
                   ELSE told
        /\ txn' = [txn EXCEPT ![t] = Idle]
        /\ UNCHANGED <<keys, effects, broken>>

\* The process dies before it answers and commits, or the answer finds nobody.
Lose(t) ==
    /\ txn[t].at \notin {"idle", "answered"}
    /\ txn' = [txn EXCEPT ![t] = Idle]
    /\ UNCHANGED <<keys, effects, told, broken>>

-----------------------------------------------------------------------------
Init ==
    /\ keys = [k \in Keys |-> NoRow]
    /\ txn = [t \in Calls |-> Idle]
    /\ effects = [k \in Keys |-> <<>>]
    /\ told = [k \in Keys |-> {}]
    /\ broken = [k \in Keys |-> {}]

Serve(t) ==
    \/ Claim(t)
    \/ Found(t)
    \/ \E r \in Results : Perform(t, r)
    \/ \E code \in Refusals : Refuse(t, code)
    \/ Finish(t)
    \/ SendAnswer(t)
    \/ Commit(t)

Next ==
    \E t \in Calls :
        \/ \E k \in Keys, b \in Bodies : Arrive(t, k, b)
        \/ Serve(t)
        \/ BreakPromise(t)
        \/ DeliverEarly(t)
        \/ Deliver(t)
        \/ Lose(t)

Spec == Init /\ [][Next]_serverVars

-----------------------------------------------------------------------------
\* Properties

\* Rows, transactions and both histories keep their type.
TypeOK ==
    /\ keys \in [Keys -> {NoRow} \union Row]
    /\ txn \in [Calls -> {Idle} \union Txn]
    /\ effects \in [Keys -> Seq(Effect)]
    /\ told \in [Keys -> SUBSET Effect]
    /\ broken \in [Keys -> SUBSET Effect]

\* The comment in begin(): a committed row is always complete, so nobody is
\* ever answered IDEMPOTENCY_IN_PROGRESS, however requests overlap or die.
NeverInProgress ==
    \A t \in Calls : txn[t].at = "replied" => txn[t].reply # Failure("IN_PROGRESS")

\* What has been answered under key k by a transaction that is still open
Promised(k) == {Done(t) : t \in {u \in Calls : txn[u].at = "answered" /\ txn[u].key = k}}

Promise == INSTANCE Once WITH promised <- [k \in Keys |-> Promised(k)]

\* However often, late or concurrently a request is repeated, its action is performed at most
\* once (begin, finish), and whoever is told of success sent that very request and is told of
\* that one effect.  With a response that precedes the COMMIT one more thing may happen: a
\* success is answered whose COMMIT then fails, and nothing was done.
ImplementsOnce == Promise!Spec

\* The docstring of core/idempotency.py (lines 3-6): "the action is performed only ONCE, the
\* first answer is repeated exactly".  So two answers of success under one key are the same.
FirstAnswerRepeated == \A k \in Keys : \A e, f \in told[k] : e = f

=============================================================================
