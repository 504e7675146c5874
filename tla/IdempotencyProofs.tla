-------------------------- MODULE IdempotencyProofs --------------------------
(***************************************************************************)
(* What the idempotency key guarantees, for any number of keys, bodies,    *)
(* answers and overlapping calls.                                          *)
(*                                                                         *)
(* The strengthening has four parts.  Exclusive: the unique constraint     *)
(* lets one transaction at a time work under a key, and none once the key  *)
(* is committed.  Recorded: the committed row is the record of the one     *)
(* effect.  Honest: an answer of success repeats that row, or its COMMIT   *)
(* failed after it was sent.  InOrder: only where the response precedes    *)
(* the COMMIT is there an answer from an open transaction, or one that     *)
(* came to nothing.                                                        *)
(***************************************************************************)
EXTENDS Idempotency, TLAPS

Exclusive ==
    \A t \in Calls, k \in Keys : Holds(t, k) =>
        keys[k] = NoRow /\ \A u \in Calls : Holds(u, k) => u = t

Recorded ==
    \A k \in Keys :
        \/ keys[k] = NoRow /\ effects[k] = <<>>
        \/ /\ keys[k] # NoRow
           /\ keys[k].completed
           /\ effects[k] = <<[body |-> keys[k].body, result |-> keys[k].result]>>

Honest ==
    \A t \in Calls : txn[t].at = "replied" /\ txn[t].reply.ok =>
        \/ /\ keys[txn[t].key] # NoRow
           /\ txn[t].body = keys[txn[t].key].body
           /\ txn[t].reply.result = keys[txn[t].key].result
        \/ [body |-> txn[t].body, result |-> txn[t].reply.result] \in broken[txn[t].key]

InOrder ==
    /\ \A t \in Calls : txn[t].at = "answered" => AnswersEarly
    /\ \A k \in Keys : broken[k] # {} => AnswersEarly

IInv == TypeOK /\ Exclusive /\ Recorded /\ Honest /\ InOrder /\ NeverInProgress

\* One step of the server or of the network.
Step(t) ==
    \/ \E k \in Keys, b \in Bodies : Arrive(t, k, b)
    \/ Serve(t)
    \/ BreakPromise(t)
    \/ DeliverEarly(t)
    \/ Deliver(t)
    \/ Lose(t)

\* A transaction is one of five shapes; the fields of each have their type.
LEMMA Shapes ==
    ASSUME TypeOK, NEW t \in Calls
    PROVE  /\ txn[t] = Idle \/ txn[t] \in Txn
           /\ txn[t].at \in {"idle", "begin", "claimed", "performed", "finished", "answered", "replied"}
           /\ txn[t].at = "idle" <=> txn[t] = Idle
           /\ txn[t].at \in {"begin", "claimed"} =>
                txn[t] \in [at : {"begin", "claimed"}, key : Keys, body : Bodies]
           /\ txn[t].at \in {"performed", "finished", "answered"} =>
                txn[t] \in [at : {"performed", "finished", "answered"}, key : Keys,
                            body : Bodies, result : Results] /\ Done(t) \in Effect
           /\ txn[t].at = "replied" =>
                txn[t] \in [at : {"replied"}, key : Keys, body : Bodies, reply : Reply]
<1>1. txn[t] = Idle \/ txn[t] \in Txn
  BY DEF TypeOK
<1>2. CASE txn[t] = Idle
  BY <1>2 DEF Idle
<1>3. CASE txn[t] \in Txn
  BY <1>3 DEF Txn, Idle, Done, Effect
<1> QED BY <1>1, <1>2, <1>3

\* An answer of success carries a result, one of failure a code.
LEMMA Replies ==
    ASSUME NEW p \in Reply
    PROVE  /\ p.ok \in BOOLEAN
           /\ p.ok => p.result \in Results
<1>1. CASE \E r \in Results : p = Success(r)
  BY <1>1 DEF Success
<1>2. CASE \E c \in Refusals \union {"KEY_REUSED", "IN_PROGRESS"} : p = Failure(c)
  BY <1>2 DEF Failure
<1> QED BY <1>1, <1>2 DEF Reply

LEMMA Codes ==
    ASSUME NEW c
    PROVE  Failure(c).ok = FALSE /\ Failure(c).code = c
BY DEF Failure

\* What begin() reads is an answer: the stored one, or a refusal.
LEMMA Answers ==
    ASSUME NEW row \in Row, NEW b \in Bodies
    PROVE  /\ Answer(row, b) \in Reply
           /\ Answer(row, b).ok => row.body = b /\ Answer(row, b).result = row.result
           /\ row.completed => Answer(row, b) # Failure("IN_PROGRESS")
BY DEF Row, Answer, Reply, Success, Failure

LEMMA InitHolds == Init => IInv
<1> SUFFICES ASSUME Init PROVE IInv
  OBVIOUS
<1>1. TypeOK
  BY DEF Init, TypeOK, NoRow, Idle
<1>2. \A t \in Calls : txn[t].at = "idle"
  BY DEF Init, Idle
<1> QED
  BY <1>1, <1>2 DEF IInv, Exclusive, Recorded, Honest, InOrder, NeverInProgress, Init, Holds

-----------------------------------------------------------------------------
\* Every row, every call and both histories keep their type.
LEMMA TypeStep == TypeOK /\ [Next]_serverVars => TypeOK'
<1> SUFFICES ASSUME TypeOK, [Next]_serverVars PROVE TypeOK'
  OBVIOUS
<1>1. CASE UNCHANGED serverVars
  BY <1>1 DEF TypeOK, serverVars
<1>2. ASSUME NEW t \in Calls, Step(t) PROVE TypeOK'
  <2> USE Shapes DEF TypeOK
  <2>1. CASE \E k \in Keys, b \in Bodies : Arrive(t, k, b)
    BY <2>1 DEF Arrive, Txn
  <2>2. CASE Claim(t)
    BY <2>2 DEF Claim, Txn
  <2>3. CASE Found(t)
    <3>1. keys[txn[t].key] \in Row /\ txn[t].key \in Keys /\ txn[t].body \in Bodies
      BY <2>3 DEF Found, NoRow
    <3>2. Answer(keys[txn[t].key], txn[t].body) \in Reply
      BY <3>1, Answers
    <3>3. txn'[t] \in Txn
      BY <2>3, <3>1, <3>2 DEF Found, Goto, Txn
    <3> QED BY <2>3, <3>3 DEF Found, Goto
  <2>4. CASE \E r \in Results : Perform(t, r)
    BY <2>4 DEF Perform, Txn
  <2>5. CASE \E code \in Refusals : Refuse(t, code)
    <3>1. PICK code \in Refusals : Refuse(t, code)
      BY <2>5
    <3>2. Failure(code) \in Reply
      BY DEF Reply
    <3>3. txn'[t] \in Txn
      BY <3>1, <3>2 DEF Refuse, Goto, Txn
    <3> QED BY <3>1, <3>3 DEF Refuse, Goto
  <2>6. CASE Finish(t)
    BY <2>6 DEF Finish, Txn
  <2>7. CASE Commit(t)
    <3>1. /\ txn[t].at \in {"finished", "answered"} /\ txn[t].key \in Keys
          /\ txn[t].body \in Bodies /\ txn[t].result \in Results
      BY <2>7 DEF Commit, Committable
    <3>2. Success(txn[t].result) \in Reply
      BY <3>1 DEF Reply
    <3>3. txn' \in [Calls -> {Idle} \union Txn]
      BY <2>7, <3>1, <3>2 DEF Commit, Goto, Txn
    <3>4. keys' \in [Keys -> {NoRow} \union Row]
      BY <2>7, <3>1 DEF Commit, Row
    <3>5. Done(t) \in Effect
      BY <3>1 DEF Effect, Done
    <3>6. effects' \in [Keys -> Seq(Effect)]
      BY <2>7, <3>1, <3>5 DEF Commit
    <3> QED BY <2>7, <3>3, <3>4, <3>6 DEF Commit
  <2>8. CASE Deliver(t)
    <3>1. txn[t].at = "replied" /\ txn[t].body \in Bodies /\ txn[t].reply \in Reply
      BY <2>8 DEF Deliver
    <3>2. txn[t].reply.ok =>
            [body |-> txn[t].body, result |-> txn[t].reply.result] \in Effect
      BY <3>1, Replies DEF Effect
    <3>3. told' \in [Keys -> SUBSET Effect]
      BY <2>8, <3>2 DEF Deliver
    <3> QED BY <2>8, <3>3 DEF Deliver
  <2>9. CASE Lose(t)
    BY <2>9 DEF Lose
  <2>10. CASE SendAnswer(t)
    BY <2>10 DEF SendAnswer, Txn
  <2>11. CASE BreakPromise(t)
    <3>1. /\ txn[t].at = "answered" /\ txn[t].key \in Keys /\ txn[t].body \in Bodies
          /\ txn[t].result \in Results /\ Done(t) \in Effect
      BY <2>11 DEF BreakPromise
    <3>2. Success(txn[t].result) \in Reply
      BY <3>1 DEF Reply
    <3>3. txn' \in [Calls -> {Idle} \union Txn]
      BY <2>11, <3>1, <3>2 DEF BreakPromise, Goto, Txn
    <3>4. broken' \in [Keys -> SUBSET Effect]
      BY <2>11, <3>1 DEF BreakPromise
    <3> QED BY <2>11, <3>3, <3>4 DEF BreakPromise
  <2>12. CASE DeliverEarly(t)
    <3>1. Done(t) \in Effect
      BY <2>12 DEF DeliverEarly
    <3>2. told' \in [Keys -> SUBSET Effect]
      BY <2>12, <3>1 DEF DeliverEarly
    <3> QED BY <2>12, <3>2 DEF DeliverEarly
  <2> QED
    BY <1>2, <2>1, <2>2, <2>3, <2>4, <2>5, <2>6, <2>7, <2>8, <2>9, <2>10, <2>11, <2>12
    DEF Step, Serve
<1> QED BY <1>1, <1>2 DEF Next, Step

-----------------------------------------------------------------------------
\* Only the call that moves changes its place, and no row ever goes away.
LEMMA OthersStay ==
    ASSUME TypeOK, NEW t \in Calls, Step(t)
    PROVE  /\ \A u \in Calls \ {t} : txn'[u] = txn[u]
           /\ \A k \in Keys : keys[k] # NoRow => keys'[k] = keys[k] \/ Commit(t)
<1> USE DEF TypeOK
<1>1. ASSUME NEW k \in Keys, NEW b \in Bodies, Arrive(t, k, b)
      PROVE  txn' = [txn EXCEPT ![t] = txn'[t]] /\ keys' = keys
  BY <1>1 DEF Arrive
<1>2. ASSUME Serve(t) PROVE  txn' = [txn EXCEPT ![t] = txn'[t]] /\ (keys' = keys \/ Commit(t))
  <2>1. CASE Claim(t)
    BY <2>1 DEF Claim
  <2>2. CASE Found(t)
    BY <2>2 DEF Found, Goto
  <2>3. CASE \E r \in Results : Perform(t, r)
    BY <2>3 DEF Perform
  <2>4. CASE \E code \in Refusals : Refuse(t, code)
    BY <2>4 DEF Refuse, Goto
  <2>5. CASE Finish(t)
    BY <2>5 DEF Finish
  <2>6. CASE Commit(t)
    BY <2>6 DEF Commit, Goto
  <2>7. CASE SendAnswer(t)
    BY <2>7 DEF SendAnswer
  <2> QED BY <1>2, <2>1, <2>2, <2>3, <2>4, <2>5, <2>6, <2>7 DEF Serve
<1>3. ASSUME Deliver(t) PROVE txn' = [txn EXCEPT ![t] = txn'[t]] /\ keys' = keys
  BY <1>3 DEF Deliver
<1>4. ASSUME Lose(t) PROVE txn' = [txn EXCEPT ![t] = txn'[t]] /\ keys' = keys
  BY <1>4 DEF Lose
<1>5. ASSUME BreakPromise(t) \/ DeliverEarly(t)
      PROVE  txn' = [txn EXCEPT ![t] = txn'[t]] /\ keys' = keys
  BY <1>5 DEF BreakPromise, DeliverEarly, Goto
<1>6. txn' = [txn EXCEPT ![t] = txn'[t]] /\ (keys' = keys \/ Commit(t))
  BY <1>1, <1>2, <1>3, <1>4, <1>5 DEF Step
<1> QED BY <1>6

\* A call works under a key only if it did before, or its INSERT succeeded.
LEMMA NewHolder ==
    ASSUME TypeOK, TypeOK', NEW t \in Calls, Step(t), NEW k \in Keys, Holds(t, k)'
    PROVE  /\ ~Commit(t)
           /\ Holds(t, k) \/ (Claim(t) /\ txn[t].key = k)
<1> USE Shapes DEF TypeOK, Holds
<1>1. CASE \E j \in Keys, b \in Bodies : Arrive(t, j, b)
  BY <1>1 DEF Arrive
<1>2. CASE Claim(t)
  BY <1>2 DEF Claim, Commit, Committable
<1>3. CASE Found(t)
  BY <1>3 DEF Found, Goto
<1>4. CASE \E r \in Results : Perform(t, r)
  BY <1>4 DEF Perform, Commit, Committable
<1>5. CASE \E code \in Refusals : Refuse(t, code)
  BY <1>5 DEF Refuse, Goto
<1>6. CASE Finish(t)
  BY <1>6 DEF Finish, Commit, Committable
<1>7. CASE Commit(t)
  BY <1>7 DEF Commit, Goto
<1>8. CASE Deliver(t)
  BY <1>8 DEF Deliver, Idle
<1>9. CASE Lose(t)
  BY <1>9 DEF Lose, Idle
<1>10. CASE SendAnswer(t)
  BY <1>10 DEF SendAnswer, Commit, Goto
<1>11. CASE BreakPromise(t)
  BY <1>11 DEF BreakPromise, Goto
<1>12. CASE DeliverEarly(t)
  BY <1>12 DEF DeliverEarly, Commit, Goto
<1> QED
  BY <1>1, <1>2, <1>3, <1>4, <1>5, <1>6, <1>7, <1>8, <1>9, <1>10, <1>11, <1>12 DEF Step, Serve

\* The unique constraint keeps two transactions apart.
LEMMA ExclusiveStep ==
    ASSUME TypeOK, TypeOK', Exclusive, NEW t \in Calls, Step(t)
    PROVE  Exclusive'
<1> SUFFICES ASSUME NEW v \in Calls, NEW k \in Keys, Holds(v, k)'
             PROVE  keys'[k] = NoRow /\ \A u \in Calls : Holds(u, k)' => u = v
  BY DEF Exclusive
<1>1. \A u \in Calls \ {t} : Holds(u, k)' <=> Holds(u, k)
  BY OthersStay DEF Holds
<1>2. ASSUME Holds(t, k)' PROVE ~Commit(t) /\ (Holds(t, k) \/ (Claim(t) /\ txn[t].key = k))
  BY <1>2, NewHolder
<1>3. ASSUME NEW u \in Calls, Holds(u, k)' PROVE Holds(u, k) \/ (u = t /\ Claim(t) /\ txn[t].key = k)
  BY <1>1, <1>2, <1>3
<1>4. Claim(t) /\ txn[t].key = k => keys[k] = NoRow /\ \A u \in Calls : ~Holds(u, k)
  BY DEF Claim, Taken
<1>5. ASSUME NEW u \in Calls, Holds(u, k)' PROVE u = v
  BY <1>3, <1>4, <1>5 DEF Exclusive
<1>6. keys[k] = NoRow
  BY <1>3, <1>4 DEF Exclusive
<1>7. keys'[k] = NoRow
  <2>1. CASE Commit(t)
    <3>1. v # t
      BY <1>2, <2>1
    <3>2. Holds(v, k)
      BY <1>1, <3>1
    <3>3. Holds(t, txn[t].key) /\ txn[t].key \in Keys
      BY <2>1, Shapes DEF Commit, Committable, Holds
    <3>4. txn[t].key # k
      BY <3>1, <3>2, <3>3 DEF Exclusive
    <3> QED BY <2>1, <3>4, <1>6 DEF Commit, TypeOK
  <2>2. CASE ~Commit(t)
    <3>1. keys' = keys
      BY <2>2 DEF Step, Serve, Arrive, Claim, Found, Perform, Refuse, Finish, SendAnswer, BreakPromise,
       DeliverEarly, Deliver, Lose
    <3> QED BY <3>1, <1>6
  <2> QED BY <2>1, <2>2
<1> QED BY <1>5, <1>7

-----------------------------------------------------------------------------
\* A commit finds the key free, and leaves row and effect in agreement.
LEMMA CommitRecords ==
    ASSUME IInv, NEW t \in Calls, Commit(t)
    PROVE  /\ txn[t].key \in Keys /\ txn[t].body \in Bodies /\ txn[t].result \in Results
           /\ effects[txn[t].key] = <<>>
           /\ effects' = [effects EXCEPT ![txn[t].key] = <<Done(t)>>]
           /\ Done(t) = [body |-> txn[t].body, result |-> txn[t].result]
           /\ keys' = [keys EXCEPT ![txn[t].key] =
                         [done |-> TRUE, completed |-> TRUE,
                          body |-> txn[t].body, result |-> txn[t].result]]
<1>1. /\ txn[t].at \in {"finished", "answered"} /\ txn[t].key \in Keys
      /\ txn[t].body \in Bodies /\ txn[t].result \in Results
  BY Shapes DEF IInv, Commit, Committable
<1>2. keys[txn[t].key] = NoRow
  BY <1>1 DEF IInv, Exclusive, Holds
<1>3. effects[txn[t].key] = <<>>
  BY <1>1, <1>2 DEF IInv, Recorded
<1>4. Append(effects[txn[t].key], Done(t)) = <<Done(t)>>
  BY <1>3
<1> QED BY <1>1, <1>3, <1>4 DEF Commit, Done

LEMMA RecordedStep ==
    ASSUME IInv, NEW t \in Calls, Step(t)
    PROVE  Recorded'
<1>1. CASE Commit(t)
  <2> DEFINE k == txn[t].key
  <2> DEFINE row == [done |-> TRUE, completed |-> TRUE,
                     body |-> txn[t].body, result |-> txn[t].result]
             e == [body |-> txn[t].body, result |-> txn[t].result]
  <2>0. /\ k \in Keys
        /\ keys' = [keys EXCEPT ![k] = row] /\ effects' = [effects EXCEPT ![k] = <<e>>]
    BY <1>1, CommitRecords
  <2>1. \A j \in Keys \ {k} : keys'[j] = keys[j] /\ effects'[j] = effects[j]
    BY <2>0 DEF IInv, TypeOK
  <2>2. keys'[k] = row /\ effects'[k] = <<e>>
    BY <2>0 DEF IInv, TypeOK
  <2>3. /\ keys'[k] # NoRow
        /\ keys'[k].completed
        /\ effects'[k] = <<[body |-> keys'[k].body, result |-> keys'[k].result]>>
    BY <2>2 DEF NoRow
  <2> QED BY <2>1, <2>3 DEF Recorded, IInv
<1>2. CASE ~Commit(t)
  <2>1. keys' = keys /\ effects' = effects
    BY <1>2 DEF Step, Serve, Arrive, Claim, Found, Perform, Refuse, Finish, SendAnswer, BreakPromise,
       DeliverEarly, Deliver, Lose
  <2> QED BY <2>1 DEF Recorded, IInv
<1> QED BY <1>1, <1>2

\* An answer is only ever given to a call that was working or reading.
LEMMA NewAnswer ==
    ASSUME IInv, TypeOK', NEW t \in Calls, Step(t), txn'[t].at = "replied"
    PROVE  /\ txn'[t].reply # Failure("IN_PROGRESS")
           /\ txn'[t].reply.ok =>
                \/ /\ keys'[txn'[t].key] # NoRow
                   /\ txn'[t].body = keys'[txn'[t].key].body
                   /\ txn'[t].reply.result = keys'[txn'[t].key].result
                \/ [body |-> txn'[t].body, result |-> txn'[t].reply.result]
                     \in broken'[txn'[t].key]
<1> USE DEF IInv
<1>1. CASE \E k \in Keys, b \in Bodies : Arrive(t, k, b)
  BY <1>1 DEF Arrive, TypeOK
<1>2. CASE Claim(t)
  BY <1>2, Shapes DEF Claim, TypeOK
<1>3. CASE Found(t)
  <2> DEFINE k == txn[t].key
             row == keys[txn[t].key]
  <2>1. k \in Keys /\ txn[t].body \in Bodies /\ row \in Row /\ row.completed
    BY <1>3, Shapes DEF Found, TypeOK, Recorded
  <2>2. /\ txn'[t].key = k /\ txn'[t].body = txn[t].body
        /\ txn'[t].reply = Answer(row, txn[t].body)
    BY <1>3 DEF Found, Goto, TypeOK
  <2>3. keys' = keys /\ row # NoRow
    BY <1>3 DEF Found
  <2> QED BY <2>1, <2>2, <2>3, Answers
<1>4. CASE \E r \in Results : Perform(t, r)
  BY <1>4 DEF Perform, TypeOK
<1>5. CASE \E code \in Refusals : Refuse(t, code)
  <2>1. PICK code \in Refusals : Refuse(t, code)
    BY <1>5
  <2>2. txn'[t].reply = Failure(code)
    BY <2>1 DEF Refuse, Goto, TypeOK
  <2>3. code # "IN_PROGRESS"
    BY DEF Refusals
  <2> QED BY <2>2, <2>3, Codes
<1>6. CASE Finish(t)
  BY <1>6, Shapes DEF Finish, TypeOK
<1>7. CASE Commit(t)
  <2> DEFINE k == txn[t].key
  <2>1. /\ txn'[t].key = k /\ txn'[t].body = txn[t].body
        /\ txn'[t].reply = Success(txn[t].result)
    BY <1>7 DEF Commit, Goto, TypeOK
  <2>2. /\ keys'[k] = [done |-> TRUE, completed |-> TRUE,
                       body |-> txn[t].body, result |-> txn[t].result]
    BY <1>7, CommitRecords DEF TypeOK
  <2>3. /\ txn'[t].reply.ok
        /\ txn'[t].reply.result = txn[t].result
    BY <2>1 DEF Success
  <2>4. txn'[t].reply # Failure("IN_PROGRESS")
    BY <2>3, Codes
  <2> QED BY <2>1, <2>2, <2>3, <2>4 DEF NoRow
<1>8. CASE Deliver(t)
  BY <1>8 DEF Deliver, Idle, TypeOK
<1>9. CASE Lose(t)
  BY <1>9 DEF Lose, Idle, TypeOK
<1>10. CASE SendAnswer(t)
  BY <1>10, Shapes DEF SendAnswer, TypeOK
<1>11. CASE BreakPromise(t)
  <2>1. /\ txn'[t].key = txn[t].key /\ txn'[t].body = txn[t].body
        /\ txn'[t].reply = Success(txn[t].result) /\ txn[t].key \in Keys
    BY <1>11, Shapes DEF BreakPromise, Goto, TypeOK
  <2>2. Done(t) \in broken'[txn[t].key]
    BY <1>11, <2>1 DEF BreakPromise, TypeOK
  <2>3. txn'[t].reply.ok /\ txn'[t].reply.result = txn[t].result
    BY <2>1 DEF Success
  <2>4. txn'[t].reply # Failure("IN_PROGRESS")
    BY <2>3, Codes
  <2> QED BY <2>1, <2>2, <2>3, <2>4 DEF Done
<1>12. CASE DeliverEarly(t)
  BY <1>12, Shapes DEF DeliverEarly, TypeOK
<1> QED
  BY <1>1, <1>2, <1>3, <1>4, <1>5, <1>6, <1>7, <1>8, <1>9, <1>10, <1>11, <1>12 DEF Step, Serve

\* What was answered and never stored stays so.
LEMMA BrokenStays ==
    ASSUME TypeOK, NEW t \in Calls, Step(t), NEW k \in Keys
    PROVE  broken[k] \subseteq broken'[k]
<1>1. CASE BreakPromise(t)
  BY <1>1 DEF BreakPromise, TypeOK
<1>2. CASE ~BreakPromise(t)
  BY <1>2 DEF Step, Serve, Arrive, Claim, Found, Perform, Refuse, Finish, SendAnswer, Commit,
     DeliverEarly, Deliver, Lose
<1> QED BY <1>1, <1>2

LEMMA InOrderStep ==
    ASSUME TypeOK, InOrder, NEW t \in Calls, Step(t)
    PROVE  InOrder'
<1>1. txn'[t].at = "answered" => AnswersEarly
  BY Shapes DEF Step, Serve, Arrive, Claim, Found, Perform, Refuse, Finish, SendAnswer, Commit,
     BreakPromise, DeliverEarly, Deliver, Lose, Goto, Idle, TypeOK, InOrder
<1>2. broken' = broken \/ AnswersEarly
  BY DEF Step, Serve, Arrive, Claim, Found, Perform, Refuse, Finish, SendAnswer, Commit,
     BreakPromise, DeliverEarly, Deliver, Lose, InOrder
<1> QED BY <1>1, <1>2, OthersStay DEF InOrder

LEMMA HonestStep ==
    ASSUME IInv, TypeOK', NEW t \in Calls, Step(t)
    PROVE  Honest' /\ NeverInProgress'
<1> SUFFICES ASSUME NEW u \in Calls, txn'[u].at = "replied"
             PROVE  /\ txn'[u].reply # Failure("IN_PROGRESS")
                    /\ txn'[u].reply.ok =>
                         \/ /\ keys'[txn'[u].key] # NoRow
                            /\ txn'[u].body = keys'[txn'[u].key].body
                            /\ txn'[u].reply.result = keys'[txn'[u].key].result
                         \/ [body |-> txn'[u].body, result |-> txn'[u].reply.result]
                              \in broken'[txn'[u].key]
  BY DEF Honest, NeverInProgress
<1>1. CASE u = t
  BY <1>1, NewAnswer
<1>2. CASE u # t
  <2>1. txn'[u] = txn[u] /\ txn[u].at = "replied" /\ txn[u].key \in Keys
    BY <1>2, OthersStay, Shapes DEF IInv
  <2>2. txn[u].reply.ok =>
          \/ keys[txn[u].key] # NoRow
          \/ [body |-> txn[u].body, result |-> txn[u].reply.result] \in broken'[txn[u].key]
    BY <2>1, BrokenStays DEF IInv, Honest
  <2>3. Commit(t) => keys[txn[t].key] = NoRow /\ txn[t].key \in Keys
    BY CommitRecords DEF IInv, Recorded, Commit, Committable, Exclusive, Holds
  <2>4. keys[txn[u].key] # NoRow => keys'[txn[u].key] = keys[txn[u].key]
    BY <2>1, <2>3, OthersStay DEF IInv, TypeOK, Commit
  <2>5. txn[u].reply.ok =>
          \/ /\ keys'[txn[u].key] # NoRow
             /\ txn[u].body = keys'[txn[u].key].body
             /\ txn[u].reply.result = keys'[txn[u].key].result
          \/ [body |-> txn[u].body, result |-> txn[u].reply.result] \in broken'[txn[u].key]
    BY <2>1, <2>2, <2>4, BrokenStays DEF IInv, Honest
  <2> QED BY <2>1, <2>5 DEF IInv, NeverInProgress
<1> QED BY <1>1, <1>2

LEMMA StepHolds == IInv /\ [Next]_serverVars => IInv'
<1> SUFFICES ASSUME IInv, [Next]_serverVars PROVE IInv'
  OBVIOUS
<1>t. TypeOK'
  BY TypeStep DEF IInv
<1>1. CASE UNCHANGED serverVars
  BY <1>t, <1>1 DEF IInv, serverVars, Exclusive, Holds, Recorded, Honest, InOrder,
     NeverInProgress
<1>2. ASSUME NEW t \in Calls, Step(t) PROVE IInv'
  BY <1>2, <1>t, ExclusiveStep, RecordedStep, HonestStep, InOrderStep DEF IInv
<1> QED BY <1>1, <1>2 DEF Next, Step

-----------------------------------------------------------------------------
\* What a client may conclude from an answer of success

\* The action of key k was performed; or a client was told so of one whose COMMIT is still to
\* come or failed.
Kept(k) ==
    \/ effects[k] # <<>>
    \/ AnswersEarly /\ told[k] \intersect (Promised(k) \union broken[k]) # {}

LEMMA ToldStays ==
    ASSUME TypeOK, NEW t \in Calls, Step(t), NEW k \in Keys
    PROVE  told[k] \subseteq told'[k]
<1>1. CASE Deliver(t) \/ DeliverEarly(t)
  BY <1>1 DEF Deliver, DeliverEarly, TypeOK
<1>2. CASE ~(Deliver(t) \/ DeliverEarly(t))
  BY <1>2 DEF Step, Serve, Arrive, Claim, Found, Perform, Refuse, Finish, SendAnswer, Commit,
     BreakPromise, Lose
<1> QED BY <1>1, <1>2

\* A promise is kept, or broken, or it is still to be kept.
LEMMA KeptStays ==
    ASSUME IInv, TypeOK', NEW t \in Calls, Step(t), NEW k \in Keys, Kept(k)
    PROVE  Kept(k)'
<1>1. CASE effects[k] # <<>>
  <2>1. CASE Commit(t)
    <3>1. effects' = [effects EXCEPT ![txn[t].key] = <<Done(t)>>]
      BY <2>1, CommitRecords
    <3>2. effects'[k] # <<>>
      BY <1>1, <3>1 DEF IInv, TypeOK
    <3> QED BY <3>2 DEF Kept
  <2>2. CASE ~Commit(t)
    <3>1. effects' = effects
      BY <2>2 DEF Step, Serve, Arrive, Claim, Found, Perform, Refuse, Finish, SendAnswer,
         BreakPromise, DeliverEarly, Deliver, Lose
    <3> QED BY <1>1, <3>1 DEF Kept
  <2> QED BY <2>1, <2>2
<1>2. ASSUME AnswersEarly, NEW e \in told[k], e \in Promised(k) \union broken[k]
      PROVE  Kept(k)'
  <2>1. e \in told'[k]
    BY <1>2, ToldStays DEF IInv
  <2>2. CASE e \in broken[k]
    BY <1>2, <2>1, <2>2, BrokenStays DEF IInv, Kept
  <2>3. CASE e \in Promised(k)
    <3>1. PICK u \in Calls : txn[u].at = "answered" /\ txn[u].key = k /\ e = Done(u)
      BY <2>3 DEF Promised
    <3>2. ASSUME txn'[u] = txn[u] PROVE Kept(k)'
      <4>1. Done(u)' = e
        BY <3>1, <3>2 DEF Done
      <4>2. e \in Promised(k)'
        BY <3>1, <3>2, <4>1 DEF Promised
      <4> QED BY <1>2, <2>1, <4>2 DEF Kept
    <3>3. CASE u = t
      <4>1. CASE Commit(t)
        <5>1. effects' = [effects EXCEPT ![k] = <<Done(t)>>]
          BY <3>1, <3>3, <4>1, CommitRecords
        <5>2. effects'[k] # <<>>
          BY <5>1 DEF IInv, TypeOK
        <5> QED BY <5>2 DEF Kept
      <4>2. CASE BreakPromise(t)
        <5>1. e \in broken'[k]
          BY <3>1, <3>3, <4>2 DEF BreakPromise, IInv, TypeOK
        <5> QED BY <1>2, <2>1, <5>1 DEF Kept
      <4>3. CASE DeliverEarly(t)
        BY <3>2, <3>3, <4>3 DEF DeliverEarly
      <4> QED
        BY <3>1, <3>3, <4>1, <4>2, <4>3 DEF Step, Serve, Arrive, Claim, Found, Perform, Refuse,
           Finish, SendAnswer, Deliver, Lose, Idle
    <3> QED BY <3>2, <3>3, OthersStay DEF IInv
  <2> QED BY <1>2, <2>2, <2>3
<1> QED BY <1>1, <1>2 DEF Kept

\* Whoever receives a success may conclude that.
LEMMA Delivered ==
    ASSUME IInv, TypeOK', NEW t \in Calls, NEW k \in Keys, txn[t].key = k,
           (Deliver(t) /\ txn[t].reply.ok) \/ DeliverEarly(t)
    PROVE  Kept(k)'
<1>1. CASE Deliver(t) /\ txn[t].reply.ok
  <2> DEFINE e == [body |-> txn[t].body, result |-> txn[t].reply.result]
  <2>1. txn[t].at = "replied" /\ k \in Keys
    BY <1>1, Shapes DEF Deliver, IInv
  <2>2. e \in told'[k] /\ UNCHANGED <<effects, broken>>
    BY <1>1, <2>1 DEF Deliver, IInv, TypeOK
  <2>3. CASE keys[k] # NoRow
    <3>1. \E f : effects[k] = <<f>>
      BY <2>1, <2>3 DEF IInv, Recorded
    <3> QED BY <2>2, <3>1 DEF Kept
  <2>4. CASE e \in broken[k]
    <3>1. AnswersEarly /\ e \in broken'[k]
      BY <2>1, <2>2, <2>4 DEF IInv, InOrder
    <3> QED BY <2>2, <3>1 DEF Kept
  <2> QED BY <1>1, <2>1, <2>3, <2>4 DEF IInv, Honest
<1>2. CASE DeliverEarly(t)
  <2>1. txn[t].at = "answered" /\ k \in Keys
    BY <1>2, Shapes DEF DeliverEarly, IInv
  <2>2. Done(t) \in told'[k] /\ txn' = txn
    BY <1>2, <2>1 DEF DeliverEarly, IInv, TypeOK
  <2>3. Done(t) \in Promised(k)'
    BY <2>1, <2>2 DEF Promised, Done
  <2> QED BY <2>1, <2>2, <2>3 DEF IInv, InOrder, Kept
<1> QED BY <1>1, <1>2

-----------------------------------------------------------------------------
LEMMA Invariance == Spec => []IInv
BY InitHolds, StepHolds, PTL DEF Spec

\* Rows, calls and histories keep their type.
THEOREM TypeCorrect == Spec => []TypeOK
<1>1. IInv => TypeOK
  BY DEF IInv
<1> QED BY Invariance, <1>1, PTL

\* Nobody is ever answered IDEMPOTENCY_IN_PROGRESS: the invariant that the
\* comment in begin() claims.
THEOREM AlwaysComplete == Spec => []NeverInProgress
<1>1. IInv => NeverInProgress
  BY DEF IInv
<1> QED BY Invariance, <1>1, PTL

\* Nobody but the transaction that holds a key has promised anything under it.
LEMMA PromisedBy ==
    ASSUME IInv, NEW t \in Calls, NEW k \in Keys, Holds(t, k)
    PROVE  Promised(k) = IF txn[t].at = "answered" THEN {Done(t)} ELSE {}
BY DEF IInv, Exclusive, Holds, Promised

\* A call that has not answered and does not answer changes no promise.
LEMMA PromisesStay ==
    ASSUME TypeOK, NEW t \in Calls, Step(t), NEW k \in Keys,
           \/ txn[t].at # "answered" /\ txn'[t].at # "answered"
           \/ txn'[t] = txn[t]
           \/ txn[t].key # k /\ (txn'[t].at = "answered" => txn'[t].key = txn[t].key)
    PROVE  Promised(k)' = Promised(k)
<1> DEFINE Open == {u \in Calls : txn[u].at = "answered" /\ txn[u].key = k}
<1>1. \A u \in Calls \ {t} : txn'[u] = txn[u]
  BY OthersStay
<1>2. Open' = Open
  BY <1>1
<1>3. \A u \in Open : Done(u)' = Done(u)
  BY <1>1 DEF Done
<1> QED BY <1>2, <1>3 DEF Promised

\* The promises of the abstract specification, as the transactions have made them
Promises == [k \in Keys |-> Promised(k)]

\* Every step is a step of the abstract promise, or changes nothing of it.
LEMMA Refines ==
    ASSUME IInv, IInv', NEW t \in Calls, Step(t)
    PROVE  [Promise!Next]_(Promise!onceVars)
<1> DEFINE k == txn[t].key
           e == Done(t)
<1>1. ASSUME txn[t].at \in {"finished", "answered"}, txn'[t].key = k
      PROVE  /\ k \in Keys /\ e \in Promise!Effect
             /\ Promises' = [Promises EXCEPT ![k] = Promised(k)']
  <2>1. k \in Keys /\ e \in Promise!Effect
    BY <1>1, Shapes DEF IInv, Effect, Promise!Effect
  <2>2. \A j \in Keys \ {k} : Promised(j)' = Promised(j)
    BY <1>1, PromisesStay DEF IInv
  <2> QED BY <1>1, <2>1, <2>2 DEF Promises
<1>2. CASE SendAnswer(t)
  <2>1. /\ txn[t].at = "finished" /\ txn'[t].at = "answered" /\ k \in Keys
        /\ txn'[t].key = k /\ txn'[t].body = txn[t].body /\ txn'[t].result = txn[t].result
    BY <1>2, Shapes DEF SendAnswer, IInv, TypeOK
  <2>2. Promised(k) = {} /\ Promised(k)' = {e}
    <3>1. Holds(t, k) /\ Holds(t, k)'
      BY <2>1 DEF Holds
    <3>2. Promised(k) = {}
      BY <2>1, <3>1, PromisedBy
    <3>3. Promised(k)' = {Done(t)'}
      BY <2>1, <3>1 DEF IInv, Exclusive, Holds, Promised
    <3> QED BY <2>1, <3>2, <3>3 DEF Done
  <2>3. effects[k] = <<>>
    BY <2>1 DEF IInv, Exclusive, Recorded, Holds
  <2>4. /\ e \in Promise!Effect
        /\ Promises' = [Promises EXCEPT ![k] = {e}]
    BY <1>1, <2>1, <2>2
  <2>5. Promise!Pledge(k, e)
    BY <1>2, <2>1, <2>2, <2>3, <2>4 DEF Promise!Pledge, SendAnswer, Promises
  <2> QED BY <2>1, <2>4, <2>5 DEF Promise!Next
<1>3. CASE Commit(t)
  <2>1. /\ txn[t].at = IF AnswersEarly THEN "answered" ELSE "finished"
        /\ txn'[t].key = k /\ txn'[t].at = "replied" /\ k \in Keys
    BY <1>3, CommitRecords DEF Commit, Committable, Goto, IInv, TypeOK
  <2>2. Holds(t, k) /\ effects[k] = <<>>
    BY <1>3, <2>1, CommitRecords DEF Holds
  <2>3. Promised(k) = IF AnswersEarly THEN {e} ELSE {}
    BY <2>1, <2>2, PromisedBy
  <2>4. Promised(k)' = {}
    <3>1. \A u \in Calls \ {t} : ~Holds(u, k) /\ txn'[u] = txn[u]
      BY <2>1, <2>2, OthersStay DEF IInv, Exclusive
    <3> QED BY <2>1, <3>1 DEF Promised, Holds
  <2>5. /\ e \in Promise!Effect
        /\ Promises' = [Promises EXCEPT ![k] = {}]
    BY <1>1, <2>1, <2>4
  <2>6. Promise!Do(k, e)
    BY <1>3, <2>1, <2>2, <2>3, <2>5, CommitRecords DEF Promise!Do, Commit, Promises
  <2> QED BY <2>1, <2>5, <2>6 DEF Promise!Next
<1>4. CASE BreakPromise(t)
  <2>1. /\ txn[t].at = "answered" /\ txn'[t].key = k /\ txn'[t].at = "replied" /\ k \in Keys
    BY <1>4, Shapes DEF BreakPromise, Goto, IInv, TypeOK
  <2>2. Promised(k) = {e}
    BY <2>1, PromisedBy DEF Holds
  <2>3. Promised(k)' = {}
    <3>1. \A u \in Calls \ {t} : ~Holds(u, k) /\ txn'[u] = txn[u]
      BY <2>1, OthersStay DEF IInv, Exclusive, Holds
    <3> QED BY <2>1, <3>1 DEF Promised, Holds
  <2>4. /\ e \in Promise!Effect
        /\ Promises' = [Promises EXCEPT ![k] = {}]
    BY <1>1, <2>1, <2>3
  <2>5. /\ broken' = [broken EXCEPT ![k] = @ \union {e}]
        /\ UNCHANGED <<effects, told>>
    BY <1>4 DEF BreakPromise
  <2>6. Promises[k] = {e}
    BY <2>1, <2>2 DEF Promises
  <2> HIDE DEF e, k
  <2>7. Promise!Break(k, e)
    BY <2>4, <2>5, <2>6 DEF Promise!Break, Promises
  <2> QED BY <2>1, <2>4, <2>7 DEF Promise!Next
<1>5. CASE DeliverEarly(t)
  <2>1. txn[t].at = "answered" /\ txn' = txn /\ k \in Keys /\ e \in Promise!Effect
    BY <1>5, Shapes DEF DeliverEarly, IInv, Effect, Promise!Effect
  <2>2. Promised(k) = {e}
    BY <2>1, PromisedBy DEF Holds
  <2>3. Promises' = Promises
    BY <1>5, <2>1, PromisesStay DEF IInv, Promises
  <2>4. Promise!Tell(k, e)
    BY <1>5, <2>1, <2>2, <2>3 DEF Promise!Tell, DeliverEarly, Promises
  <2> QED BY <2>1, <2>4 DEF Promise!Next
<1>6. ASSUME txn[t].at # "answered", txn'[t].at # "answered"
      PROVE  Promises' = Promises
  BY <1>6, PromisesStay DEF IInv, Promises
<1>7. CASE Deliver(t) /\ txn[t].reply.ok
  <2> DEFINE f == [body |-> txn[t].body, result |-> txn[t].reply.result]
  <2>1. /\ k \in Keys /\ txn[t].at = "replied" /\ txn'[t].at = "idle"
        /\ txn[t].body \in Bodies /\ txn[t].reply \in Reply
    BY <1>7, Shapes DEF Deliver, IInv, Idle, TypeOK
  <2>2. f \in Promise!Effect
    BY <1>7, <2>1, Replies DEF Promise!Effect
  <2>3. effects[k] = <<f>> \/ f \in broken[k]
    BY <1>7, <2>1 DEF IInv, Honest, Recorded
  <2>4. Promises' = Promises
    BY <1>6, <2>1
  <2>5. Promise!Tell(k, f)
    BY <1>7, <2>3, <2>4 DEF Promise!Tell, Deliver, Promises
  <2> QED BY <2>1, <2>2, <2>5 DEF Promise!Next
<1>8. CASE /\ ~SendAnswer(t) /\ ~Commit(t) /\ ~BreakPromise(t) /\ ~DeliverEarly(t)
           /\ ~(Deliver(t) /\ txn[t].reply.ok)
  <2>1. effects' = effects /\ told' = told /\ broken' = broken
    BY <1>8 DEF Step, Serve, Arrive, Claim, Found, Perform, Refuse, Finish, Deliver, Lose
  <2>2. txn[t].at # "answered" /\ txn'[t].at # "answered"
    BY <1>8, Shapes DEF Step, Serve, Arrive, Claim, Found, Perform, Refuse, Finish, Deliver,
       Lose, Goto, Idle, IInv, TypeOK
  <2>3. Promises' = Promises
    BY <1>6, <2>2
  <2> QED BY <2>1, <2>3 DEF Promise!onceVars, Promises
<1> QED BY <1>2, <1>3, <1>4, <1>5, <1>7, <1>8

\* An action is performed once under its key however its requests overlap, are repeated or
\* die, and success is reported for that effect only, or, where the response precedes the
\* COMMIT, for one whose COMMIT is still to come or failed (begin, finish, db).
THEOREM PerformedOnce == Spec => ImplementsOnce
<1>1. Init => Promise!Init
  BY DEF Init, Promise!Init, Promised, Idle
<1>2. IInv /\ IInv' /\ [Next]_serverVars => [Promise!Next]_(Promise!onceVars)
  <2> SUFFICES ASSUME IInv, IInv', [Next]_serverVars PROVE [Promise!Next]_(Promise!onceVars)
    OBVIOUS
  <2>1. CASE UNCHANGED serverVars
    BY <2>1 DEF serverVars, Promise!onceVars, Promised, Done
  <2>2. CASE \E t \in Calls : Step(t)
    BY <2>2, Refines
  <2> QED BY <2>1, <2>2 DEF Next, Step
<1> QED BY <1>1, <1>2, Invariance, PTL DEF Spec, ImplementsOnce, Promise!Spec

-----------------------------------------------------------------------------
\* Where the response follows the COMMIT, whoever was told of success was told of the effect.
ToldTrue == \A k \in Keys : \A e \in told[k] : effects[k] = <<e>>

LEMMA ToldTrueStep ==
    ASSUME ~AnswersEarly, IInv, IInv', ToldTrue, NEW t \in Calls, Step(t)
    PROVE  ToldTrue'
<1> SUFFICES ASSUME NEW k \in Keys, NEW e \in told'[k] PROVE effects'[k] = <<e>>
  BY DEF ToldTrue
<1>1. CASE Commit(t)
  <2>1. /\ effects' = [effects EXCEPT ![txn[t].key] = <<Done(t)>>]
        /\ effects[txn[t].key] = <<>>
    BY <1>1, CommitRecords
  <2>2. told' = told
    BY <1>1 DEF Commit
  <2>3. effects[k] = <<e>> /\ k # txn[t].key
    BY <2>1, <2>2 DEF ToldTrue
  <2> QED BY <2>1, <2>3 DEF IInv, TypeOK
<1>2. CASE Deliver(t)
  <2>1. effects' = effects
    BY <1>2 DEF Deliver
  <2>2. CASE e \in told[k]
    BY <2>1, <2>2 DEF ToldTrue
  <2>3. CASE e \notin told[k]
    <3>1. /\ txn[t].at = "replied" /\ txn[t].reply.ok /\ txn[t].key = k
          /\ e = [body |-> txn[t].body, result |-> txn[t].reply.result]
      BY <1>2, <2>3 DEF Deliver, IInv, TypeOK
    <3>2. broken[k] = {}
      BY DEF IInv, InOrder
    <3>3. /\ keys[k] # NoRow
          /\ txn[t].body = keys[k].body /\ txn[t].reply.result = keys[k].result
      BY <3>1, <3>2 DEF IInv, Honest
    <3> QED BY <2>1, <3>1, <3>3 DEF IInv, Recorded
  <2> QED BY <2>2, <2>3
<1>3. CASE ~Commit(t) /\ ~Deliver(t)
  <2>1. ~DeliverEarly(t)
    BY DEF DeliverEarly, IInv, InOrder
  <2>2. told' = told /\ effects' = effects
    BY <1>3, <2>1 DEF Step, Serve, Arrive, Claim, Found, Perform, Refuse, Finish, SendAnswer,
       BreakPromise, Lose
  <2> QED BY <2>2 DEF ToldTrue
<1> QED BY <1>1, <1>2, <1>3

\* What the docstring of core/idempotency.py says, for the versions of FastAPI that commit
\* before they answer: all answers of success under one key are the same.
THEOREM AnsweredAlike ==
    ASSUME ~AnswersEarly
    PROVE  Spec => []FirstAnswerRepeated
<1>1. Init => ToldTrue
  BY DEF Init, ToldTrue
<1>2. IInv /\ IInv' /\ ToldTrue /\ [Next]_serverVars => ToldTrue'
  <2> SUFFICES ASSUME IInv, IInv', ToldTrue, [Next]_serverVars PROVE ToldTrue'
    OBVIOUS
  <2>1. CASE UNCHANGED serverVars
    BY <2>1 DEF serverVars, ToldTrue
  <2>2. CASE \E t \in Calls : Step(t)
    BY <2>2, ToldTrueStep
  <2> QED BY <2>1, <2>2 DEF Next, Step
<1>3. ToldTrue => FirstAnswerRepeated
  <2> SUFFICES ASSUME ToldTrue, NEW k \in Keys, NEW e \in told[k], NEW f \in told[k]
               PROVE  e = f
    BY DEF FirstAnswerRepeated
  <2>1. <<e>> = <<f>>
    BY DEF ToldTrue
  <2> QED BY <2>1
<1> QED BY <1>1, <1>2, <1>3, Invariance, PTL DEF Spec

=============================================================================
