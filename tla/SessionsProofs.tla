--------------------------- MODULE SessionsProofs ---------------------------
(***************************************************************************)
(* Proofs about how people get in, for any number of users, tokens, nonces *)
(* and overlapping requests: refresh tokens (Sessions), the nonces of      *)
(* Telegram (TelegramLink) and the customer bot (BotChat).                 *)
(***************************************************************************)
EXTENDS MCSessions, FiniteSets, FiniteSetTheorems, TLAPS

-----------------------------------------------------------------------------
\* Type correctness

LEMMA Kinds ==
    ASSUME NEW q \in {Idle} \union Request
    PROVE  /\ q.op \in {"issue", "change"} => q.user \in Users
           /\ q.op \in {"rotate", "reuse"} => q.old \in Tokens
           /\ q.op = "reuse sweep" => q.old \in Tokens /\ q.batch \subseteq Tokens
           /\ q.op = "change sweep" => q.user \in Users /\ q.batch \subseteq Tokens
           /\ q.op = "suspend" => q.batch \subseteq Tokens
  <1>1. CASE q = Idle
    BY <1>1 DEF Idle
  <1>2. CASE q \in [op : {"issue", "change"}, user : Users]
    BY <1>2
  <1>3. CASE q \in [op : {"rotate", "reuse"}, old : Tokens]
    BY <1>3
  <1>4. CASE q \in [op : {"reuse sweep"}, old : Tokens, batch : SUBSET Tokens]
    BY <1>4
  <1>5. CASE q \in [op : {"change sweep"}, user : Users, batch : SUBSET Tokens]
    BY <1>5
  <1>6. CASE q \in [op : {"suspend"}, batch : SUBSET Tokens]
    BY <1>6
  <1> QED  BY <1>1, <1>2, <1>3, <1>4, <1>5, <1>6 DEF Request

LEMMA RequestKinds ==
    ASSUME TypeOK, NEW r \in Requests
    PROVE  /\ req[r].op \in {"issue", "change"} => req[r].user \in Users
           /\ req[r].op \in {"rotate", "reuse"} => req[r].old \in Tokens
           /\ req[r].op = "reuse sweep" => req[r].old \in Tokens /\ req[r].batch \subseteq Tokens
           /\ req[r].op = "change sweep" => req[r].user \in Users /\ req[r].batch \subseteq Tokens
           /\ req[r].op = "suspend" => req[r].batch \subseteq Tokens
  <1>1. req[r] \in {Idle} \union Request
    BY DEF TypeOK
  <1> QED  BY <1>1, Kinds

LEMMA RowType ==
    ASSUME TypeOK, NEW t \in Tokens
    PROVE  /\ token[t].status \in {"NONE", "LIVE", "REVOKED"}
           /\ token[t].user \in Users
           /\ token[t].chain \in Tokens
  BY DEF TypeOK, Row

LEMMA RevokedType ==
    ASSUME TypeOK, NEW batch
    PROVE  Revoked(batch) \in [Tokens -> Row]
  BY DEF TypeOK, Revoked, Row

LEMMA BecomeType ==
    ASSUME TypeOK, NEW r \in Requests, NEW q \in {Idle} \union Request, Become(r, q)
    PROVE  req' \in [Requests -> {Idle} \union Request]
  BY DEF TypeOK, Become

LEMMA TypeStep ==
    ASSUME TypeOK, [Next]_vars
    PROVE  TypeOK'
  <1>1. ASSUME NEW r \in Requests, NEW u \in Users, LoginRead(r, u)
        PROVE  TypeOK'
    <2>1. [op |-> "issue", user |-> u] \in Request
      BY DEF Request
    <2>2. req' \in [Requests -> {Idle} \union Request]
      BY <1>1, <2>1, BecomeType DEF LoginRead
    <2> QED  BY <1>1, <2>2 DEF LoginRead, TypeOK
  <1>2. ASSUME NEW r \in Requests, NEW t \in Tokens, Issue(r, t)
        PROVE  TypeOK'
    <2>1. req[r].user \in Users
      BY <1>2, RequestKinds DEF Issue
    <2>2. token' \in [Tokens -> Row] /\ access' \subseteq Users
      BY <1>2, <2>1 DEF Issue, NewToken, TypeOK, Row
    <2>3. req' \in [Requests -> {Idle} \union Request]
      BY <1>2, BecomeType DEF Issue
    <2> QED  BY <1>2, <2>2, <2>3 DEF Issue, TypeOK
  <1>3. ASSUME NEW r \in Requests, NEW t \in Tokens, RefreshRead(r, t)
        PROVE  TypeOK'
    <2>1. [op |-> IF Usable(t) THEN "rotate" ELSE "reuse", old |-> t] \in Request
      BY DEF Request
    <2>2. req' \in [Requests -> {Idle} \union Request]
      BY <1>3, <2>1, BecomeType DEF RefreshRead
    <2> QED  BY <1>3, <2>2 DEF RefreshRead, TypeOK
  <1>4. ASSUME NEW r \in Requests, NEW t \in Tokens, Rotate(r, t)
        PROVE  TypeOK'
    <2>1. req[r].old \in Tokens
      BY <1>4, RequestKinds DEF Rotate
    <2>2. token' \in [Tokens -> Row] /\ access' \subseteq Users
      BY <1>4, <2>1 DEF Rotate, Turned, TypeOK, Row
    <2>3. req' \in [Requests -> {Idle} \union Request]
      BY <1>4, BecomeType DEF Rotate
    <2> QED  BY <1>4, <2>2, <2>3 DEF Rotate, TypeOK
  <1>5. ASSUME NEW r \in Requests, ReuseSweepRead(r)
        PROVE  TypeOK'
    <2>1. [op |-> "reuse sweep", old |-> req[r].old,
           batch |-> LiveOf({token[req[r].old].user})] \in Request
      BY <1>5, RequestKinds DEF ReuseSweepRead, Request, LiveOf
    <2>2. req' \in [Requests -> {Idle} \union Request]
      BY <1>5, <2>1, BecomeType DEF ReuseSweepRead
    <2> QED  BY <1>5, <2>2 DEF ReuseSweepRead, TypeOK
  <1>6. ASSUME NEW r \in Requests, ReuseSweepWrite(r)
        PROVE  TypeOK'
    <2>1. token' \in [Tokens -> Row]
      BY <1>6, RevokedType DEF ReuseSweepWrite
    <2>2. req' \in [Requests -> {Idle} \union Request]
      BY <1>6, BecomeType DEF ReuseSweepWrite
    <2> QED  BY <1>6, <2>1, <2>2 DEF ReuseSweepWrite, TypeOK
  <1>7. ASSUME NEW r \in Requests, NEW t \in Tokens, SignOut(r, t)
        PROVE  TypeOK'
    <2>1. token' \in [Tokens -> Row]
      BY <1>7, RevokedType DEF SignOut
    <2> QED  BY <1>7, <2>1 DEF SignOut, TypeOK
  <1>8. ASSUME NEW r \in Requests, NEW u \in Users, ChangePassword(r, u)
        PROVE  TypeOK'
    <2>1. [op |-> "change", user |-> u] \in Request
      BY DEF Request
    <2>2. req' \in [Requests -> {Idle} \union Request]
      BY <1>8, <2>1, BecomeType DEF ChangePassword
    <2> QED  BY <1>8, <2>2 DEF ChangePassword, TypeOK
  <1>9. ASSUME NEW r \in Requests, ChangeSweepRead(r)
        PROVE  TypeOK'
    <2>1. [op |-> "change sweep", user |-> req[r].user, batch |-> LiveOf({req[r].user})]
            \in Request
      BY <1>9, RequestKinds DEF ChangeSweepRead, Request, LiveOf
    <2>2. req' \in [Requests -> {Idle} \union Request]
      BY <1>9, <2>1, BecomeType DEF ChangeSweepRead
    <2> QED  BY <1>9, <2>2 DEF ChangeSweepRead, TypeOK
  <1>10. ASSUME NEW r \in Requests, ChangeSweepWrite(r)
         PROVE  TypeOK'
    <2>1. token' \in [Tokens -> Row]
      BY <1>10, RevokedType DEF ChangeSweepWrite
    <2>2. [op |-> "issue", user |-> req[r].user] \in Request
      BY <1>10, RequestKinds DEF ChangeSweepWrite, Request
    <2>3. req' \in [Requests -> {Idle} \union Request]
      BY <1>10, <2>2, BecomeType DEF ChangeSweepWrite
    <2> QED  BY <1>10, <2>1, <2>3 DEF ChangeSweepWrite, TypeOK
  <1>11. ASSUME NEW r \in Requests, SuspendRead(r)
         PROVE  TypeOK'
    <2>1. [op |-> "suspend", batch |-> LiveOf(members)] \in Request
      BY DEF Request, LiveOf
    <2>2. req' \in [Requests -> {Idle} \union Request]
      BY <1>11, <2>1, BecomeType DEF SuspendRead
    <2> QED  BY <1>11, <2>2 DEF SuspendRead, TypeOK
  <1>12. ASSUME NEW r \in Requests, SuspendWrite(r)
         PROVE  TypeOK'
    <2>1. token' \in [Tokens -> Row]
      BY <1>12, RevokedType DEF SuspendWrite
    <2>2. req' \in [Requests -> {Idle} \union Request]
      BY <1>12, BecomeType DEF SuspendWrite
    <2> QED  BY <1>12, <2>1, <2>2 DEF SuspendWrite, TypeOK
  <1>13. ASSUME NEW r \in Requests,
                Activate(r) \/ \E u \in Users : Deactivate(r, u)
         PROVE  TypeOK'
    BY <1>13 DEF Activate, Deactivate, TypeOK
  <1>14. ASSUME NEW r \in Requests, Abort(r)
         PROVE  TypeOK'
    <2>1. req' \in [Requests -> {Idle} \union Request]
      BY <1>14, BecomeType DEF Abort
    <2> QED  BY <1>14, <2>1 DEF Abort, TypeOK
  <1>15. ASSUME NEW u \in Users, AccessExpires(u)
         PROVE  TypeOK'
    BY <1>15 DEF AccessExpires, TypeOK
  <1>16. CASE UNCHANGED vars
    BY <1>16 DEF vars, TypeOK
  <1> QED
    BY <1>1, <1>2, <1>3, <1>4, <1>5, <1>6, <1>7, <1>8, <1>9, <1>10, <1>11, <1>12,
       <1>13, <1>14, <1>15, <1>16 DEF Next, Step

\* Rows, access and every open transaction keep their type, for any number of
\* users, tokens and parallel requests.
THEOREM TypeCorrect == Spec => []TypeOK
  <1>1. Init => TypeOK
    BY DEF Init, TypeOK, Row
  <1> QED  BY <1>1, TypeStep, PTL DEF Spec

-----------------------------------------------------------------------------
\* One usable token per sign-in.  The strengthening has three parts.
\* Exclusive: FOR UPDATE gives a row to one request at a time.  Fresh: so the
\* row a rotation holds is still live when it commits.  Rooted: the first token
\* of a chain, whose name it bears, exists.

Holds(r, t) == req[r].op \in {"rotate", "reuse", "reuse sweep"} /\ req[r].old = t

Exclusive == \A r, q \in Requests, t \in Tokens : Holds(r, t) /\ Holds(q, t) => r = q

Fresh == \A r \in Requests : req[r].op = "rotate" => Live(req[r].old)

Rooted == \A t \in Tokens : Exists(t) => Exists(token[t].chain)

IInv == TypeOK /\ Exclusive /\ Fresh /\ Rooted /\ OneLivePerChain

\* What a step does to the rows.
Begins == \E r \in Requests, t \in Tokens, u \in Users :
    /\ req[r].op = "issue" /\ req[r].user = u
    /\ ~Exists(t)
    /\ token' = [token EXCEPT ![t] = NewToken(u, t)]

Turns == \E r \in Requests, t \in Tokens :
    /\ req[r].op = "rotate"
    /\ ~Exists(t)
    /\ token' = Turned(req[r].old, t)
    /\ req' = [req EXCEPT ![r] = Idle]

Ends == \E batch \in SUBSET Tokens :
    (\A t \in batch : ~Locked(t)) /\ token' = Revoked(batch)

\* What a step does to the locks.
NoNewLock ==
    \A r \in Requests, t \in Tokens : Holds(r, t)' =>
        /\ Holds(r, t)
        /\ req'[r].op = "rotate" => req[r].op = "rotate"

Locks == \E r \in Requests, t \in Tokens :
    /\ ~Locked(t)
    /\ req' = [req EXCEPT ![r] = [op |-> IF Usable(t) THEN "rotate" ELSE "reuse", old |-> t]]
    /\ UNCHANGED token

LEMMA RowSteps ==
    ASSUME TypeOK, [Next]_vars
    PROVE  UNCHANGED token \/ Begins \/ Turns \/ Ends
  <1>1. ASSUME NEW r \in Requests, NEW t \in Tokens, Issue(r, t)
        PROVE  Begins
    <2>1. req[r].user \in Users
      BY <1>1, RequestKinds DEF Issue
    <2> QED  BY <1>1, <2>1 DEF Issue, Begins
  <1>2. ASSUME NEW r \in Requests, NEW t \in Tokens, Rotate(r, t)
        PROVE  Turns
    BY <1>2 DEF Rotate, Turns, Become
  <1>3. ASSUME NEW r \in Requests,
               ReuseSweepWrite(r) \/ ChangeSweepWrite(r) \/ SuspendWrite(r)
        PROVE  Ends
    <2>1. req[r].batch \in SUBSET Tokens
      BY <1>3, RequestKinds DEF ReuseSweepWrite, ChangeSweepWrite, SuspendWrite
    <2> QED  BY <1>3, <2>1 DEF ReuseSweepWrite, ChangeSweepWrite, SuspendWrite, Ends
  <1>4. ASSUME NEW r \in Requests, NEW t \in Tokens, SignOut(r, t)
        PROVE  Ends
    BY <1>4 DEF SignOut, Ends
  <1>5. ASSUME NEW r \in Requests, NEW u \in Users,
               LoginRead(r, u) \/ ChangePassword(r, u) \/ Deactivate(r, u)
        PROVE  UNCHANGED token
    BY <1>5 DEF LoginRead, ChangePassword, Deactivate
  <1>6. ASSUME NEW r \in Requests, NEW t \in Tokens, RefreshRead(r, t)
        PROVE  UNCHANGED token
    BY <1>6 DEF RefreshRead
  <1>7. ASSUME NEW r \in Requests,
               ReuseSweepRead(r) \/ ChangeSweepRead(r) \/ SuspendRead(r) \/ Activate(r) \/ Abort(r)
        PROVE  UNCHANGED token
    BY <1>7 DEF ReuseSweepRead, ChangeSweepRead, SuspendRead, Activate, Abort
  <1>8. ASSUME NEW u \in Users, AccessExpires(u)
        PROVE  UNCHANGED token
    BY <1>8 DEF AccessExpires
  <1>9. CASE UNCHANGED vars
    BY <1>9 DEF vars
  <1> QED
    BY <1>1, <1>2, <1>3, <1>4, <1>5, <1>6, <1>7, <1>8, <1>9 DEF Next, Step

\* A request that ends, or goes on with what holds no row, takes no lock.
LEMMA Unlocking ==
    ASSUME TypeOK, NEW r \in Requests, NEW q, Become(r, q),
           q.op \notin {"rotate", "reuse", "reuse sweep"}
    PROVE  NoNewLock
  BY DEF TypeOK, Become, NoNewLock, Holds

LEMMA LockSteps ==
    ASSUME TypeOK, [Next]_vars
    PROVE  NoNewLock \/ Locks
  <1>1. ASSUME NEW r \in Requests, NEW t \in Tokens, RefreshRead(r, t)
        PROVE  Locks
    BY <1>1 DEF RefreshRead, Locks, Become
  <1>2. ASSUME NEW r \in Requests, ReuseSweepRead(r)
        PROVE  NoNewLock
    BY <1>2 DEF ReuseSweepRead, Become, NoNewLock, Holds, TypeOK
  <1>3. ASSUME NEW r \in Requests, NEW t \in Tokens, Issue(r, t) \/ Rotate(r, t)
        PROVE  NoNewLock
    BY <1>3, Unlocking DEF Issue, Rotate, Idle
  <1>4. ASSUME NEW r \in Requests,
               ReuseSweepWrite(r) \/ ChangeSweepRead(r) \/ ChangeSweepWrite(r)
                 \/ SuspendRead(r) \/ SuspendWrite(r) \/ Abort(r)
        PROVE  NoNewLock
    BY <1>4, Unlocking
       DEF ReuseSweepWrite, ChangeSweepRead, ChangeSweepWrite, SuspendRead, SuspendWrite,
           Abort, Idle
  <1>5. ASSUME NEW r \in Requests, NEW u \in Users, LoginRead(r, u) \/ ChangePassword(r, u)
        PROVE  NoNewLock
    BY <1>5, Unlocking DEF LoginRead, ChangePassword
  <1>6. CASE UNCHANGED req
    BY <1>6 DEF NoNewLock, Holds
  <1>7. ASSUME NEW r \in Requests, NEW u \in Users, Deactivate(r, u)
        PROVE  UNCHANGED req
    BY <1>7 DEF Deactivate
  <1>8. ASSUME NEW r \in Requests, NEW t \in Tokens, SignOut(r, t) \/ Activate(r)
        PROVE  UNCHANGED req
    BY <1>8 DEF SignOut, Activate
  <1>9. ASSUME NEW u \in Users, AccessExpires(u)
        PROVE  UNCHANGED req
    BY <1>9 DEF AccessExpires
  <1>10. ASSUME NEW r \in Requests, Activate(r)
         PROVE  UNCHANGED req
    BY <1>10 DEF Activate
  <1>11. CASE UNCHANGED vars
    BY <1>6, <1>11 DEF vars
  <1> QED
    BY <1>1, <1>2, <1>3, <1>4, <1>5, <1>6, <1>7, <1>8, <1>9, <1>10, <1>11 DEF Next, Step

\* How each kind of step changes a row.
LEMMA BeginRows ==
    ASSUME TypeOK, NEW n \in Tokens, NEW u \in Users, ~Exists(n),
           token' = [token EXCEPT ![n] = NewToken(u, n)],
           NEW t \in Tokens
    PROVE  /\ t # n => token'[t] = token[t]
           /\ t = n => /\ token'[t].chain = n
                       /\ token'[t].user = u
                       /\ token'[t].status = "LIVE"
  BY DEF TypeOK, NewToken

LEMMA TurnRows ==
    ASSUME TypeOK, NEW n \in Tokens, NEW old \in Tokens, ~Exists(n), Live(old),
           token' = Turned(old, n), NEW t \in Tokens
    PROVE  /\ n # old
           /\ t \notin {n, old} => token'[t] = token[t]
           /\ t = n => /\ token'[t].chain = token[old].chain
                       /\ token'[t].user = token[old].user
                       /\ token'[t].status = "LIVE"
           /\ t = old => /\ token'[t].chain = token[old].chain
                         /\ token'[t].user = token[old].user
                         /\ token'[t].status = "REVOKED"
  BY DEF TypeOK, Row, Exists, Live, Turned

LEMMA EndRows ==
    ASSUME TypeOK, NEW batch \in SUBSET Tokens, token' = Revoked(batch), NEW t \in Tokens
    PROVE  /\ token'[t].chain = token[t].chain
           /\ token'[t].user = token[t].user
           /\ Exists(t)' <=> Exists(t)
           /\ Live(t)' <=> Live(t) /\ t \notin batch
  BY DEF TypeOK, Row, Revoked, Exists, Live

LEMMA HolderIsLocked ==
    ASSUME NEW r \in Requests, NEW t \in Tokens, Holds(r, t)
    PROVE  Locked(t)
  BY DEF Holds, Locked

LEMMA ExclusiveStep ==
    ASSUME TypeOK, Exclusive, [Next]_vars
    PROVE  Exclusive'
  <1>1. CASE NoNewLock
    BY <1>1 DEF NoNewLock, Exclusive
  <1>2. CASE Locks
    <2>1. PICK r \in Requests, t \in Tokens :
            /\ ~Locked(t)
            /\ req' = [req EXCEPT ![r] = [op |-> IF Usable(t) THEN "rotate" ELSE "reuse",
                                          old |-> t]]
      BY <1>2 DEF Locks
    <2>2. ASSUME NEW q \in Requests, NEW s \in Tokens, Holds(q, s)'
          PROVE  (q = r /\ s = t) \/ (q # r /\ Holds(q, s) /\ s # t)
      <3>1. CASE q = r
        <4>1. req'[r].old = t
          BY <2>1 DEF TypeOK
        <4> QED  BY <2>2, <3>1, <4>1 DEF Holds
      <3>2. CASE q # r
        <4>1. req'[q] = req[q]
          BY <2>1, <3>2 DEF TypeOK
        <4>2. Holds(q, s)
          BY <2>2, <4>1 DEF Holds
        <4> QED  BY <2>1, <3>2, <4>2, HolderIsLocked
      <3> QED  BY <3>1, <3>2
    <2> QED  BY <2>2 DEF Exclusive
  <1> QED  BY <1>1, <1>2, LockSteps

LEMMA FreshStep ==
    ASSUME TypeOK, Exclusive, Fresh, [Next]_vars
    PROVE  Fresh'
  <1>1. ASSUME NEW r \in Requests, req'[r].op = "rotate"
        PROVE  req'[r].old \in Tokens
    <2>1. req'[r] \in {Idle} \union Request
      BY TypeStep DEF TypeOK
    <2> QED  BY <1>1, <2>1, Kinds
  <1> SUFFICES ASSUME NEW r \in Requests, NEW old \in Tokens,
                      req'[r].op = "rotate", req'[r].old = old
               PROVE  token'[old].status = "LIVE"
    BY <1>1 DEF Fresh, Live
  <1>2. CASE Locks
    <2>1. PICK q \in Requests, t \in Tokens :
            /\ req' = [req EXCEPT ![q] = [op |-> IF Usable(t) THEN "rotate" ELSE "reuse",
                                          old |-> t]]
            /\ UNCHANGED token
      BY <1>2 DEF Locks
    <2>2. CASE q = r
      <3>1. req'[r].old = t /\ Live(t)
        BY <2>1, <2>2 DEF TypeOK, Usable
      <3> QED  BY <2>1, <3>1 DEF Live
    <2>3. CASE q # r
      <3>1. req'[r] = req[r]
        BY <2>1, <2>3 DEF TypeOK
      <3> QED  BY <2>1, <3>1 DEF Fresh, Live
    <2> QED  BY <2>2, <2>3
  <1>3. CASE NoNewLock
    <2>1. Holds(r, old) /\ req[r].op = "rotate" /\ req[r].old = old
      BY <1>3 DEF NoNewLock, Holds
    <2>2. Live(old) /\ Locked(old)
      BY <2>1, HolderIsLocked DEF Fresh
    <2>3. CASE UNCHANGED token
      BY <2>2, <2>3 DEF Live
    <2>4. CASE Begins
      BY <2>2, <2>4, BeginRows DEF Begins, Live, Exists
    <2>5. CASE Ends
      BY <2>2, <2>5, EndRows DEF Ends, Live
    <2>6. CASE Turns
      <3>1. PICK q \in Requests, n \in Tokens :
              /\ req[q].op = "rotate"
              /\ ~Exists(n)
              /\ token' = Turned(req[q].old, n)
              /\ req' = [req EXCEPT ![q] = Idle]
        BY <2>6 DEF Turns
      <3>2. PICK turned \in Tokens : turned = req[q].old
        BY <3>1, RequestKinds
      <3>3. q # r
        BY <3>1 DEF Idle, TypeOK
      <3>4. turned # old
        BY <2>1, <3>1, <3>2, <3>3 DEF Exclusive, Holds
      <3>5. Live(turned) /\ old # n
        BY <2>2, <3>1, <3>2 DEF Fresh, Live, Exists
      <3>6. token'[old] = token[old]
        BY <3>1, <3>2, <3>4, <3>5, TurnRows
      <3> QED  BY <2>2, <3>6 DEF Live
    <2> QED  BY <2>3, <2>4, <2>5, <2>6, RowSteps
  <1> QED  BY <1>2, <1>3, LockSteps

\* The chains of the rows after a step, for Rooted and OneLivePerChain.
LEMMA ChainsStep ==
    ASSUME IInv, [Next]_vars
    PROVE  Rooted' /\ OneLivePerChain'
  <1> USE DEF IInv
  <1>1. CASE UNCHANGED token
    BY <1>1 DEF Rooted, OneLivePerChain, Exists, Live
  <1>2. CASE Begins
    <2>1. PICK n \in Tokens, u \in Users :
            ~Exists(n) /\ token' = [token EXCEPT ![n] = NewToken(u, n)]
      BY <1>2 DEF Begins
    <2>2. \A t \in Tokens : t # n => token'[t] = token[t]
      BY <2>1, BeginRows
    <2>3. token'[n].chain = n /\ token'[n].status = "LIVE"
      BY <2>1, BeginRows
    <2>4. \A t \in Tokens : Exists(t) => token[t].chain # n
      BY <2>1 DEF Rooted
    <2>5. Rooted'
      BY <2>1, <2>2, <2>3, RowType DEF Rooted, Exists
    <2>6. OneLivePerChain'
      BY <2>2, <2>3, <2>4 DEF OneLivePerChain, Live, Exists
    <2> QED  BY <2>5, <2>6
  <1>3. CASE Turns
    <2>1. PICK r \in Requests, n \in Tokens :
            req[r].op = "rotate" /\ ~Exists(n) /\ token' = Turned(req[r].old, n)
      BY <1>3 DEF Turns
    <2>2. PICK old \in Tokens : old = req[r].old
      BY <2>1, RequestKinds
    <2>3. Live(old)
      BY <2>1, <2>2 DEF Fresh
    <2>4. \A t \in Tokens : t \notin {n, old} => token'[t] = token[t]
      BY <2>1, <2>2, <2>3, TurnRows
    <2>5. /\ n # old
          /\ token'[n].chain = token[old].chain /\ token'[n].status = "LIVE"
          /\ token'[old].chain = token[old].chain /\ token'[old].status = "REVOKED"
      BY <2>1, <2>2, <2>3, TurnRows
    <2>6. \A t \in Tokens : Exists(t) => token'[t].status # "NONE"
      BY <2>1, <2>4, <2>5 DEF Exists
    <2>7. Rooted'
      BY <2>1, <2>3, <2>4, <2>5, <2>6, RowType DEF Rooted, Exists, Live
    <2>8. OneLivePerChain'
      BY <2>3, <2>4, <2>5 DEF OneLivePerChain, Live
    <2> QED  BY <2>7, <2>8
  <1>4. CASE Ends
    <2>1. PICK batch \in SUBSET Tokens : token' = Revoked(batch)
      BY <1>4 DEF Ends
    <2>2. ASSUME NEW t \in Tokens
          PROVE  /\ token'[t].chain = token[t].chain
                 /\ token'[t].status # "NONE" <=> Exists(t)
                 /\ token'[t].status = "LIVE" => Live(t)
      BY <2>1, EndRows DEF Exists, Live
    <2> QED  BY <2>2, RowType DEF Rooted, OneLivePerChain, Exists, Live
  <1> QED  BY <1>1, <1>2, <1>3, <1>4, RowSteps

LEMMA Invariance == Spec => []IInv
  <1>1. Init => IInv
    <2> SUFFICES ASSUME Init
                 PROVE  IInv
      OBVIOUS
    <2>1. TypeOK
      BY DEF Init, TypeOK, Row
    <2>2. \A t \in Tokens : token[t].status = "NONE"
      BY DEF Init
    <2>3. \A r \in Requests : req[r].op = "idle"
      BY DEF Init, Idle
    <2> QED  BY <2>1, <2>2, <2>3
             DEF IInv, Exclusive, Holds, Fresh, Rooted, OneLivePerChain, Exists, Live
  <1>2. IInv /\ [Next]_vars => IInv'
    BY TypeStep, ExclusiveStep, FreshStep, ChainsStep DEF IInv
  <1> QED  BY <1>1, <1>2, PTL DEF Spec

\* However many refreshes, sweeps, logouts and sign-ins overlap, and however
\* many tokens there are, a sign-in never has two usable tokens.
THEOREM NeverTwoSessionsOfOne == Spec => []OneLivePerChain
  <1> QED  BY Invariance, PTL DEF IInv

-----------------------------------------------------------------------------
\* The refinement: each kind of step on the rows is a step of Chains.

Life == [c \in Tokens |-> LifeOf(c)]

LEMMA LifeStays ==
    ASSUME NEW c \in Tokens,
           \A t \in Tokens : (Exists(t) /\ token[t].chain = c) <=> (Exists(t) /\ token[t].chain = c)',
           (\E t \in TokensOf(c) : Live(t)) <=> (\E t \in TokensOf(c) : Live(t))'
    PROVE  LifeOf(c)' = LifeOf(c)
  <1>1. TokensOf(c)' = TokensOf(c)
    BY DEF TokensOf
  <1> QED  BY <1>1 DEF LifeOf

LEMMA BeginLife ==
    ASSUME IInv, Begins
    PROVE  Abstract!Next
  <1> USE DEF IInv
  <1>1. PICK n \in Tokens, u \in Users :
          ~Exists(n) /\ token' = [token EXCEPT ![n] = NewToken(u, n)]
    BY DEF Begins
  <1>2. \A t \in Tokens : t # n => token'[t] = token[t]
    BY <1>1, BeginRows
  <1>3. token'[n].chain = n /\ token'[n].status = "LIVE"
    BY <1>1, BeginRows
  <1>4. LifeOf(n) = "none"
    BY <1>1 DEF Rooted, LifeOf, TokensOf
  <1>5. LifeOf(n)' = "live"
    BY <1>3 DEF LifeOf, TokensOf, Exists, Live
  <1>6. ASSUME NEW c \in Tokens, c # n
        PROVE  LifeOf(c)' = LifeOf(c)
    <2>1. \A t \in Tokens : (Exists(t) /\ token[t].chain = c)
                              <=> (Exists(t) /\ token[t].chain = c)'
      BY <1>1, <1>2, <1>3, <1>6 DEF Exists
    <2>2. (\E t \in TokensOf(c) : Live(t)) <=> (\E t \in TokensOf(c) : Live(t))'
      BY <1>1, <1>2, <1>3, <1>6 DEF TokensOf, Exists, Live
    <2> QED  BY <2>1, <2>2, LifeStays
  <1>7. Abstract!Begin(n)
    BY <1>4, <1>5, <1>6 DEF Abstract!Begin
  <1> QED  BY <1>7 DEF Abstract!Next

LEMMA TurnLife ==
    ASSUME IInv, Turns
    PROVE  UNCHANGED Life
  <1> USE DEF IInv
  <1>1. PICK r \in Requests, n \in Tokens :
          req[r].op = "rotate" /\ ~Exists(n) /\ token' = Turned(req[r].old, n)
    BY DEF Turns
  <1>2. PICK old \in Tokens : old = req[r].old
    BY <1>1, RequestKinds
  <1>3. Live(old)
    BY <1>1, <1>2 DEF Fresh
  <1>4. \A t \in Tokens : t \notin {n, old} => token'[t] = token[t]
    BY <1>1, <1>2, <1>3, TurnRows
  <1>5. /\ n # old
        /\ token'[n].chain = token[old].chain /\ token'[n].status = "LIVE"
        /\ token'[old].chain = token[old].chain /\ token'[old].status = "REVOKED"
    BY <1>1, <1>2, <1>3, TurnRows
  <1>6. LifeOf(token[old].chain) = "live"
    BY <1>3 DEF LifeOf, TokensOf, Exists, Live
  <1>7. PICK root \in Tokens : root = token[old].chain
    BY RowType
  <1>8. LifeOf(root)' = "live"
    BY <1>5, <1>7 DEF LifeOf, TokensOf, Exists, Live
  <1>9. ASSUME NEW c \in Tokens, c # root
        PROVE  LifeOf(c)' = LifeOf(c)
    <2>1. \A t \in Tokens : (Exists(t) /\ token[t].chain = c)
                              <=> (Exists(t) /\ token[t].chain = c)'
      BY <1>1, <1>4, <1>5, <1>7, <1>9 DEF Exists
    <2>2. (\E t \in TokensOf(c) : Live(t)) <=> (\E t \in TokensOf(c) : Live(t))'
      BY <1>1, <1>4, <1>5, <1>7, <1>9 DEF TokensOf, Exists, Live
    <2> QED  BY <2>1, <2>2, LifeStays
  <1> QED  BY <1>6, <1>7, <1>8, <1>9 DEF Life

LEMMA EndLife ==
    ASSUME IInv, Ends
    PROVE  Abstract!Next
  <1> USE DEF IInv
  <1>1. PICK batch \in SUBSET Tokens : token' = Revoked(batch)
    BY DEF Ends
  <1>2. ASSUME NEW t \in Tokens
        PROVE  /\ token'[t].chain = token[t].chain
               /\ Exists(t)' <=> Exists(t)
               /\ Live(t)' => Live(t)
    BY <1>1, EndRows
  <1>3. PICK S \in SUBSET Tokens :
          S = {c \in Tokens : LifeOf(c) = "live" /\ LifeOf(c)' # "live"}
    OBVIOUS
  <1>4. ASSUME NEW c \in Tokens
        PROVE  LifeOf(c)' = IF c \in S THEN "ended" ELSE LifeOf(c)
    <2>1. TokensOf(c)' = TokensOf(c)
      BY <1>2 DEF TokensOf
    <2>2. (\E t \in TokensOf(c) : Live(t))' => \E t \in TokensOf(c) : Live(t)
      BY <1>2, <2>1 DEF TokensOf
    <2> QED  BY <1>3, <2>1, <2>2 DEF LifeOf
  <1>5. Abstract!End(S)
    BY <1>3, <1>4 DEF Abstract!End
  <1> QED  BY <1>5 DEF Abstract!Next

\* What was ended never comes back: sign-ins begin, live and end as Chains
\* allows, whatever refreshes were under way.
THEOREM EndedForGood == Spec => ImplementsChains
  <1>1. Init => Abstract!Init
    <2> SUFFICES ASSUME Init
                 PROVE  Abstract!Init
      OBVIOUS
    <2>1. \A t \in Tokens : ~Exists(t)
      BY DEF Init, Exists
    <2> QED  BY <2>1 DEF Abstract!Init, LifeOf, TokensOf
  <1>2. IInv /\ [Next]_vars => [Abstract!Next]_Life
    <2> SUFFICES ASSUME IInv, [Next]_vars
                 PROVE  Abstract!Next \/ UNCHANGED Life
      OBVIOUS
    <2>1. CASE UNCHANGED token
      BY <2>1 DEF Life, LifeOf, TokensOf, Exists, Live
    <2> QED  BY <2>1, BeginLife, TurnLife, EndLife, RowSteps DEF IInv
  <1> QED  BY <1>1, <1>2, Invariance, PTL DEF Spec, ImplementsChains, Abstract!Spec, Life

-----------------------------------------------------------------------------
\* The lock-out of a suspended member

\* A step makes u a usable token only out of another one, or for an open
\* request that was to grant it.
LEMMA NoTokenGranted ==
    ASSUME TypeOK, [Next]_vars, NEW u \in Users, LiveOf({u}) = {},
           \A r \in Requests : ~Admits(r, u)
    PROVE  LiveOf({u})' = {}
  <1>1. \A t \in Tokens : Live(t) => token[t].user # u
    BY DEF LiveOf
  <1> SUFFICES ASSUME NEW t \in Tokens, token'[t].status = "LIVE"
               PROVE  token'[t].user # u
    BY DEF LiveOf, Live
  <1>2. CASE Begins
    <2>1. PICK r \in Requests, n \in Tokens, v \in Users :
            /\ req[r].op = "issue" /\ req[r].user = v
            /\ ~Exists(n)
            /\ token' = [token EXCEPT ![n] = NewToken(v, n)]
      BY <1>2 DEF Begins
    <2>2. v # u
      BY <2>1 DEF Admits
    <2>3. (t # n => token'[t] = token[t]) /\ (t = n => token'[t].user = v)
      BY <2>1 DEF TypeOK, NewToken
    <2> QED  BY <1>1, <2>2, <2>3 DEF Live
  <1>3. CASE Turns
    <2>1. PICK r \in Requests, n \in Tokens :
            req[r].op = "rotate" /\ token' = Turned(req[r].old, n)
      BY <1>3 DEF Turns
    <2>2. PICK old \in Tokens : old = req[r].old
      BY <2>1, RequestKinds
    <2>3. token[old].user # u
      BY <2>1, <2>2 DEF Admits
    <2> QED  BY <1>1, <2>1, <2>2, <2>3 DEF Turned, TypeOK, Row, Live
  <1>4. CASE Ends
    BY <1>1, <1>4, EndRows DEF Ends, Live
  <1>5. CASE UNCHANGED token
    BY <1>1, <1>5 DEF Live
  <1> QED  BY <1>2, <1>3, <1>4, <1>5, RowSteps

\* A row that exists keeps its owner.
LEMMA OwnerKept ==
    ASSUME IInv, [Next]_vars, NEW t \in Tokens, Exists(t)
    PROVE  token'[t].user = token[t].user
  <1>1. CASE Begins
    BY <1>1 DEF Begins, IInv, TypeOK
  <1>2. CASE Turns
    <2>1. PICK r \in Requests, n \in Tokens :
            req[r].op = "rotate" /\ ~Exists(n) /\ token' = Turned(req[r].old, n)
      BY <1>2 DEF Turns
    <2>2. PICK old \in Tokens : old = req[r].old
      BY <2>1, RequestKinds DEF IInv
    <2> QED  BY <2>1, <2>2 DEF Turned, IInv, TypeOK, Row
  <1>3. CASE Ends
    BY <1>3, EndRows DEF Ends, IInv
  <1> QED  BY <1>1, <1>2, <1>3, RowSteps DEF IInv

\* No request comes to admit a member who is locked out.
LEMMA NotAdmitted ==
    ASSUME IInv, [Next]_vars, NEW u \in Users, LockedOut(u), NEW q \in Requests
    PROVE  ~Admits(q, u)'
  <1> USE DEF IInv
  <1> DEFINE Out == ~Admits(q, u)'
  <1>1. ASSUME req'[q] = req[q]
        PROVE  Out
    <2>1. ~Admits(q, u)
      BY DEF LockedOut
    <2>2. CASE req[q].op = "rotate"
      <3>1. PICK old \in Tokens : old = req[q].old
        BY <2>2, RequestKinds
      <3>2. Exists(old)
        BY <2>2, <3>1 DEF Fresh, Live, Exists
      <3>3. token'[old].user = token[old].user
        BY <3>2, OwnerKept
      <3> QED  BY <1>1, <2>1, <2>2, <3>1, <3>3 DEF Admits
    <2>3. CASE req[q].op # "rotate"
      BY <1>1, <2>1, <2>3 DEF Admits
    <2> QED  BY <2>2, <2>3
  <1>2. ASSUME req'[q].op \notin {"issue", "change", "change sweep", "rotate"}
        PROVE  Out
    BY <1>2 DEF Admits
  <1>3. ASSUME req'[q].op \in {"issue", "change", "change sweep"}, req'[q].user # u
        PROVE  Out
    BY <1>3 DEF Admits
  <1>4. ASSUME NEW r \in Requests, NEW x, Become(r, x), q # r
        PROVE  Out
    <2>1. req'[q] = req[q]
      BY <1>4 DEF Become, TypeOK
    <2> QED  BY <1>1, <2>1
  <1>5. ASSUME NEW x, Become(q, x), x.op \notin {"issue", "change", "change sweep", "rotate"}
        PROVE  Out
    <2>1. req'[q] = x
      BY <1>5 DEF Become, TypeOK
    <2> QED  BY <1>2, <1>5, <2>1
  <1>6. ASSUME NEW x, Become(q, x), x.op \in {"issue", "change", "change sweep"}, x.user # u
        PROVE  Out
    <2>1. req'[q] = x
      BY <1>6 DEF Become, TypeOK
    <2> QED  BY <1>3, <1>6, <2>1
  <1> HIDE DEF Out
  <1>7. ASSUME NEW r \in Requests, NEW v \in Users, LoginRead(r, v) \/ ChangePassword(r, v)
        PROVE  Out
    <2>1. v # u
      BY <1>7 DEF LoginRead, ChangePassword, MayEnter, LockedOut
    <2> QED  BY <1>4, <1>6, <1>7, <2>1 DEF LoginRead, ChangePassword
  <1>8. ASSUME NEW r \in Requests, NEW t \in Tokens, RefreshRead(r, t)
        PROVE  Out
    <2>1. CASE Usable(t) /\ q = r
      <3>1. req'[q].op = "rotate" /\ req'[q].old = t
        BY <1>8, <2>1 DEF RefreshRead, Become, TypeOK
      <3>2. token'[t].user # u
        BY <1>8, <2>1 DEF RefreshRead, Usable, LockedOut, LiveOf
      <3> QED  BY <3>1, <3>2 DEF Admits, Out
    <2>2. CASE ~Usable(t) /\ q = r
      <3>1. req'[q].op = "reuse"
        BY <1>8, <2>2 DEF RefreshRead, Become, TypeOK
      <3> QED  BY <1>2, <3>1
    <2> QED  BY <1>4, <1>8, <2>1, <2>2 DEF RefreshRead
  <1>9. ASSUME NEW r \in Requests, ReuseSweepRead(r) \/ SuspendRead(r)
        PROVE  Out
    BY <1>4, <1>5, <1>9 DEF ReuseSweepRead, SuspendRead
  <1>10. ASSUME NEW r \in Requests, ChangeSweepRead(r) \/ ChangeSweepWrite(r)
         PROVE  Out
    <2>1. req[r].user # u
      BY <1>10 DEF ChangeSweepRead, ChangeSweepWrite, LockedOut, Admits
    <2> QED  BY <1>4, <1>6, <1>10, <2>1 DEF ChangeSweepRead, ChangeSweepWrite
  <1>11. ASSUME NEW r \in Requests, Become(r, Idle)
         PROVE  Out
    BY <1>4, <1>5, <1>11 DEF Idle
  <1>12. ASSUME UNCHANGED req
         PROVE  Out
    <2>1. req'[q] = req[q]
      BY <1>12
    <2> QED  BY <1>1, <2>1
  <1>13. ASSUME NEW r \in Requests, NEW t \in Tokens, Issue(r, t) \/ Rotate(r, t)
         PROVE  Out
    <2>1. Become(r, Idle)
      BY <1>13 DEF Issue, Rotate
    <2> QED  BY <1>11, <2>1
  <1>14. ASSUME NEW r \in Requests, ReuseSweepWrite(r) \/ SuspendWrite(r) \/ Abort(r)
         PROVE  Out
    <2>1. Become(r, Idle)
      BY <1>14 DEF ReuseSweepWrite, SuspendWrite, Abort
    <2> QED  BY <1>11, <2>1
  <1>15. ASSUME NEW r \in Requests, NEW t \in Tokens, SignOut(r, t)
         PROVE  Out
    BY <1>12, <1>15 DEF SignOut
  <1>16. ASSUME NEW r \in Requests, NEW v \in Users, Deactivate(r, v)
         PROVE  Out
    BY <1>12, <1>16 DEF Deactivate
  <1>17. ASSUME NEW r \in Requests, Activate(r)
         PROVE  Out
    BY <1>12, <1>17 DEF Activate
  <1>18. ASSUME (\E v \in Users : AccessExpires(v)) \/ UNCHANGED vars
         PROVE  Out
    BY <1>12, <1>18 DEF AccessExpires, vars
  <1>19. ASSUME NEW r \in Requests, Step(r)
         PROVE  Out
    BY <1>7, <1>8, <1>9, <1>10, <1>13, <1>14, <1>15, <1>16, <1>17, <1>19 DEF Step
  <1>20. Out
    BY <1>18, <1>19 DEF Next
  <1> QED  BY <1>20 DEF Out

LEMMA NoAccessGranted ==
    ASSUME TypeOK, [Next]_vars, NEW u \in Users, LockedOut(u)
    PROVE  u \notin access'
  <1>1. u \notin access
    BY DEF LockedOut
  <1>2. ASSUME NEW r \in Requests, NEW t \in Tokens, Issue(r, t) \/ Rotate(r, t)
        PROVE  u \notin access'
    BY <1>1, <1>2 DEF Issue, Rotate, LockedOut, Admits
  <1>3. ASSUME NEW v \in Users, AccessExpires(v)
        PROVE  u \notin access'
    BY <1>1, <1>3 DEF AccessExpires
  <1>4. CASE UNCHANGED access
    BY <1>1, <1>4
  <1>5. ASSUME NEW r \in Requests, NEW t \in Tokens, RefreshRead(r, t) \/ SignOut(r, t)
        PROVE  UNCHANGED access
    BY <1>5 DEF RefreshRead, SignOut
  <1>6. ASSUME NEW r \in Requests, NEW v \in Users,
               LoginRead(r, v) \/ ChangePassword(r, v) \/ Deactivate(r, v)
        PROVE  UNCHANGED access
    BY <1>6 DEF LoginRead, ChangePassword, Deactivate
  <1>7. ASSUME NEW r \in Requests,
               \/ ReuseSweepRead(r) \/ ReuseSweepWrite(r) \/ ChangeSweepRead(r)
               \/ ChangeSweepWrite(r) \/ SuspendRead(r) \/ SuspendWrite(r)
               \/ Activate(r) \/ Abort(r)
        PROVE  UNCHANGED access
    BY <1>7 DEF ReuseSweepRead, ReuseSweepWrite, ChangeSweepRead, ChangeSweepWrite,
                SuspendRead, SuspendWrite, Activate, Abort
  <1>8. CASE UNCHANGED vars
    BY <1>4, <1>8 DEF vars
  <1> QED  BY <1>2, <1>3, <1>4, <1>5, <1>6, <1>7, <1>8 DEF Next, Step

\* Once nothing granted before a suspension is left, a member stays out until
\* the organization is active again or the member leaves it.
THEOREM SuspendedStayOut == Spec => LockedOutForEver
  <1>1. ASSUME IInv, [Next]_vars, NEW u \in Users, LockedOut(u),
               org' = "suspended", u \in members'
        PROVE  LockedOut(u)'
    BY <1>1, NoTokenGranted, NotAdmitted, NoAccessGranted DEF LockedOut, IInv
  <1>2. IInv /\ [Next]_vars =>
          [\A u \in Users : LockedOut(u) /\ org' = "suspended" /\ u \in members'
                              => LockedOut(u)']_vars
    BY <1>1
  <1> QED  BY <1>2, Invariance, PTL DEF Spec, LockedOutForEver

-----------------------------------------------------------------------------
\* TelegramLink

\* What a webhook, or a poll, in progress knows
LEMMA HookKinds ==
    ASSUME Link!TypeOK, NEW h \in Requests, hook[h] # Link!Idle
    PROVE  /\ hook[h] = [at |-> hook[h].at, nonce |-> hook[h].nonce, by |-> hook[h].by]
           /\ hook[h].at \in {"approve", "confirm", "stored", "ready"}
           /\ hook[h].nonce \in Link!Nonces /\ hook[h].by \in People
BY DEF Link!TypeOK, Link!Hook

LEMMA PollKinds ==
    ASSUME Link!TypeOK, NEW p \in Requests, poll[p] # Link!Idle
    PROVE  /\ poll[p] = [at |-> poll[p].at, nonce |-> poll[p].nonce, by |-> poll[p].by]
           /\ poll[p].at \in {"take", "sign", "issue"}
           /\ poll[p].nonce \in Link!Nonces /\ poll[p].by \in People
           /\ poll[p].at \in {"sign", "issue"} => poll[p].nonce \in LoginNonces
<1>1. poll[p] \in Link!Poll
  BY DEF Link!TypeOK
<1> QED BY <1>1 DEF Link!Poll, Link!Nonces

LEMMA HookGoes ==
    ASSUME Link!TypeOK, NEW h \in Requests, NEW q \in Link!Hook, Link!Go(h, q)
    PROVE  /\ hook' \in [Requests -> Link!Hook] /\ hook'[h] = q
           /\ \A g \in Requests \ {h} : hook'[g] = hook[g]
BY DEF Link!TypeOK, Link!Go

LEMMA PollAsks ==
    ASSUME Link!TypeOK, NEW p \in Requests, NEW q \in Link!Poll, Link!Ask(p, q)
    PROVE  /\ poll' \in [Requests -> Link!Poll] /\ poll'[p] = q
           /\ \A o \in Requests \ {p} : poll'[o] = poll[o]
BY DEF Link!TypeOK, Link!Ask

\* A nonce somebody can press Start on has been asked for, and keeps its owner.
Asked ==
    /\ \A n \in Link!Nonces : key[n] # Link!NoKey => owner[n] # Nobody
    /\ \A h \in Requests : hook[h] # Link!Idle => owner[hook[h].nonce] # Nobody

\* Rows of staff_telegram that are written and not committed are of different people and of
\* different Telegrams, and do not clash with those committed.
Writers ==
    \A h \in Requests : Link!Writing(h) =>
        /\ ~Link!TakenBy(hook[h].by, owner[hook[h].nonce])
        /\ \A g \in Requests \ {h} : Link!Writing(g) =>
              /\ owner[hook[g].nonce] # owner[hook[h].nonce]
              /\ hook[g].by # hook[h].by

Issuing(p, n) == poll[p].at = "issue" /\ poll[p].nonce = n

\* A nonce that was not used has given no session; one poll at a time makes it into one.
Grants ==
    \A n \in LoginNonces :
        /\ granted[n] \in {0, 1}
        /\ n \notin used => granted[n] = 0
        /\ \A p \in Requests : Issuing(p, n) =>
              /\ n \in used /\ granted[n] = 0
              /\ \A o \in Requests : Issuing(o, n) => o = p

LinkInv == Link!TypeOK /\ Asked /\ Writers /\ Link!OneStaffPerTelegram /\ Grants

LEMMA LinkTypeStep ==
    ASSUME Link!TypeOK, [Link!Next]_linkVars
    PROVE  Link!TypeOK'
<1> DEFINE Values == {Link!NoKey, Link!Pending} \union {Link!Approved(t) : t \in People}
<1>1. /\ Link!NoKey \in Values /\ Link!Pending \in Values
      /\ \A t \in People : Link!Approved(t) \in Values
      /\ Link!Idle \in Link!Hook /\ Link!Idle \in Link!Poll
  BY DEF Link!Hook, Link!Poll
<1>2. key \in [Link!Nonces -> Values]
  BY DEF Link!TypeOK
<1>3. ASSUME NEW n \in Link!Nonces, NEW v \in Values, Link!SetKey(n, v)
      PROVE  key' \in [Link!Nonces -> Values]
  BY <1>2, <1>3 DEF Link!SetKey
<1>4. ASSUME NEW n \in LoginNonces, Link!StartLogin(n)
      PROVE  Link!TypeOK'
  <2>1. key' \in [Link!Nonces -> Values]
    BY <1>1, <1>3, <1>4 DEF Link!StartLogin, Link!Nonces
  <2> QED BY <1>4, <2>1 DEF Link!StartLogin, Link!TypeOK, Link!Nonces
<1>5. ASSUME NEW n \in LinkNonces, NEW s \in Users, Link!StartLink(n, s)
      PROVE  Link!TypeOK'
  <2>1. key' \in [Link!Nonces -> Values]
    BY <1>1, <1>3, <1>5 DEF Link!StartLink, Link!Nonces
  <2> QED BY <1>5, <2>1 DEF Link!StartLink, Link!TypeOK, Link!Nonces
<1>6. ASSUME NEW n \in Link!Nonces, Link!Expire(n)
      PROVE  Link!TypeOK'
  <2>1. key' \in [Link!Nonces -> Values]
    BY <1>1, <1>3, <1>6 DEF Link!Expire
  <2> QED BY <1>6, <2>1 DEF Link!Expire, Link!TypeOK
<1>7. ASSUME NEW h \in Requests, NEW n \in Link!Nonces, NEW t \in People,
             Link!ApproveRead(h, n, t) \/ Link!PeekLink(h, n, t)
      PROVE  Link!TypeOK'
  <2>1. /\ [at |-> "approve", nonce |-> n, by |-> t] \in Link!Hook
        /\ [at |-> "confirm", nonce |-> n, by |-> t] \in Link!Hook
    BY DEF Link!Hook
  <2>2. hook' \in [Requests -> Link!Hook]
    BY <1>7, <2>1, HookGoes DEF Link!ApproveRead, Link!PeekLink
  <2> QED BY <1>7, <2>2 DEF Link!ApproveRead, Link!PeekLink, Link!TypeOK
<1>8. ASSUME NEW h \in Requests, Link!ApproveWrite(h) \/ Link!ConfirmLink(h)
                                   \/ Link!MarkReady(h) \/ Link!CommitLink(h) \/ Link!AbortHook(h)
      PROVE  Link!TypeOK'
  <2>1. /\ hook[h] = [at |-> hook[h].at, nonce |-> hook[h].nonce, by |-> hook[h].by]
        /\ hook[h].nonce \in Link!Nonces /\ hook[h].by \in People
    BY <1>8, HookKinds
       DEF Link!ApproveWrite, Link!ConfirmLink, Link!MarkReady, Link!CommitLink, Link!AbortHook,
           Link!Idle
  <2>2. /\ [hook[h] EXCEPT !.at = "stored"] \in Link!Hook
        /\ [hook[h] EXCEPT !.at = "ready"] \in Link!Hook
    BY <2>1 DEF Link!Hook
  <2>3. hook' \in [Requests -> Link!Hook]
    BY <1>1, <1>8, <2>2, HookGoes
       DEF Link!ApproveWrite, Link!ConfirmLink, Link!MarkReady, Link!CommitLink, Link!AbortHook
  <2>4. key' \in [Link!Nonces -> Values]
    BY <1>1, <1>2, <1>3, <1>8, <2>1
       DEF Link!ApproveWrite, Link!ConfirmLink, Link!MarkReady, Link!CommitLink, Link!AbortHook
  <2>5. linked' \in [Users -> People \union {Nobody}]
    BY <1>8, <2>1 DEF Link!ApproveWrite, Link!ConfirmLink, Link!MarkReady, Link!CommitLink,
       Link!AbortHook, Link!TypeOK
  <2> QED
    BY <1>8, <2>3, <2>4, <2>5 DEF Link!ApproveWrite, Link!ConfirmLink, Link!MarkReady,
       Link!CommitLink, Link!AbortHook, Link!TypeOK
<1>9. ASSUME NEW n \in Link!Nonces, NEW status \in {"expired", "pending", "ready"},
             Link!Told(n, status)
      PROVE  shown' \in [LinkNonces -> {"none", "pending", "expired", "ready"}]
  BY <1>9 DEF Link!Told, Link!TypeOK
<1>10. ASSUME NEW p \in Requests, NEW n \in Link!Nonces, Link!PollRead(p, n)
       PROVE  Link!TypeOK'
  <2>1. shown' \in [LinkNonces -> {"none", "pending", "expired", "ready"}]
    BY <1>9, <1>10 DEF Link!PollRead, Link!TypeOK
  <2>2. poll' \in [Requests -> Link!Poll]
    <3>1. CASE UNCHANGED poll
      BY <3>1 DEF Link!TypeOK
    <3>2. CASE ~(UNCHANGED poll)
      <4> DEFINE q == [at |-> "take", nonce |-> n, by |-> key[n].by]
      <4>1. key[n] # Link!NoKey /\ key[n] # Link!Pending /\ Link!Ask(p, q)
        BY <1>10, <3>2 DEF Link!PollRead
      <4>2. key[n].by \in People
        BY <1>2, <4>1 DEF Link!Approved
      <4>3. q \in Link!Poll
        BY <4>2 DEF Link!Poll
      <4> QED BY <4>1, <4>3, PollAsks
    <3> QED BY <3>1, <3>2
  <2> QED BY <1>10, <2>1, <2>2 DEF Link!PollRead, Link!TypeOK
<1>11. ASSUME NEW p \in Requests, Link!PollTake(p)
       PROVE  Link!TypeOK'
  <2> DEFINE n == poll[p].nonce
             q == [poll[p] EXCEPT !.at = "sign"]
  <2>1. /\ n \in Link!Nonces /\ poll[p].by \in People
        /\ poll[p] = [at |-> poll[p].at, nonce |-> poll[p].nonce, by |-> poll[p].by]
    BY <1>11, PollKinds DEF Link!PollTake, Link!Idle
  <2>2. n \in LoginNonces => q \in Link!Poll
    BY <2>1 DEF Link!Poll
  <2>3. Link!Ask(p, Link!Idle) \/ (n \in LoginNonces /\ Link!Ask(p, q))
    BY <1>11 DEF Link!PollTake
  <2>4. poll' \in [Requests -> Link!Poll]
    BY <1>1, <2>2, <2>3, PollAsks
  <2>5. key' \in [Link!Nonces -> Values]
    BY <1>1, <1>3, <1>11, <2>1 DEF Link!PollTake
  <2>6. shown' \in [LinkNonces -> {"none", "pending", "expired", "ready"}]
    BY <1>9, <1>11, <2>1 DEF Link!PollTake
  <2> QED BY <1>11, <2>4, <2>5, <2>6 DEF Link!PollTake, Link!TypeOK
<1>12. ASSUME NEW p \in Requests, Link!GuardReplay(p) \/ Link!SignIn(p) \/ Link!AbortPoll(p)
       PROVE  Link!TypeOK'
  <2>1. CASE Link!GuardReplay(p)
    <3>1. /\ poll[p].nonce \in LoginNonces /\ poll[p].by \in People
          /\ poll[p] = [at |-> poll[p].at, nonce |-> poll[p].nonce, by |-> poll[p].by]
      BY <2>1, PollKinds DEF Link!GuardReplay, Link!Idle
    <3>2. [poll[p] EXCEPT !.at = "issue"] \in Link!Poll
      BY <3>1 DEF Link!Poll
    <3>3. poll' \in [Requests -> Link!Poll]
      BY <2>1, <3>2, PollAsks DEF Link!GuardReplay
    <3> QED BY <2>1, <3>1, <3>3 DEF Link!GuardReplay, Link!TypeOK
  <2>2. CASE Link!SignIn(p) \/ Link!AbortPoll(p)
    <3>1. poll' \in [Requests -> Link!Poll]
      BY <1>1, <2>2, PollAsks DEF Link!SignIn, Link!AbortPoll
    <3>2. granted' \in [LoginNonces -> Nat]
      BY <2>2 DEF Link!SignIn, Link!AbortPoll, Link!TypeOK
    <3> QED BY <2>2, <3>1, <3>2 DEF Link!SignIn, Link!AbortPoll, Link!TypeOK
  <2> QED BY <1>12, <2>1, <2>2
<1>13. CASE UNCHANGED linkVars
  BY <1>13 DEF linkVars, Link!TypeOK
<1>14. LoginNonces \subseteq Link!Nonces /\ LinkNonces \subseteq Link!Nonces
  BY DEF Link!Nonces
<1> QED
  BY <1>4, <1>5, <1>6, <1>7, <1>8, <1>10, <1>11, <1>12, <1>13, <1>14 DEF Link!Next

LEMMA GrantsStep ==
    ASSUME Link!TypeOK, Grants, [Link!Next]_linkVars
    PROVE  Grants'
<1>1. CASE UNCHANGED <<used, granted, poll>>
  BY <1>1 DEF Grants, Issuing
<1>2. ASSUME NEW p \in Requests, NEW q \in Link!Poll, Link!Ask(p, q), q.at # "issue",
             UNCHANGED <<used, granted>>
      PROVE  Grants'
  BY <1>2, PollAsks DEF Grants, Issuing
<1>3. Link!Idle \in Link!Poll /\ Link!Idle.at = "idle"
  BY DEF Link!Poll, Link!Idle
<1>4. ASSUME NEW p \in Requests, NEW n \in Link!Nonces, Link!PollRead(p, n)
      PROVE  Grants'
  <2>1. CASE UNCHANGED poll
    BY <1>1, <1>4, <2>1 DEF Link!PollRead
  <2>2. CASE ~(UNCHANGED poll)
    <3>1. PICK q : Link!Ask(p, q) /\ q.at = "take"
      BY <1>4, <2>2 DEF Link!PollRead
    <3>2. q \in Link!Poll
      <4>1. poll' \in [Requests -> Link!Poll]
        BY <1>4, LinkTypeStep DEF Link!Next, Link!TypeOK
      <4> QED BY <3>1, <4>1 DEF Link!Ask, Link!TypeOK
    <3> QED BY <1>2, <1>4, <3>1, <3>2 DEF Link!PollRead
  <2> QED BY <2>1, <2>2
<1>5. ASSUME NEW p \in Requests, Link!PollTake(p)
      PROVE  Grants'
  <2> DEFINE q == [poll[p] EXCEPT !.at = "sign"]
  <2>1. /\ poll[p].by \in People
        /\ poll[p] = [at |-> poll[p].at, nonce |-> poll[p].nonce, by |-> poll[p].by]
    BY <1>5, PollKinds DEF Link!PollTake, Link!Idle
  <2>2. q.at = "sign" /\ (poll[p].nonce \in LoginNonces => q \in Link!Poll)
    BY <2>1 DEF Link!Poll
  <2>3. Link!Ask(p, Link!Idle) \/ (poll[p].nonce \in LoginNonces /\ Link!Ask(p, q))
    BY <1>5 DEF Link!PollTake
  <2> HIDE DEF q
  <2> QED BY <1>2, <1>3, <1>5, <2>2, <2>3 DEF Link!PollTake
<1>6. ASSUME NEW p \in Requests, Link!GuardReplay(p)
      PROVE  Grants'
  <2> DEFINE n == poll[p].nonce
             q == [poll[p] EXCEPT !.at = "issue"]
  <2>1. /\ n \in LoginNonces /\ poll[p].by \in People
        /\ poll[p] = [at |-> poll[p].at, nonce |-> poll[p].nonce, by |-> poll[p].by]
    BY <1>6, PollKinds DEF Link!GuardReplay, Link!Idle
  <2>2. q \in Link!Poll /\ q.at = "issue" /\ q.nonce = n
    BY <2>1 DEF Link!Poll
  <2>3. n \notin used /\ used' = used \union {n} /\ Link!Ask(p, q) /\ granted' = granted
    BY <1>6 DEF Link!GuardReplay, Link!Replayed
  <2> HIDE DEF n, q
  <2> QED BY <2>1, <2>2, <2>3, PollAsks DEF Grants, Issuing
<1>7. ASSUME NEW p \in Requests, Link!SignIn(p)
      PROVE  Grants'
  <2> DEFINE n == poll[p].nonce
  <2>1. n \in LoginNonces
    <3>1. poll[p].at = "issue" /\ poll[p] # Link!Idle
      BY <1>7 DEF Link!SignIn, Link!Idle
    <3> QED BY <3>1, PollKinds
  <2>2. n \in used /\ granted[n] = 0 /\ \A o \in Requests : Issuing(o, n) => o = p
    BY <1>7, <2>1 DEF Link!SignIn, Grants, Issuing
  <2>3. /\ granted'[n] = 1 /\ \A m \in LoginNonces \ {n} : granted'[m] = granted[m]
        /\ Link!Ask(p, Link!Idle) /\ used' = used
    BY <1>7, <2>1, <2>2 DEF Link!SignIn, Link!TypeOK
  <2> HIDE DEF n
  <2> QED BY <1>3, <2>1, <2>2, <2>3, PollAsks DEF Grants, Issuing
<1>8. ASSUME NEW p \in Requests, Link!AbortPoll(p)
      PROVE  Grants'
  BY <1>2, <1>3, <1>8 DEF Link!AbortPoll
<1>9. CASE UNCHANGED linkVars
  BY <1>1, <1>9 DEF linkVars
<1>10. ASSUME NEW n, NEW s, NEW h, NEW t,
              \/ Link!StartLogin(n) \/ Link!StartLink(n, s) \/ Link!Expire(n)
              \/ Link!ApproveRead(h, n, t) \/ Link!PeekLink(h, n, t)
              \/ Link!ApproveWrite(h) \/ Link!ConfirmLink(h) \/ Link!MarkReady(h)
              \/ Link!CommitLink(h) \/ Link!AbortHook(h)
       PROVE  Grants'
  BY <1>1, <1>10 DEF Link!StartLogin, Link!StartLink, Link!Expire, Link!ApproveRead,
     Link!PeekLink, Link!ApproveWrite, Link!ConfirmLink, Link!MarkReady, Link!CommitLink,
     Link!AbortHook
<1> QED
  BY <1>4, <1>5, <1>6, <1>7, <1>8, <1>9, <1>10 DEF Link!Next

LEMMA WritersStep ==
    ASSUME LinkInv, [Link!Next]_linkVars, Link!LinkAssumption
    PROVE  Asked' /\ Writers' /\ Link!OneStaffPerTelegram'
<1> DEFINE Goal == Asked' /\ Writers' /\ Link!OneStaffPerTelegram'
<1>1. Link!TypeOK /\ Asked /\ Writers /\ Link!OneStaffPerTelegram
  BY DEF LinkInv
<1>2. Link!Idle \in Link!Hook /\ Link!Idle.at = "idle" /\ Link!Pending # Link!NoKey
  BY DEF Link!Hook, Link!Idle, Link!Pending, Link!NoKey
<1>3. ASSUME NEW n \in Link!Nonces, NEW s \in Users, owner[n] = Nobody,
             owner' = [owner EXCEPT ![n] = s], Link!SetKey(n, Link!Pending),
             UNCHANGED <<linked, hook>>
      PROVE  Goal
  <2>1. /\ owner'[n] = s /\ s # Nobody
        /\ \A m \in Link!Nonces \ {n} : owner'[m] = owner[m]
        /\ \A m \in Link!Nonces \ {n} : key'[m] = key[m]
    BY <1>1, <1>3 DEF Link!TypeOK, Link!SetKey, Link!LinkAssumption
  <2>2. \A h \in Requests : hook[h] # Link!Idle =>
            hook[h].nonce # n /\ hook[h].nonce \in Link!Nonces
    BY <1>1, <1>3, HookKinds DEF Asked
  <2>3. \A h \in Requests : Link!Writing(h) => hook[h] # Link!Idle
    BY <1>2 DEF Link!Writing
  <2>4. \A h \in Requests : Link!Writing(h)' <=> Link!Writing(h)
    BY <1>3 DEF Link!Writing
  <2>5. Asked'
    BY <1>1, <1>3, <2>1, <2>2 DEF Asked
  <2>6. Writers'
    BY <1>1, <1>3, <2>1, <2>2, <2>3, <2>4 DEF Writers, Link!TakenBy
  <2> QED BY <1>1, <1>3, <2>5, <2>6 DEF Link!OneStaffPerTelegram
<1>4. ASSUME \A n \in Link!Nonces : key'[n] # Link!NoKey => owner[n] # Nobody,
             UNCHANGED <<owner, linked, hook>>
      PROVE  Goal
  BY <1>1, <1>4 DEF Asked, Writers, Link!Writing, Link!TakenBy, Link!OneStaffPerTelegram
<1>5. ASSUME NEW h \in Requests, NEW q \in Link!Hook, Link!Go(h, q),
             q.at \notin {"stored", "ready"}, q # Link!Idle => owner[q.nonce] # Nobody,
             \A n \in Link!Nonces : key'[n] # Link!NoKey => owner[n] # Nobody,
             UNCHANGED <<owner, linked>>
      PROVE  Goal
  <2>1. hook'[h] = q /\ \A g \in Requests \ {h} : hook'[g] = hook[g]
    BY <1>1, <1>5, HookGoes
  <2>2. Asked'
    BY <1>1, <1>5, <2>1 DEF Asked
  <2>3. \A g \in Requests : Link!Writing(g)' => g # h /\ Link!Writing(g)
    BY <1>5, <2>1 DEF Link!Writing
  <2>4. Writers'
    BY <1>1, <1>5, <2>1, <2>3 DEF Writers, Link!TakenBy
  <2> QED BY <1>1, <1>5, <2>2, <2>4 DEF Link!OneStaffPerTelegram
<1>6. ASSUME NEW n \in LoginNonces, Link!StartLogin(n)
      PROVE  Goal
  BY <1>3, <1>6 DEF Link!StartLogin, Link!Nonces
<1>7. ASSUME NEW n \in LinkNonces, NEW s \in Users, Link!StartLink(n, s)
      PROVE  Goal
  BY <1>3, <1>7 DEF Link!StartLink, Link!Nonces
<1>8. ASSUME NEW n \in Link!Nonces, Link!Expire(n)
      PROVE  Goal
  <2>1. \A m \in Link!Nonces : key'[m] # Link!NoKey => key[m] # Link!NoKey
    BY <1>1, <1>8 DEF Link!Expire, Link!SetKey, Link!TypeOK
  <2> QED BY <1>1, <1>4, <1>8, <2>1 DEF Link!Expire, Asked
<1>9. ASSUME NEW h \in Requests, NEW n \in Link!Nonces, NEW t \in People, NEW q,
             q \in {[at |-> "approve", nonce |-> n, by |-> t],
                    [at |-> "confirm", nonce |-> n, by |-> t]},
             key[n] # Link!NoKey, Link!Go(h, q), UNCHANGED <<key, owner, linked>>
      PROVE  Goal
  <2>1. q \in Link!Hook /\ q.at \notin {"stored", "ready"} /\ q.nonce = n
    BY <1>9 DEF Link!Hook
  <2>2. owner[n] # Nobody
    BY <1>1, <1>9 DEF Asked
  <2>3. \A m \in Link!Nonces : key'[m] # Link!NoKey => owner[m] # Nobody
    BY <1>1, <1>9 DEF Asked
  <2> QED BY <1>5, <1>9, <2>1, <2>2, <2>3
<1>10. ASSUME NEW h \in Requests, NEW n \in Link!Nonces, NEW t \in People,
              Link!ApproveRead(h, n, t) \/ Link!PeekLink(h, n, t)
       PROVE  Goal
  BY <1>9, <1>10 DEF Link!ApproveRead, Link!PeekLink
<1>11. ASSUME NEW h \in Requests, hook[h] # Link!Idle,
              UNCHANGED key \/ Link!SetKey(hook[h].nonce, Link!Approved(hook[h].by))
       PROVE  \A n \in Link!Nonces : key'[n] # Link!NoKey => owner[n] # Nobody
  BY <1>1, <1>11, HookKinds DEF Asked, Link!SetKey, Link!TypeOK
<1>12. ASSUME NEW h \in Requests, Link!ApproveWrite(h) \/ Link!AbortHook(h)
       PROVE  Goal
  <2>1. hook[h] # Link!Idle
    BY <1>2, <1>12 DEF Link!ApproveWrite, Link!AbortHook
  <2>2. \A n \in Link!Nonces : key'[n] # Link!NoKey => owner[n] # Nobody
    BY <1>11, <1>12, <2>1 DEF Link!ApproveWrite, Link!AbortHook
  <2> QED BY <1>2, <1>5, <1>12, <2>2 DEF Link!ApproveWrite, Link!AbortHook
<1>13. ASSUME NEW h \in Requests, NEW at \in {"stored", "ready"}, hook[h] # Link!Idle,
              Link!Go(h, [hook[h] EXCEPT !.at = at]),
              UNCHANGED key \/ Link!SetKey(hook[h].nonce, Link!Approved(hook[h].by)),
              UNCHANGED <<owner, linked>>
       PROVE  /\ Asked' /\ Link!OneStaffPerTelegram'
              /\ hook'[h].nonce = hook[h].nonce /\ hook'[h].by = hook[h].by
              /\ Link!Writing(h)'
              /\ \A g \in Requests \ {h} : hook'[g] = hook[g]
  <2> DEFINE q == [hook[h] EXCEPT !.at = at]
  <2>1. /\ hook[h] = [at |-> hook[h].at, nonce |-> hook[h].nonce, by |-> hook[h].by]
        /\ hook[h].nonce \in Link!Nonces /\ hook[h].by \in People
    BY <1>1, <1>13, HookKinds
  <2>2. q \in Link!Hook /\ q.at = at /\ q.nonce = hook[h].nonce /\ q.by = hook[h].by
    BY <2>1 DEF Link!Hook
  <2>3. Link!Go(h, q)
    BY <1>13
  <2> HIDE DEF q
  <2>4. hook'[h] = q /\ \A g \in Requests \ {h} : hook'[g] = hook[g]
    BY <1>1, <2>2, <2>3, HookGoes
  <2>5. \A n \in Link!Nonces : key'[n] # Link!NoKey => owner[n] # Nobody
    BY <1>11, <1>13
  <2>6. Asked'
    BY <1>1, <1>13, <2>2, <2>4, <2>5 DEF Asked
  <2> QED
    BY <1>1, <1>13, <2>2, <2>4, <2>6 DEF Link!OneStaffPerTelegram, Link!Writing
<1>14. ASSUME NEW h \in Requests, Link!ConfirmLink(h)
       PROVE  Goal
  <2>1. hook[h] # Link!Idle
    BY <1>2, <1>14 DEF Link!ConfirmLink
  <2>2. /\ Asked' /\ Link!OneStaffPerTelegram'
        /\ hook'[h].nonce = hook[h].nonce /\ hook'[h].by = hook[h].by
        /\ \A g \in Requests \ {h} : hook'[g] = hook[g]
    BY <1>13, <1>14, <2>1 DEF Link!ConfirmLink
  <2>3. \A g \in Requests \ {h} : Link!Writing(g)' <=> Link!Writing(g)
    BY <2>2 DEF Link!Writing
  <2>4. /\ ~Link!TakenBy(hook[h].by, owner[hook[h].nonce])
        /\ \A g \in Requests \ {h} : Link!Writing(g) =>
              /\ owner[hook[g].nonce] # owner[hook[h].nonce]
              /\ hook[g].by # hook[h].by
    BY <1>14 DEF Link!ConfirmLink, Link!Waits
  <2>5. owner' = owner /\ linked' = linked
    BY <1>14 DEF Link!ConfirmLink
  <2>6. Writers'
    BY <1>1, <2>2, <2>3, <2>4, <2>5 DEF Writers, Link!TakenBy
  <2> QED BY <2>2, <2>6
<1>15. ASSUME NEW h \in Requests, Link!MarkReady(h)
       PROVE  Goal
  <2>1. hook[h] # Link!Idle /\ Link!Writing(h)
    BY <1>2, <1>15 DEF Link!MarkReady, Link!Writing
  <2>2. /\ Asked' /\ Link!OneStaffPerTelegram'
        /\ hook'[h].nonce = hook[h].nonce /\ hook'[h].by = hook[h].by
        /\ \A g \in Requests \ {h} : hook'[g] = hook[g]
    BY <1>13, <1>15, <2>1 DEF Link!MarkReady
  <2>3. \A g \in Requests : Link!Writing(g)' => Link!Writing(g)
    BY <2>1, <2>2 DEF Link!Writing
  <2>4. owner' = owner /\ linked' = linked
    BY <1>15 DEF Link!MarkReady
  <2>5. Writers'
    BY <1>1, <2>2, <2>3, <2>4 DEF Writers, Link!TakenBy
  <2> QED BY <2>2, <2>5
<1>16. ASSUME NEW h \in Requests, Link!CommitLink(h)
       PROVE  Goal
  <2> DEFINE s == owner[hook[h].nonce]
             t == hook[h].by
  <2>1. hook[h] # Link!Idle /\ Link!Writing(h)
    BY <1>2, <1>16 DEF Link!CommitLink, Link!Writing
  <2>2. s \in Users /\ t \in People /\ s # Nobody /\ t # Nobody
    BY <1>1, <2>1, HookKinds DEF Asked, Link!TypeOK, Link!LinkAssumption
  <2>3. /\ linked' = [linked EXCEPT ![s] = t] /\ Link!Go(h, Link!Idle)
        /\ UNCHANGED <<key, owner>>
    BY <1>16 DEF Link!CommitLink
  <2>4. ~Link!TakenBy(t, s)
    BY <1>1, <2>1 DEF Writers
  <2>5. \A g \in Requests \ {h} : Link!Writing(g) =>
            owner[hook[g].nonce] # s /\ hook[g].by # t
    BY <1>1, <2>1 DEF Writers
  <2> HIDE DEF s, t
  <2>6. linked'[s] = t /\ \A u \in Users \ {s} : linked'[u] = linked[u]
    BY <1>1, <2>2, <2>3 DEF Link!TypeOK
  <2>7. hook'[h] = Link!Idle /\ \A g \in Requests \ {h} : hook'[g] = hook[g]
    BY <1>1, <1>2, <2>3, HookGoes
  <2>8. Asked'
    BY <1>1, <2>3, <2>7 DEF Asked
  <2>9. Link!OneStaffPerTelegram'
    BY <1>1, <2>2, <2>4, <2>6 DEF Link!OneStaffPerTelegram, Link!TakenBy
  <2>10. \A g \in Requests : Link!Writing(g)' => g # h /\ Link!Writing(g)
    BY <1>2, <2>7 DEF Link!Writing
  <2>11. Writers'
    BY <1>1, <2>3, <2>5, <2>6, <2>7, <2>10 DEF Writers, Link!TakenBy
  <2> QED BY <2>8, <2>9, <2>11
<1>17. ASSUME UNCHANGED <<key, owner, linked, hook>>
       PROVE  Goal
  <2>1. \A n \in Link!Nonces : key'[n] # Link!NoKey => owner[n] # Nobody
    BY <1>1, <1>17 DEF Asked
  <2> QED BY <1>4, <1>17, <2>1
<1>18. ASSUME NEW p \in Requests, Link!PollTake(p)
       PROVE  Goal
  <2>1. poll[p].nonce \in Link!Nonces
    <3>1. poll[p].at = "take" /\ poll[p] # Link!Idle
      BY <1>18 DEF Link!PollTake, Link!Idle
    <3> QED BY <1>1, <3>1, PollKinds
  <2>2. \A m \in Link!Nonces : key'[m] # Link!NoKey => key[m] # Link!NoKey
    BY <1>1, <1>18, <2>1 DEF Link!PollTake, Link!SetKey, Link!TypeOK
  <2> QED BY <1>1, <1>4, <1>18, <2>2 DEF Link!PollTake, Asked
<1>19. ASSUME UNCHANGED linkVars
       PROVE  Goal
  BY <1>17, <1>19 DEF linkVars
<1>20. LoginNonces \subseteq Link!Nonces /\ LinkNonces \subseteq Link!Nonces
  BY DEF Link!Nonces
<1> HIDE DEF Goal
<1>21. Goal
  <2>1. ASSUME NEW p \in Requests, Link!GuardReplay(p) \/ Link!SignIn(p) \/ Link!AbortPoll(p)
        PROVE  Goal
    BY <1>17, <2>1 DEF Link!GuardReplay, Link!SignIn, Link!AbortPoll
  <2>2. ASSUME NEW p \in Requests, NEW n \in Link!Nonces, Link!PollRead(p, n)
        PROVE  Goal
    BY <1>17, <2>2 DEF Link!PollRead
  <2>3. ASSUME NEW h \in Requests,
               \/ Link!ApproveWrite(h) \/ Link!ConfirmLink(h) \/ Link!MarkReady(h)
               \/ Link!CommitLink(h) \/ Link!AbortHook(h)
        PROVE  Goal
    BY <1>12, <1>14, <1>15, <1>16, <2>3
  <2>4. ASSUME NEW h \in Requests, NEW n \in Link!Nonces, NEW t \in People,
               Link!ApproveRead(h, n, t) \/ Link!PeekLink(h, n, t)
        PROVE  Goal
    BY <1>10, <2>4
  <2> QED
    BY <1>6, <1>7, <1>8, <1>18, <1>19, <1>20, <2>1, <2>2, <2>3, <2>4 DEF Link!Next
<1> QED BY <1>21 DEF Goal

LEMMA LinkAlways == PeopleSpec => []LinkInv
<1> DEFINE all == <<scene, vars, linkVars, botVars>>
<1>1. ASSUME PeopleInit
      PROVE  LinkInv
  <2>1. Link!TypeOK
    BY <1>1 DEF PeopleInit, Link!Init, Link!TypeOK, Link!Hook, Link!Poll
  <2>2. Asked
    BY <1>1 DEF PeopleInit, Link!Init, Asked
  <2>3. Writers /\ Link!OneStaffPerTelegram
    BY <1>1 DEF PeopleInit, Link!Init, Writers, Link!Writing, Link!Idle,
       Link!OneStaffPerTelegram
  <2>4. Grants
    BY <1>1 DEF PeopleInit, Link!Init, Grants, Issuing, Link!Idle
  <2> QED BY <2>1, <2>2, <2>3, <2>4 DEF LinkInv
<1>2. ASSUME LinkInv, [PeopleNext]_all
      PROVE  LinkInv'
  <2>1. [Link!Next]_linkVars
    BY <1>2 DEF PeopleNext
  <2>2. Link!LinkAssumption
    BY PeopleAssumption
  <2> QED BY <1>2, <2>1, <2>2, LinkTypeStep, GrantsStep, WritersStep DEF LinkInv
<1> QED BY <1>1, <1>2, PTL DEF PeopleSpec

\* A nonce gives one session at most and a Telegram account is linked to one member of the
\* staff, whatever presses of Start, polls, expiries and rolled back webhooks overlap
\* (guard_replay, staff_telegram_tg_uk).
THEOREM NoncesAlwaysSound == PeopleSpec => []NoncesSound
<1>1. LinkInv => NoncesSound
  BY DEF LinkInv, NoncesSound, Grants, Link!OneSessionPerNonce
<1> QED BY <1>1, LinkAlways, PTL

-----------------------------------------------------------------------------
\* BotChat

\* What handler task q relies on: the number is asked of, taken from and told to a person
\* who has a row, and no row ever goes away.
Relies(q) ==
    /\ q # Bot!Idle => q.from \in Guests
    /\ q.at = "refuse" => q.attempts \in 0 .. (MaxAttempts - 1)
    /\ q.at = "started" /\ q.profile = "named" => row[q.from] # "none"
    /\ q.at \in {"ask", "refuse", "save"} => row[q.from] # "none"
    /\ q.at = "tell" => row[q.from] = "verified"

Handling == DOMAIN task = Requests /\ \A h \in Requests : Relies(task[h])

Promised ==
    /\ \A t \in Guests : fsm[t].step = "contact" => row[t] # "none"
    /\ Bot!DoneMeansVerified

\* Prompts for a number: each was answered by a write, is about to be, or still waits.
Saving(t) == {h \in Requests : task[h].at = "save" /\ task[h].from = t}

Waiting(s) == IF s.step = "contact" THEN 1 ELSE 0

Prompted == \A t \in Guests : saved[t] + Cardinality(Saving(t)) + Waiting(fsm[t]) <= asked[t]

BotRows ==
    /\ fsm \in [Guests -> Bot!State]
    /\ row \in [Guests -> {"none", "named", "verified"}]
    /\ quiet \subseteq Guests
    /\ seen \subseteq Tokens
    /\ update \in [Tokens -> [kind : Bot!Kinds, from : Guests, ok : BOOLEAN] \union {Bot!NoUpdate}]
    /\ asked \in [Guests -> 0 .. MaxAsked]
    /\ saved \in [Guests -> Nat]
    /\ told \subseteq Guests

BotInv == BotRows /\ Handling /\ Promised /\ Prompted

RowsGrow ==
    \A t \in Guests : /\ row[t] # "none" => row'[t] # "none"
                      /\ row[t] = "verified" => row'[t] = "verified"

LEMMA BotStates ==
    /\ Bot!NoState \in Bot!State /\ Bot!NoState.step = "none"
    /\ Bot!Name \in Bot!State /\ Bot!Name.step = "name"
    /\ \A n \in 0 .. (MaxAttempts - 1) : Bot!Contact(n) \in Bot!State
    /\ \A n : Bot!Contact(n).step = "contact" /\ Bot!Contact(n).attempts = n
    /\ Bot!Idle.at = "idle"
BY DEF Bot!NoState, Bot!Name, Bot!Contact, Bot!State, Bot!Idle

LEMMA SavingFinite ==
    /\ \A t : IsFiniteSet(Saving(t)) /\ Cardinality(Saving(t)) \in Nat
<1>1. IsFiniteSet(Requests)
  BY PeopleAssumption DEF Bot!BotAssumption, Bot!IsFiniteSet, IsFiniteSet
<1>2. ASSUME NEW t PROVE IsFiniteSet(Saving(t)) /\ Cardinality(Saving(t)) \in Nat
  <2>1. Saving(t) \in SUBSET Requests
    BY DEF Saving
  <2>2. IsFiniteSet(Saving(t))
    BY <1>1, <2>1, FS_Subset
  <2> QED BY <2>2, FS_CardinalityType
<1> QED BY <1>2

\* A step changes the task of one handler only.
LEMMA TaskGoes ==
    ASSUME Handling, NEW h \in Requests, NEW q, Bot!Go(h, q), RowsGrow, Relies(q)'
    PROVE  /\ Handling' /\ task'[h] = q
           /\ \A g \in Requests \ {h} : task'[g] = task[g]
<1>1. /\ DOMAIN task' = Requests /\ task'[h] = q
      /\ \A g \in Requests \ {h} : task'[g] = task[g]
  BY DEF Handling, Bot!Go
<1>2. ASSUME NEW g \in Requests PROVE Relies(task[g])'
  <2>1. CASE g = h
    BY <1>1, <2>1 DEF Relies
  <2>2. CASE g # h
    <3>1. Relies(task[g]) /\ task'[g] = task[g]
      BY <1>1, <2>2 DEF Handling
    <3>2. task[g].at \in {"started", "ask", "refuse", "save", "tell"} => task[g].from \in Guests
      BY <3>1, BotStates DEF Relies
    <3> QED BY <3>1, <3>2 DEF Relies, RowsGrow
  <2> QED BY <2>1, <2>2
<1> QED BY <1>1, <1>2 DEF Handling

\* The writes under way: of a step that begins none, of one that begins one, of one that
\* ends one.
LEMMA SavingShrinks ==
    ASSUME NEW h \in Requests, NEW q, task'[h] = q, q.at # "save",
           \A g \in Requests \ {h} : task'[g] = task[g], NEW t
    PROVE  /\ Cardinality(Saving(t))' \in Nat
           /\ Cardinality(Saving(t))' <= Cardinality(Saving(t))
           /\ h \in Saving(t) => Cardinality(Saving(t))' = Cardinality(Saving(t)) - 1
<1>1. Saving(t)' = Saving(t) \ {h}
  BY DEF Saving
<1>2. IsFiniteSet(Saving(t)) /\ Cardinality(Saving(t)) \in Nat
  BY SavingFinite
<1>3. /\ IsFiniteSet(Saving(t) \ {h})
      /\ Cardinality(Saving(t) \ {h})
            = IF h \in Saving(t) THEN Cardinality(Saving(t)) - 1 ELSE Cardinality(Saving(t))
  BY <1>2, FS_RemoveElement
<1>4. Cardinality(Saving(t) \ {h}) \in Nat
  BY <1>3, FS_CardinalityType
<1>5. Cardinality(Saving(t))' = Cardinality(Saving(t) \ {h})
  BY <1>1
<1> QED BY <1>2, <1>3, <1>4, <1>5

LEMMA SavingBegins ==
    ASSUME NEW h \in Requests, NEW q, task'[h] = q, q.at = "save",
           \A g \in Requests \ {h} : task'[g] = task[g], NEW t
    PROVE  /\ Cardinality(Saving(t))' \in Nat
           /\ q.from # t => Cardinality(Saving(t))' <= Cardinality(Saving(t))
           /\ q.from = t => Cardinality(Saving(t))' <= Cardinality(Saving(t)) + 1
<1>1. CASE q.from = t
  <2>1. Saving(t)' = Saving(t) \union {h}
    BY <1>1 DEF Saving
  <2> QED BY <1>1, <2>1, SavingFinite, FS_AddElement
<1>2. CASE q.from # t
  <2>1. Saving(t)' = Saving(t) \ {h}
    BY <1>2 DEF Saving
  <2>2. IsFiniteSet(Saving(t) \ {h}) /\ Cardinality(Saving(t) \ {h}) <= Cardinality(Saving(t))
    BY SavingFinite, FS_Subset
  <2>3. Cardinality(Saving(t) \ {h}) \in Nat
    BY <2>2, FS_CardinalityType
  <2> QED BY <1>2, <2>1, <2>2, <2>3
<1> QED BY <1>1, <1>2

\* A step of a handler that changes no row and begins no write
LEMMA HandlerGoesOn ==
    ASSUME BotInv, NEW h \in Requests, NEW q, Bot!Go(h, q), Relies(q), q.at # "save",
           UNCHANGED <<fsm, row, quiet, update, asked, saved, told>>, seen' \subseteq Tokens
    PROVE  BotInv'
<1>1. RowsGrow /\ Relies(q)'
  BY DEF RowsGrow, Relies
<1>2. Handling' /\ task'[h] = q /\ \A g \in Requests \ {h} : task'[g] = task[g]
  BY <1>1, TaskGoes DEF BotInv
<1>3. ASSUME NEW t \in Guests
      PROVE  saved'[t] + Cardinality(Saving(t))' + Waiting(fsm'[t]) <= asked'[t]
  <2>1. saved[t] + Cardinality(Saving(t)) + Waiting(fsm[t]) <= asked[t]
    BY DEF BotInv, Prompted
  <2> QED
    BY <1>2, <2>1, SavingShrinks, SavingFinite DEF Waiting, BotInv, BotRows
<1>4. Prompted'
  BY <1>3 DEF Prompted
<1> QED
  BY <1>2, <1>4 DEF BotInv, BotRows, Promised, Bot!DoneMeansVerified

\* A step of a handler that writes the state of t and begins no write of a number: a prompt
\* goes out with a state that waits for its answer.
LEMMA StateFollows ==
    ASSUME BotInv, NEW h \in Requests, NEW q, Bot!Go(h, q), Relies(q), q.at # "save",
           NEW t \in Guests, NEW s \in Bot!State, Bot!SaveState(t, s),
           \/ s.step # "contact" /\ UNCHANGED asked
           \/ row[t] # "none" /\ Bot!Ask(t),
           UNCHANGED <<row, quiet, seen, update, saved, told>>
    PROVE  BotInv'
<1>1. RowsGrow /\ Relies(q)'
  BY DEF RowsGrow, Relies
<1>2. Handling' /\ task'[h] = q /\ \A g \in Requests \ {h} : task'[g] = task[g]
  BY <1>1, TaskGoes DEF BotInv
<1>3. /\ fsm' \in [Guests -> Bot!State] /\ fsm'[t] = s
      /\ \A u \in Guests \ {t} : fsm'[u] = fsm[u]
  BY DEF BotInv, BotRows, Bot!SaveState
<1>4. MaxAsked \in Nat
  BY PeopleAssumption DEF Bot!BotAssumption
<1>5. /\ asked' \in [Guests -> 0 .. MaxAsked]
      /\ s.step = "contact" => asked'[t] = asked[t] + 1
      /\ \A u \in Guests : asked'[u] >= asked[u]
  BY <1>4 DEF BotInv, BotRows, Bot!Ask
<1>6. ASSUME NEW u \in Guests
      PROVE  saved'[u] + Cardinality(Saving(u))' + Waiting(fsm'[u]) <= asked'[u]
  <2>1. saved[u] + Cardinality(Saving(u)) + Waiting(fsm[u]) <= asked[u]
    BY DEF BotInv, Prompted
  <2>2. /\ saved'[u] = saved[u] /\ saved[u] \in Nat /\ asked[u] \in Nat /\ asked'[u] \in Nat
        /\ Cardinality(Saving(u)) \in Nat /\ Cardinality(Saving(u))' \in Nat
        /\ Cardinality(Saving(u))' <= Cardinality(Saving(u))
    BY <1>2, <1>4, <1>5, SavingShrinks, SavingFinite DEF BotInv, BotRows
  <2> QED BY <1>3, <1>5, <2>1, <2>2 DEF Waiting
<1>7. Prompted'
  BY <1>6 DEF Prompted
<1>8. Promised'
  BY <1>3 DEF BotInv, Promised, Bot!DoneMeansVerified
<1> QED
  BY <1>2, <1>3, <1>5, <1>7, <1>8 DEF BotInv, BotRows

\* A step that leaves the handlers and the rows alone
LEMMA Elsewhere ==
    ASSUME BotInv, BotRows', UNCHANGED <<row, task, asked, saved, told>>,
           \A t \in Guests : fsm'[t] = fsm[t] \/ fsm'[t] = Bot!NoState
    PROVE  BotInv'
<1>1. Handling'
  BY DEF BotInv, Handling, Relies
<1>2. \A t \in Guests : fsm'[t].step = "contact" => fsm[t].step = "contact"
  BY BotStates
<1>3. ASSUME NEW t \in Guests
      PROVE  saved'[t] + Cardinality(Saving(t))' + Waiting(fsm'[t]) <= asked'[t]
  <2>1. saved[t] + Cardinality(Saving(t)) + Waiting(fsm[t]) <= asked[t]
    BY DEF BotInv, Prompted
  <2>2. Saving(t)' = Saving(t) /\ saved' = saved /\ asked' = asked
    BY DEF Saving
  <2>3. saved[t] \in Nat /\ asked[t] \in Int /\ Cardinality(Saving(t)) \in Nat
    BY SavingFinite DEF BotInv, BotRows
  <2> QED BY <1>2, <2>1, <2>2, <2>3 DEF Waiting
<1>4. Prompted'
  BY <1>3 DEF Prompted
<1> QED
  BY <1>1, <1>2, <1>4 DEF BotInv, Promised, Bot!DoneMeansVerified

LEMMA BotStep ==
    ASSUME BotInv, [Bot!Next]_botVars
    PROVE  BotInv'
<1>1. MaxAttempts \in Nat \ {0} /\ MaxAsked \in Nat
  BY PeopleAssumption DEF Bot!BotAssumption
<1>2. Relies(Bot!Idle) /\ Bot!Idle.at # "save"
  BY BotStates DEF Relies
<1>3. \A h \in Requests : Relies(task[h]) /\ (task[h] # Bot!Idle => task[h].from \in Guests)
  BY DEF BotInv, Handling, Relies
<1>4. ASSUME NEW u \in Tokens, NEW t \in Guests, Bot!WriteAny(u, t)
      PROVE  BotInv'
  <2>1. PICK kind \in Bot!Kinds, ok \in BOOLEAN : Bot!Write(u, t, kind, ok)
    <3>1. \A card \in Bot!Cards : Bot!CheckContact(card) \in BOOLEAN
      BY DEF Bot!CheckContact
    <3> QED BY <1>4, <3>1 DEF Bot!WriteAny, Bot!Kinds
  <2>2. [kind |-> kind, from |-> t, ok |-> ok] \in [kind : Bot!Kinds, from : Guests, ok : BOOLEAN]
    OBVIOUS
  <2>3. BotRows'
    BY <2>1, <2>2 DEF Bot!Write, BotInv, BotRows
  <2> QED BY <2>1, <2>3, Elsewhere DEF Bot!Write
<1>5. ASSUME NEW h \in Requests, NEW u \in Tokens, Bot!Receive(h, u)
      PROVE  BotInv'
  <2> DEFINE q == [at |-> update[u].kind, from |-> update[u].from, ok |-> update[u].ok]
  <2>1. update[u].kind \in Bot!Kinds /\ update[u].from \in Guests
    BY <1>5 DEF Bot!Receive, BotInv, BotRows
  <2>2. Relies(q) /\ q.at # "save"
    BY <2>1 DEF Relies, Bot!Kinds
  <2>3. Bot!Go(h, Bot!Idle) \/ Bot!Go(h, q)
    BY <1>5 DEF Bot!Receive
  <2>4. seen' \subseteq Tokens /\ UNCHANGED <<fsm, row, quiet, update, asked, saved, told>>
    BY <1>5 DEF Bot!Receive, BotInv, BotRows
  <2> HIDE DEF q
  <2> QED BY <1>2, <2>2, <2>3, <2>4, HandlerGoesOn
<1>6. ASSUME NEW u \in Tokens, Bot!ForgetUpdate(u)
      PROVE  BotInv'
  BY <1>6, Elsewhere DEF Bot!ForgetUpdate, BotInv, BotRows
<1>7. ASSUME NEW t \in Guests, Bot!EndQuiet(t)
      PROVE  BotInv'
  BY <1>7, Elsewhere DEF Bot!EndQuiet, BotInv, BotRows
<1>8. ASSUME NEW t \in Guests, Bot!LoseState(t)
      PROVE  BotInv'
  <2>1. BotRows' /\ \A u \in Guests : fsm'[u] = fsm[u] \/ fsm'[u] = Bot!NoState
    BY <1>8, BotStates DEF Bot!LoseState, Bot!SaveState, BotInv, BotRows
  <2> QED BY <1>8, <2>1, Elsewhere DEF Bot!LoseState
<1>9. ASSUME NEW h \in Requests, Bot!Fail(h)
      PROVE  BotInv'
  BY <1>2, <1>9, HandlerGoesOn DEF Bot!Fail, BotInv, BotRows
<1>10. ASSUME NEW h \in Requests, Bot!StartRead(h)
       PROVE  BotInv'
  <2> DEFINE t == task[h].from
             q == [at |-> "started", from |-> t, profile |-> row[t]]
  <2>1. t \in Guests
    BY <1>3, <1>10, BotStates DEF Bot!StartRead
  <2>2. Relies(q) /\ q.at # "save"
    BY <2>1 DEF Relies
  <2>3. Bot!Go(h, Bot!Idle) \/ Bot!Go(h, q)
    BY <1>10 DEF Bot!StartRead
  <2> HIDE DEF q
  <2> QED BY <1>2, <1>10, <2>2, <2>3, HandlerGoesOn DEF Bot!StartRead, BotInv, BotRows
<1>11. ASSUME NEW h \in Requests, Bot!StartWrite(h)
       PROVE  BotInv'
  <2> DEFINE t == task[h].from
  <2>1. t \in Guests /\ (task[h].profile = "named" => row[t] # "none")
    BY <1>3, <1>11, BotStates DEF Bot!StartWrite, Relies
  <2>2. /\ Bot!Go(h, Bot!Idle) /\ UNCHANGED <<row, quiet, seen, update, saved, told>>
        /\ \/ Bot!SaveState(t, Bot!Name) /\ UNCHANGED asked
           \/ task[h].profile = "named" /\ Bot!SaveState(t, Bot!Contact(0)) /\ Bot!Ask(t)
    BY <1>11 DEF Bot!StartWrite
  <2>3. Bot!Contact(0) \in Bot!State /\ Bot!Name \in Bot!State /\ Bot!Name.step # "contact"
    BY <1>1, BotStates
  <2> HIDE DEF t
  <2> QED BY <1>2, <2>1, <2>2, <2>3, StateFollows
<1>12. ASSUME NEW h \in Requests, Bot!TextRead(h)
       PROVE  BotInv'
  <2> DEFINE q == [at |-> "named", from |-> task[h].from]
  <2>1. Relies(q) /\ q.at # "save"
    BY <1>3, <1>12, BotStates DEF Bot!TextRead, Relies
  <2>2. Bot!Go(h, Bot!Idle) \/ Bot!Go(h, q)
    BY <1>12 DEF Bot!TextRead
  <2> HIDE DEF q
  <2> QED BY <1>2, <1>12, <2>1, <2>2, HandlerGoesOn DEF Bot!TextRead, BotInv, BotRows
<1>13. ASSUME NEW h \in Requests, NEW q, Bot!Go(h, q), q.at # "save", Relies(q)',
              RowsGrow, row' \in [Guests -> {"none", "named", "verified"}],
              told' \subseteq Guests, \A t \in told' : row'[t] = "verified",
              saved' \in [Guests -> Nat],
              \A t \in Guests : \/ saved'[t] = saved[t]
                                \/ saved'[t] = saved[t] + 1 /\ h \in Saving(t),
              UNCHANGED <<fsm, quiet, seen, update, asked>>
       PROVE  BotInv'
  <2>1. Handling' /\ task'[h] = q /\ \A g \in Requests \ {h} : task'[g] = task[g]
    BY <1>13, TaskGoes DEF BotInv
  <2>2. ASSUME NEW u \in Guests
        PROVE  saved'[u] + Cardinality(Saving(u))' + Waiting(fsm'[u]) <= asked'[u]
    <3>1. saved[u] + Cardinality(Saving(u)) + Waiting(fsm[u]) <= asked[u]
      BY DEF BotInv, Prompted
    <3>2. /\ saved[u] \in Nat /\ asked[u] \in Nat /\ asked'[u] = asked[u] /\ fsm'[u] = fsm[u]
          /\ Cardinality(Saving(u)) \in Nat /\ Cardinality(Saving(u))' \in Nat
          /\ Cardinality(Saving(u))' <= Cardinality(Saving(u))
          /\ h \in Saving(u) => Cardinality(Saving(u))' = Cardinality(Saving(u)) - 1
      BY <1>1, <1>13, <2>1, SavingShrinks, SavingFinite DEF BotInv, BotRows
    <3> QED BY <1>13, <3>1, <3>2 DEF Waiting
  <2>3. Prompted'
    BY <2>2 DEF Prompted
  <2>4. Promised'
    BY <1>13 DEF BotInv, Promised, RowsGrow, Bot!DoneMeansVerified
  <2> QED
    BY <1>13, <2>1, <2>3, <2>4 DEF BotInv, BotRows
<1>14. ASSUME NEW h \in Requests, Bot!TextUpsert(h)
       PROVE  BotInv'
  <2> DEFINE t == task[h].from
  <2>1. t \in Guests
    BY <1>3, <1>14, BotStates DEF Bot!TextUpsert
  <2>2. row' = Bot!Upserted(t) /\ UNCHANGED <<fsm, quiet, seen, update, asked, saved, told>>
    BY <1>14 DEF Bot!TextUpsert
  <2>3. RowsGrow /\ row' \in [Guests -> {"none", "named", "verified"}] /\ row'[t] # "none"
    BY <2>1, <2>2 DEF RowsGrow, Bot!Upserted, BotInv, BotRows
  <2>4. [task[h] EXCEPT !.at = "ask"].at = "ask" /\ [task[h] EXCEPT !.at = "ask"].from = t
    BY <1>14 DEF Bot!TextUpsert
  <2>5. PICK q : q.at = "ask" /\ q.from = t /\ Bot!Go(h, q)
    BY <1>14, <2>4 DEF Bot!TextUpsert
  <2> HIDE DEF t
  <2>6. Relies(q)'
    BY <2>1, <2>3, <2>5 DEF Relies
  <2>7. told' \subseteq Guests /\ \A u \in told' : row'[u] = "verified"
    BY <2>2, <2>3 DEF BotInv, BotRows, Promised, RowsGrow, Bot!DoneMeansVerified
  <2> QED BY <1>13, <2>2, <2>3, <2>5, <2>6, <2>7 DEF BotInv, BotRows
<1>15. ASSUME NEW h \in Requests, Bot!TextSave(h)
       PROVE  BotInv'
  <2> DEFINE t == task[h].from
  <2>1. t \in Guests /\ row[t] # "none"
    BY <1>3, <1>15, BotStates DEF Bot!TextSave, Relies
  <2>2. /\ Bot!Go(h, Bot!Idle) /\ UNCHANGED <<row, quiet, seen, update, saved, told>>
        /\ Bot!SaveState(t, Bot!Contact(0)) /\ Bot!Ask(t)
    BY <1>15 DEF Bot!TextSave
  <2>3. Bot!Contact(0) \in Bot!State
    BY <1>1, BotStates
  <2> HIDE DEF t
  <2> QED BY <1>2, <2>1, <2>2, <2>3, StateFollows
<1>16. ASSUME NEW h \in Requests, Bot!ContactTake(h)
       PROVE  BotInv'
  <2> DEFINE t == task[h].from
             q == [at |-> "save", from |-> t, attempts |-> fsm[t].attempts]
             p == [at |-> "refuse", from |-> t, attempts |-> fsm[t].attempts]
  <2>1. t \in Guests
    BY <1>3, <1>16, BotStates DEF Bot!ContactTake
  <2>2. /\ Bot!SaveState(t, Bot!NoState)
        /\ UNCHANGED <<row, quiet, seen, update, asked, saved, told>>
        /\ \/ Bot!Go(h, Bot!Idle)
           \/ fsm[t].step = "contact" /\ (Bot!Go(h, q) \/ Bot!Go(h, p))
    BY <1>16 DEF Bot!ContactTake, Bot!Consumed, Bot!SaveState
  <2>3. fsm[t].step = "contact" => /\ fsm[t].attempts \in 0 .. (MaxAttempts - 1)
                                   /\ row[t] # "none"
    <3>1. fsm[t] \in Bot!State
      BY <2>1 DEF BotInv, BotRows
    <3>2. fsm[t].step = "contact" => fsm[t].attempts \in 0 .. (MaxAttempts - 1)
      BY <3>1, BotStates DEF Bot!State
    <3> QED BY <2>1, <3>2 DEF BotInv, Promised
  <2>4. /\ q.at = "save" /\ q.from = t /\ p.at = "refuse"
        /\ fsm[t].step = "contact" => Relies(q) /\ Relies(p)
    BY <2>1, <2>3 DEF Relies
  <2> HIDE DEF t, q, p
  <2>5. Bot!NoState \in Bot!State /\ Bot!NoState.step # "contact"
    BY BotStates
  <2>6. CASE Bot!Go(h, Bot!Idle)
    BY <1>2, <2>1, <2>2, <2>5, <2>6, StateFollows
  <2>7. CASE fsm[t].step = "contact" /\ Bot!Go(h, p)
    BY <2>1, <2>2, <2>4, <2>5, <2>7, StateFollows
  <2>8. CASE fsm[t].step = "contact" /\ Bot!Go(h, q)
    <3>1. PICK c : c = q
      OBVIOUS
    <3>2. RowsGrow /\ Relies(c)'
      BY <2>2, <2>4, <2>8, <3>1 DEF RowsGrow, Relies
    <3>3. Handling' /\ task'[h] = c /\ \A g \in Requests \ {h} : task'[g] = task[g]
      BY <2>8, <3>1, <3>2, TaskGoes DEF BotInv
    <3>4. /\ fsm' \in [Guests -> Bot!State] /\ fsm'[t] = Bot!NoState
          /\ \A u \in Guests \ {t} : fsm'[u] = fsm[u]
      BY <2>1, <2>2, <2>5 DEF BotInv, BotRows, Bot!SaveState
    <3>5. ASSUME NEW u \in Guests
          PROVE  saved'[u] + Cardinality(Saving(u))' + Waiting(fsm'[u]) <= asked'[u]
      <4>1. saved[u] + Cardinality(Saving(u)) + Waiting(fsm[u]) <= asked[u]
        BY DEF BotInv, Prompted
      <4>2. /\ saved[u] \in Nat /\ asked[u] \in Nat
            /\ saved'[u] = saved[u] /\ asked'[u] = asked[u]
            /\ Cardinality(Saving(u)) \in Nat /\ Cardinality(Saving(u))' \in Nat
            /\ u # t => Cardinality(Saving(u))' <= Cardinality(Saving(u))
            /\ u = t => Cardinality(Saving(u))' <= Cardinality(Saving(u)) + 1
        BY <1>1, <2>2, <2>4, <3>1, <3>3, SavingBegins, SavingFinite DEF BotInv, BotRows
      <4>3. /\ u # t => Waiting(fsm'[u]) = Waiting(fsm[u])
            /\ u = t => Waiting(fsm'[u]) = 0 /\ Waiting(fsm[u]) = 1
            /\ Waiting(fsm[u]) \in {0, 1}
        BY <2>5, <2>8, <3>4 DEF Waiting
      <4> QED BY <4>1, <4>2, <4>3
    <3>6. Prompted'
      BY <3>5 DEF Prompted
    <3>7. Promised'
      BY <2>2, <2>5, <3>4 DEF BotInv, Promised, Bot!DoneMeansVerified
    <3> QED BY <2>2, <3>3, <3>4, <3>6, <3>7 DEF BotInv, BotRows
  <2> QED BY <2>2, <2>6, <2>7, <2>8
<1>17. ASSUME NEW h \in Requests, Bot!ContactRefuse(h)
       PROVE  BotInv'
  <2> DEFINE t == task[h].from
             n == task[h].attempts + 1
  <2>1. t \in Guests /\ task[h].attempts \in 0 .. (MaxAttempts - 1) /\ row[t] # "none"
    BY <1>3, <1>17, BotStates DEF Bot!ContactRefuse, Relies
  <2>2. /\ Bot!Go(h, Bot!Idle) /\ UNCHANGED <<row, seen, update, saved, told>>
        /\ \/ quiet' = quiet \union {t} /\ UNCHANGED <<fsm, asked>>
           \/ /\ n < MaxAttempts /\ Bot!SaveState(t, Bot!Contact(n)) /\ Bot!Ask(t)
              /\ UNCHANGED quiet
    BY <1>17 DEF Bot!ContactRefuse
  <2>3. CASE n < MaxAttempts /\ Bot!SaveState(t, Bot!Contact(n)) /\ Bot!Ask(t) /\ UNCHANGED quiet
    <3>1. n \in 0 .. (MaxAttempts - 1)
      BY <1>1, <2>1, <2>3
    <3>2. Bot!Contact(n) \in Bot!State
      BY <3>1, BotStates
    <3> HIDE DEF t, n
    <3> QED BY <1>2, <2>1, <2>2, <2>3, <3>2, StateFollows
  <2>4. CASE quiet' = quiet \union {t} /\ UNCHANGED <<fsm, asked>>
    <3> HIDE DEF t, n
    <3>1. RowsGrow /\ Relies(Bot!Idle)'
      BY <1>2, <2>2 DEF RowsGrow, Relies
    <3>2. Handling' /\ task'[h] = Bot!Idle /\ \A g \in Requests \ {h} : task'[g] = task[g]
      BY <2>2, <3>1, TaskGoes DEF BotInv
    <3>3. ASSUME NEW u \in Guests
          PROVE  saved'[u] + Cardinality(Saving(u))' + Waiting(fsm'[u]) <= asked'[u]
      <4>1. saved[u] + Cardinality(Saving(u)) + Waiting(fsm[u]) <= asked[u]
        BY DEF BotInv, Prompted
      <4> QED
        BY <1>1, <1>2, <2>2, <2>4, <3>2, <4>1, SavingShrinks, SavingFinite
           DEF Waiting, BotInv, BotRows
    <3>4. Prompted'
      BY <3>3 DEF Prompted
    <3> QED
      BY <2>1, <2>2, <2>4, <3>2, <3>4 DEF BotInv, BotRows, Promised, Bot!DoneMeansVerified
  <2> QED BY <2>2, <2>3, <2>4
<1>18. ASSUME NEW h \in Requests, Bot!ContactSave(h)
       PROVE  BotInv'
  <2> DEFINE t == task[h].from
  <2>1. t \in Guests /\ row[t] # "none" /\ h \in Saving(t)
    BY <1>3, <1>18, BotStates DEF Bot!ContactSave, Relies, Saving
  <2>2. /\ row' = [row EXCEPT ![t] = "verified"] /\ saved' = [saved EXCEPT ![t] = @ + 1]
        /\ Bot!Go(h, [at |-> "tell", from |-> t])
        /\ UNCHANGED <<fsm, quiet, seen, update, asked, told>>
    BY <1>18, <2>1 DEF Bot!ContactSave
  <2>3. PICK q : q.at = "tell" /\ q.from = t /\ Bot!Go(h, q)
    BY <2>2
  <2> HIDE DEF t
  <2>4. RowsGrow /\ row' \in [Guests -> {"none", "named", "verified"}] /\ row'[t] = "verified"
    BY <2>1, <2>2 DEF RowsGrow, BotInv, BotRows
  <2>5. Relies(q)'
    BY <2>1, <2>3, <2>4 DEF Relies
  <2>6. told' \subseteq Guests /\ \A u \in told' : row'[u] = "verified"
    BY <2>2, <2>4 DEF BotInv, BotRows, Promised, RowsGrow, Bot!DoneMeansVerified
  <2>7. /\ saved' \in [Guests -> Nat]
        /\ \A u \in Guests : \/ saved'[u] = saved[u]
                             \/ saved'[u] = saved[u] + 1 /\ h \in Saving(u)
    BY <2>1, <2>2 DEF BotInv, BotRows
  <2> QED BY <1>13, <2>2, <2>3, <2>4, <2>5, <2>6, <2>7
<1>19. ASSUME NEW h \in Requests, Bot!ContactTell(h)
       PROVE  BotInv'
  <2>1. task[h].from \in Guests /\ row[task[h].from] = "verified"
    BY <1>3, <1>19, BotStates DEF Bot!ContactTell, Relies
  <2>2. /\ told' = told \union {task[h].from} /\ Bot!Go(h, Bot!Idle)
        /\ UNCHANGED <<fsm, row, quiet, seen, update, asked, saved>>
    BY <1>19 DEF Bot!ContactTell
  <2>3. RowsGrow /\ Relies(Bot!Idle)'
    BY <1>2, <2>2 DEF RowsGrow, Relies
  <2>4. told' \subseteq Guests /\ \A u \in told' : row'[u] = "verified"
    BY <2>1, <2>2 DEF BotInv, BotRows, Promised, Bot!DoneMeansVerified
  <2> QED BY <1>2, <1>13, <2>2, <2>3, <2>4 DEF BotInv, BotRows
<1>20. CASE UNCHANGED botVars
  BY <1>20, Elsewhere DEF botVars, BotInv, BotRows
<1> QED
  BY <1>4, <1>5, <1>6, <1>7, <1>8, <1>9, <1>10, <1>11, <1>12, <1>14, <1>15, <1>16, <1>17,
     <1>18, <1>19, <1>20 DEF Bot!Next

LEMMA BotAlways == PeopleSpec => []BotInv
<1> DEFINE all == <<scene, vars, linkVars, botVars>>
<1>1. ASSUME PeopleInit
      PROVE  BotInv
  <2>1. MaxAttempts \in Nat \ {0} /\ MaxAsked \in Nat
    BY PeopleAssumption DEF Bot!BotAssumption
  <2>2. BotRows /\ Handling /\ Promised
    BY <1>1, <2>1, BotStates DEF PeopleInit, Bot!Init, BotRows, Handling, Relies, Promised,
       Bot!DoneMeansVerified
  <2>3. ASSUME NEW t \in Guests
        PROVE  saved[t] + Cardinality(Saving(t)) + Waiting(fsm[t]) <= asked[t]
    <3>1. Saving(t) = {}
      BY <1>1, BotStates DEF PeopleInit, Bot!Init, Saving
    <3>2. Cardinality(Saving(t)) = 0
      BY <3>1, FS_EmptySet
    <3> QED BY <1>1, <3>2, BotStates DEF PeopleInit, Bot!Init, Waiting
  <2> QED BY <2>2, <2>3 DEF BotInv, Prompted
<1>2. ASSUME BotInv, [PeopleNext]_all
      PROVE  BotInv'
  <2>1. [Bot!Next]_botVars
    BY <1>2 DEF PeopleNext
  <2> QED BY <1>2, <2>1, BotStep
<1> QED BY <1>1, <1>2, PTL DEF PeopleSpec

LEMMA PromptsBoundWrites == BotInv => Bot!OneWritePerPrompt /\ saved \in [Guests -> 0 .. MaxAsked]
<1> SUFFICES ASSUME BotInv
             PROVE  Bot!OneWritePerPrompt /\ saved \in [Guests -> 0 .. MaxAsked]
  OBVIOUS
<1>1. MaxAsked \in Nat
  BY PeopleAssumption DEF Bot!BotAssumption
<1>2. ASSUME NEW t \in Guests
      PROVE  saved[t] <= asked[t] /\ saved[t] \in Nat /\ asked[t] \in 0 .. MaxAsked
  <2>1. saved[t] + Cardinality(Saving(t)) + Waiting(fsm[t]) <= asked[t]
    BY DEF BotInv, Prompted
  <2> QED BY <1>1, <2>1, SavingFinite DEF Waiting, BotInv, BotRows
<1> QED BY <1>1, <1>2 DEF Bot!OneWritePerPrompt, BotInv, BotRows

\* Who was told "registered" has a verified number, although it is an UPDATE that may find no
\* row, and a prompt is answered by one write at most, although an update may come twice, to
\* two handlers, and the state may be lost or written by /start meanwhile.
THEOREM RegisteredAlwaysOnce == PeopleSpec => []RegisteredOnce
<1>1. BotInv => RegisteredOnce
  BY PromptsBoundWrites DEF RegisteredOnce, BotInv, Promised
<1> QED BY <1>1, BotAlways, PTL

-----------------------------------------------------------------------------
\* Every row and every request in progress of the three keep their type.
THEOREM PeopleTypesHold == PeopleSpec => []TypesOK
<1> DEFINE all == <<scene, vars, linkVars, botVars>>
           Typed == scene = "sessions" => TypeOK
<1>1. PeopleInit => Typed
  BY DEF PeopleInit, Init, TypeOK, Row
<1>2. ASSUME Typed, [PeopleNext]_all
      PROVE  Typed'
  <2>1. scene' = scene /\ (scene = "sessions" => [Next]_vars)
    BY <1>2 DEF PeopleNext
  <2> QED BY <1>2, <2>1, TypeStep
<1>3. LinkInv => Link!TypeOK
  BY DEF LinkInv
<1>4. BotInv => Bot!TypeOK
  BY PromptsBoundWrites DEF BotInv, BotRows, Handling, Relies, Bot!TypeOK
<1>5. Typed /\ Link!TypeOK /\ Bot!TypeOK => TypesOK
  BY DEF TypesOK
<1> HIDE DEF Typed
<1> QED BY <1>1, <1>2, <1>3, <1>4, <1>5, LinkAlways, BotAlways, PTL DEF PeopleSpec

=============================================================================
