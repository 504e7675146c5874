------------------------ MODULE NotificationsProofs ------------------------
(***************************************************************************)
(* Theorems about module Notifications, for any number of bookings, worker *)
(* jobs that overlap and instances of the API, any limit of attempts and   *)
(* any size of a batch.                                                    *)
(*                                                                         *)
(* The strengthening adds to the properties what a job has seen that the   *)
(* rows do not show yet: an answer of Telegram that waits for its UPDATE   *)
(* (Answered), and reminders that are claimed and still to be sent         *)
(* (Claimed).                                                              *)
(*                                                                         *)
(* The last theorem is about the run as a whole, with the requests that    *)
(* wait for connections (Tenancy).  What those may read and write is       *)
(* proved in ClubOfficeProofs; here it is their types.                     *)
(***************************************************************************)
EXTENDS MCNotifications, FiniteSetTheorems, TLAPS

Row == [status : {"NONE", "PENDING", "SENT", "ERROR"}, attempts : Nat]

\* What a worker does
Queueing == [at : {"queue"}, batch : SUBSET Notes]

Sending == [at : {"call"}, todo : SUBSET Notes]

Writing == [at : {"write"}, todo : SUBSET Notes, now : Notes, ok : BOOLEAN]

Job == {Idle} \union Queueing \union Sending \union Writing

Types ==
    /\ booking \in [Bookings -> Booking]
    /\ note \in [Notes -> Row]
    /\ created \in Seq(Notes)
    /\ worker \in [Workers -> Job]
    /\ loop \in [Loops -> SUBSET Bookings]
    /\ delivered \in SUBSET Notes
    /\ reminded \in [Bookings -> 0..2]

\* The message a worker is about to write belongs to its batch, and a success it is about
\* to write is of a message that arrived.
Answered ==
    \A w \in Workers : worker[w].at = "write" =>
        /\ worker[w].now \in worker[w].todo
        /\ worker[w].ok => worker[w].now \in delivered

\* A reminder an instance has yet to send is claimed, in the hands of no other instance,
\* and was not received; one that nobody claimed was not received either.
Claimed ==
    /\ \A l \in Loops : \A b \in loop[l] :
          /\ booking[b].claimed
          /\ reminded[b] = 0
          /\ \A m \in Loops : b \in loop[m] => m = l
    /\ \A b \in Bookings : ~booking[b].claimed => reminded[b] = 0

IInv == Types /\ Answered /\ Claimed /\ NotesSound

-----------------------------------------------------------------------------
\* What a worker does is told apart by its step.
LEMMA Jobs ==
    ASSUME worker \in [Workers -> Job], NEW w \in Workers
    PROVE  /\ worker[w].at \in {"idle", "queue", "call", "write"}
           /\ worker[w].at = "idle" <=> worker[w] = Idle
           /\ worker[w].at = "queue" => worker[w] \in Queueing
           /\ worker[w].at = "call" => worker[w] \in Sending
           /\ worker[w].at = "write" => worker[w] \in Writing
BY DEF Job, Idle, Queueing, Sending, Writing

\* The rows a batch adds to are finitely many, so that there is an order to write them in,
\* and any such order lists notes.
LEMMA Orders ==
    ASSUME NEW new \in SUBSET Notes, NEW s \in SetToSeqs(new)
    PROVE  s \in Seq(Notes)
<1>1. IsFiniteSet({"2h", "20m"})
  <2>1. IsFiniteSet({"2h"})
    BY FS_Singleton
  <2>2. IsFiniteSet({"2h"} \union {"20m"})
    BY <2>1, FS_AddElement
  <2> QED BY <2>2, {"2h", "20m"} = {"2h"} \union {"20m"}
<1>2. IsFiniteSet(Notes)
  BY <1>1, FS_Product, NotificationsAssumption DEF Notes
<1>3. Cardinality(new) \in Nat
  BY <1>2, FS_Subset, FS_CardinalityType
<1> QED BY <1>3 DEF SetToSeqs

\* One UPDATE of send_pending keeps a row's type and counts to the limit.
LEMMA Attempts ==
    ASSUME NEW row \in Row
    PROVE  /\ Failed(row) \in Row
           /\ Failed(row).status \in {"PENDING", "ERROR"}
           /\ Failed(row).status = "ERROR" => Failed(row).attempts >= MAX_SEND_ATTEMPTS
           /\ Failed(row).status = "PENDING" => Failed(row).attempts < MAX_SEND_ATTEMPTS
BY NotificationsAssumption DEF Failed, Row

LEMMA InitHolds == Init => IInv
<1> SUFFICES ASSUME Init PROVE IInv
  OBVIOUS
<1>1. /\ \A b \in Bookings : [status |-> "CONFIRMED", left |-> "far", claimed |-> FALSE] \in Booking
      /\ NoNote \in Row
  <2>1. Distances[1] = "far" /\ 1 \in DOMAIN Distances
    BY DEF Distances
  <2>2. "far" \in Range(Distances)
    BY <2>1 DEF Range
  <2> QED BY <2>2 DEF Booking, NoNote, Row
<1>2. Types
  BY <1>1 DEF Init, Types, Job
<1>3. Answered
  BY DEF Init, Answered, Idle
<1>4. Claimed /\ NotesSound
  BY DEF Init, Claimed, NotesSound, SentWasDelivered, GivenUpInTime, RemindedOnce, NoNote
<1> QED BY <1>2, <1>3, <1>4 DEF IInv

-----------------------------------------------------------------------------
\* Bookings and time

LEMMA BookingStep ==
    ASSUME IInv, NEW b \in Bookings, Cancel(b) \/ Approach(b)
    PROVE  IInv'
<1>1. UNCHANGED <<note, created, worker, loop, delivered, reminded>>
  BY DEF Cancel, Approach
<1>2. PICK x \in Booking :
        booking' = [booking EXCEPT ![b] = x] /\ x.claimed = booking[b].claimed
  <2>1. CASE Cancel(b)
    <3> DEFINE x == [booking[b] EXCEPT !.status = "CANCELLED"]
    <3>1. x \in Booking /\ x.claimed = booking[b].claimed
      BY DEF IInv, Types, Booking
    <3>2. booking' = [booking EXCEPT ![b] = x]
      BY <2>1 DEF Cancel
    <3> QED BY <3>1, <3>2
  <2>2. CASE Approach(b)
    <3>1. PICK i \in 1..3 : booking' = [booking EXCEPT ![b].left = Distances[i + 1]]
      BY <2>2 DEF Approach
    <3> DEFINE x == [booking[b] EXCEPT !.left = Distances[i + 1]]
    <3>2. Distances[i + 1] \in Range(Distances)
      <4>1. i + 1 \in DOMAIN Distances
        BY DEF Distances
      <4> QED BY <4>1 DEF Range
    <3>3. x \in Booking /\ x.claimed = booking[b].claimed
      BY <3>2 DEF IInv, Types, Booking
    <3>4. booking' = [booking EXCEPT ![b] = x]
      BY <3>1
    <3> QED BY <3>3, <3>4
  <2> QED BY <2>1, <2>2
<1>3. Types'
  BY <1>1, <1>2 DEF IInv, Types
<1>4. \A c \in Bookings : booking'[c].claimed = booking[c].claimed
  BY <1>2 DEF IInv, Types
<1>5. Claimed'
  BY <1>1, <1>4 DEF IInv, Types, Claimed
<1> QED
  BY <1>1, <1>3, <1>5 DEF IInv, Answered, NotesSound, SentWasDelivered, GivenUpInTime, RemindedOnce

-----------------------------------------------------------------------------
\* The worker

\* What begins, ends or waits without a word to the rows.
LEMMA ReadStep ==
    ASSUME IInv, NEW w \in Workers, NEW j \in Job, j.at # "write",
           worker' = [worker EXCEPT ![w] = j],
           UNCHANGED <<booking, note, created, loop, delivered, reminded>>
    PROVE  IInv'
<1>1. Types'
  BY DEF IInv, Types
<1>2. Answered'
  BY DEF IInv, Types, Answered
<1> QED
  BY <1>1, <1>2 DEF IInv, Claimed, NotesSound, SentWasDelivered, GivenUpInTime, RemindedOnce

\* The jobs that read, and those that end.
LEMMA IdleStep ==
    ASSUME IInv, NEW w \in Workers,
           ReminderRead(w) \/ SendRead(w) \/ SendEnd(w) \/ WorkerCrash(w)
    PROVE  IInv'
<1>1. Idle \in Job /\ Idle.at # "write"
  BY DEF Job, Idle
<1>2. CASE ReminderRead(w)
  <2> DEFINE due == {b \in Bookings : /\ booking[b].status = "CONFIRMED"
                                      /\ booking[b].left \in {"early", "soon"}}
             j == [at |-> "queue", batch |-> {<<b, Template(booking[b].left)>> : b \in due}]
  <2>1. \A b \in due : <<b, Template(booking[b].left)>> \in Notes
    BY DEF Template, Notes
  <2>2. j \in Job /\ j.at # "write"
    BY <2>1 DEF Job, Queueing
  <2>3. worker' = [worker EXCEPT ![w] = j]
    BY <1>2 DEF ReminderRead
  <2> QED
    BY <1>2, <2>2, <2>3, ReadStep DEF ReminderRead
<1>3. CASE SendRead(w)
  <2> DEFINE batch == {n \in PendingNotes :
                          Cardinality({m \in PendingNotes : Earlier(m, n)}) < SEND_BATCH}
             j == [at |-> "call", todo |-> batch]
  <2>1. batch \in SUBSET Notes
    BY DEF PendingNotes
  <2> HIDE DEF batch
  <2>2. j \in Job /\ j.at # "write"
    BY <2>1 DEF Job, Sending
  <2>3. worker' = [worker EXCEPT ![w] = j]
    BY <1>3 DEF SendRead, batch
  <2> QED
    BY <1>3, <2>2, <2>3, ReadStep DEF SendRead
<1> QED
  BY <1>1, <1>2, <1>3, ReadStep DEF SendEnd, WorkerCrash

LEMMA QueueStep ==
    ASSUME IInv, NEW w \in Workers, QueueCommit(w)
    PROVE  IInv'
<1> DEFINE new == Fresh(worker[w].batch)
<1>1. worker[w] \in Queueing
  BY Jobs DEF QueueCommit, IInv, Types
<1>2. new \in SUBSET Notes /\ \A n \in new : note[n].status = "NONE"
  BY <1>1 DEF Fresh, Queueing
<1>3. /\ note' = [n \in Notes |->
                    IF n \in new THEN [status |-> "PENDING", attempts |-> 0] ELSE note[n]]
      /\ \E s \in SetToSeqs(new) : created' = created \o s
      /\ worker' = [worker EXCEPT ![w] = Idle]
      /\ UNCHANGED <<booking, loop, delivered, reminded>>
  BY DEF QueueCommit
<1> HIDE DEF new
<1>4. Types'
  <2>1. note' \in [Notes -> Row]
    BY <1>3 DEF IInv, Types, Row
  <2>2. created' \in Seq(Notes)
    <3>1. PICK s \in SetToSeqs(new) : created' = created \o s
      BY <1>3
    <3>2. s \in Seq(Notes)
      BY <1>2, Orders
    <3> QED BY <3>1, <3>2 DEF IInv, Types
  <2>3. worker' \in [Workers -> Job]
    BY <1>3 DEF IInv, Types, Job
  <2> QED BY <1>3, <2>1, <2>2, <2>3 DEF IInv, Types
<1>5. Answered'
  BY <1>3 DEF IInv, Types, Answered, Idle
<1>6. NotesSound'
  BY <1>3, NotificationsAssumption
     DEF IInv, NotesSound, SentWasDelivered, GivenUpInTime, RemindedOnce
<1> QED
  BY <1>3, <1>4, <1>5, <1>6 DEF IInv, Claimed

\* A call whose answer counts is of a message that arrived.
LEMMA CallStep ==
    ASSUME IInv, NEW w \in Workers, NEW n \in Notes,
           NEW reached \in BOOLEAN, NEW answered \in BOOLEAN,
           SendCall(w, n, reached, answered)
    PROVE  IInv'
<1> DEFINE j == [at |-> "write", todo |-> worker[w].todo, now |-> n,
                 ok |-> Confirmed(reached, answered)]
<1>1. worker[w] \in Sending /\ n \in worker[w].todo
  BY Jobs DEF SendCall, FirstOf, IInv, Types
<1>2. Confirmed(reached, answered) \in BOOLEAN /\ (Confirmed(reached, answered) => reached)
  BY DEF Confirmed
<1>3. j \in Job /\ j.at = "write" /\ j.now = n /\ n \in j.todo /\ (j.ok => reached)
  BY <1>1, <1>2 DEF Job, Sending, Writing
<1>4. /\ worker' = [worker EXCEPT ![w] = j]
      /\ delivered' = IF reached THEN delivered \union {n} ELSE delivered
      /\ UNCHANGED <<booking, note, created, loop, reminded>>
  BY DEF SendCall
<1> HIDE DEF j
<1>5. Types'
  BY <1>3, <1>4 DEF IInv, Types
<1>6. Answered'
  BY <1>3, <1>4 DEF IInv, Types, Answered
<1>7. NotesSound'
  BY <1>4 DEF IInv, Types, NotesSound, SentWasDelivered, GivenUpInTime, RemindedOnce
<1> QED
  BY <1>4, <1>5, <1>6, <1>7 DEF IInv, Claimed

\* The UPDATE, whatever overlapping runs have made of the row since it was read.
LEMMA WriteStep ==
    ASSUME IInv, NEW w \in Workers, SendWrite(w)
    PROVE  IInv'
<1> DEFINE n == worker[w].now
           j == [at |-> "call", todo |-> worker[w].todo \ {n}]
           row == IF worker[w].ok THEN [note[n] EXCEPT !.status = "SENT"] ELSE Failed(note[n])
<1>1. worker[w] \in Writing /\ n \in Notes /\ (worker[w].ok => n \in delivered)
  BY Jobs DEF SendWrite, IInv, Types, Answered, Writing
<1>2. j \in Job /\ j.at # "write"
  BY <1>1 DEF Job, Sending, Writing
<1>3. /\ worker' = [worker EXCEPT ![w] = j]
      /\ note' = [note EXCEPT ![n] = row]
      /\ UNCHANGED <<booking, created, loop, delivered, reminded>>
  BY DEF SendWrite
<1>4. /\ row \in Row
      /\ row.status = "SENT" => n \in delivered
      /\ row.status = "ERROR" => row.attempts >= MAX_SEND_ATTEMPTS
      /\ row.status = "PENDING" => row.attempts < MAX_SEND_ATTEMPTS
  <2>1. note[n] \in Row
    BY <1>1 DEF IInv, Types
  <2>2. CASE worker[w].ok
    BY <1>1, <2>1, <2>2 DEF Row
  <2>3. CASE ~worker[w].ok
    BY <2>1, <2>3, Attempts
  <2> QED BY <2>2, <2>3
<1> HIDE DEF n, j, row
<1>5. Types'
  BY <1>1, <1>2, <1>3, <1>4 DEF IInv, Types
<1>6. Answered'
  BY <1>2, <1>3 DEF IInv, Types, Answered
<1>7. NotesSound'
  BY <1>1, <1>3, <1>4 DEF IInv, Types, NotesSound, SentWasDelivered, GivenUpInTime, RemindedOnce
<1> QED
  BY <1>3, <1>5, <1>6, <1>7 DEF IInv, Claimed

-----------------------------------------------------------------------------
\* The loop

LEMMA LoopStep ==
    ASSUME IInv, NEW l \in Loops,
           \/ Claim(l)
           \/ \E b \in Bookings, reached \in BOOLEAN : Remind(l, b, reached)
           \/ LoopCrash(l)
    PROVE  IInv'
<1>1. CASE Claim(l)
  <2> DEFINE due == {b \in Bookings : Due(b)}
  <2>1. /\ booking' = [b \in Bookings |->
                         IF b \in due THEN [booking[b] EXCEPT !.claimed = TRUE] ELSE booking[b]]
        /\ loop' = [loop EXCEPT ![l] = due]
        /\ loop[l] = {}
        /\ UNCHANGED <<note, created, worker, delivered, reminded>>
    BY <1>1 DEF Claim
  <2>2. due \in SUBSET Bookings /\ \A b \in due : ~booking[b].claimed
    BY DEF Due
  <2> HIDE DEF due
  <2>3. /\ booking' \in [Bookings -> Booking]
        /\ \A b \in Bookings : booking'[b].claimed = (booking[b].claimed \/ b \in due)
    <3> SUFFICES ASSUME NEW b \in Bookings
                 PROVE  /\ (IF b \in due THEN [booking[b] EXCEPT !.claimed = TRUE]
                                         ELSE booking[b]) \in Booking
                        /\ booking'[b].claimed = (booking[b].claimed \/ b \in due)
      BY <2>1
    <3>1. booking[b] \in Booking
      BY DEF IInv, Types
    <3> QED BY <2>1, <3>1 DEF Booking
  <2>4. Types'
    BY <2>1, <2>2, <2>3 DEF IInv, Types
  <2>5. Claimed'
    BY <2>1, <2>2, <2>3 DEF IInv, Types, Claimed
  <2> QED
    BY <2>1, <2>4, <2>5
       DEF IInv, Answered, NotesSound, SentWasDelivered, GivenUpInTime, RemindedOnce
<1>2. ASSUME NEW b \in Bookings, NEW reached \in BOOLEAN, Remind(l, b, reached)
      PROVE  IInv'
  <2>1. /\ b \in loop[l] /\ reminded[b] = 0 /\ booking[b].claimed
        /\ reminded' = IF reached THEN [reminded EXCEPT ![b] = 1] ELSE reminded
        /\ loop' = [loop EXCEPT ![l] = loop[l] \ {b}]
        /\ UNCHANGED <<booking, note, created, worker, delivered>>
    <3>1. b \in loop[l] /\ reminded[b] = 0 /\ booking[b].claimed
      BY <1>2 DEF Remind, IInv, Claimed
    <3>2. More(reminded[b]) = 1
      BY <3>1 DEF More
    <3> QED BY <1>2, <3>1, <3>2 DEF Remind
  <2>2. Types'
    BY <2>1 DEF IInv, Types
  <2>3. Claimed'
    BY <2>1 DEF IInv, Types, Claimed
  <2>4. RemindedOnce'
    BY <2>1 DEF IInv, Types, NotesSound, RemindedOnce
  <2> QED
    BY <2>1, <2>2, <2>3, <2>4 DEF IInv, Answered, NotesSound, SentWasDelivered, GivenUpInTime
<1>3. CASE LoopCrash(l)
  <2>1. /\ loop' = [loop EXCEPT ![l] = {}]
        /\ UNCHANGED <<booking, note, created, worker, delivered, reminded>>
    BY <1>3 DEF LoopCrash
  <2>2. Types' /\ Claimed'
    BY <2>1 DEF IInv, Types, Claimed
  <2> QED
    BY <2>1, <2>2 DEF IInv, Answered, NotesSound, SentWasDelivered, GivenUpInTime, RemindedOnce
<1> QED BY <1>1, <1>2, <1>3

\* The invariant is inductive.
LEMMA StepHolds == IInv /\ [Next]_vars => IInv'
<1> SUFFICES ASSUME IInv, [Next]_vars PROVE IInv'
  OBVIOUS
<1>1. CASE UNCHANGED vars
  BY <1>1 DEF vars, IInv, Types, Answered, Claimed, NotesSound, SentWasDelivered,
     GivenUpInTime, RemindedOnce
<1>2. ASSUME NEW w \in Workers, Work(w) PROVE IInv'
  BY <1>2, QueueStep, CallStep, WriteStep, IdleStep DEF Work
<1> QED BY <1>1, <1>2, BookingStep, IdleStep, LoopStep DEF Next

LEMMA Invariance == Spec => []IInv
BY InitHolds, StepHolds, PTL DEF Spec

-----------------------------------------------------------------------------
\* The types of TypeOK
LEMMA TypesSuffice == IInv => TypeOK
<1> SUFFICES ASSUME IInv PROVE TypeOK
  OBVIOUS
<1>1. \A w \in Workers :
        \/ worker[w] = Idle
        \/ worker[w].at = "queue" /\ worker[w].batch \subseteq Notes
        \/ worker[w].at = "call" /\ worker[w].todo \subseteq Notes
        \/ /\ worker[w].at = "write" /\ worker[w].ok \in BOOLEAN
           /\ worker[w].todo \subseteq Notes /\ worker[w].now \in worker[w].todo
  BY Jobs DEF IInv, Types, Answered, Queueing, Sending, Writing
<1>2. Range(created) \subseteq Notes
  BY DEF IInv, Types, Range
<1> QED BY <1>1, <1>2 DEF IInv, Types, TypeOK, Row

\* Rows, jobs and histories have their types in every reachable state, and the message a
\* run of send_pending is about to write is one of its batch.
THEOREM TypesHold == Spec => []TypeOK
BY TypesSuffice, Invariance, PTL

\* Whatever overlaps, crashes or is answered late: SENT is written only of messages that
\* arrived, a message is given up after MAX_SEND_ATTEMPTS failures and never tried after
\* them (send_pending), and the loop reminds a guest at most once
\* (claim_due_booking_reminders).
THEOREM NotesAlwaysSound == Spec => []NotesSound
<1>1. IInv => NotesSound
  BY DEF IInv
<1> QED BY <1>1, Invariance, PTL

\* What was sent and is in no run's hands is left alone by every step.
LEMMA DoneStays ==
    ASSUME IInv, Next, NEW n \in Notes, Done(n)
    PROVE  Done(n)'
<1>1. CASE \/ \E b \in Bookings : Cancel(b) \/ Approach(b)
           \/ \E l \in Loops : \/ Claim(l)
                               \/ \E b \in Bookings, reached \in BOOLEAN : Remind(l, b, reached)
                               \/ LoopCrash(l)
  BY <1>1 DEF Cancel, Approach, Claim, Remind, LoopCrash, Done
<1>2. ASSUME NEW w \in Workers, ReminderRead(w) \/ SendEnd(w) \/ WorkerCrash(w)
      PROVE  Done(n)'
  BY <1>2 DEF ReminderRead, SendEnd, WorkerCrash, Done, Idle, IInv, Types
<1>3. ASSUME NEW w \in Workers, SendRead(w) PROVE Done(n)'
  <2>1. n \notin PendingNotes
    BY DEF Done, PendingNotes
  <2>2. PICK batch \in SUBSET PendingNotes :
          /\ worker' = [worker EXCEPT ![w] = [at |-> "call", todo |-> batch]]
          /\ UNCHANGED note
    BY <1>3 DEF SendRead
  <2> QED BY <2>1, <2>2 DEF Done, IInv, Types
<1>4. ASSUME NEW w \in Workers, QueueCommit(w) PROVE Done(n)'
  BY <1>4 DEF QueueCommit, Fresh, Done, Idle, IInv, Types
<1>5. ASSUME NEW w \in Workers, NEW m \in Notes, NEW reached \in BOOLEAN, NEW answered \in BOOLEAN,
             SendCall(w, m, reached, answered)
      PROVE  Done(n)'
  BY <1>5 DEF SendCall, Done, IInv, Types
<1>6. ASSUME NEW w \in Workers, SendWrite(w) PROVE Done(n)'
  <2>1. worker[w].now # n
    BY <1>6 DEF SendWrite, IInv, Answered, Done
  <2> QED BY <1>6, <2>1 DEF SendWrite, Done, IInv, Types
<1> QED BY <1>1, <1>2, <1>3, <1>4, <1>5, <1>6 DEF Next, Work

\* A message that was sent is never queued again (notifications_dedup_uk) nor sent again by
\* a later run: a second copy can only come from a run that overlapped the first.
THEOREM SentIsForEver == Spec => SentForEver
<1>1. IInv /\ [Next]_vars => [\A n \in Notes : Done(n) => Done(n)']_vars
  BY DoneStays
<1> QED BY <1>1, Invariance, PTL DEF Spec, SentForEver


-----------------------------------------------------------------------------
\* Tenancy: types

Request ==
    [stage : Tenants!Stages, kind : Tenants!RequestKinds, who : People \union {Nobody},
     club : Clubs \union {NoClub}, claim : Tenants!Ranks \union {"none"},
     about : Clubs \union {NoClub}, first : Tenants!Conns \union {NoConn},
     second : Tenants!Conns \union {NoConn}]

tenantTypes ==
    /\ role \in [Posts -> Grades \union {"none"}]
    /\ token \in [Posts -> Grades \union {"none"}]
    /\ guc \in [Tenants!Conns -> Tenants!TransactionSettings]
    /\ task \in [Tasks -> Request]

\* A step that gives one request another value of its type
LEMMA OneRequest ==
    ASSUME tenantTypes, NEW t \in Tasks, NEW new \in Request,
           task' = [task EXCEPT ![t] = new], UNCHANGED <<role, token>>,
           guc' \in [Tenants!Conns -> Tenants!TransactionSettings]
    PROVE  tenantTypes'
BY DEF tenantTypes

\* A request that comes in: a person with a token, a visitor, the bot, the platform
LEMMA Arrivals ==
    ASSUME tenantTypes, NEW t \in Tasks,
           \/ \E u \in People, c \in Clubs \union {NoClub} : Tenants!Arrive(t, u, c)
           \/ Tenants!ArrivePublic(t)
           \/ \E q \in Posts : Tenants!AskBot(t, q[1], q[2])
           \/ Tenants!ArrivePlatform(t)
    PROVE  tenantTypes'
<1>1. guc \in [Tenants!Conns -> Tenants!TransactionSettings]
  BY DEF tenantTypes
<1>2. ASSUME NEW u \in People, NEW c \in Clubs \union {NoClub}, Tenants!Arrive(t, u, c)
      PROVE  tenantTypes'
  <2> DEFINE claim == IF c = NoClub THEN "none" ELSE Tenants!Claim(u, c)
             new == [Tenants!Idle EXCEPT !.stage = "waiting", !.who = u, !.club = c,
                         !.claim = claim]
  <2>1. claim \in Tenants!Ranks \union {"none"}
    BY NoticesAssumption DEF Tenants!TenancyAssumption, Tenants!Claim, tenantTypes
  <2> HIDE DEF claim
  <2>2. new \in Request
    BY <2>1 DEF Tenants!Idle, Request, Tenants!Stages, Tenants!RequestKinds
  <2>3. task' = [task EXCEPT ![t] = new] /\ UNCHANGED <<role, token, guc>>
    BY <1>2 DEF Tenants!Arrive, claim
  <2> HIDE DEF new
  <2> QED BY <1>1, <2>2, <2>3, OneRequest
<1>3. ASSUME Tenants!ArrivePublic(t)
      PROVE  tenantTypes'
  <2> DEFINE new == [Tenants!Idle EXCEPT !.stage = "waiting"]
  <2>1. new \in Request
    BY DEF Tenants!Idle, Request, Tenants!Stages, Tenants!RequestKinds
  <2>2. task' = [task EXCEPT ![t] = new] /\ UNCHANGED <<role, token, guc>>
    BY <1>3 DEF Tenants!ArrivePublic
  <2> HIDE DEF new
  <2> QED BY <1>1, <2>1, <2>2, OneRequest
<1>4. ASSUME NEW q \in Posts, Tenants!AskBot(t, q[1], q[2])
      PROVE  tenantTypes'
  <2> DEFINE new == [Tenants!Idle EXCEPT !.stage = "waiting", !.kind = "bot", !.about = q[2]]
  <2>1. q[2] \in Clubs
    BY NoticesAssumption DEF Tenants!TenancyAssumption
  <2>2. new \in Request
    BY <2>1 DEF Tenants!Idle, Request, Tenants!Stages, Tenants!RequestKinds
  <2>3. task' = [task EXCEPT ![t] = new] /\ UNCHANGED <<role, token, guc>>
    BY <1>4 DEF Tenants!AskBot
  <2> HIDE DEF new
  <2> QED BY <1>1, <2>2, <2>3, OneRequest
<1>5. ASSUME Tenants!ArrivePlatform(t)
      PROVE  tenantTypes'
  <2> DEFINE new == [Tenants!Idle EXCEPT !.stage = "waiting", !.kind = "platform"]
  <2>1. new \in Request
    BY DEF Tenants!Idle, Request, Tenants!Stages, Tenants!RequestKinds
  <2>2. task' = [task EXCEPT ![t] = new] /\ UNCHANGED <<role, token, guc>>
    BY <1>5 DEF Tenants!ArrivePlatform
  <2> HIDE DEF new
  <2> QED BY <1>1, <2>1, <2>2, OneRequest
<1> QED BY <1>2, <1>3, <1>4, <1>5

\* What a request does to its connections
LEMMA Transactions ==
    ASSUME tenantTypes, NEW t \in Tasks,
           \/ \E u \in People : Tenants!SetCurrentUser(t, u)
           \/ Tenants!AskAudit(t)
           \/ Tenants!Step(t)
    PROVE  tenantTypes'
<1> DEFINE Typed == [Tenants!Conns -> Tenants!TransactionSettings]
<1>1. /\ task[t] \in Request /\ task \in [Tasks -> Request]
      /\ guc \in Typed
  BY DEF tenantTypes
<1>2. /\ Tenants!Idle \in Request
      /\ Tenants!Clean \in Tenants!TransactionSettings
  BY DEF Tenants!Idle, Request, Tenants!Stages, Tenants!RequestKinds, Tenants!Clean,
     Tenants!TransactionSettings
<1>3. ASSUME NEW k, NEW u \in People \union {Nobody}
      PROVE  [guc EXCEPT ![k].user = u] \in Typed
  BY <1>1 DEF Tenants!TransactionSettings
<1>4. ASSUME NEW k
      PROVE  [guc EXCEPT ![k] = Tenants!Clean] \in Typed
  BY <1>1, <1>2
<1>5. ASSUME NEW u \in People, Tenants!SetCurrentUser(t, u)
      PROVE  tenantTypes'
  <2> DEFINE new == [task[t] EXCEPT !.who = u]
  <2>1. new \in Request
    BY <1>1 DEF Request
  <2>2. task' = [task EXCEPT ![t] = new] /\ UNCHANGED <<role, token>>
    BY <1>1, <1>5 DEF Tenants!SetCurrentUser
  <2>3. guc' \in Typed
    BY <1>3, <1>5 DEF Tenants!SetCurrentUser
  <2> HIDE DEF new
  <2> QED BY <2>1, <2>2, <2>3, OneRequest
<1>6. ASSUME Tenants!AskAudit(t) \/ Tenants!AuditGivesUp(t) \/ Tenants!GiveUp(t)
      PROVE  tenantTypes'
  <2>1. PICK st \in Tenants!Stages :
           task' = [task EXCEPT ![t].stage = st] \/ task' = [task EXCEPT ![t] = Tenants!Idle]
    BY <1>6 DEF Tenants!AskAudit, Tenants!AuditGivesUp, Tenants!GiveUp, Tenants!Stages
  <2> DEFINE new == [task[t] EXCEPT !.stage = st]
  <2>2. new \in Request
    BY <1>1 DEF Request
  <2>3. task' = [task EXCEPT ![t] = new] \/ task' = [task EXCEPT ![t] = Tenants!Idle]
    BY <1>1, <2>1
  <2>4. UNCHANGED <<role, token>> /\ guc' \in Typed
    BY <1>1, <1>6 DEF Tenants!AskAudit, Tenants!AuditGivesUp, Tenants!GiveUp
  <2> HIDE DEF new
  <2> QED BY <1>2, <2>2, <2>3, <2>4, OneRequest
<1>7. ASSUME NEW k \in Tenants!Conns, Tenants!Begin(t, k)
      PROVE  tenantTypes'
  <2> DEFINE new == [task[t] EXCEPT !.stage = "open", !.first = k]
             g == Tenants!Applied(guc[k], task[t])
  <2>1. new \in Request
    BY <1>1 DEF Request, Tenants!Stages
  <2>2. task' = [task EXCEPT ![t] = new] /\ UNCHANGED <<role, token>>
    BY <1>1, <1>7 DEF Tenants!Begin
  <2>3. g \in Tenants!TransactionSettings
    <3>1. guc[k] \in Tenants!TransactionSettings
      BY <1>1
    <3>2. CASE task[t].kind = "platform"
      BY <3>1, <3>2 DEF Tenants!Applied, Tenants!TransactionSettings
    <3>3. CASE task[t].kind # "platform"
      BY <1>1, <3>1, <3>3 DEF Tenants!Applied, Tenants!TransactionSettings, Request
    <3> QED BY <3>2, <3>3
  <2>4. guc' = [guc EXCEPT ![k] = g]
    BY <1>1, <1>7 DEF Tenants!Begin
  <2> HIDE DEF new, g
  <2>5. guc' \in Typed
    BY <1>1, <2>3, <2>4
  <2> QED BY <2>1, <2>2, <2>5, OneRequest
<1>8. ASSUME NEW k \in AppConns, Tenants!BeginAudit(t, k)
      PROVE  tenantTypes'
  <2> DEFINE new == [task[t] EXCEPT !.stage = "auditing", !.second = k]
  <2>1. new \in Request
    BY <1>1 DEF Request, Tenants!Stages, Tenants!Conns
  <2>2. task' = [task EXCEPT ![t] = new] /\ UNCHANGED <<role, token>>
    BY <1>1, <1>8 DEF Tenants!BeginAudit
  <2>3. task[t].who \in People \union {Nobody}
    BY <1>1 DEF Request
  <2>4. guc' \in Typed
    BY <1>3, <1>8, <2>3 DEF Tenants!BeginAudit
  <2> HIDE DEF new
  <2> QED BY <2>1, <2>2, <2>4, OneRequest
<1>9. ASSUME Tenants!EndAudit(t)
      PROVE  tenantTypes'
  <2> DEFINE new == [task[t] EXCEPT !.stage = "written", !.second = NoConn]
  <2>1. new \in Request
    BY <1>1 DEF Request, Tenants!Stages
  <2>2. task' = [task EXCEPT ![t] = new] /\ UNCHANGED <<role, token>>
    BY <1>1, <1>9 DEF Tenants!EndAudit
  <2>3. guc' \in Typed
    BY <1>4, <1>9 DEF Tenants!EndAudit, Tenants!Ended
  <2> HIDE DEF new
  <2> QED BY <2>1, <2>2, <2>3, OneRequest
<1>10. ASSUME Tenants!End(t)
       PROVE  tenantTypes'
  <2>1. /\ task' = [task EXCEPT ![t] = Tenants!Idle] /\ UNCHANGED <<role, token>>
        /\ guc' \in Typed
    BY <1>4, <1>10 DEF Tenants!End, Tenants!Ended
  <2> QED BY <1>2, <2>1, OneRequest
<1> QED BY <1>5, <1>6, <1>7, <1>8, <1>9, <1>10 DEF Tenants!Step

\* Every row, job, connection and request of the run keeps its type, in both scenes: the
\* queue and the loop (worker/notify.py, reminders.py) and the requests that hold
\* connections of the pool (core/db.py, core/audit.py).
THEOREM NoticesTypesHold == NoticesSpec => []TypesOK
<1> DEFINE Inv == tenantTypes /\ (scene = "notices" => IInv)
<1>1. NoticesInit => Inv
  <2> SUFFICES ASSUME NoticesInit PROVE Inv
    OBVIOUS
  <2>1. Tenants!Idle \in Request /\ Tenants!Clean \in Tenants!TransactionSettings
    BY DEF Tenants!Idle, Request, Tenants!Stages, Tenants!RequestKinds, Tenants!Clean,
       Tenants!TransactionSettings
  <2>2. tenantTypes
    BY <2>1 DEF NoticesInit, Tenants!Init, tenantTypes
  <2> QED BY <2>2, InitHolds DEF NoticesInit
<1>2. Inv /\ [NoticesNext]_<<scene, vars, tenantVars>> => Inv'
  <2> SUFFICES ASSUME Inv, [NoticesNext]_<<scene, vars, tenantVars>> PROVE Inv'
    OBVIOUS
  <2>1. tenantTypes'
    <3>1. CASE UNCHANGED tenantVars
      BY <3>1 DEF tenantVars, tenantTypes
    <3>2. ASSUME NEW p \in People, Tenants!IssueToken(p) PROVE tenantTypes'
      BY <3>2 DEF Tenants!IssueToken, tenantTypes
    <3>3. ASSUME NEW q \in Posts, NEW r \in Grades \union {"none"}, Tenants!ChangeRole(q, r)
          PROVE  tenantTypes'
      BY <3>3 DEF Tenants!ChangeRole, tenantTypes
    <3>4. UNCHANGED tenantVars \/ Tenants!Next
      BY DEF NoticesNext, tenantVars
    <3> QED BY <3>1, <3>2, <3>3, <3>4, Arrivals, Transactions DEF Tenants!Next
  <2>2. scene' = scene /\ (scene = "notices" => [Next]_vars)
    BY DEF NoticesNext, vars
  <2> QED BY <2>1, <2>2, StepHolds
<1>3. Inv => TypesOK
  <2> SUFFICES ASSUME Inv PROVE TypesOK
    OBVIOUS
  <2>1. IInv => TypeOK
    BY TypesSuffice
  <2>2. Tenants!TypeOK
    BY DEF tenantTypes, Request, Tenants!TypeOK
  <2> QED BY <2>1, <2>2 DEF TypesOK
<1> QED BY <1>1, <1>2, <1>3, PTL DEF NoticesSpec

=============================================================================
