--------------------------- MODULE Notifications ---------------------------
(***************************************************************************)
(* Messages the club sends by itself: the queue of the worker              *)
(* (worker/tasks.py, worker/notify.py, table notifications) and the        *)
(* reminder loop inside the API (modules/bookings/reminders.py, migration  *)
(* 0038), both at work on the same bookings.                               *)
(*                                                                         *)
(* The queue may deliver twice and never loses; the loop claims first and  *)
(* may lose but never repeats.  A process runs one job at a time; cron     *)
(* starts a job every minute whether or not the last one has ended.        *)
(***************************************************************************)
EXTENDS Integers, SequencesExt

CONSTANTS
    Bookings,           \* confirmed bookings of guests with a Telegram chat
    Workers,            \* runs of worker jobs that may overlap
    Loops,              \* instances of the API
    MAX_SEND_ATTEMPTS,  \* as in worker/notify.py
    SEND_BATCH          \* as in worker/notify.py

ASSUME NotificationsAssumption ==
    /\ IsFiniteSet(Bookings)
    /\ MAX_SEND_ATTEMPTS \in Nat \ {0}
    /\ SEND_BATCH \in Nat \ {0}

\* The unique key of notifications: entity and template.  The daily summary
\* and the shift variance go the same way with a key of their own.
Notes == Bookings \X {"2h", "20m"}

VARIABLES
    booking,    \* booking[b]: status, how far away its start is, reminder_sent_at
    note,       \* note[n]: the committed row of notifications
    created,    \* rows in the order of created_at
    worker,     \* worker[w]: the job a worker runs
    loop,       \* loop[l]: claimed reminders an API instance has yet to send
    delivered,  \* messages of notifications that reached their chat
    reminded    \* reminded[b]: reminders of the loop received, 2 stands for more

vars == <<booking, note, created, worker, loop, delivered, reminded>>

\* Distance of the start: beyond two hours, within two hours, within twenty
\* minutes, past
Distances == <<"far", "early", "soon", "started">>

Booking ==
    [status : {"CONFIRMED", "CANCELLED"}, left : Range(Distances), claimed : BOOLEAN]

NoNote == [status |-> "NONE", attempts |-> 0]

Idle == [at |-> "idle"]

\* One more, up to what the histories tell apart
More(n) == IF n < 2 THEN n + 1 ELSE n

-----------------------------------------------------------------------------
\* Bookings and time

Cancel(b) ==
    /\ booking[b].status = "CONFIRMED"
    /\ booking' = [booking EXCEPT ![b].status = "CANCELLED"]
    /\ UNCHANGED <<note, created, worker, loop, delivered, reminded>>

Approach(b) ==
    \E i \in 1..3 :
        /\ booking[b].left = Distances[i]
        /\ booking' = [booking EXCEPT ![b].left = Distances[i + 1]]
        /\ UNCHANGED <<note, created, worker, loop, delivered, reminded>>

-----------------------------------------------------------------------------
\* Queueing

\* Mutant: the early reminder has a template nobody renders.
Template_Unknown(left) == IF left = "soon" THEN "20m" ELSE "120m"

\* reminder_template
Template(left) == IF left = "soon" THEN "20m" ELSE "2h"

\* The SELECT of booking_reminders
ReminderRead(w) ==
    /\ worker[w] = Idle
    /\ LET due == {b \in Bookings : /\ booking[b].status = "CONFIRMED"
                                    /\ booking[b].left \in {"early", "soon"}}
       IN  worker' = [worker EXCEPT ![w] =
             [at |-> "queue", batch |-> {<<b, Template(booking[b].left)>> : b \in due}]]
    /\ UNCHANGED <<booking, note, created, loop, delivered, reminded>>

\* Mutant: there is no notifications_dedup_uk, a row is written again.
Fresh_Always(batch) == batch

\* INSERT ... ON CONFLICT DO NOTHING
Fresh(batch) == {n \in batch : note[n].status = "NONE"}

\* The INSERTs and the COMMIT of the club's transaction
QueueCommit(w) ==
    LET new == Fresh(worker[w].batch)
    IN  /\ worker[w].at = "queue"
        /\ note' = [n \in Notes |->
                      IF n \in new THEN [status |-> "PENDING", attempts |-> 0] ELSE note[n]]
        /\ \E s \in SetToSeqs(new) : created' = created \o s
        /\ worker' = [worker EXCEPT ![w] = Idle]
        /\ UNCHANGED <<booking, loop, delivered, reminded>>

-----------------------------------------------------------------------------
\* send_pending

PendingNotes == {n \in Notes : note[n].status = "PENDING"}

\* ORDER BY created_at
Earlier(m, n) == \E i, j \in DOMAIN created : i < j /\ created[i] = m /\ created[j] = n

\* The first of a batch that is still to be sent
FirstOf(n, batch) == n \in batch /\ \A m \in batch : ~Earlier(m, n)

\* LIMIT SEND_BATCH
SendRead(w) ==
    /\ worker[w] = Idle
    /\ worker' = [worker EXCEPT ![w] =
         [at |-> "call", todo |->
            {n \in PendingNotes : Cardinality({m \in PendingNotes : Earlier(m, n)}) < SEND_BATCH}]]
    /\ UNCHANGED <<booking, note, created, loop, delivered, reminded>>

\* Mutant: any answer of telegram_api.call counts.
Confirmed_Any(reached, answered) == TRUE

\* result is not None: Telegram answered ok in time
Confirmed(reached, answered) == reached /\ answered

\* telegram_api.call and its 10 s timeout: the message may arrive without an
\* answer, and no answer comes without the message.
SendCall(w, n, reached, answered) ==
    /\ worker[w].at = "call"
    /\ FirstOf(n, worker[w].todo)
    /\ delivered' = IF reached THEN delivered \union {n} ELSE delivered
    /\ worker' = [worker EXCEPT ![w] =
         [at |-> "write", todo |-> @.todo, now |-> n, ok |-> Confirmed(reached, answered)]]
    /\ UNCHANGED <<booking, note, created, loop, reminded>>

\* Mutant: the attempt is not counted.
Failed_Uncounted(row) == row

\* Mutant: the limit is compared with the attempts before this one.
Failed_Late(row) ==
    [status |-> IF row.attempts >= MAX_SEND_ATTEMPTS THEN "ERROR" ELSE "PENDING",
     attempts |-> row.attempts + 1]

Failed(row) ==
    [status |-> IF row.attempts + 1 >= MAX_SEND_ATTEMPTS THEN "ERROR" ELSE "PENDING",
     attempts |-> row.attempts + 1]

\* UPDATE notifications ... WHERE id = :id, whatever its status is by now
SendWrite(w) ==
    LET n == worker[w].now
    IN  /\ worker[w].at = "write"
        /\ note' = [note EXCEPT ![n] = IF worker[w].ok THEN [@ EXCEPT !.status = "SENT"]
                                                       ELSE Failed(@)]
        /\ worker' = [worker EXCEPT ![w] = [at |-> "call", todo |-> @.todo \ {n}]]
        /\ UNCHANGED <<booking, created, loop, delivered, reminded>>

SendEnd(w) ==
    /\ worker[w].at = "call"
    /\ worker[w].todo = {}
    /\ worker' = [worker EXCEPT ![w] = Idle]
    /\ UNCHANGED <<booking, note, created, loop, delivered, reminded>>

\* The worker dies; its transaction rolls back.
WorkerCrash(w) ==
    /\ worker[w] # Idle
    /\ worker' = [worker EXCEPT ![w] = Idle]
    /\ UNCHANGED <<booking, note, created, loop, delivered, reminded>>

-----------------------------------------------------------------------------
\* The loop of the API

\* Mutant: reminder_sent_at is not looked at.
Due_Again(b) == booking[b].status = "CONFIRMED" /\ booking[b].left = "soon"

\* claim_due_booking_reminders
Due(b) == booking[b].status = "CONFIRMED" /\ booking[b].left = "soon" /\ ~booking[b].claimed

Claim(l) ==
    LET due == {b \in Bookings : Due(b)}
    IN  /\ loop[l] = {}
        /\ due # {}
        /\ booking' = [b \in Bookings |->
                         IF b \in due THEN [booking[b] EXCEPT !.claimed = TRUE] ELSE booking[b]]
        /\ loop' = [loop EXCEPT ![l] = due]
        /\ UNCHANGED <<note, created, worker, delivered, reminded>>

\* send_message; a failure is logged and the reminder is lost.
Remind(l, b, reached) ==
    /\ b \in loop[l]
    /\ reminded' = IF reached THEN [reminded EXCEPT ![b] = More(@)] ELSE reminded
    /\ loop' = [loop EXCEPT ![l] = @ \ {b}]
    /\ UNCHANGED <<booking, note, created, worker, delivered>>

LoopCrash(l) ==
    /\ loop[l] # {}
    /\ loop' = [loop EXCEPT ![l] = {}]
    /\ UNCHANGED <<booking, note, created, worker, delivered, reminded>>

-----------------------------------------------------------------------------
Init ==
    /\ booking = [b \in Bookings |-> [status |-> "CONFIRMED", left |-> "far", claimed |-> FALSE]]
    /\ note = [n \in Notes |-> NoNote]
    /\ created = <<>>
    /\ worker = [w \in Workers |-> Idle]
    /\ loop = [l \in Loops |-> {}]
    /\ delivered = {}
    /\ reminded = [b \in Bookings |-> 0]

\* What a running job does next
Work(w) ==
    \/ QueueCommit(w)
    \/ \E n \in Notes, reached, answered \in BOOLEAN :
         (answered => reached) /\ SendCall(w, n, reached, answered)
    \/ SendWrite(w)
    \/ SendEnd(w)

Next ==
    \/ \E b \in Bookings : Cancel(b) \/ Approach(b)
    \/ \E w \in Workers :
         \/ ReminderRead(w)
         \/ SendRead(w)
         \/ Work(w)
         \/ WorkerCrash(w)
    \/ \E l \in Loops :
         \/ Claim(l)
         \/ \E b \in Bookings, reached \in BOOLEAN : Remind(l, b, reached)
         \/ LoopCrash(l)

Spec == Init /\ [][Next]_vars

\* A job that ends by itself may look like a crash.
Fault == \E w \in Workers : WorkerCrash(w) /\ ~Work(w)

\* Jobs go on, cron starts send_pending every minute next to the other jobs,
\* and the worker does not crash for ever.
Fairness ==
    /\ \A w \in Workers : WF_vars(Work(w)) /\ SF_vars(SendRead(w))
    /\ <>[][~Fault]_vars

FairSpec == Spec /\ Fairness

-----------------------------------------------------------------------------
\* Properties

\* Bookings, rows, jobs and histories keep their types.
TypeOK ==
    /\ booking \in [Bookings -> Booking]
    /\ note \in [Notes -> [status : {"NONE", "PENDING", "SENT", "ERROR"}, attempts : Nat]]
    /\ Range(created) \subseteq Notes
    /\ \A w \in Workers :
         \/ worker[w] = Idle
         \/ worker[w].at = "queue" /\ worker[w].batch \subseteq Notes
         \/ worker[w].at = "call" /\ worker[w].todo \subseteq Notes
         \/ /\ worker[w].at = "write" /\ worker[w].ok \in BOOLEAN
            /\ worker[w].todo \subseteq Notes /\ worker[w].now \in worker[w].todo
    /\ loop \in [Loops -> SUBSET Bookings]
    /\ delivered \subseteq Notes
    /\ reminded \in [Bookings -> 0..2]

\* "Success is written only when Telegram answered": no run that overlaps or
\* dies leaves SENT on a message nobody received.
SentWasDelivered == \A n \in Notes : note[n].status = "SENT" => n \in delivered

\* A message is given up only after MAX_SEND_ATTEMPTS failures, and never
\* tried after them, also when overlapping runs count failures of one row.
GivenUpInTime ==
    \A n \in Notes :
        /\ note[n].status = "ERROR" => note[n].attempts >= MAX_SEND_ATTEMPTS
        /\ note[n].status = "PENDING" => note[n].attempts < MAX_SEND_ATTEMPTS

\* "Two instances do not do one job twice": the loop reminds a guest at most
\* once of a booking, whatever crashes and however many instances run.
RemindedOnce == \A b \in Bookings : reminded[b] <= 1

\* SENT is written of messages that arrived and ERROR after the last attempt
\* (send_pending), and the loop reminds once (claim_due_booking_reminders).
NotesSound == SentWasDelivered /\ GivenUpInTime /\ RemindedOnce

\* n was sent and no run of send_pending has it in hand.
Done(n) ==
    /\ note[n].status = "SENT"
    /\ \A w \in Workers : worker[w].at \in {"call", "write"} => n \notin worker[w].todo

\* A message that was sent is never queued or sent again by a later run: a
\* second copy can only come from a run that overlapped the first.
SentForEver ==
    [][\A n \in Notes : Done(n) => Done(n)']_vars

\* Every queued message is sent or given up, whatever Telegram does and
\* whatever stands before it in the queue.
PendingResolved ==
    \A n \in Notes : note[n].status = "PENDING" ~> note[n].status \in {"SENT", "ERROR"}

=============================================================================
