------------------------------ MODULE Bookings ------------------------------
(***************************************************************************)
(* The booking rows of one club and the requests that change them.         *)
(*                                                                         *)
(* Every HTTP handler of modules/bookings/service.py runs in one           *)
(* PostgreSQL transaction at READ COMMITTED: it first SELECTs the row      *)
(* without a lock, checks the snapshot, and later UPDATEs the row by its   *)
(* id.  Other transactions may commit in between, so a handler is two      *)
(* actions here: ...Read takes the snapshot into req[r], ...Write applies  *)
(* the UPDATE to whatever the row is by then.  Writers of one row queue    *)
(* on its lock and their effect becomes visible at commit, so the UPDATE   *)
(* and the COMMIT are one step.  A guard that fails in a Read returns an   *)
(* error and changes nothing: it is a disabled action.                     *)
(*                                                                         *)
(* Time is a line of whole hours 0 .. Horizon; the length of a tstzrange   *)
(* is hi - lo.  Money is an amount per hour taken from the price list as   *)
(* it stands when the quote is made.                                       *)
(***************************************************************************)
EXTENDS Integers, FiniteSets

CONSTANTS
    Ids,          \* primary keys the sequence may hand out
    Stations,     \* stations of the club
    Requests,     \* transactions that may be open at the same time
    Horizon,      \* last hour of the line of time (bound of the model)
    OpenHours,    \* hours in which the club is open
    MinHours,     \* clubs.min_booking_hours
    MaxHours,     \* clubs.max_booking_hours
    MaxExtend,    \* clubs.extend_max_hours
    MaxTotal,     \* MAX_TOTAL_HOURS, also bookings_hours_range_ck
    Rates,        \* hourly prices the owner may set
    Unversioned,  \* may a client leave expected_version out?
    MaxVersion    \* bound of the model: side updates stop at this version

ASSUME ConstantsAssumption ==
    /\ Horizon \in Nat
    /\ OpenHours \subseteq 0 .. Horizon
    /\ MinHours \in Nat \ {0}
    /\ MaxHours \in Nat
    /\ MaxExtend \in Nat
    /\ MaxTotal \in Nat
    /\ MaxHours <= MaxTotal
    /\ Rates \subseteq Nat
    /\ Unversioned \in BOOLEAN
    /\ MaxVersion \in Nat

VARIABLES
    row,      \* row[b]: the committed row of bookings with id b
    rate,     \* rate[s]: hourly price quoted for station s now
    overdue,  \* PENDING bookings older than PAYMENT_WINDOW_MIN
    req,      \* req[r]: what the open transaction r holds in memory
    sold,     \* history: sum of the quotes that were committed for b
    given     \* history: hours that were committed for b

vars == <<row, rate, overdue, req, sold, given>>

Statuses == {"NONE", "PENDING", "CONFIRMED", "CANCELLED"}

\* expected_version is None
NoVersion == 0

Row == [status : Statuses, station : Stations, lo : Nat, hi : Nat,
        hours : Nat, play : Nat, closed : BOOLEAN, version : Nat]

Idle == [op |-> "idle"]

BookingRequest ==
    [op : {"customer", "staff"}, station : Stations, lo : Nat, hours : Nat, play : Nat]

StatusRequest ==
    [op : {"confirm", "reject", "cancel", "close"}, id : Ids]

ExtendRequest ==
    [op : {"extend"}, id : Ids, hours : Nat, play : Nat, extra : Nat,
     charge : Nat, expected : Nat]

-----------------------------------------------------------------------------
\* The table: bookings_no_overlap, bookings_bump_version and the two
\* statements every handler ends with.

Active(st) == st \in {"PENDING", "CONFIRMED"}

Exists(b) == row[b].status # "NONE"

\* Two rows the EXCLUDE constraint does not let coexist.
Clash(x, y) ==
    /\ Active(x.status)
    /\ Active(y.status)
    /\ x.station = y.station
    /\ x.lo < y.hi
    /\ y.lo < x.hi

\* Mutant: the constraint compares the first hours only.
SlotTaken_SameStart(b, new) ==
    \E c \in Ids \ {b} : Clash(new, row[c]) /\ new.lo = row[c].lo

\* Mutant: the constraint compares closed bounds from the wrong side.
SlotTaken_LastHourFree(b, new) ==
    \E c \in Ids \ {b} : Clash(new, row[c]) /\ new.lo < row[c].hi - 1

\* 23P01: the new version of row b clashes with another row.
SlotTaken(b, new) == \E c \in Ids \ {b} : Clash(new, row[c])

\* Every UPDATE runs the BEFORE UPDATE trigger.
Bumped(b, new) == [new EXCEPT !.version = row[b].version + 1]

\* UPDATE bookings ... WHERE id = b, then COMMIT; a clash rolls back.
Update(b, new) ==
    row' = IF SlotTaken(b, new) THEN row ELSE [row EXCEPT ![b] = Bumped(b, new)]

Finish(r) == req' = [req EXCEPT ![r] = Idle]

Free(r) == req[r] = Idle

-----------------------------------------------------------------------------
\* Creating a booking: quote first, INSERT later.

\* _validate_window: the hours a club accepts
WindowOK(lo, hours) ==
    /\ MinHours <= hours
    /\ hours <= MaxHours
    /\ lo + hours <= Horizon

\* fits_opening_hours: the whole window lies in the opening hours
FitsOpeningHours(lo, hours) == lo .. (lo + hours - 1) \subseteq OpenHours

Quote(s, hours) == rate[s] * hours

CreateCustomerRead(r, s, lo, hours) ==
    /\ Free(r)
    /\ WindowOK(lo, hours)
    /\ FitsOpeningHours(lo, hours)
    /\ req' = [req EXCEPT ![r] = [op |-> "customer", station |-> s, lo |-> lo,
                                  hours |-> hours, play |-> Quote(s, hours)]]
    /\ UNCHANGED <<row, rate, overdue, sold, given>>

\* Staff may book outside the opening hours.
CreateStaffRead(r, s, lo, hours) ==
    /\ Free(r)
    /\ WindowOK(lo, hours)
    /\ req' = [req EXCEPT ![r] = [op |-> "staff", station |-> s, lo |-> lo,
                                  hours |-> hours, play |-> Quote(s, hours)]]
    /\ UNCHANGED <<row, rate, overdue, sold, given>>

NewRow(q) ==
    [status  |-> IF q.op = "customer" THEN "PENDING" ELSE "CONFIRMED",
     station |-> q.station, lo |-> q.lo, hi |-> q.lo + q.hours,
     hours   |-> q.hours, play |-> q.play, closed |-> FALSE, version |-> 1]

\* INSERT INTO bookings; 23P01 ends the request with 409 SLOT_TAKEN.
CreateInsert(r, b) ==
    /\ req[r].op \in {"customer", "staff"}
    /\ ~Exists(b)
    /\ IF SlotTaken(b, NewRow(req[r]))
       THEN UNCHANGED <<row, sold, given>>
       ELSE /\ row' = [row EXCEPT ![b] = NewRow(req[r])]
            /\ sold' = [sold EXCEPT ![b] = req[r].play]
            /\ given' = [given EXCEPT ![b] = req[r].hours]
    /\ Finish(r)
    /\ UNCHANGED <<rate, overdue>>

-----------------------------------------------------------------------------
\* The PENDING queue: confirm_booking and reject_booking.

StatusRead(r, b, op) ==
    /\ Free(r)
    /\ req' = [req EXCEPT ![r] = [op |-> op, id |-> b]]
    /\ UNCHANGED <<row, rate, overdue, sold, given>>

\* BOOKING_NOT_PENDING otherwise
Undecided(b) == row[b].status = "PENDING"

ConfirmRead(r, b) == Undecided(b) /\ StatusRead(r, b, "confirm")

RejectRead(r, b) == Undecided(b) /\ StatusRead(r, b, "reject")

ConfirmWrite(r) ==
    /\ req[r].op = "confirm"
    /\ Update(req[r].id, [row[req[r].id] EXCEPT !.status = "CONFIRMED"])
    /\ Finish(r)
    /\ UNCHANGED <<rate, overdue, sold, given>>

RejectWrite(r) ==
    /\ req[r].op = "reject"
    /\ Update(req[r].id, [row[req[r].id] EXCEPT !.status = "CANCELLED"])
    /\ Finish(r)
    /\ UNCHANGED <<rate, overdue, sold, given>>

-----------------------------------------------------------------------------
\* The live board: cancel_confirmed_booking and extend_booking.

\* What both of them, and close_bill, demand of the snapshot.
OpenSession(b) == row[b].status = "CONFIRMED" /\ ~row[b].closed

CancelRead(r, b) == OpenSession(b) /\ StatusRead(r, b, "cancel")

CancelWrite(r) ==
    /\ req[r].op = "cancel"
    /\ Update(req[r].id, [row[req[r].id] EXCEPT !.status = "CANCELLED"])
    /\ Finish(r)
    /\ UNCHANGED <<rate, overdue, sold, given>>

\* A client can only have seen versions that were committed before it asked.
VersionsSeen(b) ==
    1 .. row[b].version \union IF Unversioned THEN {NoVersion} ELSE {}

\* Mutant: the hours to be added are left out of the comparison.
WithinTotal_OldHours(b, extra) == row[b].hours <= MaxTotal

\* TOTAL_HOURS_EXCEEDED otherwise
WithinTotal(b, extra) == row[b].hours + extra <= MaxTotal

ExtendRead(r, b, extra, expected) ==
    /\ Free(r)
    /\ extra \in 1 .. MaxExtend
    /\ OpenSession(b)
    /\ WithinTotal(b, extra)
    /\ expected \in VersionsSeen(b)
    /\ req' = [req EXCEPT ![r] =
                 [op |-> "extend", id |-> b, hours |-> row[b].hours,
                  play |-> row[b].play, extra |-> extra,
                  charge |-> Quote(row[b].station, extra), expected |-> expected]]
    /\ UNCHANGED <<row, rate, overdue, sold, given>>

\* Mutant: the new end is computed from the snapshot as well.
Extended_AbsoluteEnd(b, q) ==
    [row[b] EXCEPT !.hours = q.hours + q.extra,
                   !.play  = q.play + q.charge,
                   !.hi    = row[b].lo + q.hours + q.extra]

\* Mutant: the whole window is priced again by today's price list.
Extended_Repriced(b, q) ==
    [row[b] EXCEPT !.hours = q.hours + q.extra,
                   !.play  = Quote(row[b].station, q.hours + q.extra),
                   !.hi    = @ + q.extra]

\* hours and play_amount come from the snapshot, the period from the row.
Extended(b, q) ==
    [row[b] EXCEPT !.hours = q.hours + q.extra,
                   !.play  = q.play + q.charge,
                   !.hi    = @ + q.extra]

\* Mutant: the version is not part of the WHERE clause.
VersionMatches_Unchecked(q) == TRUE

\* WHERE id = :id [AND version = :expected_version]
VersionMatches(q) == q.expected \in {NoVersion, row[q.id].version}

ExtendWrite(r) ==
    LET q == req[r]
        b == q.id
    IN  /\ q.op = "extend"
        /\ row[b].hi + q.extra <= Horizon
        /\ IF VersionMatches(q) /\ ~SlotTaken(b, Extended(b, q))
           THEN /\ row' = [row EXCEPT ![b] = Bumped(b, Extended(b, q))]
                /\ sold' = [sold EXCEPT ![b] = @ + q.charge]
                /\ given' = [given EXCEPT ![b] = @ + q.extra]
           ELSE UNCHANGED <<row, sold, given>>
        /\ Finish(r)
        /\ UNCHANGED <<rate, overdue>>

-----------------------------------------------------------------------------
\* Other writers of the table.

\* close_bill, seen from the booking row: the money is in module Till.
CloseRead(r, b) == OpenSession(b) /\ StatusRead(r, b, "close")

CloseWrite(r) ==
    /\ req[r].op = "close"
    /\ Update(req[r].id, [row[req[r].id] EXCEPT !.closed = TRUE])
    /\ Finish(r)
    /\ UNCHANGED <<rate, overdue, sold, given>>

\* A reminder claim, a payment-proof request or its answer: it writes no column
\* of the model, but the trigger counts it as a change.
SideUpdate(b) ==
    /\ Exists(b)
    /\ row[b].version < MaxVersion
    /\ Update(b, row[b])
    /\ UNCHANGED <<rate, overdue, req, sold, given>>

\* created_at falls behind now() - PAYMENT_WINDOW_MIN.
WindowElapses(b) ==
    /\ row[b].status = "PENDING"
    /\ b \notin overdue
    /\ overdue' = overdue \union {b}
    /\ UNCHANGED <<row, rate, req, sold, given>>

\* Mutant: the sweep looks for the wrong status.
Unpaid_Confirmed == {b \in overdue : row[b].status = "CONFIRMED"}

Unpaid == {b \in overdue : row[b].status = "PENDING"}

\* expire_unpaid_bookings: one UPDATE, its WHERE is evaluated under the lock.
ExpireUnpaid ==
    /\ Unpaid # {}
    /\ row' = [b \in Ids |->
                 IF b \in Unpaid
                 THEN Bumped(b, [row[b] EXCEPT !.status = "CANCELLED"])
                 ELSE row[b]]
    /\ UNCHANGED <<rate, overdue, req, sold, given>>

\* The owner edits the price list (update_station, update_tariff).
SetRate(s, p) ==
    /\ rate[s] # p
    /\ rate' = [rate EXCEPT ![s] = p]
    /\ UNCHANGED <<row, overdue, req, sold, given>>

\* A dropped connection or a crash rolls the transaction back.
Abort(r) ==
    /\ ~Free(r)
    /\ Finish(r)
    /\ UNCHANGED <<row, rate, overdue, sold, given>>

-----------------------------------------------------------------------------
Init ==
    /\ \E s \in Stations :
         row = [b \in Ids |-> [status |-> "NONE", station |-> s, lo |-> 0, hi |-> 0,
                               hours |-> 0, play |-> 0, closed |-> FALSE, version |-> 0]]
    /\ rate \in [Stations -> Rates]
    /\ overdue = {}
    /\ req = [r \in Requests |-> Idle]
    /\ sold = [b \in Ids |-> 0]
    /\ given = [b \in Ids |-> 0]

RequestStep(r) ==
    \/ \E s \in Stations, lo \in 0 .. Horizon, h \in MinHours .. MaxHours :
         CreateCustomerRead(r, s, lo, h) \/ CreateStaffRead(r, s, lo, h)
    \/ \E b \in Ids :
         \/ CreateInsert(r, b)
         \/ ConfirmRead(r, b)
         \/ RejectRead(r, b)
         \/ CancelRead(r, b)
         \/ CloseRead(r, b)
         \/ \E extra \in 1 .. MaxExtend, v \in VersionsSeen(b) : ExtendRead(r, b, extra, v)
    \/ ConfirmWrite(r)
    \/ RejectWrite(r)
    \/ CancelWrite(r)
    \/ CloseWrite(r)
    \/ ExtendWrite(r)
    \/ Abort(r)

Next ==
    \/ \E r \in Requests : RequestStep(r)
    \/ \E b \in Ids : SideUpdate(b) \/ WindowElapses(b)
    \/ ExpireUnpaid
    \/ \E s \in Stations, p \in Rates : SetRate(s, p)

Spec == Init /\ [][Next]_vars

\* The worker's cron fires every minute and ten minutes do pass; nothing is
\* assumed of the people who send requests.
Fairness == WF_vars(ExpireUnpaid) /\ \A b \in Ids : WF_vars(WindowElapses(b))

FairSpec == Spec /\ Fairness

-----------------------------------------------------------------------------
\* Properties

\* Every row, every transaction in flight and both histories keep their type.
TypeOK ==
    /\ row \in [Ids -> Row]
    /\ rate \in [Stations -> Rates]
    /\ overdue \subseteq Ids
    /\ req \in [Requests -> {Idle} \union BookingRequest
                              \union StatusRequest \union ExtendRequest]
    /\ sold \in [Ids -> Nat]
    /\ given \in [Ids -> Nat]

\* No station is promised twice for the same hour: not by two inserts that
\* race, not by an extension that grows into the next booking, not by a late
\* confirm that brings a cancelled booking back (bookings_no_overlap).
NoOverlap == \A b, c \in Ids : b # c => ~Clash(row[b], row[c])

\* The row adds up to everything that was granted: the period, the billed
\* hours and play_amount all equal the sum over the booking and its
\* extensions, whatever other staff did in between (extend_booking).
NothingLost ==
    \A b \in Ids :
        /\ row[b].hi - row[b].lo = given[b]
        /\ row[b].hours = given[b]
        /\ row[b].play = sold[b]

\* What a transaction that is about to extend may rely on: its snapshot never
\* shows more than was granted, and if the version its client named is still
\* the row's version, then the snapshot is the row and the session is open.
SnapshotsCurrent ==
    \A r \in Requests : req[r].op = "extend" =>
        LET q == req[r]
            b == q.id
        IN  /\ Exists(b)
            /\ q.hours <= given[b]
            /\ q.play <= sold[b]
            /\ q.expected <= row[b].version
            /\ q.expected = row[b].version =>
                 OpenSession(b) /\ q.hours = row[b].hours /\ q.play = row[b].play

\* Two extensions never add up to a session longer than MAX_TOTAL_HOURS.
SessionWithinLimit == \A b \in Ids : row[b].hi - row[b].lo <= MaxTotal

\* Even without expected_version a guest is never billed for an hour, or an
\* amount, that was not granted: what a lost update loses is the club's.
NeverOverbilled ==
    \A b \in Ids :
        /\ row[b].hi - row[b].lo = given[b]
        /\ row[b].hours <= given[b]
        /\ row[b].play <= sold[b]

\* The period of an existing booking only grows while the session is
\* confirmed and its bill is open, at the moment the UPDATE is applied.
ExtendOnlyOpen ==
    [][\A b \in Ids : Exists(b) /\ row'[b].hi # row[b].hi => OpenSession(b)]_vars

\* Migration 0041:8-12 and service.py:1525-1530: what reads a status is protected by the
\* status itself, of a cancellation and an extension in parallel the second gets 409.  So a
\* cancelled booking is neither brought back nor extended.
CancelledIsFinal ==
    [][\A b \in Ids : row[b].status = "CANCELLED" =>
         row'[b].status = "CANCELLED" /\ row'[b].hi = row[b].hi]_vars

\* Nobody blocks a slot for ever with an unpaid request: every PENDING
\* booking is confirmed, rejected or expired (expire_unpaid_bookings).
PendingResolved ==
    \A b \in Ids : row[b].status = "PENDING" ~> row[b].status # "PENDING"

\* The active rows, read as a calendar, behave as one (module Calendar).
HolderOf(s, t) ==
    {b \in Ids : /\ Active(row[b].status)
                 /\ row[b].station = s
                 /\ t \in row[b].lo .. (row[b].hi - 1)}

Nobody == "nobody"

Cal == INSTANCE Calendar WITH
         Hours  <- 0 .. Horizon,
         holder <- [s \in Stations |-> [t \in 0 .. Horizon |->
                      IF HolderOf(s, t) = {} THEN Nobody
                      ELSE CHOOSE b \in HolderOf(s, t) : TRUE]]

ImplementsCalendar == Cal!Spec

=============================================================================
