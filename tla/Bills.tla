------------------------------- MODULE Bills -------------------------------
(***************************************************************************)
(* The till of one club: orders of the bar, the stock they take, the bill  *)
(* of a session and the payments that settle it (modules/pos/service.py).  *)
(*                                                                         *)
(* As in module Bookings a handler is one transaction at READ COMMITTED:   *)
(* ...Read takes a snapshot, ...Write applies the statements and commits.  *)
(* Statements that compute from the row itself (stock_qty = stock_qty - n) *)
(* and statements that follow a row lock (the refund query of              *)
(* cancel_order runs after the UPDATE of the order) see the latest commit, *)
(* so they belong to the Write.  An error rolls back and is a disabled     *)
(* action; SHIFT_REQUIRED, which depends on module Shifts, is an Abort.    *)
(*                                                                         *)
(* The body of a request is chosen in the step that first uses it.  One    *)
(* product with one price stands for the menu.                             *)
(***************************************************************************)
EXTENDS Integers, FiniteSets, FiniteSetsExt

CONSTANTS
    Bookings,      \* confirmed sessions
    Members,       \* the sessions booked by a customer of the bot
    Orders,        \* primary keys of orders
    NoBooking,     \* booking_id of a sale to a passer-by
    Requests,      \* transactions that may be open at the same time
    Qtys,          \* quantities one may order
    Price,         \* price of the product
    InitialStock,
    FirstPlay,     \* play_amount of a session that was never extended
    MaxPlay,       \* bound of the model: extensions stop at this amount
    MaxPaid,       \* bound of the model: largest sum handed over
    LimitPercent   \* clubs.staff_max_discount_percent

BillsAssumption ==
    /\ Members \subseteq Bookings
    /\ NoBooking \notin Bookings
    /\ Bookings \intersect Orders = {}
    /\ IsFiniteSet(Orders)
    /\ Qtys \subseteq Nat \ {0}
    /\ Price \in Nat
    /\ InitialStock \in Int
    /\ FirstPlay \in Nat
    /\ MaxPlay \in Nat
    /\ MaxPaid \in Nat
    /\ LimitPercent \in 0 .. 100

VARIABLES
    bill,    \* bill[b]: the billing columns of booking b
    order,   \* order[o]: the row of orders with id o
    stock,   \* products.stock_qty
    taken,   \* taken[x][m]: sum of the FINAL payments for x by method m
    back,    \* back[o][m]: sum of the REFUND payments for order o by method m
    photos,  \* history: bookings whose guest sent a receipt
    req      \* req[r]: what the open transaction r holds in memory

vars == <<bill, order, stock, taken, back, photos, req>>

Methods == {"CASH", "TRANSFER"}
ProofStatuses == {"NULL", "PENDING", "SUBMITTED", "CONFIRMED"}
OrderStatuses == {"NONE", "NEW", "ACCEPTED", "PREPARING", "DELIVERED", "CANCELLED"}

Idle == [op |-> "idle"]

Bill == [status : {"CONFIRMED", "CANCELLED"}, play : Nat, closed : BOOLEAN,
         method : Methods \union {"NULL"}, paid : Nat, discount : Nat, debt : Nat,
         tip : Nat, proof : ProofStatuses]

Order == [status : OrderStatuses, booking : Bookings \union {NoBooking}, qty : Nat]

Request ==
    [op : {"advance"}, id : Orders, next : OrderStatuses]
      \union [op : {"cancel"}, id : Orders]
      \union [op : {"bill"}, id : Bookings, play : Nat, proof : ProofStatuses]
      \union [op : {"close"}, id : Bookings, total : Nat, proof : ProofStatuses]

Free(r) == req[r] = Idle

Finish(r) == req' = [req EXCEPT ![r] = Idle]

-----------------------------------------------------------------------------
\* Orders

\* Mutant: cancelled orders stay on the bill.
OrdersTotal_Cancelled(b) ==
    MapThenSumSet(LAMBDA o : Price * order[o].qty,
                  {o \in Orders : order[o].status # "NONE" /\ order[o].booking = b})

\* _orders_total: what the bar adds to the bill of b
OrdersTotal(b) ==
    MapThenSumSet(LAMBDA o : Price * order[o].qty,
                  {o \in Orders : /\ order[o].status \notin {"NONE", "CANCELLED"}
                                  /\ order[o].booking = b})

\* A sale to a passer-by is paid at once; an order of a session goes on its
\* bill.  Of the booking only its existence is checked.  Nothing read before is
\* used in the writes, so the transaction is one step.
CreateOrder(r, o, b, qty, m) ==
    /\ Free(r)
    /\ order[o].status = "NONE"
    /\ b = NoBooking <=> m # "NULL"
    /\ order' = [order EXCEPT ![o] = [status |-> "NEW", booking |-> b, qty |-> qty]]
    /\ stock' = stock - qty
    /\ taken' = IF b = NoBooking
                THEN [taken EXCEPT ![o][m] = @ + Price * qty]
                ELSE taken
    /\ UNCHANGED <<bill, back, photos, req>>

\* Mutant: the kitchen has a step the table does not know.
NextStatus_Ready(st) ==
    CASE st = "NEW" -> "ACCEPTED"
      [] st = "ACCEPTED" -> "PREPARING"
      [] st = "PREPARING" -> "READY"

NextStatus(st) ==
    CASE st = "NEW" -> "ACCEPTED"
      [] st = "ACCEPTED" -> "PREPARING"
      [] st = "PREPARING" -> "DELIVERED"

AdvanceRead(r, o) ==
    /\ Free(r)
    /\ order[o].status \in {"NEW", "ACCEPTED", "PREPARING"}
    /\ req' = [req EXCEPT ![r] =
                 [op |-> "advance", id |-> o, next |-> NextStatus(order[o].status)]]
    /\ UNCHANGED <<bill, order, stock, taken, back, photos>>

\* UPDATE orders SET status = :status WHERE id = :id
AdvanceWrite(r) ==
    /\ req[r].op = "advance"
    /\ order' = [order EXCEPT ![req[r].id].status = req[r].next]
    /\ Finish(r)
    /\ UNCHANGED <<bill, stock, taken, back, photos>>

Cancellable(o) == order[o].status = "NEW"

CancelRead(r, o) ==
    /\ Free(r)
    /\ Cancellable(o)
    /\ req' = [req EXCEPT ![r] = [op |-> "cancel", id |-> o]]
    /\ UNCHANGED <<bill, order, stock, taken, back, photos>>

\* Mutant: what was paid is refunded, not what is left of it.
Refunded_Gross(o) == [m \in Methods |-> back[o][m] + taken[o][m]]

\* _order_payments: FINAL minus REFUND by method, only where it is positive
Refunded(o) ==
    [m \in Methods |-> back[o][m] + IF taken[o][m] - back[o][m] > 0
                                    THEN taken[o][m] - back[o][m] ELSE 0]

\* Mutant: the product does not go back to the shelf.
Restocked_Never(o) == stock

\* UPDATE products ... FROM order_items: relative, whatever the order is now
Restocked(o) == stock + order[o].qty

CancelWrite(r) ==
    LET o == req[r].id
    IN  /\ req[r].op = "cancel"
        /\ stock' = Restocked(o)
        /\ order' = [order EXCEPT ![o].status = "CANCELLED"]
        /\ back' = [back EXCEPT ![o] = Refunded(o)]
        /\ Finish(r)
        /\ UNCHANGED <<bill, taken, photos>>

-----------------------------------------------------------------------------
\* Bills

\* Mutant: closed_at is not looked at.
OpenBill_StatusOnly(b) == bill[b].status = "CONFIRMED"

\* _load_open_booking
OpenBill(b) == bill[b].status = "CONFIRMED" /\ ~bill[b].closed

\* The first SELECT of close_bill: the booking.
CloseRead(r, b) ==
    /\ Free(r)
    /\ OpenBill(b)
    /\ req' = [req EXCEPT ![r] = [op |-> "bill", id |-> b, play |-> bill[b].play,
                                  proof |-> bill[b].proof]]
    /\ UNCHANGED <<bill, order, stock, taken, back, photos>>

\* The second one: the orders.
CloseSum(r) ==
    /\ req[r].op = "bill"
    /\ req' = [req EXCEPT ![r] =
                 [op |-> "close", id |-> req[r].id, proof |-> req[r].proof,
                  total |-> req[r].play + OrdersTotal(req[r].id)]]
    /\ UNCHANGED <<bill, order, stock, taken, back, photos>>

\* Mutant: a receipt that was asked for counts as one that came.
NeedsProof_Asked(q, m) == m = "TRANSFER" /\ q.id \in Members /\ q.proof = "NULL"

\* A transfer by a customer of the bot waits for the receipt.
NeedsProof(q, m) == m = "TRANSFER" /\ q.id \in Members /\ q.proof # "SUBMITTED"

\* The bill stays open; the guest is asked once.
AskForProof(r, m) ==
    LET q == req[r]
    IN  /\ q.op = "close"
        /\ NeedsProof(q, m)
        /\ bill' = IF q.proof = "NULL"
                   THEN [bill EXCEPT ![q.id].proof = "PENDING"]
                   ELSE bill
        /\ Finish(r)
        /\ UNCHANGED <<order, stock, taken, back, photos>>

\* settle_bill: a difference is accepted only with its reason ...
ReasonGiven(total, paid, why) ==
    /\ paid < total => why \in {"DISCOUNT", "DEBT"}
    /\ paid > total => why = "TIP"

\* ... and becomes the discount, the debt or the tip.
Shortfall(total, paid, why, kind) == IF paid < total /\ why = kind THEN total - paid ELSE 0

\* _assert_discount_allowed; an unknown role counts as staff
DiscountAllowed(role, discount, total) ==
    \/ role = "OWNER"
    \/ discount = 0
    \/ total > 0 /\ discount * 100 <= total * LimitPercent

\* The payment first, then UPDATE bookings ... WHERE id = :id.
CloseWrite(r, m, paid, why, role) ==
    LET q == req[r]
        b == q.id
        discount == Shortfall(q.total, paid, why, "DISCOUNT")
    IN  /\ q.op = "close"
        /\ ~NeedsProof(q, m)
        /\ ReasonGiven(q.total, paid, why)
        /\ DiscountAllowed(role, discount, q.total)
        /\ taken' = [taken EXCEPT ![b][m] = @ + paid]
        /\ bill' = [bill EXCEPT ![b] =
                      [@ EXCEPT !.closed   = TRUE,
                                !.method   = m,
                                !.paid     = paid,
                                !.discount = discount,
                                !.debt     = Shortfall(q.total, paid, why, "DEBT"),
                                !.tip      = IF paid > q.total THEN paid - q.total ELSE 0,
                                !.proof    = IF m = "TRANSFER" /\ b \in Members
                                             THEN "CONFIRMED" ELSE "NULL"]]
        /\ Finish(r)
        /\ UNCHANGED <<order, stock, back, photos>>

\* bot_submit_payment_proof: the guest answers the request with a picture.
SubmitProof(b) ==
    /\ b \in Members
    /\ bill[b].proof = "PENDING"
    /\ bill' = [bill EXCEPT ![b].proof = "SUBMITTED"]
    /\ photos' = photos \union {b}
    /\ UNCHANGED <<order, stock, taken, back, req>>

\* extend_booking and cancel_confirmed_booking, detailed in module Bookings.
GrowPlay(r, b) ==
    /\ Free(r)
    /\ OpenBill(b)
    /\ bill[b].play < MaxPlay
    /\ bill' = [bill EXCEPT ![b].play = @ + 1]
    /\ UNCHANGED <<order, stock, taken, back, photos, req>>

CancelBooking(r, b) ==
    /\ Free(r)
    /\ OpenBill(b)
    /\ bill' = [bill EXCEPT ![b].status = "CANCELLED"]
    /\ UNCHANGED <<order, stock, taken, back, photos, req>>

\* An error after the reads, a dropped connection or a crash.
Abort(r) ==
    /\ ~Free(r)
    /\ Finish(r)
    /\ UNCHANGED <<bill, order, stock, taken, back, photos>>

-----------------------------------------------------------------------------
Init ==
    /\ bill = [b \in Bookings |->
                 [status |-> "CONFIRMED", play |-> FirstPlay, closed |-> FALSE,
                  method |-> "NULL", paid |-> 0, discount |-> 0, debt |-> 0,
                  tip |-> 0, proof |-> "NULL"]]
    /\ order = [o \in Orders |-> [status |-> "NONE", booking |-> NoBooking, qty |-> 0]]
    /\ stock = InitialStock
    /\ taken = [x \in Bookings \union Orders |-> [m \in Methods |-> 0]]
    /\ back = [o \in Orders |-> [m \in Methods |-> 0]]
    /\ photos = {}
    /\ req = [r \in Requests |-> Idle]

OrderStep(r) ==
    \/ \E o \in Orders :
         \/ AdvanceRead(r, o)
         \/ CancelRead(r, o)
         \/ \E b \in Bookings \union {NoBooking}, qty \in Qtys,
               m \in Methods \union {"NULL"} : CreateOrder(r, o, b, qty, m)
    \/ AdvanceWrite(r)
    \/ CancelWrite(r)

BillStep(r) ==
    \/ \E b \in Bookings : CloseRead(r, b) \/ GrowPlay(r, b) \/ CancelBooking(r, b)
    \/ CloseSum(r)
    \/ \E m \in Methods :
         \/ AskForProof(r, m)
         \/ \E paid \in 0 .. MaxPaid, why \in {"DISCOUNT", "DEBT", "TIP", "NONE"},
               role \in {"STAFF", "OWNER"} : CloseWrite(r, m, paid, why, role)

Handle(r) == OrderStep(r) \/ BillStep(r) \/ Abort(r)

Next ==
    \/ \E r \in Requests : Handle(r)
    \/ \E b \in Bookings : SubmitProof(b)

Spec == Init /\ [][Next]_vars

-----------------------------------------------------------------------------
\* Properties

\* Every row, both ledgers and every transaction in flight keep their type.
TypeOK ==
    /\ bill \in [Bookings -> Bill]
    /\ order \in [Orders -> Order]
    /\ stock \in Int
    /\ taken \in [Bookings \union Orders -> [Methods -> Nat]]
    /\ back \in [Orders -> [Methods -> Nat]]
    /\ photos \subseteq Members
    /\ req \in [Requests -> {Idle} \union Request]

\* A cancelled sale is refunded by the method it was paid with, in full and
\* once, however many tills cancel it at the same time (_order_payments).
RefundedOnce ==
    \A o \in Orders, m \in Methods :
        /\ back[o][m] <= taken[o][m]
        /\ order[o].status = "CANCELLED" => back[o][m] = taken[o][m]

\* The bill of a customer of the bot is never closed by transfer before the
\* customer sent a receipt (close_bill, bot_submit_payment_proof).
TransferHasReceipt ==
    \A b \in Members : bill[b].closed /\ bill[b].method = "TRANSFER" => b \in photos

\* What the guest of session b owes: the play and all that was not cancelled.
Owed(b) ==
    bill[b].play + Price * MapThenSumSet(LAMBDA o : order[o].qty,
                     {o \in Orders : order[o].booking = b /\ order[o].status # "CANCELLED"})

\* What a closed bill says was owed: total = paid + discount + debt - tip.
Settled(b) == bill[b].paid + bill[b].discount + bill[b].debt - bill[b].tip

\* At the moment a bill is closed it accounts for the whole session: all hours
\* played and every order that was not cancelled, no more and no less.
ClosesInFull ==
    \A b \in Bookings : ~bill[b].closed /\ bill'[b].closed => Settled(b)' = Owed(b)

\* A closed bill keeps accounting for every order of its session.
ClosedBillComplete == \A b \in Bookings : bill[b].closed => Settled(b) = Owed(b)

\* The payments ledger and the row agree: an open bill has no payment, and a
\* closed one exactly the one its row shows, for a session that was not cancelled.
PaidOnce ==
    \A b \in Bookings :
        /\ bill[b].closed => bill[b].status # "CANCELLED"
        /\ \A m \in Methods :
              taken[b][m] = IF bill[b].closed /\ bill[b].method = m THEN bill[b].paid ELSE 0

\* What is missing on the shelf is what was sold and not cancelled.
StockExact ==
    stock = InitialStock
              - MapThenSumSet(LAMBDA o : order[o].qty,
                              {o \in Orders : order[o].status # "CANCELLED"})

=============================================================================
