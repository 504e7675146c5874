------------------------------- MODULE Shifts -------------------------------
(***************************************************************************)
(* Cash drawers: the shifts of the staff of one club and everything that   *)
(* changes the cash a shift should hold (modules/finance/shifts.py,        *)
(* modules/finance/service.py, the INSERTs of modules/pos/service.py and   *)
(* the trigger of migration 0034).                                         *)
(*                                                                         *)
(* An INSERT of a payment, a movement or an expense is checked by the      *)
(* trigger against the committed status of its shift, without a lock, and  *)
(* becomes visible at COMMIT: two steps.  A closing is three: SELECT,      *)
(* UPDATE (which takes the row lock, computes the variance and writes the  *)
(* audit log on a connection of its own), COMMIT.                          *)
(*                                                                         *)
(* _expected_cash() sums the committed rows on every read; cash[k] is that *)
(* sum.                                                                    *)
(***************************************************************************)
EXTENDS Integers

CONSTANTS
    Staff,      \* members of the staff
    ShiftIds,   \* primary keys of shifts
    Expenses,   \* primary keys of expenses paid in cash
    Requests,   \* transactions that may be open at the same time
    Amounts,    \* sums of payments, movements, expenses and opening cash
    Nobody,     \* staff_id of a row that does not exist
    CashBound   \* bound of the model: the drawer stays within it

ShiftsAssumption ==
    /\ Nobody \notin Staff
    /\ Amounts \subseteq Nat \ {0}
    /\ CashBound \in Nat

VARIABLES
    shift,    \* shift[k]: the committed row of shifts with id k
    cash,     \* cash[k]: what _expected_cash computes for shift k
    expense,  \* expense[e]: the committed row of expenses with id e
    logged,   \* logged[k]: the variance the last closing of shift k computed, which
              \* it returns and, best effort, writes to the audit log
    req       \* req[r]: what the open transaction r holds in memory

vars == <<shift, cash, expense, logged, req>>

Idle == [op |-> "idle"]

Shift == [status : {"NONE", "open", "closed"}, staff : Staff \union {Nobody}, counted : Nat]

\* shift is a key of ShiftIds, whatever it was before the row existed
Expense == [status : {"NONE", "active", "archived"}, shift : ShiftIds, amount : Nat]

Request ==
    [op : {"entry"}, id : ShiftIds, amount : Int]
      \union [op : {"expense"}, id : ShiftIds, row : Expenses, amount : Nat]
      \union [op : {"edit"}, row : Expenses, amount : Nat, status : {"active", "archived"}]
      \union [op : {"close"}, id : ShiftIds]
      \union [op : {"closing"}, id : ShiftIds, counted : Nat]

Free(r) == req[r] = Idle

Finish(r) == req' = [req EXCEPT ![r] = Idle]

-----------------------------------------------------------------------------
\* Opening

\* shifts_staff_one_open_uk
HasOpenShift(s) == \E k \in ShiftIds : shift[k].status = "open" /\ shift[k].staff = s

NewShift(s) == [status |-> "open", staff |-> s, counted |-> 0]

OpenShift(r, k, s, opening) ==
    /\ Free(r)
    /\ shift[k].status = "NONE"
    /\ ~HasOpenShift(s)
    /\ shift' = [shift EXCEPT ![k] = NewShift(s)]
    /\ cash' = [cash EXCEPT ![k] = opening]
    /\ UNCHANGED <<expense, logged, req>>

-----------------------------------------------------------------------------
\* Money through the drawer

\* Mutant: the trigger is missing, any shift is accepted.
Accepts_Existing(k) == shift[k].status # "NONE"

\* reject_write_to_closed_shift, and the same check in record_movement,
\* shift_is_open and open_shift_id before it
Accepts(k) == shift[k].status = "open"

\* INSERT INTO payments (CASH) or shift_cash_movements: money in or out
EntryInsert(r, k, amount) ==
    /\ Free(r)
    /\ Accepts(k)
    /\ req' = [req EXCEPT ![r] = [op |-> "entry", id |-> k, amount |-> amount]]
    /\ UNCHANGED <<shift, cash, expense, logged>>

EntryCommit(r) ==
    /\ req[r].op = "entry"
    /\ cash[req[r].id] + req[r].amount \in -CashBound .. CashBound
    /\ cash' = [cash EXCEPT ![req[r].id] = @ + req[r].amount]
    /\ Finish(r)
    /\ UNCHANGED <<shift, expense, logged>>

\* create_expense with method CASH
ExpenseInsert(r, e, k, amount) ==
    /\ Free(r)
    /\ expense[e].status = "NONE"
    /\ \A q \in Requests : req[q].op = "expense" => req[q].row # e
    /\ Accepts(k)
    /\ req' = [req EXCEPT ![r] = [op |-> "expense", id |-> k, row |-> e, amount |-> amount]]
    /\ UNCHANGED <<shift, cash, expense, logged>>

ExpenseCommit(r) ==
    LET q == req[r]
    IN  /\ q.op = "expense"
        /\ cash[q.id] - q.amount \in -CashBound .. CashBound
        /\ expense' = [expense EXCEPT ![q.row] =
                         [status |-> "active", shift |-> q.id, amount |-> q.amount]]
        /\ cash' = [cash EXCEPT ![q.id] = @ - q.amount]
        /\ Finish(r)
        /\ UNCHANGED <<shift, logged>>

\* Mutant: the shift of the expense is not looked at.
Editable_Always(e) == expense[e].status # "NONE"

\* update_expense refuses an expense of a closed shift
Editable(e) == expense[e].status # "NONE" /\ shift[expense[e].shift].status # "closed"

EditRead(r, e, amount, status) ==
    /\ Free(r)
    /\ Editable(e)
    /\ req' = [req EXCEPT ![r] =
                 [op |-> "edit", row |-> e, amount |-> amount, status |-> status]]
    /\ UNCHANGED <<shift, cash, expense, logged>>

\* What an expense takes out of the drawer
Spent(status, amount) == IF status = "active" THEN amount ELSE 0

\* UPDATE expenses ... WHERE id = :id, then COMMIT; no trigger on UPDATE
EditCommit(r) ==
    LET q == req[r]
        x == expense[q.row]
        change == Spent(x.status, x.amount) - Spent(q.status, q.amount)
    IN  /\ q.op = "edit"
        /\ cash[x.shift] + change \in -CashBound .. CashBound
        /\ expense' = [expense EXCEPT ![q.row].status = q.status, ![q.row].amount = q.amount]
        /\ cash' = [cash EXCEPT ![x.shift] = @ + change]
        /\ Finish(r)
        /\ UNCHANGED <<shift, logged>>

-----------------------------------------------------------------------------
\* Closing

Closable(k) == shift[k].status = "open"

CloseRead(r, k) ==
    /\ Free(r)
    /\ Closable(k)
    /\ req' = [req EXCEPT ![r] = [op |-> "close", id |-> k]]
    /\ UNCHANGED <<shift, cash, expense, logged>>

\* cash_variance
Variance(counted, expected) == counted - expected

\* UPDATE shifts ... WHERE id = :id waits for the lock of another closing;
\* then the variance is computed and log_action commits on its own.
CloseUpdate(r, counted) ==
    LET k == req[r].id
    IN  /\ req[r].op = "close"
        /\ \A q \in Requests : req[q].op = "closing" => req[q].id # k
        /\ logged' = [logged EXCEPT ![k] = Variance(counted, cash[k])]
        /\ req' = [req EXCEPT ![r] = [op |-> "closing", id |-> k, counted |-> counted]]
        /\ UNCHANGED <<shift, cash, expense>>

CloseCommit(r) ==
    /\ req[r].op = "closing"
    /\ shift' = [shift EXCEPT ![req[r].id].status = "closed",
                              ![req[r].id].counted = req[r].counted]
    /\ Finish(r)
    /\ UNCHANGED <<cash, expense, logged>>

\* An error after the first statement, a dropped connection or a crash
Abort(r) ==
    /\ ~Free(r)
    /\ Finish(r)
    /\ UNCHANGED <<shift, cash, expense, logged>>

-----------------------------------------------------------------------------
Init ==
    /\ shift = [k \in ShiftIds |-> [status |-> "NONE", staff |-> Nobody, counted |-> 0]]
    /\ cash = [k \in ShiftIds |-> 0]
    /\ \E k \in ShiftIds :
         expense = [e \in Expenses |-> [status |-> "NONE", shift |-> k, amount |-> 0]]
    /\ logged = [k \in ShiftIds |-> 0]
    /\ req = [r \in Requests |-> Idle]

Step(r) ==
    \/ \E k \in ShiftIds :
         \/ \E s \in Staff, a \in Amounts \union {0} : OpenShift(r, k, s, a)
         \/ \E a \in Amounts : EntryInsert(r, k, a) \/ EntryInsert(r, k, -a)
         \/ \E e \in Expenses, a \in Amounts : ExpenseInsert(r, e, k, a)
         \/ CloseRead(r, k)
    \/ \E e \in Expenses, a \in Amounts, st \in {"active", "archived"} : EditRead(r, e, a, st)
    \/ \E counted \in Amounts \union {0} : CloseUpdate(r, counted)
    \/ EntryCommit(r)
    \/ ExpenseCommit(r)
    \/ EditCommit(r)
    \/ CloseCommit(r)
    \/ Abort(r)

Next == \E r \in Requests : Step(r)

Spec == Init /\ [][Next]_vars

-----------------------------------------------------------------------------
\* Properties

\* Every row, every sum and every transaction in flight keep their type.
TypeOK ==
    /\ shift \in [ShiftIds -> Shift]
    /\ cash \in [ShiftIds -> Int]
    /\ expense \in [Expenses -> Expense]
    /\ logged \in [ShiftIds -> Int]
    /\ req \in [Requests -> {Idle} \union Request]

Closed(k) == shift[k].status = "closed"

\* Transaction r can still change what shift k shows.
Touches(r, k) ==
    \/ req[r].op \in {"entry", "expense", "close", "closing"} /\ req[r].id = k
    \/ req[r].op = "edit" /\ expense[req[r].row].shift = k

Quiet(k) == Closed(k) /\ \A r \in Requests : ~Touches(r, k)

\* The race the trigger leaves is only with transactions that were open when
\* the shift was closed: once they have ended, nothing can ever reach the
\* shift again, by payment, movement, expense, edit or a second closing.
QuietForEver ==
    [][\A k \in ShiftIds : Quiet(k) =>
         Quiet(k)' /\ cash'[k] = cash[k] /\ shift'[k] = shift[k] /\ logged'[k] = logged[k]]_vars

=============================================================================
