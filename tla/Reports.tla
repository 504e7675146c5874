------------------------------ MODULE Reports ------------------------------
(***************************************************************************)
(* The figures of the dashboard and of the reports, for a club             *)
(* (finance/reports.py) and for the platform (platform/service.py), over a *)
(* ledger that keeps changing: bookings and orders are planned money and   *)
(* may still be cancelled, payments are received money and only ever       *)
(* added, a refund being a payment of its own.                             *)
(*                                                                         *)
(* Time is stored in UTC and cut into days by the clock of the club, so    *)
(* each figure converts twice: to find its bounds and to find the bucket   *)
(* of an entry.  A tick is an hour; DayHours of them are a day.            *)
(***************************************************************************)
EXTENDS Integers, FiniteSets, FiniteSetsExt

CONSTANTS
    Ids,       \* entries of the ledger
    Amounts,   \* sums of money
    DayHours,  \* hours of a day
    WeekDays,  \* days of a week, as of a month
    Zone,      \* the club's clock minus UTC, in hours
    LastHour   \* bound: the clock stops there

ReportsAssumption ==
    /\ IsFiniteSet(Ids)
    /\ Amounts \subseteq Nat
    /\ DayHours \in Nat \ {0} /\ WeekDays \in Nat \ {0}
    /\ Zone \in Int
    /\ LastHour \in Nat

VARIABLES
    now,
    entry  \* entry[i]: booking, order, payment, expense or platform payment

vars == <<now, entry>>

Hours == 0 .. LastHour

\* AT TIME ZONE, and the day the local clock shows
Local(t) == t + Zone

Day(t) == Local(t) \div DayHours

Days == Day(0) .. Day(LastHour)

Sorts == {"play", "bar", "receipt", "refund", "expense", "fee", "org"}

\* at is a time; for an expense (spent_on) it is a day.
Blank == [sort |-> "none", at |-> 0, amount |-> 0, live |-> FALSE]

TypeOK ==
    /\ now \in Hours
    /\ entry \in [Ids -> [sort : Sorts \union {"none"}, at : Hours \union Days,
                          amount : Amounts \union {0}, live : BOOLEAN]]

Init == now = 0 /\ entry = [i \in Ids |-> Blank]

Write(i, sort, at, amount) ==
    /\ entry[i] = Blank
    /\ entry' = [entry EXCEPT ![i] = [sort |-> sort, at |-> at, amount |-> amount, live |-> TRUE]]
    /\ UNCHANGED now

Strike(i, sort) ==
    /\ entry[i].sort = sort
    /\ entry[i].live
    /\ entry' = [entry EXCEPT ![i].live = FALSE]
    /\ UNCHANGED now

-----------------------------------------------------------------------------

\* confirm: from here on the booking is planned money, at the time it starts
Book(i, at, a) == at >= now /\ Write(i, "play", at, a)

CancelBooking(i) == Strike(i, "play")

\* create_order, cancel_order: created_at stays, also on a later day
Order(i, a) == Write(i, "bar", now, a)

CancelOrder(i) == Strike(i, "bar")

\* Receipts and refunds are written by triggers of 0032, at now().
Receive(i, a) == Write(i, "receipt", now, a)

Refund(i, a) == Write(i, "refund", now, a)

\* create_expense: the day is the caller's choice.  update_expense archives it.
Spend(i, d, a) == Write(i, "expense", d, a)

Archive(i) == Strike(i, "expense")

\* record_payment of the platform, and a new organization
RecordPayment(i, a) == Write(i, "fee", now, a)

NewOrganization(i) == \E a \in Amounts : Write(i, "org", now, a)

Tick == now < LastHour /\ now' = now + 1 /\ UNCHANGED entry

Next ==
    \/ \E i \in Ids, a \in Amounts :
           \/ \E t \in Hours : Book(i, t, a)
           \/ Order(i, a)
           \/ Receive(i, a)
           \/ Refund(i, a)
           \/ \E d \in Days : Spend(i, d, a)
           \/ RecordPayment(i, a)
    \/ \E i \in Ids : CancelBooking(i) \/ CancelOrder(i) \/ Archive(i) \/ NewOrganization(i)
    \/ Tick

Spec == Init /\ [][Next]_vars

-----------------------------------------------------------------------------
\* Figures of a club

Sum(sorts, P(_)) ==
    MapThenSumSet(LAMBDA i : entry[i].amount,
                  {i \in Ids : entry[i].sort \in sorts /\ entry[i].live /\ P(entry[i].at)})

\* Mutant: BETWEEN, the last moment of a range is also the first of the next.
Within_Closed(t, since, until) == since <= t /\ t <= until

\* since is in the range and until is not.
Within(t, since, until) == since <= t /\ t < until

\* _revenue_expense_for_range
Totals(since, until, sinceDate, untilDate) ==
    [planned  |-> Sum({"play", "bar"}, LAMBDA t : Within(t, since, until)),
     received |-> Sum({"receipt"}, LAMBDA t : Within(t, since, until))
                      - Sum({"refund"}, LAMBDA t : Within(t, since, until)),
     expenses |-> Sum({"expense"}, LAMBDA d : Within(d, sinceDate, untilDate))]

\* The moment a local day begins
Midnight(d) == d * DayHours - Zone

\* get_dashboard: the whole day by the club's clock, what is still to come included
Dashboard(d) == Totals(Midnight(d), Midnight(d + 1), d, d + 1)

Periods == {"day", "week"}

\* date_trunc of the period, in days
FirstDay(period) == IF period = "day" THEN Day(now) ELSE (Day(now) \div WeekDays) * WeekDays

\* get_report: from there to now; what was written at this tick is in.
Report(period) == Totals(Midnight(FirstDay(period)), now + 1, FirstDay(period), Day(now) + 1)

\* Mutant: the bucket of an entry is cut by UTC.
Bucket_Utc(t, period) == IF period = "day" THEN t ELSE t \div DayHours

\* date_trunc of the sub-unit (_SUB_UNIT): hours of a day, days of a longer period
Bucket(t, period) == IF period = "day" THEN Local(t) ELSE Day(t)

\* _revenue_series: the buckets are generated, the sums are joined to them.
Series(period) ==
    LET since == Midnight(FirstDay(period))
        buckets == (IF period = "day" THEN Local(since) ELSE Day(since))
                       .. (IF period = "day" THEN Local(now) ELSE Day(now))
    IN  [b \in buckets |->
            Sum({"play", "bar"}, LAMBDA t : Within(t, since, now + 1) /\ Bucket(t, period) = b)]

-----------------------------------------------------------------------------
\* Figures of the platform, by the clock of Tashkent

\* get_financial_report, of payments and of new organizations: the last units, a bucket each
FinancialReport(sort, lookback) ==
    [d \in Days |-> Sum({sort}, LAMBDA t : t >= now - lookback * DayHours /\ Day(t) = d)]

\* total_revenue, total_organizations
Total(sort) == Sum({sort}, LAMBDA t : TRUE)

\* get_dashboard of the platform: the bookings whose local date is today's
PlatformToday == Sum({"play"}, LAMBDA t : Day(t) = Day(now))

-----------------------------------------------------------------------------

\* The graph of a report adds up to the figure above it: no booking and no order is cut
\* into a bucket that the graph does not have.
SeriesAddUp ==
    \A p \in Periods :
        MapThenSumSet(LAMBDA b : Series(p)[b], DOMAIN Series(p)) = Report(p).planned

\* Each payment and each expense belongs to the dashboard of exactly one day, so the days
\* of a week together are what came in and went out in it.
DaysAddUp ==
    LET all == MapThenSumSet(LAMBDA d : Dashboard(d).received, Days)
        spent == MapThenSumSet(LAMBDA d : Dashboard(d).expenses, Days)
    IN  /\ all = Sum({"receipt"}, LAMBDA t : TRUE) - Sum({"refund"}, LAMBDA t : TRUE)
        /\ spent = Sum({"expense"}, LAMBDA d : TRUE)

\* The platform cuts days by the date of an entry and the club by their bounds: both find
\* the same bookings, and the buckets of the platform lose nothing that is recent enough.
PlatformAddsUp ==
    /\ PlatformToday =
           Sum({"play"}, LAMBDA t : Within(t, Midnight(Day(now)), Midnight(Day(now) + 1)))
    /\ \A sort \in {"fee", "org"}, lookback \in 0 .. LastHour :
           LET report == FinancialReport(sort, lookback)
               sum == MapThenSumSet(LAMBDA d : report[d], Days)
           IN  sum <= Total(sort) /\ (lookback * DayHours >= now => sum = Total(sort))

\* What the screens of club and platform show side by side adds up.
FiguresAddUp == SeriesAddUp /\ DaysAddUp /\ PlatformAddsUp

=============================================================================
