------------------------------- MODULE Tariffs -------------------------------
(***************************************************************************)
(* What an hour of play costs and when the club is open: the tariffs and   *)
(* the settings of one club, the owner's edits of both, and the quote that *)
(* a guest gets and a new booking is priced with (modules/bookings/        *)
(* pricing.py, service.py and router.py, tables of migration 0037).        *)
(*                                                                         *)
(* A moment is a number of ticks since a Monday midnight on the clock of   *)
(* the club's own zone; a minute has MinuteTicks of them, so that a start  *)
(* may fall inside a minute as the seconds of the code do.  The code's     *)
(* minute, hour, day and week (60 s, 60, 24, 7) are constants.  Seconds    *)
(* and the code's rounding at the end, (w + 1800) // 3600, become ticks    *)
(* and (w + half an hour) \div an hour.  Clock changes are left out.       *)
(*                                                                         *)
(* Every edit is one statement of one transaction.                         *)
(***************************************************************************)
EXTENDS Integers, FiniteSets, FiniteSetsExt

CONSTANTS
    MinuteTicks, HourMinutes, DayMinutes, WeekDays,
    MaxCloses,     \* latest closing, in minutes: 26:00 in the code
    PastGrace,     \* minutes a start may lie in the past (PAST_GRACE_MIN)
    TariffIds,     \* primary keys of tariffs, numbers
    Forms,         \* what an owner may type into the tariff form
    Settings,      \* what an owner may type into the form of the club
    Kinds,         \* kinds of rooms
    Consoles,      \* CONSOLE_TYPES
    Any,           \* NULL: every room, every console
    Rate,          \* stations.rate, the price of a club without tariffs
    Now            \* the minute in which the quotes are asked

TariffsAssumption ==
    /\ {MinuteTicks, HourMinutes, DayMinutes, WeekDays} \subseteq Nat \ {0}
    /\ MaxCloses \in Nat /\ MaxCloses < 2 * DayMinutes
    /\ IsFiniteSet(TariffIds) /\ TariffIds \subseteq Int
    /\ Any \notin Consoles
    /\ Settings \subseteq [opens : Nat, closes : Nat, min : Nat, max : Nat, advance : Nat]
    /\ \A f \in Settings : f.max * HourMinutes <= DayMinutes   \* CHECK of 0037: 12 hours
    /\ Forms \subseteq [days : SUBSET (0 .. WeekDays - 1), from : Nat, to : Nat, price : Nat,
                        priority : Nat, console : Consoles \union {Any},
                        kind : Kinds \union {Any}]

VARIABLES
    tariff,   \* tariff[i]: the row of tariffs with id i
    club      \* the settings of the row of clubs

vars == <<tariff, club>>

MINUTE == MinuteTicks
HOUR == HourMinutes * MINUTE
DAY == DayMinutes * MINUTE

NoTariff == [status |-> "NONE"]

Tariff ==
    [status : {"active", "archived"}, days : SUBSET (0 .. WeekDays - 1), from : Nat,
     to : Nat, price : Nat, priority : Nat, console : Consoles \union {Any},
     kind : Kinds \union {Any}]

Club == [opens : Nat, closes : Nat, min : Nat, max : Nat, advance : Nat]

-----------------------------------------------------------------------------
\* Which tariff is in force

\* _applies_at: the tariff of the moment's day, or the one of the day before that
\* reaches past midnight; days_mask is about the day it began.
AppliesAt(t, moment) ==
    \E offset \in {0, -1} :
        LET day == moment \div DAY + offset
            rel == (moment - day * DAY) \div MINUTE
        IN  day % WeekDays \in t.days /\ t.from <= rel /\ rel < t.to

\* _load_tariffs: the archived ones take no part.
LoadTariffs == {i \in TariffIds : tariff[i].status = "active"}

Candidates(T, moment, console, kind) ==
    {i \in T : /\ tariff[i].console \in {Any, console}
               /\ tariff[i].kind \in {Any, kind}
               /\ AppliesAt(tariff[i], moment)}

Prior(i, j) ==
    \/ tariff[i].priority > tariff[j].priority
    \/ tariff[i].priority = tariff[j].priority /\ i <= j

\* _pick, of a set that is not empty: the highest priority, then the smallest id.
Pick(C) == CHOOSE i \in C : \A j \in C : Prior(i, j)

-----------------------------------------------------------------------------
\* The price of a window

\* Mutant: a tariff that began the day before has no boundary inside the window.
Boundaries_Today(T, start, end) ==
    LET days == start \div DAY .. end \div DAY
    IN  {p \in {start, end} \union
                 UNION {{d * DAY, d * DAY + tariff[i].from * MINUTE,
                         d * DAY + tariff[i].to * MINUTE} : d \in days, i \in T} :
            start <= p /\ p <= end}

\* _boundaries: every midnight and every end of a tariff inside the window, from the
\* day before its start to the day of its end.
Boundaries(T, start, end) ==
    LET days == start \div DAY - 1 .. end \div DAY
    IN  {p \in {start, end} \union {d * DAY : d \in days}
                 \union {d * DAY + tariff[i].from * MINUTE : d \in days, i \in T}
                 \union {d * DAY + tariff[i].to * MINUTE : d \in days, i \in T} :
            start <= p /\ p <= end}

NoPrice == -1   \* NoTariffForSlot

\* price_for_window: the start is cut to its minute, every piece between two boundaries
\* is charged by the tariff of its middle, and the sum is rounded once.
PriceForWindow(T, start, hours, console, kind) ==
    LET from == (start \div MINUTE) * MINUTE
        points == Boundaries(T, from, from + hours * HOUR)
        next(p) == Min({q \in points : q > p})
        lefts == points \ {from + hours * HOUR}
        here(p) == Candidates(T, (p + next(p)) \div 2, console, kind)
        weight(p) == tariff[Pick(here(p))].price * (next(p) - p)
    IN  IF \E p \in lefts : here(p) = {} THEN NoPrice
        ELSE (MapThenSumSet(weight, lefts) + HOUR \div 2) \div HOUR

\* quote_play_amount
QuotePlayAmount(start, hours, console, kind) ==
    IF LoadTariffs = {} THEN Rate * hours
    ELSE PriceForWindow(LoadTariffs, start, hours, console, kind)

-----------------------------------------------------------------------------
\* When the club is open

\* Mutant: the night that belongs to the day before is forgotten.
FitsOpeningHours_SameDay(startMin, minutes) ==
    \/ club.closes - club.opens >= DayMinutes
    \/ club.opens <= startMin /\ startMin + minutes <= club.closes

\* fits_opening_hours, of a booking that starts in minute startMin of its day: it lies
\* in the opening hours of that day, or in what is left of those of the day before.
FitsOpeningHours(startMin, minutes) ==
    \/ club.closes - club.opens >= DayMinutes
    \/ \E offset \in {0, -DayMinutes} :
           /\ club.opens + offset <= startMin
           /\ startMin + minutes <= club.closes + offset

\* _validate_window
ValidWindow(start, hours) ==
    /\ club.min <= hours /\ hours <= club.max
    /\ start >= (Now - PastGrace) * MINUTE
    /\ start <= Now * MINUTE + club.advance * DAY

\* _resolve_console_type: a station from before migration 0023 has a console of its own.
ResolveConsole(asked, own) == IF asked # Any THEN asked ELSE own

\* _assert_within_opening_hours
WithinOpeningHours(start, hours) ==
    FitsOpeningHours((start \div MINUTE) % DayMinutes, hours * HourMinutes)

\* quote_booking, and the same calls in create_customer_booking: the amount, or NoPrice
\* for every refusal.
QuoteBooking(start, hours, asked, own, kind) ==
    LET console == ResolveConsole(asked, own)
    IN  IF ValidWindow(start, hours) /\ WithinOpeningHours(start, hours) /\ console # Any
        THEN QuotePlayAmount(start, hours, console, kind)
        ELSE NoPrice

-----------------------------------------------------------------------------
\* The owner's edits

\* _clean_tariff_fields, TariffCreateIn and the CHECKs of 0037
CleanTariffFields(f) ==
    /\ f.price > 0
    /\ f.days # {}
    /\ f.from < DayMinutes
    /\ f.from < f.to /\ f.to <= 2 * DayMinutes

TariffRow(status, f) ==
    [status |-> status, days |-> f.days, from |-> f.from, to |-> f.to, price |-> f.price,
     priority |-> f.priority, console |-> f.console, kind |-> f.kind]

\* create_tariff: tariffs may overlap, priority decides.
CreateTariff(i, f) ==
    /\ tariff[i] = NoTariff
    /\ CleanTariffFields(f)
    /\ tariff' = [tariff EXCEPT ![i] = TariffRow("active", f)]
    /\ UNCHANGED club

\* update_tariff: all fields, and is_active; no tariff is ever deleted.
UpdateTariff(i, f, status) ==
    /\ tariff[i] # NoTariff
    /\ CleanTariffFields(f)
    /\ tariff' = [tariff EXCEPT ![i] = TariffRow(status, f)]
    /\ UNCHANGED club

\* The checks of update_club and ClubUpdateIn.
CleanClubFields(f) ==
    /\ f.opens < f.closes /\ f.closes <= MaxCloses
    /\ f.min <= f.max

UpdateClub(f) ==
    /\ CleanClubFields(f)
    /\ club' = f
    /\ UNCHANGED tariff

\* The routes: whoever passes require_admin may send any form.
PostTariff(i) == \E f \in Forms : CreateTariff(i, f)

PatchTariff(i) ==
    \E f \in Forms, status \in {"active", "archived"} : UpdateTariff(i, f, status)

PatchClub == \E f \in Settings : UpdateClub(f)

\* A new club: no tariffs, the defaults of clubs.
Init ==
    /\ tariff = [i \in TariffIds |-> NoTariff]
    /\ club \in {f \in Settings : CleanClubFields(f)}

Next ==
    \/ \E i \in TariffIds : PostTariff(i) \/ PatchTariff(i)
    \/ PatchClub

Spec == Init /\ [][Next]_vars

-----------------------------------------------------------------------------
\* Properties

\* Tariffs and settings are rows the tables accept.
TypeOK ==
    /\ tariff \in [TariffIds -> Tariff \union {NoTariff}]
    /\ club \in Club

\* The minutes of a booking that starts at start.
MinutesOf(start, hours) == start \div MINUTE .. start \div MINUTE + hours * HourMinutes - 1

Starts == 0 .. WeekDays * DAY - 1

\* The tariff a guest expects to pay at one minute: among the active ones that are for
\* this console and this room and whose hours, counted from the midnight they belong
\* to, contain the minute.
ExpectedAt(m, console, kind) ==
    {i \in TariffIds :
        /\ tariff[i].status = "active"
        /\ tariff[i].console \in {Any, console} /\ tariff[i].kind \in {Any, kind}
        /\ \E d \in -1 .. 2 * WeekDays :
               /\ d % WeekDays \in tariff[i].days
               /\ d * DayMinutes + tariff[i].from <= m
               /\ m < d * DayMinutes + tariff[i].to}

ExpectedPrice(m, console, kind) ==
    LET E == ExpectedAt(m, console, kind)
        top == Max({tariff[i].priority : i \in E})
    IN  tariff[Min({i \in E : tariff[i].priority = top})].price

\* The club is open in minute m (of day 0 or later): some day's opening hours contain it.
OpenAt(m) ==
    \E offset \in {-DayMinutes, 0, DayMinutes} :
        club.opens + offset <= m /\ m < club.closes + offset

\* fits_opening_hours, which compares two ends, lets a booking in exactly if the club is
\* open in every minute of it, for every opening time an owner can save, also past
\* midnight and around the clock.
OpenThroughout ==
    \A startMin \in 0 .. DayMinutes - 1, minutes \in 1 .. DayMinutes :
        FitsOpeningHours(startMin, minutes) <=>
            \A m \in startMin .. startMin + minutes - 1 : OpenAt(m)

\* What a club with tariffs asks for a window (quote_booking and create_customer_booking
\* cut it into pieces at the ends of the tariffs) is what adding up minute by minute
\* gives, rounded once, whatever tariffs the owner has entered and at whatever second
\* the booking starts.  It is refused if the club is closed in one of its minutes or
\* if one has no tariff, and the console may come from the guest or from the station.
PricedByTheMinute ==
    LoadTariffs # {} =>
        \A start \in Starts, hours \in 1 .. club.max, c \in Consoles, k \in Kinds :
            ValidWindow(start, hours) =>
                LET M == MinutesOf(start, hours)
                    sum == MapThenSumSet(LAMBDA m : ExpectedPrice(m, c, k), M)
                    amount == IF \E m \in M : ExpectedAt(m, c, k) = {} \/ ~OpenAt(m % DayMinutes)
                              THEN NoPrice
                              ELSE (sum + HourMinutes \div 2) \div HourMinutes
                IN  \A ask \in {<<c, Any>>, <<Any, c>>} :
                        QuoteBooking(start, hours, ask[1], ask[2], k) = amount

=============================================================================
