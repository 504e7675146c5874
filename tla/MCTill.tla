------------------------------- MODULE MCTill -------------------------------
(***************************************************************************)
(* The money of a club: the keys that make requests idempotent             *)
(* (Idempotency), what an hour costs and when the club is open (Tariffs),  *)
(* the bills of sessions and sales (Bills), the cash drawers (Shifts) and  *)
(* the figures of the reports (Reports).  A behaviour is about one of them *)
(* (scene), the others stay as they begin.                                 *)
(*                                                                         *)
(* Bills has two scenes: at the desk one request is open at a time, in     *)
(* races the calls overlap.  The calls are the requests of every other     *)
(* scene as well, so that one symmetry set serves.                         *)
(***************************************************************************)
EXTENDS Idempotency, Integers, TLC

CONSTANTS
    Bookings, Members, NoBooking, Orders, Qtys, Price, InitialStock, FirstPlay, MaxPlay,
    MaxPaid, LimitPercent,
    DeskRequest,                      \* the request of the scene desk
    RaceOrders, RaceQtys, RacePaid,   \* bounds of the scene races
    Staff, ShiftIds, Expenses, Amounts, Nobody, CashBound,
    MinuteTicks, HourMinutes, DayMinutes, WeekDays, MaxCloses, PastGrace,
    TariffIds, Forms, Settings, Kinds, Consoles, AnyOne, Rate, Now,
    Ids, DayHours, Zone, LastHour

VARIABLES
    scene,
    bill, order, stock, taken, back, photos, req,
    shift, cash, expense, logged, entries,
    tariff, club,
    now, entry

TariffForms ==
    {[days |-> d, from |-> w[1], to |-> w[2], price |-> p[1], priority |-> p[2],
      console |-> p[3], kind |-> p[4]] :
        d \in {{0}, {0, 1}}, w \in {<<0, 6>>, <<4, 7>>, <<2, 4>>},
        p \in {<<3, 0, AnyOne, AnyOne>>, <<4, 1, AnyOne, AnyOne>>, <<4, 1, "ps5", "vip">>}}
    \union {[days |-> {1}, from |-> 5, to |-> t, price |-> 5, priority |-> 1,
             console |-> AnyOne, kind |-> AnyOne] : t \in {12, 13}}

ClubForms == {[opens |-> o, closes |-> c, min |-> 1, max |-> 2, advance |-> 1] :
                o \in {0, 2}, c \in {1, 4, 6, 7}}

Tills == INSTANCE Bills WITH Requests <- Calls \union {DeskRequest}

Drawer == INSTANCE Shifts WITH Requests <- Calls, req <- entries

Prices == INSTANCE Tariffs WITH Any <- AnyOne

Books == INSTANCE Reports

ASSUME TillAssumption ==
    /\ Tills!BillsAssumption /\ Drawer!ShiftsAssumption
    /\ Prices!TariffsAssumption /\ Books!ReportsAssumption
    /\ DeskRequest \notin Calls

billVars == <<bill, order, stock, taken, back, photos, req>>
shiftVars == <<shift, cash, expense, logged, entries>>
priceVars == <<tariff, club>>
bookVars == <<now, entry>>

\* Bounds: what the calls of the scene races order and pay
SmallRace ==
    /\ \A o \in Orders : order[o].status # "NONE" => o \in RaceOrders /\ order[o].qty \in RaceQtys
    /\ \A b \in Bookings : bill[b].paid <= RacePaid

Proofs == \E b \in Bookings : Tills!SubmitProof(b)

TillInit ==
    /\ scene \in {"keys", "desk", "races", "drawer", "tariffs", "books"}
    /\ Init
    /\ Tills!Init
    /\ Drawer!Init
    /\ Prices!Init
    /\ scene # "tariffs" => club = CHOOSE f \in Settings : Prices!CleanClubFields(f)
    /\ Books!Init

TillNext ==
    /\ UNCHANGED scene
    /\ \/ /\ scene = "keys" /\ Next
          /\ UNCHANGED <<billVars, shiftVars, priceVars, bookVars>>
       \/ /\ scene = "desk" /\ (Tills!Handle(DeskRequest) \/ Proofs)
          /\ UNCHANGED <<serverVars, shiftVars, priceVars, bookVars>>
       \/ /\ scene = "races" /\ ((\E r \in Calls : Tills!Handle(r)) \/ Proofs) /\ SmallRace'
          /\ UNCHANGED <<serverVars, shiftVars, priceVars, bookVars>>
       \/ /\ scene = "drawer" /\ Drawer!Next
          /\ UNCHANGED <<serverVars, billVars, priceVars, bookVars>>
       \/ /\ scene = "tariffs" /\ Prices!Next
          /\ UNCHANGED <<serverVars, billVars, shiftVars, bookVars>>
       \/ /\ scene = "books" /\ Books!Next
          /\ UNCHANGED <<serverVars, billVars, shiftVars, priceVars>>

TillSpec ==
    TillInit /\ [][TillNext]_<<scene, serverVars, billVars, shiftVars, priceVars, bookVars>>

TillSymmetry ==
    Permutations(Calls) \union Permutations(ShiftIds)
      \union Permutations(Bodies) \union Permutations(Results)

\* Every row and every transaction in flight keeps its type.
TypesOK ==
    /\ scene = "keys" => TypeOK
    /\ scene \in {"desk", "races"} => Tills!TypeOK
    /\ scene = "drawer" => Drawer!TypeOK
    /\ scene = "tariffs" => Prices!TypeOK
    /\ scene = "books" => Books!TypeOK

\* Bills: a cancelled sale is refunded once and no transfer goes without a receipt,
\* whatever overlaps (_order_payments, bot_submit_payment_proof); the payments of a session
\* are what its bill shows, one request at a time (close_bill).
BillsAddUp ==
    /\ Tills!RefundedOnce /\ Tills!TransferHasReceipt
    /\ scene = "desk" => Tills!PaidOnce

\* Bills: one request at a time, a bill that closes accounts for every order there is
\* (close_bill) and the shelf agrees with the orders (create_order, cancel_order).
SumsExact ==
    /\ [](scene = "desk" => Tills!StockExact)
    /\ [][scene = "desk" => Tills!ClosesInFull]_billVars

\* Shifts: a closed shift is left alone once open transactions have ended.
QuietForEver == Drawer!QuietForEver

\* Tariffs: a window costs what its minutes cost together (price_for_window).
PricedByTheMinute == scene = "tariffs" => Prices!PricedByTheMinute

\* Tariffs: a booking is accepted if the club is open throughout (fits_opening_hours).
OpenThroughout == scene = "tariffs" => Prices!OpenThroughout

\* Reports: the figures of the screens add up (_revenue_series, get_dashboard).
FiguresAddUp == scene = "books" => Books!FiguresAddUp

=============================================================================
