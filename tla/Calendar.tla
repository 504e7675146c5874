------------------------------ MODULE Calendar ------------------------------
(***************************************************************************)
(* What the booking table promises the club: a calendar of cells, one per  *)
(* station and hour.  A cell is held by one booking or by nobody.  A       *)
(* booking may take any set of free cells of one station in one step, and  *)
(* bookings may let go of everything they hold; a cell never passes from   *)
(* one booking to another without being free in between.                   *)
(***************************************************************************)
EXTENDS Integers

CONSTANTS Ids, Stations, Hours, Nobody

VARIABLE holder   \* holder[s][t]: who has station s in the hour t .. t + 1

TypeOK == holder \in [Stations -> [Hours -> Ids \union {Nobody}]]

Empty == [s \in Stations |-> [t \in Hours |-> Nobody]]

Init == holder = Empty

\* Booking b takes the free cells W of station s.
Take(b, s, W) ==
    /\ \A t \in W : holder[s][t] = Nobody
    /\ holder' = [holder EXCEPT ![s] = [t \in Hours |-> IF t \in W THEN b ELSE @[t]]]

\* The bookings B give up all their cells.
Release(B) ==
    holder' = [s \in Stations |->
                 [t \in Hours |-> IF holder[s][t] \in B THEN Nobody ELSE holder[s][t]]]

Next ==
    \/ \E b \in Ids, s \in Stations, W \in SUBSET Hours : Take(b, s, W)
    \/ \E B \in SUBSET Ids : Release(B)

Spec == Init /\ [][Next]_holder

=============================================================================
