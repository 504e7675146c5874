------------------------------ MODULE Policies ------------------------------
(***************************************************************************)
(* Row-level security as the migrations leave it: which rows a transaction *)
(* may read and write, given the settings app.* it has made.  A row is a   *)
(* table, the club it belongs to and the person it is about (the person a  *)
(* shift belongs to and so do the expenses and movements of that shift, the *)
(* guest of a booking, the member, the actor); tables that share one       *)
(* policy stand for each other, and a table whose policy asks for a status *)
(* is several: "cancelled" has the bookings that were cancelled, and users *)
(* is four: "guests" with a booking of the club that was not cancelled,    *)
(* "past_guests" with cancelled ones only, "colleagues" who are members of *)
(* the club and "former_staff" who were.  A statement that meets no policy *)
(* fails when it writes and finds nothing when it reads: there is no       *)
(* error.                                                                  *)
(*                                                                         *)
(* The routes are here as well: the roles that require_role admits and the *)
(* rows the handler needs.                                                 *)
(***************************************************************************)
CONSTANTS
    Clubs,
    ActiveClubs,  \* clubs with status 'active'
    People,       \* staff and guests
    Nobody,       \* app_user_id() = 0
    NoClub        \* app_club_id() = 0

\* Nobody and no club are not the ids of anybody or of a club (0, where ids begin at 1).
PoliciesAssumption ==
    /\ Nobody \notin People
    /\ NoClub \notin Clubs
    /\ ActiveClubs \subseteq Clubs

Managers == {"OWNER", "ADMIN"}

Ranks == Managers \union {"STAFF"}

UserTables == {"guests", "past_guests", "colleagues", "former_staff"}

Tables == UserTables \union
          {"bookings", "cancelled", "orders", "payments", "expenses", "shifts", "movements",
           "stations", "memberships", "audit_log", "auth_events", "jobs"}

Rows == [table : Tables, club : Clubs, of : People]

\* The settings; club_role is the claim of the token, not the table.
TransactionSettings ==
    [user : People \union {Nobody}, club : Clubs \union {NoClub},
     claim : Ranks \union {"none"}, flags : SUBSET {"worker", "job_writer", "platform"}]

\* A connection on which nothing was set: current_setting(..., true) is empty.
Clean == [user |-> Nobody, club |-> NoClub, claim |-> "none", flags |-> {}]

-----------------------------------------------------------------------------
\* g: the settings; member: app_club_role(app_club_id()), read from memberships

InClub(g, row) == row.club = g.club

\* bookings_staff_all and its twins for orders, order_items and idempotency_keys
StaffAll(g, member, row) == InClub(g, row) /\ member \in Ranks

\* payments_staff_all
PaymentsStaffAll(g, member, row) == StaffAll(g, member, row)

\* Mutant: nobody without a token reads the calendar, as before 0027.
AvailabilityRead_None(row) == FALSE

\* bookings_availability_read of 0027: what takes a slot everybody may see.
AvailabilityRead(row) == row.table = "bookings"

\* bookings_customer_read, as users_self
CustomerRead(g, row) == row.of = g.user

\* memberships_read
MembershipsRead(g, row) == row.of = g.user \/ (InClub(g, row) /\ g.claim \in Managers)

\* Mutant: no policy for the users of the staff, as before 0011.
StaffRoster_None(g, member, row) == FALSE

\* users_staff_roster of 0011, whose subquery meets memberships_read itself
StaffRoster(g, member, row) == member \in Managers /\ MembershipsRead(g, row) /\ InClub(g, row)

\* users_booking_contact: the staff know a guest as long as a booking is open.
BookingContact(g, member, row) == InClub(g, row) /\ member \in Ranks

\* bookings_customer_insert
CustomerInsert(g, row) == row.of = g.user

\* bookings_worker_read, bookings_worker_update, payments_ and stations_worker_read, and
\* users_worker_customer, for any guest the club has had
OfWorker(g, row) == "worker" \in g.flags /\ InClub(g, row)

\* stations_read, as rooms_read and tariffs_read
CatalogueRead(g, row) == row.club \in ActiveClubs \/ InClub(g, row)

\* stations_write, as products_write
CatalogueWrite(g, member, row) == InClub(g, row) /\ member \in Managers

\* rooms_write and tariffs_write
TariffsWrite(g, member, row) == CatalogueWrite(g, member, row)

\* expenses_owner_admin_all
ExpensesManage(g, member, row) == InClub(g, row) /\ member \in Managers

\* Mutant: a cashier reads no expenses, as before 0032.
OwnShiftRead_None(g, row) == FALSE

\* expenses_own_shift_read: a cashier reads what was spent from their own shift.
OwnShiftRead(g, row) == InClub(g, row) /\ row.of = g.user

\* shifts_own_or_admin and shift_cash_movements_own_or_admin
OwnOrAdmin(g, member, row) == InClub(g, row) /\ (row.of = g.user \/ member \in Managers)

\* memberships_write_owner and memberships_write_admin; the ceiling of the roles is a
\* matter of Accounts.
MembershipsWrite(g, row) == InClub(g, row) /\ g.claim \in Managers

\* audit_log_read and auth_events_read
AuditRead(g, member, row) == row.of = g.user \/ (InClub(g, row) /\ member \in Managers)

\* audit_log_insert
AuditInsert(g, row) == row.of = g.user

\* jobs_worker_all, as notifications_worker_all
JobWriter(g) == "job_writer" \in g.flags

\* Mutant: no policy for stations and memberships, as before 0029.
PlatformRead_Gaps(g, row) ==
    "platform" \in g.flags /\ row.table \in UserTables \union
        {"bookings", "cancelled", "payments", "audit_log", "auth_events", "jobs"}

\* The *_platform_read policies of 0015, 0016, 0018, 0029, 0032, 0035 and 0037
PlatformRead(g, row) ==
    "platform" \in g.flags /\ row.table \in UserTables \union
        {"bookings", "cancelled", "stations", "memberships", "payments", "audit_log",
         "auth_events", "jobs"}

\* The policies of a table are alternatives.
Readable(g, member, row) ==
    \/ PlatformRead(g, row)
    \/ AvailabilityRead(row)
    \/ row.table \in {"bookings", "cancelled"} /\ (CustomerRead(g, row) \/ OfWorker(g, row))
    \/ row.table \in UserTables /\ CustomerRead(g, row)
    \/ row.table = "guests" /\ BookingContact(g, member, row)
    \/ row.table \in {"guests", "past_guests"} /\ OfWorker(g, row)
    \/ row.table = "colleagues" /\ StaffRoster(g, member, row)
    \/ row.table \in {"bookings", "cancelled", "orders"} /\ StaffAll(g, member, row)
    \/ row.table = "payments" /\ (PaymentsStaffAll(g, member, row) \/ OfWorker(g, row))
    \/ row.table = "expenses" /\ (ExpensesManage(g, member, row) \/ OwnShiftRead(g, row))
    \/ row.table \in {"shifts", "movements"} /\ OwnOrAdmin(g, member, row)
    \/ row.table = "stations" /\ CatalogueRead(g, row)
    \/ row.table = "memberships" /\ MembershipsRead(g, row)
    \/ row.table \in {"audit_log", "auth_events"} /\ AuditRead(g, member, row)
    \/ row.table = "jobs" /\ JobWriter(g)

Writable(g, member, row) ==
    \/ row.table = "bookings" /\ CustomerInsert(g, row)
    \/ row.table \in {"bookings", "cancelled"} /\ OfWorker(g, row)
    \/ row.table \in {"bookings", "cancelled", "orders"} /\ StaffAll(g, member, row)
    \/ row.table = "payments" /\ PaymentsStaffAll(g, member, row)
    \/ row.table = "expenses" /\ ExpensesManage(g, member, row)
    \/ row.table \in {"shifts", "movements"} /\ OwnOrAdmin(g, member, row)
    \/ row.table = "stations" /\ (CatalogueWrite(g, member, row) \/ TariffsWrite(g, member, row))
    \/ row.table = "memberships" /\ MembershipsWrite(g, row)
    \/ row.table = "audit_log" /\ AuditInsert(g, row)
    \/ row.table = "auth_events"  \* WITH CHECK (true): a failed sign-in has nobody's id
    \/ row.table = "jobs" /\ JobWriter(g)

-----------------------------------------------------------------------------
\* The routes of a club: gate, tables read, tables written

Route(gate, reads, writes) == [gate |-> gate, reads |-> reads, writes |-> writes]

\* get_club: an unpublished club is visible to those who work there.
OwnClub == Route(Ranks, {"stations"}, {})

\* timeline: the day of every station, with the names of the guests
Timeline == Route(Ranks, {"bookings", "stations", "guests"}, {})

\* list_pending: the requests that wait, with the guest to call
Pending == Route(Ranks, {"bookings", "stations", "guests"}, {})

\* booking_detail: a booking of any status, its guest and what was ordered to it
Detail == Route(Ranks, {"bookings", "cancelled", "stations", "orders", "guests", "past_guests"}, {})

\* create_staff_booking, confirm, reject, extend, cancel
Decisions == Route(Ranks, {"bookings", "cancelled", "stations", "guests", "past_guests"},
                   {"bookings", "cancelled"})

\* list_rooms to update_tariff, create_station, update_station
ManageClub == Route(Managers, {"stations"}, {"stations"})

\* list_orders to cancel_order of modules/pos/router.py
Bar == Route(Ranks, {"orders", "payments"}, {"orders", "payments"})

\* list_open_bookings, get_bill, close_bill
Till == Route(Ranks, {"bookings", "stations", "orders", "payments", "guests"},
              {"bookings", "payments"})

\* list_live
Live == Route(Ranks, {"stations", "bookings", "orders", "guests"}, {})

\* list_expenses, create_expense, update_expense, with who entered them
ManageExpenses == Route(Managers, {"expenses", "shifts", "colleagues", "former_staff"}, {"expenses"})

\* current_shift, list_open_shifts, open_shift, add_shift_movement, close_shift, with whose
\* shift it is and who entered a movement
CashDesk == Route(Ranks, {"shifts", "movements", "expenses", "payments", "colleagues",
                          "former_staff"}, {"shifts", "movements"})

\* dashboard and club_report
Dashboard == Route(Managers, {"bookings", "orders", "payments", "expenses", "stations"}, {})

\* list_staff: the members and their logins
Roster == Route(Managers, {"memberships", "colleagues"}, {})

\* list_club_logs: both logs, with the actors
Logs == Route(Managers, {"audit_log", "auth_events", "colleagues", "former_staff"}, {})

ClubRoutes == {OwnClub, Timeline, Pending, Detail, Decisions, ManageClub, Bar, Till, Live,
               ManageExpenses, CashDesk, Dashboard, Roster, Logs}

\* A cashier looks after the rows of their own shift only (list_open_shifts, _expected_cash).
Mine(route, u, claim, row) ==
    route = CashDesk /\ claim = "STAFF" /\ row.table \in {"shifts", "movements", "expenses"}
        => row.of = u

\* Persons that no policy of users opens to those who ask: guests with cancelled bookings
\* only, members who were removed, and to a cashier the colleagues.  The LEFT JOINs of Detail,
\* Decisions, ManageExpenses, CashDesk and Logs give NULL for their names, and the JOIN of
\* list_open_shifts loses the shift of a removed member who left it open.
Unknown(u, claim, row) ==
    /\ row.of # u
    /\ row.table \in {"past_guests", "former_staff"} \/ (row.table = "colleagues" /\ claim = "STAFF")

Needed(tables, route, u, c, claim) ==
    {row \in Rows : /\ row.table \in tables /\ row.club = c
                    /\ Mine(route, u, claim, row) /\ ~Unknown(u, claim, row)}

-----------------------------------------------------------------------------
\* The routes outside a club: tables read

\* list_clubs and list_stations, no token: clubs_read is stations_read.
Shop == {"stations"}

\* list_day_bookings, no token: what is taken on a day
Calendar == {"bookings"}

\* my_bookings and my_stats: the bookings of the person who asks
MyBookings == {"bookings", "cancelled", "stations"}

MyStats == {"bookings", "cancelled"}

\* What a person without a club, or nobody in particular, asks for: bookings are made in
\* published clubs, and publishing has no inverse.
NeededOutside(u) ==
    {row \in Rows : /\ row.table \in Shop \union Calendar \union MyBookings \union MyStats
                    /\ row.club \in ActiveClubs
                    /\ row.table = "cancelled" => row.of = u}

\* The super administrator's screens: stations stands for clubs and organizations too.
PlatformStats == {"bookings", "stations"}

\* with the owner
Organizations == {"stations", "bookings", "colleagues"}

\* with the staff
OrganizationDetail == {"stations", "bookings", "memberships", "colleagues"}

\* with the actors
PlatformLogs == {"audit_log"} \union UserTables

JobRuns == {"jobs", "stations"}

PlatformTables == PlatformStats \union Organizations \union OrganizationDetail
                      \union PlatformLogs \union JobRuns

=============================================================================
