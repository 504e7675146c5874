------------------------------ MODULE Catalogue ------------------------------
(***************************************************************************)
(* The rooms and stations of one club and its publication (create_room     *)
(* to update_station, publish_club and the lists of modules/bookings/      *)
(* service.py, their routes, club_publish of migration 0012 and the tables *)
(* of 0037).  A tariff is aimed at a kind of room, so a station that is    *)
(* quietly moved to another room is charged a different price.             *)
(*                                                                         *)
(* An edit is one transaction whose upsert of the room locks it; publishing *)
(* looks for an active station in one statement and writes in another.     *)
(***************************************************************************)
EXTENDS Integers

CONSTANTS
    RoomIds,      \* primary keys of rooms
    StationIds,   \* primary keys of stations
    Names         \* what a room may be called, the "Standart" of a room nobody named
                  \* included; a kind starts as the name of its room

VARIABLES
    room,         \* room[r]: the row of rooms with id r
    station,      \* station[s]: the row of stations with id s
    status,       \* clubs.status
    publishing    \* club_publish has seen an active station and has not written yet

vars == <<room, station, status, publishing>>

NoRow == [status |-> "NONE"]

\* rooms as 0037 creates it; is_active archives a room and has no effect on prices
Room == [status : {"active", "archived"}, name : Names, kind : Names]

Station == [status : {"active", "maintenance"}, label : Names, room : RoomIds]

Rooms == {r \in RoomIds : room[r] # NoRow}

Stations == {s \in StationIds : station[s] # NoRow}

\* rooms_club_name_uk
Taken(name, r) == \E q \in Rooms \ {r} : room[q].name = name

\* LEFT JOIN rooms in _load_club_and_station: what tariffs.room_kind is compared with
KindOf(s) == room[station[s].room].kind

-----------------------------------------------------------------------------
\* Rooms

CreateRoom(r, name, kind) ==
    /\ room[r] = NoRow /\ ~Taken(name, r)
    /\ room' = [room EXCEPT ![r] = [status |-> "active", name |-> name, kind |-> kind]]
    /\ UNCHANGED <<station, status, publishing>>

\* update_room: a new name does not reach stations.room_label.
UpdateRoom(r, name, kind, st) ==
    /\ room[r] # NoRow /\ ~Taken(name, r)
    /\ room' = [room EXCEPT ![r] = [status |-> st, name |-> name, kind |-> kind]]
    /\ UNCHANGED <<station, status, publishing>>

-----------------------------------------------------------------------------
\* Stations

\* Mutant: the room is inserted again whenever a station is saved.
Resolved_Insert(label, r) == room[r] = NoRow

\* _resolve_room_id finds the room of that name or inserts one at r.
Resolved(label, r) ==
    ~Taken(label, r) /\ (room[r] # NoRow => room[r].name = label)

\* Mutant: the new room gets no kind.
Upserted_NoKind(label, r) ==
    IF room[r] = NoRow
    THEN [room EXCEPT ![r] = [status |-> "active", name |-> label, kind |-> "null"]]
    ELSE room

Upserted(label, r) ==
    IF room[r] = NoRow
    THEN [room EXCEPT ![r] = [status |-> "active", name |-> label, kind |-> label]]
    ELSE room

\* create_station
CreateStation(s, label, r) ==
    /\ station[s] = NoRow
    /\ Resolved(label, r)
    /\ room' = Upserted(label, r)
    /\ station' = [station EXCEPT ![s] = [status |-> "active", label |-> label, room |-> r]]
    /\ UNCHANGED <<status, publishing>>

UpdateStation(s, label, r, st) ==
    /\ station[s] # NoRow
    /\ Resolved(label, r)
    /\ room' = Upserted(label, r)
    /\ station' = [station EXCEPT ![s] = [status |-> st, label |-> label, room |-> r]]
    /\ UNCHANGED <<status, publishing>>

\* list_all_stations shows the owner every row, list_stations a guest the active ones.
ListAllStations == Stations

ListStations == {s \in ListAllStations : station[s].status = "active"}

-----------------------------------------------------------------------------
\* Publication

\* club_publish up to its EXISTS
ClubPublishRead ==
    /\ ~publishing
    /\ status = "draft"
    /\ ListStations # {}
    /\ publishing' = TRUE
    /\ UNCHANGED <<room, station, status>>

\* publish_club: UPDATE and COMMIT
ClubPublishWrite ==
    /\ publishing
    /\ status' = "active"
    /\ publishing' = FALSE
    /\ UNCHANGED <<room, station>>

\* A lost connection rolls back.
Abort ==
    /\ publishing
    /\ publishing' = FALSE
    /\ UNCHANGED <<room, station, status>>

\* The routes, behind require_admin
PostRoom == \E r \in RoomIds, n, k \in Names : CreateRoom(r, n, k)

PatchRoom ==
    \E r \in RoomIds, n, k \in Names, st \in {"active", "archived"} : UpdateRoom(r, n, k, st)

PostStation == \E s \in StationIds, l \in Names, r \in RoomIds : CreateStation(s, l, r)

PatchStation ==
    \E s \in StationIds, l \in Names, r \in RoomIds, st \in {"active", "maintenance"} :
        UpdateStation(s, l, r, st)

PostPublish == ClubPublishRead

\* A club as auth_owner_signup leaves it
Init ==
    /\ room = [r \in RoomIds |-> NoRow]
    /\ station = [s \in StationIds |-> NoRow]
    /\ status = "draft"
    /\ publishing = FALSE

Next ==
    \/ PostRoom
    \/ PatchRoom
    \/ PostStation
    \/ PatchStation
    \/ PostPublish
    \/ ClubPublishWrite
    \/ Abort

Spec == Init /\ [][Next]_vars

-----------------------------------------------------------------------------
\* Properties

TypeOK ==
    /\ room \in [RoomIds -> Room \union {NoRow}]
    /\ station \in [StationIds -> Station \union {NoRow}]
    /\ status \in {"draft", "active"}
    /\ publishing \in BOOLEAN

\* The kind a station is priced by never changes behind the owner's back: it changes only
\* when the kind of its room is edited, when the station is given another label, or when
\* its room had been renamed and the station is saved with the old label
\* (_resolve_room_id then makes a new room of that name).
KindFollowsRoom ==
    [][\A s \in Stations :
          KindOf(s)' # KindOf(s) =>
              \/ /\ station'[s].room = station[s].room
                 /\ room[station[s].room].kind # room'[station[s].room].kind
              \/ station'[s].label # station[s].label
              \/ room[station[s].room].name # station[s].label]_vars

=============================================================================
