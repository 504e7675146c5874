--------------------------- MODULE BookingsProofs ---------------------------
(***************************************************************************)
(* Theorems about module Bookings, for every number of bookings, stations, *)
(* open transactions and hours.                                            *)
(***************************************************************************)
EXTENDS Bookings, TLAPS

\* A request that was read is one of the three kinds, told apart by its op.
LEMMA RequestKinds ==
    ASSUME TypeOK, NEW r \in Requests
    PROVE  /\ req[r].op = "extend" => req[r] \in ExtendRequest
           /\ req[r].op \in {"customer", "staff"} => req[r] \in BookingRequest
           /\ req[r].op \in {"confirm", "reject", "cancel", "close"}
                => req[r] \in StatusRequest
  BY DEF TypeOK, Idle, ExtendRequest, BookingRequest, StatusRequest

\* The trigger keeps a row a row.
LEMMA BumpedType ==
    ASSUME row \in [Ids -> Row], NEW b \in Ids, NEW new \in Row
    PROVE  Bumped(b, new) \in Row
  BY DEF Bumped, Row

\* A quote is an amount.
LEMMA QuoteType ==
    ASSUME TypeOK, NEW s \in Stations, NEW h \in Nat
    PROVE  Quote(s, h) \in Nat
<1>1. rate[s] \in Nat
  BY ConstantsAssumption DEF TypeOK
<1>2. \A x, y \in Nat : x * y \in Nat
  OBVIOUS
<1>3. QED
  BY <1>1, <1>2 DEF Quote

\* Extending a row, from whatever snapshot, gives a row.
LEMMA ExtendedType ==
    ASSUME row \in [Ids -> Row], NEW b \in Ids, NEW q \in ExtendRequest
    PROVE  Extended(b, q) \in Row
<1>1. /\ q.hours + q.extra \in Nat
      /\ q.play + q.charge \in Nat
      /\ row[b].hi + q.extra \in Nat
  BY DEF ExtendRequest, Row
<1>2. QED
  BY <1>1 DEF Extended, Row

\* Update stores a row of the right type if it is given one.
LEMMA UpdateType ==
    ASSUME row \in [Ids -> Row], NEW b \in Ids, NEW new \in Row, Update(b, new)
    PROVE  row' \in [Ids -> Row]
  BY BumpedType DEF Update

\* No handler and no worker stores a value of a wrong type.
LEMMA TypeStep ==
    ASSUME TypeOK, [Next]_vars
    PROVE  TypeOK'
<1> USE ConstantsAssumption
<1>a. \A r \in Requests : Finish(r) =>
        req' \in [Requests -> {Idle} \union BookingRequest \union StatusRequest
                                     \union ExtendRequest]
  BY DEF TypeOK, Finish
<1>1. ASSUME NEW r \in Requests, NEW s \in Stations, NEW lo \in 0 .. Horizon,
             NEW h \in MinHours .. MaxHours,
             CreateCustomerRead(r, s, lo, h) \/ CreateStaffRead(r, s, lo, h)
      PROVE  TypeOK'
  <2>1. Quote(s, h) \in Nat
    BY QuoteType
  <2>2. PICK op \in {"customer", "staff"} :
          req' = [req EXCEPT ![r] = [op |-> op, station |-> s, lo |-> lo,
                                     hours |-> h, play |-> Quote(s, h)]]
    BY <1>1 DEF CreateCustomerRead, CreateStaffRead
  <2>3. [op |-> op, station |-> s, lo |-> lo, hours |-> h, play |-> Quote(s, h)]
          \in BookingRequest
    BY <2>1 DEF BookingRequest
  <2> QED
    BY <1>1, <2>2, <2>3 DEF CreateCustomerRead, CreateStaffRead, TypeOK
<1>2. ASSUME NEW r \in Requests, NEW b \in Ids, CreateInsert(r, b)
      PROVE  TypeOK'
  <2>1. req[r] \in BookingRequest
    BY <1>2, RequestKinds DEF CreateInsert
  <2>2. NewRow(req[r]) \in Row
    BY <2>1 DEF NewRow, Row, BookingRequest, Statuses
  <2> QED
    BY <1>2, <1>a, <2>1, <2>2 DEF CreateInsert, TypeOK, BookingRequest
<1>3. ASSUME NEW r \in Requests, NEW b \in Ids,
             \/ ConfirmRead(r, b) \/ RejectRead(r, b)
             \/ CancelRead(r, b) \/ CloseRead(r, b)
      PROVE  TypeOK'
  <2>1. PICK op \in {"confirm", "reject", "cancel", "close"} : StatusRead(r, b, op)
    BY <1>3 DEF ConfirmRead, RejectRead, CancelRead, CloseRead
  <2>2. [op |-> op, id |-> b] \in StatusRequest
    BY DEF StatusRequest
  <2> QED
    BY <2>1, <2>2 DEF StatusRead, TypeOK
<1>4. ASSUME NEW r \in Requests, NEW b \in Ids, NEW extra \in 1 .. MaxExtend,
             NEW v \in VersionsSeen(b), ExtendRead(r, b, extra, v)
      PROVE  TypeOK'
  <2>1. row[b] \in Row /\ rate[row[b].station] \in Nat
    BY DEF TypeOK, Row
  <2>2. v \in Nat /\ extra \in Nat
    BY <2>1 DEF VersionsSeen, NoVersion, Row
  <2>3. Quote(row[b].station, extra) \in Nat
    BY <2>2, QuoteType DEF TypeOK, Row
  <2>4. [op |-> "extend", id |-> b, hours |-> row[b].hours, play |-> row[b].play,
         extra |-> extra, charge |-> Quote(row[b].station, extra), expected |-> v]
          \in ExtendRequest
    BY <2>1, <2>2, <2>3 DEF ExtendRequest, Row
  <2> QED
    BY <1>4, <2>4 DEF ExtendRead, TypeOK
<1>5. ASSUME NEW r \in Requests,
             ConfirmWrite(r) \/ RejectWrite(r) \/ CancelWrite(r) \/ CloseWrite(r)
      PROVE  TypeOK'
  <2> DEFINE b == req[r].id
  <2>1. b \in Ids
    BY <1>5, RequestKinds
       DEF ConfirmWrite, RejectWrite, CancelWrite, CloseWrite, StatusRequest
  <2>2. PICK new \in Row : Update(b, new)
    <3>1. /\ [row[b] EXCEPT !.status = "CONFIRMED"] \in Row
          /\ [row[b] EXCEPT !.status = "CANCELLED"] \in Row
          /\ [row[b] EXCEPT !.closed = TRUE] \in Row
      BY <2>1 DEF TypeOK, Row, Statuses
    <3> QED
      BY <1>5, <3>1 DEF ConfirmWrite, RejectWrite, CancelWrite, CloseWrite
  <2>3. row' \in [Ids -> Row]
    BY <2>1, <2>2, UpdateType DEF TypeOK
  <2> QED
    BY <1>5, <1>a, <2>3 DEF ConfirmWrite, RejectWrite, CancelWrite, CloseWrite, TypeOK
<1>6. ASSUME NEW r \in Requests, ExtendWrite(r)
      PROVE  TypeOK'
  <2> DEFINE q == req[r]
             b == q.id
  <2>1. q \in ExtendRequest /\ b \in Ids
    BY <1>6, RequestKinds DEF ExtendWrite, ExtendRequest
  <2>2. Bumped(b, Extended(b, q)) \in Row
    BY <2>1, ExtendedType, BumpedType DEF TypeOK
  <2> QED
    BY <1>6, <1>a, <2>1, <2>2 DEF ExtendWrite, TypeOK, ExtendRequest
<1>7. ASSUME NEW b \in Ids, SideUpdate(b)
      PROVE  TypeOK'
  BY <1>7, UpdateType DEF SideUpdate, TypeOK
<1>8. ASSUME NEW b \in Ids, WindowElapses(b)
      PROVE  TypeOK'
  BY <1>8 DEF WindowElapses, TypeOK
<1>9. CASE ExpireUnpaid
  <2>1. \A b \in Ids : [row[b] EXCEPT !.status = "CANCELLED"] \in Row
    BY DEF TypeOK, Row, Statuses
  <2>2. \A b \in Ids : Bumped(b, [row[b] EXCEPT !.status = "CANCELLED"]) \in Row
    BY <2>1, BumpedType DEF TypeOK
  <2> QED
    BY <1>9, <2>2 DEF ExpireUnpaid, TypeOK
<1>10. ASSUME NEW s \in Stations, NEW p \in Rates, SetRate(s, p)
       PROVE  TypeOK'
  BY <1>10 DEF SetRate, TypeOK
<1>11. ASSUME NEW r \in Requests, Abort(r)
       PROVE  TypeOK'
  BY <1>11, <1>a DEF Abort, TypeOK
<1>12. CASE UNCHANGED vars
  BY <1>12 DEF vars, TypeOK
<1> QED
  BY <1>1, <1>2, <1>3, <1>4, <1>5, <1>6, <1>7, <1>8, <1>9, <1>10, <1>11, <1>12
     DEF Next, RequestStep

\* The committed row, the requests in flight and the histories keep their
\* types through every handler and every worker.
THEOREM TypeCorrect == Spec => []TypeOK
<1>1. Init => TypeOK
  <2> SUFFICES ASSUME Init PROVE TypeOK
    OBVIOUS
  <2>1. row \in [Ids -> Row]
    BY DEF Init, Row, Statuses
  <2> QED
    BY <2>1, ConstantsAssumption DEF Init, TypeOK, Idle
<1>2. TypeOK /\ [Next]_vars => TypeOK'
  BY TypeStep
<1> QED
  BY <1>1, <1>2, PTL DEF Spec

-----------------------------------------------------------------------------
\* A row that clashes with nothing may be stored.
LEMMA StoreSafely ==
    ASSUME TypeOK, NoOverlap, NEW b \in Ids, NEW new \in Row, NEW stored \in Row,
           ~SlotTaken(b, new),
           \A x \in Row : Clash(stored, x) <=> Clash(new, x),
           row' = [row EXCEPT ![b] = stored]
    PROVE  NoOverlap'
<1> SUFFICES ASSUME NEW c \in Ids, NEW d \in Ids, c # d, Clash(row'[c], row'[d])
             PROVE  FALSE
  BY DEF NoOverlap
<1>1. \A x, y : Clash(x, y) => Clash(y, x)
  BY DEF Clash
<1>2. \A x \in Ids \ {b} : row[x] \in Row /\ ~Clash(stored, row[x]) /\ ~Clash(row[x], stored)
  BY <1>1 DEF SlotTaken, TypeOK
<1>3. CASE c = b
  BY <1>2, <1>3 DEF TypeOK
<1>4. CASE d = b
  BY <1>2, <1>4 DEF TypeOK
<1>5. CASE c # b /\ d # b
  BY <1>5 DEF NoOverlap, TypeOK
<1> QED
  BY <1>3, <1>4, <1>5

LEMMA BumpedClash ==
    ASSUME NEW b \in Ids, NEW new \in Row, NEW x \in Row
    PROVE  Clash(Bumped(b, new), x) <=> Clash(new, x)
  BY DEF Clash, Bumped, Row

\* An UPDATE under the EXCLUDE constraint keeps the bookings apart.
LEMMA UpdateSafely ==
    ASSUME TypeOK, NoOverlap, NEW b \in Ids, NEW new \in Row, Update(b, new)
    PROVE  NoOverlap'
<1>1. CASE SlotTaken(b, new)
  BY <1>1 DEF Update, NoOverlap
<1>2. CASE ~SlotTaken(b, new)
  <2>1. Bumped(b, new) \in Row
    BY BumpedType DEF TypeOK
  <2> QED
    BY <1>2, <2>1, BumpedClash, StoreSafely DEF Update
<1> QED
  BY <1>1, <1>2

\* No two active bookings of a station ever share an hour, whatever races:
\* inserts, extensions, late confirmations.
THEOREM NeverDoubleBooked == Spec => []NoOverlap
<1>1. Init => NoOverlap
  BY DEF Init, NoOverlap, Clash, Active
<1>2. TypeOK /\ NoOverlap /\ [Next]_vars => NoOverlap'
  <2> SUFFICES ASSUME TypeOK, NoOverlap, [Next]_vars PROVE NoOverlap'
    OBVIOUS
  <2>1. CASE UNCHANGED row
    BY <2>1 DEF NoOverlap
  <2>2. ASSUME NEW r \in Requests, NEW b \in Ids, CreateInsert(r, b)
        PROVE  NoOverlap'
    <3>1. req[r] \in BookingRequest
      BY <2>2, RequestKinds DEF CreateInsert
    <3>2. NewRow(req[r]) \in Row
      BY <3>1 DEF NewRow, Row, BookingRequest, Statuses
    <3>3. CASE SlotTaken(b, NewRow(req[r]))
      BY <2>2, <3>3, <2>1 DEF CreateInsert
    <3>4. CASE ~SlotTaken(b, NewRow(req[r]))
      BY <2>2, <3>2, <3>4, StoreSafely DEF CreateInsert
    <3> QED
      BY <3>3, <3>4
  <2>3. ASSUME NEW r \in Requests,
               ConfirmWrite(r) \/ RejectWrite(r) \/ CancelWrite(r) \/ CloseWrite(r)
        PROVE  NoOverlap'
    <3> DEFINE b == req[r].id
    <3>1. b \in Ids
      BY <2>3, RequestKinds
         DEF ConfirmWrite, RejectWrite, CancelWrite, CloseWrite, StatusRequest
    <3>2. /\ [row[b] EXCEPT !.status = "CONFIRMED"] \in Row
          /\ [row[b] EXCEPT !.status = "CANCELLED"] \in Row
          /\ [row[b] EXCEPT !.closed = TRUE] \in Row
      BY <3>1 DEF TypeOK, Row, Statuses
    <3> QED
      BY <2>3, <3>1, <3>2, UpdateSafely
         DEF ConfirmWrite, RejectWrite, CancelWrite, CloseWrite
  <2>4. ASSUME NEW r \in Requests, ExtendWrite(r)
        PROVE  NoOverlap'
    <3> DEFINE q == req[r]
               b == q.id
    <3>1. q \in ExtendRequest /\ b \in Ids
      BY <2>4, RequestKinds DEF ExtendWrite, ExtendRequest
    <3>2. Extended(b, q) \in Row
      BY <3>1, ExtendedType DEF TypeOK
    <3>3. Bumped(b, Extended(b, q)) \in Row
      BY <3>1, <3>2, BumpedType DEF TypeOK
    <3>4. CASE VersionMatches(q) /\ ~SlotTaken(b, Extended(b, q))
      BY <2>4, <3>1, <3>2, <3>3, <3>4, BumpedClash, StoreSafely DEF ExtendWrite
    <3>5. CASE ~(VersionMatches(q) /\ ~SlotTaken(b, Extended(b, q)))
      BY <2>4, <3>5, <2>1 DEF ExtendWrite
    <3> QED
      BY <3>4, <3>5
  <2>5. ASSUME NEW b \in Ids, SideUpdate(b)
        PROVE  NoOverlap'
    BY <2>5, UpdateSafely DEF SideUpdate, TypeOK
  <2>6. CASE ExpireUnpaid
    <3>1. \A b \in Ids : /\ row'[b].status # "CANCELLED" => row'[b] = row[b]
                         /\ row'[b] \in Row
      <4>1. \A b \in Ids : [row[b] EXCEPT !.status = "CANCELLED"] \in Row
        BY DEF TypeOK, Row, Statuses
      <4>2. \A b \in Ids :
              Bumped(b, [row[b] EXCEPT !.status = "CANCELLED"]).status = "CANCELLED"
        BY <4>1 DEF Bumped, Row
      <4> QED
        BY <2>6, <4>1, <4>2, BumpedType DEF ExpireUnpaid, TypeOK
    <3> QED
      BY <3>1 DEF NoOverlap, Clash, Active
  <2> QED
    BY <2>1, <2>2, <2>3, <2>4, <2>5, <2>6
       DEF Next, RequestStep, vars, CreateCustomerRead, CreateStaffRead, ConfirmRead,
           RejectRead, CancelRead, CloseRead, StatusRead, ExtendRead, WindowElapses,
           SetRate, Abort
<1> QED
  BY <1>1, <1>2, TypeCorrect, PTL DEF Spec

-----------------------------------------------------------------------------
\* The strengthening behind the theorems on lost updates.
Bounded ==
    /\ SnapshotsCurrent
    /\ NeverOverbilled
    /\ \A b \in Ids : Exists(b) => row[b].version >= 1

\* A row that exists is either untouched by a step or gets a higher version;
\* what was granted is never taken back.
RowsAdvance ==
    \A b \in Ids : Exists(b) =>
        /\ row'[b].status # "NONE"
        /\ row'[b] = row[b] \/ row'[b].version > row[b].version
        /\ given'[b] >= given[b]
        /\ sold'[b] >= sold[b]

\* Every open extension was open before.
NoNewExtension ==
    \A r \in Requests : req'[r] = req[r] \/ req'[r].op # "extend"

\* Only ExtendRead opens an extension.
LEMMA OtherRequest ==
    ASSUME TypeOK, NEW r \in Requests, NEW v, req' = [req EXCEPT ![r] = v],
           v.op # "extend"
    PROVE  NoNewExtension
  BY DEF NoNewExtension, TypeOK

LEMMA FinishedRequest ==
    ASSUME TypeOK, NEW r \in Requests, Finish(r)
    PROVE  NoNewExtension
  BY DEF NoNewExtension, TypeOK, Finish, Idle

LEMMA OnlyExtendReadExtends ==
    ASSUME TypeOK, [Next]_vars,
           ~ \E r \in Requests, b \in Ids, extra \in 1 .. MaxExtend :
               \E v \in VersionsSeen(b) : ExtendRead(r, b, extra, v)
    PROVE  NoNewExtension
<1>1. ASSUME NEW r \in Requests, NEW s \in Stations, NEW lo \in 0 .. Horizon,
             NEW h \in MinHours .. MaxHours,
             CreateCustomerRead(r, s, lo, h) \/ CreateStaffRead(r, s, lo, h)
      PROVE  NoNewExtension
  <2>1. PICK op \in {"customer", "staff"} :
          req' = [req EXCEPT ![r] = [op |-> op, station |-> s, lo |-> lo,
                                     hours |-> h, play |-> Quote(s, h)]]
    BY <1>1 DEF CreateCustomerRead, CreateStaffRead
  <2> DEFINE v == [op |-> op, station |-> s, lo |-> lo, hours |-> h, play |-> Quote(s, h)]
  <2>2. v.op # "extend" /\ req' = [req EXCEPT ![r] = v]
    BY <2>1
  <2> HIDE DEF v
  <2> QED
    BY <2>2, OtherRequest
<1>2. ASSUME NEW r \in Requests, NEW b \in Ids,
             \/ ConfirmRead(r, b) \/ RejectRead(r, b)
             \/ CancelRead(r, b) \/ CloseRead(r, b)
      PROVE  NoNewExtension
  <2>1. PICK op \in {"confirm", "reject", "cancel", "close"} :
          req' = [req EXCEPT ![r] = [op |-> op, id |-> b]]
    BY <1>2 DEF ConfirmRead, RejectRead, CancelRead, CloseRead, StatusRead
  <2> DEFINE v == [op |-> op, id |-> b]
  <2>2. v.op # "extend" /\ req' = [req EXCEPT ![r] = v]
    BY <2>1
  <2> HIDE DEF v
  <2> QED
    BY <2>2, OtherRequest
<1>3. ASSUME NEW r \in Requests,
             \/ \E b \in Ids : CreateInsert(r, b)
             \/ ConfirmWrite(r) \/ RejectWrite(r) \/ CancelWrite(r) \/ CloseWrite(r)
             \/ ExtendWrite(r) \/ Abort(r)
      PROVE  NoNewExtension
  <2>1. Finish(r)
    BY <1>3 DEF CreateInsert, ConfirmWrite, RejectWrite, CancelWrite, CloseWrite,
                ExtendWrite, Abort
  <2> QED
    BY <2>1, FinishedRequest
<1>4. CASE UNCHANGED req
  BY <1>4 DEF NoNewExtension
<1> QED
  BY <1>1, <1>2, <1>3, <1>4
     DEF Next, RequestStep, SideUpdate, WindowElapses, ExpireUnpaid, SetRate, vars

\* Snapshots stay good as long as rows only advance.
LEMMA SnapshotsKept ==
    ASSUME TypeOK, TypeOK', SnapshotsCurrent, RowsAdvance, NoNewExtension
    PROVE  SnapshotsCurrent'
<1> SUFFICES ASSUME NEW r \in Requests, req'[r].op = "extend"
             PROVE  LET q == req'[r]
                        b == q.id
                    IN  /\ row'[b].status # "NONE"
                        /\ q.hours <= given'[b]
                        /\ q.play <= sold'[b]
                        /\ q.expected <= row'[b].version
                        /\ q.expected = row'[b].version =>
                             /\ row'[b].status = "CONFIRMED" /\ ~row'[b].closed
                             /\ q.hours = row'[b].hours /\ q.play = row'[b].play
  BY DEF SnapshotsCurrent, Exists, OpenSession
<1> DEFINE q == req[r]
           b == q.id
<1>1. req'[r] = q /\ q.op = "extend"
  BY DEF NoNewExtension
<1>2. q \in ExtendRequest /\ b \in Ids
  BY <1>1, RequestKinds DEF ExtendRequest
<1>3. /\ Exists(b)
      /\ q.hours <= given[b]
      /\ q.play <= sold[b]
      /\ q.expected <= row[b].version
      /\ q.expected = row[b].version =>
           OpenSession(b) /\ q.hours = row[b].hours /\ q.play = row[b].play
  BY <1>1 DEF SnapshotsCurrent
<1>4. /\ row'[b].status # "NONE"
      /\ row'[b] = row[b] \/ row'[b].version > row[b].version
      /\ given'[b] >= given[b]
      /\ sold'[b] >= sold[b]
  BY <1>2, <1>3 DEF RowsAdvance
<1>5. CASE row'[b] = row[b]
  <2>1. q.hours <= given'[b] /\ q.play <= sold'[b]
    BY <1>2, <1>3, <1>4 DEF TypeOK, ExtendRequest
  <2> QED
    BY <1>1, <1>3, <1>4, <1>5, <2>1 DEF OpenSession
<1>6. CASE row'[b].version > row[b].version
  <2>1. q.expected < row'[b].version
    BY <1>2, <1>3, <1>6 DEF TypeOK, Row, ExtendRequest
  <2>2. q.hours <= given'[b] /\ q.play <= sold'[b]
    BY <1>2, <1>3, <1>4 DEF TypeOK, ExtendRequest
  <2>3. q.expected <= row'[b].version /\ q.expected # row'[b].version
    BY <1>2, <2>1 DEF TypeOK, Row, ExtendRequest
  <2> QED
    BY <1>1, <1>4, <2>2, <2>3
<1> QED
  BY <1>4, <1>5, <1>6

\* An UPDATE that leaves the hours, the amount and the period alone.
LEMMA StatusUpdateBounded ==
    ASSUME TypeOK, TypeOK', Bounded, NEW b \in Ids, NEW new \in Row, Update(b, new),
           new.lo = row[b].lo, new.hi = row[b].hi, new.hours = row[b].hours,
           new.play = row[b].play, Exists(b) => new.status # "NONE", NoNewExtension,
           UNCHANGED <<sold, given>>
    PROVE  Bounded'
<1> DEFINE stored == Bumped(b, new)
<1>1. /\ stored \in Row
      /\ stored.version = row[b].version + 1
      /\ stored.lo = row[b].lo /\ stored.hi = row[b].hi
      /\ stored.hours = row[b].hours /\ stored.play = row[b].play
      /\ stored.status = new.status
  BY DEF Bumped, Row, TypeOK
<1>2. row' = row \/ row' = [row EXCEPT ![b] = stored]
  BY DEF Update
<1>3. RowsAdvance
  BY <1>1, <1>2 DEF RowsAdvance, TypeOK, Row, Exists
<1>4. NeverOverbilled'
  BY <1>1, <1>2 DEF Bounded, NeverOverbilled, TypeOK
<1>5. \A c \in Ids : row'[c].status # "NONE" => row'[c].version >= 1
  BY <1>1, <1>2 DEF Bounded, Exists, TypeOK, Row
<1> QED
  BY <1>3, <1>4, <1>5, SnapshotsKept DEF Bounded, Exists

\* Bounded is inductive.
LEMMA BoundedStep ==
    ASSUME TypeOK, Bounded, [Next]_vars
    PROVE  Bounded'
<1>t. TypeOK'
  BY TypeStep
<1>1. CASE UNCHANGED <<row, sold, given>> /\ NoNewExtension
  <2>1. RowsAdvance
    BY <1>1 DEF RowsAdvance, TypeOK, Exists
  <2> QED
    BY <1>t, <1>1, <2>1, SnapshotsKept DEF Bounded, NeverOverbilled, Exists
<1>2. ASSUME NEW r \in Requests, NEW b \in Ids, CreateInsert(r, b)
      PROVE  Bounded'
  <2>1. req[r] \in BookingRequest
    BY <1>2, RequestKinds DEF CreateInsert
  <2>2. NoNewExtension
    BY <1>2 DEF CreateInsert, Finish, NoNewExtension, TypeOK, Idle
  <2>3. CASE SlotTaken(b, NewRow(req[r]))
    BY <1>2, <2>2, <2>3, <1>1 DEF CreateInsert
  <2>4. CASE ~SlotTaken(b, NewRow(req[r]))
    <3> DEFINE new == NewRow(req[r])
    <3>1. /\ new.hi - new.lo = req[r].hours
          /\ new.hours = req[r].hours /\ new.play = req[r].play
          /\ new.version = 1
          /\ req[r].hours \in Nat /\ req[r].play \in Nat
      BY <2>1 DEF NewRow, BookingRequest
    <3>2. /\ row' = [row EXCEPT ![b] = new]
          /\ sold' = [sold EXCEPT ![b] = req[r].play]
          /\ given' = [given EXCEPT ![b] = req[r].hours]
          /\ ~Exists(b)
      BY <1>2, <2>4 DEF CreateInsert
    <3>3. RowsAdvance
      BY <3>2 DEF RowsAdvance, TypeOK, Exists
    <3>4. NeverOverbilled'
      BY <3>1, <3>2 DEF Bounded, NeverOverbilled, TypeOK
    <3>5. \A c \in Ids : row'[c].status # "NONE" => row'[c].version >= 1
      BY <3>1, <3>2 DEF Bounded, Exists, TypeOK
    <3> QED
      BY <1>t, <2>2, <3>3, <3>4, <3>5, SnapshotsKept DEF Bounded, Exists
  <2> QED
    BY <2>3, <2>4
<1>3. ASSUME NEW r \in Requests, NEW b \in Ids, NEW extra \in 1 .. MaxExtend,
             NEW v \in VersionsSeen(b), ExtendRead(r, b, extra, v)
      PROVE  Bounded'
  <2> DEFINE new == [op |-> "extend", id |-> b, hours |-> row[b].hours,
                     play |-> row[b].play, extra |-> extra,
                     charge |-> Quote(row[b].station, extra), expected |-> v]
  <2>1. /\ UNCHANGED <<row, rate, sold, given>>
        /\ req' = [req EXCEPT ![r] = new]
        /\ OpenSession(b)
    BY <1>3 DEF ExtendRead
  <2>2. v <= row[b].version
    BY <2>1 DEF VersionsSeen, NoVersion, Bounded, Exists, OpenSession, TypeOK, Row
  <2>3. row[b].hours <= given[b] /\ row[b].play <= sold[b]
    BY DEF Bounded, NeverOverbilled
  <2>4. SnapshotsCurrent'
    BY <2>1, <2>2, <2>3 DEF SnapshotsCurrent, Bounded, Exists, OpenSession, TypeOK
  <2> QED
    BY <2>1, <2>4 DEF Bounded, NeverOverbilled, Exists
<1>4. ASSUME NEW r \in Requests,
             ConfirmWrite(r) \/ RejectWrite(r) \/ CancelWrite(r)
      PROVE  Bounded'
  <2> DEFINE b == req[r].id
  <2>1. b \in Ids
    BY <1>4, RequestKinds DEF ConfirmWrite, RejectWrite, CancelWrite, StatusRequest
  <2>2. NoNewExtension
    BY <1>4 DEF ConfirmWrite, RejectWrite, CancelWrite, Finish, NoNewExtension, TypeOK, Idle
  <2>3. /\ [row[b] EXCEPT !.status = "CONFIRMED"] \in Row
        /\ [row[b] EXCEPT !.status = "CANCELLED"] \in Row
    BY <2>1 DEF TypeOK, Row, Statuses
  <2>4. PICK st \in {"CONFIRMED", "CANCELLED"} : Update(b, [row[b] EXCEPT !.status = st])
    BY <1>4 DEF ConfirmWrite, RejectWrite, CancelWrite
  <2> DEFINE new == [row[b] EXCEPT !.status = st]
  <2>5. /\ new \in Row
        /\ new.lo = row[b].lo /\ new.hi = row[b].hi
        /\ new.hours = row[b].hours /\ new.play = row[b].play
        /\ new.status # "NONE"
    BY <2>1, <2>3 DEF TypeOK, Row
  <2>6. UNCHANGED <<sold, given>>
    BY <1>4 DEF ConfirmWrite, RejectWrite, CancelWrite
  <2> QED
    BY <1>t, <2>1, <2>2, <2>4, <2>5, <2>6, StatusUpdateBounded
<1>5. ASSUME NEW r \in Requests, CloseWrite(r)
      PROVE  Bounded'
  <2> DEFINE b == req[r].id
             new == [row[b] EXCEPT !.closed = TRUE]
  <2>1. b \in Ids
    BY <1>5, RequestKinds DEF CloseWrite, StatusRequest
  <2>2. NoNewExtension
    BY <1>5 DEF CloseWrite, Finish, NoNewExtension, TypeOK, Idle
  <2>3. /\ new \in Row
        /\ new.lo = row[b].lo /\ new.hi = row[b].hi
        /\ new.hours = row[b].hours /\ new.play = row[b].play
        /\ Exists(b) => new.status # "NONE"
    BY <2>1 DEF TypeOK, Row, Exists
  <2> QED
    BY <1>t, <1>5, <2>1, <2>2, <2>3, StatusUpdateBounded DEF CloseWrite
<1>6. ASSUME NEW r \in Requests, ExtendWrite(r)
      PROVE  Bounded'
  <2> DEFINE q == req[r]
             b == q.id
             new == Bumped(b, Extended(b, q))
  <2>1. q \in ExtendRequest /\ b \in Ids /\ q.op = "extend"
    BY <1>6, RequestKinds DEF ExtendWrite, ExtendRequest
  <2>2. NoNewExtension
    BY <1>6 DEF ExtendWrite, Finish, NoNewExtension, TypeOK, Idle
  <2>3. CASE ~(VersionMatches(q) /\ ~SlotTaken(b, Extended(b, q)))
    BY <1>6, <2>2, <2>3, <1>1 DEF ExtendWrite
  <2>4. CASE VersionMatches(q) /\ ~SlotTaken(b, Extended(b, q))
    <3>1. /\ row' = [row EXCEPT ![b] = new]
          /\ sold' = [sold EXCEPT ![b] = @ + q.charge]
          /\ given' = [given EXCEPT ![b] = @ + q.extra]
      BY <1>6, <2>4 DEF ExtendWrite
    <3>2. /\ new.status = row[b].status
          /\ new.lo = row[b].lo /\ new.hi = row[b].hi + q.extra
          /\ new.hours = q.hours + q.extra /\ new.play = q.play + q.charge
          /\ new.version = row[b].version + 1
      BY <2>1 DEF Bumped, Extended, TypeOK, Row
    <3>3. q.hours <= given[b] /\ q.play <= sold[b]
      BY <2>1 DEF Bounded, SnapshotsCurrent
    <3>4. /\ row[b].version \in Nat /\ given[b] \in Nat /\ sold[b] \in Nat
          /\ row[b].lo \in Nat /\ row[b].hi \in Nat
          /\ q.extra \in Nat /\ q.charge \in Nat /\ q.hours \in Nat /\ q.play \in Nat
      BY <2>1 DEF TypeOK, Row, ExtendRequest
    <3>5. RowsAdvance
      BY <2>1, <3>1, <3>2, <3>4 DEF RowsAdvance, TypeOK, Exists
    <3>6. /\ new.hi - new.lo = given[b] + q.extra
          /\ new.hours <= given[b] + q.extra
          /\ new.play <= sold[b] + q.charge
      BY <2>1, <3>2, <3>3, <3>4 DEF Bounded, NeverOverbilled
    <3>7. NeverOverbilled'
      BY <2>1, <3>1, <3>6 DEF Bounded, NeverOverbilled, TypeOK
    <3>8. \A c \in Ids : row'[c].status # "NONE" => row'[c].version >= 1
      BY <2>1, <3>1, <3>2, <3>4 DEF Bounded, Exists, TypeOK
    <3> QED
      BY <1>t, <2>2, <3>5, <3>7, <3>8, SnapshotsKept DEF Bounded, Exists
  <2> QED
    BY <2>3, <2>4
<1>7. ASSUME NEW b \in Ids, SideUpdate(b)
      PROVE  Bounded'
  <2>1. row[b] \in Row /\ NoNewExtension
    BY <1>7 DEF SideUpdate, TypeOK, NoNewExtension
  <2> QED
    BY <1>t, <1>7, <2>1, StatusUpdateBounded DEF SideUpdate, Exists
<1>8. CASE ExpireUnpaid
  <2> DEFINE gone(b) == Bumped(b, [row[b] EXCEPT !.status = "CANCELLED"])
  <2>1. \A b \in Ids : /\ gone(b).status = "CANCELLED"
                       /\ gone(b).version = row[b].version + 1
                       /\ gone(b).lo = row[b].lo /\ gone(b).hi = row[b].hi
                       /\ gone(b).hours = row[b].hours /\ gone(b).play = row[b].play
    BY DEF Bumped, TypeOK, Row
  <2>2. /\ \A b \in Ids : row'[b] = row[b] \/ row'[b] = gone(b)
        /\ UNCHANGED <<req, sold, given>>
    BY <1>8 DEF ExpireUnpaid
  <2>3. \A b \in Ids : row[b].version \in Nat /\ given[b] \in Nat /\ sold[b] \in Nat
    BY DEF TypeOK, Row
  <2>4. RowsAdvance
    <3> SUFFICES ASSUME NEW b \in Ids, Exists(b)
                 PROVE  /\ row'[b].status # "NONE"
                        /\ row'[b] = row[b] \/ row'[b].version > row[b].version
                        /\ given'[b] >= given[b]
                        /\ sold'[b] >= sold[b]
      BY DEF RowsAdvance
    <3>1. row'[b] = row[b] \/ row'[b].version > row[b].version
      <4>1. row[b].version + 1 > row[b].version
        BY <2>3
      <4> HIDE DEF gone
      <4> QED
        BY <4>1, <2>1, <2>2
    <3>2. row'[b].status # "NONE"
      BY <2>1, <2>2 DEF Exists
    <3>3. given'[b] >= given[b] /\ sold'[b] >= sold[b]
      BY <2>2, <2>3
    <3> QED
      BY <3>1, <3>2, <3>3
  <2>5. NeverOverbilled'
    BY <2>1, <2>2 DEF Bounded, NeverOverbilled
  <2>6. \A c \in Ids : row'[c].status # "NONE" => row'[c].version >= 1
    <3> SUFFICES ASSUME NEW c \in Ids, row'[c].status # "NONE"
                 PROVE  row'[c].version >= 1
      OBVIOUS
    <3>1. CASE row'[c] = row[c]
      BY <3>1 DEF Bounded, Exists
    <3>2. CASE row'[c] = gone(c)
      BY <2>1, <2>3, <3>2
    <3> QED
      BY <2>2, <3>1, <3>2
  <2> QED
    BY <1>t, <2>2, <2>4, <2>5, <2>6, SnapshotsKept DEF Bounded, Exists, NoNewExtension
<1>9. CASE /\ ~ \E r \in Requests, b \in Ids, extra \in 1 .. MaxExtend :
                 \E v \in VersionsSeen(b) : ExtendRead(r, b, extra, v)
           /\ UNCHANGED <<row, sold, given>>
  <2>1. NoNewExtension
    BY <1>9, OnlyExtendReadExtends
  <2> QED
    BY <1>1, <1>9, <2>1
<1> QED
  BY <1>2, <1>3, <1>4, <1>5, <1>6, <1>7, <1>8, <1>9
     DEF Next, RequestStep, CreateCustomerRead, CreateStaffRead, ConfirmRead, RejectRead,
         CancelRead, CloseRead, StatusRead, Abort, WindowElapses, SetRate, vars

LEMMA BoundedAlways == Spec => []Bounded
<1>1. Init => Bounded
  <2> SUFFICES ASSUME Init PROVE Bounded
    OBVIOUS
  <2>1. NeverOverbilled
    BY DEF Init, NeverOverbilled
  <2>2. SnapshotsCurrent
    BY DEF Init, SnapshotsCurrent, Idle
  <2>3. \A b \in Ids : Exists(b) => row[b].version >= 1
    BY DEF Init, Exists
  <2> QED
    BY <2>1, <2>2, <2>3 DEF Bounded
<1>2. TypeOK /\ Bounded /\ [Next]_vars => Bounded'
  BY BoundedStep
<1> QED
  BY <1>1, <1>2, TypeCorrect, PTL DEF Spec

\* A transaction about to extend holds either the current row or a version
\* that can never match again.
THEOREM SnapshotsStayCurrent == Spec => []SnapshotsCurrent
  BY BoundedAlways, PTL DEF Bounded

\* Concurrent extensions, with or without versions, never bill more than was
\* granted and never shorten a period.
THEOREM GuestNeverOverbilled == Spec => []NeverOverbilled
  BY BoundedAlways, PTL DEF Bounded

-----------------------------------------------------------------------------
\* With expected_version on every extension the table is exact.

\* Every open extension names a version.
Versioned == \A r \in Requests : req[r].op = "extend" => req[r].expected # NoVersion

LEMMA VersionedStep ==
    ASSUME TypeOK, Versioned, Unversioned = FALSE, [Next]_vars
    PROVE  Versioned'
<1>1. CASE NoNewExtension
  BY <1>1 DEF Versioned, NoNewExtension
<1>2. ASSUME NEW r \in Requests, NEW b \in Ids, NEW extra \in 1 .. MaxExtend,
             NEW v \in VersionsSeen(b), ExtendRead(r, b, extra, v)
      PROVE  Versioned'
  <2>1. v # NoVersion
    BY DEF VersionsSeen, NoVersion, TypeOK, Row
  <2> QED
    BY <1>2, <2>1 DEF ExtendRead, Versioned, TypeOK
<1>3. CASE \E r \in Requests, b \in Ids, extra \in 1 .. MaxExtend :
             \E v \in VersionsSeen(b) : ExtendRead(r, b, extra, v)
  BY <1>2, <1>3
<1> QED
  BY <1>1, <1>3, OnlyExtendReadExtends

\* The three things a step may do to the period and the bill of a booking.
Kept(b) ==
    /\ row'[b].lo = row[b].lo /\ row'[b].hi = row[b].hi
    /\ row'[b].hours = row[b].hours /\ row'[b].play = row[b].play
    /\ given'[b] = given[b] /\ sold'[b] = sold[b]

Created(b) ==
    /\ ~Exists(b)
    /\ row'[b].hi - row'[b].lo = given'[b]
    /\ row'[b].hours = given'[b] /\ row'[b].play = sold'[b]

Grown(b) ==
    /\ OpenSession(b)
    /\ \E extra, charge \in Nat :
         /\ row'[b].lo = row[b].lo /\ row'[b].hi = row[b].hi + extra
         /\ row'[b].hours = row[b].hours + extra /\ row'[b].play = row[b].play + charge
         /\ given'[b] = given[b] + extra /\ sold'[b] = sold[b] + charge

Change(b) == Kept(b) \/ Created(b) \/ Grown(b)

LEMMA StatusUpdateKeeps ==
    ASSUME TypeOK, NEW i \in Ids, NEW new \in Row, Update(i, new),
           UNCHANGED <<sold, given>>,
           new.lo = row[i].lo, new.hi = row[i].hi,
           new.hours = row[i].hours, new.play = row[i].play,
           NEW b \in Ids
    PROVE  Kept(b)
<1>1. /\ Bumped(i, new).lo = new.lo /\ Bumped(i, new).hi = new.hi
      /\ Bumped(i, new).hours = new.hours /\ Bumped(i, new).play = new.play
  BY DEF Bumped, Row
<1>2. row' = row \/ row' = [row EXCEPT ![i] = Bumped(i, new)]
  BY DEF Update
<1> QED
  BY <1>1, <1>2 DEF Kept, TypeOK

LEMMA RowChange ==
    ASSUME TypeOK, SnapshotsCurrent, Versioned, [Next]_vars, NEW b \in Ids
    PROVE  Change(b)
<1>1. CASE UNCHANGED <<row, sold, given>>
  BY <1>1 DEF Change, Kept
<1>2. ASSUME NEW r \in Requests, NEW i \in Ids, CreateInsert(r, i)
      PROVE  Change(b)
  <2>1. req[r] \in BookingRequest
    BY <1>2, RequestKinds DEF CreateInsert
  <2>2. /\ NewRow(req[r]).hi - NewRow(req[r]).lo = req[r].hours
        /\ NewRow(req[r]).hours = req[r].hours
        /\ NewRow(req[r]).play = req[r].play
    BY <2>1 DEF NewRow, BookingRequest
  <2> QED
    BY <1>1, <1>2, <2>2 DEF CreateInsert, Change, Kept, Created, TypeOK
<1>3. ASSUME NEW r \in Requests, NEW st \in {"CONFIRMED", "CANCELLED"}, req[r].id \in Ids,
             Update(req[r].id, [row[req[r].id] EXCEPT !.status = st]),
             UNCHANGED <<sold, given>>
      PROVE  Change(b)
  <2> DEFINE i == req[r].id
             new == [row[i] EXCEPT !.status = st]
  <2>1. /\ new \in Row
        /\ new.lo = row[i].lo /\ new.hi = row[i].hi
        /\ new.hours = row[i].hours /\ new.play = row[i].play
    BY <1>3 DEF TypeOK, Row, Statuses
  <2> QED
    BY <1>3, <2>1, StatusUpdateKeeps DEF Change
<1>4. ASSUME NEW r \in Requests, CloseWrite(r)
      PROVE  Change(b)
  <2> DEFINE i == req[r].id
             new == [row[i] EXCEPT !.closed = TRUE]
  <2>1. i \in Ids
    BY <1>4, RequestKinds DEF CloseWrite, StatusRequest
  <2>2. /\ new \in Row
        /\ new.lo = row[i].lo /\ new.hi = row[i].hi
        /\ new.hours = row[i].hours /\ new.play = row[i].play
    BY <2>1 DEF TypeOK, Row
  <2>3. Update(i, new) /\ UNCHANGED <<sold, given>>
    BY <1>4 DEF CloseWrite
  <2> QED
    BY <2>1, <2>2, <2>3, StatusUpdateKeeps DEF Change
<1>5. ASSUME NEW r \in Requests, ExtendWrite(r)
      PROVE  Change(b)
  <2> DEFINE q == req[r]
             i == q.id
             new == Bumped(i, Extended(i, q))
  <2>1. q \in ExtendRequest /\ q.op = "extend"
    BY <1>5, RequestKinds DEF ExtendWrite
  <2>2. i \in Ids /\ q.extra \in Nat /\ q.charge \in Nat
    BY <2>1 DEF ExtendRequest
  <2>3. CASE UNCHANGED <<row, sold, given>>
    BY <1>1, <2>3
  <2>4. CASE /\ VersionMatches(q)
             /\ row' = [row EXCEPT ![i] = new]
             /\ sold' = [sold EXCEPT ![i] = @ + q.charge]
             /\ given' = [given EXCEPT ![i] = @ + q.extra]
    <3>1. q.expected = row[i].version
      BY <2>1, <2>4 DEF VersionMatches, Versioned
    <3>2. OpenSession(i) /\ q.hours = row[i].hours /\ q.play = row[i].play
      BY <2>1, <3>1 DEF SnapshotsCurrent
    <3>3. /\ new.lo = row[i].lo /\ new.hi = row[i].hi + q.extra
          /\ new.hours = row[i].hours + q.extra /\ new.play = row[i].play + q.charge
      BY <2>2, <3>2 DEF Bumped, Extended, TypeOK, Row
    <3>4. CASE b = i
      <4>1. row'[b] = new /\ sold'[b] = sold[b] + q.charge /\ given'[b] = given[b] + q.extra
        BY <2>2, <2>4, <3>4 DEF TypeOK
      <4> HIDE DEF new
      <4> QED
        BY <2>2, <3>2, <3>3, <3>4, <4>1 DEF Change, Grown
    <3>5. CASE b # i
      BY <2>2, <2>4, <3>5 DEF Change, Kept, TypeOK
    <3> QED
      BY <3>4, <3>5
  <2> QED
    BY <1>5, <2>3, <2>4 DEF ExtendWrite
<1>6. ASSUME NEW i \in Ids, SideUpdate(i)
      PROVE  Change(b)
  <2>1. row[i] \in Row
    BY DEF TypeOK
  <2> QED
    BY <1>6, <2>1, StatusUpdateKeeps DEF SideUpdate, Change
<1>7. CASE ExpireUnpaid
  <2> DEFINE gone == Bumped(b, [row[b] EXCEPT !.status = "CANCELLED"])
  <2>1. /\ gone.lo = row[b].lo /\ gone.hi = row[b].hi
        /\ gone.hours = row[b].hours /\ gone.play = row[b].play
    BY DEF Bumped, TypeOK, Row
  <2>2. (row'[b] = row[b] \/ row'[b] = gone) /\ UNCHANGED <<sold, given>>
    BY <1>7 DEF ExpireUnpaid
  <2> HIDE DEF gone
  <2> QED
    BY <2>1, <2>2 DEF Change, Kept
<1>8. ASSUME NEW r \in Requests, ConfirmWrite(r) \/ RejectWrite(r) \/ CancelWrite(r)
      PROVE  Change(b)
  <2>1. req[r].id \in Ids
    BY <1>8, RequestKinds DEF ConfirmWrite, RejectWrite, CancelWrite, StatusRequest
  <2> QED
    BY <1>3, <1>8, <2>1 DEF ConfirmWrite, RejectWrite, CancelWrite
<1> QED
  BY <1>1, <1>2, <1>4, <1>5, <1>6, <1>7, <1>8
     DEF Next, RequestStep, CreateCustomerRead, CreateStaffRead, ConfirmRead, RejectRead,
         CancelRead, CloseRead, ExtendRead, StatusRead, Abort, WindowElapses, SetRate, vars

LEMMA ExactStep ==
    ASSUME TypeOK, SnapshotsCurrent, Versioned, NothingLost, [Next]_vars
    PROVE  NothingLost'
<1> SUFFICES ASSUME NEW b \in Ids
             PROVE  /\ row'[b].hi - row'[b].lo = given'[b]
                    /\ row'[b].hours = given'[b]
                    /\ row'[b].play = sold'[b]
  BY DEF NothingLost
<1>1. /\ row[b].hi \in Nat /\ row[b].lo \in Nat /\ given[b] \in Nat /\ sold[b] \in Nat
      /\ row[b].hi - row[b].lo = given[b]
      /\ row[b].hours = given[b] /\ row[b].play = sold[b]
  BY DEF NothingLost, TypeOK, Row
<1>2. CASE Kept(b)
  BY <1>1, <1>2 DEF Kept
<1>3. CASE Created(b)
  BY <1>3 DEF Created
<1>4. CASE Grown(b)
  BY <1>1, <1>4 DEF Grown
<1> QED
  BY <1>2, <1>3, <1>4, RowChange DEF Change

LEMMA VersionedAlways ==
    ASSUME Unversioned = FALSE
    PROVE  Spec => []Versioned
<1>1. Init => Versioned
  BY DEF Init, Versioned, Idle
<1>2. TypeOK /\ Versioned /\ [Next]_vars => Versioned'
  BY VersionedStep
<1> QED
  BY <1>1, <1>2, TypeCorrect, PTL DEF Spec

\* If every client sends expected_version, no extension is lost: period, hours
\* and amount of every booking equal the sum of what was granted.
THEOREM VersionsPreventLostUpdates ==
    ASSUME Unversioned = FALSE
    PROVE  Spec => []NothingLost
<1>1. Init => NothingLost
  BY DEF Init, NothingLost
<1>2. TypeOK /\ SnapshotsCurrent /\ Versioned /\ NothingLost /\ [Next]_vars => NothingLost'
  BY ExactStep
<1> QED
  BY <1>1, <1>2, TypeCorrect, SnapshotsStayCurrent, VersionedAlways, PTL DEF Spec

\* If every client sends expected_version, no session is extended after it was
\* cancelled or its bill was closed.
THEOREM VersionsExtendOnlyOpen ==
    ASSUME Unversioned = FALSE
    PROVE  Spec => ExtendOnlyOpen
<1>1. TypeOK /\ SnapshotsCurrent /\ Versioned /\ [Next]_vars
        => [\A b \in Ids : Exists(b) /\ row'[b].hi # row[b].hi => OpenSession(b)]_vars
  BY RowChange DEF Change, Kept, Created, Grown
<1> QED
  BY <1>1, TypeCorrect, SnapshotsStayCurrent, VersionedAlways, PTL DEF Spec, ExtendOnlyOpen

-----------------------------------------------------------------------------
\* What a step may do to the rows, and what it may put in the hands of a transaction.

\* The UPDATE of row b went through.
Updated(b, new) ==
    /\ ~SlotTaken(b, new)
    /\ row' = [row EXCEPT ![b] = Bumped(b, new)]

Inserted(r, b) ==
    /\ req[r].op \in {"customer", "staff"}
    /\ ~Exists(b)
    /\ ~SlotTaken(b, NewRow(req[r]))
    /\ row' = [row EXCEPT ![b] = NewRow(req[r])]

\* Transaction r wrote the row it had read.
Written(r) ==
    LET b == req[r].id
    IN  \/ req[r].op = "confirm" /\ Updated(b, [row[b] EXCEPT !.status = "CONFIRMED"])
        \/ req[r].op \in {"reject", "cancel"} /\ Updated(b, [row[b] EXCEPT !.status = "CANCELLED"])
        \/ req[r].op = "close" /\ Updated(b, [row[b] EXCEPT !.closed = TRUE])
        \/ req[r].op = "extend" /\ Updated(b, Extended(b, req[r]))

LEMMA Writes ==
    ASSUME TypeOK, [Next]_vars
    PROVE  \/ row' = row
           \/ \E r \in Requests, b \in Ids : Inserted(r, b)
           \/ \E r \in Requests : Written(r)
           \/ \E b \in Ids : Exists(b) /\ Updated(b, row[b])
           \/ ExpireUnpaid
<1>1. ASSUME NEW r \in Requests, NEW b \in Ids, CreateInsert(r, b)
      PROVE  row' = row \/ Inserted(r, b)
  BY <1>1 DEF CreateInsert, Inserted
<1>2. ASSUME NEW r \in Requests,
             \/ ConfirmWrite(r) \/ RejectWrite(r) \/ CancelWrite(r) \/ CloseWrite(r)
             \/ ExtendWrite(r)
      PROVE  row' = row \/ Written(r)
  BY <1>2 DEF ConfirmWrite, RejectWrite, CancelWrite, CloseWrite, ExtendWrite, Update,
     Updated, Written
<1>3. ASSUME NEW b \in Ids, SideUpdate(b)
      PROVE  row' = row \/ (Exists(b) /\ Updated(b, row[b]))
  BY <1>3 DEF SideUpdate, Update, Updated
<1> QED
  BY <1>1, <1>2, <1>3
     DEF Next, RequestStep, CreateCustomerRead, CreateStaffRead, ConfirmRead, RejectRead,
         CancelRead, CloseRead, ExtendRead, StatusRead, Abort, WindowElapses, SetRate, vars

\* A transaction that reads leaves the rows as they are and takes what its guard saw.
Asked(q) ==
    /\ row' = row
    /\ \/ q.op \in {"customer", "staff"} /\ q.hours <= MaxHours
       \/ q.op \in {"confirm", "reject"} /\ Undecided(q.id)
       \/ q.op \in {"cancel", "close"} /\ OpenSession(q.id)
       \/ q.op = "extend" /\ OpenSession(q.id) /\ q.hours + q.extra <= MaxTotal

LEMMA Asks ==
    ASSUME TypeOK, [Next]_vars, NEW r \in Requests
    PROVE  req'[r] \in {req[r], Idle} \/ Asked(req'[r])
<1> USE ConstantsAssumption
<1>1. ASSUME NEW p \in Requests, NEW s \in Stations, NEW lo \in 0 .. Horizon,
             NEW h \in MinHours .. MaxHours,
             CreateCustomerRead(p, s, lo, h) \/ CreateStaffRead(p, s, lo, h)
      PROVE  req'[r] \in {req[r], Idle} \/ Asked(req'[r])
  <2>1. PICK op \in {"customer", "staff"} :
          req' = [req EXCEPT ![p] = [op |-> op, station |-> s, lo |-> lo,
                                     hours |-> h, play |-> Quote(s, h)]]
    BY <1>1 DEF CreateCustomerRead, CreateStaffRead
  <2>2. row' = row
    BY <1>1 DEF CreateCustomerRead, CreateStaffRead
  <2> QED BY <2>1, <2>2 DEF TypeOK, Asked
<1>2. ASSUME NEW p \in Requests, NEW b \in Ids,
             \/ ConfirmRead(p, b) \/ RejectRead(p, b)
             \/ CancelRead(p, b) \/ CloseRead(p, b)
      PROVE  req'[r] \in {req[r], Idle} \/ Asked(req'[r])
  BY <1>2 DEF ConfirmRead, RejectRead, CancelRead, CloseRead, StatusRead, TypeOK, Asked
<1>3. ASSUME NEW p \in Requests, NEW b \in Ids, NEW extra \in 1 .. MaxExtend,
             NEW v \in VersionsSeen(b), ExtendRead(p, b, extra, v)
      PROVE  req'[r] \in {req[r], Idle} \/ Asked(req'[r])
  <2> DEFINE q == [op |-> "extend", id |-> b, hours |-> row[b].hours,
                   play |-> row[b].play, extra |-> extra,
                   charge |-> Quote(row[b].station, extra), expected |-> v]
  <2>1. req' = [req EXCEPT ![p] = q] /\ row' = row
    BY <1>3 DEF ExtendRead
  <2>2. Asked(q)
    BY <1>3, <2>1 DEF ExtendRead, WithinTotal, Asked
  <2> QED BY <2>1, <2>2 DEF TypeOK
<1>4. CASE \/ req' = req
           \/ \E p \in Requests : Finish(p)
  BY <1>4 DEF Finish, TypeOK
<1>5. \A p \in Requests :
        RequestStep(p) =>
          \/ req' = req \/ Finish(p)
          \/ \E s \in Stations, lo \in 0 .. Horizon, h \in MinHours .. MaxHours :
                CreateCustomerRead(p, s, lo, h) \/ CreateStaffRead(p, s, lo, h)
          \/ \E b \in Ids :
                \/ ConfirmRead(p, b) \/ RejectRead(p, b) \/ CancelRead(p, b) \/ CloseRead(p, b)
                \/ \E extra \in 1 .. MaxExtend, v \in VersionsSeen(b) : ExtendRead(p, b, extra, v)
  BY DEF RequestStep, CreateInsert, ConfirmWrite, RejectWrite, CancelWrite, CloseWrite,
     ExtendWrite, Abort
<1>6. (\E p \in Requests : RequestStep(p)) \/ req' = req
  BY DEF Next, SideUpdate, WindowElapses, ExpireUnpaid, SetRate, vars
<1> QED BY <1>1, <1>2, <1>3, <1>4, <1>5, <1>6

-----------------------------------------------------------------------------
\* The hours on a bill stay within the limit whoever reads what when: bookings_hours_range_ck
\* never fires.
Limited ==
    /\ \A b \in Ids : row[b].hours <= MaxTotal
    /\ \A r \in Requests : req[r].op \in {"customer", "staff"} => req[r].hours <= MaxHours
    /\ \A r \in Requests : req[r].op = "extend" => req[r].hours + req[r].extra <= MaxTotal

\* A write of one row, as the status and the hours of all rows see it
LEMMA OneRow ==
    ASSUME TypeOK, NEW b \in Ids, NEW new \in Row, Updated(b, new)
    PROVE  /\ row'[b].status = new.status /\ row'[b].closed = new.closed
           /\ row'[b].hours = new.hours /\ row'[b].station = new.station
           /\ row'[b].lo = new.lo /\ row'[b].hi = new.hi /\ row'[b].play = new.play
           /\ row'[b].version = row[b].version + 1
           /\ \A c \in Ids \ {b} : row'[c] = row[c]
BY DEF Updated, Bumped, TypeOK, Row

\* What transactions write, of which row
LEMMA WrittenRow ==
    ASSUME TypeOK, NEW r \in Requests, Written(r)
    PROVE  /\ req[r].id \in Ids
           /\ [row[req[r].id] EXCEPT !.status = "CONFIRMED"] \in Row
           /\ [row[req[r].id] EXCEPT !.status = "CANCELLED"] \in Row
           /\ [row[req[r].id] EXCEPT !.closed = TRUE] \in Row
           /\ req[r].op = "extend" => Extended(req[r].id, req[r]) \in Row
<1>1. req[r].id \in Ids
  BY RequestKinds DEF Written, StatusRequest, ExtendRequest
<1>2. /\ [row[req[r].id] EXCEPT !.status = "CONFIRMED"] \in Row
      /\ [row[req[r].id] EXCEPT !.status = "CANCELLED"] \in Row
      /\ [row[req[r].id] EXCEPT !.closed = TRUE] \in Row
  BY <1>1 DEF TypeOK, Row, Statuses
<1>3. req[r].op = "extend" => Extended(req[r].id, req[r]) \in Row
  BY <1>1, RequestKinds, ExtendedType DEF TypeOK
<1> QED BY <1>1, <1>2, <1>3

\* The new row of an INSERT
LEMMA InsertedRow ==
    ASSUME TypeOK, NEW r \in Requests, NEW b \in Ids, Inserted(r, b)
    PROVE  /\ NewRow(req[r]) \in Row
           /\ row'[b] = NewRow(req[r])
           /\ \A c \in Ids \ {b} : row'[c] = row[c]
           /\ row'[b].status \in {"PENDING", "CONFIRMED"} /\ ~row'[b].closed
           /\ row'[b].hours = req[r].hours /\ req[r].hours \in Nat
<1>1. req[r] \in BookingRequest
  BY RequestKinds DEF Inserted
<1>2. NewRow(req[r]) \in Row
  BY <1>1 DEF NewRow, Row, BookingRequest, Statuses
<1>3. row'[b] = NewRow(req[r]) /\ \A c \in Ids \ {b} : row'[c] = row[c]
  BY <1>2 DEF Inserted, TypeOK
<1>4. /\ NewRow(req[r]).status \in {"PENDING", "CONFIRMED"} /\ ~NewRow(req[r]).closed
      /\ NewRow(req[r]).hours = req[r].hours /\ req[r].hours \in Nat
  BY <1>1 DEF NewRow, BookingRequest
<1> QED BY <1>2, <1>3, <1>4

\* What the sweep leaves of a row
LEMMA ExpiredRow ==
    ASSUME TypeOK, ExpireUnpaid, NEW b \in Ids
    PROVE  \/ row'[b] = row[b]
           \/ /\ row[b].status = "PENDING" /\ row'[b].status = "CANCELLED"
              /\ row'[b].closed = row[b].closed /\ row'[b].hours = row[b].hours
              /\ row'[b].station = row[b].station
<1> DEFINE gone == Bumped(b, [row[b] EXCEPT !.status = "CANCELLED"])
<1>1. row'[b] = row[b] \/ (row[b].status = "PENDING" /\ row'[b] = gone)
  BY DEF ExpireUnpaid, Unpaid
<1>2. /\ gone.status = "CANCELLED" /\ gone.closed = row[b].closed
      /\ gone.hours = row[b].hours /\ gone.station = row[b].station
  BY DEF Bumped, TypeOK, Row
<1> HIDE DEF gone
<1> QED BY <1>1, <1>2

LEMMA LimitedStep ==
    ASSUME TypeOK, Limited, [Next]_vars
    PROVE  Limited'
<1>1. ASSUME NEW r \in Requests
      PROVE  /\ req'[r].op \in {"customer", "staff"} => req'[r].hours <= MaxHours
             /\ req'[r].op = "extend" => req'[r].hours + req'[r].extra <= MaxTotal
  <2>1. CASE req'[r] = req[r]
    BY <2>1 DEF Limited
  <2>2. CASE req'[r] = Idle
    BY <2>2 DEF Idle
  <2>3. CASE Asked(req'[r])
    BY <2>3 DEF Asked
  <2> QED BY <2>1, <2>2, <2>3, Asks
<1>2. ASSUME NEW b \in Ids
      PROVE  row'[b].hours <= MaxTotal
  <2>1. CASE row' = row
    BY <2>1 DEF Limited
  <2>2. ASSUME NEW r \in Requests, NEW c \in Ids, Inserted(r, c)
        PROVE  row'[b].hours <= MaxTotal
    <3>1. req[r].hours <= MaxHours
      BY <2>2 DEF Limited, Inserted
    <3> QED
      BY <2>2, <3>1, InsertedRow, ConstantsAssumption DEF Limited
  <2>3. ASSUME NEW r \in Requests, Written(r)
        PROVE  row'[b].hours <= MaxTotal
    <3> DEFINE i == req[r].id
    <3>1. i \in Ids /\ row[i] \in Row
      BY <2>3, WrittenRow DEF TypeOK
    <3>2. PICK new \in Row : Updated(i, new) /\ new.hours <= MaxTotal
      <4>1. CASE req[r].op = "extend"
        <5>1. Extended(i, req[r]) \in Row /\ Updated(i, Extended(i, req[r]))
          BY <2>3, <4>1, WrittenRow DEF Written
        <5>2. Extended(i, req[r]).hours = req[r].hours + req[r].extra
          BY <3>1 DEF Extended, Row
        <5> QED BY <4>1, <5>1, <5>2 DEF Limited
      <4>2. CASE req[r].op # "extend"
        <5>1. /\ [row[i] EXCEPT !.status = "CONFIRMED"].hours = row[i].hours
              /\ [row[i] EXCEPT !.status = "CANCELLED"].hours = row[i].hours
              /\ [row[i] EXCEPT !.closed = TRUE].hours = row[i].hours
          BY <3>1 DEF Row
        <5> QED BY <2>3, <3>1, <4>2, <5>1, WrittenRow DEF Written, Limited
      <4> QED BY <4>1, <4>2
    <3> QED BY <3>1, <3>2, OneRow DEF Limited
  <2>4. ASSUME NEW c \in Ids, Updated(c, row[c])
        PROVE  row'[b].hours <= MaxTotal
    <3>1. row[c] \in Row
      BY DEF TypeOK
    <3> QED BY <2>4, <3>1, OneRow DEF Limited
  <2>5. CASE ExpireUnpaid
    BY <2>5, ExpiredRow DEF Limited
  <2> QED BY <2>1, <2>2, <2>3, <2>4, <2>5, Writes
<1> QED BY <1>1, <1>2 DEF Limited

LEMMA LimitedAlways == Spec => []Limited
<1>1. Init => Limited
  BY ConstantsAssumption DEF Init, Limited, Idle
<1>2. TypeOK /\ Limited /\ [Next]_vars => Limited'
  BY LimitedStep
<1> QED BY <1>1, <1>2, TypeCorrect, PTL DEF Spec

\* If every client sends expected_version, no session gets longer than MAX_TOTAL_HOURS: the
\* check of extend_booking is made of a snapshot, but the UPDATE is of that very version.
THEOREM VersionsLimitSessions ==
    ASSUME Unversioned = FALSE
    PROVE  Spec => []SessionWithinLimit
<1>1. NothingLost /\ Limited => SessionWithinLimit
  BY DEF NothingLost, Limited, SessionWithinLimit
<1> QED BY <1>1, VersionsPreventLostUpdates, LimitedAlways, PTL

-----------------------------------------------------------------------------
\* The table behaves as the calendar of module Calendar.

Hours == 0 .. Horizon

\* Who the calendar shows at station s in hour t
Cell(s, t) == IF HolderOf(s, t) = {} THEN Nobody ELSE CHOOSE b \in HolderOf(s, t) : TRUE

Holder == [s \in Stations |-> [t \in Hours |-> Cell(s, t)]]

\* The exclusion constraint leaves one booking at most per cell, which the calendar shows.
LEMMA OneHolder ==
    ASSUME TypeOK, NoOverlap, NEW s \in Stations, NEW t \in Hours, NEW b \in HolderOf(s, t)
    PROVE  HolderOf(s, t) = {b} /\ Cell(s, t) = b
<1>1. \A c \in HolderOf(s, t) : c = b
  <2> SUFFICES ASSUME NEW c \in HolderOf(s, t), c # b PROVE FALSE
    OBVIOUS
  <2>1. /\ b \in Ids /\ c \in Ids /\ row[b] \in Row /\ row[c] \in Row
        /\ Active(row[b].status) /\ Active(row[c].status)
        /\ row[b].station = s /\ row[c].station = s
        /\ t \in row[b].lo .. (row[b].hi - 1) /\ t \in row[c].lo .. (row[c].hi - 1)
    BY DEF HolderOf, TypeOK
  <2>2. row[b].lo < row[c].hi /\ row[c].lo < row[b].hi
    BY <2>1 DEF Row
  <2> QED BY <2>1, <2>2 DEF NoOverlap, Clash
<1>2. HolderOf(s, t) = {b}
  BY <1>1
<1> QED BY <1>2 DEF Cell

\* The calendar shows who holds a cell, in this state and in the next.
Shown ==
    \A s \in Stations, t \in Hours :
        /\ \A b \in HolderOf(s, t) : HolderOf(s, t) = {b} /\ Cell(s, t) = b
        /\ HolderOf(s, t) = {} => Cell(s, t) = Nobody

LEMMA ShownAlways == TypeOK /\ NoOverlap => Shown
BY OneHolder DEF Shown, Cell

\* The two actions of the calendar, in terms of the cells
LEMMA TakesCells ==
    ASSUME NEW b, NEW s \in Stations, NEW W,
           \A t \in W : t \in Hours /\ Cell(s, t) = Nobody,
           \A z \in Stations, t \in Hours :
              Cell(z, t)' = IF z = s /\ t \in W THEN b ELSE Cell(z, t)
    PROVE  Cal!Take(b, s, W)
<1>1. \A t \in W : Holder[s][t] = Nobody
  BY DEF Holder
<1>2. Holder' = [Holder EXCEPT ![s] = [t \in Hours |-> IF t \in W THEN b ELSE @[t]]]
  BY DEF Holder
<1> QED BY <1>1, <1>2 DEF Cal!Take, Holder, Cell, Hours

LEMMA ReleasesCells ==
    ASSUME NEW B,
           \A z \in Stations, t \in Hours :
              Cell(z, t)' = IF Cell(z, t) \in B THEN Nobody ELSE Cell(z, t)
    PROVE  Cal!Release(B)
<1>1. Holder' = [s \in Stations |->
                   [t \in Hours |-> IF Holder[s][t] \in B THEN Nobody ELSE Holder[s][t]]]
  BY DEF Holder
<1> QED BY <1>1 DEF Cal!Release, Holder, Cell, Hours

\* A booking gets cells that nobody holds and keeps those it has.
LEMMA GrowStep ==
    ASSUME Shown, Shown', NEW b \in Ids,
           \A c \in Ids \ {b} : row'[c] = row[c],
           row \in [Ids -> Row], row' \in [Ids -> Row],
           Active(row[b].status) =>
              /\ Active(row'[b].status) /\ row'[b].station = row[b].station
              /\ row'[b].lo = row[b].lo /\ row[b].hi <= row'[b].hi
    PROVE  Cal!Next
<1>1. PICK s \in Stations : s = row'[b].station
  BY DEF Row
<1>2. \A z \in Stations, t \in Hours, c \in Ids \ {b} :
        c \in HolderOf(z, t)' <=> c \in HolderOf(z, t)
  BY DEF HolderOf
<1>3. \A z \in Stations, t \in Hours :
        /\ b \in HolderOf(z, t) => b \in HolderOf(z, t)'
        /\ b \in HolderOf(z, t)' /\ z # s => b \in HolderOf(z, t)
  BY <1>1 DEF HolderOf, Row
<1>4. \A z \in Stations, t \in Hours : HolderOf(z, t) \subseteq Ids /\ HolderOf(z, t)' \subseteq Ids
  BY DEF HolderOf
<1>5. PICK W \in SUBSET Hours :
        \A t \in Hours : t \in W <=> b \in HolderOf(s, t)' /\ b \notin HolderOf(s, t)
  <2> DEFINE G(t) == b \in HolderOf(s, t)' /\ b \notin HolderOf(s, t)
  <2>1. {t \in Hours : G(t)} \in SUBSET Hours
    OBVIOUS
  <2> QED BY <2>1
<1>6. \A t \in W : t \in Hours /\ Cell(s, t) = Nobody
  <2> SUFFICES ASSUME NEW t \in W PROVE t \in Hours /\ HolderOf(s, t) = {}
    BY <1>1 DEF Shown
  <2>1. t \in Hours /\ b \in HolderOf(s, t)' /\ b \notin HolderOf(s, t)
    BY <1>5
  <2>2. HolderOf(s, t)' = {b}
    BY <1>1, <2>1 DEF Shown
  <2> QED BY <1>1, <1>2, <1>4, <2>1, <2>2
<1>7. \A z \in Stations, t \in Hours :
        Cell(z, t)' = IF z = s /\ t \in W THEN b ELSE Cell(z, t)
  <2> SUFFICES ASSUME NEW z \in Stations, NEW t \in Hours
               PROVE  Cell(z, t)' = IF z = s /\ t \in W THEN b ELSE Cell(z, t)
    OBVIOUS
  <2>1. CASE z = s /\ t \in W
    BY <1>5, <2>1 DEF Shown
  <2>2. CASE ~(z = s /\ t \in W)
    <3>1. b \in HolderOf(z, t)' <=> b \in HolderOf(z, t)
      BY <1>3, <1>5, <2>2
    <3>2. HolderOf(z, t)' = HolderOf(z, t)
      BY <1>2, <1>4, <3>1
    <3>3. CASE HolderOf(z, t) = {}
      BY <2>2, <3>2, <3>3 DEF Shown
    <3>4. ASSUME NEW c \in HolderOf(z, t) PROVE Cell(z, t)' = c /\ Cell(z, t) = c
      BY <3>2, <3>4 DEF Shown
    <3> QED BY <2>2, <3>3, <3>4
  <2> QED BY <2>1, <2>2
<1>8. Cal!Take(b, s, W)
  BY <1>1, <1>6, <1>7, TakesCells
<1> QED BY <1>5, <1>8 DEF Cal!Next, Hours

\* An UPDATE that leaves the booking its hours, or adds some
LEMMA KeepsCells ==
    ASSUME TypeOK, TypeOK', Shown, Shown', NEW b \in Ids, NEW new \in Row, Updated(b, new),
           new.station = row[b].station, new.lo = row[b].lo, row[b].hi <= new.hi,
           new.status \in {row[b].status, "CONFIRMED"}
    PROVE  Cal!Next
<1>1. /\ row'[b].station = row[b].station /\ row'[b].lo = row[b].lo
      /\ row[b].hi <= row'[b].hi
      /\ Active(row[b].status) => Active(row'[b].status)
      /\ \A c \in Ids \ {b} : row'[c] = row[c]
  BY OneRow DEF Active
<1> QED BY <1>1, GrowStep DEF TypeOK

\* Bookings let go of all their cells.
LEMMA FreeStep ==
    ASSUME Shown, Shown', NEW B \in SUBSET Ids,
           \A c \in Ids \ B : row'[c] = row[c],
           \A c \in B : ~Active(row'[c].status)
    PROVE  Cal!Next
<1>1. \A z \in Stations, t \in Hours :
        HolderOf(z, t)' = HolderOf(z, t) \ B
  BY DEF HolderOf
<1>2. \A z \in Stations, t \in Hours :
        Cell(z, t)' = IF Cell(z, t) \in B THEN Nobody ELSE Cell(z, t)
  <2> SUFFICES ASSUME NEW z \in Stations, NEW t \in Hours
               PROVE  Cell(z, t)' = IF Cell(z, t) \in B THEN Nobody ELSE Cell(z, t)
    OBVIOUS
  <2>1. CASE HolderOf(z, t) = {}
    BY <1>1, <2>1 DEF Shown
  <2>2. ASSUME NEW c \in HolderOf(z, t)
        PROVE  Cell(z, t)' = IF Cell(z, t) \in B THEN Nobody ELSE Cell(z, t)
    <3>1. HolderOf(z, t) = {c} /\ Cell(z, t) = c
      BY DEF Shown
    <3>2. CASE c \in B
      BY <1>1, <3>1, <3>2 DEF Shown
    <3>3. CASE c \notin B
      BY <1>1, <3>1, <3>3 DEF Shown
    <3> QED BY <3>2, <3>3
  <2> QED BY <2>1, <2>2
<1>3. Cal!Release(B)
  BY <1>2, ReleasesCells
<1> QED BY <1>3 DEF Cal!Next

\* A step of the table is a step of the calendar or leaves it as it is.
LEMMA CalendarStep ==
    ASSUME TypeOK, TypeOK', Shown, Shown', [Next]_vars
    PROVE  Cal!Next \/ row' = row
<1> USE DEF TypeOK
<1>1. ASSUME NEW r \in Requests, NEW b \in Ids, Inserted(r, b)
      PROVE  Cal!Next
  <2>1. ~Active(row[b].status)
    BY <1>1 DEF Inserted, Exists, Active
  <2> QED BY <1>1, <2>1, InsertedRow, GrowStep
<1>2. ASSUME NEW r \in Requests, Written(r)
      PROVE  Cal!Next
  <2> DEFINE i == req[r].id
  <2>1. i \in Ids /\ row[i] \in Row
    BY <1>2, WrittenRow
  <2> HIDE DEF i
  <2>2. CASE req[r].op \in {"reject", "cancel"}
    <3> DEFINE new == [row[i] EXCEPT !.status = "CANCELLED"]
    <3>1. new \in Row /\ new.status = "CANCELLED"
      BY <2>1 DEF Row, Statuses
    <3>2. Updated(i, new)
      BY <1>2, <2>2 DEF Written, i
    <3> HIDE DEF new
    <3>3. row'[i].status = "CANCELLED" /\ \A c \in Ids \ {i} : row'[c] = row[c]
      BY <2>1, <3>1, <3>2, OneRow
    <3>4. {i} \in SUBSET Ids /\ \A c \in {i} : ~Active(row'[c].status)
      BY <2>1, <3>3 DEF Active
    <3> QED BY <3>3, <3>4, FreeStep
  <2>3. CASE req[r].op = "confirm"
    <3> DEFINE new == [row[i] EXCEPT !.status = "CONFIRMED"]
    <3>1. /\ new \in Row /\ new.status = "CONFIRMED" /\ new.station = row[i].station
          /\ new.lo = row[i].lo /\ row[i].hi <= new.hi
      BY <2>1 DEF Row, Statuses
    <3>2. Updated(i, new)
      BY <1>2, <2>3 DEF Written, i
    <3> HIDE DEF new
    <3> QED BY <2>1, <3>1, <3>2, KeepsCells
  <2>4. CASE req[r].op = "close"
    <3> DEFINE new == [row[i] EXCEPT !.closed = TRUE]
    <3>1. /\ new.status = row[i].status /\ new.station = row[i].station
          /\ new.lo = row[i].lo /\ row[i].hi <= new.hi
      BY <2>1 DEF Row
    <3>2. new \in Row
      BY <1>2, WrittenRow DEF i
    <3>3. Updated(i, new)
      BY <1>2, <2>4 DEF Written, i
    <3> HIDE DEF new
    <3> QED BY <2>1, <3>1, <3>2, <3>3, KeepsCells
  <2>5. CASE req[r].op = "extend"
    <3> DEFINE new == Extended(i, req[r])
    <3>1. req[r].extra \in Nat
      BY <2>5, RequestKinds DEF ExtendRequest
    <3>2. new \in Row
      BY <1>2, <2>5, WrittenRow DEF i
    <3>3. /\ new.status = row[i].status /\ new.station = row[i].station
          /\ new.lo = row[i].lo /\ row[i].hi <= new.hi
      BY <2>1, <3>1 DEF Extended, Row
    <3>4. Updated(i, new)
      BY <1>2, <2>5 DEF Written, i
    <3> HIDE DEF new
    <3> QED BY <2>1, <3>2, <3>3, <3>4, KeepsCells
  <2> QED BY <1>2, <2>2, <2>3, <2>4, <2>5 DEF Written
<1>3. ASSUME NEW b \in Ids, Updated(b, row[b])
      PROVE  Cal!Next
  <2>1. row[b] \in Row /\ row[b].hi <= row[b].hi
    BY DEF Row
  <2> QED BY <1>3, <2>1, KeepsCells
<1>4. CASE ExpireUnpaid
  <2>1. /\ Unpaid \in SUBSET Ids
        /\ \A c \in Ids \ Unpaid : row'[c] = row[c]
    BY <1>4 DEF ExpireUnpaid, Unpaid
  <2>2. ASSUME NEW c \in Unpaid PROVE ~Active(row'[c].status)
    <3>1. c \in Ids /\ row[c] \in Row
      BY DEF Unpaid
    <3>2. row'[c] = Bumped(c, [row[c] EXCEPT !.status = "CANCELLED"])
      BY <1>4, <3>1 DEF ExpireUnpaid
    <3>3. row'[c].status = "CANCELLED"
      BY <3>1, <3>2 DEF Bumped, Row
    <3> QED BY <3>3 DEF Active
  <2> QED BY <2>1, <2>2, FreeStep
<1> QED BY <1>1, <1>2, <1>3, <1>4, Writes

\* The rows of bookings, read as a calendar, behave as one: hours of a station are taken
\* from nobody, by one booking at a time, and never pass from one booking to another.
THEOREM TableIsCalendar == Spec => ImplementsCalendar
<1>1. Init => Cal!Init
  <2> SUFFICES ASSUME Init PROVE Cal!Init
    OBVIOUS
  <2>1. \A s \in Stations, t \in Hours : HolderOf(s, t) = {}
    BY DEF Init, HolderOf, Active
  <2>2. Holder = [s \in Stations |-> [t \in Hours |-> Nobody]]
    BY <2>1 DEF Holder, Cell
  <2> QED BY <2>2 DEF Cal!Init, Cal!Empty, Holder, Cell, Hours
<1>2. (TypeOK /\ NoOverlap => Shown) /\ (TypeOK /\ NoOverlap => Shown)'
  BY ShownAlways, PTL
<1>3. TypeOK /\ NoOverlap /\ TypeOK' /\ NoOverlap' /\ [Next]_vars => [Cal!Next]_Holder
  <2> SUFFICES ASSUME TypeOK, NoOverlap, TypeOK', NoOverlap', [Next]_vars
               PROVE  Cal!Next \/ Holder' = Holder
    OBVIOUS
  <2>1. Shown /\ Shown'
    BY <1>2
  <2>2. row' = row => Holder' = Holder
    BY DEF Holder, Cell, HolderOf
  <2> QED BY <2>1, <2>2, CalendarStep
<1>4. Cal!Spec <=> Cal!Init /\ [][Cal!Next]_Holder
  BY DEF Cal!Spec, Holder, Cell, Hours
<1> QED
  BY <1>1, <1>3, <1>4, TypeCorrect, NeverDoubleBooked, PTL DEF Spec, ImplementsCalendar

=============================================================================
