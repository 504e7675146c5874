# PlayBron: a verification project

PlayBron is the back office of PlayStation clubs.  Guests book a station from a
Telegram mini app, staff run sessions, the bar and the till, a worker cleans up
and notifies, and the owner reads the accounts.  The backend is one FastAPI
application on PostgreSQL (`src/api`), an `arq` worker shares its database, and
the staff application (`src/apps/admin`) keeps an outbox so that it works
offline.

These modules model the parts in which several actors write the same state.
TLC checks them on small instances; TLAPS proves the most important results for
every value of the constants.

Contents: 1 inventory, 2 how the code is modelled, 3 modules and code, 4 runs
and bounds, 5 fairness, 6 proofs, 7 disagreements between code and documents,
8 what only TLC has checked, 9 what is not modelled, 10 plan.

## 1. Inventory

| component | state it keeps | operations that change it | who else touches that state |
|---|---|---|---|
| bookings (`modules/bookings`) | row of `bookings`: status, period (`tstzrange`), hours, play_amount, closed_at, version; price list | create by guest and by staff, confirm, reject, cancel, extend, expiry | worker (expiry), till (close), reminder loop (claim), side updates that bump the version |
| till (`modules/pos`) | `orders`, `products.stock_qty`, billing columns of a booking, `payments` | create, advance and cancel an order, ask for and submit a transfer receipt, close a bill | bookings (extension, cancellation), bot (receipt), shifts (every payment belongs to one) |
| shifts (`modules/finance`) | `shifts`, `cash_movements`, `expenses` | open, pay in and out, record and edit an expense, close | till (payments), trigger of migration 0034 |
| idempotency (`core/idempotency.py`) | `idempotency_keys` | `begin`, the service, `finish`, COMMIT | every keyed route |
| offline outbox (`apps/admin/src/offline`) | two IndexedDB stores (`outbox`, `conflicts`), a flag per tab | `runCommand`, `drainQueue`, executors, conflict banner | other tabs, the idempotent server |
| notifications (`worker`, `modules/bookings/reminders.py`) | `notifications`, `bookings.reminder_sent_at` | queue reminders, `send_pending`, retries, the loop in the API | overlapping cron runs, several API instances, cancellation |
| auth and sessions (`modules/auth`) | `refresh_tokens`, access tokens in circulation | sign-in, refresh, reuse detection, logout, change of password | platform (suspension), owner (removal of staff) |
| pricing and opening hours (`bookings/pricing.py`, `service.py`) | `tariffs`, settings of a row of `clubs` | create and update a tariff, edit the club; the quote and the checks of a window are pure | create and extend take their result |
| rooms, stations, publishing | `rooms`, `stations`, `clubs.status` | create and update a room or a station, `publish_club` | tariffs are aimed at the kind of a room |
| Telegram sign-in and staff link (`auth/botlogin.py`, `stafflink.py`) | nonces in Redis, `staff_telegram`, used nonces | start, approve by the webhook, poll, link | webhook and console at the same time |
| customer bot (`modules/bot`) | state of a chat in Redis, seen updates, the guest's row | /start, name, contact | parallel handlers, Telegram's repeated updates |
| owner signup and staff accounts (`auth/signup.py`, `modules/staff`) | `users`, `memberships`, `staff_credentials`, `organizations` | signup, create, edit, remove, reset, change of password | tokens that are older than the role; platform (suspension) |
| tenancy and row-level security (`core/db.py`, `deps.py`, migrations) | settings of a transaction on a pooled connection | begin, `set_current_user`, second connection of the audit log, end | every route; the pool |
| worker and queue (`worker/base.py`) | `jobs`, settings of its connection | a pass over all clubs, one transaction each | the tables of every club |
| finance and platform reports | none | figures over bookings, orders, payments, expenses | everybody who writes those |
| platform administration | organizations, plans, payments | suspension, payments | sessions, accounts |
| audit log, rate limits | append-only log, Redis counters | - | - |
| screens of the console and the mini app | stores in memory | call the operations above | - |

How they interact.  Every HTTP handler runs in the transaction `session_scope`
opens, at READ COMMITTED, and commits when it returns.  Components meet in rows
of the database, not in messages: a bill is closed on the row a booking is
extended on, a payment needs the open shift, a suspension revokes the tokens a
refresh is rotating.  Three channels are outside a transaction: Telegram
(a request whose answer may be lost), Redis, and the browser's HTTP calls, which
may be late, lost or repeated.

What is hard.

* Most handlers SELECT without a lock, decide, and UPDATE by primary key later.
  Anything may commit in between.  What saves the data is sometimes a `version`,
  sometimes a constraint or a trigger, sometimes an arithmetic UPDATE, sometimes
  only the order of the statements.
* One UPDATE over many rows (a sweep of tokens, the expiry of bookings) sees the
  rows of its snapshot and waits for those another transaction has locked.
* Cron jobs overlap with themselves, API instances with each other, tabs with
  each other; each may die between two awaits.
* An answer may be lost after the effect: idempotency keys, the outbox and the
  notification queue each give another reply to that.
* Who may see a row is decided three times: by the role in a token that may be
  hours old, by a route's `require_role`, and by policies that read settings of
  the transaction.  A statement that no policy serves finds nothing and says so
  to nobody.
* Time is cut by the club's clock (tariffs, opening hours, days of a report) and
  stored in UTC; days begin before midnight ends.

`PROJECT.json` lists under `hazards` every place where this bites, at its line,
with the property that would notice.

What makes each component correct: no station is promised twice and an extension
is never lost (bookings); what is owed, paid, refunded and taken from the shelf
agree (till); a counted drawer stays as it was counted, and a person has one
open at a time, which a partial unique index decides in one step (shifts); an
action is done once and its answer repeated (idempotency); what is shown as done
was done, and the queue of a club in use is never stuck (outbox); nothing queued
is lost, nothing sent is sent again (notifications); one usable token per
sign-in and no way back for what was ended (sessions); a window costs what its
minutes cost (tariffs); a station keeps the kind its owner gave it (catalogue);
a nonce opens one session and a Telegram account belongs to one person (link);
who is told to be registered is (bot); one owner per club, and no administrator
reaches above staff (accounts); no request touches another club and none is
blind in its own (tenancy); the journal says done of stored work (worker);
figures side by side add up (reports).

Hazards that no property of this project is about: the owner's absolute stock
count (`pos/service.py:105`) overwrites sales that happened meanwhile; the
variance alert (`finance/router.py:353`) relies on a background task running
after COMMIT, which FastAPI reversed (section 7); a tab that dies between two
puts leaves a conflict the banner never shows (`syncEngine.ts:84`); a later
command overtakes one in backoff (`syncEngine.ts:192`); a reminder is sent for a
booking that was cancelled meanwhile (`tasks.py:114`), and two processes each
remind twenty minutes before the start (`schedule.py:25`); a refresh whose
answer was lost looks like theft when it is repeated (`client.ts:204`); the open
shift of a removed member is missing from the list of open shifts
(`shifts.py:205`); the races of closing a bill against each other that section 7
names.

## 2. How the code is modelled

*Transactions.*  A handler that reads, decides and writes is two actions,
`...Read` and `...Write`, with the snapshot in `req[r]` in between.  Writers of
one row queue on its lock, and their effect is visible at COMMIT, so the UPDATE
and the COMMIT are one step, except where the code does something observable
between them (the trigger of 0034, the closing of a shift, the idempotency key).
Statements that compute from the row (`stock_qty = stock_qty - n`) or that
follow a lock see the latest commit and belong to the Write.

*COMMIT and the answer.*  The transaction of a request is the yield dependency
`db()` (`deps.py:64-67`); its exit is the COMMIT.  FastAPI runs that exit before
it sends the response up to 0.117 and after it from 0.118, and
`pyproject.toml:8` admits both.  Where the answer matters, in `Idempotency` and
`Outbox`, the constant `AnswersEarly` says which: with `TRUE` the response may be
sent and received while the transaction is open, and the COMMIT may still fail
(`SendAnswer`, `DeliverEarly`, `BreakPromise`).  A refusal is an exception: it
rolls back before it is answered in every version.  The runs use `TRUE`, which
contains the other order (an answer nobody receives before the COMMIT); the
theorems hold for both.

*Errors.*  A check that fails in the Read answers 4xx and changes nothing: the
action is disabled.  A failure after that, a constraint violation, a dropped
connection or a crash rolls back: `Abort`.

*Locks.*  `FOR UPDATE` and the uncommitted row of a unique key are modelled by
who holds them (`Locked`, `Holds`); whoever needs them is disabled.

*Data.*  Time is a line of whole hours, money a small natural number, an answer
of a service a model value.  Rows that do not exist yet have status `NONE`.

*Policies.* A row is a table, a club and a person; a policy is an operator on a
row and the settings of a transaction (`Policies`). Where a policy asks for a
status or a membership the table is several: `users` is the guests whose booking
stands, the guests whose bookings were all cancelled, the members and the former
members. PostgreSQL joins the policies of a table by OR, as `Readable` and
`Writable` do.

*Histories.* `sold` and `given` (Bookings), `taken`, `back`, `photos` (Bills),
`logged` (Shifts), `effects`, `told` and `broken` (Idempotency), `delivered` and
`reminded` (Notifications), `granted` and `shown` (TelegramLink), `asked`,
`saved` and `told` (BotChat), `applied` and `mute` (WorkerPass) record what
happened outside or in the ledgers. (`promised` of `Once` is no variable of
`Idempotency`: it is computed from the open transactions.) No guard reads one of
them, except where it stands for rows the code does read (payments in Bills, the
closed bill in Outbox) or bounds the instance (`asked` in BotChat).

## 3. Modules and code

| module | models | state and actions |
|---|---|---|
| `Bookings` | `modules/bookings/service.py`, worker's `expire_unpaid_bookings`, EXCLUDE and CHECK of migration 0009 | `row[b]`, `rate`, `overdue`, `req[r]`; create (a guest's booking is PENDING, one by staff CONFIRMED at once), confirm, reject, cancel, extend with or without `expected_version`, close, expiry, price changes.  `ExtendWrite` takes hours and amount from the snapshot and the end of the period from the row, as the code does |
| `Calendar` | abstract: an hour of a station has at most one holder | refined by `Bookings` |
| `Bills` | `modules/pos/service.py`, `bot_submit_payment_proof` | `bill`, `order`, `stock`, sums of `payments` by method; closing is read, sum, write, and a transfer of a bot customer takes two calls with the receipt in between |
| `Shifts` | `modules/finance/shifts.py`, `service.py`, trigger of 0034 | `shift`, `cash`, `expense`, `logged`; an INSERT passes the trigger in one step and becomes visible in another; closing is SELECT, UPDATE, COMMIT |
| `Idempotency` | `core/idempotency.py` and the routers around it | `keys`, `txn[t]`: begin, claim or found, service, finish, COMMIT and answer in either order, with refusals and death in every state; `effects`, `told`, `broken` |
| `Once` | abstract: an action happens once per key and answers report it; where they precede it, an answer is a promise that is kept or broken | refined by `Idempotency` |
| `Outbox` | `offline/commands.ts`, `syncEngine.ts`, `outboxReducer.ts` | `outbox`, `conflicts`, `job[tab, prompt or drain]`, `active[tab]`; every await is a step; a drain passes over the items of other clubs, a request carries the club that is active when it is sent (`Mismatch` if that is another one), and the club changes with the session (`SwitchClub`: `app.tsx:98-101`, there is no switch for the user yet); composed with the server as `Server == INSTANCE Idempotency WITH Keys <- Commands` |
| `Notifications` | `worker/tasks.py`, `worker/notify.py`, `bookings/reminders.py` | `booking`, `note`, `created`, `worker[w]`, `loop[l]`; a run of `send_pending` holds its batch as a set and works through it in the order of `created_at`; a call to Telegram may reach the chat and lose its answer |
| `Sessions` | `modules/auth/service.py`, `staff.py`, `router.py`, `platform/service.py`, migrations 0026 and 0030 | `token`, `org`, `members`, `access`, `req[r]`; rotation holds the row's lock, each sweep is a Read of its snapshot and a Write that waits for locks |
| `Chains` | abstract: a session begins, lives, ends and never comes back | refined by `Sessions` |
| `Tariffs` | `bookings/pricing.py`, quote and checks of a window in `service.py`, edits of tariffs and club | `tariff[i]`, `club`; `PriceForWindow` cuts a window at the boundaries of the tariffs, of the day before too, and picks by priority and id; `FitsOpeningHours` compares two ends |
| `Catalogue` | rooms, stations, publishing | `room`, `station`, `status`; a station names its room by a label that is looked up or inserted |
| `TelegramLink` | `auth/botlogin.py`, `stafflink.py`, webhook and polls of `auth/router.py` | `key` (Redis), `linked`, `hook[h]`, `poll[p]`; every await on Redis is a step, the transaction ends after the handler |
| `BotChat` | `bot/customer.py`, `contact.py` | `fsm`, `quiet`, `seen` (Redis, may be lost), `row`, `task[h]` |
| `Accounts` | `auth/signup.py`, `modules/staff`, SQL functions of 0005 to 0008, 0019, 0026 | `user`, `org`, `token` (the claim), `req[r]`; a function reads the table, the write that follows finds the row as it is then; a reset of a password is both statements of `auth_assign_password`, `MayReset` and `ResetCommit` |
| `Policies` | policies of the migrations, routes with the tables they read, join and write | operators only; `Unknown` names the persons no policy of `users` shows |
| `Tenancy` | `core/db.py`, `deps.py`, `core/audit.py` | `role`, `token`, `guc[connection]`, `task[t]` |
| `WorkerPass` | `worker/base.py` | `todo`, `at`, `stage`, `guc`, `journal` |
| `Reports` | `finance/reports.py`, dashboard and report of `platform/service.py` | `now`, `entry`; every figure is an operator over the ledger |
| `MC*` | instances for TLC; four of them play several modules as scenes, section 4 | |
| `BookingsProofs`, `IdempotencyProofs`, `OutboxProofs`, `AccountsProofs`, `NotificationsProofs` | theorems about the module of that name, the last also about the types of `MCNotifications` | section 6 |
| `TillProofs`, `SessionsProofs`, `ClubOfficeProofs` | theorems about the scenes of `MCTill` (Bills, Shifts, Tariffs, Reports, and the types of Idempotency), `MCSessions` (Sessions, TelegramLink, BotChat), `MCClubOffice` (Catalogue, Tenancy, WorkerPass, Accounts) | section 6 |

`PROJECT.json` maps every definition to its lines.  Operators named
`X_Something` before an operator `X` are faulty variants of `X` (a dropped
guard, a swapped order): each run has been repeated with them to see that its
properties notice.

## 4. Runs and bounds

Modules that share no state are checked in one run as *scenes*: the variable
`scene` is chosen once, the module of that scene moves and the others stay where
they begin. A property of such a run is the conjunction of the property of each
scene, and a fault in any of them is a fault of the run. Scenes share their
model values, so that one symmetry set is sound for all of them. Where a module
has two scenes, they are two bounds on one instance of it: `Bills` at the desk
(one request) and in races (`SmallRace`), `TelegramLink` with the nonces of the
login or those of the link (`Unasked`). Proofs about the module then hold for
both.

| run | instance | distinct states | shows |
|---|---|---|---|
| `bookings_versioned` | 1 booking, 2 transactions, every extension names its version, 4 hours, 2 prices, limit 3 h, one closed hour, fair worker | 1.76 M | no extension is lost (`NothingLost`), none lands on a closed or cancelled session (`ExtendOnlyOpen`), none outgrows the limit (`SessionWithinLimit`), every unpaid request is resolved (`PendingResolved`) |
| `bookings_calendar` | 2 bookings of 1 station, 2 transactions, no versions | 990 k | `NoOverlap`, refinement of `Calendar`; nobody pays for more than was granted (`NeverOverbilled`) |
| `bookings_stale_decision` | 1 booking, 2 transactions, no versions | - | counterexample, section 7 |
| `till` | scenes keys (1 key, 2 bodies, 2 answers, 2 calls, answers before COMMIT), desk (1 session, 2 orders, 1 request), races (1 session, orders, quantities and payments bounded by `SmallRace`, 2 requests), drawer (1 person, 2 shifts, 1 expense, 2 requests, at most one unit of cash either way), tariffs (all pairs of tariffs from 20 forms, 6 minutes a day, 2 days a week), books (2 entries, 4 hours, days of 2 hours, a zone of one hour) | 381 k | refinement of `Once`, the answer is always there (`NeverInProgress`); refunds are exact, no transfer goes without a receipt, ledger and rows agree (`BillsAddUp`); a bill closes for what is owed and the shelf agrees with the orders (`SumsExact`); a closed drawer is left alone (`QuietForEver`); a window costs what its minutes cost (`PricedByTheMinute`), in the hours the club is open (`OpenThroughout`); graphs, days and totals agree (`FiguresAddUp`) |
| `bills_late_order` | 1 session, 2 orders | - | counterexample, section 7 |
| `outbox` | 1 bill command of one of 2 clubs, 2 tabs with 2 jobs each, 1 request under way, answers before COMMIT, fair | 155 k | shown as synced means performed, or answered ahead of a COMMIT that fails (`SyncedIsApplied`); outcomes are final (`SettledForEver`); the queue drains while a tab stays at its club (`QueueDrains`) |
| `outbox_bill_retry` | 1 bill command, 1 tab | - | counterexample, section 7 |
| `notifications` | scenes notices (1 booking with 2 notes, 2 job runs, 2 API instances, 2 attempts, batch of 1) and tenants (2 requests, 2 connections), fair | 199 k | sent means delivered, given up in time, reminded once (`NotesSound`); nothing sent is sent again later; everything queued ends; requests that need a second connection finish (`RequestsFinish`) |
| `sessions` | scenes sessions (2 people, 3 tokens, 2 requests), login (1 nonce, 2 webhooks, 2 polls), link (2 nonces, 2 webhooks, 2 members of the staff, 2 accounts), bot (1 guest, 3 updates, 2 handlers) | 135 k | one usable token per sign-in, ended is ended, suspended stays out; a nonce opens one session, an account has one owner (`NoncesSound`); told means registered, no more writes than prompts (`RegisteredOnce`) |
| `link_ready` | 1 link | - | counterexample, section 7 |
| `club_office` | scenes catalogue (3 rooms, 1 station, 2 names), tenants (2 clubs, 1 published, 2 people, 2 requests, 3 connections), worker (2 clubs), staff (1 founder, 2 more users, 2 requests) | 678 k | stations keep their kind (`KindFollowsRoom`); nobody meets another club's rows (`InsideOwnClub`), nobody misses rows of their own (`NoBlindSpot`); done means committed (`DoneMeansCommitted`); one owner, nobody without a password (`RosterSound`); an administrator never touches a rank above staff (`CeilingHolds`) |
| `bot_report` | 1 administrator, 1 request | - | counterexample, section 7 |

Why these bounds. Nearly all of the races are between two transactions on one
row; two requests and one row contain every order of their steps, and a second
row is there where rows exclude each other (bookings of a station, shifts of a
person, tokens of a chain, links of a Telegram account). `bookings_versioned`
has room for an extension beyond the limit, an hour the club is closed and a
price that changes between booking and extension; its one booking means that no
neighbour blocks an extension, which is what `bookings_calendar` is for. Three
tokens are a sign-in and two rotations, or a sign-in and a rotation beside
somebody else's sign-in; the sessions alone also pass with four (548 k states).
The keys of the scene keys never meet (a step is about one key), so one is
enough; overlapping requests under one key are there, with two bodies and two
answers. The run `outbox` has one request under way at a time for the sake of
its liveness check: a timed-out request may still be served while the item is
sent again later, and what overlapping requests do to each other is the matter
of `ImplementsOnce`, which the proofs give for any number of them. Its two clubs
are one the command is for and one it is not. `SEND_BATCH = 1` with two notes
puts one note behind another, `MAX_SEND_ATTEMPTS = 2` has a failure that is
retried and one that gives up. The days of `Tariffs` have six minutes and its
hours two: an hour may then cross a boundary, a midnight and the end of a tariff
that began the day before, and start within a minute. A pool of two connections
and two requests is the smallest in which each holds what the other waits for.
In `Reports` local and UTC days begin at different ticks, and four hours touch
three local days.

Bounds that are not in the code are constants named in the module: `Horizon`,
`MaxVersion` (Bookings), `MaxPlay`, `MaxPaid` (Bills), `CashBound` (Shifts),
`MaxAsked` (BotChat), `Founders` (Accounts), `LastHour` (Reports), the bounds of
the scenes named above, and the finite sets of primary keys. The theorems of
section 6 hold for all values of them.

Deadlock is not checked where the keys of an instance run out or all business
may be done (Bookings, `till`, `sessions`, `club_office`, `link_ready`); it is
checked in `outbox` and `notifications`.

Symmetry is used over requests, calls, bodies, answers, bookings, users or tokens
where only safety is checked; the three fair runs use none.  In `club_office` it
permutes requests, connections of one pool and the users who are no founders;
the scenes that have them treat them alike.

## 5. Fairness

* `Bookings`: weak fairness of `ExpireUnpaid` and of the passing of ten minutes.
  The cron of `worker/schedule.py` fires every minute.  Nothing is assumed of
  people.
* `Outbox`: each job of each tab goes on (`GoOn`: what it does by itself, and the
  client's timeout on a dead connection; the drain is started by `setInterval`
  every 5 s in every tab), the server goes on with each request, `nextRetryAt`
  passes, all weakly fair; and from some point on there are no faults and no
  session changes its club.  While requests keep failing the queue is meant to
  stay, and the items of a club at which no tab is wait for one: `QueueDrains`
  says that an item reaches an outcome or, again and again, no tab is at its
  club, which after that point means never.  A step that is a fault and at the
  same time an ordinary step (a tab reloaded at the very end of its drain) is
  not counted as a fault, so that the assumption never forbids the ordinary
  step.
* `Notifications`: weak fairness of a running job, strong fairness of the start
  of `send_pending` (cron starts it every minute, but the slot of a run may be
  taken at any moment by another job), and the worker does not crash for ever.
  Telegram may fail for ever: the queue then gives up.
* `Tenancy`: weak fairness of what a request does by itself, one step after
  another; every await returns or the pool's timeout ends it.  Nothing is
  assumed of who gets a connection.

## 6. Proofs

Eight modules hold theorems; every leaf is checked by TLAPS.  `PROJECT.json`
lists the results under `theorems`.  The theorems hold for every value of the
constants, hence for any number of rows, people, requests, tabs, jobs and
connections; the assumptions are the named ones below.  The inductive invariants
are conjunctions of named parts: what a row says, what an open transaction has
seen, and what the two have to do with each other.

`BookingsProofs` (assumes `ConstantsAssumption`: hours, limits and prices are
natural numbers and `MaxHours <= MaxTotal`)

* For any clients: `TypeCorrect`, `NeverDoubleBooked` (`NoOverlap`),
  `SnapshotsStayCurrent`, `GuestNeverOverbilled` and `TableIsCalendar`, the
  refinement of `Calendar`.
* If every client names a version (`Unversioned = FALSE`):
  `VersionsPreventLostUpdates` (`NothingLost`), `VersionsExtendOnlyOpen`,
  `VersionsLimitSessions` (`SessionWithinLimit`).
* Argument.  `NothingLost` is not inductive: an extension writes hours and
  amount of its snapshot.  `Bounded` strengthens it with `SnapshotsCurrent`,
  which says of each open extension that its snapshot never shows more than was
  granted, that the version it names is not ahead of the row and, if still
  equal, that the snapshot is the row.  Every write bumps the version
  (`RowsAdvance`), so a stale extension can never match again
  (`SnapshotsKept`).  `Versioned` adds that every open extension names a
  version, and `RowChange` reduces all handlers to what they do to a row.
  `Limited` bounds what each extension in flight would make of a session, so
  with `NothingLost` the period is bounded too.
  For the calendar, `NoOverlap` makes the holder of an hour unique, so what
  `Calendar` shows is a function of the rows (`Shown`); each step then claims
  or releases the cells of one booking (`Cell`) or leaves them alone.

`IdempotencyProofs` (assumes `IdempotencyAssumption`: `AnswersEarly` is a
Boolean)

* For both orders of answer and COMMIT: `TypeCorrect`, `AlwaysComplete`
  (`NeverInProgress`: the branch of `begin` for a committed key without an
  answer is dead code), `PerformedOnce` (the refinement of `Once`).
* If COMMIT precedes the answer (`~AnswersEarly`): `AnsweredAlike`
  (`FirstAnswerRepeated`), all successes under one key are the same.  This is
  what the docstring says; with early answers TLC finds two different ones in 14
  steps (section 7).
* Argument.  At most one call holds a key (Exclusive); an effect is recorded
  exactly when the row is committed (Recorded); every call that replies success
  repeats the row's answer or one whose COMMIT failed (Honest); where COMMIT comes
  first there are no such answers (InOrder), and all that was told is what the
  row says (ToldTrue).

`OutboxProofs` (assumes `OutboxAssumption`: commands are numbered in the order
they were given, each is for one club, and there is a body to send)

* `TypesHold` (`TypeOK`), `SyncedAlwaysApplied` (`SyncedIsApplied`),
  `OutcomesAreForEver` (`SettledForEver`).
* Argument.  The server inside `Outbox` is `Idempotency` over the same
  variables, so its invariant is taken from `IdempotencyProofs`.  `Linked` says
  that the request a job awaits carries the key of its command: what the server
  recorded or promised for the request is then of that command.  `Earned` carries
  this over the await, from the answer to the write of the item.  `Owned` tells
  who may write an item: the prompt that gave the command while it is not yet
  stored, drains afterwards; without it a late prompt could overwrite what a
  drain has settled.

`NotificationsProofs` (assumes `NotificationsAssumption`: finitely many
bookings, at least one attempt and a batch of at least one; the last theorem
also `NoticesAssumption`, what `Tenancy` assumes of its constants)

* `TypesHold`, `NotesAlwaysSound` (`NotesSound`), `SentIsForEver`
  (`SentForEver`); `NoticesTypesHold` (`TypesOK`) for the run with both scenes.
* Argument.  A success waits between Telegram's answer and the UPDATE; `Answered`
  says that it is of a message that arrived.  A claimed reminder waits in the
  memory of one instance; `Claimed` says that nobody else has it and that the
  guest has not had it.  The UPDATE of an overlapping run may fall on a row that
  is SENT or ERROR by now; it compares the count it writes, so what
  `GivenUpInTime` says of a row holds whatever the row was before.  That
  bookings are finite is needed because rows of one transaction are appended in
  some order.

`SessionsProofs` (assumes `PeopleAssumption` for the scenes login, link and bot:
nonces of the two kinds are different, "nobody" is no person, finitely many
handlers, at least one attempt; nothing for the refresh tokens)

* Sessions: `TypeCorrect`, `NeverTwoSessionsOfOne` (`OneLivePerChain`),
  `EndedForGood` (the refinement of `Chains`), `SuspendedStayOut`
  (`LockedOutForEver`).
* TelegramLink: `NoncesAlwaysSound` (`NoncesSound`).  BotChat:
  `RegisteredAlwaysOnce` (`RegisteredOnce`).  All: `PeopleTypesHold` (`TypesOK`).
* Argument for Sessions.  `FOR UPDATE` gives a row to one request (Exclusive); a
  sweep waits for locked rows and a logout cannot touch one, so the row a
  rotation holds is still live when it commits (Fresh); the first token of a
  chain exists as long as the chain (Rooted), so a sign-in never reuses a chain's
  name.  All steps are reduced to four kinds (nothing, Begins, Turns, Ends), and
  the refinement maps Begins to Begin, Turns to a stutter and Ends to End.
* Argument for TelegramLink.  A nonce that can be approved has an owner who does
  not change (Asked); rows that are written and not yet committed clash neither
  with each other nor with the table, which is what a unique index means while
  transactions are open (Writers); an unused nonce has opened no session and one
  poll at a time is turning it into one (Grants).
* Argument for BotChat.  That writes never exceed prompts is not inductive: a
  number is consumed long before it is stored.  `Prompted` counts the writes
  made, the handlers about to write and the prompt still waiting, and bounds the
  sum by the prompts asked.  `Relies` says what each handler needs of the rows it
  saw; rows never go away.

`AccountsProofs` (no assumption)

* `RosterAlwaysSound` (`RosterSound`), `CeilingAlwaysHolds` (`CeilingHolds`), which
  `ClubOfficeProofs` takes over for the scene staff.
* Argument.  A key from the sequence belongs to one transaction and has no row
  yet (Reserved); a change is about a row that exists and, if it sets a role, is
  no owner's (Targeted); whoever ranks as an owner signed the club up and was
  never removed, and a club that was signed up has its owner (Owners).

`ClubOfficeProofs` (assumes `OfficeAssumption`, what `Tenancy` assumes)

* Worker: `DoneIsDone` (`DoneMeansCommitted`).  Settings are those of the
  transaction that runs (Scoped); from start to finish the journal says
  `running`, and a verdict that is due is that of a committed handler (Running).
* Tenancy: `NobodyElsesRows` (`InsideOwnClub`), `NothingHidden`
  (`NoBlindSpot`).  A request holds the connections of its stage (Placed); each
  has the settings of its holder and a free one has none (Settled), so the pool
  passes on nothing.  What remains is a statement about the policies alone,
  proved for each route and the tables it joins.
* Catalogue: `PricedAsBefore` (`KindFollowsRoom`).  A station stands in a room
  that exists, and that room is the only one of its name (CatalogueInv).
* Accounts: `RosterStaysSound` (`RosterSound`), `CeilingStays` (`CeilingHolds`),
  from `AccountsProofs`.
* All: `OfficeTypesHold` (`TypesOK`).

`TillProofs` (assumes `TillAssumption`: what the modules of the scenes assume of
their constants, and that the request of the desk is no other call)

* What that is.  Bills and Shifts: prices and bounds are natural numbers, orders
  are finite.  Tariffs: minutes, hours, days and weeks are not empty; tariffs are
  finite and numbered; the latest closing is before the end of the next day;
  settings and forms hold what their columns hold, and the longest booking is no
  longer than a day (migration 0037 admits at most 12 hours).  Reports: entries
  are finite, amounts natural; the time zone may be any integer.
* Sums.  A sum over rows is the library's fold, a CHOOSE of a recursive function.
  That there is exactly one such function on the subsets of a finite set, and
  hence that a sum is one term and the sum of the others, is proved from the
  well-foundedness of finite sets: of the subsets where it fails, one is
  smallest, and that one follows from those below it (`OneSum`, `SumExists`,
  `SumStep`).  Everything else about sums is proved in the same way once and
  cited: types, equal terms, one element or a part taken out (`SumRemove`,
  `SumUnion`), a common factor, a difference, and that the sums of the parts are
  the sum of the whole (`SumParts`).  Smallest and largest elements
  (`SmallestOf`, `LargestOf`) and the uniqueness of a quotient (`QuotientIs`),
  with rounding that does not depend on the unit (`Rounding`), are of that kind.
* Shifts: `ClosedIsClosed` (`QuietForEver`).  With the types (DrawerInv), every step
  leaves a closed and quiet shift alone (Resting).
* Bills: `MoneyAddsUp` (`BillsAddUp`).  A request in flight never takes an order
  back to an earlier life and a receipt it saw did come (Known, for all of them
  InFlight); a submitted receipt is a picture (Receipts); at the desk the bill a
  request has read is still open (AtTheDesk).  The last is false as soon as two
  tills overlap, see section 7.
* Bills: `BillsInFull` (`SumsExact`).  That the sum written by `close_bill` is
  what is owed needs to know that nothing came in since it was read: at the desk
  what the one request has read is still so, and orders that do not exist are of
  no session and hold nothing (Desk).  Each step then moves one order, one
  quantity and the shelf together (`ShelfMoves`, `OwedStays`).
* Tariffs: `OpenAlways` (`OpenThroughout`).  The comparison of two ends in
  `fits_opening_hours` lets a booking in exactly if each of its minutes is open.
  Opening hours shorter than a day leave a closed minute after each closing, so
  hours that are open throughout lie in the hours of one day; hours of a day or
  more leave none (`TwoEndsSuffice`).
* Tariffs: `PricesAddUp` (`PricedByTheMinute`).  What is stored has passed its
  check (PriceInv); the rest is about one quote.  All points of `_boundaries`
  are whole minutes, and among them is every minute of the window in which a
  tariff of a day that can reach it begins or ends (`PointsAre`).  So the same
  tariffs are in force in all minutes of a piece (`PieceConstant`), its middle,
  which the code looks at, lies in one of them (`MiddleOfPiece`), and the pick by
  priority and id there is that of every minute (`PickIs`).  A piece costs that
  for each tick, the pieces share the minutes of the window among them, and the
  price of all pieces is the sum over the minutes in ticks (`PiecesSum`,
  `WindowIs`); dividing by ticks of an hour or minutes of an hour rounds alike.
  A bound on the length of a booking is needed because opening hours look only a
  day around (`OpenWindow`).
* Reports: `ReportsAddUp` (`FiguresAddUp`).  Amounts are natural and only
  expenses are dated by a day (BookInv).  Every entry of a figure has a bucket in
  the graph and a day among the dashboards, so each identity is `SumParts` with
  that bucket as the part (`SeriesAdd`, `DaysAdd`, `PlatformAdds`); that the
  bounds of a day and the date of a moment agree is `DayBetween`.
* All: `TillTypesHold` (`TypesOK`).  That a bill in flight is a natural number is
  a fact about the sum (`OrdersTotalType`).

Each inductive invariant was first checked by TLC on the instances of section 4.

## 7. Where the code disagrees with its documents

* `ClosedBillComplete` (run `bills_late_order`).  `create_order` only looks
  whether the booking exists.  An order put on a session whose bill is closed
  is delivered and never paid, though the comment says an order attached to a
  booking is paid when the bill is closed.  What holds instead is
  `SumsExact`: at the moment of closing nothing is missing.
* `CancelledIsFinal` (run `bookings_stale_decision`).  Confirm, reject, cancel and
  an extension without a version read the status in a SELECT without a lock and
  UPDATE by id alone.  Migration 0041 (lines 8-18) and `service.py:1525-1530`
  say that the status protects them, and that of a cancellation and an extension
  in parallel the second gets 409.  TLC shows a request that is rejected and then
  confirmed by the transaction that had read it first: the cancelled booking is
  CONFIRMED again.  The same happens to a cancelled session that is extended.
  The EXCLUDE constraint still keeps two bookings apart (`NoOverlap`), and with
  versions an extension is refused (`ExtendOnlyOpen`).
* `RetriesReplay` (run `outbox_bill_retry`).  The executor of `BILL_CLOSE`
  reads the bill before it presents its key, and the server refuses to show a
  closed bill.  If the first attempt succeeded and only the answer was lost,
  the retry ends as FAILED, though the reducer's comment relies on the key
  making a retry safe.  The effect itself stays single (`ImplementsOnce`), and
  an item shown as SYNCED was performed unless its COMMIT failed behind an early
  answer (`SyncedIsApplied`).
* `ReadyMeansStored` (run `link_ready`).  The webhook marks a link ready in
  Redis inside the transaction that stores it.  If the COMMIT fails, the console
  has read "linked" for a row that does not exist; `stafflink.py:53` and
  `router.py:603` say it shows only what really stands in the database.  The
  docstring describes the same fault as repaired; what the repair left is the
  time between `mark_ready` and the COMMIT.
* `BotSeesReport` (run `bot_report`).  A button of the bot's menu is answered in
  a transaction without a user and a club: `bot_staff_context` opens its own
  lookup and closes it again.  The policies then show the report no order, no
  payment, no expense and only the bookings everybody may see, so its figures
  are not those of the dashboard it is said to share its source with
  (`botmenu.py:12`).

Disagreements that no run is about, found while modelling:

* `core/idempotency.py:3-6` promises that the first answer is repeated exactly.
  With FastAPI from 0.118 an answer can precede its COMMIT (section 2); if that
  COMMIT fails, the next request performs the action and answers something else.
  `AnsweredAlike` proves the promise for the other order, `PerformedOnce` what
  holds in both.  For the same reason the comments at `finance/router.py:349` and
  `shifts.py:348-351`, that a background task runs after COMMIT, are true of
  older versions only: the alert of a shift may be queued whose closing is rolled
  back.
* `syncEngine.ts:32-38` says that several tabs do get `IDEMPOTENCY_IN_PROGRESS`.
  They wait instead: `NeverInProgress`.
* `syncEngine.ts:181-185` says that an item of another club waits.  The drain reads
  the active club once; if the session changes in the middle, the rest of the
  list goes out under the new `X-Club-Id` and ends as FAILED (`Mismatch`).
* `0030:3-11` and `platform/service.py:429-432` want a suspension to end the open
  sessions at once.  A refresh that is open while `platform_revoke_org_sessions`
  takes its snapshot commits a successor the UPDATE does not see, and a sign-in
  that has passed its check commits later: these sessions outlive the suspension.
  `LockedOutForEver` only says what holds once no usable token, access token or
  open request is left over: then there is no way in.
* `auth/service.py:226-227` says that a reused token ends all tokens of the user; a
  rotation of another of them that is in flight survives in the same way.
* `shifts.py:196-199` promises owners and administrators the full list of open
  shifts.  It joins `users` without LEFT, and no policy shows a removed member: a
  shift they left open is not listed.  `Unknown` of `Policies` names whom
  `NoBlindSpot` exempts: such members, guests whose bookings were all cancelled
  (their names are NULL in `booking_detail`, though not their bookings) and, for
  a cashier, the colleagues.

Races the models contain and no property forbids: an administrator who resets
the password of somebody just promoted, because `auth_assign_password` reads the
ranks in one statement and writes `staff_credentials`, which has no policy about
ranks, in the next (`CeilingHolds` is about ranks and activity, not passwords);
cancelling a booking against closing its bill, and two tills closing one bill
(`PaidOnce` and `StockExact` are therefore checked for one request at a time, in
the scene desk); an order advanced and cancelled at once; money that passes the
trigger just before a shift closes, which migration 0034 admits; both reminders
twenty minutes before the start; a reminder of a booking cancelled meanwhile; a
conflict that is stored but never shown after a crash between two puts; a retry
of a refresh whose answer was lost, which looks like reuse and ends all
sessions; a token that keeps its claim for its lifetime after the role changed
(`NoBlindSpot` is about callers who still have the role of their token); a
station saved with the label its room had before it was renamed, which gets a
new room of that name (`KindFollowsRoom` names the case); an exception without a
text, which `journal_finish` takes for none and writes `done`
(`DoneMeansCommitted` exempts it); a pass of the worker that ends early because
`journal_finish` itself fails; a published club whose last active station goes
into maintenance; `/start`, which resets the counted attempts of the bot.

## 8. Checked, not proved

* Liveness (`PendingResolved` of Bookings and of Notifications, `QueueDrains`,
  `RequestsFinish`): liveness under fairness is out of this prover's reach and
  stays with TLC, on the instances of section 4 and with the fairness of section 5.
That is all: every safety invariant and action property of a passing run, and
the three refinements, are theorems as well.

## 9. Not modelled

* The owner's absolute stock count and the product catalogue: `StockExact` would
  need a history of counts.
* Expiry of refresh tokens (refused like a token that does not exist), the
  contents of passwords and of access tokens, device hashes, the signature of
  Telegram's initData.
* Clock changes: the zones of the clubs have none.
* Rate limits (a refusal only delays), occupancy and the breakdown by category
  of the reports, profile and entitlements of a user, the status page of the
  bots.
* What the audit log says: only its connection matters to anybody else.
* Policies that open a row inside one SQL function (the bot's and the
  notification's lookups), grants on columns.
* Screens, texts, deployment.

## 10. Plan

Done: all modules of section 3 and their runs; all safety properties of the
passing runs as theorems.

Next: a composition of Bookings and Bills (extension and order against the
closing of the bill) and of Bills and Shifts (every payment in an open drawer).
