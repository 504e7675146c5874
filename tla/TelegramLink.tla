---------------------------- MODULE TelegramLink ----------------------------
(***************************************************************************)
(* One-time nonces between the console, Redis and the admin bot            *)
(* (modules/auth/botlogin.py, stafflink.py, sign_in of service.py, their   *)
(* routes, and staff_telegram_link_confirm of migration 0010).             *)
(*                                                                         *)
(* A nonce is either for signing in or for linking the Telegram of a       *)
(* member of the staff who is signed in.  The console asks Redis about it  *)
(* again and again, the webhook runs when somebody presses Start.  Every   *)
(* await on Redis is a step of its own; the webhook and the poll run in a  *)
(* transaction that commits after the handler has returned and that may be *)
(* lost at any point (Abort), which the webhook answers with 200 as well.  *)
(*                                                                         *)
(* guard_replay keeps its key for a day (widget_ttl_sec), a nonce lives    *)
(* for minutes: the keys of used never expire here.                        *)
(***************************************************************************)
EXTENDS Integers, FiniteSets

CONSTANTS
    Logins,    \* nonces of start_login
    Links,     \* nonces of start_link
    Staff,     \* users with a staff token
    People,    \* accounts of Telegram
    Hooks,     \* webhook requests that may be in progress at the same time
    Polls,     \* polls that may be in progress at the same time
    Nobody

LinkAssumption ==
    /\ Logins \intersect Links = {}
    /\ Nobody \notin Staff \union People

VARIABLES
    key,       \* key[n]: the value of the Redis key of nonce n
    owner,     \* owner[n]: who asked for nonce n; Nobody before it exists
    used,      \* auth:used:bot:botstart-n of guard_replay
    linked,    \* linked[s]: telegram_id of the row of staff_telegram of user s
    hook,      \* hook[h]: a webhook request in progress
    poll,      \* poll[p]: a poll in progress
    granted,   \* granted[n]: sessions committed for nonce n
    shown      \* shown[n]: what the console was last told about link n

vars == <<key, owner, used, linked, hook, poll, granted, shown>>

Nonces == Logins \union Links

NoKey == [status |-> "none"]

Pending == [status |-> "pending"]

Approved(t) == [status |-> "approved", by |-> t]

Idle == [at |-> "idle"]

Hook == {Idle} \union [at : {"approve", "confirm", "stored", "ready"}, nonce : Nonces, by : People]

Poll == {Idle} \union [at : {"take"}, nonce : Nonces, by : People]
              \union [at : {"sign", "issue"}, nonce : Logins, by : People]

SetKey(n, v) == key' = [key EXCEPT ![n] = v]

Go(h, v) == hook' = [hook EXCEPT ![h] = v]

Ask(p, v) == poll' = [poll EXCEPT ![p] = v]

-----------------------------------------------------------------------------
\* The console asks for a nonce

\* start_bot_login, by a browser nobody is signed in to
StartLogin(n) ==
    /\ owner[n] = Nobody
    /\ \E s \in Staff : owner' = [owner EXCEPT ![n] = s]
    /\ SetKey(n, Pending)
    /\ UNCHANGED <<used, linked, hook, poll, granted, shown>>

\* start_telegram_link, behind require_staff_token
StartLink(n, s) ==
    /\ owner[n] = Nobody
    /\ owner' = [owner EXCEPT ![n] = s]
    /\ SetKey(n, Pending)
    /\ UNCHANGED <<used, linked, hook, poll, granted, shown>>

\* START_TTL_SEC and APPROVED_TTL_SEC
Expire(n) ==
    /\ key[n] # NoKey
    /\ SetKey(n, NoKey)
    /\ UNCHANGED <<owner, used, linked, hook, poll, granted, shown>>

-----------------------------------------------------------------------------
\* admin_bot_webhook: t presses Start on a nonce, as often as they like

\* approve_login up to its GET; an expired nonce is answered in the chat.
ApproveRead(h, n, t) ==
    /\ hook[h] = Idle
    /\ key[n] # NoKey
    /\ Go(h, [at |-> "approve", nonce |-> n, by |-> t])
    /\ UNCHANGED <<key, owner, used, linked, poll, granted, shown>>

\* The SET of approve_login, whatever has happened to the key since.
ApproveWrite(h) ==
    /\ hook[h].at = "approve"
    /\ SetKey(hook[h].nonce, Approved(hook[h].by))
    /\ Go(h, Idle)
    /\ UNCHANGED <<owner, used, linked, poll, granted, shown>>

\* peek_link: any value of the key will do, and it is left alone.
PeekLink(h, n, t) ==
    /\ hook[h] = Idle
    /\ key[n] # NoKey
    /\ Go(h, [at |-> "confirm", nonce |-> n, by |-> t])
    /\ UNCHANGED <<key, owner, used, linked, poll, granted, shown>>

\* The rows that open webhook transactions have written and not committed.
Writing(g) == hook[g].at \in {"stored", "ready"}

\* staff_telegram_link_confirm waits for such a row of the same user (ON CONFLICT) or
\* of the same Telegram (staff_telegram_tg_uk).
Waits(h) ==
    \E g \in Hooks \ {h} :
        Writing(g) /\ (\/ owner[hook[g].nonce] = owner[hook[h].nonce]
                       \/ hook[g].by = hook[h].by)

\* Mutant: there is no unique constraint.
TakenBy_Nobody(t, s) == FALSE

\* staff_telegram_tg_uk
TakenBy(t, s) == \E other \in Staff \ {s} : linked[other] = t

\* _handle_link_start: the row is written and read back inside the transaction.
ConfirmLink(h) ==
    /\ hook[h].at = "confirm"
    /\ ~Waits(h)
    /\ ~TakenBy(hook[h].by, owner[hook[h].nonce])
    /\ Go(h, [hook[h] EXCEPT !.at = "stored"])
    /\ UNCHANGED <<key, owner, used, linked, poll, granted, shown>>

\* mark_ready
MarkReady(h) ==
    /\ hook[h].at = "stored"
    /\ SetKey(hook[h].nonce, Approved(hook[h].by))
    /\ Go(h, [hook[h] EXCEPT !.at = "ready"])
    /\ UNCHANGED <<owner, used, linked, poll, granted, shown>>

\* The handler has returned; session_scope commits.
CommitLink(h) ==
    /\ hook[h].at = "ready"
    /\ linked' = [linked EXCEPT ![owner[hook[h].nonce]] = hook[h].by]
    /\ Go(h, Idle)
    /\ UNCHANGED <<key, owner, used, poll, granted, shown>>

\* An exception, which the webhook swallows (a Telegram linked to somebody else is
\* one), a lost connection at COMMIT, or the end of the process.
AbortHook(h) ==
    /\ hook[h] # Idle
    /\ Go(h, Idle)
    /\ UNCHANGED <<key, owner, used, linked, poll, granted, shown>>

-----------------------------------------------------------------------------
\* The console polls

Told(n, status) ==
    shown' = IF n \in Links THEN [shown EXCEPT ![n] = status] ELSE shown

\* poll_login and poll_link up to their GET
PollRead(p, n) ==
    /\ poll[p] = Idle
    /\ owner[n] # Nobody
    /\ CASE key[n] = NoKey -> Told(n, "expired") /\ UNCHANGED poll
         [] key[n] = Pending -> Told(n, "pending") /\ UNCHANGED poll
         [] OTHER -> /\ Ask(p, [at |-> "take", nonce |-> n, by |-> key[n].by])
                     /\ UNCHANGED shown
    /\ UNCHANGED <<key, owner, used, linked, hook, granted>>

\* DELETE: of two polls only one finds the key.
PollTake(p) ==
    /\ poll[p].at = "take"
    /\ LET n == poll[p].nonce IN
         /\ SetKey(n, NoKey)
         /\ IF key[n] = NoKey
            THEN Told(n, "expired") /\ Ask(p, Idle)
            ELSE /\ Told(n, "ready")
                 /\ Ask(p, IF n \in Logins THEN [poll[p] EXCEPT !.at = "sign"] ELSE Idle)
    /\ UNCHANGED <<owner, used, linked, hook, granted>>

\* Mutant: a nonce is taken for used up once its key is gone.
Replayed_Never(n) == FALSE

\* guard_replay finds its key; poll_bot_login names it after the nonce.
Replayed(n) == n \in used

\* sign_in up to guard_replay: a nonce that was used is refused.
GuardReplay(p) ==
    /\ poll[p].at = "sign"
    /\ ~Replayed(poll[p].nonce)
    /\ used' = used \union {poll[p].nonce}
    /\ Ask(p, [poll[p] EXCEPT !.at = "issue"])
    /\ UNCHANGED <<key, owner, linked, hook, granted, shown>>

\* The rest of sign_in, up to the COMMIT of the session.
SignIn(p) ==
    /\ poll[p].at = "issue"
    /\ granted' = [granted EXCEPT ![poll[p].nonce] = @ + 1]
    /\ Ask(p, Idle)
    /\ UNCHANGED <<key, owner, used, linked, hook, shown>>

\* AUTH_REPLAY, a lost connection, or the end of the process.
AbortPoll(p) ==
    /\ poll[p] # Idle
    /\ Ask(p, Idle)
    /\ UNCHANGED <<key, owner, used, linked, hook, granted, shown>>

Init ==
    /\ key = [n \in Nonces |-> NoKey]
    /\ owner = [n \in Nonces |-> Nobody]
    /\ used = {}
    /\ linked = [s \in Staff |-> Nobody]
    /\ hook = [h \in Hooks |-> Idle]
    /\ poll = [p \in Polls |-> Idle]
    /\ granted = [n \in Logins |-> 0]
    /\ shown = [n \in Links |-> "none"]

Next ==
    \/ \E n \in Logins : StartLogin(n)
    \/ \E n \in Links, s \in Staff : StartLink(n, s)
    \/ \E n \in Nonces : Expire(n)
    \/ \E h \in Hooks, n \in Logins, t \in People : ApproveRead(h, n, t)
    \/ \E h \in Hooks : ApproveWrite(h)
    \/ \E h \in Hooks, n \in Links, t \in People : PeekLink(h, n, t)
    \/ \E h \in Hooks : ConfirmLink(h) \/ MarkReady(h) \/ CommitLink(h) \/ AbortHook(h)
    \/ \E p \in Polls, n \in Nonces : PollRead(p, n)
    \/ \E p \in Polls : PollTake(p) \/ GuardReplay(p) \/ SignIn(p) \/ AbortPoll(p)

Spec == Init /\ [][Next]_vars

-----------------------------------------------------------------------------
\* Properties

TypeOK ==
    /\ key \in [Nonces -> {NoKey, Pending} \union {Approved(t) : t \in People}]
    /\ owner \in [Nonces -> Staff \union {Nobody}]
    /\ used \subseteq Logins
    /\ linked \in [Staff -> People \union {Nobody}]
    /\ hook \in [Hooks -> Hook]
    /\ poll \in [Polls -> Poll]
    /\ granted \in [Logins -> Nat]
    /\ shown \in [Links -> {"none", "pending", "expired", "ready"}]

\* A nonce opens one session at most (poll_bot_login: "ready, with a session, once"),
\* although two presses of Start may read the key together and the second may write it
\* again after a poll has taken it.
OneSessionPerNonce == \A n \in Logins : granted[n] <= 1

\* Two members of the staff never receive the notices of the same Telegram account
\* (staff_telegram_link_confirm checks nothing itself).
OneStaffPerTelegram ==
    \A s, u \in Staff : s # u => linked[s] = Nobody \/ linked[s] # linked[u]

\* stafflink.py:53 and router.py:603: the console says "connected" only if the row really
\* stands in the database.  The code marks the nonce ready before the COMMIT.
ReadyMeansStored ==
    \A n \in Links :
        shown[n] = "ready" /\ (\A h \in Hooks : hook[h] = Idle) => linked[owner[n]] # Nobody

=============================================================================
