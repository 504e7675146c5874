------------------------------- MODULE BotChat -------------------------------
(***************************************************************************)
(* The customer bot (modules/bot/customer.py, contact.py, router.py): a    *)
(* chat that asks for a name, then for the sender's own phone number, and  *)
(* then opens the mini app.                                                *)
(*                                                                         *)
(* Redis holds where the chat is and may lose it at any time; PostgreSQL   *)
(* holds who has registered.  Telegram sends an update again when it gets  *)
(* no answer, several handlers run at once, and each await on Redis or on  *)
(* a transaction is a step of its own.  A handler that fails in the middle *)
(* is swallowed by handle_update and answered with 200 like any other.     *)
(***************************************************************************)
EXTENDS Integers, FiniteSets

CONSTANTS
    People,       \* Telegram users
    Updates,      \* identifiers of updates
    Handlers,     \* requests of the webhook that may be in progress at once
    MaxAttempts,  \* MAX_CONTACT_ATTEMPTS
    MaxAsked      \* bound: how often the bot asks one person for a number

BotAssumption ==
    /\ IsFiniteSet(Handlers)
    /\ MaxAttempts \in Nat \ {0}
    /\ MaxAsked \in Nat

VARIABLES
    fsm,      \* fsm[t]: bot:fsm:cust:t
    row,      \* row[t]: the customer row of t in users
    quiet,    \* people with bot:quiet:cust:t
    seen,     \* updates with tg:upd:customer:u
    update,   \* update[u]: the message of update u, once it was sent
    task,     \* task[h]: where handler h is
    asked,    \* asked[t]: prompts for a number, an observation
    saved,    \* saved[t]: writes of a number, an observation
    told      \* people who read that they are registered, an observation

vars == <<fsm, row, quiet, seen, update, task, asked, saved, told>>

NoState == [step |-> "none"]

\* STEP_NAME and STEP_CONTACT, with the attempts that _handle_contact counts
Name == [step |-> "name"]

Contact(n) == [step |-> "contact", attempts |-> n]

State == {NoState, Name} \union {Contact(n) : n \in 0..(MaxAttempts - 1)}

Kinds == {"start", "text", "contact"}

NoUpdate == [kind |-> "none"]

\* What check_contact looks at; a number of another country does not normalize.
Cards == [owner : {"sender", "other", "absent"}, chat : {"private", "group"},
          origin : {"typed", "forwarded", "via bot"}, phone : {"uz", "foreign"}]

\* normalize_phone
NormalizePhone(card) == card.phone = "uz"

\* check_contact
CheckContact(card) ==
    /\ card.owner = "sender"
    /\ card.chat = "private"
    /\ card.origin = "typed"
    /\ NormalizePhone(card)

Idle == [at |-> "idle"]

Go(h, v) == task' = [task EXCEPT ![h] = v]

\* _save_state
SaveState(t, s) == fsm' = [fsm EXCEPT ![t] = s]

\* The keyboard that sends a number goes out with the state.
Ask(t) == /\ asked[t] < MaxAsked
          /\ asked' = [asked EXCEPT ![t] = @ + 1]

-----------------------------------------------------------------------------
\* Telegram

\* A person writes; Telegram keeps the update until it is answered.
Write(u, t, kind, ok) ==
    /\ update[u] = NoUpdate
    /\ update' = [update EXCEPT ![u] = [kind |-> kind, from |-> t, ok |-> ok]]
    /\ UNCHANGED <<fsm, row, quiet, seen, task, asked, saved, told>>

\* A name is good when clean_name leaves 2 to 64 characters, a contact when
\* check_contact accepts it.
WriteAny(u, t) ==
    \/ Write(u, t, "start", TRUE)
    \/ \E ok \in BOOLEAN : Write(u, t, "text", ok)
    \/ \E card \in Cards : Write(u, t, "contact", CheckContact(card))

\* handle_update: SET NX of the identifier, then the quiet key, then the dispatch.  A
\* person who is quiet loses the update for good.
Receive(h, u) ==
    /\ task[h] = Idle
    /\ update[u] # NoUpdate
    /\ u \notin seen
    /\ seen' = seen \union {u}
    /\ Go(h, IF update[u].from \in quiet THEN Idle
             ELSE [at |-> update[u].kind, from |-> update[u].from, ok |-> update[u].ok])
    /\ UNCHANGED <<fsm, row, quiet, update, asked, saved, told>>

\* DEDUPE_TTL, QUIET_SEC and FSM_TTL, or a Redis that restarted empty
ForgetUpdate(u) ==
    /\ u \in seen
    /\ seen' = seen \ {u}
    /\ UNCHANGED <<fsm, row, quiet, update, task, asked, saved, told>>

EndQuiet(t) ==
    /\ t \in quiet
    /\ quiet' = quiet \ {t}
    /\ UNCHANGED <<fsm, row, seen, update, task, asked, saved, told>>

LoseState(t) ==
    /\ fsm[t] # NoState
    /\ SaveState(t, NoState)
    /\ UNCHANGED <<row, quiet, seen, update, task, asked, saved, told>>

\* An exception in handle_update, or the end of the process
Fail(h) ==
    /\ task[h] # Idle
    /\ Go(h, Idle)
    /\ UNCHANGED <<fsm, row, quiet, seen, update, asked, saved, told>>

-----------------------------------------------------------------------------
\* /start

\* _handle_start up to _profile
StartRead(h) ==
    /\ task[h].at = "start"
    /\ Go(h, IF row[task[h].from] = "verified" THEN Idle
             ELSE [at |-> "started", from |-> task[h].from, profile |-> row[task[h].from]])
    /\ UNCHANGED <<fsm, row, quiet, seen, update, asked, saved, told>>

\* The state follows the row that was read, whatever other handlers did meanwhile.
StartWrite(h) ==
    LET t == task[h].from
    IN  /\ task[h].at = "started"
        /\ \/ task[h].profile = "none" /\ SaveState(t, Name) /\ UNCHANGED asked
           \/ task[h].profile = "named" /\ SaveState(t, Contact(0)) /\ Ask(t)
        /\ Go(h, Idle)
        /\ UNCHANGED <<row, quiet, seen, update, saved, told>>

-----------------------------------------------------------------------------
\* The name

\* _handle_text: a name counts only while one is expected, and only a good one.
TextRead(h) ==
    /\ task[h].at = "text"
    /\ Go(h, IF fsm[task[h].from] = Name /\ task[h].ok
             THEN [at |-> "named", from |-> task[h].from]
             ELSE Idle)
    /\ UNCHANGED <<fsm, row, quiet, seen, update, asked, saved, told>>

\* Mutant: the transaction of _upsert_name never commits.
Upserted_Lost(t) == row

\* _upsert_name keeps phone_verified_at.
Upserted(t) == [row EXCEPT ![t] = IF @ = "none" THEN "named" ELSE @]

TextUpsert(h) ==
    /\ task[h].at = "named"
    /\ row' = Upserted(task[h].from)
    /\ Go(h, [task[h] EXCEPT !.at = "ask"])
    /\ UNCHANGED <<fsm, quiet, seen, update, asked, saved, told>>

TextSave(h) ==
    /\ task[h].at = "ask"
    /\ SaveState(task[h].from, Contact(0))
    /\ Ask(task[h].from)
    /\ Go(h, Idle)
    /\ UNCHANGED <<row, quiet, seen, update, saved, told>>

-----------------------------------------------------------------------------
\* The number

\* Mutant: the state is read and left where it is.
Consumed_Peek(t) == fsm

\* GETDEL of _consume_state: two contacts that arrive together find one state.
Consumed(t) == [fsm EXCEPT ![t] = NoState]

\* _handle_contact up to check_contact.  A contact nobody asked for also ends the step
\* in which the name is asked.
ContactTake(h) ==
    LET t == task[h].from
    IN  /\ task[h].at = "contact"
        /\ fsm' = Consumed(t)
        /\ Go(h, IF fsm[t].step # "contact" THEN Idle
                 ELSE [at |-> IF task[h].ok THEN "save" ELSE "refuse", from |-> t,
                       attempts |-> fsm[t].attempts])
        /\ UNCHANGED <<row, quiet, seen, update, asked, saved, told>>

\* A refused contact: quiet after MaxAttempts, or the state goes back with one attempt
\* more, over whatever /start has put there meanwhile.
ContactRefuse(h) ==
    LET t == task[h].from
        n == task[h].attempts + 1
    IN  /\ task[h].at = "refuse"
        /\ \/ n >= MaxAttempts /\ quiet' = quiet \union {t} /\ UNCHANGED <<fsm, asked>>
           \/ n < MaxAttempts /\ SaveState(t, Contact(n)) /\ Ask(t) /\ UNCHANGED quiet
        /\ Go(h, Idle)
        /\ UNCHANGED <<row, seen, update, saved, told>>

\* _save_phone: an UPDATE, which finds no row if nobody has inserted one.
ContactSave(h) ==
    LET t == task[h].from
    IN  /\ task[h].at = "save"
        /\ row' = [row EXCEPT ![t] = IF @ = "none" THEN @ ELSE "verified"]
        /\ saved' = [saved EXCEPT ![t] = @ + 1]
        /\ Go(h, [at |-> "tell", from |-> t])
        /\ UNCHANGED <<fsm, quiet, seen, update, asked, told>>

\* _send_open_app with first_time
ContactTell(h) ==
    /\ task[h].at = "tell"
    /\ told' = told \union {task[h].from}
    /\ Go(h, Idle)
    /\ UNCHANGED <<fsm, row, quiet, seen, update, asked, saved>>

-----------------------------------------------------------------------------
Init ==
    /\ fsm = [t \in People |-> NoState]
    /\ row = [t \in People |-> "none"]
    /\ quiet = {}
    /\ seen = {}
    /\ update = [u \in Updates |-> NoUpdate]
    /\ task = [h \in Handlers |-> Idle]
    /\ asked = [t \in People |-> 0]
    /\ saved = [t \in People |-> 0]
    /\ told = {}

Next ==
    \/ \E u \in Updates, t \in People : WriteAny(u, t)
    \/ \E h \in Handlers, u \in Updates : Receive(h, u)
    \/ \E u \in Updates : ForgetUpdate(u)
    \/ \E t \in People : EndQuiet(t) \/ LoseState(t)
    \/ \E h \in Handlers :
          \/ Fail(h)
          \/ StartRead(h) \/ StartWrite(h)
          \/ TextRead(h) \/ TextUpsert(h) \/ TextSave(h)
          \/ ContactTake(h) \/ ContactRefuse(h) \/ ContactSave(h) \/ ContactTell(h)

Spec == Init /\ [][Next]_vars

-----------------------------------------------------------------------------
\* Properties

TypeOK ==
    /\ fsm \in [People -> State]
    /\ row \in [People -> {"none", "named", "verified"}]
    /\ quiet \subseteq People
    /\ seen \subseteq Updates
    /\ update \in [Updates -> [kind : Kinds, from : People, ok : BOOLEAN] \union {NoUpdate}]
    /\ \A h \in Handlers : task[h] # Idle => task[h].from \in People
    /\ asked \in [People -> 0..MaxAsked]
    /\ saved \in [People -> 0..MaxAsked]
    /\ told \subseteq People

\* customer.py: a person who was told they are registered has a row with a verified
\* number (the number is an UPDATE that nobody checks for having found a row).
DoneMeansVerified == \A t \in People : t \in told => row[t] = "verified"

\* customer.py:125: one prompt is answered by one write at most, even when Telegram
\* sends a contact twice, a key of deduplication is lost and two handlers run at once.
OneWritePerPrompt == \A t \in People : saved[t] <= asked[t]

=============================================================================
