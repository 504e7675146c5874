----------------------------- MODULE MCSessions -----------------------------
(***************************************************************************)
(* How people get in: refresh tokens (Sessions), the one-time nonces of    *)
(* Telegram (TelegramLink) and the customer bot (BotChat).  A behaviour is *)
(* about one of them (scene); the others stay as they begin, and share no  *)
(* row with it.  TelegramLink has two scenes: login, with the nonces for   *)
(* signing in, and link, with those for linking.  A poll only takes keys   *)
(* that may as well expire, so the links have none.                        *)
(*                                                                         *)
(* The scenes share their model values, so that one symmetry set serves    *)
(* all: a request is a transaction, a webhook, a poll or a handler, and    *)
(* the tokens are the updates of the bot.                                  *)
(***************************************************************************)
EXTENDS Sessions, TLC

CONSTANTS LoginNonces, LinkNonces, People, Nobody, Guests, MaxAttempts, MaxAsked

VARIABLES
    scene,
    key, owner, used, linked, hook, poll, granted, shown,
    fsm, row, quiet, seen, update, task, asked, saved, told

Link == INSTANCE TelegramLink WITH
    Logins <- LoginNonces, Links <- LinkNonces, Staff <- Users,
    Hooks <- Requests, Polls <- Requests

Bot == INSTANCE BotChat WITH
    People <- Guests, Updates <- Tokens, Handlers <- Requests

ASSUME PeopleAssumption == Link!LinkAssumption /\ Bot!BotAssumption

linkVars == <<key, owner, used, linked, hook, poll, granted, shown>>
botVars == <<fsm, row, quiet, seen, update, task, asked, saved, told>>

\* Bound: nobody asks for the nonces N
Unasked(N) == \A n \in N : owner[n] = Nobody

PeopleInit ==
    /\ scene \in {"sessions", "login", "link", "bot"}
    /\ IF scene = "sessions" THEN Init
       ELSE /\ token = [t \in Tokens |-> [status |-> "NONE"]]
            /\ org = "active" /\ members = {} /\ access = {}
            /\ req = [r \in Requests |-> Idle]
    /\ Link!Init
    /\ Bot!Init

PeopleNext ==
    /\ UNCHANGED scene
    /\ \/ /\ scene = "sessions" /\ Next
          /\ UNCHANGED <<linkVars, botVars>>
       \/ /\ scene = "login" /\ Link!Next /\ Unasked(LinkNonces)'
          /\ UNCHANGED <<vars, botVars>>
       \/ /\ scene = "link" /\ Link!Next /\ Unasked(LoginNonces)'
          /\ poll' = poll /\ shown' = shown
          /\ UNCHANGED <<vars, botVars>>
       \/ /\ scene = "bot" /\ Bot!Next
          /\ UNCHANGED <<vars, linkVars>>

PeopleSpec == PeopleInit /\ [][PeopleNext]_<<scene, vars, linkVars, botVars>>

SessionSymmetry ==
    Permutations(Users) \union Permutations(Requests) \union Permutations(Tokens)

\* Every row and every request in progress keeps its type.
TypesOK ==
    /\ scene = "sessions" => TypeOK
    /\ Link!TypeOK
    /\ Bot!TypeOK

\* TelegramLink: a nonce opens one session at most (guard_replay), and a Telegram account
\* belongs to one member of the staff (staff_telegram_tg_uk).
NoncesSound == Link!OneSessionPerNonce /\ Link!OneStaffPerTelegram

\* BotChat: who was told "registered" has a verified number (_save_phone), and a prompt
\* is answered by one write at most (_consume_state).
RegisteredOnce == Bot!DoneMeansVerified /\ Bot!OneWritePerPrompt

=============================================================================
