----------------------------- MODULE WorkerPass -----------------------------
(***************************************************************************)
(* A task of the worker, taken to every active club in turn                *)
(* (run_per_club of worker/base.py): a row of the journal, the handler in  *)
(* a transaction of the club's own, the row's verdict.  Three transactions *)
(* follow one another on the worker's connection, and the worker may stop  *)
(* between any two of them.                                                *)
(*                                                                         *)
(* The verdict is 'error' if there is a text for it, and not every         *)
(* exception has one: str(TimeoutError()) is empty.                        *)
(***************************************************************************)
EXTENDS Policies

VARIABLES
    todo,     \* clubs of this pass that are still to come
    at,       \* the club of this turn
    stage,
    guc,      \* the settings of the worker's connection
    journal,  \* journal[c]: the status of the club's last row in jobs
    applied,  \* applied[c]: the handler's transaction of that row has committed
    mute      \* mute[c]: the exception of that row had no text

vars == <<todo, at, stage, guc, journal, applied, mute>>

Stages == {"idle", "listing", "turn", "starting", "entering", "working", "worked", "raised",
           "finishing", "failing"}

TypeOK ==
    /\ todo \subseteq Clubs
    /\ at \in Clubs \union {NoClub}
    /\ stage \in Stages
    /\ guc \in TransactionSettings
    /\ journal \in [Clubs -> {"none", "running", "done", "error"}]
    /\ applied \in [Clubs -> BOOLEAN]
    /\ mute \in [Clubs -> BOOLEAN]

Init ==
    /\ todo = {}
    /\ at = NoClub
    /\ stage = "idle"
    /\ guc = Clean
    /\ journal = [c \in Clubs |-> "none"]
    /\ applied = [c \in Clubs |-> FALSE]
    /\ mute = [c \in Clubs |-> FALSE]

-----------------------------------------------------------------------------

\* active_clubs: no setting is made, clubs_read shows the active ones.
List ==
    /\ stage = "idle"
    /\ stage' = "listing"
    /\ UNCHANGED <<todo, at, guc, journal, applied, mute>>

Listed ==
    /\ stage = "listing"
    /\ todo' = ActiveClubs
    /\ stage' = "turn"
    /\ guc' = Clean
    /\ UNCHANGED <<at, journal, applied, mute>>

\* mark_job_writer, on a connection on which nothing else is set
JournalWriter(g) == [g EXCEPT !.flags = @ \union {"job_writer"}]

\* journal_start of the next club
Start(c) ==
    /\ stage = "turn"
    /\ c \in todo
    /\ todo' = todo \ {c}
    /\ at' = c
    /\ guc' = JournalWriter(guc)
    /\ stage' = "starting"
    /\ UNCHANGED <<journal, applied, mute>>

Started ==
    /\ stage = "starting"
    /\ journal' = [journal EXCEPT ![at] = "running"]
    /\ applied' = [applied EXCEPT ![at] = FALSE]
    /\ mute' = [mute EXCEPT ![at] = FALSE]
    /\ guc' = Clean
    /\ stage' = "entering"
    /\ UNCHANGED <<todo, at>>

\* Without a row there is nothing to finish: job_id is 0.
StartFails ==
    /\ stage = "starting"
    /\ guc' = Clean
    /\ stage' = "turn"
    /\ UNCHANGED <<todo, at, journal, applied, mute>>

\* club_scope: the user is 0, no role, the club, and app.worker
ClubScope(g, c) == [g EXCEPT !.user = Nobody, !.club = c, !.claim = "none",
                                !.flags = @ \union {"worker"}]

Enter ==
    /\ stage = "entering"
    /\ guc' = ClubScope(guc, at)
    /\ stage' = "working"
    /\ UNCHANGED <<todo, at, journal, applied, mute>>

\* ensure_club_context, the first line of a handler: raises when the context is missing.
HasContext == "worker" \in guc.flags /\ guc.club # NoClub

\* Mutant: set_config(..., false), the setting outlives the transaction.
Ended_Kept(g) == g

\* COMMIT or ROLLBACK: what was set locally is gone.
Ended(g) == Clean

\* The handler returns and its transaction commits.
Commit ==
    /\ stage = "working"
    /\ HasContext
    /\ applied' = [applied EXCEPT ![at] = TRUE]
    /\ guc' = Ended(guc)
    /\ stage' = "worked"
    /\ UNCHANGED <<todo, at, journal, mute>>

\* The handler or its commit fails; an exception may have no text.
Raise(silent) ==
    /\ stage = "working"
    /\ mute' = [mute EXCEPT ![at] = silent]
    /\ guc' = Ended(guc)
    /\ stage' = "raised"
    /\ UNCHANGED <<todo, at, journal, applied>>

\* journal_finish, after the handler and from the except
Finish ==
    /\ stage \in {"worked", "raised"}
    /\ guc' = JournalWriter(guc)
    /\ stage' = IF stage = "worked" THEN "finishing" ELSE "failing"
    /\ UNCHANGED <<todo, at, journal, applied, mute>>

\* Mutant: the verdict is 'done' whatever happened.
Verdict_Done(error) == "done"

\* status = 'error' if there is an error text
Verdict(error) == IF error THEN "error" ELSE "done"

Finished ==
    /\ stage \in {"finishing", "failing"}
    /\ journal' = [journal EXCEPT ![at] = Verdict(stage = "failing" /\ ~mute[at])]
    /\ guc' = Ended(guc)
    /\ stage' = "turn"
    /\ UNCHANGED <<todo, at, applied, mute>>

\* The verdict of a handler that returned is not written: the except takes over.
FinishFails(silent) ==
    /\ stage = "finishing"
    /\ mute' = [mute EXCEPT ![at] = silent]
    /\ guc' = Ended(guc)
    /\ stage' = "raised"
    /\ UNCHANGED <<todo, at, journal, applied>>

\* journal_finish fails in the except: the exception leaves the loop, and the clubs that
\* are still to come wait for the next pass.  A pass that is through ends the same way,
\* and so does one whose worker stops at any point and is started again.
PassEnds ==
    /\ stage # "idle"
    /\ todo' = {}
    /\ at' = NoClub
    /\ guc' = Clean
    /\ stage' = "idle"
    /\ UNCHANGED <<journal, applied, mute>>

Next ==
    \/ List
    \/ Listed
    \/ \E c \in Clubs : Start(c)
    \/ Started
    \/ StartFails
    \/ Enter
    \/ Commit
    \/ \E silent \in BOOLEAN : Raise(silent) \/ FinishFails(silent)
    \/ Finish
    \/ Finished
    \/ PassEnds

Spec == Init /\ [][Next]_vars

-----------------------------------------------------------------------------

\* A row that says 'done' stands for work that is stored: the verdict is written after
\* the handler's transaction has committed.  An exception without a text is the exception:
\* journal_finish takes it for none.
DoneMeansCommitted ==
    \A c \in Clubs : journal[c] = "done" /\ ~mute[c] => applied[c]

\* The worker works on one club at a time, and its journal and its list of clubs on none:
\* what the settings of a transaction open besides the calendar and the catalogue belongs
\* to the club of the turn, and then only while the handler runs.  The log of sign-ins takes
\* a line from anybody.
OneClubAtATime ==
    \A row \in Rows :
        /\ Writable(guc, "none", row) =>
               \/ stage = "working" /\ row.club = at
               \/ stage \in {"starting", "finishing", "failing"} /\ row.table = "jobs"
               \/ row.table = "auth_events"
        /\ row.table = "payments" /\ Readable(guc, "none", row) =>
               stage = "working" /\ row.club = at

=============================================================================
