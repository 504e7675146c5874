------------------------------- MODULE Chains -------------------------------
(***************************************************************************)
(* What a sign-in promises: a session that begins, lives and ends, and     *)
(* never comes back (docs/05-auth-redesign.md).  Refresh tokens, their     *)
(* rotation and their locks do not appear.                                 *)
(***************************************************************************)
CONSTANT Chain

VARIABLE life  \* life[c]: "none", "live" or "ended"

Init == life = [c \in Chain |-> "none"]

Begin(c) ==
    /\ life[c] = "none"
    /\ life' = [life EXCEPT ![c] = "live"]

\* One event may end many sessions: reuse of a token, a suspension.
End(S) ==
    /\ \A c \in S : life[c] = "live"
    /\ life' = [c \in Chain |-> IF c \in S THEN "ended" ELSE life[c]]

Next ==
    \/ \E c \in Chain : Begin(c)
    \/ \E S \in SUBSET Chain : End(S)

Spec == Init /\ [][Next]_life

=============================================================================
