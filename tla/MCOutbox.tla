------------------------------ MODULE MCOutbox ------------------------------
(* Instances of Outbox for TLC. *)
EXTENDS Outbox

CONSTANT here  \* the club the commands are for

FirstClub == [c \in Commands |-> here]

=============================================================================
