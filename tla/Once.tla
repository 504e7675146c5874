-------------------------------- MODULE Once --------------------------------
(***************************************************************************)
(* What an Idempotency-Key promises (core/idempotency.py, the docstring's  *)
(* "the action runs only once, the first answer is repeated exactly"),     *)
(* without transactions, retries or processes that die.                    *)
(*                                                                         *)
(* Where success is answered before it is stored (AnswersEarly), such an   *)
(* answer is a promise for one effect: it is kept by doing just that, or   *)
(* it is broken and nothing is done.                                       *)
(***************************************************************************)
EXTENDS Sequences

CONSTANTS Keys, Bodies, Results, AnswersEarly

VARIABLES
    effects,   \* effects[k]: what has been done under key k, in order
    told,      \* told[k]: the answers clients were given under key k
    promised,  \* promised[k]: what has been answered and is not done yet
    broken     \* broken[k]: what was answered and is not going to be done

onceVars == <<effects, told, promised, broken>>

Effect == [body : Bodies, result : Results]

Init ==
    /\ effects = [k \in Keys |-> <<>>]
    /\ told = [k \in Keys |-> {}]
    /\ promised = [k \in Keys |-> {}]
    /\ broken = [k \in Keys |-> {}]

Pledge(k, e) ==
    /\ AnswersEarly
    /\ effects[k] = <<>> /\ promised[k] = {}
    /\ promised' = [promised EXCEPT ![k] = {e}]
    /\ UNCHANGED <<effects, told, broken>>

Do(k, e) ==
    /\ effects[k] = <<>>
    /\ promised[k] = IF AnswersEarly THEN {e} ELSE {}
    /\ effects' = [effects EXCEPT ![k] = <<e>>]
    /\ promised' = [promised EXCEPT ![k] = {}]
    /\ UNCHANGED <<told, broken>>

Break(k, e) ==
    /\ promised[k] = {e}
    /\ promised' = [promised EXCEPT ![k] = {}]
    /\ broken' = [broken EXCEPT ![k] = @ \union {e}]
    /\ UNCHANGED <<effects, told>>

Tell(k, e) ==
    /\ effects[k] = <<e>> \/ e \in promised[k] \union broken[k]
    /\ told' = [told EXCEPT ![k] = @ \union {e}]
    /\ UNCHANGED <<effects, promised, broken>>

Next ==
    \E k \in Keys, e \in Effect : Pledge(k, e) \/ Do(k, e) \/ Break(k, e) \/ Tell(k, e)

Spec == Init /\ [][Next]_onceVars

=============================================================================
