------------------------------- MODULE MCBills -------------------------------
(* Instances of Bills for TLC. *)
EXTENDS Bills, TLC

OrderSymmetry == Permutations(Orders) \union Permutations(Requests)

=============================================================================
