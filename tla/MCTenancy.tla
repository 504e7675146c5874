------------------------------ MODULE MCTenancy ------------------------------
(* Instances of Tenancy for TLC. *)
EXTENDS Tenancy

OneAdmin == {<<"s", "c1">>}

=============================================================================
