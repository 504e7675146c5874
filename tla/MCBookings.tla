----------------------------- MODULE MCBookings -----------------------------
(* Instances of Bookings for TLC. *)
EXTENDS Bookings, TLC

IdSymmetry == Permutations(Ids) \union Permutations(Requests)

=============================================================================
