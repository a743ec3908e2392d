------------------------------ MODULE MCListing ------------------------------
(* Instances of Listing for TLC. *)
EXTENDS Listing, TLC

Symmetry == Permutations(Entries)
=============================================================================
