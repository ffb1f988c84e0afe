------------------------------- MODULE MCItch -------------------------------
(* A small instance of Itch for TLC. *)
EXTENDS Itch, TLC

RefSymmetry == Permutations(Refs)
=============================================================================
