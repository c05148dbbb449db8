---------------------------- MODULE MCInventory ----------------------------
(* Model checking of Inventory. *)
EXTENDS Inventory, TLC

Symmetry == Permutations(Items) \cup Permutations(Devices) \cup Permutations(Sales)
=============================================================================
