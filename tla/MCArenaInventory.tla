-------------------------- MODULE MCArenaInventory --------------------------
(* Model checking of ArenaInventory: the bounds are given in the cfg files. *)
EXTENDS ArenaInventory
=============================================================================
