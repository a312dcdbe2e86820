------------------------ MODULE MCArenaAvailability ------------------------
(* Model checking of ArenaAvailability: charts are model values.             *)
EXTENDS ArenaAvailability
=============================================================================
