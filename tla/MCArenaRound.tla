---------------------------- MODULE MCArenaRound ----------------------------
(* Instances of ArenaRound for TLC.                                        *)
EXTENDS ArenaRound

=============================================================================
