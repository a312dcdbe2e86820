-------------------------- MODULE MCArenaConnection --------------------------
(* Instances of ArenaConnection for TLC.                                    *)
EXTENDS ArenaConnection


=============================================================================
