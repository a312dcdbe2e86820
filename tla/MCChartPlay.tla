----------------------------- MODULE MCChartPlay -----------------------------
(* Instance: two sides, a course of three stages.                            *)
EXTENDS ChartPlay

CONSTANTS p1, p2

MCPlayers == {p1, p2}
MCKinds == {"Chart", "Battle", "Course", "Arena"}
=============================================================================
