----------------------------- MODULE MCScoreSync -----------------------------
EXTENDS ScoreSync, TLC
CONSTANTS u1, u2, s1, s2, s3, o1, o2

\* Three scores to upload, three to download, or one to be played while the others are everywhere.
MCStartStates ==
    {[stored |-> u1, local |-> {s1, s2, s3}, server |-> (u1 :> {} @@ u2 :> {s1})],
     [stored |-> u2, local |-> {}, server |-> (u1 :> {} @@ u2 :> {s1, s2, s3})],
     [stored |-> u1, local |-> {s1, s2}, server |-> (u1 :> {s1, s2} @@ u2 :> {s1, s2})]}

\* The settings begin all three at once; here two run beside each other.
MCKindsOf == o1 :> {"Upload"} @@ o2 :> {"Download", "Bokutachi"}
=============================================================================
