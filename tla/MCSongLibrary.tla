---------------------------- MODULE MCSongLibrary ----------------------------
(* An instance: a folder with two charts, a folder inside it with one, and a *)
(* folder elsewhere that has none.                                           *)
EXTENDS SongLibrary

CONSTANTS outer, inner, other, c1, c2

MCRoots == {outer, inner, other}
MCCharts == {c1, c2}
MCBelow == [r \in MCRoots |-> CASE r = outer -> {c1, c2}
                               [] r = inner -> {c2}
                               [] r = other -> {}]

MCMaxAdds == [r \in MCRoots |-> IF r = outer THEN 2 ELSE 1]
=============================================================================
