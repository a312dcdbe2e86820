---------------------------- MODULE MCNoteJudging ----------------------------
(* Small charts for NoteJudging, in ticks of about a Good window: a jack    *)
(* closer than the Bad window, a long note with a note right behind it, two *)
(* long notes, and a note right before a long note.                         *)
EXTENDS NoteJudging, TLC

N(t) == <<[kind |-> "Normal", time |-> t]>>
L(a, b) == <<[kind |-> "LnBegin", time |-> a], [kind |-> "LnEnd", time |-> b]>>

MCCharts == {N(2) \o N(3) \o N(5),
             L(1, 3) \o N(4),
             L(1, 2) \o L(4, 6),
             N(1) \o L(3, 5)}

KeySymmetry == Permutations(NoteKeys)
==============================================================================
