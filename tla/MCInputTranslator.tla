-------------------------- MODULE MCInputTranslator --------------------------
(* Instance: a key for a button, an axis for the scratch, a pitch bend.      *)
EXTENDS InputTranslator

CONSTANTS k, white, scratchUp, scratchDown

MCInverted == [b \in Buttons |-> CASE b = scratchUp -> scratchDown [] b = scratchDown -> scratchUp [] OTHER -> b]

MCStartConfig ==
    {[j \in AllKeys |-> CASE j = k -> white [] j = <<"axis", "Up">> -> scratchUp
                         [] j = <<"axis", "Down">> -> scratchDown [] OTHER -> NoButton]}
=============================================================================
