------------------------------ MODULE MCGuiHost ------------------------------
(* GuiHost with a few threads; they are interchangeable.                   *)
EXTENDS GuiHost, TLC

MCSymmetry == Permutations(Callers)
=============================================================================
