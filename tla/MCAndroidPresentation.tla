------------------------ MODULE MCAndroidPresentation ------------------------
(* AndroidPresentation on small pools; windows and sizes are               *)
(* interchangeable.                                                        *)
EXTENDS AndroidPresentation, TLC

MCSymmetry == Permutations(Windows) \cup Permutations(Sizes)
=============================================================================
