------------------------------ MODULE MCWindows ------------------------------
(* Instances of Windows for TLC: three surface addresses and three         *)
(* windows: three can be open at once, and a later one reuse an address.   *)
EXTENDS Windows, TLC

Symmetry == Permutations(Handles)
=============================================================================
