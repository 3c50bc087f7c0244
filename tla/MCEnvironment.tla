---------------------------- MODULE MCEnvironment ----------------------------
(* Instances of Environment for TLC.                                        *)
EXTENDS Environment, TLC

MCSymmetry == Permutations(Callers)
=============================================================================
