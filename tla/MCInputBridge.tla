---------------------------- MODULE MCInputBridge ----------------------------
(* InputBridge on small instances: two Android keys that translate to the  *)
(* same Linux key, as WINDOW and META_LEFT do, and one with no translation.*)
EXTENDS InputBridge, TLC

CONSTANTS windowKey, metaLeft, KEY_LEFTMETA

MCAndroidToLinux ==
    [k \in Keycodes |->
        IF k \in {windowKey, metaLeft} THEN KEY_LEFTMETA ELSE KEY_RESERVED]

\* Fingers, and screen positions, are interchangeable (safety runs only).
MCSymmetry == Permutations(Pointers) \cup Permutations(Positions)
=============================================================================
