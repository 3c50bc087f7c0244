---------------------------- MODULE MCVsyncBridge ----------------------------
(* VsyncBridge has no constants and finitely many states.                  *)
EXTENDS VsyncBridge
=============================================================================
