--------------------------- MODULE MCSessionManager ---------------------------
(* Instances of SessionManager for TLC.                                    *)
EXTENDS SessionManager, TLC

\* Callers are alike.  (Ids and handles are chosen in an order: they are not.)
AnyCaller == Permutations(Callers)
=============================================================================
