----------------------------- MODULE RootfsStore -----------------------------
(***************************************************************************)
(* What EnvironmentManager and EnvironmentStorage promise about the Linux  *)
(* root file systems in their care: an environment has no root file system *)
(* or one complete version of it; it moves from one version to the next in *)
(* a single step, or to a copy of another environment's; and it is lost    *)
(* only when the environment is removed, for good.                         *)
(***************************************************************************)
EXTENDS Integers

CONSTANTS Ids,      \* environments
          Versions  \* versions of a root file system, in the order they are made

VARIABLES store,  \* the version each environment has, 0 for none
          gone    \* the environments that have been removed

vars == <<store, gone>>

Init == store = [i \in Ids |-> 0] /\ gone = {}

Replace(i) ==
    /\ i \notin gone
    /\ \E n \in Versions : n > store[i] /\ store' = [store EXCEPT ![i] = n]
    /\ UNCHANGED gone

Copy(i, j) ==
    /\ i \notin gone
    /\ store[j] # 0
    /\ store' = [store EXCEPT ![i] = store[j]]
    /\ UNCHANGED gone

Remove(i) ==
    /\ store' = [store EXCEPT ![i] = 0]
    /\ gone' = gone \cup {i}

Next == \E i \in Ids : Replace(i) \/ (\E j \in Ids : Copy(i, j)) \/ Remove(i)

Spec == Init /\ [][Next]_vars
=============================================================================
