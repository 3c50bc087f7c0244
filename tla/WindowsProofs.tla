----------------------------- MODULE WindowsProofs -----------------------------
(* Proofs about Windows, for any number of surfaces, windows, requests and *)
(* stops.                                                                  *)
EXTENDS Windows, Extremes, TLAPS

-----------------------------------------------------------------------------
(* The inductive invariants.                                               *)

\* Entries of the two tables.
Entries == [active : BOOLEAN, mode : Modes, z : Nat, handle : Handles]
TrackerEntries == [active : BOOLEAN, handle : Handles]

Tables ==
    /\ model \in [DOMAIN model -> Entries] /\ DOMAIN model \subseteq 1..(nextId - 1)
    /\ tracker \in [DOMAIN tracker -> TrackerEntries] /\ DOMAIN tracker \subseteq 1..(nextId - 1)

\* Heights below the next one, no two the same: the topmost of the windows
\* that are left is above the others when it becomes active.
Stacked(m, n) ==
    /\ \A i \in DOMAIN m : m[i].z \in 1..(n - 1)
    /\ \A i, j \in DOMAIN m : i # j => m[i].z # m[j].z

TopActive(m) == \A i, j \in DOMAIN m : m[i].active /\ i # j => m[j].z < m[i].z
OneActive(t) == \A i, j \in DOMAIN t : t[i].active /\ t[j].active => i = j

TablesOK == Tables /\ Stacked(model, nextZ) /\ TopActive(model) /\ OneActive(tracker)

\* The rest of the types.
Requests == [id : Ids \cup {NoId}, handle : Handles \cup {NoHandle}, op : Actions]
ShellStates ==
    [at : {"idle", "off", "called", "activate", "minimize", "deactivate", "close", "pushed", "joined",
           "terminated"},
     id : Ids \cup {NoId}, op : {"activate", "minimize", "close"},
     handle : Handles \cup {NoHandle}]
Tasks ==
    [at : {"rest", "register", "unregister", "raise", "focus", "deactivate", "unfocus"},
     id : Ids \cup {NoId}, handle : Handles \cup {NoHandle}]
Surfaces == [id : Ids \cup {NoId}, mapped : BOOLEAN, shown : BOOLEAN]
CoreOK ==
    /\ host \in {"STOPPED", "STARTING", "RUNNING", "STOPPING", "DOWN", "crashed"}
    /\ surface \in [Handles -> Surfaces]
    /\ nextId \in 1..(MaxId + 1) /\ nextZ \in Nat \ {0}
    /\ queue \in Seq(Requests) /\ batch \in Seq(Requests)
    /\ wakeFd \in BOOLEAN /\ wake \in BOOLEAN
    /\ loop \in {"run", "drained", "batch", "crashed"}
    /\ loop # "batch" => batch = <<>> \/ host = "crashed"
    /\ task \in Tasks /\ ui \in {"idle", "pushed"} /\ shell \in ShellStates
    /\ requests \in 0..MaxRequests /\ stops \in 0..MaxStops

\* A window on its way into the tracker, or out of it, is a live surface; the
\* one on its way out has left the model.
TaskInOrder ==
    task.at \in {"register", "unregister"} =>
        /\ task.handle \in Handles /\ surface[task.handle].id = task.id
        /\ task.at = "register" => task.id \in 1..(nextId - 1)
        /\ task.at = "unregister" => ~Has(model, task.id)

TableInv == CoreOK /\ TablesOK /\ TablesAreLive /\ TaskInOrder

\* Between stop() and start() the model is empty, the loop is at rest and the
\* shell's thread is gone; a host that runs has its eventfd.
Rest == {"STOPPED", "STARTING", "DOWN"}
HostInOrder ==
    /\ host \in Rest => /\ model = NoTable /\ loop = "run" /\ task.at = "rest"
                       /\ shell.at = "terminated"
    /\ host = "STOPPING" => shell.at \in {"joined", "terminated"}
    /\ host = "RUNNING" => wakeFd

\* The queue holds ids that were given out, and pointers only from a shell
\* that has not been joined.
QueueInOrder ==
    \A k \in 1..Len(queue) :
        queue[k].id < nextId /\ (shell.at = "terminated" => queue[k].handle = NoHandle)

WakeInv == TableInv /\ HostInOrder /\ QueueInOrder /\ NoLostWake

\* The taskbar works on a window with the pointer it looked up, which is still
\* that window's while the model has it.
ShellInOrder ==
    /\ shell.id < nextId
    /\ shell.at = "activate" => shell.op = "activate"
    /\ shell.at \in {"minimize", "deactivate"} => shell.op = "minimize"
    /\ shell.at \in {"activate", "minimize", "deactivate", "close"} /\ Has(model, shell.id)
           => model[shell.id].handle = shell.handle

\* A view that does not agree with the model is set right by an action of the
\* taskbar that is still to come.
Settles(a, h) == a.handle = h /\ a.op \in {"activate", "minimize"}
Pending(h) ==
    \/ \E k \in 1..Len(queue) : Settles(queue[k], h)
    \/ \E k \in 1..Len(batch) : Settles(batch[k], h)
    \/ shell.at \in {"deactivate", "close"} /\ Settles(shell, h)
Agrees(i) ==
    LET s == surface[model[i].handle] IN s.mapped => (s.shown <=> model[i].mode # "MINIMIZED")
AgreesOrPending ==
    host = "RUNNING" => \A i \in DOMAIN model : Agrees(i) \/ Pending(model[i].handle)

\* The window that is about to be raised is shown already.
RaiseInOrder ==
    task.at = "raise" =>
        /\ task.handle \in Handles /\ surface[task.handle].shown
        /\ Has(model, task.id) => model[task.id].handle = task.handle

\* No two live surfaces carry the same id.
SurfacesInOrder ==
    \A g \in Handles :
        /\ surface[g].id < nextId
        /\ \A h \in Handles : surface[g].id = surface[h].id => g = h \/ surface[g].id = NoId

ScreenInv ==
    /\ TableInv /\ HostInOrder /\ ShellInOrder /\ RaiseInOrder /\ SurfacesInOrder
    /\ AgreesOrPending

-----------------------------------------------------------------------------
(* What the operators of the tables return.                                *)

\* The window on top of a stack.
LEMMA TopmostOf ==
    ASSUME NEW m, DOMAIN m # {}, NEW n \in Nat, \A i \in DOMAIN m : m[i].z \in 0..n
    PROVE  Topmost(m) \in DOMAIN m /\ \A j \in DOMAIN m : m[j].z <= m[Topmost(m)].z
<1> DEFINE T == {m[i].z : i \in DOMAIN m}
<1>1. T \in SUBSET (0..n) /\ T # {}
  OBVIOUS
<1>2. PICK t \in T : \A u \in T : u <= t
  <2> HIDE DEF T
  <2> QED BY <1>1, Greatest
<1>3. PICK i \in DOMAIN m : t = m[i].z
  OBVIOUS
<1>4. \A j \in DOMAIN m : m[j].z <= m[i].z
  BY <1>2, <1>3
<1>5. \E k \in DOMAIN m : \A j \in DOMAIN m : m[j].z <= m[k].z
  BY <1>4
<1> QED BY <1>5, Zenon DEF Topmost

-----------------------------------------------------------------------------
(* What the operations on the tables do.                                   *)

LEMMA RegisterWindowDoes ==
    ASSUME NEW m, m \in [DOMAIN m -> Entries], NEW i, NEW h \in Handles, nextZ \in Nat \ {0},
           Stacked(m, nextZ)
    PROVE  LET u == RegisterWindow(m, i, h) IN
           /\ u \in [DOMAIN u -> Entries] /\ DOMAIN u = DOMAIN m \cup {i}
           /\ Stacked(u, nextZ + 1) /\ TopActive(u) /\ u[i].handle = h
           /\ \A j \in DOMAIN m \ {i} : u[j].handle = m[j].handle /\ u[j].mode = m[j].mode
<1> DEFINE u == RegisterWindow(m, i, h)
<1>1. DOMAIN u = DOMAIN m \cup {i}
  BY DEF RegisterWindow
<1>2. u[i] = [active |-> TRUE, mode |-> "NORMAL", z |-> nextZ, handle |-> h]
  BY DEF RegisterWindow
<1>3. \A j \in DOMAIN m \ {i} : u[j] = [m[j] EXCEPT !.active = FALSE]
  BY DEF RegisterWindow
<1>4. u[i] \in Entries /\ u[i].z = nextZ /\ u[i].handle = h
  BY <1>2 DEF Entries, Modes
<1>5. \A j \in DOMAIN m \ {i} :
        /\ u[j] \in Entries /\ u[j].z = m[j].z /\ u[j].handle = m[j].handle /\ u[j].mode = m[j].mode
        /\ u[j].active = FALSE
  <2> SUFFICES ASSUME NEW j \in DOMAIN m \ {i}
               PROVE  /\ u[j] \in Entries /\ u[j].z = m[j].z /\ u[j].handle = m[j].handle
                      /\ u[j].mode = m[j].mode /\ u[j].active = FALSE
    OBVIOUS
  <2>1. m[j] \in Entries /\ u[j] = [m[j] EXCEPT !.active = FALSE]
    BY <1>3
  <2> HIDE DEF u
  <2> QED BY <2>1 DEF Entries
<1>6. u \in [DOMAIN u -> Entries]
  <2>1. \A j \in DOMAIN m \cup {i} : u[j] \in Entries
    BY <1>4, <1>5
  <2>2. u = [j \in DOMAIN m \cup {i} |-> u[j]]
    BY DEF RegisterWindow
  <2> HIDE DEF u
  <2> QED BY <1>1, <2>1, <2>2
<1> HIDE DEF u
<1>7. Stacked(u, nextZ + 1) /\ TopActive(u)
  BY <1>1, <1>4, <1>5 DEF Stacked, TopActive
<1> QED BY <1>1, <1>4, <1>5, <1>6, <1>7 DEF u

\* An edit of a table: windows may go, and those that stay keep their surface.
Keeps(m, u) ==
    /\ u \in [DOMAIN u -> Entries] /\ DOMAIN u \subseteq DOMAIN m
    /\ \A j \in DOMAIN u : u[j].handle = m[j].handle

LEMMA WithoutDoes ==
    ASSUME NEW m, m \in [DOMAIN m -> Entries], NEW i
    PROVE  LET u == Without(m, i) IN
           /\ Keeps(m, u) /\ DOMAIN u = DOMAIN m \ {i} /\ \A j \in DOMAIN u : u[j] = m[j]
BY DEF Without, Keeps

LEMMA EntryActive ==
    ASSUME NEW e \in Entries, NEW b \in BOOLEAN
    PROVE  LET f == [e EXCEPT !.active = b] IN
           f \in Entries /\ f.z = e.z /\ f.mode = e.mode /\ f.handle = e.handle /\ f.active = b
BY DEF Entries

\* One window becomes active, or stops to be so.
LEMMA ActiveDoes ==
    ASSUME NEW m, m \in [DOMAIN m -> Entries], NEW i \in DOMAIN m, NEW b \in BOOLEAN
    PROVE  LET u == [m EXCEPT ![i].active = b] IN
           /\ Keeps(m, u) /\ DOMAIN u = DOMAIN m
           /\ \A j \in DOMAIN m : u[j].z = m[j].z /\ u[j].mode = m[j].mode
           /\ u[i].active = b /\ \A j \in DOMAIN m \ {i} : u[j].active = m[j].active
<1> DEFINE e == [m[i] EXCEPT !.active = b]
<1>1. e \in Entries /\ e.z = m[i].z /\ e.mode = m[i].mode /\ e.handle = m[i].handle /\ e.active = b
  BY EntryActive
<1>2. [m EXCEPT ![i].active = b] = [m EXCEPT ![i] = e]
  OBVIOUS
<1> HIDE DEF e
<1> QED BY <1>1, <1>2 DEF Keeps

LEMMA StackedKeeps ==
    ASSUME NEW m, NEW u, NEW n, Stacked(m, n), DOMAIN u \subseteq DOMAIN m,
           \A j \in DOMAIN u : u[j].z = m[j].z
    PROVE  Stacked(u, n)
BY DEF Stacked

LEMMA TopActiveKeeps ==
    ASSUME NEW m, NEW u, TopActive(m), DOMAIN u \subseteq DOMAIN m,
           \A j \in DOMAIN u : u[j].z = m[j].z /\ (u[j].active => m[j].active)
    PROVE  TopActive(u)
BY DEF TopActive

LEMMA UnregisterWindowDoes ==
    ASSUME NEW m, m \in [DOMAIN m -> Entries], NEW n \in Nat, Stacked(m, n), TopActive(m), NEW i
    PROVE  LET u == UnregisterWindow(m, i) IN
           /\ Keeps(m, u) /\ DOMAIN u = DOMAIN m \ {i} /\ Stacked(u, n) /\ TopActive(u)
           /\ \A j \in DOMAIN u : u[j].mode = m[j].mode
<1> DEFINE rest == Without(m, i)
           u == UnregisterWindow(m, i)
           top == Topmost(rest)
<1>1. /\ Keeps(m, rest) /\ DOMAIN rest = DOMAIN m \ {i} /\ \A j \in DOMAIN rest : rest[j] = m[j]
  BY WithoutDoes
<1>2. rest \in [DOMAIN rest -> Entries] /\ Stacked(rest, n) /\ TopActive(rest)
  <2> HIDE DEF rest
  <2> QED BY <1>1, StackedKeeps, TopActiveKeeps DEF Keeps
<1>3. CASE Has(m, i) /\ m[i].active /\ rest # NoTable
  <2>1. u = [rest EXCEPT ![top].active = TRUE]
    BY <1>3 DEF UnregisterWindow
  <2>2. DOMAIN rest # {}
    BY <1>3 DEF Without, NoTable
  <2> HIDE DEF rest
  <2>3. top \in DOMAIN rest /\ \A j \in DOMAIN rest : rest[j].z <= rest[top].z
    <3>1. \A j \in DOMAIN rest : rest[j].z \in 0..n
      BY <1>2 DEF Stacked
    <3> QED BY <2>2, <3>1, TopmostOf
  <2>4. \A j \in DOMAIN rest : ~rest[j].active
    <3> SUFFICES ASSUME NEW j \in DOMAIN rest, rest[j].active PROVE FALSE
      OBVIOUS
    <3>1. /\ j \in DOMAIN m /\ i \in DOMAIN m /\ i # j /\ m[i].active /\ m[j].active
          /\ m[i].z \in Nat /\ m[j].z \in Nat
      BY <1>1, <1>3 DEF Has, Entries
    <3>2. m[j].z < m[i].z /\ m[i].z < m[j].z
      BY <3>1 DEF TopActive
    <3> QED BY <3>1, <3>2
  <2> HIDE DEF top, u
  <2>5. /\ Keeps(rest, u) /\ DOMAIN u = DOMAIN rest
        /\ \A j \in DOMAIN rest : u[j].z = rest[j].z /\ u[j].mode = rest[j].mode
        /\ u[top].active /\ \A j \in DOMAIN rest \ {top} : u[j].active = rest[j].active
    BY <1>2, <2>1, <2>3, ActiveDoes
  <2>6. Stacked(u, n)
    BY <1>2, <2>5, StackedKeeps
  <2>7. TopActive(u)
    <3> SUFFICES ASSUME NEW j \in DOMAIN u, NEW k \in DOMAIN u, u[j].active, j # k
                 PROVE  u[k].z < u[j].z
      BY DEF TopActive
    <3>1. j = top
      BY <2>4, <2>5
    <3>2. rest[k].z <= rest[top].z /\ rest[k].z # rest[top].z /\ rest[k].z \in Nat /\ rest[top].z \in Nat
      BY <1>2, <2>3, <2>5, <3>1 DEF Stacked, Entries
    <3> QED BY <2>3, <2>5, <3>1, <3>2
  <2>8. Keeps(m, u) /\ \A j \in DOMAIN u : u[j].mode = m[j].mode
    BY <1>1, <2>5 DEF Keeps
  <2> QED BY <1>1, <2>5, <2>6, <2>7, <2>8 DEF u
<1>4. CASE ~(Has(m, i) /\ m[i].active /\ rest # NoTable)
  <2>1. u = rest
    BY <1>4 DEF UnregisterWindow
  <2> HIDE DEF rest, u
  <2> QED BY <1>1, <1>2, <2>1 DEF u
<1> QED BY <1>3, <1>4

LEMMA RaisedDoes ==
    ASSUME NEW m, m \in [DOMAIN m -> Entries], nextZ \in Nat \ {0}, Stacked(m, nextZ), NEW i
    PROVE  LET u == Raised(m, i) IN
           /\ Keeps(m, u) /\ DOMAIN u = DOMAIN m /\ TopActive(u)
           /\ Stacked(u, IF Has(m, i) THEN nextZ + 1 ELSE nextZ)
           /\ \A j \in DOMAIN m \ {i} : u[j].mode = m[j].mode
           /\ Has(m, i) => u[i].mode # "MINIMIZED"
<1> DEFINE u == Raised(m, i)
           md == IF m[i].mode = "MINIMIZED" THEN "NORMAL" ELSE m[i].mode
           e == [m[i] EXCEPT !.active = TRUE, !.z = nextZ, !.mode = md]
<1>1. DOMAIN u = DOMAIN m /\ \A j \in DOMAIN m \ {i} : u[j] = [m[j] EXCEPT !.active = FALSE]
  BY DEF Raised
<1>2. /\ \A j \in DOMAIN m \ {i} : /\ u[j] \in Entries /\ u[j].z = m[j].z /\ u[j].mode = m[j].mode
                                   /\ u[j].handle = m[j].handle /\ ~u[j].active
  <2> SUFFICES ASSUME NEW j \in DOMAIN m \ {i}
               PROVE  /\ u[j] \in Entries /\ u[j].z = m[j].z /\ u[j].mode = m[j].mode
                      /\ u[j].handle = m[j].handle /\ ~u[j].active
    OBVIOUS
  <2>1. m[j] \in Entries
    OBVIOUS
  <2> HIDE DEF u
  <2> QED BY <1>1, <2>1, EntryActive
<1>3. ASSUME i \in DOMAIN m
      PROVE  /\ u[i] \in Entries /\ u[i].z = nextZ /\ u[i].mode # "MINIMIZED" /\ u[i].handle = m[i].handle
             /\ u[i].active
  <2>1. m[i] \in Entries /\ md \in Modes \ {"MINIMIZED"}
    BY <1>3 DEF Entries, Modes
  <2>2. u[i] = [m[i] EXCEPT !.active = TRUE, !.z = nextZ,
                            !.mode = IF @ = "MINIMIZED" THEN "NORMAL" ELSE @]
    BY <1>3 DEF Raised
  <2>3. u[i] = e
    BY <2>1, <2>2 DEF Entries
  <2> HIDE DEF md, u
  <2> QED BY <2>1, <2>3 DEF Entries
<1>4. u = [j \in DOMAIN m |-> u[j]]
  BY DEF Raised
<1> HIDE DEF u
<1>5. Keeps(m, u)
  <2>1. \A j \in DOMAIN m : u[j] \in Entries /\ u[j].handle = m[j].handle
    BY <1>2, <1>3
  <2> QED BY <1>1, <1>4, <2>1 DEF Keeps
<1>6. TopActive(u)
  BY <1>1, <1>2, <1>3 DEF TopActive, Stacked
<1>7. Stacked(u, IF Has(m, i) THEN nextZ + 1 ELSE nextZ)
  <2>1. CASE Has(m, i)
    <3>1. Stacked(u, nextZ + 1)
      BY <1>1, <1>2, <1>3, <2>1 DEF Stacked, Has
    <3> QED BY <2>1, <3>1
  <2>2. CASE ~Has(m, i)
    <3>1. Stacked(u, nextZ)
      BY <1>1, <1>2, <2>2, StackedKeeps DEF Has
    <3> QED BY <2>2, <3>1
  <2> QED BY <2>1, <2>2
<1> QED BY <1>1, <1>2, <1>3, <1>5, <1>6, <1>7 DEF u, Has

LEMMA WithModeDoes ==
    ASSUME NEW m, m \in [DOMAIN m -> Entries], NEW i, NEW mode \in Modes
    PROVE  LET u == WithMode(m, i, mode) IN
           /\ Keeps(m, u) /\ DOMAIN u = DOMAIN m
           /\ \A j \in DOMAIN m : u[j].z = m[j].z /\ u[j].active = m[j].active
           /\ \A j \in DOMAIN m \ {i} : u[j].mode = m[j].mode
           /\ Has(m, i) => u[i].mode = mode
<1>1. CASE ~Has(m, i)
  BY <1>1 DEF WithMode, Keeps
<1>2. CASE Has(m, i)
  <2> DEFINE e == [m[i] EXCEPT !.mode = mode]
  <2>1. m[i] \in Entries /\ i \in DOMAIN m
    BY <1>2 DEF Has
  <2>2. e \in Entries /\ e.z = m[i].z /\ e.mode = mode /\ e.handle = m[i].handle /\ e.active = m[i].active
    BY <2>1 DEF Entries
  <2>3. WithMode(m, i, mode) = [m EXCEPT ![i] = e]
    BY <1>2 DEF WithMode
  <2> HIDE DEF e
  <2> QED BY <2>1, <2>2, <2>3 DEF Keeps
<1> QED BY <1>1, <1>2

LEMMA DeactivatedDoes ==
    ASSUME NEW m, m \in [DOMAIN m -> Entries], NEW i
    PROVE  LET u == Deactivated(m, i) IN
           /\ Keeps(m, u) /\ DOMAIN u = DOMAIN m
           /\ \A j \in DOMAIN m : /\ u[j].z = m[j].z /\ u[j].mode = m[j].mode
                                  /\ u[j].active => m[j].active
<1>1. CASE ~Has(m, i)
  BY <1>1 DEF Deactivated, Keeps
<1>2. CASE Has(m, i)
  <2>1. i \in DOMAIN m /\ Deactivated(m, i) = [m EXCEPT ![i].active = FALSE]
    BY <1>2 DEF Has, Deactivated
  <2> DEFINE u == [m EXCEPT ![i].active = FALSE]
  <2>2. /\ Keeps(m, u) /\ DOMAIN u = DOMAIN m
        /\ \A j \in DOMAIN m : u[j].z = m[j].z /\ u[j].mode = m[j].mode
        /\ u[i].active = FALSE /\ \A j \in DOMAIN m \ {i} : u[j].active = m[j].active
    BY <2>1, ActiveDoes
  <2> HIDE DEF u
  <2> QED BY <2>1, <2>2 DEF u
<1> QED BY <1>1, <1>2

\* The same of the tracker.
TrackerKeeps(t, u) ==
    /\ u \in [DOMAIN u -> TrackerEntries] /\ DOMAIN u \subseteq DOMAIN t
    /\ \A j \in DOMAIN u : u[j].handle = t[j].handle

LEMMA TrackerActive ==
    ASSUME NEW e \in TrackerEntries, NEW b \in BOOLEAN
    PROVE  LET f == [e EXCEPT !.active = b] IN
           f \in TrackerEntries /\ f.handle = e.handle /\ f.active = b
BY DEF TrackerEntries

LEMMA TrackerActiveDoes ==
    ASSUME NEW t, t \in [DOMAIN t -> TrackerEntries], NEW i \in DOMAIN t, NEW b \in BOOLEAN
    PROVE  LET u == [t EXCEPT ![i].active = b] IN
           /\ TrackerKeeps(t, u) /\ DOMAIN u = DOMAIN t
           /\ u[i].active = b /\ \A j \in DOMAIN t \ {i} : u[j].active = t[j].active
<1> DEFINE e == [t[i] EXCEPT !.active = b]
<1>1. e \in TrackerEntries /\ e.handle = t[i].handle /\ e.active = b
  BY TrackerActive
<1>2. [t EXCEPT ![i].active = b] = [t EXCEPT ![i] = e]
  OBVIOUS
<1> HIDE DEF e
<1> QED BY <1>1, <1>2 DEF TrackerKeeps

LEMMA TrackerRegisterDoes ==
    ASSUME NEW t, t \in [DOMAIN t -> TrackerEntries], NEW i, NEW h \in Handles
    PROVE  LET u == TrackerRegister(t, i, h) IN
           /\ u \in [DOMAIN u -> TrackerEntries] /\ DOMAIN u = DOMAIN t \cup {i}
           /\ OneActive(u) /\ u[i].handle = h
           /\ \A j \in DOMAIN t \ {i} : u[j].handle = t[j].handle
<1> DEFINE u == TrackerRegister(t, i, h)
<1>1. DOMAIN u = DOMAIN t \cup {i} /\ u = [j \in DOMAIN t \cup {i} |-> u[j]]
  BY DEF TrackerRegister
<1>2. u[i] \in TrackerEntries /\ u[i].handle = h
  BY DEF TrackerRegister, TrackerEntries
<1>3. \A j \in DOMAIN t \ {i} : u[j] \in TrackerEntries /\ u[j].handle = t[j].handle /\ ~u[j].active
  <2> SUFFICES ASSUME NEW j \in DOMAIN t \ {i}
               PROVE  u[j] \in TrackerEntries /\ u[j].handle = t[j].handle /\ ~u[j].active
    OBVIOUS
  <2>1. u[j] = [t[j] EXCEPT !.active = FALSE] /\ t[j] \in TrackerEntries
    BY DEF TrackerRegister
  <2> HIDE DEF u
  <2> QED BY <2>1, TrackerActive
<1> HIDE DEF u
<1>4. u \in [DOMAIN u -> TrackerEntries]
  BY <1>1, <1>2, <1>3
<1>5. OneActive(u)
  BY <1>1, <1>2, <1>3 DEF OneActive
<1> QED BY <1>1, <1>2, <1>3, <1>4, <1>5 DEF u

LEMMA FocusedDoes ==
    ASSUME NEW t, t \in [DOMAIN t -> TrackerEntries], NEW i
    PROVE  TrackerKeeps(t, Focused(t, i)) /\ OneActive(Focused(t, i))
<1> DEFINE u == Focused(t, i)
<1>1. DOMAIN u = DOMAIN t /\ u = [j \in DOMAIN t |-> u[j]]
  BY DEF Focused
<1>2. \A j \in DOMAIN t : u[j] \in TrackerEntries /\ u[j].handle = t[j].handle /\ (u[j].active => j = i)
  <2> SUFFICES ASSUME NEW j \in DOMAIN t
               PROVE  u[j] \in TrackerEntries /\ u[j].handle = t[j].handle /\ (u[j].active => j = i)
    OBVIOUS
  <2>1. u[j] = [t[j] EXCEPT !.active = (j = i)] /\ t[j] \in TrackerEntries /\ (j = i) \in BOOLEAN
    BY DEF Focused
  <2>2. u[j] \in TrackerEntries /\ u[j].handle = t[j].handle /\ u[j].active = (j = i)
    <3> HIDE DEF u
    <3> QED BY <2>1, TrackerActive
  <2> HIDE DEF u
  <2> QED BY <2>2
<1> HIDE DEF u
<1>3. TrackerKeeps(t, u) /\ OneActive(u)
  BY <1>1, <1>2 DEF TrackerKeeps, OneActive
<1> QED BY <1>3 DEF u

LEMMA TrackerDeactivatedDoes ==
    ASSUME NEW t, t \in [DOMAIN t -> TrackerEntries], NEW i, OneActive(t)
    PROVE  TrackerKeeps(t, Deactivated(t, i)) /\ OneActive(Deactivated(t, i))
<1>1. CASE ~Has(t, i)
  BY <1>1 DEF Deactivated, TrackerKeeps
<1>2. CASE Has(t, i)
  <2> DEFINE u == [t EXCEPT ![i].active = FALSE]
  <2>1. i \in DOMAIN t /\ Deactivated(t, i) = u
    BY <1>2 DEF Has, Deactivated
  <2>2. /\ TrackerKeeps(t, u) /\ DOMAIN u = DOMAIN t
        /\ u[i].active = FALSE /\ \A j \in DOMAIN t \ {i} : u[j].active = t[j].active
    BY <2>1, TrackerActiveDoes
  <2> HIDE DEF u
  <2>3. OneActive(u)
    BY <2>1, <2>2 DEF OneActive
  <2> QED BY <2>1, <2>2, <2>3
<1> QED BY <1>1, <1>2

LEMMA TrackerUnregisterDoes ==
    ASSUME NEW t, t \in [DOMAIN t -> TrackerEntries], NEW n \in Nat, DOMAIN t \subseteq 1..n, NEW i,
           OneActive(t)
    PROVE  LET u == TrackerUnregister(t, i) IN
           TrackerKeeps(t, u) /\ DOMAIN u = DOMAIN t \ {i} /\ OneActive(u)
<1> DEFINE rest == Without(t, i)
           u == TrackerUnregister(t, i)
           last == CHOOSE k \in DOMAIN rest : \A j \in DOMAIN rest : j <= k
<1>1. /\ rest \in [DOMAIN rest -> TrackerEntries] /\ DOMAIN rest = DOMAIN t \ {i}
      /\ \A j \in DOMAIN rest : rest[j] = t[j]
  BY DEF Without
<1>2. OneActive(rest) /\ TrackerKeeps(t, rest)
  <2> HIDE DEF rest
  <2> QED BY <1>1 DEF OneActive, TrackerKeeps
<1>3. CASE Has(t, i) /\ rest # NoTable /\ \A j \in DOMAIN rest : ~rest[j].active
  <2>1. u = [rest EXCEPT ![last].active = TRUE]
    BY <1>3 DEF TrackerUnregister
  <2>2. DOMAIN rest # {}
    BY <1>3 DEF Without, NoTable
  <2> HIDE DEF rest
  <2>3. last \in DOMAIN rest
    <3>1. DOMAIN rest \in SUBSET (0..n)
      BY <1>1
    <3>2. \E k \in DOMAIN rest : \A j \in DOMAIN rest : j <= k
      BY <2>2, <3>1, Greatest
    <3> QED BY <3>2, Zenon
  <2> HIDE DEF last, u
  <2>4. /\ TrackerKeeps(rest, u) /\ DOMAIN u = DOMAIN rest
        /\ \A j \in DOMAIN rest \ {last} : u[j].active = rest[j].active
    BY <1>1, <2>1, <2>3, TrackerActiveDoes
  <2>5. OneActive(u)
    BY <1>3, <2>4 DEF OneActive
  <2>6. TrackerKeeps(t, u)
    BY <1>1, <2>4 DEF TrackerKeeps
  <2> QED BY <1>1, <2>4, <2>5, <2>6 DEF u
<1>4. CASE ~(Has(t, i) /\ rest # NoTable /\ \A j \in DOMAIN rest : ~rest[j].active)
  <2>1. u = rest
    BY <1>4 DEF TrackerUnregister
  <2> HIDE DEF rest, u
  <2> QED BY <1>1, <1>2, <2>1 DEF u
<1> QED BY <1>3, <1>4

-----------------------------------------------------------------------------
(* Types, the order of the windows, and the surfaces of the tables.        *)

LEMMA TableParts == TableInv => TypeOK /\ ActiveIsTop /\ TablesAreLive
<1> SUFFICES ASSUME TableInv PROVE TypeOK /\ ActiveIsTop /\ TablesAreLive
  OBVIOUS
<1>1. ActiveIsTop /\ TablesAreLive
  BY DEF TableInv, TablesOK, TopActive, OneActive, ActiveIsTop
<1>2. \A i \in DOMAIN model :
        model[i] \in [active : BOOLEAN, mode : Modes, z : 1..(nextZ - 1), handle : Handles]
  <2> SUFFICES ASSUME NEW i \in DOMAIN model
               PROVE  model[i] \in [active : BOOLEAN, mode : Modes, z : 1..(nextZ - 1), handle : Handles]
    OBVIOUS
  <2>1. model[i] \in Entries /\ model[i].z \in 1..(nextZ - 1)
    BY DEF TableInv, TablesOK, Tables, Stacked
  <2> QED BY <2>1 DEF Entries
<1>3. \A i \in DOMAIN tracker : tracker[i] \in [active : BOOLEAN, handle : Handles]
  BY DEF TableInv, TablesOK, Tables, TrackerEntries
<1>4. DOMAIN model \subseteq 1..(nextId - 1) /\ DOMAIN tracker \subseteq 1..(nextId - 1)
  BY DEF TableInv, TablesOK, Tables
<1> QED BY <1>1, <1>2, <1>3, <1>4
        DEF TableInv, CoreOK, TypeOK, Requests, ShellStates, Tasks, Surfaces, Actions

\* Windows may go from the tables, and no surface gets another id.
LEMMA EditStep ==
    ASSUME TablesOK, TablesAreLive, TaskInOrder,
           Keeps(model, model'), TrackerKeeps(tracker, tracker'),
           Stacked(model', nextZ'), TopActive(model'), OneActive(tracker'), nextId' = nextId,
           \A h \in Handles : surface'[h].id = surface[h].id,
           task' = task \/ task'.at \notin {"register", "unregister"}
    PROVE  TablesOK' /\ TablesAreLive' /\ TaskInOrder'
<1>1. TablesOK'
  BY DEF TablesOK, Tables, Keeps, TrackerKeeps, Stacked, TopActive, OneActive
<1>2. /\ \A i \in DOMAIN model : model[i].handle \in Handles
      /\ \A i \in DOMAIN tracker : tracker[i].handle \in Handles
  BY DEF TablesOK, Tables, Entries, TrackerEntries
<1>3. TablesAreLive'
  BY <1>2 DEF TablesAreLive, Keeps, TrackerKeeps
<1>4. TaskInOrder'
  BY DEF TaskInOrder, Keeps, Has
<1> QED BY <1>1, <1>3, <1>4

LEMMA ClearedDoes ==
    /\ \A m : Keeps(m, NoTable) /\ TrackerKeeps(m, NoTable)
    /\ \A n : Stacked(NoTable, n) /\ TopActive(NoTable) /\ OneActive(NoTable)
BY DEF NoTable, Keeps, TrackerKeeps, Stacked, TopActive, OneActive

LEMMA SelfKeeps ==
    ASSUME TablesOK
    PROVE  /\ Keeps(model, model) /\ TrackerKeeps(tracker, tracker) /\ Stacked(model, nextZ)
           /\ TopActive(model) /\ OneActive(tracker)
BY DEF TablesOK, Tables, Keeps, TrackerKeeps

\* raiseToTop.
LEMMA RaiseModelDoes ==
    ASSUME CoreOK, TablesOK, NEW i, RaiseModel(model, i)
    PROVE  /\ Keeps(model, model') /\ Stacked(model', nextZ') /\ TopActive(model')
           /\ DOMAIN model' = DOMAIN model /\ nextZ' \in Nat \ {0}
           /\ \A j \in DOMAIN model \ {i} : model'[j].mode = model[j].mode
           /\ i \in DOMAIN model => model'[i].mode # "MINIMIZED"
<1>1. /\ nextZ \in Nat \ {0} /\ model' = Raised(model, i)
      /\ nextZ' = IF Has(model, i) THEN nextZ + 1 ELSE nextZ
      /\ model \in [DOMAIN model -> Entries] /\ Stacked(model, nextZ)
  BY DEF CoreOK, RaiseModel, TablesOK, Tables
<1>2. /\ Keeps(model, model') /\ DOMAIN model' = DOMAIN model /\ TopActive(model')
      /\ Stacked(model', IF Has(model, i) THEN nextZ + 1 ELSE nextZ)
      /\ \A j \in DOMAIN model \ {i} : model'[j].mode = model[j].mode
      /\ Has(model, i) => model'[i].mode # "MINIMIZED"
  BY <1>1, RaisedDoes
<1> QED BY <1>1, <1>2 DEF Has

\* A step that leaves the tables and the surfaces alone.
LEMMA SameTables ==
    ASSUME TablesOK, TablesAreLive, TaskInOrder, UNCHANGED <<surface, task, tables>>
    PROVE  TablesOK' /\ TablesAreLive' /\ TaskInOrder'
BY SelfKeeps, EditStep DEF tables

\* What the compositor has to do next.
LEMMA ThenDoes ==
    ASSUME NEW at \in {"register", "unregister", "raise", "focus", "deactivate", "unfocus"},
           NEW i \in Ids \cup {NoId}, NEW h \in Handles \cup {NoHandle}, Then(at, i, h)
    PROVE  task' \in Tasks /\ task'.at = at /\ task'.id = i /\ task'.handle = h
BY DEF Then, Tasks

LEMMA AtRestIs == AtRest \in Tasks /\ AtRest.at = "rest"
BY DEF AtRest, Tasks

LEMMA ContinuesDoes ==
    ASSUME task \in Tasks, NEW at \in {"focus", "unfocus"}, Continues(at)
    PROVE  task' \in Tasks /\ task'.at = at /\ task'.id = task.id /\ task'.handle = task.handle
BY DEF Continues, Tasks

\* Surfaces keep their ids when only their views change.
LEMMA ShownDoes ==
    ASSUME CoreOK, NEW h \in Handles, NEW mp \in BOOLEAN, NEW b \in BOOLEAN,
           surface' = [surface EXCEPT ![h] = [surface[h] EXCEPT !.mapped = mp, !.shown = b]]
    PROVE  /\ surface' \in [Handles -> Surfaces] /\ \A g \in Handles : surface'[g].id = surface[g].id
           /\ surface'[h].mapped = mp /\ surface'[h].shown = b
           /\ \A g \in Handles \ {h} : surface'[g] = surface[g]
<1> DEFINE s == [surface[h] EXCEPT !.mapped = mp, !.shown = b]
<1>1. surface[h] \in Surfaces
  BY DEF CoreOK
<1>2. s \in Surfaces /\ s.id = surface[h].id /\ s.mapped = mp /\ s.shown = b
  BY <1>1 DEF Surfaces
<1>3. surface' = [surface EXCEPT ![h] = s]
  OBVIOUS
<1> HIDE DEF s
<1> QED BY <1>2, <1>3 DEF CoreOK

\* A window comes: the model has it first ...
LEMMA AddedTables ==
    ASSUME TableInv, NEW h \in Handles, SurfaceAdded(h)
    PROVE  /\ TablesOK' /\ TablesAreLive' /\ TaskInOrder' /\ task' \in Tasks
           /\ surface' \in [Handles -> Surfaces] /\ nextZ' \in Nat \ {0} /\ nextId' \in 1..(MaxId + 1)
           /\ DOMAIN model' = DOMAIN model \cup {nextId}
           /\ \A j \in DOMAIN model : /\ j # nextId /\ model'[j].handle = model[j].handle
                                      /\ model'[j].mode = model[j].mode /\ model[j].handle # h
           /\ model'[nextId].handle = h /\ surface'[h].mapped = FALSE
           /\ task'.at = "register" /\ \A g \in Handles \ {h} : surface'[g] = surface[g]
<1>1. /\ CoreOK /\ TablesOK /\ TablesAreLive /\ nextZ \in Nat \ {0} /\ nextId \in Nat \ {0}
      /\ nextId <= MaxId /\ MaxId \in Nat /\ nextId \in Ids
  BY WindowsAssumption DEF TableInv, CoreOK, SurfaceAdded, Ids
<1>2. /\ model \in [DOMAIN model -> Entries] /\ tracker \in [DOMAIN tracker -> TrackerEntries]
      /\ DOMAIN model \subseteq 1..(nextId - 1) /\ DOMAIN tracker \subseteq 1..(nextId - 1)
      /\ Stacked(model, nextZ) /\ OneActive(tracker)
  BY <1>1 DEF TablesOK, Tables
<1>3. /\ model' \in [DOMAIN model' -> Entries] /\ DOMAIN model' = DOMAIN model \cup {nextId}
      /\ Stacked(model', nextZ + 1) /\ TopActive(model') /\ model'[nextId].handle = h
      /\ \A j \in DOMAIN model \ {nextId} : /\ model'[j].handle = model[j].handle
                                            /\ model'[j].mode = model[j].mode
  <2>1. model' = RegisterWindow(model, nextId, h)
    BY DEF SurfaceAdded
  <2>2. LET u == RegisterWindow(model, nextId, h) IN
           /\ u \in [DOMAIN u -> Entries] /\ DOMAIN u = DOMAIN model \cup {nextId}
           /\ Stacked(u, nextZ + 1) /\ TopActive(u) /\ u[nextId].handle = h
           /\ \A j \in DOMAIN model \ {nextId} : u[j].handle = model[j].handle /\ u[j].mode = model[j].mode
    <3>1. nextZ \in Nat \ {0} /\ model \in [DOMAIN model -> Entries] /\ Stacked(model, nextZ)
      BY <1>1, <1>2
    <3> QED BY <3>1, RegisterWindowDoes, ZenonT(40)
  <2> QED BY <2>1, <2>2, Zenon
<1>4. nextId' = nextId + 1 /\ nextZ' = nextZ + 1 /\ surface[h].id = NoId /\ tracker' = tracker
  BY DEF SurfaceAdded, IsLive
<1>5. /\ surface' \in [Handles -> Surfaces] /\ surface'[h].id = nextId /\ surface'[h].mapped = FALSE
      /\ \A g \in Handles \ {h} : surface'[g] = surface[g]
  <2> DEFINE s == [Gone EXCEPT !.id = nextId]
  <2>1. s \in Surfaces /\ s.id = nextId /\ s.mapped = FALSE
    <3>1. Gone \in Surfaces /\ Gone.mapped = FALSE
      BY DEF Gone, Surfaces
    <3> QED BY <1>1, <3>1 DEF Surfaces
  <2>2. surface' = [surface EXCEPT ![h] = s] /\ surface \in [Handles -> Surfaces]
    BY <1>1 DEF SurfaceAdded, CoreOK
  <2> HIDE DEF s
  <2> QED BY <2>1, <2>2
<1>6. task' \in Tasks /\ task'.at = "register" /\ task'.id = nextId /\ task'.handle = h
  <2>1. Then("register", nextId, h)
    BY DEF SurfaceAdded
  <2> QED BY <1>1, <2>1, ThenDoes
<1>7. \A j \in DOMAIN model : j # nextId /\ model[j].handle # h /\ model[j].handle \in Handles
  BY <1>1, <1>2, <1>4 DEF TablesAreLive, NoId, Entries
<1>8. \A j \in DOMAIN tracker : j # nextId /\ tracker[j].handle # h /\ tracker[j].handle \in Handles
  BY <1>1, <1>2, <1>4 DEF TablesAreLive, NoId, TrackerEntries
<1>9. TablesOK'
  <2>1. DOMAIN model' \subseteq 1..(nextId' - 1) /\ DOMAIN tracker' \subseteq 1..(nextId' - 1)
    BY <1>1, <1>2, <1>3, <1>4
  <2> QED BY <1>2, <1>3, <1>4, <2>1 DEF TablesOK, Tables, Stacked, TopActive, OneActive
<1>10. TablesAreLive'
  <2>1. \A j \in DOMAIN model' : surface'[model'[j].handle].id = j
    BY <1>1, <1>3, <1>5, <1>7 DEF TablesAreLive
  <2>2. \A j \in DOMAIN tracker' : surface'[tracker'[j].handle].id = j
    BY <1>1, <1>4, <1>5, <1>8 DEF TablesAreLive
  <2> QED BY <2>1, <2>2 DEF TablesAreLive
<1>11. TaskInOrder'
  BY <1>1, <1>4, <1>5, <1>6 DEF TaskInOrder
<1> QED BY <1>1, <1>3, <1>4, <1>5, <1>6, <1>7, <1>9, <1>10, <1>11

\* ... then the tracker.
LEMMA TrackedTables ==
    ASSUME TableInv, TrackerRegisters
    PROVE  TablesOK' /\ TablesAreLive' /\ TaskInOrder'
<1> DEFINE i == task.id
           h == task.handle
<1>1. /\ TablesOK /\ TablesAreLive /\ UNCHANGED <<surface, model, nextId, nextZ>>
      /\ h \in Handles /\ surface[h].id = i /\ i \in 1..(nextId - 1)
  BY DEF TableInv, TaskInOrder, TrackerRegisters
<1>2. tracker \in [DOMAIN tracker -> TrackerEntries] /\ DOMAIN tracker \subseteq 1..(nextId - 1)
  BY <1>1 DEF TablesOK, Tables
<1>3. tracker' = TrackerRegister(tracker, i, h)
  BY DEF TrackerRegisters
<1> HIDE DEF i, h
<1>4. /\ tracker' \in [DOMAIN tracker' -> TrackerEntries] /\ DOMAIN tracker' = DOMAIN tracker \cup {i}
      /\ OneActive(tracker') /\ tracker'[i].handle = h
      /\ \A j \in DOMAIN tracker \ {i} : tracker'[j].handle = tracker[j].handle
  <2>1. LET u == TrackerRegister(tracker, i, h) IN
           /\ u \in [DOMAIN u -> TrackerEntries] /\ DOMAIN u = DOMAIN tracker \cup {i}
           /\ OneActive(u) /\ u[i].handle = h
           /\ \A j \in DOMAIN tracker \ {i} : u[j].handle = tracker[j].handle
    <3>1. tracker \in [DOMAIN tracker -> TrackerEntries] /\ h \in Handles
      BY <1>1, <1>2
    <3> QED BY <3>1, TrackerRegisterDoes, ZenonT(40)
  <2> QED BY <1>3, <2>1, Zenon
<1>5. TablesOK'
  BY <1>1, <1>2, <1>4 DEF TablesOK, Tables, Stacked, TopActive, OneActive
<1>6. TablesAreLive'
  BY <1>1, <1>4 DEF TablesAreLive
<1>7. TaskInOrder'
  BY AtRestIs DEF TrackerRegisters, TaskInOrder
<1> QED BY <1>5, <1>6, <1>7

\* A window goes: from the model ...
LEMMA RemovedTables ==
    ASSUME TableInv, NEW h \in Handles, SurfaceRemoved(h)
    PROVE  /\ TablesOK' /\ TablesAreLive' /\ TaskInOrder' /\ task' \in Tasks /\ surface' = surface
           /\ Keeps(model, model') /\ \A j \in DOMAIN model' : model'[j].mode = model[j].mode
           /\ task'.at = "unregister"
<1> DEFINE i == surface[h].id
<1>1. /\ CoreOK /\ TablesOK /\ TablesAreLive /\ nextZ \in Nat /\ i \in Ids \cup {NoId}
      /\ UNCHANGED <<surface, nextId, nextZ, tracker>> /\ model' = UnregisterWindow(model, i)
      /\ Then("unregister", i, h)
  BY DEF TableInv, CoreOK, SurfaceRemoved, Surfaces
<1>2. /\ model \in [DOMAIN model -> Entries] /\ Stacked(model, nextZ) /\ TopActive(model)
      /\ tracker \in [DOMAIN tracker -> TrackerEntries] /\ OneActive(tracker)
      /\ TrackerKeeps(tracker, tracker')
  BY <1>1, SelfKeeps DEF TablesOK, Tables
<1>3. surface[h].id = i
  OBVIOUS
<1> HIDE DEF i
<1>4. /\ Keeps(model, model') /\ DOMAIN model' = DOMAIN model \ {i} /\ Stacked(model', nextZ)
      /\ TopActive(model') /\ \A j \in DOMAIN model' : model'[j].mode = model[j].mode
  BY <1>1, <1>2, UnregisterWindowDoes
<1>5. task' \in Tasks /\ task'.at = "unregister" /\ task'.id = i /\ task'.handle = h
  BY <1>1, ThenDoes
<1>6. TablesOK'
  BY <1>1, <1>2, <1>4 DEF TablesOK, Tables, Keeps, Stacked, TopActive, OneActive
<1>7. TablesAreLive'
  BY <1>1, <1>4 DEF TablesAreLive, Keeps
<1>8. TaskInOrder'
  BY <1>1, <1>3, <1>4, <1>5 DEF TaskInOrder, Has
<1> QED BY <1>1, <1>4, <1>5, <1>6, <1>7, <1>8

\* ... then from the tracker, and its surface with it.
LEMMA UntrackedTables ==
    ASSUME TableInv, TrackerUnregisters
    PROVE  /\ TablesOK' /\ TablesAreLive' /\ TaskInOrder' /\ surface' \in [Handles -> Surfaces]
           /\ UNCHANGED model /\ \A g \in Handles : surface'[g] \in {surface[g], Gone}
           /\ \A j \in DOMAIN model : surface'[model[j].handle] = surface[model[j].handle]
<1> DEFINE i == task.id
           h == task.handle
<1>1. /\ CoreOK /\ TablesOK /\ TablesAreLive /\ nextId \in Nat \ {0}
      /\ UNCHANGED <<model, nextId, nextZ>> /\ tracker' = TrackerUnregister(tracker, i)
      /\ h \in Handles /\ surface[h].id = i /\ i \notin DOMAIN model
  BY DEF TableInv, CoreOK, TaskInOrder, TrackerUnregisters, Has
<1>2. /\ model \in [DOMAIN model -> Entries] /\ tracker \in [DOMAIN tracker -> TrackerEntries]
      /\ DOMAIN tracker \subseteq 1..(nextId - 1) /\ nextId - 1 \in Nat /\ OneActive(tracker)
  BY <1>1 DEF TablesOK, Tables
<1>3. surface' = [surface EXCEPT ![h] = Gone] /\ Gone \in Surfaces /\ surface \in [Handles -> Surfaces]
  BY <1>1 DEF TrackerUnregisters, CoreOK, Gone, Surfaces
<1> HIDE DEF i, h
<1>4. TrackerKeeps(tracker, tracker') /\ DOMAIN tracker' = DOMAIN tracker \ {i} /\ OneActive(tracker')
  BY <1>1, <1>2, TrackerUnregisterDoes
<1>5. \A j \in DOMAIN model : model[j].handle # h /\ model[j].handle \in Handles
  BY <1>1, <1>2 DEF TablesAreLive, Entries
<1>6. \A j \in DOMAIN tracker' : tracker[j].handle # h /\ tracker[j].handle \in Handles
  BY <1>1, <1>2, <1>4 DEF TablesAreLive, TrackerEntries
<1>7. \A g \in Handles : surface'[g] = IF g = h THEN Gone ELSE surface[g]
  <2> HIDE DEF Gone
  <2> QED BY <1>3
<1>8. TablesOK'
  BY <1>1, <1>4 DEF TablesOK, Tables, TrackerKeeps, Stacked, TopActive, OneActive
<1>9. TablesAreLive'
  BY <1>1, <1>4, <1>5, <1>6, <1>7 DEF TablesAreLive, TrackerKeeps
<1>10. TaskInOrder'
  BY AtRestIs DEF TrackerUnregisters, TaskInOrder
<1>11. surface' \in [Handles -> Surfaces]
  <2> HIDE DEF Gone
  <2> QED BY <1>3
<1> QED BY <1>1, <1>5, <1>7, <1>8, <1>9, <1>10, <1>11

\* SurfaceMapped, and the actions of the queue.
LEMMA MappedTables ==
    ASSUME TableInv, NEW h \in Handles, SurfaceMapped(h)
    PROVE  /\ TablesOK' /\ TablesAreLive' /\ TaskInOrder' /\ task' \in Tasks
           /\ surface' \in [Handles -> Surfaces] /\ nextZ' \in Nat \ {0}
           /\ Keeps(model, model') /\ DOMAIN model' = DOMAIN model
           /\ \A j \in DOMAIN model \ {surface[h].id} : model'[j].mode = model[j].mode
           /\ surface[h].id \in DOMAIN model => model'[surface[h].id].mode # "MINIMIZED"
           /\ surface'[h].shown /\ \A g \in Handles \ {h} : surface'[g] = surface[g]
           /\ task'.at = "focus" /\ \A g \in Handles : surface'[g].id = surface[g].id
<1>1. /\ CoreOK /\ TablesOK /\ TablesAreLive /\ TaskInOrder /\ nextId' = nextId /\ tracker' = tracker
      /\ surface[h].id \in Ids \cup {NoId}
  BY DEF TableInv, SurfaceMapped, CoreOK, Surfaces
<1>2. RaiseModel(model, surface[h].id) /\ Then("focus", surface[h].id, h)
  BY DEF SurfaceMapped
<1>3. /\ Keeps(model, model') /\ Stacked(model', nextZ') /\ TopActive(model')
      /\ DOMAIN model' = DOMAIN model /\ nextZ' \in Nat \ {0}
      /\ \A j \in DOMAIN model \ {surface[h].id} : model'[j].mode = model[j].mode
      /\ surface[h].id \in DOMAIN model => model'[surface[h].id].mode # "MINIMIZED"
  BY <1>1, <1>2, RaiseModelDoes
<1>4. TrackerKeeps(tracker, tracker') /\ OneActive(tracker')
  BY <1>1, SelfKeeps
<1>5. surface' = [surface EXCEPT ![h] = [surface[h] EXCEPT !.mapped = TRUE, !.shown = TRUE]]
  BY <1>1 DEF SurfaceMapped, CoreOK
<1>6. /\ surface' \in [Handles -> Surfaces] /\ \A g \in Handles : surface'[g].id = surface[g].id
      /\ surface'[h].shown /\ \A g \in Handles \ {h} : surface'[g] = surface[g]
  BY <1>1, <1>5, ShownDoes
<1>7. task' \in Tasks /\ task'.at = "focus"
  BY <1>1, <1>2, ThenDoes
<1>8. TablesOK' /\ TablesAreLive' /\ TaskInOrder'
  BY <1>1, <1>3, <1>4, <1>6, <1>7, EditStep
<1> QED BY <1>3, <1>6, <1>7, <1>8

\* The view of one surface is shown or hidden.
Shows(h, b) ==
    /\ surface' \in [Handles -> Surfaces] /\ \A g \in Handles : surface'[g].id = surface[g].id
    /\ surface'[h].shown = b /\ surface'[h].mapped = surface[h].mapped
    /\ \A g \in Handles \ {h} : surface'[g] = surface[g]

LEMMA ShowsWhen ==
    ASSUME CoreOK, NEW h \in Handles, NEW b \in BOOLEAN, surface' = [surface EXCEPT ![h].shown = b]
    PROVE  Shows(h, b)
<1> DEFINE s == [surface[h] EXCEPT !.shown = b]
<1>1. surface[h] \in Surfaces
  BY DEF CoreOK
<1>2. s \in Surfaces /\ s.id = surface[h].id /\ s.mapped = surface[h].mapped /\ s.shown = b
  BY <1>1 DEF Surfaces
<1>3. surface' = [surface EXCEPT ![h] = s]
  BY DEF CoreOK
<1> HIDE DEF s
<1> QED BY <1>2, <1>3 DEF CoreOK, Shows

\* The surface of an action: a pointer it carries, or one of the tables.
LEMMA TargetOf ==
    ASSUME TableInv, NEW a \in Requests, Target(a) # NoHandle
    PROVE  /\ Target(a) \in Handles
           /\ a.handle = NoHandle => surface[Target(a)].id = a.id
           /\ \A i \in DOMAIN model : model[i].handle = Target(a) => i = WindowId(a)
<1>1. /\ TablesAreLive /\ \A i \in DOMAIN model : model[i].handle \in Handles
      /\ \A i \in DOMAIN tracker : tracker[i].handle \in Handles
  BY DEF TableInv, TablesOK, Tables, Entries, TrackerEntries
<1>2. CASE a.handle # NoHandle
  <2>1. Target(a) = a.handle /\ WindowId(a) = IdOf(a.handle)
    BY <1>2 DEF Target, WindowId
  <2>2. a.handle \in Handles
    BY <1>2 DEF Requests
  <2>3. ASSUME NEW i \in DOMAIN model, model[i].handle = a.handle PROVE i = IdOf(a.handle)
    <3>1. IdOf(a.handle) \in DOMAIN model /\ model[IdOf(a.handle)].handle = a.handle
      BY <2>3, Zenon DEF IdOf
    <3> QED BY <1>1, <2>3, <3>1 DEF TablesAreLive
  <2> QED BY <1>2, <2>1, <2>2, <2>3
<1>3. CASE a.handle = NoHandle
  <2>1. /\ WindowId(a) = a.id
        /\ Target(a) \in Handles /\ surface[Target(a)].id = a.id
    <3>1. CASE Has(model, a.id)
      BY <1>1, <1>3, <3>1 DEF Target, WindowId, Has, TablesAreLive
    <3>2. CASE ~Has(model, a.id) /\ Has(tracker, a.id)
      BY <1>1, <1>3, <3>2 DEF Target, WindowId, Has, TablesAreLive
    <3>3. CASE ~Has(model, a.id) /\ ~Has(tracker, a.id)
      BY <1>3, <3>3 DEF Target
    <3> QED BY <3>1, <3>2, <3>3
  <2> QED BY <1>1, <2>1 DEF TablesAreLive
<1> QED BY <1>2, <1>3

\* The window's mode changes.
LEMMA ModeTables ==
    ASSUME CoreOK, TablesOK, NEW i, NEW mode \in Modes, NEW u, u = WithMode(model, i, mode)
    PROVE  /\ Keeps(model, u) /\ DOMAIN u = DOMAIN model /\ Stacked(u, nextZ) /\ TopActive(u)
           /\ \A j \in DOMAIN model \ {i} : u[j].mode = model[j].mode
           /\ i \in DOMAIN model => u[i].mode = mode
<1>1. model \in [DOMAIN model -> Entries] /\ Stacked(model, nextZ) /\ TopActive(model)
  BY DEF TablesOK, Tables
<1>2. /\ Keeps(model, u) /\ DOMAIN u = DOMAIN model
      /\ \A j \in DOMAIN model : u[j].z = model[j].z /\ u[j].active = model[j].active
      /\ \A j \in DOMAIN model \ {i} : u[j].mode = model[j].mode
      /\ Has(model, i) => u[i].mode = mode
  BY <1>1, WithModeDoes
<1> QED BY <1>1, <1>2, StackedKeeps, TopActiveKeeps DEF Has

\* Where an action leaves the compositor.
LEMMA WindowIdOf ==
    ASSUME TableInv, NEW a \in Requests
    PROVE  WindowId(a) \in Ids \cup {NoId}
<1>1. CASE a.handle = NoHandle
  BY <1>1 DEF WindowId, Requests
<1>2. CASE a.handle # NoHandle
  <2>1. WindowId(a) = NoId \/ WindowId(a) \in DOMAIN model
    <3>1. CASE \E i \in DOMAIN model : model[i].handle = a.handle
      <4>1. IdOf(a.handle) \in DOMAIN model
        BY <3>1, Zenon DEF IdOf
      <4> QED BY <1>2, <4>1 DEF WindowId
    <3>2. CASE ~\E i \in DOMAIN model : model[i].handle = a.handle
      BY <1>2, <3>2 DEF WindowId, IdOf
    <3> QED BY <3>1, <3>2
  <2> QED BY <2>1, WindowsAssumption DEF TableInv, CoreOK, TablesOK, Tables, Ids
<1> QED BY <1>1, <1>2

LEMMA ShowTables ==
    ASSUME TableInv, NEW a \in Requests, ShowWindow(a)
    PROVE  /\ TablesOK' /\ TablesAreLive' /\ TaskInOrder' /\ task' \in Tasks
           /\ nextZ' \in Nat \ {0} /\ Shows(Target(a), TRUE)
           /\ Keeps(model, model') /\ DOMAIN model' = DOMAIN model
           /\ \A j \in DOMAIN model \ {WindowId(a)} : model'[j].mode = model[j].mode
           /\ WindowId(a) \in DOMAIN model => model'[WindowId(a)].mode # "MINIMIZED"
           /\ task'.at \in {"raise", "focus"} /\ task'.id = WindowId(a) /\ task'.handle = Target(a)
           /\ Target(a) \in Handles
<1> DEFINE i == WindowId(a)
<1>1. /\ CoreOK /\ TablesOK /\ TablesAreLive /\ TaskInOrder /\ nextId' = nextId
      /\ Target(a) \in Handles /\ tracker' = tracker /\ i \in Ids \cup {NoId} /\ nextZ \in Nat \ {0}
  BY TargetOf, WindowIdOf DEF TableInv, ShowWindow, CoreOK
<1>2. Shows(Target(a), TRUE)
  BY <1>1, ShowsWhen DEF ShowWindow
<1>3. \/ RaiseModel(model, i) /\ Then("focus", i, Target(a))
      \/ /\ \E mode \in {"NORMAL", "MAXIMIZED"} : model' = WithMode(model, i, mode)
         /\ Then("raise", i, Target(a)) /\ nextZ' = nextZ
  BY DEF ShowWindow, ModeOf
<1> HIDE DEF i
<1>4. /\ Keeps(model, model') /\ Stacked(model', nextZ') /\ TopActive(model')
      /\ DOMAIN model' = DOMAIN model /\ nextZ' \in Nat \ {0}
      /\ \A j \in DOMAIN model \ {i} : model'[j].mode = model[j].mode
      /\ i \in DOMAIN model => model'[i].mode # "MINIMIZED"
  <2>1. CASE RaiseModel(model, i)
    BY <1>1, <2>1, RaiseModelDoes
  <2>2. ASSUME NEW mode \in {"NORMAL", "MAXIMIZED"}, model' = WithMode(model, i, mode), nextZ' = nextZ
        PROVE  /\ Keeps(model, model') /\ Stacked(model', nextZ') /\ TopActive(model')
               /\ DOMAIN model' = DOMAIN model /\ nextZ' \in Nat \ {0}
               /\ \A j \in DOMAIN model \ {i} : model'[j].mode = model[j].mode
               /\ i \in DOMAIN model => model'[i].mode # "MINIMIZED"
    BY <1>1, <2>2, ModeTables DEF Modes
  <2> QED BY <1>3, <2>1, <2>2
<1>5. /\ task' \in Tasks /\ task'.at \in {"raise", "focus"} /\ task'.id = i
      /\ task'.handle = Target(a)
  BY <1>1, <1>3, ThenDoes
<1>6. TrackerKeeps(tracker, tracker') /\ OneActive(tracker')
  BY <1>1, SelfKeeps
<1>7. TablesOK' /\ TablesAreLive' /\ TaskInOrder'
  BY <1>1, <1>2, <1>4, <1>5, <1>6, EditStep DEF Shows
<1> QED BY <1>1, <1>2, <1>4, <1>5, <1>7 DEF i

LEMMA HideTables ==
    ASSUME TableInv, NEW a \in Requests, HideWindow(a)
    PROVE  /\ TablesOK' /\ TablesAreLive' /\ TaskInOrder' /\ task' \in Tasks /\ Shows(Target(a), FALSE)
           /\ Keeps(model, model') /\ DOMAIN model' = DOMAIN model
           /\ \A j \in DOMAIN model \ {WindowId(a)} : model'[j].mode = model[j].mode
           /\ WindowId(a) \in DOMAIN model => model'[WindowId(a)].mode = "MINIMIZED"
           /\ task'.at = "deactivate"
<1> DEFINE i == WindowId(a)
<1>1. /\ CoreOK /\ TablesOK /\ TablesAreLive /\ TaskInOrder /\ nextId' = nextId /\ nextZ' = nextZ
      /\ Target(a) \in Handles /\ tracker' = tracker /\ i \in Ids \cup {NoId}
  BY TargetOf, WindowIdOf DEF TableInv, HideWindow
<1>2. model' = WithMode(model, i, "MINIMIZED") /\ Then("deactivate", i, Target(a))
  BY DEF HideWindow
<1>3. Shows(Target(a), FALSE)
  BY <1>1, ShowsWhen DEF HideWindow
<1> HIDE DEF i
<1>4. /\ Keeps(model, model') /\ DOMAIN model' = DOMAIN model /\ Stacked(model', nextZ)
      /\ TopActive(model') /\ \A j \in DOMAIN model \ {i} : model'[j].mode = model[j].mode
      /\ i \in DOMAIN model => model'[i].mode = "MINIMIZED"
  BY <1>1, <1>2, ModeTables DEF Modes
<1>5. TrackerKeeps(tracker, tracker') /\ OneActive(tracker')
  BY <1>1, SelfKeeps
<1>6. task' \in Tasks /\ task'.at = "deactivate"
  BY <1>1, <1>2, ThenDoes
<1>7. TablesOK' /\ TablesAreLive' /\ TaskInOrder'
  BY <1>1, <1>3, <1>4, <1>5, <1>6, EditStep DEF Shows
<1> QED BY <1>3, <1>4, <1>6, <1>7 DEF i

\* A window stops to be the active one of the model.
LEMMA DeactivatedTables ==
    ASSUME CoreOK, TablesOK, NEW i, model' = Deactivated(model, i)
    PROVE  /\ Keeps(model, model') /\ DOMAIN model' = DOMAIN model
           /\ Stacked(model', nextZ) /\ TopActive(model')
           /\ \A j \in DOMAIN model : model'[j].mode = model[j].mode
<1>1. model \in [DOMAIN model -> Entries] /\ Stacked(model, nextZ) /\ TopActive(model)
  BY DEF TablesOK, Tables
<1>2. /\ Keeps(model, model') /\ DOMAIN model' = DOMAIN model
      /\ \A j \in DOMAIN model : /\ model'[j].z = model[j].z /\ model'[j].mode = model[j].mode
                                 /\ model'[j].active => model[j].active
  BY <1>1, DeactivatedDoes, Zenon
<1> QED BY <1>1, <1>2, StackedKeeps, TopActiveKeeps

\* What is left to do after the first change of a table.
LEMMA TaskTables ==
    ASSUME TableInv, Task
    PROVE  /\ TablesOK' /\ TablesAreLive' /\ TaskInOrder' /\ task' \in Tasks /\ nextZ' \in Nat \ {0}
           /\ surface' \in [Handles -> Surfaces] /\ Keeps(model, model') /\ DOMAIN model' = DOMAIN model
           /\ \A g \in Handles : surface'[g] \in {surface[g], Gone}
           /\ \A j \in DOMAIN model : surface'[model[j].handle] = surface[model[j].handle]
           /\ UNCHANGED <<host, loop, batch, nextId, queued, ui, shell, counters>>
           /\ task.at # "rest" /\ task'.at # "raise"
           /\ \A j \in DOMAIN model \ {task.id} : model'[j].mode = model[j].mode
           /\ task.at # "raise" => \A j \in DOMAIN model : model'[j].mode = model[j].mode
           /\ task.at = "raise" /\ task.id \in DOMAIN model =>
                 model'[task.id].mode # "MINIMIZED" /\ UNCHANGED surface
<1>1. /\ CoreOK /\ TablesOK /\ TablesAreLive /\ TaskInOrder /\ nextZ \in Nat \ {0} /\ task \in Tasks
      /\ surface \in [Handles -> Surfaces] /\ tracker \in [DOMAIN tracker -> TrackerEntries]
  BY DEF TableInv, CoreOK, TablesOK, Tables
<1>2. /\ Keeps(model, model) /\ TrackerKeeps(tracker, tracker) /\ Stacked(model, nextZ)
      /\ TopActive(model) /\ OneActive(tracker)
  BY <1>1, SelfKeeps
<1>3. CASE TrackerRegisters
  BY <1>1, <1>2, <1>3, TrackedTables, AtRestIs DEF TrackerRegisters
<1>4. CASE TrackerUnregisters
  BY <1>1, <1>2, <1>4, UntrackedTables, AtRestIs DEF TrackerUnregisters
<1>5. CASE WindowRaised
  <2>1. /\ RaiseModel(model, task.id) /\ Continues("focus") /\ task.at = "raise"
        /\ UNCHANGED <<host, surface, loop, batch, nextId, tracker, queued, ui, shell, counters>>
    BY <1>5 DEF WindowRaised
  <2>2. /\ Keeps(model, model') /\ Stacked(model', nextZ') /\ TopActive(model')
        /\ DOMAIN model' = DOMAIN model /\ nextZ' \in Nat \ {0}
        /\ \A j \in DOMAIN model \ {task.id} : model'[j].mode = model[j].mode
        /\ task.id \in DOMAIN model => model'[task.id].mode # "MINIMIZED"
    BY <1>1, <2>1, RaiseModelDoes
  <2>3. task' \in Tasks /\ task'.at = "focus"
    BY <1>1, <2>1, ContinuesDoes
  <2>4. TablesOK' /\ TablesAreLive' /\ TaskInOrder'
    BY <1>1, <1>2, <2>1, <2>2, <2>3, EditStep
  <2> QED BY <1>1, <2>1, <2>2, <2>3, <2>4
<1>6. CASE WindowDeactivated
  <2>1. /\ model' = Deactivated(model, task.id) /\ Continues("unfocus") /\ task.at = "deactivate"
        /\ UNCHANGED <<host, surface, loop, batch, nextId, nextZ, tracker, queued, ui, shell, counters>>
    BY <1>6 DEF WindowDeactivated
  <2>2. /\ Keeps(model, model') /\ DOMAIN model' = DOMAIN model /\ Stacked(model', nextZ)
        /\ TopActive(model') /\ \A j \in DOMAIN model : model'[j].mode = model[j].mode
    BY <1>1, <2>1, DeactivatedTables
  <2>3. task' \in Tasks /\ task'.at = "unfocus"
    BY <1>1, <2>1, ContinuesDoes
  <2>4. TablesOK' /\ TablesAreLive' /\ TaskInOrder'
    BY <1>1, <1>2, <2>1, <2>2, <2>3, EditStep
  <2> QED BY <1>1, <2>1, <2>2, <2>3, <2>4
<1>7. CASE TrackerFocuses \/ TrackerUnfocuses
  <2>1. /\ tracker' = Focused(tracker, task.id) \/ tracker' = Deactivated(tracker, task.id)
        /\ task' = AtRest /\ task.at \in {"focus", "unfocus"}
        /\ UNCHANGED <<host, surface, loop, batch, model, nextId, nextZ, queued, ui, shell, counters>>
    BY <1>7 DEF TrackerFocuses, TrackerUnfocuses
  <2>2. TrackerKeeps(tracker, tracker') /\ OneActive(tracker')
    BY <1>1, <1>2, <2>1, FocusedDoes, TrackerDeactivatedDoes
  <2>3. TablesOK' /\ TablesAreLive' /\ TaskInOrder'
    BY <1>1, <1>2, <2>1, <2>2, AtRestIs, EditStep
  <2> QED BY <1>1, <1>2, <2>1, <2>3, AtRestIs
<1> QED BY <1>3, <1>4, <1>5, <1>6, <1>7 DEF Task

\* Requests of the two kinds, and what is left of a batch.
LEMMA PushDoes ==
    ASSUME CoreOK, NEW i \in Ids \cup {NoId}, NEW h \in Handles \cup {NoHandle}, NEW op \in Actions,
           Push(i, h, op)
    PROVE  /\ queue' \in Seq(Requests) /\ Len(queue') = Len(queue) + 1
           /\ \A k \in 1..Len(queue) : queue'[k] = queue[k]
           /\ queue'[Len(queue) + 1] = [id |-> i, handle |-> h, op |-> op]
<1> DEFINE a == [id |-> i, handle |-> h, op |-> op]
<1>1. a \in Requests
  BY DEF Requests
<1>2. queue' = Append(queue, a) /\ queue \in Seq(Requests)
  BY DEF Push, CoreOK
<1> HIDE DEF a
<1>3. /\ queue' \in Seq(Requests) /\ Len(queue') = Len(queue) + 1
      /\ \A k \in 1..Len(queue) : queue'[k] = queue[k]
      /\ queue'[Len(queue) + 1] = a
  BY <1>1, <1>2
<1> QED BY <1>3 DEF a

LEMMA BatchDoes ==
    ASSUME CoreOK, batch # <<>>
    PROVE  /\ Head(batch) \in Requests /\ Head(batch) = batch[1] /\ Tail(batch) \in Seq(Requests)
           /\ Len(Tail(batch)) = Len(batch) - 1 /\ Len(batch) \in Nat \ {0}
           /\ \A k \in 1..Len(Tail(batch)) : Tail(batch)[k] = batch[k + 1]
BY DEF CoreOK

\* The taskbar's click handler moves on.
LEMMA ShellMoves ==
    ASSUME NEW s \in ShellStates,
           NEW l \in {"idle", "off", "called", "activate", "minimize", "deactivate", "close",
                      "pushed", "joined", "terminated"}
    PROVE  LET n == [s EXCEPT !.at = l] IN
           n \in ShellStates /\ n.at = l /\ n.id = s.id /\ n.op = s.op /\ n.handle = s.handle
BY DEF ShellStates

LEMMA ShellIdleIs ==
    ShellIdle \in ShellStates /\ ShellIdle.at = "idle" /\ ShellIdle.id = NoId
BY DEF ShellIdle, ShellStates, Actions

\* The click and the look-up.
LEMMA ShellClickDoes ==
    ASSUME NEW i, NEW close, ShellClick(i, close)
    PROVE  /\ shell'.at = "called" /\ shell'.id = i
           /\ shell'.op \in {"close", "minimize", "activate"} /\ shell'.handle = NoHandle
           /\ i \in Ids => shell' \in ShellStates
<1> DEFINE op == IF close THEN "close" ELSE IF model[i].active THEN "minimize" ELSE "activate"
<1>1. shell' = [ShellIdle EXCEPT !.at = "called", !.id = i, !.op = op]
  BY DEF ShellClick
<1>2. op \in {"close", "minimize", "activate"}
  OBVIOUS
<1> HIDE DEF op
<1>3. /\ shell'.at = "called" /\ shell'.id = i /\ shell'.op = op /\ shell'.handle = NoHandle
  BY <1>1 DEF ShellIdle
<1>4. i \in Ids => shell' \in ShellStates
  BY <1>1, <1>2 DEF ShellIdle, ShellStates, Actions
<1> QED BY <1>2, <1>3, <1>4

LEMMA ShellLooksUpDoes ==
    ASSUME CoreOK, TablesOK, ShellLooksUp
    PROVE  /\ shell' \in ShellStates
           /\ \/ shell' = ShellIdle
              \/ /\ Has(model, shell.id) /\ shell'.at = shell.op /\ shell'.handle = model[shell.id].handle
                 /\ shell'.id = shell.id /\ shell'.op = shell.op
<1>1. CASE ~Has(model, shell.id)
  BY <1>1, ShellIdleIs DEF ShellLooksUp
<1>2. CASE Has(model, shell.id)
  <2>1. /\ shell' = [shell EXCEPT !.at = shell.op, !.handle = model[shell.id].handle]
        /\ shell \in ShellStates
    BY <1>2 DEF ShellLooksUp, CoreOK
  <2>2. model[shell.id].handle \in Handles
    BY <1>2 DEF Has, TablesOK, Tables, Entries
  <2> QED BY <1>2, <2>1, <2>2 DEF ShellStates
<1> QED BY <1>1, <1>2

\* The types that are not about the tables.
LEMMA CoreStep ==
    ASSUME TableInv, [Next]_vars
    PROVE  CoreOK'
<1>0. /\ CoreOK /\ TablesOK /\ shell \in ShellStates /\ Gone \in Surfaces /\ queue \in Seq(Requests)
      /\ task \in Tasks
  BY DEF TableInv, CoreOK, Gone, Surfaces
<1>a. <<>> \in Seq(Requests)
  OBVIOUS
<1>b. ASSUME NEW l \in {"deactivate", "close", "pushed"}, shell' = [shell EXCEPT !.at = l]
      PROVE  shell' \in ShellStates
  BY <1>0, <1>b, ShellMoves
<1>c. ASSUME NEW l \in {"idle", "off", "joined", "terminated"}, shell' = [ShellIdle EXCEPT !.at = l]
      PROVE  shell' \in ShellStates
  BY <1>c, ShellIdleIs, ShellMoves
<1> USE DEF tables, queued, compositor, counters
<1>1. ASSUME NEW h \in Handles, SurfaceAdded(h) PROVE CoreOK'
  BY <1>0, <1>1, AddedTables DEF CoreOK, SurfaceAdded
<1>2. ASSUME NEW h \in Handles, SurfaceRemoved(h) PROVE CoreOK'
  BY <1>0, <1>2, RemovedTables DEF CoreOK, SurfaceRemoved
<1>3. ASSUME NEW h \in Handles, SurfaceMapped(h) PROVE CoreOK'
  BY <1>0, <1>3, MappedTables DEF CoreOK, SurfaceMapped
<1>4. CASE DrainWake
  BY <1>0, <1>4 DEF CoreOK, DrainWake, Dispatching
<1>5. CASE SwapQueue
  BY <1>0, <1>5 DEF CoreOK, SwapQueue
<1>6. CASE BatchDone
  BY <1>0, <1>6 DEF CoreOK, BatchDone
<1>7. CASE Process
  <2>1. /\ Head(batch) \in Requests /\ Tail(batch) \in Seq(Requests) /\ loop = "batch"
    BY <1>0, <1>7, BatchDoes DEF Process, InAction
  <2>2. PICK a : a = Head(batch)
    OBVIOUS
  <2>3. ProcessAction(a) /\ a \in Requests
    BY <1>7, <2>1, <2>2 DEF Process
  <2>4. CASE ShowWindow(a)
    <3>1. /\ task' \in Tasks /\ nextZ' \in Nat \ {0} /\ surface' \in [Handles -> Surfaces]
          /\ batch' = Tail(batch)
          /\ UNCHANGED <<host, loop, nextId, tracker, queued, ui, shell, counters>>
      BY <2>3, <2>4, ShowTables DEF ShowWindow, NextAction, Shows
    <3> QED BY <1>0, <2>1, <3>1 DEF CoreOK
  <2>5. CASE HideWindow(a)
    BY <1>0, <2>1, <2>3, <2>5, HideTables DEF CoreOK, HideWindow, NextAction, Shows
  <2>6. CASE DropAction(a)
    BY <1>0, <2>1, <2>6 DEF CoreOK, DropAction, NextAction
  <2>7. CASE UseFreedSurface(a)
    BY <1>0, <2>1, <2>7 DEF CoreOK, UseFreedSurface, NextAction
  <2> QED BY <2>3, <2>4, <2>5, <2>6, <2>7 DEF ProcessAction
<1>8. ASSUME NEW i \in Ids, NEW op \in UiActions, UiRequest(i, op) PROVE CoreOK'
  <2>1. op \in Actions
    BY WindowsAssumption
  <2>2. queue' \in Seq(Requests)
    BY <1>0, <1>8, <2>1, PushDoes DEF UiRequest
  <2>3. requests' \in 0..MaxRequests
    BY <1>0, <1>8, WindowsAssumption DEF UiRequest, CoreOK
  <2> QED BY <1>0, <1>8, <2>2, <2>3 DEF CoreOK, UiRequest
<1>9. CASE UiWake
  BY <1>0, <1>9 DEF CoreOK, UiWake, WriteWake
<1>10. ASSUME NEW i \in Ids, NEW close \in BOOLEAN, ShellClick(i, close) PROVE CoreOK'
  <2>1. shell' \in ShellStates
    BY <1>10, ShellClickDoes
  <2>2. requests' \in 0..MaxRequests
    BY <1>0, <1>10, WindowsAssumption DEF ShellClick, CoreOK
  <2> QED BY <1>0, <1>10, <2>1, <2>2 DEF CoreOK, ShellClick
<1>11. CASE ShellLooksUp
  <2>1. shell' \in ShellStates
    BY <1>0, <1>11, ShellLooksUpDoes
  <2> QED BY <1>0, <1>11, <2>1 DEF CoreOK, ShellLooksUp
<1>12. CASE ShellRaises
  <2>1. shell' \in ShellStates
    BY <1>0, <1>12, ShellMoves DEF ShellRaises
  <2>2. nextZ' \in Nat \ {0}
    BY <1>0, <1>12 DEF ShellRaises, RaiseModel, CoreOK
  <2> QED BY <1>0, <1>12, <2>1, <2>2 DEF CoreOK, ShellRaises
<1>13. CASE ShellMinimizes \/ ShellDeactivates
  <2>1. shell' \in ShellStates
    BY <1>13, <1>b DEF ShellMinimizes, ShellDeactivates
  <2> QED BY <1>0, <1>13, <2>1 DEF CoreOK, ShellMinimizes, ShellDeactivates
<1>14. CASE ShellDispatches
  <2>1. shell' \in ShellStates
    BY <1>0, <1>14, ShellMoves DEF ShellDispatches
  <2>2. NoId \in Ids \cup {NoId} /\ shell.handle \in Handles \cup {NoHandle} /\ shell.op \in Actions
    BY <1>0 DEF ShellStates, Actions
  <2>3. queue' \in Seq(Requests)
    BY <1>0, <1>14, <2>2, PushDoes DEF ShellDispatches
  <2> QED BY <1>0, <1>14, <2>1, <2>3 DEF CoreOK, ShellDispatches
<1>15. CASE ShellWakes
  BY <1>0, <1>15, ShellIdleIs DEF CoreOK, ShellWakes, WriteWake
<1>16. CASE StopSession
  <2>1. shell' \in ShellStates
    BY <1>16, <1>c DEF StopSession
  <2>2. stops' \in 0..MaxStops
    BY <1>0, <1>16, WindowsAssumption DEF StopSession, CoreOK
  <2> QED BY <1>0, <1>16, <2>1, <2>2 DEF CoreOK, StopSession
<1>17. CASE Teardown
  <2>1. surface' \in [Handles -> Surfaces]
    BY <1>0, <1>17 DEF Teardown
  <2> QED BY <1>0, <1>17, <2>1 DEF CoreOK, Teardown, Dispatching
<1>18. CASE StopReturns
  BY <1>0, <1>18 DEF CoreOK, StopReturns
<1>19. CASE StartRuns
  <2>1. shell' \in ShellStates
    BY <1>19, <1>c DEF StartRuns
  <2> QED BY <1>0, <1>19, <2>1 DEF CoreOK, StartRuns
<1>20. CASE StopClears
  <2>1. shell' \in ShellStates
    BY <1>20, <1>c DEF StopClears
  <2> QED BY <1>0, <1>20, <1>a, <2>1 DEF CoreOK, StopClears
<1>21. CASE StartClears
  BY <1>0, <1>21, <1>a DEF CoreOK, StartClears
<1>22. CASE Task
  <2>1. /\ task' \in Tasks /\ nextZ' \in Nat \ {0} /\ surface' \in [Handles -> Surfaces]
        /\ UNCHANGED <<host, loop, batch, nextId, queued, ui, shell, counters>>
    BY <1>22, TaskTables
  <2> QED BY <1>0, <2>1 DEF CoreOK
<1>23. CASE UNCHANGED vars
  BY <1>0, <1>23 DEF CoreOK, vars
<1> QED BY <1>1, <1>2, <1>3, <1>4, <1>5, <1>6, <1>7, <1>8, <1>9, <1>10, <1>11, <1>12, <1>13,
           <1>14, <1>15, <1>16, <1>17, <1>18, <1>19, <1>20, <1>21, <1>22, <1>23 DEF Next

\* The taskbar's own changes of the model.
LEMMA ShellTables ==
    ASSUME TableInv, ShellRaises \/ ShellMinimizes \/ ShellDeactivates
    PROVE  /\ TablesOK' /\ TablesAreLive' /\ TaskInOrder'
           /\ Keeps(model, model') /\ DOMAIN model' = DOMAIN model
           /\ \A j \in DOMAIN model \ {shell.id} : model'[j].mode = model[j].mode
           /\ ShellDeactivates => \A j \in DOMAIN model : model'[j].mode = model[j].mode
<1> DEFINE i == shell.id
<1>1. /\ CoreOK /\ TablesOK /\ TablesAreLive /\ TaskInOrder
      /\ UNCHANGED <<surface, task, nextId, tracker>>
      /\ model \in [DOMAIN model -> Entries] /\ Stacked(model, nextZ) /\ TopActive(model)
  BY DEF TableInv, TablesOK, Tables, ShellRaises, ShellMinimizes, ShellDeactivates, compositor
<1>2. TrackerKeeps(tracker, tracker') /\ OneActive(tracker')
  BY <1>1, SelfKeeps
<1>3. CASE ShellRaises
  <2>1. RaiseModel(model, i) /\ ~ShellDeactivates
    BY <1>3 DEF ShellRaises, ShellDeactivates
  <2> HIDE DEF i
  <2>2. /\ Keeps(model, model') /\ Stacked(model', nextZ') /\ TopActive(model')
        /\ DOMAIN model' = DOMAIN model
        /\ \A j \in DOMAIN model \ {i} : model'[j].mode = model[j].mode
    BY <1>1, <2>1, RaiseModelDoes
  <2> QED BY <1>1, <1>2, <2>1, <2>2, EditStep DEF i
<1>4. CASE ShellMinimizes
  <2>1. model' = WithMode(model, i, "MINIMIZED") /\ nextZ' = nextZ /\ ~ShellDeactivates
    BY <1>4 DEF ShellMinimizes, ShellDeactivates
  <2> HIDE DEF i
  <2>2. /\ Keeps(model, model') /\ Stacked(model', nextZ) /\ TopActive(model')
        /\ DOMAIN model' = DOMAIN model
        /\ \A j \in DOMAIN model \ {i} : model'[j].mode = model[j].mode
    BY <1>1, <2>1, ModeTables DEF Modes
  <2> QED BY <1>1, <1>2, <2>1, <2>2, EditStep DEF i
<1>5. CASE ShellDeactivates
  <2>1. model' = Deactivated(model, i) /\ nextZ' = nextZ
    BY <1>5 DEF ShellDeactivates
  <2> HIDE DEF i
  <2>2. /\ Keeps(model, model') /\ DOMAIN model' = DOMAIN model
        /\ \A j \in DOMAIN model : /\ model'[j].z = model[j].z /\ model'[j].mode = model[j].mode
                                   /\ model'[j].active => model[j].active
    BY <1>1, <2>1, DeactivatedDoes, Zenon
  <2>3. Stacked(model', nextZ) /\ TopActive(model')
    BY <1>1, <2>2, StackedKeeps, TopActiveKeeps
  <2> QED BY <1>1, <1>2, <2>1, <2>2, <2>3, EditStep
<1> QED BY <1>3, <1>4, <1>5

\* Every step of every action keeps the tables in order.
LEMMA TableStep == TableInv /\ [Next]_vars => TableInv'
<1> DEFINE Goal == TablesOK' /\ TablesAreLive' /\ TaskInOrder'
<1> SUFFICES ASSUME TableInv, [Next]_vars PROVE Goal
  BY CoreStep DEF TableInv
<1>0. TablesOK /\ TablesAreLive /\ TaskInOrder
  BY DEF TableInv
<1>1. ASSUME NEW h \in Handles, SurfaceAdded(h) \/ SurfaceRemoved(h) \/ SurfaceMapped(h) PROVE Goal
  BY <1>1, AddedTables, RemovedTables, MappedTables
<1>2. CASE Process
  <2>1. PICK a \in Requests : ProcessAction(a)
    BY <1>2, BatchDoes DEF Process, InAction, TableInv
  <2>2. CASE ShowWindow(a)
    BY <2>2, ShowTables
  <2>3. CASE HideWindow(a)
    BY <2>3, HideTables
  <2>4. CASE DropAction(a) \/ UseFreedSurface(a)
    BY <1>0, <2>4, SameTables DEF DropAction, UseFreedSurface
  <2> QED BY <2>1, <2>2, <2>3, <2>4 DEF ProcessAction
<1>3. CASE ShellRaises \/ ShellMinimizes \/ ShellDeactivates
  BY <1>3, ShellTables
<1>4. CASE StopSession
  <2>1. /\ UNCHANGED <<surface, task, nextId, nextZ, tracker>>
        /\ model' = NoTable \/ model' = model
    BY <1>4 DEF StopSession, compositor
  <2> QED BY <1>0, <2>1, ClearedDoes, SelfKeeps, EditStep
<1>5. CASE StopClears
  <2>1. UNCHANGED <<surface, task, model, nextId, nextZ>> /\ tracker' = NoTable
    BY <1>5 DEF StopClears, compositor
  <2> QED BY <1>0, <2>1, ClearedDoes, SelfKeeps, EditStep
<1>6. CASE Teardown
  <2>1. /\ model' = NoTable /\ tracker' = NoTable /\ UNCHANGED <<task, nextId, nextZ>>
        /\ task = AtRest
    BY <1>6 DEF Teardown, Dispatching, Resting
  <2>2. TablesAreLive'
    BY <2>1 DEF TablesAreLive, NoTable
  <2>3. Keeps(model, model') /\ TrackerKeeps(tracker, tracker')
        /\ Stacked(model', nextZ') /\ TopActive(model') /\ OneActive(tracker')
    BY <2>1, ClearedDoes
  <2>4. TablesOK'
    BY <1>0, <2>1, <2>3 DEF TablesOK, Tables, Keeps, TrackerKeeps, Stacked, TopActive, OneActive
  <2>5. TaskInOrder'
    BY <2>1, AtRestIs DEF TaskInOrder
  <2> QED BY <2>2, <2>4, <2>5
<1>7. ASSUME UNCHANGED <<surface, task, tables>> PROVE Goal
  BY <1>0, <1>7, SameTables
<1>8. CASE Task
  BY <1>8, TaskTables
<1>9. Goal
  <2>1. CASE DrainWake \/ SwapQueue \/ BatchDone \/ UiWake
    BY <1>7, <2>1 DEF DrainWake, SwapQueue, BatchDone, UiWake, compositor
  <2>2. ASSUME NEW i \in Ids, (\E op \in UiActions : UiRequest(i, op))
                              \/ (\E close \in BOOLEAN : ShellClick(i, close))
        PROVE  Goal
    BY <1>7, <2>2 DEF UiRequest, ShellClick, compositor
  <2>3. CASE ShellLooksUp \/ ShellDispatches \/ ShellWakes
    BY <1>7, <2>3 DEF ShellLooksUp, ShellDispatches, ShellWakes, compositor
  <2>4. CASE StopReturns \/ StartClears \/ StartRuns \/ UNCHANGED vars
    BY <1>7, <2>4 DEF StopReturns, StartClears, StartRuns, vars, compositor
  <2> QED BY <1>1, <1>2, <1>3, <1>4, <1>5, <1>6, <1>8, <2>1, <2>2, <2>3, <2>4 DEF Next
<1> QED BY <1>9

LEMMA TableInit == Init => TableInv
<1> SUFFICES ASSUME Init PROVE TableInv
  OBVIOUS
<1>1. CoreOK
  <2>1. shell \in ShellStates
    <3>1. \A s \in {[ShellIdle EXCEPT !.at = "terminated"]} : s \in ShellStates
      BY ShellIdleIs, ShellMoves
    <3> QED BY <3>1 DEF Init
  <2>2. Gone \in Surfaces
    BY DEF Gone, Surfaces
  <2>3. surface \in [Handles -> Surfaces]
    BY <2>2 DEF Init
  <2>4. nextId \in 1..(MaxId + 1) /\ requests \in 0..MaxRequests /\ stops \in 0..MaxStops
    BY WindowsAssumption DEF Init
  <2>5. queue \in Seq(Requests) /\ batch \in Seq(Requests)
    BY DEF Init
  <2>6. wakeFd \in BOOLEAN /\ wake \in BOOLEAN /\ batch = <<>>
    BY DEF Init
  <2>7. host = "STOPPED" /\ nextZ = 1 /\ loop = "run" /\ ui = "idle"
    BY DEF Init
  <2>8. task \in Tasks
    BY AtRestIs DEF Init
  <2> QED BY <2>1, <2>3, <2>4, <2>5, <2>6, <2>7, <2>8 DEF CoreOK
<1>2. TablesOK /\ TablesAreLive
  <2>1. model = NoTable /\ tracker = NoTable
    BY DEF Init
  <2> QED BY <2>1, ClearedDoes DEF TablesOK, Tables, TablesAreLive, Keeps, TrackerKeeps, NoTable
<1>3. TaskInOrder
  BY AtRestIs DEF Init, TaskInOrder
<1> QED BY <1>1, <1>2, <1>3 DEF TableInv

LEMMA TableInvariant == Spec => []TableInv
BY TableInit, TableStep, PTL DEF Spec

(* The surfaces, the two tables, the queue and the threads keep their      *)
(* types; ids and heights stay below the counters they come from.          *)
THEOREM TypeCorrect == Spec => []TypeOK
<1>1. TableInv => TypeOK
  BY TableParts
<1> QED BY <1>1, TableInvariant, PTL

(* However many windows are registered, raised, minimized and removed by   *)
(* the three threads, the active window is on top of all others and no     *)
(* table has two active windows.                                           *)
THEOREM StackSafety == Spec => []ActiveIsTop
<1>1. TableInv => ActiveIsTop
  BY TableParts
<1> QED BY <1>1, TableInvariant, PTL

(* A window in the model or in the tracker is a live surface that carries  *)
(* its id: an action queued by id reaches no freed and no reused surface.  *)
THEOREM LiveSafety == Spec => []TablesAreLive
<1>1. TableInv => TablesAreLive
  BY DEF TableInv
<1> QED BY <1>1, TableInvariant, PTL

-----------------------------------------------------------------------------
(* The queue and its eventfd.                                              *)

\* What the compositor's work on one action leaves alone.
LEMMA ProcessDoes ==
    ASSUME TableInv, Process
    PROVE  /\ UNCHANGED <<nextId, queue, wakeFd, wake, ui, shell>> /\ DOMAIN model' = DOMAIN model
           /\ loop = "batch"
           /\ (host' = host /\ loop' = loop) \/ host' = "crashed"
<1>1. PICK a \in Requests : a = Head(batch) /\ ProcessAction(a)
  BY BatchDoes DEF Process, InAction, TableInv
<1>2. loop = "batch"
  BY DEF Process, InAction
<1>3. CASE ShowWindow(a)
  BY <1>2, <1>3, ShowTables DEF ShowWindow, queued
<1>4. CASE HideWindow(a)
  BY <1>2, <1>4, HideTables DEF HideWindow, queued
<1>5. CASE DropAction(a)
  BY <1>2, <1>5 DEF DropAction, queued, tables
<1>6. CASE UseFreedSurface(a)
  BY <1>2, <1>6 DEF UseFreedSurface, queued, tables
<1> QED BY <1>1, <1>3, <1>4, <1>5, <1>6 DEF ProcessAction

\* stop() and start() find each other's states.
LEMMA HostStep ==
    ASSUME TableInv, HostInOrder, [Next]_vars
    PROVE  HostInOrder'
<1> USE DEF tables, queued, compositor, counters, Rest
<1>1. ASSUME NEW h \in Handles, SurfaceAdded(h) \/ SurfaceRemoved(h) \/ SurfaceMapped(h)
      PROVE  HostInOrder'
  BY <1>1 DEF HostInOrder, SurfaceAdded, SurfaceRemoved, SurfaceMapped, Dispatching
<1>2. CASE DrainWake \/ SwapQueue \/ BatchDone
  BY <1>2 DEF HostInOrder, DrainWake, SwapQueue, BatchDone, Dispatching
<1>3. CASE Process
  BY <1>3, ProcessDoes DEF HostInOrder
<1>4. ASSUME NEW i \in Ids, NEW op \in UiActions, UiRequest(i, op) PROVE HostInOrder'
  BY <1>4 DEF HostInOrder, UiRequest
<1>5. CASE UiWake
  BY <1>5 DEF HostInOrder, UiWake
<1>6. ASSUME NEW i \in Ids, NEW close \in BOOLEAN, ShellClick(i, close) PROVE HostInOrder'
  BY <1>6 DEF HostInOrder, ShellClick
<1>7. CASE ShellLooksUp \/ ShellRaises \/ ShellMinimizes \/ ShellDeactivates \/ ShellDispatches
           \/ ShellWakes
  <2>1. /\ UNCHANGED <<host, wakeFd>> /\ host # "crashed"
        /\ shell.at \in {"called", "activate", "minimize", "deactivate", "close", "pushed"}
    BY <1>7 DEF ShellLooksUp, ShellRaises, ShellMinimizes, ShellDeactivates, ShellDispatches,
                ShellWakes
  <2> QED BY <2>1 DEF HostInOrder
<1>8. CASE StopSession
  <2>1. shell'.at = "joined"
    BY <1>8, ShellIdleIs, ShellMoves DEF StopSession
  <2> QED BY <1>8, <2>1 DEF HostInOrder, StopSession
<1>9. CASE StopClears
  <2>1. shell'.at = "terminated"
    BY <1>9, ShellIdleIs, ShellMoves DEF StopClears
  <2> QED BY <1>9, <2>1 DEF HostInOrder, StopClears
<1>10. CASE Teardown
  BY <1>10, AtRestIs DEF HostInOrder, Teardown, Dispatching, Resting
<1>11. CASE StopReturns \/ StartClears
  BY <1>11 DEF HostInOrder, StopReturns, StartClears
<1>12. CASE StartRuns
  BY <1>12 DEF HostInOrder, StartRuns
<1>13. CASE Task
  <2>1. task.at # "rest" /\ UNCHANGED <<host, shell, queued>>
    BY <1>13, TaskTables
  <2> QED BY <2>1 DEF HostInOrder
<1>14. CASE UNCHANGED vars
  BY <1>14 DEF HostInOrder, vars
<1> QED BY <1>1, <1>2, <1>3, <1>4, <1>5, <1>6, <1>7, <1>8, <1>9, <1>10, <1>11, <1>12, <1>13, <1>14
        DEF Next

LEMMA QueueStep ==
    ASSUME TableInv, QueueInOrder, [Next]_vars
    PROVE  QueueInOrder'
<1> USE DEF tables, queued, compositor, counters
<1>0. CoreOK /\ nextId \in Nat /\ queue \in Seq(Requests)
  BY DEF TableInv, CoreOK
<1>a. \A k \in 1..Len(queue) : queue[k] \in Requests /\ queue[k].id \in Nat
  <2>1. \A k \in 1..Len(queue) : queue[k] \in Requests
    BY <1>0
  <2>2. \A a \in Requests : a.id \in Nat
    BY WindowsAssumption DEF Requests, Ids, NoId
  <2> QED BY <2>1, <2>2
<1>b. ASSUME queue' = queue, nextId' \in {nextId, nextId + 1},
             shell'.at = "terminated" => shell.at = "terminated"
      PROVE  QueueInOrder'
  BY <1>0, <1>a, <1>b DEF QueueInOrder
<1>c. queue' = <<>> => QueueInOrder'
  BY DEF QueueInOrder
<1>1. ASSUME NEW h \in Handles, SurfaceAdded(h) \/ SurfaceRemoved(h) \/ SurfaceMapped(h)
      PROVE  QueueInOrder'
  BY <1>1, <1>b DEF SurfaceAdded, SurfaceRemoved, SurfaceMapped
<1>2. CASE DrainWake \/ SwapQueue \/ BatchDone
  BY <1>2, <1>b, <1>c DEF DrainWake, SwapQueue, BatchDone
<1>3. CASE Process
  BY <1>3, <1>b, ProcessDoes
<1>4. ASSUME NEW i \in Ids, NEW op \in UiActions, UiRequest(i, op) PROVE QueueInOrder'
  <2>1. /\ Len(queue') = Len(queue) + 1 /\ \A k \in 1..Len(queue) : queue'[k] = queue[k]
        /\ queue'[Len(queue) + 1].id = i /\ queue'[Len(queue) + 1].handle = NoHandle
    <3>1. Push(i, NoHandle, op) /\ op \in Actions
      BY <1>4, WindowsAssumption DEF UiRequest
    <3>2. /\ Len(queue') = Len(queue) + 1 /\ \A k \in 1..Len(queue) : queue'[k] = queue[k]
          /\ queue'[Len(queue) + 1] = [id |-> i, handle |-> NoHandle, op |-> op]
      BY <1>0, <3>1, PushDoes
    <3> QED BY <3>2
  <2>2. i < nextId /\ nextId' = nextId /\ shell' = shell
    BY <1>4 DEF UiRequest
  <2> QED BY <1>0, <2>1, <2>2 DEF QueueInOrder
<1>5. CASE UiWake
  BY <1>5, <1>b DEF UiWake
<1>6. ASSUME NEW i \in Ids, NEW close \in BOOLEAN, ShellClick(i, close) PROVE QueueInOrder'
  BY <1>6, <1>b, ShellClickDoes DEF ShellClick
<1>7. CASE ShellLooksUp
  <2>1. shell'.at # "terminated"
    BY <1>0, <1>7, ShellLooksUpDoes, ShellIdleIs DEF TableInv, CoreOK, ShellStates
  <2> QED BY <1>7, <1>b, <2>1 DEF ShellLooksUp
<1>8. CASE ShellRaises \/ ShellMinimizes \/ ShellDeactivates
  <2>1. shell'.at # "terminated"
    BY <1>0, <1>8, ShellMoves DEF ShellRaises, ShellMinimizes, ShellDeactivates, CoreOK
  <2> QED BY <1>8, <1>b, <2>1 DEF ShellRaises, ShellMinimizes, ShellDeactivates
<1>9. CASE ShellDispatches
  <2>1. shell.handle \in Handles \cup {NoHandle} /\ shell.op \in Actions /\ NoId \in Ids \cup {NoId}
    BY <1>0 DEF CoreOK, ShellStates, Actions
  <2>2. /\ Len(queue') = Len(queue) + 1 /\ \A k \in 1..Len(queue) : queue'[k] = queue[k]
        /\ queue'[Len(queue) + 1].id = 0
    <3>1. Push(NoId, shell.handle, shell.op)
      BY <1>9 DEF ShellDispatches
    <3>2. /\ Len(queue') = Len(queue) + 1 /\ \A k \in 1..Len(queue) : queue'[k] = queue[k]
          /\ queue'[Len(queue) + 1] = [id |-> NoId, handle |-> shell.handle, op |-> shell.op]
      BY <1>0, <2>1, <3>1, PushDoes
    <3> QED BY <3>2 DEF NoId
  <2>3. shell'.at = "pushed" /\ nextId' = nextId /\ nextId > 0
    <3>1. shell' = [shell EXCEPT !.at = "pushed"] /\ nextId' = nextId /\ shell \in ShellStates
      BY <1>0, <1>9 DEF ShellDispatches, CoreOK
    <3>2. nextId > 0
      BY <1>0 DEF CoreOK
    <3> QED BY <3>1, <3>2, ShellMoves
  <2> QED BY <1>0, <2>2, <2>3 DEF QueueInOrder
<1>10. CASE ShellWakes \/ StartRuns
  <2>1. shell'.at \in {"idle", "off"}
    <3>1. \A at \in {"idle", "off"} : [ShellIdle EXCEPT !.at = at].at = at
      BY ShellIdleIs, ShellMoves
    <3> QED BY <1>10, <3>1, ShellIdleIs DEF ShellWakes, StartRuns
  <2> QED BY <1>10, <1>b, <2>1 DEF ShellWakes, StartRuns
<1>11. CASE StopSession
  <2>1. shell'.at = "joined"
    BY <1>11, ShellIdleIs, ShellMoves DEF StopSession
  <2> QED BY <1>11, <1>b, <2>1 DEF StopSession
<1>12. CASE StopClears \/ StartClears
  BY <1>12, <1>c DEF StopClears, StartClears
<1>13. CASE Teardown \/ StopReturns \/ UNCHANGED vars
  BY <1>13, <1>b DEF Teardown, StopReturns, vars
<1>14. CASE Task
  BY <1>14, <1>b, TaskTables
<1> QED BY <1>1, <1>2, <1>3, <1>4, <1>5, <1>6, <1>7, <1>8, <1>9, <1>10, <1>11, <1>12, <1>13, <1>14
        DEF Next

\* A step that neither queues, nor empties the eventfd, nor ends what
\* somebody still has to do.
LEMMA StillWakes ==
    ASSUME NoLostWake, queue' = queue, DOMAIN model' \subseteq DOMAIN model,
           host' = "RUNNING" => host = "RUNNING", wake => wake', ui = "pushed" => ui' = "pushed",
           shell.at = "pushed" => shell'.at = "pushed",
           loop = "drained" /\ host' = "RUNNING" => loop' = "drained"
    PROVE  NoLostWake'
BY DEF NoLostWake, Has

LEMMA WakeStep == WakeInv /\ [Next]_vars => WakeInv'
<1> SUFFICES ASSUME WakeInv, [Next]_vars PROVE NoLostWake'
  BY TableStep, HostStep, QueueStep DEF WakeInv
<1> USE DEF tables, queued, compositor, counters
<1>0. TableInv /\ HostInOrder /\ QueueInOrder /\ NoLostWake /\ CoreOK /\ TablesOK
  BY DEF WakeInv, TableInv
<1>1. ASSUME NEW h \in Handles, SurfaceAdded(h) PROVE NoLostWake'
  <2>1. /\ UNCHANGED <<host, queue, wake, ui, shell, loop>>
        /\ DOMAIN model' = DOMAIN model \cup {nextId} /\ nextId \in Nat
    <3>1. DOMAIN model' = DOMAIN model \cup {nextId}
      BY <1>0, <1>1, AddedTables
    <3>2. nextId \in Nat
      BY <1>0 DEF CoreOK
    <3> QED BY <1>1, <3>1, <3>2 DEF SurfaceAdded
  <2>2. \A k \in 1..Len(queue) : queue[k].id # nextId
    BY <1>0, <2>1 DEF QueueInOrder
  <2> QED BY <1>0, <2>1, <2>2 DEF NoLostWake, Has
<1>2. ASSUME NEW h \in Handles, SurfaceRemoved(h) PROVE NoLostWake'
  <2>1. DOMAIN model' \subseteq DOMAIN model
    BY <1>0, <1>2, RemovedTables DEF Keeps
  <2> QED BY <1>0, <1>2, <2>1, StillWakes DEF SurfaceRemoved
<1>3. ASSUME NEW h \in Handles, SurfaceMapped(h) PROVE NoLostWake'
  <2>1. DOMAIN model' \subseteq DOMAIN model
    BY <1>0, <1>3, MappedTables
  <2> QED BY <1>0, <1>3, <2>1, StillWakes DEF SurfaceMapped
<1>4. CASE DrainWake \/ SwapQueue
  BY <1>4 DEF DrainWake, SwapQueue, NoLostWake
<1>5. CASE BatchDone
  BY <1>0, <1>5, StillWakes DEF BatchDone
<1>6. CASE Process
  <2>1. /\ queue' = queue /\ wake' = wake /\ ui' = ui /\ shell' = shell /\ loop # "drained"
        /\ DOMAIN model' \subseteq DOMAIN model /\ (host' = "RUNNING" => host = "RUNNING")
    BY <1>0, <1>6, ProcessDoes
  <2> QED BY <1>0, <2>1, StillWakes
<1>7. ASSUME NEW i \in Ids, NEW op \in UiActions, UiRequest(i, op) PROVE NoLostWake'
  BY <1>7 DEF UiRequest, NoLostWake
<1>8. CASE UiWake \/ ShellWakes
  <2>1. host' = host /\ wakeFd' = wakeFd /\ wake' = (wake \/ wakeFd)
    BY <1>8 DEF UiWake, ShellWakes, WriteWake
  <2> QED BY <1>0, <2>1 DEF NoLostWake, HostInOrder
<1>9. ASSUME NEW i \in Ids, NEW close \in BOOLEAN, ShellClick(i, close) PROVE NoLostWake'
  BY <1>0, <1>9, StillWakes DEF ShellClick
<1>10. CASE ShellLooksUp
  BY <1>0, <1>10, StillWakes DEF ShellLooksUp
<1>11. CASE ShellRaises \/ ShellMinimizes \/ ShellDeactivates
  <2>1. DOMAIN model' \subseteq DOMAIN model
    BY <1>0, <1>11, ShellTables
  <2> QED BY <1>0, <1>11, <2>1, StillWakes DEF ShellRaises, ShellMinimizes, ShellDeactivates
<1>12. CASE ShellDispatches
  <2>1. shell'.at = "pushed"
    BY <1>0, <1>12, ShellMoves DEF ShellDispatches, CoreOK
  <2> QED BY <2>1 DEF NoLostWake
<1>13. CASE StopSession \/ StopClears \/ Teardown \/ StopReturns \/ StartClears
  <2>1. host' # "RUNNING"
    BY <1>13 DEF StopSession, StopClears, Teardown, StopReturns, StartClears
  <2> QED BY <2>1 DEF NoLostWake
<1>14. CASE StartRuns
  <2>1. model' = NoTable /\ shell.at = "terminated" /\ queue' = queue
    BY <1>0, <1>14 DEF StartRuns, HostInOrder, Rest
  <2>2. \A k \in 1..Len(queue) : queue[k].handle = NoHandle
    BY <1>0, <2>1 DEF QueueInOrder
  <2> QED BY <2>1, <2>2 DEF NoLostWake, Has, NoTable
<1>15. CASE Task
  <2>1. /\ DOMAIN model' = DOMAIN model
        /\ UNCHANGED <<host, loop, queued, ui, shell>>
    BY <1>0, <1>15, TaskTables
  <2> QED BY <1>0, <2>1, StillWakes
<1>16. CASE UNCHANGED vars
  BY <1>0, <1>16 DEF NoLostWake, Has, vars
<1> QED BY <1>1, <1>2, <1>3, <1>4, <1>5, <1>6, <1>7, <1>8, <1>9, <1>10, <1>11, <1>12, <1>13, <1>14,
           <1>15, <1>16 DEF Next

(* No wake-up is lost: while a host that runs has an action queued for a   *)
(* window it knows, or one of the taskbar, the eventfd is readable, is     *)
(* about to be written, or has been emptied by a loop that takes the queue *)
(* next; for any number of actions, and across stop() and start().         *)
THEOREM WakeSafety == Spec => []NoLostWake
<1>1. Init => WakeInv
  <2> SUFFICES ASSUME Init PROVE HostInOrder /\ QueueInOrder /\ NoLostWake
    BY TableInit DEF WakeInv
  <2>1. shell.at = "terminated"
    BY ShellIdleIs, ShellMoves DEF Init
  <2> QED BY <2>1, AtRestIs DEF Init, HostInOrder, QueueInOrder, NoLostWake
<1>2. WakeInv => NoLostWake
  BY DEF WakeInv
<1> QED BY <1>1, <1>2, WakeStep, PTL DEF Spec

-----------------------------------------------------------------------------
(* The model and the screen.                                               *)

\* What the taskbar copied stays true of the window while the model has it.
LEMMA ShellStep ==
    ASSUME TableInv, ShellInOrder, [Next]_vars
    PROVE  ShellInOrder'
<1> DEFINE Working == {"activate", "minimize", "deactivate", "close"}
<1> USE DEF tables, queued, compositor, counters
<1>0. /\ CoreOK /\ TablesOK /\ nextId \in Nat /\ shell \in ShellStates /\ shell.id \in Nat
      /\ DOMAIN model \subseteq 1..(nextId - 1)
  <2>1. \A s \in ShellStates : s.id \in Nat
    BY WindowsAssumption DEF ShellStates, Ids, NoId
  <2> QED BY <2>1, WindowsAssumption DEF TableInv, CoreOK, TablesOK, Tables
<1>a. ASSUME UNCHANGED <<shell, nextId>>, Keeps(model, model') PROVE ShellInOrder'
  BY <1>a DEF ShellInOrder, Keeps, Has
<1>b. ASSUME UNCHANGED <<shell, nextId, model>> PROVE ShellInOrder'
  BY <1>b DEF ShellInOrder, Has
<1>c. ASSUME nextId' = nextId, shell'.id \in {NoId, shell.id}, shell'.at \notin Working PROVE ShellInOrder'
  BY <1>0, <1>c DEF ShellInOrder, NoId, CoreOK
<1>d. ASSUME NEW l \in {"deactivate", "close", "pushed"}, shell' = [shell EXCEPT !.at = l]
      PROVE  shell'.at = l /\ shell'.id = shell.id /\ shell'.op = shell.op /\ shell'.handle = shell.handle
  BY <1>0, <1>d, ShellMoves
<1>e. ASSUME NEW l \in {"idle", "off", "joined", "terminated"}, shell' = [ShellIdle EXCEPT !.at = l]
      PROVE  shell'.at = l /\ shell'.id = NoId
  BY <1>e, ShellIdleIs, ShellMoves
<1>1. ASSUME NEW h \in Handles, SurfaceAdded(h) PROVE ShellInOrder'
  <2>1. nextId' = nextId + 1 /\ shell' = shell
    BY <1>1 DEF SurfaceAdded
  <2>2. /\ DOMAIN model' = DOMAIN model \cup {nextId}
        /\ \A j \in DOMAIN model : model'[j].handle = model[j].handle
    BY <1>1, AddedTables
  <2>3. shell.id # nextId
    BY <1>0 DEF ShellInOrder
  <2> QED BY <1>0, <2>1, <2>2, <2>3 DEF ShellInOrder, Has
<1>2. ASSUME NEW h \in Handles, SurfaceRemoved(h) PROVE ShellInOrder'
  BY <1>2, <1>a, RemovedTables DEF SurfaceRemoved
<1>3. ASSUME NEW h \in Handles, SurfaceMapped(h) PROVE ShellInOrder'
  BY <1>3, <1>a, MappedTables DEF SurfaceMapped
<1>4. CASE DrainWake \/ SwapQueue \/ BatchDone \/ UiWake \/ StopReturns \/ StartClears \/ UNCHANGED vars
  BY <1>4, <1>b DEF DrainWake, SwapQueue, BatchDone, UiWake, StopReturns, StartClears, vars
<1>5. CASE Process
  <2>1. PICK a \in Requests : ProcessAction(a)
    BY <1>0, <1>5, BatchDoes DEF Process, InAction
  <2>2. UNCHANGED <<shell, nextId>>
    BY <1>5, ProcessDoes
  <2>3. CASE ShowWindow(a)
    BY <1>a, <2>2, <2>3, ShowTables
  <2>4. CASE HideWindow(a)
    BY <1>a, <2>2, <2>4, HideTables
  <2>5. CASE DropAction(a) \/ UseFreedSurface(a)
    BY <1>b, <2>2, <2>5 DEF DropAction, UseFreedSurface
  <2> QED BY <2>1, <2>3, <2>4, <2>5 DEF ProcessAction
<1>6. ASSUME NEW i \in Ids, NEW op \in UiActions, UiRequest(i, op) PROVE ShellInOrder'
  BY <1>6, <1>b DEF UiRequest
<1>7. ASSUME NEW i \in Ids, NEW close \in BOOLEAN, ShellClick(i, close) PROVE ShellInOrder'
  <2>1. shell'.at = "called" /\ shell'.id = i
    BY <1>7, ShellClickDoes
  <2>2. i \in DOMAIN model /\ nextId' = nextId
    BY <1>7 DEF ShellClick, Has
  <2> QED BY <1>0, <2>1, <2>2 DEF ShellInOrder
<1>8. CASE ShellLooksUp
  <2>1. UNCHANGED <<nextId, model>>
    BY <1>8 DEF ShellLooksUp
  <2>2. CASE shell' = ShellIdle
    BY <1>c, <2>1, <2>2, ShellIdleIs
  <2>3. CASE shell' # ShellIdle
    <3>1. /\ Has(model, shell.id) /\ shell'.at = shell.op /\ shell'.handle = model[shell.id].handle
          /\ shell'.id = shell.id /\ shell'.op = shell.op
      BY <1>0, <1>8, <2>3, ShellLooksUpDoes
    <3>2. shell.op \in {"activate", "minimize", "close"}
      BY <1>0 DEF ShellStates
    <3> QED BY <2>1, <3>1, <3>2 DEF ShellInOrder
  <2> QED BY <2>2, <2>3
<1>9. CASE ShellRaises \/ ShellMinimizes \/ ShellDeactivates
  <2>1. Keeps(model, model') /\ nextId' = nextId
    BY <1>9, ShellTables DEF ShellRaises, ShellMinimizes, ShellDeactivates
  <2>2. /\ shell.at \in Working /\ shell'.id = shell.id /\ shell'.handle = shell.handle
        /\ \/ shell'.at = "close"
           \/ shell'.at = "deactivate" /\ shell.at = "minimize" /\ shell'.op = shell.op
    BY <1>9, <1>d DEF ShellRaises, ShellMinimizes, ShellDeactivates
  <2> QED BY <2>1, <2>2 DEF ShellInOrder, Keeps, Has
<1>10. CASE ShellDispatches
  BY <1>10, <1>c, <1>d DEF ShellDispatches
<1>11. CASE ShellWakes \/ StartRuns
  BY <1>11, <1>c, <1>e, ShellIdleIs DEF ShellWakes, StartRuns
<1>12. CASE StopSession
  <2>1. nextId' = nextId /\ shell'.at = "joined" /\ shell'.id = NoId
    BY <1>12, <1>e DEF StopSession
  <2> QED BY <1>c, <2>1
<1>13. CASE StopClears
  BY <1>13, <1>c, <1>e DEF StopClears
<1>14. CASE Teardown
  BY <1>14 DEF Teardown, ShellInOrder, Has, NoTable
<1>15. CASE Task
  BY <1>15, <1>a, TaskTables
<1> QED BY <1>1, <1>2, <1>3, <1>4, <1>5, <1>6, <1>7, <1>8, <1>9, <1>10, <1>11, <1>12, <1>13, <1>14,
           <1>15
        DEF Next

\* A step that keeps every action on its way, and for each window either its
\* view and its mode, or what makes them agree.
LEMMA StillAgrees ==
    ASSUME AgreesOrPending, host' = "RUNNING" => host = "RUNNING", Keeps(model, model'),
           \A i \in DOMAIN model' :
              \/ /\ model'[i].mode = model[i].mode
                 /\ surface'[model[i].handle] = surface[model[i].handle]
                 /\ \A h : h = model[i].handle /\ Pending(h) => Pending(h)'
              \/ Agrees(i)'
              \/ \A h : h = model[i].handle => Pending(h)'
    PROVE  AgreesOrPending'
<1> SUFFICES ASSUME host' = "RUNNING", NEW i \in DOMAIN model'
             PROVE  Agrees(i)' \/ Pending(model[i].handle)'
  BY DEF AgreesOrPending
<1>1. i \in DOMAIN model /\ model'[i].handle = model[i].handle
  BY DEF Keeps
<1>2. PICK h : h = model[i].handle
  OBVIOUS
<1>3. Agrees(i) \/ Pending(h)
  BY <1>1, <1>2 DEF AgreesOrPending
<1>4. Pending(h)' => Pending(model[i].handle)'
  BY <1>1, <1>2 DEF Pending
<1>5. ASSUME Agrees(i), model'[i].mode = model[i].mode,
             surface'[model[i].handle] = surface[model[i].handle]
      PROVE  Agrees(i)'
  BY <1>1, <1>5 DEF Agrees
<1> QED BY <1>2, <1>3, <1>4, <1>5

\* The surface of an action is the window's it is about.
LEMMA TargetIsWindow ==
    ASSUME TableInv, NEW a \in Requests, Target(a) # NoHandle, NEW i \in DOMAIN model
    PROVE  model[i].handle = Target(a) <=> i = WindowId(a)
<1>1. model[i].handle = Target(a) => i = WindowId(a)
  BY TargetOf
<1>2. ASSUME i = WindowId(a) PROVE model[i].handle = Target(a)
  <2>1. i # NoId
    BY DEF TableInv, TablesOK, Tables, NoId
  <2>2. CASE a.handle = NoHandle
    BY <1>2, <2>2 DEF WindowId, Target, Has
  <2>3. CASE a.handle # NoHandle
    <3>1. i = IdOf(a.handle) /\ Target(a) = a.handle
      BY <1>2, <2>3 DEF WindowId, Target
    <3> QED BY <2>1, <3>1, Zenon DEF IdOf
  <2> QED BY <2>2, <2>3
<1> QED BY <1>1, <1>2

\* The next action of the batch goes, the others stay on their way.
LEMMA NextPending ==
    ASSUME CoreOK, batch # <<>>, UNCHANGED <<queue, shell>>, batch' = Tail(batch), NEW h, Pending(h)
    PROVE  Pending(h)' \/ Settles(Head(batch), h)
<1>1. CASE \E k \in 1..Len(batch) : Settles(batch[k], h)
  <2>1. PICK k \in 1..Len(batch) : Settles(batch[k], h)
    BY <1>1
  <2>2. CASE k = 1
    BY <2>1, <2>2, BatchDoes
  <2>3. CASE k # 1
    <3>1. /\ Len(batch) \in Nat \ {0} /\ Len(batch') = Len(batch) - 1
          /\ \A n \in 1..Len(batch') : batch'[n] = batch[n + 1]
      BY BatchDoes
    <3>2. k - 1 \in 1..Len(batch') /\ batch'[k - 1] = batch[k]
      BY <2>3, <3>1
    <3> QED BY <2>1, <3>2 DEF Pending, Settles
  <2> QED BY <2>2, <2>3
<1>2. CASE ~\E k \in 1..Len(batch) : Settles(batch[k], h)
  BY <1>2 DEF Pending, Settles
<1> QED BY <1>1, <1>2

\* More actions are queued, by the taskbar or by the UI.
LEMMA PushPending ==
    ASSUME CoreOK, NEW i \in Ids \cup {NoId}, NEW g \in Handles \cup {NoHandle}, NEW op \in Actions,
           Push(i, g, op), batch' = batch, NEW h, Pending(h),
           shell' = shell \/ (g = shell.handle /\ op = shell.op)
    PROVE  Pending(h)'
<1>1. /\ Len(queue') = Len(queue) + 1 /\ \A k \in 1..Len(queue) : queue'[k] = queue[k]
      /\ queue'[Len(queue) + 1].handle = g /\ queue'[Len(queue) + 1].op = op /\ Len(queue) \in Nat
  <2>1. /\ Len(queue') = Len(queue) + 1 /\ \A k \in 1..Len(queue) : queue'[k] = queue[k]
        /\ queue'[Len(queue) + 1] = [id |-> i, handle |-> g, op |-> op]
    BY PushDoes
  <2> QED BY <2>1 DEF CoreOK
<1>2. CASE \E k \in 1..Len(queue) : Settles(queue[k], h)
  BY <1>1, <1>2 DEF Pending, Settles
<1>3. CASE \E k \in 1..Len(batch) : Settles(batch[k], h)
  BY <1>3 DEF Pending, Settles
<1>4. CASE shell.at \in {"deactivate", "close"} /\ Settles(shell, h)
  BY <1>1, <1>4 DEF Pending, Settles
<1> QED BY <1>2, <1>3, <1>4 DEF Pending

\* The compositor works one action off.
LEMMA ProcessAgrees ==
    ASSUME TableInv, AgreesOrPending, Process
    PROVE  AgreesOrPending'
<1>1. PICK a \in Requests : a = Head(batch) /\ ProcessAction(a)
  BY BatchDoes DEF Process, InAction, TableInv
<1>2. CoreOK /\ TablesAreLive /\ batch # <<>> /\ UNCHANGED <<queue, shell>>
  BY ProcessDoes DEF Process, InAction, TableInv
<1>3. \A i \in DOMAIN model : model[i].handle \in Handles /\ surface[model[i].handle].id = i /\ i # NoId
  BY DEF TableInv, TablesOK, Tables, Entries, TablesAreLive, NoId
<1>4. ASSUME batch' = Tail(batch), NEW h, Pending(h), ~Settles(a, h) PROVE Pending(h)'
  BY <1>1, <1>2, <1>4, NextPending
<1>5. ASSUME NEW b \in BOOLEAN, Shows(Target(a), b), Target(a) # NoHandle, batch' = Tail(batch),
             host' = host, Keeps(model, model'), DOMAIN model' = DOMAIN model,
             \A j \in DOMAIN model \ {WindowId(a)} : model'[j].mode = model[j].mode,
             WindowId(a) \in DOMAIN model => (b <=> model'[WindowId(a)].mode # "MINIMIZED")
      PROVE  AgreesOrPending'
  <2>1. ASSUME NEW i \in DOMAIN model
        PROVE  \/ /\ model'[i].mode = model[i].mode
                  /\ surface'[model[i].handle] = surface[model[i].handle]
                  /\ \A h : h = model[i].handle /\ Pending(h) => Pending(h)'
               \/ Agrees(i)'
    <3>1. CASE i = WindowId(a)
      <4>1. model'[i].handle = Target(a)
        BY <1>5, <2>1, <3>1, TargetIsWindow DEF Keeps
      <4> QED BY <1>5, <2>1, <3>1, <4>1 DEF Agrees, Shows
    <3>2. CASE i # WindowId(a)
      <4>1. model[i].handle # Target(a) /\ model[i].handle \in Handles
        BY <1>3, <1>5, <2>1, <3>2, TargetIsWindow
      <4>2. surface'[model[i].handle] = surface[model[i].handle]
        BY <1>5, <4>1 DEF Shows
      <4>3. ~Settles(a, model[i].handle)
        <5>1. a.handle # NoHandle => Target(a) = a.handle
          BY DEF Target
        <5>2. NoHandle \notin Handles
          BY WindowsAssumption
        <5> QED BY <4>1, <5>1, <5>2 DEF Settles
      <4> QED BY <1>4, <1>5, <2>1, <3>2, <4>2, <4>3
    <3> QED BY <3>1, <3>2
  <2> QED BY <1>5, <2>1, StillAgrees
<1>6. CASE ShowWindow(a)
  <2>1. Target(a) # NoHandle /\ batch' = Tail(batch) /\ host' = host
    BY <1>6 DEF ShowWindow, NextAction
  <2> QED BY <1>5, <1>6, <2>1, ShowTables
<1>7. CASE HideWindow(a)
  <2>1. Target(a) # NoHandle /\ batch' = Tail(batch) /\ host' = host
    BY <1>7 DEF HideWindow, NextAction
  <2> QED BY <1>5, <1>7, <2>1, HideTables
<1>8. ASSUME UNCHANGED <<model, surface>>, batch' = Tail(batch) \/ host' = "crashed",
             host' = "RUNNING" => host = "RUNNING",
             \A i \in DOMAIN model : ~Settles(a, model[i].handle)
      PROVE  AgreesOrPending'
  <2>1. CASE host' = "crashed"
    BY <2>1 DEF AgreesOrPending
  <2>2. CASE batch' = Tail(batch)
    <3>1. Keeps(model, model')
      BY <1>8, SelfKeeps DEF TableInv
    <3>2. ASSUME NEW i \in DOMAIN model
          PROVE  \A h : h = model[i].handle /\ Pending(h) => Pending(h)'
      BY <1>4, <1>8, <2>2, <3>2
    <3> QED BY <1>8, <3>1, <3>2, StillAgrees
  <2> QED BY <1>8, <2>1, <2>2
<1>9. CASE DropAction(a)
  <2>1. \A i \in DOMAIN model : ~Settles(a, model[i].handle)
    <3>1. a.handle \in Handles => Target(a) = a.handle /\ Target(a) # NoHandle
      BY WindowsAssumption DEF Target
    <3>2. Target(a) # NoHandle => a.op = "close"
      BY <1>9 DEF DropAction
    <3> QED BY <1>3, <3>1, <3>2 DEF Settles
  <2> QED BY <1>8, <1>9, <2>1 DEF DropAction, NextAction, tables
<1>10. CASE UseFreedSurface(a)
  <2>1. \A i \in DOMAIN model : ~Settles(a, model[i].handle)
    <3>1. a.handle \in Handles => Target(a) = a.handle
      BY WindowsAssumption DEF Target
    <3>2. surface[Target(a)].id = NoId
      BY <1>10 DEF UseFreedSurface, IsLive
    <3> QED BY <1>3, <3>1, <3>2 DEF Settles
  <2> QED BY <1>8, <1>10, <2>1 DEF UseFreedSurface, NextAction, tables
<1> QED BY <1>1, <1>6, <1>7, <1>9, <1>10 DEF ProcessAction

\* An id is given to one surface only.
LEMMA SurfacesStep ==
    ASSUME TableInv, SurfacesInOrder, [Next]_vars
    PROVE  SurfacesInOrder'
<1> USE DEF tables, queued, compositor, counters
<1>0. /\ CoreOK /\ nextId \in Nat \ {0} /\ \A g \in Handles : surface[g].id \in Nat
  BY WindowsAssumption DEF TableInv, CoreOK, Surfaces, Ids, NoId
<1>a. ASSUME nextId' = nextId, \A g \in Handles : surface'[g].id \in {surface[g].id, NoId}
      PROVE  SurfacesInOrder'
  BY <1>0, <1>a DEF SurfacesInOrder, NoId
<1>1. ASSUME NEW h \in Handles, SurfaceAdded(h) PROVE SurfacesInOrder'
  <2>1. nextId' = nextId + 1
    BY <1>1 DEF SurfaceAdded
  <2>2. surface'[h].id = nextId /\ \A g \in Handles \ {h} : surface'[g] = surface[g]
    <3>1. /\ DOMAIN model' = DOMAIN model \cup {nextId} /\ model'[nextId].handle = h /\ TablesAreLive'
          /\ \A g \in Handles \ {h} : surface'[g] = surface[g]
      BY <1>1, AddedTables
    <3> QED BY <3>1 DEF TablesAreLive
  <2> QED BY <1>0, <2>1, <2>2 DEF SurfacesInOrder
<1>2. ASSUME NEW h \in Handles, SurfaceRemoved(h) PROVE SurfacesInOrder'
  BY <1>2, <1>a DEF SurfaceRemoved
<1>3. ASSUME NEW h \in Handles, SurfaceMapped(h) PROVE SurfacesInOrder'
  BY <1>3, <1>a, MappedTables DEF SurfaceMapped
<1>4. CASE Process
  <2>1. PICK a \in Requests : ProcessAction(a)
    BY <1>0, <1>4, BatchDoes DEF Process, InAction
  <2>2. nextId' = nextId
    BY <1>4, ProcessDoes
  <2>3. CASE ShowWindow(a)
    BY <1>a, <2>2, <2>3, ShowTables DEF Shows
  <2>4. CASE HideWindow(a)
    BY <1>a, <2>2, <2>4, HideTables DEF Shows
  <2>5. CASE DropAction(a) \/ UseFreedSurface(a)
    BY <1>a, <2>2, <2>5 DEF DropAction, UseFreedSurface
  <2> QED BY <2>1, <2>3, <2>4, <2>5 DEF ProcessAction
<1>5. CASE Teardown
  BY <1>5, <1>a DEF Teardown, Gone
<1>6. CASE UNCHANGED <<surface, nextId>>
  BY <1>6, <1>a
<1>7. CASE Task
  <2>1. nextId' = nextId /\ \A g \in Handles : surface'[g] \in {surface[g], Gone}
    BY <1>7, TaskTables
  <2> QED BY <1>a, <2>1 DEF Gone
<1>8. UNCHANGED <<surface, nextId>> \/ SurfacesInOrder'
  <2>1. CASE DrainWake \/ SwapQueue \/ BatchDone \/ UiWake
    BY <2>1 DEF DrainWake, SwapQueue, BatchDone, UiWake
  <2>2. ASSUME NEW i \in Ids, (\E op \in UiActions : UiRequest(i, op))
                              \/ (\E close \in BOOLEAN : ShellClick(i, close))
        PROVE  UNCHANGED <<surface, nextId>>
    BY <2>2 DEF UiRequest, ShellClick
  <2>3. CASE ShellLooksUp \/ ShellRaises \/ ShellMinimizes \/ ShellDeactivates \/ ShellDispatches
             \/ ShellWakes
    BY <2>3 DEF ShellLooksUp, ShellRaises, ShellMinimizes, ShellDeactivates, ShellDispatches,
                ShellWakes
  <2>4. CASE StopSession \/ StopClears \/ StopReturns \/ StartClears \/ StartRuns \/ UNCHANGED vars
    BY <2>4 DEF StopSession, StopClears, StopReturns, StartClears, StartRuns, vars
  <2> QED BY <1>1, <1>2, <1>3, <1>4, <1>5, <1>7, <2>1, <2>2, <2>3, <2>4 DEF Next
<1> QED BY <1>6, <1>8

\* Nobody hides, frees or renames the window that is about to be raised.
LEMMA RaiseStep ==
    ASSUME TableInv, RaiseInOrder, [Next]_vars
    PROVE  RaiseInOrder'
<1> USE DEF tables, queued, compositor, counters
<1>0. CoreOK /\ TablesOK /\ Keeps(model, model)
  BY SelfKeeps DEF TableInv
<1>a. ASSUME UNCHANGED <<surface, task>>, Keeps(model, model') PROVE RaiseInOrder'
  BY <1>a DEF RaiseInOrder, Keeps, Has
<1>b. ASSUME task'.at # "raise" PROVE RaiseInOrder'
  BY <1>b DEF RaiseInOrder
<1>1. ASSUME NEW h \in Handles, SurfaceAdded(h) \/ SurfaceRemoved(h) \/ SurfaceMapped(h)
      PROVE  RaiseInOrder'
  BY <1>1, <1>b, AddedTables, RemovedTables, MappedTables
<1>2. CASE Process
  <2>1. PICK a \in Requests : ProcessAction(a)
    BY <1>0, <1>2, BatchDoes DEF Process, InAction
  <2>2. CASE ShowWindow(a)
    <3>1. /\ task'.id = WindowId(a) /\ task'.handle = Target(a) /\ Target(a) \in Handles
          /\ Shows(Target(a), TRUE) /\ Keeps(model, model')
      BY <2>2, ShowTables
    <3>2. Target(a) # NoHandle
      BY <2>2 DEF ShowWindow
    <3>3. Has(model', WindowId(a)) => model'[WindowId(a)].handle = Target(a)
      BY <3>1, <3>2, TargetIsWindow DEF Has, Keeps
    <3> QED BY <3>1, <3>3 DEF RaiseInOrder, Shows, Has
  <2>3. CASE HideWindow(a)
    BY <1>b, <2>3, HideTables
  <2>4. CASE DropAction(a) \/ UseFreedSurface(a)
    BY <1>0, <1>a, <2>4 DEF DropAction, UseFreedSurface
  <2> QED BY <2>1, <2>2, <2>3, <2>4 DEF ProcessAction
<1>3. CASE Task
  BY <1>3, <1>b, TaskTables
<1>4. CASE ShellRaises \/ ShellMinimizes \/ ShellDeactivates
  <2>1. UNCHANGED <<surface, task>>
    BY <1>4 DEF ShellRaises, ShellMinimizes, ShellDeactivates
  <2> QED BY <1>4, <1>a, <2>1, ShellTables
<1>5. CASE StopSession
  <2>1. UNCHANGED <<surface, task>> /\ (model' = NoTable \/ model' = model)
    BY <1>5 DEF StopSession
  <2> QED BY <1>0, <1>a, <2>1, ClearedDoes
<1>6. CASE Teardown
  <2>1. task' = AtRest
    BY <1>6 DEF Teardown, Dispatching, Resting
  <2> QED BY <1>b, <2>1, AtRestIs
<1>7. ASSUME UNCHANGED <<surface, task, model>> PROVE RaiseInOrder'
  BY <1>0, <1>7, <1>a
<1>8. RaiseInOrder'
  <2>1. CASE DrainWake \/ SwapQueue \/ BatchDone \/ UiWake
    BY <1>7, <2>1 DEF DrainWake, SwapQueue, BatchDone, UiWake
  <2>2. ASSUME NEW i \in Ids, (\E op \in UiActions : UiRequest(i, op))
                              \/ (\E close \in BOOLEAN : ShellClick(i, close))
        PROVE  RaiseInOrder'
    BY <1>7, <2>2 DEF UiRequest, ShellClick
  <2>3. CASE ShellLooksUp \/ ShellDispatches \/ ShellWakes
    BY <1>7, <2>3 DEF ShellLooksUp, ShellDispatches, ShellWakes
  <2>4. CASE StopClears \/ StopReturns \/ StartClears \/ StartRuns \/ UNCHANGED vars
    BY <1>7, <2>4 DEF StopClears, StopReturns, StartClears, StartRuns, vars
  <2> QED BY <1>1, <1>2, <1>3, <1>4, <1>5, <1>6, <2>1, <2>2, <2>3, <2>4 DEF Next
<1> QED BY <1>8

LEMMA ScreenStep == ScreenInv /\ [Next]_vars => ScreenInv'
<1> SUFFICES ASSUME ScreenInv, [Next]_vars PROVE AgreesOrPending'
  BY TableStep, HostStep, ShellStep, RaiseStep, SurfacesStep DEF ScreenInv
<1> USE DEF tables, queued, compositor, counters
<1>0. /\ TableInv /\ HostInOrder /\ ShellInOrder /\ RaiseInOrder /\ SurfacesInOrder
      /\ AgreesOrPending /\ CoreOK /\ TablesOK /\ TablesAreLive
      /\ Keeps(model, model) /\ shell \in ShellStates
      /\ \A i \in DOMAIN model : model[i].handle \in Handles
  BY SelfKeeps DEF ScreenInv, TableInv, CoreOK, TablesOK, Tables, Entries
<1>a. ASSUME UNCHANGED <<queue, batch, shell>>, NEW h, Pending(h) PROVE Pending(h)'
  BY <1>a DEF Pending, Settles
<1>b. ASSUME UNCHANGED <<model, surface>>, host' = "RUNNING" => host = "RUNNING",
             \A h : Pending(h) => Pending(h)'
      PROVE  AgreesOrPending'
  BY <1>0, <1>b, StillAgrees
<1>c. ASSUME UNCHANGED <<queue, batch>>, NEW h, Pending(h),
             ~(shell.at \in {"deactivate", "close"} /\ Settles(shell, h))
      PROVE  Pending(h)'
  BY <1>c DEF Pending, Settles
<1>1. ASSUME NEW h \in Handles, SurfaceAdded(h) PROVE AgreesOrPending'
  <2>1. UNCHANGED <<queue, batch, shell, host>>
    BY <1>1 DEF SurfaceAdded
  <2>2. /\ DOMAIN model' = DOMAIN model \cup {nextId}
        /\ \A j \in DOMAIN model : /\ j # nextId /\ model'[j].handle = model[j].handle
                                   /\ model'[j].mode = model[j].mode /\ model[j].handle # h
        /\ model'[nextId].handle = h /\ surface'[h].mapped = FALSE
        /\ \A g \in Handles \ {h} : surface'[g] = surface[g]
    BY <1>0, <1>1, AddedTables
  <2> SUFFICES ASSUME host' = "RUNNING", NEW i \in DOMAIN model'
               PROVE  Agrees(i)' \/ Pending(model[i].handle)'
    BY DEF AgreesOrPending
  <2>3. CASE i = nextId
    BY <2>2, <2>3 DEF Agrees
  <2>4. CASE i # nextId
    <3>1. i \in DOMAIN model /\ surface'[model[i].handle] = surface[model[i].handle]
      BY <1>0, <2>2, <2>4
    <3>2. Agrees(i) \/ Pending(model[i].handle)
      BY <1>0, <2>1, <3>1 DEF AgreesOrPending
    <3>3. Agrees(i) => Agrees(i)'
      BY <2>2, <3>1 DEF Agrees
    <3>4. Pending(model[i].handle) => Pending(model[i].handle)'
      BY <2>1, <2>2, <3>1 DEF Pending, Settles
    <3> QED BY <3>2, <3>3, <3>4
  <2> QED BY <2>3, <2>4
<1>2. ASSUME NEW h \in Handles, SurfaceRemoved(h) PROVE AgreesOrPending'
  <2>1. UNCHANGED <<queue, batch, shell, host, surface>>
    BY <1>2 DEF SurfaceRemoved
  <2>2. Keeps(model, model') /\ \A j \in DOMAIN model' : model'[j].mode = model[j].mode
    BY <1>0, <1>2, RemovedTables
  <2> QED BY <1>0, <1>a, <2>1, <2>2, StillAgrees
<1>3. ASSUME NEW h \in Handles, SurfaceMapped(h) PROVE AgreesOrPending'
  <2>1. UNCHANGED <<queue, batch, shell, host>>
    BY <1>3 DEF SurfaceMapped
  <2>2. /\ Keeps(model, model') /\ DOMAIN model' = DOMAIN model
        /\ \A j \in DOMAIN model \ {surface[h].id} : model'[j].mode = model[j].mode
        /\ surface[h].id \in DOMAIN model => model'[surface[h].id].mode # "MINIMIZED"
        /\ surface'[h].shown /\ \A g \in Handles \ {h} : surface'[g] = surface[g]
    BY <1>0, <1>3, MappedTables
  <2>3. ASSUME NEW j \in DOMAIN model'
        PROVE  \/ /\ model'[j].mode = model[j].mode
                  /\ surface'[model[j].handle] = surface[model[j].handle]
               \/ Agrees(j)'
    <3>1. CASE model[j].handle = h
      <4>1. j = surface[h].id /\ model'[j].handle = h
        BY <1>0, <2>2, <3>1 DEF TablesAreLive, Keeps
      <4> QED BY <2>2, <4>1 DEF Agrees
    <3>2. CASE model[j].handle # h
      <4>1. surface'[model[j].handle] = surface[model[j].handle]
        BY <1>0, <2>2, <3>2
      <4>2. j # surface[h].id => model'[j].mode = model[j].mode
        BY <2>2
      <4>3. CASE j = surface[h].id
        <5>1. model[j].handle \in Handles /\ surface[model[j].handle].id = j
          BY <1>0, <2>2 DEF TablesAreLive
        <5>2. j # NoId
          BY <1>0, <2>2 DEF TablesOK, Tables, NoId
        <5> QED BY <1>0, <3>2, <4>3, <5>1, <5>2 DEF SurfacesInOrder
      <4> QED BY <4>1, <4>2, <4>3
    <3> QED BY <3>1, <3>2
  <2> QED BY <1>0, <1>a, <2>1, <2>2, <2>3, StillAgrees
<1>4. CASE DrainWake \/ BatchDone \/ UiWake \/ UNCHANGED vars
  BY <1>4, <1>a, <1>b DEF DrainWake, BatchDone, UiWake, vars
<1>5. CASE SwapQueue
  <2>1. UNCHANGED <<model, surface, host, shell>> /\ batch' = queue
    BY <1>5 DEF SwapQueue
  <2>2. ASSUME NEW h, Pending(h), host # "crashed" PROVE Pending(h)'
    <3>1. batch = <<>>
      BY <1>0, <1>5, <2>2 DEF SwapQueue, CoreOK
    <3> QED BY <2>1, <2>2, <3>1 DEF Pending, Settles
  <2>3. CASE host = "crashed"
    BY <2>1, <2>3 DEF AgreesOrPending
  <2> QED BY <1>b, <2>1, <2>2, <2>3
<1>6. CASE Process
  BY <1>0, <1>6, ProcessAgrees
<1>7. ASSUME NEW i \in Ids, NEW op \in UiActions, UiRequest(i, op) PROVE AgreesOrPending'
  <2>1. Push(i, NoHandle, op) /\ op \in Actions /\ UNCHANGED <<model, surface, host, shell, batch>>
    BY <1>7, WindowsAssumption DEF UiRequest
  <2>2. ASSUME NEW h, Pending(h) PROVE Pending(h)'
    BY <1>0, <2>1, <2>2, PushPending
  <2> QED BY <1>b, <2>1, <2>2
<1>8. ASSUME NEW i \in Ids, NEW close \in BOOLEAN, ShellClick(i, close) PROVE AgreesOrPending'
  BY <1>8, <1>b, <1>c DEF ShellClick
<1>9. CASE ShellLooksUp
  BY <1>9, <1>b, <1>c DEF ShellLooksUp
<1>10. CASE ShellRaises \/ ShellMinimizes \/ ShellDeactivates
  <2>1. UNCHANGED <<queue, batch, surface, host>>
    BY <1>10 DEF ShellRaises, ShellMinimizes, ShellDeactivates
  <2>2. /\ Keeps(model, model') /\ DOMAIN model' = DOMAIN model
        /\ \A j \in DOMAIN model \ {shell.id} : model'[j].mode = model[j].mode
    BY <1>0, <1>10, ShellTables
  <2>3. /\ shell.at \in {"activate", "minimize", "deactivate"} /\ shell.op \in {"activate", "minimize"}
        /\ shell'.at \in {"deactivate", "close"} /\ shell'.op = shell.op /\ shell'.handle = shell.handle
    <3>1. PICK l \in {"deactivate", "close"} : shell' = [shell EXCEPT !.at = l]
      BY <1>10 DEF ShellRaises, ShellMinimizes, ShellDeactivates
    <3>2. shell'.at = l /\ shell'.op = shell.op /\ shell'.handle = shell.handle
      BY <1>0, <3>1, ShellMoves
    <3>3. shell.at \in {"activate", "minimize", "deactivate"}
      BY <1>10 DEF ShellRaises, ShellMinimizes, ShellDeactivates
    <3> QED BY <1>0, <3>2, <3>3 DEF ShellInOrder
  <2>4. ASSUME NEW h, Pending(h) PROVE Pending(h)'
    BY <2>1, <2>3, <2>4 DEF Pending, Settles
  <2>5. ASSUME shell.id \in DOMAIN model PROVE \A h : h = model[shell.id].handle => Pending(h)'
    <3>1. model[shell.id].handle = shell.handle
      BY <1>0, <2>3, <2>5 DEF ShellInOrder, Has
    <3> QED BY <2>3, <3>1 DEF Pending, Settles
  <2> QED BY <1>0, <2>1, <2>2, <2>4, <2>5, StillAgrees
<1>11. CASE ShellDispatches
  <2>1. /\ Push(NoId, shell.handle, shell.op) /\ NoId \in Ids \cup {NoId}
        /\ shell.handle \in Handles \cup {NoHandle} /\ shell.op \in Actions
        /\ UNCHANGED <<model, surface, host, batch>>
    BY <1>0, <1>11 DEF ShellDispatches, ShellStates, Actions
  <2>2. ASSUME NEW h, Pending(h) PROVE Pending(h)'
    BY <1>0, <2>1, <2>2, PushPending
  <2> QED BY <1>b, <2>1, <2>2
<1>12. CASE ShellWakes
  BY <1>12, <1>b, <1>c DEF ShellWakes
<1>13. CASE StopSession \/ StopClears \/ Teardown \/ StopReturns \/ StartClears
  <2>1. host' # "RUNNING"
    BY <1>13 DEF StopSession, StopClears, Teardown, StopReturns, StartClears
  <2> QED BY <2>1 DEF AgreesOrPending
<1>14. CASE StartRuns
  <2>1. model' = NoTable
    BY <1>0, <1>14 DEF StartRuns, HostInOrder, Rest
  <2> QED BY <2>1 DEF AgreesOrPending, NoTable
<1>15. CASE Task
  <2>1. /\ UNCHANGED <<host, batch, queue, shell>> /\ Keeps(model, model') /\ DOMAIN model' = DOMAIN model
        /\ \A j \in DOMAIN model : surface'[model[j].handle] = surface[model[j].handle]
        /\ \A j \in DOMAIN model \ {task.id} : model'[j].mode = model[j].mode
        /\ task.at # "raise" => \A j \in DOMAIN model : model'[j].mode = model[j].mode
    BY <1>0, <1>15, TaskTables
  <2>2. ASSUME NEW i \in DOMAIN model, i = task.id, task.at = "raise" PROVE Agrees(i)'
    <3>1. model'[i].mode # "MINIMIZED" /\ UNCHANGED surface
      BY <1>0, <1>15, <2>2, TaskTables
    <3>2. surface[model[i].handle].shown /\ model'[i].handle = model[i].handle
      BY <1>0, <2>1, <2>2 DEF RaiseInOrder, Has, Keeps
    <3> QED BY <3>1, <3>2 DEF Agrees
  <2> QED BY <1>0, <1>a, <2>1, <2>2, StillAgrees
<1> QED BY <1>1, <1>2, <1>3, <1>4, <1>5, <1>6, <1>7, <1>8, <1>9, <1>10, <1>11, <1>12, <1>13, <1>14,
           <1>15 DEF Next

(* Whatever the taskbar, the UI and the compositor do to a window, and     *)
(* whoever changes the model first: when nothing is queued any more and    *)
(* the taskbar is idle, the mapped windows on the screen are those that    *)
(* the model does not have minimized.                                      *)
THEOREM ScreenSafety == Spec => []ScreenMatchesModel
<1>1. Init => ScreenInv
  <2> SUFFICES ASSUME Init
               PROVE  HostInOrder /\ ShellInOrder /\ RaiseInOrder /\ SurfacesInOrder /\ AgreesOrPending
    BY TableInit DEF ScreenInv
  <2>1. shell.at = "terminated" /\ shell.id = NoId
    BY ShellIdleIs, ShellMoves DEF Init
  <2>2. HostInOrder /\ ShellInOrder /\ RaiseInOrder /\ AgreesOrPending
    BY <2>1, AtRestIs DEF Init, HostInOrder, ShellInOrder, RaiseInOrder, AgreesOrPending, NoTable, NoId, Has
  <2>3. SurfacesInOrder
    BY DEF Init, SurfacesInOrder, Gone, NoId
  <2> QED BY <2>2, <2>3
<1>2. ScreenInv => ScreenMatchesModel
  <2> SUFFICES ASSUME ScreenInv, host = "RUNNING", shell.at \in {"idle", "off"}, queue = <<>>, batch = <<>>,
                      NEW i \in DOMAIN model
               PROVE  Agrees(i)
    BY DEF ScreenMatchesModel, Agrees
  <2>1. ~Pending(model[i].handle)
    BY DEF Pending
  <2> QED BY <2>1 DEF ScreenInv, AgreesOrPending
<1> QED BY <1>1, <1>2, ScreenStep, PTL DEF Spec
================================================================================
