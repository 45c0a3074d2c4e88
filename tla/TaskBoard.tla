------------------------------ MODULE TaskBoard ------------------------------
(* What the execution service promises about a project's tasks, without      *)
(* saying how a task is built: who may work on what, and what completing,     *)
(* stopping and reopening a task does to the tasks around it.                 *)
(* ProjectExecution implements it.                                          *)
CONSTANTS
  Tasks,         \* the tasks
  DependsOn,     \* task -> the tasks it depends on
  AllowedFiles,  \* task -> the files it may change
  Workers,
  Nobody

VARIABLES
  stage,   \* task -> "queued", "active", "completed", "needs_user", "quarantined"
  holder,  \* task -> the worker whose lease it is under, or Nobody
  live     \* task -> whether that lease has not expired

vars == <<stage, holder, live>>

Init ==
  /\ stage = [t \in Tasks |-> "queued"]
  /\ holder = [t \in Tasks |-> Nobody]
  /\ live = [t \in Tasks |-> FALSE]

Completed == {t \in Tasks : stage[t] = "completed"}

\* The tasks of S change stage to s and are released.
Release(S, s) ==
  /\ stage' = [t \in Tasks |-> IF t \in S THEN s ELSE stage[t]]
  /\ holder' = [t \in Tasks |-> IF t \in S THEN Nobody ELSE holder[t]]
  /\ live' = [t \in Tasks |-> IF t \in S THEN FALSE ELSE live[t]]

\* A worker takes a queued task whose dependencies are completed and whose
\* files no live worker holds.
Start(t, w) ==
  /\ stage[t] = "queued"
  /\ DependsOn[t] \subseteq Completed
  /\ \A u \in Tasks : live[u] => AllowedFiles[t] \cap AllowedFiles[u] = {}
  /\ stage' = [stage EXCEPT ![t] = "active"]
  /\ holder' = [holder EXCEPT ![t] = w]
  /\ live' = [live EXCEPT ![t] = TRUE]

\* Only its live holder completes a task.
Finish(t) == stage[t] = "active" /\ live[t] /\ Release({t}, "completed")

\* Its live holder puts a task back or stops it for the owner.
Stop(t, s) == stage[t] = "active" /\ live[t] /\ Release({t}, s)

\* Leases expire ...
Lapse(S) ==
  /\ S # {} /\ \A t \in S : live[t]
  /\ live' = [t \in Tasks |-> IF t \in S THEN FALSE ELSE live[t]]
  /\ UNCHANGED <<stage, holder>>

\* ... and all expired work is handed to the owner at once.
Reconcile ==
  Release({t \in Tasks : holder[t] # Nobody /\ ~live[t]}, "needs_user")

\* The owner sends stopped work back to the queue.
Resume(t) == stage[t] \in {"needs_user", "quarantined"} /\ Release({t}, "queued")

\* The owner reopens a completed task: it, and exactly the tasks that depend
\* on it directly or through others, go back to the queue, whoever is
\* working on them.
TaintedBy(t, S) == t \in S /\ \A u \in Tasks : DependsOn[u] \cap S # {} => u \in S
Reopen(t, S) ==
  /\ stage[t] = "completed"
  /\ TaintedBy(t, S) /\ \A R \in SUBSET Tasks : TaintedBy(t, R) => S \subseteq R
  /\ Release(S, "queued")

Next ==
  \/ \E t \in Tasks, w \in Workers : Start(t, w)
  \/ \E t \in Tasks : Finish(t) \/ Resume(t)
  \/ \E t \in Tasks, s \in {"queued", "needs_user", "quarantined"} : Stop(t, s)
  \/ \E S \in SUBSET Tasks : Lapse(S)
  \/ Reconcile
  \/ \E t \in Tasks, S \in SUBSET Tasks : Reopen(t, S)

Spec == Init /\ [][Next]_vars

-----------------------------------------------------------------------------
TypeOK ==
  /\ stage \in [Tasks -> {"queued", "active", "completed", "needs_user", "quarantined"}]
  /\ holder \in [Tasks -> Workers \cup {Nobody}]
  /\ live \in [Tasks -> BOOLEAN]

\* A task is held exactly while it is being worked on, and only a held task
\* has a live lease.
HeldIffActive ==
  \A t \in Tasks : /\ stage[t] = "active" <=> holder[t] # Nobody
                   /\ live[t] => holder[t] # Nobody

\* What has left the queue stands on completed dependencies.
DependencyOrder ==
  \A t \in Tasks : stage[t] # "queued" => DependsOn[t] \subseteq Completed

\* Live workers never share a file.
FileExclusion ==
  \A t, u \in Tasks :
    t # u /\ live[t] /\ live[u] => AllowedFiles[t] \cap AllowedFiles[u] = {}
=============================================================================
