--------------------------- MODULE TaskBoard_proofs ---------------------------
(* The promises of TaskBoard hold of every board: any set of tasks, with any *)
(* dependencies and files, and any workers.                                  *)
EXTENDS TaskBoard, TLAPS

Inv == HeldIffActive /\ DependencyOrder /\ FileExclusion

\* What releasing tasks does to the invariant, whoever releases them.
LEMMA ReleaseKeepsHeld ==
  ASSUME HeldIffActive, NEW S \in SUBSET Tasks, NEW s, s # "active", Release(S, s)
  PROVE  HeldIffActive'
BY DEF HeldIffActive, Release

LEMMA ReleaseKeepsExclusion ==
  ASSUME FileExclusion, NEW S \in SUBSET Tasks, NEW s, Release(S, s)
  PROVE  FileExclusion'
BY DEF FileExclusion, Release

\* Stopping tasks whose dependencies are completed, none of them completed
\* itself, withdraws nothing.
LEMMA ReleaseKeepsOrder ==
  ASSUME DependencyOrder, NEW S \in SUBSET Tasks, NEW s, Release(S, s),
         \A t \in S : stage[t] # "queued" /\ stage[t] # "completed"
  PROVE  DependencyOrder'
<1>1. Completed \subseteq Completed'
  BY DEF Completed, Release
<1>2. \A t \in Tasks : stage'[t] # "queued" => stage[t] # "queued"
  BY DEF Release
<1> QED
  BY <1>1, <1>2 DEF DependencyOrder

LEMMA StartKeepsInv ==
  ASSUME Inv, NEW t \in Tasks, NEW w \in Workers, Nobody \notin Workers,
         TypeOK, Start(t, w)
  PROVE  Inv'
<1>1. HeldIffActive'
  BY DEF Inv, HeldIffActive, Start, TypeOK
<1>2. DependencyOrder'
  <2>1. Completed' = Completed
    BY DEF Start, Completed, TypeOK
  <2> QED
    BY <2>1 DEF Inv, DependencyOrder, Start, TypeOK
<1>3. FileExclusion'
  <2> SUFFICES ASSUME NEW u \in Tasks, NEW v \in Tasks, u # v, live'[u], live'[v]
               PROVE  AllowedFiles[u] \cap AllowedFiles[v] = {}
    BY DEF FileExclusion
  <2>1. \A x \in Tasks : x # t => live'[x] = live[x]
    BY DEF Start, TypeOK
  <2>2. CASE u = t
    BY <2>1, <2>2 DEF Start
  <2>3. CASE v = t
    BY <2>1, <2>3 DEF Start
  <2>4. CASE u # t /\ v # t
    BY <2>1, <2>4 DEF Inv, FileExclusion
  <2> QED
    BY <2>2, <2>3, <2>4
<1> QED
  BY <1>1, <1>2, <1>3 DEF Inv

LEMMA LapseKeepsInv ==
  ASSUME Inv, NEW S \in SUBSET Tasks, Lapse(S)
  PROVE  Inv'
<1>1. HeldIffActive' /\ FileExclusion'
  BY DEF Inv, HeldIffActive, FileExclusion, Lapse
<1>2. DependencyOrder'
  BY DEF Inv, DependencyOrder, Completed, Lapse
<1> QED
  BY <1>1, <1>2 DEF Inv

\* Releasing active tasks only: Stop and Reconcile.
LEMMA ActiveReleaseKeepsInv ==
  ASSUME Inv, NEW S \in SUBSET Tasks, NEW s, s # "active", Release(S, s),
         \A t \in S : stage[t] = "active"
  PROVE  Inv'
BY ReleaseKeepsHeld, ReleaseKeepsExclusion, ReleaseKeepsOrder DEF Inv

LEMMA ResumeKeepsInv ==
  ASSUME Inv, NEW t \in Tasks, Resume(t)
  PROVE  Inv'
<1>1. Release({t}, "queued") /\ {t} \in SUBSET Tasks
  BY DEF Resume
<1>2. stage[t] # "queued" /\ stage[t] # "completed"
  BY DEF Resume
<1> QED
  BY <1>1, <1>2, ReleaseKeepsHeld, ReleaseKeepsExclusion, ReleaseKeepsOrder DEF Inv

LEMMA ReopenKeepsInv ==
  ASSUME Inv, NEW t \in Tasks, NEW S \in SUBSET Tasks, Reopen(t, S)
  PROVE  Inv'
<1>1. Release(S, "queued")
  BY DEF Reopen
<1>2. DependencyOrder'
  <2> SUFFICES ASSUME NEW u \in Tasks, stage'[u] # "queued"
               PROVE  DependsOn[u] \subseteq Completed'
    BY DEF DependencyOrder
  <2>1. u \notin S /\ stage[u] # "queued"
    BY <1>1 DEF Release
  <2>2. DependsOn[u] \cap S = {}
    BY <2>1 DEF Reopen, TaintedBy
  <2>3. DependsOn[u] \subseteq Completed
    BY <2>1 DEF Inv, DependencyOrder
  <2>4. \A v \in Completed : v \notin S => v \in Completed'
    BY <1>1 DEF Completed, Release
  <2> QED
    BY <2>2, <2>3, <2>4
<1> QED
  BY <1>1, <1>2, ReleaseKeepsHeld, ReleaseKeepsExclusion DEF Inv

LEMMA StepKeepsInv ==
  ASSUME Nobody \notin Workers, TypeOK, Inv, [Next]_vars
  PROVE  Inv'
<1>1. CASE UNCHANGED vars
  BY <1>1 DEF vars, Inv, HeldIffActive, DependencyOrder, Completed, FileExclusion
<1>2. ASSUME NEW t \in Tasks, Finish(t)
      PROVE  Inv'
  <2>1. Release({t}, "completed") /\ {t} \in SUBSET Tasks /\ \A u \in {t} : stage[u] = "active"
    BY <1>2 DEF Finish
  <2> QED
    BY <2>1, ActiveReleaseKeepsInv
<1>3. ASSUME NEW t \in Tasks, NEW s \in {"queued", "needs_user", "quarantined"}, Stop(t, s)
      PROVE  Inv'
  <2>1. Release({t}, s) /\ {t} \in SUBSET Tasks /\ \A u \in {t} : stage[u] = "active"
    BY <1>3 DEF Stop
  <2> QED
    BY <2>1, ActiveReleaseKeepsInv
<1>4. CASE Reconcile
  <2> DEFINE S == {t \in Tasks : holder[t] # Nobody /\ ~live[t]}
  <2>1. Release(S, "needs_user") /\ S \in SUBSET Tasks /\ \A u \in S : stage[u] = "active"
    BY <1>4 DEF Reconcile, Inv, HeldIffActive
  <2> QED
    BY <2>1, ActiveReleaseKeepsInv
<1> QED
  BY <1>1, <1>2, <1>3, <1>4, StartKeepsInv, ResumeKeepsInv, LapseKeepsInv, ReopenKeepsInv
     DEF Next

LEMMA ReleaseKeepsTypes ==
  ASSUME TypeOK, NEW S, Release(S, "queued") \/ Release(S, "needs_user")
                        \/ Release(S, "quarantined") \/ Release(S, "completed")
  PROVE  TypeOK'
BY DEF TypeOK, Release

LEMMA StepKeepsTypes ==
  ASSUME TypeOK, [Next]_vars
  PROVE  TypeOK'
<1>1. CASE UNCHANGED vars
  BY <1>1 DEF vars, TypeOK
<1>2. ASSUME NEW t \in Tasks, NEW w \in Workers, Start(t, w)
      PROVE  TypeOK'
  BY <1>2 DEF Start, TypeOK
<1>3. ASSUME NEW S, Lapse(S)
      PROVE  TypeOK'
  BY <1>3 DEF Lapse, TypeOK
<1>4. ASSUME NEW t, NEW s \in {"queued", "needs_user", "quarantined"}, Stop(t, s)
      PROVE  TypeOK'
  BY <1>4, ReleaseKeepsTypes DEF Stop
<1>5. ASSUME NEW t, NEW S, Finish(t) \/ Resume(t) \/ Reconcile \/ Reopen(t, S)
      PROVE  TypeOK'
  BY <1>5, ReleaseKeepsTypes DEF Finish, Resume, Reconcile, Reopen
<1> QED
  BY <1>1, <1>2, <1>3, <1>4, <1>5 DEF Next

\* A board keeps its promises: only what stands on completed dependencies is
\* out of the queue, whatever is reopened, and live workers share no file.
THEOREM BoardKeepsItsPromises ==
  ASSUME Nobody \notin Workers
  PROVE  Spec => [](TypeOK /\ Inv)
<1>1. Init => TypeOK /\ Inv
  BY DEF Init, TypeOK, Inv, HeldIffActive, DependencyOrder, Completed, FileExclusion
<1>2. TypeOK /\ Inv /\ [Next]_vars => TypeOK' /\ Inv'
  BY StepKeepsInv, StepKeepsTypes
<1> QED
  BY <1>1, <1>2, PTL DEF Spec
=============================================================================
