------------------------ MODULE TaskIntegration_proofs ------------------------
(* Proofs about ProjectExecution and about TaskIntegration, which extends it: *)
(* the execution service alone and the worker that uses it. For every number  *)
(* of tasks, dependency graph, file assignment, set of workers, providers and *)
(* reviews.                                                                 *)
(*                                                                          *)
(* I.  The service: the types of the stored record; that it implements        *)
(*     TaskBoard, and so keeps what the board promises; and what becomes of   *)
(*     the project state, of a task's evidence and of its history.            *)
(* II. The worker: it keeps within the service, what it merges sits on the    *)
(*     commit it was validated on, its types hold, rejected work is redone,   *)
(*     and completed work stays on the branch over its prerequisites.         *)
EXTENDS TaskIntegration, TLAPS

-----------------------------------------------------------------------------
(* I. The service. The types.                                               *)

LEMMA Limits ==
  /\ LeaseTicks \in Nat \ {0} /\ AttemptLimit \in Nat \ {0}
  /\ ImplementationLimit \in Nat \ {0} /\ ValidationLimit \in Nat \ {0}
BY ConstantsAssumption

LEMMA Bounds ==
  ASSUME NEW m \in Nat, NEW k \in 0..m
  PROVE  /\ 0 \in 0..m /\ m \in 0..m /\ k \in Nat
         /\ k + 1 <= m => k + 1 \in 0..m
         /\ k > 0 => k - 1 \in 0..m
OBVIOUS

-----------------------------------------------------------------------------
(* Every update of a task yields a task.                                    *)

LEMMA LeaseType ==
  ASSUME NEW r \in Task, NEW n \in 0..LeaseTicks
  PROVE  [r EXCEPT !.ttl = n] \in Task
BY DEF Task

LEMMA ClaimedType ==
  ASSUME NEW r \in Task, NEW w \in Workers, NEW p \in Providers
  PROVE  [r EXCEPT !.status = "running", !.provider = p, !.owner = w,
                   !.ttl = LeaseTicks, !.note = "plain"] \in Task
<1>1. LeaseTicks \in 0..LeaseTicks
  BY Limits, Bounds
<1> QED
  BY <1>1 DEF Task, Statuses, Active, Notes

LEMMA ImplementedType ==
  ASSUME NEW r \in Task, r.implemented + 1 \in 0..ImplementationLimit
  PROVE  [r EXCEPT !.status = "validating", !.deferred = {},
                   !.recovered = FALSE, !.implemented = @ + 1,
                   !.failure = Nobody, !.note = "plain"] \in Task
BY DEF Task, Statuses, Active, Notes

LEMMA PassedType ==
  ASSUME NEW r \in Task, NEW tier \in {"fast", "full"},
         r.checks + 1 \in 0..ValidationLimit
  PROVE  [r EXCEPT !.status = IF tier = "full" THEN "reviewing" ELSE @,
                   !.checks = @ + 1, !.passed = @ \cup {tier},
                   !.note = "plain"] \in Task
<1>1. (IF tier = "full" THEN "reviewing" ELSE r.status) \in Statuses
  BY DEF Task, Statuses, Active
<1>2. r.passed \cup {tier} \in SUBSET Tiers
  BY DEF Task, Tiers
<1>3. "plain" \in Notes
  BY DEF Notes
<1> QED
  BY <1>1, <1>2, <1>3 DEF Task

LEMMA FailedType ==
  ASSUME NEW r \in Task, NEW d \in Digests, r.checks + 1 \in 0..ValidationLimit
  PROVE  [r EXCEPT !.checks = @ + 1, !.failing = d,
                   !.repeated = (d = r.failing), !.note = "plain"] \in Task
BY DEF Task, Notes

LEMMA HealingType ==
  ASSUME NEW r \in Task, r.attempt + 1 \in 0..AttemptLimit
  PROVE  [r EXCEPT !.status = "healing", !.attempt = @ + 1,
                   !.note = "plain"] \in Task
BY DEF Task, Statuses, Active, Notes

LEMMA ClassifiedType ==
  ASSUME NEW r \in Task, NEW class \in FailureClasses \cup {Nobody}
  PROVE  [r EXCEPT !.failure = class] \in Task
BY DEF Task

LEMMA ReviewedType ==
  ASSUME NEW r \in Task, NEW panel \in SUBSET Review
  PROVE  [r EXCEPT !.reviews = panel] \in Task
BY DEF Task

LEMMA IntegratingType ==
  ASSUME NEW r \in Task
  PROVE  [r EXCEPT !.status = "integrating", !.note = "plain"] \in Task
BY DEF Task, Statuses, Active, Notes

LEMMA IntegratedType ==
  ASSUME NEW r \in Task, r.checks + 1 \in 0..ValidationLimit
  PROVE  [r EXCEPT !.integrated = TRUE, !.checks = @ + 1,
                   !.passed = @ \cup {"integration"}] \in Task
BY DEF Task, Tiers

LEMMA ContractType ==
  ASSUME NEW r \in Task, NEW p \in Providers
  PROVE  [r EXCEPT !.attempt = IF @ < AttemptLimit THEN @ + 1 ELSE @,
                   !.deferred = @ \cup {p}, !.failure = "implementation"] \in Task
<1> DEFINE n == IF r.attempt < AttemptLimit THEN r.attempt + 1 ELSE r.attempt
<1>1. r.attempt \in 0..AttemptLimit
  BY DEF Task
<1>2. n \in 0..AttemptLimit
  BY <1>1, Limits
<1>3. r.deferred \cup {p} \in SUBSET Providers
  BY DEF Task
<1> QED
  BY <1>2, <1>3 DEF Task, FailureClasses

LEMMA InterruptedType ==
  ASSUME NEW r \in Task, NEW class \in FailureClasses \cup {Nobody},
         NEW note \in Notes
  PROVE  [r EXCEPT !.failure = class, !.note = note] \in Task
BY DEF Task

LEMMA RetriedType ==
  ASSUME NEW r \in Task
  PROVE  /\ [r EXCEPT !.status = "queued", !.provider = Nobody,
                      !.note = "plain"] \in Task
         /\ [r EXCEPT !.status = "queued", !.provider = Nobody,
                      !.recovered = TRUE, !.note = "plain"] \in Task
BY DEF Task, Statuses, Notes

LEMMA ReleasedType ==
  ASSUME NEW r \in Task, NEW status \in Statuses
  PROVE  Released(r, status) \in Task
<1>1. 0 \in 0..LeaseTicks
  BY Limits, Bounds
<1> QED
  BY <1>1 DEF Released, Task, Notes

LEMMA RequeuedType ==
  ASSUME NEW r \in Task
  PROVE  Requeued(r) \in Task
<1>1. Released(r, "queued") \in Task
  BY ReleasedType DEF Statuses
<1> QED
  BY <1>1 DEF Requeued, Task

LEMMA ErasedType ==
  ASSUME NEW r \in Task, NEW class \in FailureClasses \cup {Nobody}
  PROVE  Erased(r, class) \in Task
<1>1. Requeued(r) \in Task
  BY RequeuedType
<1>2. 0 \in 0..AttemptLimit /\ 0 \in 0..ImplementationLimit /\ 0 \in 0..ValidationLimit
  BY Limits, Bounds
<1> QED
  BY <1>1, <1>2 DEF Erased, Task

LEMMA ArchivedType ==
  ASSUME NEW r \in Task, NEW a \in Approvals
  PROVE  Archived(r, a) \in Attempt
<1>1. r.implemented \in Nat /\ r.checks \in Nat
  BY Limits, Bounds DEF Task
<1> QED
  BY <1>1 DEF Archived, Attempt, Task

LEMMA ReopenedType ==
  ASSUME NEW r \in Task, NEW a \in Approvals,
         NEW class \in FailureClasses \cup {Nobody}
  PROVE  Reopened(r, a, class) \in Task
<1>1. Erased(r, class) \in Task
  BY ErasedType
<1>2. Archived(r, a) \in Attempt
  BY ArchivedType
<1>3. Append(Erased(r, class).archive, Archived(r, a)) \in Seq(Attempt)
  BY <1>1, <1>2 DEF Task
<1> QED
  BY <1>1, <1>3 DEF Reopened, Task

-----------------------------------------------------------------------------
(* Type correctness: one step per operation.                                *)

LEMMA ProjectStateType ==
  ASSUME NEW ts
  PROVE  ProjectState(ts) \in States
BY DEF ProjectState, States

\* What the schema says of the task an operation replaced.
LEMMA SchemaBounds ==
  ASSUME TypeOK, NEW t \in Tasks, NEW r, SchemaAccepts(Replace(t, r))
  PROVE  /\ r.attempt <= AttemptLimit
         /\ r.implemented <= ImplementationLimit
         /\ r.checks <= ValidationLimit
<1>1. Replace(t, r)[t] = r
  BY DEF TypeOK, Replace
<1> QED
  BY <1>1 DEF SchemaAccepts

\* Both ways of storing keep the types when the replacement is a task.
LEMMA StoreType ==
  ASSUME TypeOK, NEW t \in Tasks, NEW r \in Task,
         Store(Replace(t, r)) \/ StoreProjected(Replace(t, r))
  PROVE  TypeOK'
<1>1. Replace(t, r) \in [Tasks -> Task]
  BY DEF TypeOK, Replace
<1>2. ProjectState(Replace(t, r)) \in States
  BY ProjectStateType
<1> QED
  BY <1>1, <1>2 DEF TypeOK, Store, StoreProjected

LEMMA TaskType ==
  ASSUME TypeOK, NEW t \in Tasks
  PROVE  /\ tasks[t] \in Task
         /\ tasks[t].attempt \in 0..AttemptLimit
         /\ tasks[t].implemented \in 0..ImplementationLimit
         /\ tasks[t].checks \in 0..ValidationLimit
         /\ tasks[t].ttl \in 0..LeaseTicks
         /\ tasks[t].failure \in FailureClasses \cup {Nobody}
         /\ tasks[t].provider \in Providers \cup {Nobody}
BY DEF TypeOK, Task

LEMMA TypeClaim ==
  ASSUME TypeOK, NEW w \in Workers, NEW p \in Candidates, Claim(w, p)
  PROVE  TypeOK'
<1>1. PICK t \in EligibleTasks(tasks) :
        Store(Replace(t, [tasks[t] EXCEPT !.status = "running", !.provider = p,
                            !.owner = w, !.ttl = LeaseTicks, !.note = "plain"]))
  BY DEF Claim
<1>2. t \in Tasks /\ p \in Providers
  BY ConstantsAssumption DEF EligibleTasks
<1> QED
  BY <1>1, <1>2, TaskType, ClaimedType, StoreType

LEMMA TypeHeartbeat ==
  ASSUME TypeOK, NEW t \in Tasks, NEW w, Heartbeat(t, w)
  PROVE  TypeOK'
<1>1. LeaseTicks \in 0..LeaseTicks
  BY Limits, Bounds
<1> QED
  BY <1>1, TaskType, LeaseType, StoreType DEF Heartbeat

LEMMA TypeRecordImplementation ==
  ASSUME TypeOK, NEW t \in Tasks, NEW w, RecordImplementation(t, w)
  PROVE  TypeOK'
<1> DEFINE r == [tasks[t] EXCEPT !.status = "validating", !.deferred = {},
                   !.recovered = FALSE, !.implemented = @ + 1,
                   !.failure = Nobody, !.note = "plain"]
<1>1. r.implemented <= ImplementationLimit
  BY SchemaBounds DEF RecordImplementation, Store
<1>2. r.implemented = tasks[t].implemented + 1
  BY TaskType DEF Task
<1>3. tasks[t].implemented + 1 \in 0..ImplementationLimit
  BY <1>1, <1>2, TaskType, Limits
<1>4. r \in Task
  BY <1>3, TaskType, ImplementedType
<1> QED
  BY <1>4, StoreType DEF RecordImplementation

LEMMA TypeRecordPass ==
  ASSUME TypeOK, NEW t \in Tasks, NEW w, NEW tier \in {"fast", "full"},
         RecordPass(t, w, tier)
  PROVE  TypeOK'
<1> DEFINE r == [tasks[t] EXCEPT
                   !.status = IF tier = "full" THEN "reviewing" ELSE @,
                   !.checks = @ + 1, !.passed = @ \cup {tier}, !.note = "plain"]
<1>1. r.checks <= ValidationLimit
  BY SchemaBounds DEF RecordPass, Store
<1>2. r.checks = tasks[t].checks + 1
  BY TaskType DEF Task
<1>3. tasks[t].checks + 1 \in 0..ValidationLimit
  BY <1>1, <1>2, TaskType, Limits
<1>4. r \in Task
  BY <1>3, TaskType, PassedType
<1> QED
  BY <1>4, StoreType DEF RecordPass

LEMMA TypeRecordFailure ==
  ASSUME TypeOK, NEW t \in Tasks, NEW w, NEW tier, NEW d \in Digests,
         RecordFailure(t, w, tier, d)
  PROVE  TypeOK'
<1> DEFINE r == [tasks[t] EXCEPT !.checks = @ + 1, !.failing = d,
                   !.repeated = (d = tasks[t].failing), !.note = "plain"]
<1>1. r.checks <= ValidationLimit
  BY SchemaBounds DEF RecordFailure, Store
<1>2. r.checks = tasks[t].checks + 1
  BY TaskType DEF Task
<1>3. tasks[t].checks + 1 \in 0..ValidationLimit
  BY <1>1, <1>2, TaskType, Limits
<1>4. r \in Task
  BY <1>3, TaskType, FailedType
<1> QED
  BY <1>4, StoreType DEF RecordFailure

LEMMA TypeAssessHealing ==
  ASSUME TypeOK, NEW t \in Tasks, NEW w, NEW class \in {"implementation", "environment"},
         AssessHealing(t, w, class)
  PROVE  TypeOK'
<1> DEFINE plan == IF tasks[t].repeated THEN "needs_user"
                   ELSE PlanHealing(class, tasks[t].attempt)
           healed == [tasks[t] EXCEPT !.status = "healing", !.attempt = @ + 1,
                                      !.note = "plain"]
           base == IF plan = "repairable" THEN healed ELSE Released(tasks[t], plan)
           r == [base EXCEPT !.failure = class]
<1>1. StoreProjected(Replace(t, r))
  BY DEF AssessHealing
<1>2. class \in FailureClasses \cup {Nobody}
  BY DEF FailureClasses
<1>3. CASE plan = "repairable"
  <2>1. r = [healed EXCEPT !.failure = class]
    BY <1>3
  <2>2. r.attempt <= AttemptLimit
    BY <1>1, SchemaBounds DEF StoreProjected
  <2>3. r.attempt = tasks[t].attempt + 1
    BY <2>1, TaskType DEF Task
  <2>4. tasks[t].attempt + 1 \in 0..AttemptLimit
    BY <2>2, <2>3, TaskType, Limits
  <2>5. healed \in Task
    BY <2>4, TaskType, HealingType
  <2>6. r \in Task
    BY <2>1, <2>5, <1>2, ClassifiedType
  <2> QED
    BY <1>1, <2>6, StoreType
<1>4. CASE plan # "repairable"
  <2>1. plan \in Statuses
    BY <1>4 DEF PlanHealing, Statuses
  <2>2. Released(tasks[t], plan) \in Task
    BY <2>1, TaskType, ReleasedType
  <2>3. r \in Task
    BY <1>4, <2>2, <1>2, ClassifiedType
  <2> QED
    BY <1>1, <2>3, StoreType
<1> QED
  BY <1>3, <1>4

LEMMA TypeRecordReviews ==
  ASSUME TypeOK, NEW t \in Tasks, NEW w, NEW panel \in Panels,
         RecordReviews(t, w, panel)
  PROVE  TypeOK'
<1> DEFINE status == QuorumStatus(t, panel)
           base == IF status = "integrating"
                   THEN [tasks[t] EXCEPT !.status = status, !.note = "plain"]
                   ELSE Released(tasks[t], status)
           r == [base EXCEPT !.reviews = panel]
<1>1. StoreProjected(Replace(t, r))
  BY DEF RecordReviews
<1>2. panel \in SUBSET Review
  BY ConstantsAssumption
<1>3. status \in Statuses
  BY DEF QuorumStatus, Statuses, Active
<1>4. Released(tasks[t], status) \in Task
  BY <1>3, TaskType, ReleasedType
<1>5. [tasks[t] EXCEPT !.status = "integrating", !.note = "plain"] \in Task
  BY TaskType, IntegratingType
<1>6. base \in Task
  BY <1>4, <1>5
<1>7. r \in Task
  BY <1>2, <1>6, ReviewedType
<1> QED
  BY <1>1, <1>7, StoreType

LEMMA TypeRecordIntegration ==
  ASSUME TypeOK, NEW t \in Tasks, NEW w, RecordIntegration(t, w)
  PROVE  TypeOK'
<1> DEFINE base == Released(tasks[t], "completed")
           r == [base EXCEPT !.integrated = TRUE, !.checks = @ + 1,
                             !.passed = @ \cup {"integration"}]
<1>1. StoreProjected(Replace(t, r))
  BY DEF RecordIntegration
<1>2. base \in Task
  BY TaskType, ReleasedType DEF Statuses
<1>3. base.checks = tasks[t].checks
  BY TaskType DEF Released, Task
<1>4. r.checks <= ValidationLimit
  BY <1>1, SchemaBounds DEF StoreProjected
<1>5. r.checks = base.checks + 1
  BY <1>2 DEF Task
<1>6. base.checks + 1 \in 0..ValidationLimit
  BY <1>3, <1>4, <1>5, TaskType, Limits
<1>7. r \in Task
  BY <1>2, <1>6, IntegratedType
<1> QED
  BY <1>1, <1>7, StoreType

LEMMA TypeReleaseForRetry ==
  ASSUME TypeOK, NEW t \in Tasks, NEW w, ReleaseForRetry(t, w)
  PROVE  TypeOK'
BY TaskType, RequeuedType, StoreType DEF ReleaseForRetry

LEMMA TypeReleaseContractFailure ==
  ASSUME TypeOK, NEW t \in Tasks, NEW w, NEW p \in Providers,
         ReleaseContractFailureForRetry(t, w, p)
  PROVE  TypeOK'
<1>1. Requeued(tasks[t]) \in Task
  BY TaskType, RequeuedType
<1> QED
  BY <1>1, ContractType, StoreType DEF ReleaseContractFailureForRetry

LEMMA TypeInterrupt ==
  ASSUME TypeOK, NEW t \in Tasks, NEW w, NEW class \in FailureClasses \cup {Nobody},
         NEW note \in Notes, Interrupt(t, w, class, note)
  PROVE  TypeOK'
<1> DEFINE base == Released(tasks[t], "needs_user")
           r == [base EXCEPT !.failure = IF class = Nobody THEN @ ELSE class,
                             !.note = note]
<1>1. base \in Task
  BY TaskType, ReleasedType DEF Statuses
<1>2. (IF class = Nobody THEN base.failure ELSE class) \in FailureClasses \cup {Nobody}
  BY <1>1 DEF Task
<1>3. r \in Task
  BY <1>1, <1>2, InterruptedType
<1> QED
  BY <1>3, StoreType DEF Interrupt

LEMMA TypeReconcileExpired ==
  ASSUME TypeOK, ReconcileExpired
  PROVE  TypeOK'
<1>1. \A t \in Tasks : Released(tasks[t], "needs_user") \in Task
  BY TaskType, ReleasedType DEF Statuses
<1>2. tasks' \in [Tasks -> Task]
  BY <1>1, TaskType DEF ReconcileExpired, StoreProjected
<1>3. state' \in States
  BY ProjectStateType DEF ReconcileExpired, StoreProjected
<1> QED
  BY <1>2, <1>3 DEF TypeOK

LEMMA TypeTick ==
  ASSUME TypeOK, Tick
  PROVE  TypeOK'
<1>1. ASSUME NEW t \in Tasks
      PROVE  [tasks[t] EXCEPT !.ttl = IF @ > 0 THEN @ - 1 ELSE 0] \in Task
  <2> DEFINE n == IF tasks[t].ttl > 0 THEN tasks[t].ttl - 1 ELSE 0
  <2>1. n \in 0..LeaseTicks
    BY TaskType, Limits
  <2>2. [tasks[t] EXCEPT !.ttl = n] \in Task
    BY <2>1, TaskType, LeaseType
  <2> QED
    BY <2>2
<1>2. tasks' \in [Tasks -> Task]
  BY <1>1 DEF Tick
<1> QED
  BY <1>2 DEF Tick, TypeOK

LEMMA TypeOwnerStep ==
  ASSUME TypeOK, NEW t \in Tasks, OwnerStep(t)
  PROVE  TypeOK'
<1>1. ASSUME NEW a \in Approvals, AuthorizeReviewRepair(t, a)
      PROVE  TypeOK'
  <2>1. Reopened(tasks[t], a, "product_decision") \in Task
    BY TaskType, ReopenedType DEF FailureClasses
  <2> QED
    BY <2>1, <1>1, StoreType DEF AuthorizeReviewRepair
<1>2. ASSUME NEW a \in Approvals, AuthorizeCompletedRepair(t, a)
      PROVE  TypeOK'
  <2>1. ASSUME NEW u \in Tasks
        PROVE  /\ Reopened(tasks[u], a, "implementation") \in Task
               /\ Reopened(tasks[u], a, Nobody) \in Task
               /\ Erased(tasks[u], Nobody) \in Task
    BY TaskType, ReopenedType, ErasedType DEF FailureClasses
  <2>2. tasks' \in [Tasks -> Task]
    BY <2>1, <1>2, TaskType DEF AuthorizeCompletedRepair, StoreProjected
  <2>3. state' \in States
    BY <1>2, ProjectStateType DEF AuthorizeCompletedRepair, StoreProjected
  <2> QED
    BY <2>2, <2>3 DEF TypeOK
<1>3. CASE AuthorizeEnvironmentRetry(t)
  BY <1>3, TaskType, RetriedType, StoreType DEF AuthorizeEnvironmentRetry
<1>4. CASE AuthorizeQuarantineRecovery(t)
  BY <1>4, TaskType, RetriedType, StoreType DEF AuthorizeQuarantineRecovery
<1> QED
  BY <1>1, <1>2, <1>3, <1>4 DEF OwnerStep

LEMMA TypeWorkerStep ==
  ASSUME TypeOK, NEW t \in Tasks, NEW w \in Workers, WorkerStep(t, w)
  PROVE  TypeOK'
<1>1. InterruptNotes(tasks[t]) \subseteq Notes
  BY DEF InterruptNotes, Notes
<1>2. {"implementation"} \subseteq FailureClasses
  BY DEF FailureClasses
<1>3. tasks[t].provider # Nobody => tasks[t].provider \in Providers
  BY TaskType
<1> QED
  BY <1>1, <1>2, <1>3, TypeHeartbeat, TypeRecordImplementation, TypeRecordPass,
     TypeRecordFailure, TypeAssessHealing, TypeRecordReviews,
     TypeRecordIntegration, TypeReleaseForRetry, TypeReleaseContractFailure,
     TypeInterrupt DEF WorkerStep

LEMMA TypeNext ==
  TypeOK /\ [Next]_vars => TypeOK'
<1> SUFFICES ASSUME TypeOK, [Next]_vars PROVE TypeOK'
  OBVIOUS
<1>1. CASE UNCHANGED vars
  BY <1>1 DEF vars, TypeOK
<1>2. CASE Next
  BY <1>2, TypeClaim, TypeWorkerStep, TypeOwnerStep, TypeReconcileExpired, TypeTick
     DEF Next
<1> QED
  BY <1>1, <1>2

LEMMA InitType == Init => TypeOK
<1> SUFFICES ASSUME Init PROVE TypeOK
  OBVIOUS
<1>1. /\ 0 \in 0..AttemptLimit /\ 0 \in 0..ImplementationLimit
      /\ 0 \in 0..ValidationLimit /\ 0 \in 0..LeaseTicks
  BY Limits, Bounds
<1>2. << >> \in Seq(Attempt)
  OBVIOUS
<1>3. NewTask \in Task
  BY <1>1, <1>2 DEF NewTask, Task, Statuses, Notes
<1> QED
  BY <1>3 DEF Init, TypeOK, States

\* The stored record always has the shape its schema gives it: counters within
\* their limits, every field of its type (projectExecutionRecordSchema).
THEOREM TypeCorrect == Spec => []TypeOK
BY InitType, TypeNext, PTL DEF Spec

-----------------------------------------------------------------------------
(* The service implements TaskBoard: every step of the service is a step of  *)
(* the board or leaves it alone. What the board promises is then true of the *)
(* service.                                                                  *)

\* The board's half of the argument: Board is BoardProofs with fewer theorems.
BoardProofs == INSTANCE TaskBoard_proofs WITH
  stage <- [t \in Tasks |-> StageOf(tasks[t].status)],
  holder <- [t \in Tasks |-> tasks[t].owner],
  live <- [t \in Tasks |-> tasks[t].ttl > 0]

\* A task is held exactly in a worker's stage, and no lease outlives its owner.
\* Without it a step guarded by a live lease says nothing of the stage.
Held ==
  \A t \in Tasks : /\ tasks[t].status \in Active <=> Leased(tasks[t])
                   /\ tasks[t].ttl > 0 => Leased(tasks[t])

-----------------------------------------------------------------------------
(* The fields of updated tasks.                                             *)

LEMMA ReleasedFields ==
  ASSUME NEW r \in Task, NEW status
  PROVE  /\ Released(r, status).status = status
         /\ Released(r, status).owner = Nobody
         /\ Released(r, status).ttl = 0
         /\ Released(r, status).provider = r.provider
         /\ Released(r, status).attempt = r.attempt
         /\ Released(r, status).deferred = r.deferred
         /\ Released(r, status).checks = r.checks
         /\ Released(r, status).passed = r.passed
         /\ Released(r, status).failure = r.failure
         /\ Released(r, status).reviews = r.reviews
BY DEF Released, Task

LEMMA RequeuedFields ==
  ASSUME NEW r \in Task
  PROVE  /\ Requeued(r).status = "queued" /\ Requeued(r).owner = Nobody
         /\ Requeued(r).ttl = 0
BY DEF Requeued, Released, Task

LEMMA ErasedFields ==
  ASSUME NEW r \in Task, NEW a \in Approvals, NEW class \in FailureClasses \cup {Nobody}
  PROVE  /\ Erased(r, class).status = "queued" /\ Erased(r, class).owner = Nobody
         /\ Erased(r, class).ttl = 0
         /\ Reopened(r, a, class).status = "queued"
         /\ Reopened(r, a, class).owner = Nobody /\ Reopened(r, a, class).ttl = 0
<1>1. /\ Erased(r, class).status = "queued" /\ Erased(r, class).owner = Nobody
      /\ Erased(r, class).ttl = 0
  <2>1. Requeued(r) \in Task
    BY RequeuedType
  <2> QED
    BY <2>1, RequeuedFields DEF Erased, Task
<1>2. Erased(r, class) \in Task
  BY ErasedType
<1> QED
  BY <1>1, <1>2 DEF Reopened, Task

LEMMA Stages ==
  /\ \A s \in Statuses : StageOf(s) = "active" <=> s \in Active
  /\ \A s \in Statuses \ Active : StageOf(s) = s
  /\ \A s \in Statuses : StageOf(s) = "completed" <=> s = "completed"
  /\ \A s \in Statuses : StageOf(s) = "queued" <=> s = "queued"
BY DEF StageOf, Statuses, Active

-----------------------------------------------------------------------------
(* What replacing one task does to the board.                               *)

LEMMA Replaced ==
  ASSUME TypeOK, NEW t \in Tasks, NEW r,
         Store(Replace(t, r)) \/ StoreProjected(Replace(t, r))
  PROVE  /\ tasks'[t] = r
         /\ \A u \in Tasks : u # t => tasks'[u] = tasks[u]
BY DEF TypeOK, Replace, Store, StoreProjected

LEMMA ReplacedUnseen ==
  ASSUME TypeOK, NEW t \in Tasks, NEW r,
         Store(Replace(t, r)) \/ StoreProjected(Replace(t, r)),
         StageOf(r.status) = StageOf(tasks[t].status),
         r.owner = tasks[t].owner,
         r.ttl > 0 <=> tasks[t].ttl > 0
  PROVE  UNCHANGED Board!vars
<1>1. \A u \in Tasks : /\ StageOf(tasks'[u].status) = StageOf(tasks[u].status)
                       /\ tasks'[u].owner = tasks[u].owner
                       /\ (tasks'[u].ttl > 0) = (tasks[u].ttl > 0)
  BY Replaced
<1>2. [u \in Tasks |-> tasks'[u].ttl > 0] = [u \in Tasks |-> tasks[u].ttl > 0]
  BY <1>1
<1>3. [u \in Tasks |-> tasks'[u].owner] = [u \in Tasks |-> tasks[u].owner]
  BY <1>1
<1>4. [u \in Tasks |-> StageOf(tasks'[u].status)] = [u \in Tasks |-> StageOf(tasks[u].status)]
  BY <1>1
<1> QED
  BY <1>2, <1>3, <1>4 DEF Board!vars

LEMMA ReplacedReleased ==
  ASSUME TypeOK, NEW t \in Tasks, NEW r,
         Store(Replace(t, r)) \/ StoreProjected(Replace(t, r)),
         r.status \in Statuses \ Active, r.owner = Nobody, r.ttl = 0
  PROVE  Board!Release({t}, r.status)
<1>1. \A u \in Tasks : /\ StageOf(tasks'[u].status)
                            = IF u \in {t} THEN r.status ELSE StageOf(tasks[u].status)
                       /\ tasks'[u].owner = IF u \in {t} THEN Nobody ELSE tasks[u].owner
  BY Replaced, Stages
<1>2. \A u \in Tasks :
        (tasks'[u].ttl > 0) = IF u \in {t} THEN FALSE ELSE tasks[u].ttl > 0
  <2>1. (tasks'[t].ttl > 0) = FALSE
    BY Replaced
  <2>2. ASSUME NEW u \in Tasks, u # t
        PROVE  (tasks'[u].ttl > 0) = (tasks[u].ttl > 0)
    BY <2>2, Replaced
  <2> QED
    BY <2>1, <2>2
<1>3. [u \in Tasks |-> tasks'[u].ttl > 0]
        = [u \in Tasks |-> IF u \in {t} THEN FALSE ELSE [v \in Tasks |-> tasks[v].ttl > 0][u]]
  BY <1>2
<1>4. [u \in Tasks |-> StageOf(tasks'[u].status)]
        = [u \in Tasks |-> IF u \in {t} THEN r.status
                           ELSE [v \in Tasks |-> StageOf(tasks[v].status)][u]]
  BY <1>1
<1>5. [u \in Tasks |-> tasks'[u].owner]
        = [u \in Tasks |-> IF u \in {t} THEN Nobody ELSE [v \in Tasks |-> tasks[v].owner][u]]
  BY <1>1
<1> QED
  BY <1>3, <1>4, <1>5 DEF Board!Release

-----------------------------------------------------------------------------
(* Each operation, as a step of the board.                                  *)

\* A step whose caller holds a live lease is taken in a worker's stage.
LEMMA OwnedIsActive ==
  ASSUME TypeOK, Held, NEW t \in Tasks, NEW w, Owns(w, t)
  PROVE  /\ tasks[t].status \in Active /\ tasks[t].owner = w /\ tasks[t].ttl > 0
         /\ StageOf(tasks[t].status) = "active"
BY TaskType DEF Owns, Held, StageOf

LEMMA ClaimStarts ==
  ASSUME TypeOK, Held, NEW w \in Workers, NEW p \in Candidates, Claim(w, p)
  PROVE  \E t \in Tasks : Board!Start(t, w)
<1> DEFINE claimed(t) == [tasks[t] EXCEPT !.status = "running", !.provider = p,
                            !.owner = w, !.ttl = LeaseTicks, !.note = "plain"]
<1>1. PICK t \in EligibleTasks(tasks) : Store(Replace(t, claimed(t)))
  BY DEF Claim
<1>2. t \in Tasks /\ tasks[t].status = "queued"
  BY DEF EligibleTasks, Ready
<1>3. tasks[t] \in Task
  BY <1>2, TaskType
<1>4. claimed(t).status = "running" /\ claimed(t).owner = w /\ claimed(t).ttl = LeaseTicks
  BY <1>3 DEF Task
<1>5. /\ tasks'[t].status = "running" /\ tasks'[t].owner = w /\ tasks'[t].ttl > 0
      /\ \A u \in Tasks : u # t => tasks'[u] = tasks[u]
  <2>1. tasks'[t] = claimed(t) /\ \A u \in Tasks : u # t => tasks'[u] = tasks[u]
    BY <1>1, <1>2, Replaced
  <2> HIDE DEF claimed
  <2> QED
    BY <1>4, <2>1, Limits
<1>6. StageOf("running") = "active"
  BY DEF StageOf, Active
<1>7. [u \in Tasks |-> StageOf(tasks'[u].status)]
        = [[u \in Tasks |-> StageOf(tasks[u].status)] EXCEPT ![t] = "active"]
  BY <1>2, <1>5, <1>6
<1>8. [u \in Tasks |-> tasks'[u].owner] = [[u \in Tasks |-> tasks[u].owner] EXCEPT ![t] = w]
  BY <1>2, <1>5
<1>9. [u \in Tasks |-> tasks'[u].ttl > 0]
        = [[u \in Tasks |-> tasks[u].ttl > 0] EXCEPT ![t] = TRUE]
  <2>1. (tasks'[t].ttl > 0) = TRUE
    BY <1>5
  <2>2. \A u \in Tasks : u # t => (tasks'[u].ttl > 0) = (tasks[u].ttl > 0)
    BY <1>5
  <2> QED
    BY <2>1, <2>2
<1>10. DependsOn[t] \subseteq Board!Completed
  <2>1. DependsOn[t] \subseteq {u \in Tasks : tasks[u].status = "completed"}
    BY DEF EligibleTasks, Ready, CompletedTasks
  <2>2. StageOf("completed") = "completed"
    BY DEF StageOf, Active
  <2> QED
    BY <2>1, <2>2 DEF Board!Completed
<1>11. ASSUME NEW u \in Tasks, tasks[u].ttl > 0
       PROVE  AllowedFiles[t] \cap AllowedFiles[u] = {}
  <2>1. tasks[u].status \in Active /\ LiveLease(tasks[u])
    BY <1>11 DEF Held, LiveLease
  <2>2. AllowedFiles[u] \subseteq OccupiedFiles(tasks)
    BY <2>1 DEF OccupiedFiles
  <2> QED
    BY <2>2 DEF EligibleTasks
<1>12. [u \in Tasks |-> StageOf(tasks[u].status)][t] = "queued"
  BY <1>2 DEF StageOf, Active
<1> QED
  BY <1>2, <1>7, <1>8, <1>9, <1>10, <1>11, <1>12 DEF Board!Start

LEMMA HeartbeatUnseen ==
  ASSUME TypeOK, Held, NEW t \in Tasks, NEW w, Heartbeat(t, w)
  PROVE  UNCHANGED Board!vars
<1> DEFINE r == [tasks[t] EXCEPT !.ttl = LeaseTicks]
<1>1. r.status = tasks[t].status /\ r.owner = tasks[t].owner /\ r.ttl = LeaseTicks
  BY TaskType DEF Task
<1>2. r.ttl > 0 /\ tasks[t].ttl > 0
  BY <1>1, OwnedIsActive, Limits DEF Heartbeat
<1> QED
  BY <1>1, <1>2, ReplacedUnseen DEF Heartbeat

\* Moving on within the worker's own stages.
LEMMA StageUnseen ==
  ASSUME TypeOK, Held, NEW t \in Tasks, NEW w, Owns(w, t), NEW r,
         Store(Replace(t, r)) \/ StoreProjected(Replace(t, r)),
         r.status \in Active, r.owner = tasks[t].owner, r.ttl = tasks[t].ttl
  PROVE  UNCHANGED Board!vars
<1>1. StageOf(r.status) = StageOf(tasks[t].status)
  BY OwnedIsActive DEF StageOf
<1> QED
  BY <1>1, ReplacedUnseen

\* Releasing the caller's own task.
LEMMA OwnerStops ==
  ASSUME TypeOK, Held, NEW t \in Tasks, NEW w, Owns(w, t), NEW r,
         Store(Replace(t, r)) \/ StoreProjected(Replace(t, r)),
         r.status \in Statuses \ Active, r.owner = Nobody, r.ttl = 0
  PROVE  Board!Stop(t, r.status)
<1>1. Board!Release({t}, r.status)
  BY ReplacedReleased
<1>2. [u \in Tasks |-> StageOf(tasks[u].status)][t] = "active"
  BY OwnedIsActive
<1>3. [u \in Tasks |-> tasks[u].ttl > 0][t]
  BY OwnedIsActive
<1> QED
  BY <1>1, <1>2, <1>3 DEF Board!Stop

LEMMA RecordedUnseen ==
  ASSUME TypeOK, Held, NEW t \in Tasks, NEW w,
         \/ RecordImplementation(t, w)
         \/ \E tier \in {"fast", "full"} :
              RecordPass(t, w, tier) \/ \E d \in Digests : RecordFailure(t, w, tier, d)
  PROVE  UNCHANGED Board!vars
<1>1. tasks[t] \in Task
  BY TaskType
<1>2. CASE RecordImplementation(t, w)
  <2> DEFINE r == [tasks[t] EXCEPT !.status = "validating", !.deferred = {},
                     !.recovered = FALSE, !.implemented = @ + 1,
                     !.failure = Nobody, !.note = "plain"]
  <2>1. r.status \in Active /\ r.owner = tasks[t].owner /\ r.ttl = tasks[t].ttl
    BY <1>1 DEF Task, Active
  <2> QED
    BY <1>2, <2>1, StageUnseen DEF RecordImplementation
<1>3. ASSUME NEW tier \in {"fast", "full"}, RecordPass(t, w, tier)
      PROVE  UNCHANGED Board!vars
  <2> DEFINE r == [tasks[t] EXCEPT
                     !.status = IF tier = "full" THEN "reviewing" ELSE @,
                     !.checks = @ + 1, !.passed = @ \cup {tier}, !.note = "plain"]
  <2>1. r.owner = tasks[t].owner /\ r.ttl = tasks[t].ttl
    BY <1>1 DEF Task
  <2>2. r.status = (IF tier = "full" THEN "reviewing" ELSE tasks[t].status)
    BY <1>1 DEF Task
  <2>3. r.status \in Active
    BY <1>3, <2>2 DEF RecordPass, Active
  <2> QED
    BY <1>3, <2>1, <2>3, StageUnseen DEF RecordPass
<1>4. ASSUME NEW tier, NEW d, RecordFailure(t, w, tier, d)
      PROVE  UNCHANGED Board!vars
  <2> DEFINE r == [tasks[t] EXCEPT !.checks = @ + 1, !.failing = d,
                     !.repeated = (d = tasks[t].failing), !.note = "plain"]
  <2>1. r.status = tasks[t].status /\ r.owner = tasks[t].owner /\ r.ttl = tasks[t].ttl
    BY <1>1 DEF Task
  <2>2. r.status \in Active
    BY <1>4, <2>1 DEF RecordFailure, Active
  <2> QED
    BY <1>4, <2>1, <2>2, StageUnseen DEF RecordFailure
<1> QED
  BY <1>2, <1>3, <1>4

LEMMA HealingSteps ==
  ASSUME TypeOK, Held, NEW t \in Tasks, NEW w, NEW class, AssessHealing(t, w, class)
  PROVE  \/ UNCHANGED Board!vars
         \/ \E s \in {"needs_user", "quarantined"} : Board!Stop(t, s)
<1> DEFINE plan == IF tasks[t].repeated THEN "needs_user"
                   ELSE PlanHealing(class, tasks[t].attempt)
           healed == [tasks[t] EXCEPT !.status = "healing", !.attempt = @ + 1,
                                      !.note = "plain"]
           base == IF plan = "repairable" THEN healed ELSE Released(tasks[t], plan)
           r == [base EXCEPT !.failure = class]
<1>1. Owns(w, t) /\ StoreProjected(Replace(t, r))
  BY DEF AssessHealing
<1>2. tasks[t] \in Task
  BY TaskType
<1>3. CASE plan = "repairable"
  <2>1. r = [healed EXCEPT !.failure = class]
    BY <1>3
  <2>2. r.status = "healing" /\ r.owner = tasks[t].owner /\ r.ttl = tasks[t].ttl
    BY <2>1, <1>2 DEF Task
  <2>3. r.status \in Active
    BY <2>2 DEF Active
  <2> QED
    BY <1>1, <2>2, <2>3, StageUnseen
<1>4. CASE plan # "repairable"
  <2>1. plan \in {"needs_user", "quarantined"}
    BY <1>4 DEF PlanHealing
  <2>2. r = [Released(tasks[t], plan) EXCEPT !.failure = class]
    BY <1>4
  <2>3. r.status = plan /\ r.owner = Nobody /\ r.ttl = 0
    <3> HIDE DEF plan, r
    <3> QED
      BY <2>2, <1>2 DEF Released, Task
  <2>4. r.status \in Statuses \ Active
    BY <2>1, <2>3 DEF Statuses, Active
  <2> QED
    BY <1>1, <2>1, <2>3, <2>4, OwnerStops
<1> QED
  BY <1>3, <1>4

LEMMA ReviewSteps ==
  ASSUME TypeOK, Held, NEW t \in Tasks, NEW w, NEW panel, RecordReviews(t, w, panel)
  PROVE  \/ UNCHANGED Board!vars
         \/ \E s \in {"needs_user", "quarantined"} : Board!Stop(t, s)
<1> DEFINE status == QuorumStatus(t, panel)
           base == IF status = "integrating"
                   THEN [tasks[t] EXCEPT !.status = status, !.note = "plain"]
                   ELSE Released(tasks[t], status)
           r == [base EXCEPT !.reviews = panel]
<1>1. Owns(w, t) /\ StoreProjected(Replace(t, r))
  BY DEF RecordReviews
<1>2. tasks[t] \in Task
  BY TaskType
<1>3. CASE status = "integrating"
  <2>1. r = [[tasks[t] EXCEPT !.status = "integrating", !.note = "plain"]
               EXCEPT !.reviews = panel]
    BY <1>3
  <2>2. r.status = "integrating" /\ r.owner = tasks[t].owner /\ r.ttl = tasks[t].ttl
    BY <2>1, <1>2 DEF Task
  <2>3. r.status \in Active
    BY <2>2 DEF Active
  <2> QED
    BY <1>1, <2>2, <2>3, StageUnseen
<1>4. CASE status # "integrating"
  <2>1. status \in {"needs_user", "quarantined"}
    BY <1>4 DEF QuorumStatus
  <2>2. r = [Released(tasks[t], status) EXCEPT !.reviews = panel]
    BY <1>4
  <2>3. r.status = status /\ r.owner = Nobody /\ r.ttl = 0
    BY <2>2, <1>2 DEF Released, Task
  <2>4. r.status \in Statuses \ Active
    BY <2>1, <2>3 DEF Statuses, Active
  <2> QED
    BY <1>1, <2>1, <2>3, <2>4, OwnerStops
<1> QED
  BY <1>3, <1>4

LEMMA IntegrationFinishes ==
  ASSUME TypeOK, Held, NEW t \in Tasks, NEW w, RecordIntegration(t, w)
  PROVE  Board!Finish(t)
<1> DEFINE r == [Released(tasks[t], "completed") EXCEPT
                   !.integrated = TRUE, !.checks = @ + 1,
                   !.passed = @ \cup {"integration"}]
<1>1. Owns(w, t) /\ StoreProjected(Replace(t, r))
  BY DEF RecordIntegration
<1>2. r.status = "completed" /\ r.owner = Nobody /\ r.ttl = 0
  BY TaskType DEF Released, Task
<1>3. r.status \in Statuses \ Active
  BY <1>2 DEF Statuses, Active
<1>4. Board!Stop(t, "completed")
  BY <1>1, <1>2, <1>3, OwnerStops
<1> QED
  BY <1>4 DEF Board!Stop, Board!Finish

LEMMA RetrySteps ==
  ASSUME TypeOK, Held, NEW t \in Tasks, NEW w, NEW p,
         ReleaseForRetry(t, w) \/ ReleaseContractFailureForRetry(t, w, p)
  PROVE  Board!Stop(t, "queued")
<1>1. "queued" \in Statuses \ Active
  BY DEF Statuses, Active
<1>2. CASE ReleaseForRetry(t, w)
  <2>1. /\ Requeued(tasks[t]).status = "queued" /\ Requeued(tasks[t]).owner = Nobody
        /\ Requeued(tasks[t]).ttl = 0
    BY TaskType, RequeuedFields
  <2> QED
    BY <1>1, <1>2, <2>1, OwnerStops DEF ReleaseForRetry
<1>3. CASE ReleaseContractFailureForRetry(t, w, p)
  <2> DEFINE r == [Requeued(tasks[t]) EXCEPT
                     !.attempt = IF @ < AttemptLimit THEN @ + 1 ELSE @,
                     !.deferred = @ \cup {p}, !.failure = "implementation"]
  <2>1. Requeued(tasks[t]) \in Task
    BY TaskType, RequeuedType
  <2>2. r.status = "queued" /\ r.owner = Nobody /\ r.ttl = 0
    BY <2>1, TaskType, RequeuedFields DEF Task
  <2> QED
    BY <1>1, <1>3, <2>2, OwnerStops DEF ReleaseContractFailureForRetry
<1> QED
  BY <1>2, <1>3

LEMMA InterruptStops ==
  ASSUME TypeOK, Held, NEW t \in Tasks, NEW w, NEW class, NEW note,
         Interrupt(t, w, class, note)
  PROVE  Board!Stop(t, "needs_user")
<1> DEFINE r == [Released(tasks[t], "needs_user") EXCEPT
                   !.failure = IF class = Nobody THEN @ ELSE class, !.note = note]
<1>1. r.status = "needs_user" /\ r.owner = Nobody /\ r.ttl = 0
  BY TaskType DEF Released, Task
<1>2. "needs_user" \in Statuses \ Active
  BY DEF Statuses, Active
<1> QED
  BY <1>1, <1>2, OwnerStops DEF Interrupt

\* Releasing a set of tasks at once, as seen by the board.
LEMMA ReleasedTogether ==
  ASSUME NEW S, NEW s \in Statuses \ Active,
         \A u \in Tasks : u \in S => /\ tasks'[u].status = s
                                     /\ tasks'[u].owner = Nobody /\ tasks'[u].ttl = 0,
         \A u \in Tasks : u \notin S => tasks'[u] = tasks[u]
  PROVE  Board!Release(S, s)
<1>1. \A u \in Tasks : /\ StageOf(tasks'[u].status)
                            = IF u \in S THEN s ELSE StageOf(tasks[u].status)
                       /\ tasks'[u].owner = IF u \in S THEN Nobody ELSE tasks[u].owner
  BY Stages
<1>2. \A u \in Tasks :
        (tasks'[u].ttl > 0) = IF u \in S THEN FALSE ELSE tasks[u].ttl > 0
  <2>1. ASSUME NEW u \in Tasks, u \in S
        PROVE  (tasks'[u].ttl > 0) = FALSE
    BY <2>1
  <2>2. ASSUME NEW u \in Tasks, u \notin S
        PROVE  (tasks'[u].ttl > 0) = (tasks[u].ttl > 0)
    BY <2>2
  <2> QED
    BY <2>1, <2>2
<1>3. [u \in Tasks |-> tasks'[u].ttl > 0]
        = [u \in Tasks |-> IF u \in S THEN FALSE ELSE [v \in Tasks |-> tasks[v].ttl > 0][u]]
  BY <1>2
<1>4. [u \in Tasks |-> StageOf(tasks'[u].status)]
        = [u \in Tasks |-> IF u \in S THEN s
                           ELSE [v \in Tasks |-> StageOf(tasks[v].status)][u]]
  BY <1>1
<1>5. [u \in Tasks |-> tasks'[u].owner]
        = [u \in Tasks |-> IF u \in S THEN Nobody ELSE [v \in Tasks |-> tasks[v].owner][u]]
  BY <1>1
<1> QED
  BY <1>3, <1>4, <1>5 DEF Board!Release

LEMMA ReconcileReconciles ==
  ASSUME TypeOK, ReconcileExpired
  PROVE  Board!Reconcile
<1> DEFINE S == {u \in Tasks : tasks[u].owner # Nobody /\ ~(tasks[u].ttl > 0)}
<1>1. "needs_user" \in Statuses \ Active
  BY DEF Statuses, Active
<1>2. \A u \in Tasks : tasks'[u] = IF Leased(tasks[u]) /\ tasks[u].ttl = 0
                                   THEN Released(tasks[u], "needs_user") ELSE tasks[u]
  BY DEF ReconcileExpired, StoreProjected
<1>3. ASSUME NEW u \in Tasks
      PROVE  u \in S <=> Leased(tasks[u]) /\ tasks[u].ttl = 0
  BY TaskType, Limits DEF Leased
<1>4. ASSUME NEW u \in Tasks, u \in S
      PROVE  /\ tasks'[u].status = "needs_user"
             /\ tasks'[u].owner = Nobody /\ tasks'[u].ttl = 0
  <2>1. tasks'[u] = Released(tasks[u], "needs_user")
    BY <1>2, <1>3, <1>4
  <2> QED
    BY <2>1, TaskType, ReleasedFields
<1>5. ASSUME NEW u \in Tasks, u \notin S
      PROVE  tasks'[u] = tasks[u]
  BY <1>2, <1>3, <1>5
<1>6. Board!Release(S, "needs_user")
  BY <1>1, <1>4, <1>5, ReleasedTogether
<1>7. S = {u \in Tasks : /\ [v \in Tasks |-> tasks[v].owner][u] # Nobody
                         /\ ~[v \in Tasks |-> tasks[v].ttl > 0][u]}
  OBVIOUS
<1> QED
  BY <1>6, <1>7 DEF Board!Reconcile

LEMMA TickLapses ==
  ASSUME TypeOK, Tick
  PROVE  UNCHANGED Board!vars \/ \E S \in SUBSET Tasks : Board!Lapse(S)
<1> DEFINE S == {u \in Tasks : tasks[u].ttl = 1}
<1>1. ASSUME NEW u \in Tasks
      PROVE  /\ tasks'[u].status = tasks[u].status /\ tasks'[u].owner = tasks[u].owner
             /\ tasks'[u].ttl = IF tasks[u].ttl > 0 THEN tasks[u].ttl - 1 ELSE 0
  BY TaskType DEF Tick, Task
<1>2. ASSUME NEW u \in Tasks
      PROVE  (tasks'[u].ttl > 0) = IF u \in S THEN FALSE ELSE tasks[u].ttl > 0
  <2>1. tasks[u].ttl \in Nat /\ (u \in S <=> tasks[u].ttl = 1)
    BY TaskType, Limits
  <2>2. tasks'[u].ttl > 0 <=> tasks[u].ttl > 0 /\ tasks[u].ttl # 1
    BY <1>1, <2>1
  <2> HIDE DEF S
  <2>3. CASE tasks[u].ttl = 1
    <3>1. (tasks'[u].ttl > 0) = FALSE
      BY <2>2, <2>3
    <3> QED
      BY <3>1, <2>1, <2>3
  <2>4. CASE tasks[u].ttl = 0
    <3>1. (tasks'[u].ttl > 0) = FALSE /\ (tasks[u].ttl > 0) = FALSE
      BY <2>2, <2>4
    <3> QED
      BY <3>1
  <2>5. CASE tasks[u].ttl > 1
    <3>1. (tasks'[u].ttl > 0) = TRUE /\ (tasks[u].ttl > 0) = TRUE /\ u \notin S
      BY <2>1, <2>2, <2>5
    <3> QED
      BY <3>1
  <2>6. tasks[u].ttl = 1 \/ tasks[u].ttl = 0 \/ tasks[u].ttl > 1
    BY <2>1
  <2> QED
    BY <2>3, <2>4, <2>5, <2>6
<1>3. [u \in Tasks |-> tasks'[u].ttl > 0]
        = [u \in Tasks |-> IF u \in S THEN FALSE ELSE [v \in Tasks |-> tasks[v].ttl > 0][u]]
  BY <1>2
<1>4. /\ [u \in Tasks |-> StageOf(tasks'[u].status)]
           = [u \in Tasks |-> StageOf(tasks[u].status)]
      /\ [u \in Tasks |-> tasks'[u].owner] = [u \in Tasks |-> tasks[u].owner]
  BY <1>1
<1>5. CASE S = {}
  <2>1. [u \in Tasks |-> tasks'[u].ttl > 0] = [u \in Tasks |-> tasks[u].ttl > 0]
    BY <1>3, <1>5
  <2> QED
    BY <2>1, <1>4 DEF Board!vars
<1>6. CASE S # {}
  <2>1. \A u \in S : tasks[u].ttl > 0
    OBVIOUS
  <2>2. \A u \in S : [v \in Tasks |-> tasks[v].ttl > 0][u]
    BY <2>1
  <2>3. S \in SUBSET Tasks
    OBVIOUS
  <2> HIDE DEF S
  <2> QED
    BY <2>2, <2>3, <1>3, <1>4, <1>6 DEF Board!Lapse
<1> QED
  BY <1>5, <1>6

\* The code's loop over the dependents computes the board's reopened set.
LEMMA InvalidatedIsTainted ==
  ASSUME NEW t \in Tasks
  PROVE  /\ t \in Invalidated(t) /\ Invalidated(t) \in SUBSET Tasks
         /\ Board!TaintedBy(t, Invalidated(t))
         /\ \A R \in SUBSET Tasks : Board!TaintedBy(t, R) => Invalidated(t) \subseteq R
<1>1. ASSUME NEW u \in Tasks, DependsOn[u] \cap Invalidated(t) # {}
      PROVE  u \in Invalidated(t)
  <2>1. PICK v \in DependsOn[u] : v \in Invalidated(t)
    BY <1>1
  <2> SUFFICES ASSUME NEW S \in SUBSET Tasks, t \in S, ClosedUnderDependents(S)
               PROVE  u \in S
    BY DEF Invalidated
  <2>2. v \in S
    BY <2>1 DEF Invalidated
  <2> QED
    BY <2>2, <2>1 DEF ClosedUnderDependents
<1>2. t \in Invalidated(t) /\ Invalidated(t) \in SUBSET Tasks
  BY DEF Invalidated
<1> QED
  BY <1>1, <1>2 DEF Invalidated, ClosedUnderDependents, Board!TaintedBy

LEMMA CompletedRepairReopens ==
  ASSUME TypeOK, NEW t \in Tasks, NEW a \in Approvals, AuthorizeCompletedRepair(t, a)
  PROVE  \E S \in SUBSET Tasks : Board!Reopen(t, S)
<1>1. "queued" \in Statuses \ Active /\ {"implementation", Nobody} \subseteq FailureClasses \cup {Nobody}
  BY DEF Statuses, Active, FailureClasses
<1>2. ASSUME NEW u \in Tasks, u \in Invalidated(t)
      PROVE  /\ tasks'[u].status = "queued"
             /\ tasks'[u].owner = Nobody /\ tasks'[u].ttl = 0
  <2>1. tasks'[u] \in {Reopened(tasks[u], a, "implementation"),
                       Reopened(tasks[u], a, Nobody), Erased(tasks[u], Nobody)}
    BY <1>2 DEF AuthorizeCompletedRepair, StoreProjected
  <2> QED
    BY <2>1, <1>1, TaskType, ErasedFields
<1>3. ASSUME NEW u \in Tasks, u \notin Invalidated(t)
      PROVE  tasks'[u] = tasks[u]
  BY <1>3, InvalidatedIsTainted DEF AuthorizeCompletedRepair, StoreProjected
<1>4. Board!Release(Invalidated(t), "queued")
  BY <1>1, <1>2, <1>3, ReleasedTogether
<1>5. [u \in Tasks |-> StageOf(tasks[u].status)][t] = "completed"
  BY DEF AuthorizeCompletedRepair, StageOf, Active
<1> QED
  BY <1>4, <1>5, InvalidatedIsTainted DEF Board!Reopen

LEMMA OwnerResumes ==
  ASSUME TypeOK, Held, NEW t \in Tasks,
         \/ \E a \in Approvals : AuthorizeReviewRepair(t, a)
         \/ AuthorizeEnvironmentRetry(t)
         \/ AuthorizeQuarantineRecovery(t)
  PROVE  Board!Resume(t)
<1>1. tasks[t] \in Task /\ "queued" \in Statuses \ Active
  BY TaskType DEF Statuses, Active
<1>2. tasks[t].status \in {"needs_user", "quarantined"}
  BY DEF AuthorizeReviewRepair, ReviewRepairAllowed, AuthorizeEnvironmentRetry,
         EnvironmentRetryAllowed, AuthorizeQuarantineRecovery, QuarantineRecoveryAllowed
<1>3. tasks[t].owner = Nobody /\ tasks[t].ttl = 0
  <2>1. tasks[t].status \notin Active
    BY <1>2 DEF Active
  <2> QED
    BY <2>1, TaskType, Limits DEF Held, Leased
<1>4. Board!Release({t}, "queued")
  <2>1. ASSUME NEW a \in Approvals, AuthorizeReviewRepair(t, a)
        PROVE  Board!Release({t}, "queued")
    <3>1. "product_decision" \in FailureClasses \cup {Nobody}
      BY DEF FailureClasses
    <3> QED
      BY <2>1, <3>1, <1>1, ErasedFields, ReplacedReleased DEF AuthorizeReviewRepair
  <2>2. CASE AuthorizeEnvironmentRetry(t)
    <3> DEFINE r == [tasks[t] EXCEPT !.status = "queued", !.provider = Nobody,
                                     !.note = "plain"]
    <3>1. r.status = "queued" /\ r.owner = Nobody /\ r.ttl = 0
      BY <1>1, <1>3 DEF Task
    <3> QED
      BY <2>2, <3>1, <1>1, ReplacedReleased DEF AuthorizeEnvironmentRetry
  <2>3. CASE AuthorizeQuarantineRecovery(t)
    <3> DEFINE r == [tasks[t] EXCEPT !.status = "queued", !.provider = Nobody,
                                     !.recovered = TRUE, !.note = "plain"]
    <3>1. r.status = "queued" /\ r.owner = Nobody /\ r.ttl = 0
      BY <1>1, <1>3 DEF Task
    <3> QED
      BY <2>3, <3>1, <1>1, ReplacedReleased DEF AuthorizeQuarantineRecovery
  <2> QED
    BY <2>1, <2>2, <2>3
<1>5. [u \in Tasks |-> StageOf(tasks[u].status)][t] \in {"needs_user", "quarantined"}
  BY <1>2 DEF StageOf, Active
<1> QED
  BY <1>4, <1>5 DEF Board!Resume

-----------------------------------------------------------------------------
(* Every step of the service is a step of the board or a stutter.           *)

LEMMA WorkerStepsOnBoard ==
  ASSUME TypeOK, Held, NEW t \in Tasks, NEW w \in Workers, WorkerStep(t, w)
  PROVE  Board!Next \/ UNCHANGED Board!vars
<1>1. CASE \E s \in {"queued", "needs_user", "quarantined"} : Board!Stop(t, s)
  BY <1>1, Zenon DEF Board!Next
<1>2. CASE Board!Finish(t)
  BY <1>2, Zenon DEF Board!Next
<1>3. ASSUME NEW class, AssessHealing(t, w, class)
      PROVE  Board!Next \/ UNCHANGED Board!vars
  BY <1>1, <1>3, HealingSteps
<1>4. ASSUME NEW panel, RecordReviews(t, w, panel)
      PROVE  Board!Next \/ UNCHANGED Board!vars
  BY <1>1, <1>4, ReviewSteps
<1>5. ASSUME NEW p, ReleaseForRetry(t, w) \/ ReleaseContractFailureForRetry(t, w, p)
      PROVE  Board!Next \/ UNCHANGED Board!vars
  BY <1>1, <1>5, RetrySteps
<1>6. ASSUME NEW class, NEW note, Interrupt(t, w, class, note)
      PROVE  Board!Next \/ UNCHANGED Board!vars
  BY <1>1, <1>6, InterruptStops
<1> QED
  BY <1>2, <1>3, <1>4, <1>5, <1>6, HeartbeatUnseen, RecordedUnseen, IntegrationFinishes
     DEF WorkerStep

LEMMA StepOnBoard ==
  ASSUME TypeOK, Held, [Next]_vars
  PROVE  [Board!Next]_(Board!vars)
<1>1. CASE UNCHANGED vars
  BY <1>1 DEF vars, Board!vars
<1>2. ASSUME NEW w \in Workers, NEW p \in Candidates, Claim(w, p)
      PROVE  Board!Next
  BY <1>2, ClaimStarts, Zenon DEF Board!Next
<1>3. ASSUME NEW t \in Tasks, OwnerStep(t)
      PROVE  Board!Next
  <2>1. ASSUME Board!Resume(t) PROVE Board!Next
    BY <2>1, Zenon DEF Board!Next
  <2>2. ASSUME NEW S \in SUBSET Tasks, Board!Reopen(t, S) PROVE Board!Next
    BY <2>2, Zenon DEF Board!Next
  <2>3. CASE \E a \in Approvals : AuthorizeReviewRepair(t, a)
    BY <2>1, <2>3, OwnerResumes
  <2>4. CASE \E a \in Approvals : AuthorizeCompletedRepair(t, a)
    BY <2>2, <2>4, CompletedRepairReopens
  <2>5. CASE AuthorizeEnvironmentRetry(t) \/ AuthorizeQuarantineRecovery(t)
    BY <2>1, <2>5, OwnerResumes
  <2> QED
    BY <1>3, <2>3, <2>4, <2>5 DEF OwnerStep
<1>4. CASE ReconcileExpired
  BY <1>4, ReconcileReconciles, Zenon DEF Board!Next
<1>5. CASE Tick
  BY <1>5, TickLapses, Zenon DEF Board!Next
<1> QED
  BY <1>1, <1>2, <1>3, <1>4, <1>5, WorkerStepsOnBoard DEF Next

-----------------------------------------------------------------------------
(* The inductive invariant, in the service's words and in the board's.      *)

\* StateReflectsTasks and the evidence properties are not part of it.
IInv == TypeOK /\ Held /\ DependencyOrder /\ FileExclusion

LEMMA HeldSeenByBoard ==
  TypeOK => (Held <=> BoardProofs!HeldIffActive)
<1> SUFFICES ASSUME TypeOK PROVE Held <=> BoardProofs!HeldIffActive
  OBVIOUS
<1>1. \A t \in Tasks : StageOf(tasks[t].status) = "active" <=> tasks[t].status \in Active
  BY TaskType, Stages DEF Task
<1> QED
  BY <1>1 DEF Held, Leased, BoardProofs!HeldIffActive

LEMMA OrderSeenByBoard ==
  TypeOK => (DependencyOrder <=> BoardProofs!DependencyOrder)
<1> SUFFICES ASSUME TypeOK PROVE DependencyOrder <=> BoardProofs!DependencyOrder
  OBVIOUS
<1>1. \A t \in Tasks : /\ StageOf(tasks[t].status) = "queued" <=> tasks[t].status = "queued"
                       /\ StageOf(tasks[t].status) = "completed" <=> tasks[t].status = "completed"
  BY TaskType, Stages DEF Task
<1>2. CompletedTasks(tasks) = BoardProofs!Completed
  BY <1>1 DEF CompletedTasks, BoardProofs!Completed
<1> QED
  BY <1>1, <1>2 DEF DependencyOrder, BoardProofs!DependencyOrder

LEMMA ExclusionSeenByBoard ==
  Held => (FileExclusion <=> BoardProofs!FileExclusion)
BY DEF Held, LiveLease, FileExclusion, BoardProofs!FileExclusion

LEMMA InvSeenByBoard ==
  TypeOK => (Held /\ DependencyOrder /\ FileExclusion <=> BoardProofs!Inv)
BY HeldSeenByBoard, OrderSeenByBoard, ExclusionSeenByBoard DEF BoardProofs!Inv

LEMMA TypesSeenByBoard ==
  TypeOK => BoardProofs!TypeOK
<1> SUFFICES ASSUME TypeOK PROVE BoardProofs!TypeOK
  OBVIOUS
<1>1. ASSUME NEW t \in Tasks
      PROVE  /\ StageOf(tasks[t].status)
                  \in {"queued", "active", "completed", "needs_user", "quarantined"}
             /\ tasks[t].owner \in Workers \cup {Nobody}
             /\ (tasks[t].ttl > 0) \in BOOLEAN
  <2>1. tasks[t] \in Task /\ tasks[t].ttl \in Nat
    BY TaskType, Limits
  <2> QED
    BY <2>1 DEF Task, StageOf, Statuses
<1> QED
  BY <1>1 DEF BoardProofs!TypeOK

\* The board instantiated for its definitions and for its theorems is one.
LEMMA OneBoard ==
  /\ Board!Init <=> BoardProofs!Init
  /\ Board!Next <=> BoardProofs!Next
  /\ UNCHANGED Board!vars <=> UNCHANGED BoardProofs!vars
<1>1. Board!Init <=> BoardProofs!Init
  BY DEF Board!Init, BoardProofs!Init
<1>2. UNCHANGED Board!vars <=> UNCHANGED BoardProofs!vars
  BY DEF Board!vars, BoardProofs!vars
<1>3. Board!Next <=> BoardProofs!Next
  BY DEF Board!Next, Board!Start, Board!Finish, Board!Stop, Board!Lapse, Board!Reconcile,
     Board!Resume, Board!Reopen, Board!Release, Board!Completed, Board!TaintedBy,
     BoardProofs!Next, BoardProofs!Start, BoardProofs!Finish, BoardProofs!Stop,
     BoardProofs!Lapse, BoardProofs!Reconcile, BoardProofs!Resume, BoardProofs!Reopen,
     BoardProofs!Release, BoardProofs!Completed, BoardProofs!TaintedBy
<1> QED
  BY <1>1, <1>2, <1>3

-----------------------------------------------------------------------------
LEMMA InitInv == Init => IInv
<1> SUFFICES ASSUME Init PROVE IInv
  OBVIOUS
<1>1. TypeOK
  BY InitType
<1>2. \A t \in Tasks : /\ tasks[t].status = "queued" /\ tasks[t].owner = Nobody
                       /\ tasks[t].ttl = 0
  BY DEF Init, NewTask
<1>3. Held /\ DependencyOrder /\ FileExclusion
  BY <1>2 DEF Held, Leased, LiveLease, Active, DependencyOrder, FileExclusion
<1> QED
  BY <1>1, <1>3 DEF IInv

LEMMA NextInv == IInv /\ [Next]_vars => IInv'
<1> SUFFICES ASSUME IInv, [Next]_vars PROVE IInv'
  OBVIOUS
<1>1. TypeOK'
  BY TypeNext DEF IInv
<1>2. [BoardProofs!Next]_(BoardProofs!vars)
  BY StepOnBoard, OneBoard DEF IInv
<1>3. BoardProofs!TypeOK /\ BoardProofs!Inv
  BY TypesSeenByBoard, InvSeenByBoard DEF IInv
<1>4. Nobody \notin Workers
  BY ConstantsAssumption
<1>5. BoardProofs!Inv'
  BY <1>2, <1>3, <1>4, BoardProofs!StepKeepsInv
<1>6. (TypeOK => (Held /\ DependencyOrder /\ FileExclusion <=> BoardProofs!Inv))'
  BY InvSeenByBoard, PTL
<1> QED
  BY <1>1, <1>5, <1>6 DEF IInv

LEMMA AlwaysIInv == Spec => []IInv
BY InitInv, NextInv, PTL DEF Spec

\* The service is an implementation of TaskBoard: whatever its workers and its
\* owner do, it starts, finishes, stops, resumes and reopens tasks as the
\* abstract board allows, and in no other way.
THEOREM ServiceImplementsTaskBoard == Spec => ImplementsTaskBoard
<1>1. Init => Board!Init
  <2> SUFFICES ASSUME Init PROVE Board!Init
    OBVIOUS
  <2>1. \A t \in Tasks : /\ StageOf(tasks[t].status) = "queued"
                         /\ tasks[t].owner = Nobody /\ (tasks[t].ttl > 0) = FALSE
    BY DEF Init, NewTask, StageOf, Active
  <2> QED
    BY <2>1 DEF Board!Init
<1>2. IInv /\ [Next]_vars => [Board!Next]_(Board!vars)
  BY StepOnBoard DEF IInv
<1> QED
  BY <1>1, <1>2, AlwaysIInv, PTL DEF Spec, ImplementsTaskBoard, Board!Spec

\* No task is ever out of the queue on top of an unfinished prerequisite, for
\* every dependency graph and however prerequisites are reopened.
THEOREM DependenciesComeFirst == Spec => []DependencyOrder
<1>1. IInv => DependencyOrder
  BY DEF IInv
<1> QED
  BY <1>1, AlwaysIInv, PTL

\* Live leases never share a file, for every assignment of files to tasks, any
\* number of workers and any lease length.
THEOREM LiveLeasesShareNoFile == Spec => []FileExclusion
<1>1. IInv => FileExclusion
  BY DEF IInv
<1> QED
  BY <1>1, AlwaysIInv, PTL

\* A task is leased exactly while a worker's stage is recorded for it, so every
\* abandoned stage is one reconcileExpired finds.
THEOREM StagesAreLeased == Spec => []LeaseMatchesStage
<1>1. IInv => LeaseMatchesStage
  BY DEF IInv, Held, LeaseMatchesStage
<1> QED
  BY <1>1, AlwaysIInv, PTL

-----------------------------------------------------------------------------
(* The project state, the evidence of a task and its history, for every     *)
(* record: what the operations that do not recompute, reset or extend them  *)
(* leave in place.                                                          *)

Completable(t, r) ==
  CompletionEvidence(t, [r EXCEPT !.integrated = TRUE, !.passed = @ \cup {"integration"}])

\* What a stage of the worker can count on. Reviews are collected last and
\* leave with their attempt; validation starts from an implementation.
Grounded(t, r) ==
  /\ r.status \in (Active \ {"integrating"}) \cup {"queued"} => r.reviews = {}
  /\ r.status \in {"validating", "reviewing"} => r.implemented > 0
  /\ r.status = "integrating" => Completable(t, r)

Archives(old, new) ==
  \/ EvidenceKept(old, new)
  \/ \E a \in Approvals : new.archive = Append(old.archive, Archived(old, a))

AllGrounded == \A t \in Tasks : Grounded(t, tasks[t])
AllArchive == \A t \in Tasks : Archives(tasks[t], tasks'[t])
EvidenceInv == TypeOK /\ StateReflectsTasks /\ AllGrounded

-----------------------------------------------------------------------------
(* The project state changes only with a settled task.                      *)

Settled == {"completed", "quarantined", "needs_user"}

LEMMA SameProjectState ==
  ASSUME NEW ts, NEW us,
         \A t \in Tasks : \A s \in Settled : ts[t].status = s <=> us[t].status = s
  PROVE  ProjectState(ts) = ProjectState(us)
<1>1. \A s \in Settled : (\E t \in Tasks : ts[t].status = s) <=> (\E t \in Tasks : us[t].status = s)
  OBVIOUS
<1>2. (\A t \in Tasks : ts[t].status = "completed") <=> (\A t \in Tasks : us[t].status = "completed")
  BY DEF Settled
<1> QED
  BY <1>1, <1>2 DEF ProjectState, Settled

LEMMA StoredState ==
  ASSUME TypeOK, StateReflectsTasks, NEW t \in Tasks, NEW r,
         \/ StoreProjected(Replace(t, r))
         \/ /\ Store(Replace(t, r))
            /\ r.status \notin Settled /\ tasks[t].status \notin Settled
         \/ Store(Replace(t, r)) /\ r.status = tasks[t].status
  PROVE  StateReflectsTasks'
<1>1. CASE StoreProjected(Replace(t, r))
  BY <1>1 DEF StoreProjected, StateReflectsTasks
<1>2. CASE Store(Replace(t, r)) /\ (\/ r.status \notin Settled /\ tasks[t].status \notin Settled
                                    \/ r.status = tasks[t].status)
  <2>1. /\ tasks'[t] = r /\ state' = state
        /\ \A u \in Tasks : u # t => tasks'[u] = tasks[u]
    BY <1>2, Replaced DEF Store
  <2>2. \A u \in Tasks : \A s \in Settled : tasks'[u].status = s <=> tasks[u].status = s
    BY <1>2, <2>1
  <2>3. ProjectState(tasks') = ProjectState(tasks)
    BY <2>2, SameProjectState
  <2> QED
    BY <2>1, <2>3 DEF StateReflectsTasks
<1> QED
  BY <1>1, <1>2

-----------------------------------------------------------------------------
(* Replacing one task.                                                      *)

LEMMA KeptAsItIs ==
  ASSUME TypeOK, NEW t \in Tasks
  PROVE  EvidenceKept(tasks[t], tasks[t])
<1>1. tasks[t].implemented \in Nat /\ tasks[t].checks \in Nat
  BY TaskType, Limits, Bounds
<1> QED
  BY <1>1 DEF EvidenceKept

LEMMA ReplacedEvidence ==
  ASSUME EvidenceInv, NEW t \in Tasks, NEW r,
         Store(Replace(t, r)) \/ StoreProjected(Replace(t, r)),
         Grounded(t, r), Archives(tasks[t], r)
  PROVE  AllGrounded' /\ AllArchive
<1>1. /\ tasks'[t] = r
      /\ \A u \in Tasks : u # t => tasks'[u] = tasks[u]
  BY Replaced DEF EvidenceInv
<1>2. \A u \in Tasks : Grounded(u, tasks'[u])
  BY <1>1 DEF EvidenceInv, AllGrounded
<1>3. AllArchive
  <2> SUFFICES ASSUME NEW u \in Tasks PROVE Archives(tasks[u], tasks'[u])
    BY DEF AllArchive
  <2>1. CASE u = t BY <2>1, <1>1
  <2>2. CASE u # t BY <2>2, <1>1, KeptAsItIs DEF EvidenceInv, Archives
  <2> QED BY <2>1, <2>2
<1> QED
  BY <1>2, <1>3 DEF AllGrounded

\* A settled task owes no stage anything; a queued one only that its reviews
\* are gone.
LEMMA SettledIsGrounded ==
  ASSUME NEW t, NEW r, r.status \in Settled
  PROVE  Grounded(t, r)
BY DEF Grounded, Settled, Active

LEMMA UnreviewedIsGrounded ==
  ASSUME NEW t, NEW r, r.status \in {"queued", "running", "healing"}, r.reviews = {}
  PROVE  Grounded(t, r)
BY DEF Grounded

LEMMA EvidenceFields ==
  ASSUME EvidenceInv, NEW t \in Tasks
  PROVE  /\ tasks[t] \in Task /\ Grounded(t, tasks[t])
         /\ tasks[t].implemented \in Nat /\ tasks[t].checks \in Nat
         /\ tasks[t].status \in {"queued", "running", "validating", "reviewing", "healing"}
              => tasks[t].reviews = {}
         /\ tasks[t].status \in {"validating", "reviewing"} => tasks[t].implemented > 0
<1>1. tasks[t] \in Task /\ Grounded(t, tasks[t])
  BY TaskType DEF EvidenceInv, AllGrounded
<1>2. tasks[t].implemented \in Nat /\ tasks[t].checks \in Nat
  BY TaskType, Limits, Bounds DEF EvidenceInv
<1> QED
  BY <1>1, <1>2 DEF Grounded, Active

\* One lemma for every operation that replaces one task.
StepKeeps == StateReflectsTasks' /\ AllGrounded' /\ AllArchive

LEMMA ReplacedKeeps ==
  ASSUME EvidenceInv, NEW t \in Tasks, NEW r,
         \/ StoreProjected(Replace(t, r))
         \/ /\ Store(Replace(t, r))
            /\ r.status \notin Settled /\ tasks[t].status \notin Settled
         \/ Store(Replace(t, r)) /\ r.status = tasks[t].status,
         Grounded(t, r), Archives(tasks[t], r)
  PROVE  StepKeeps
<1>1. StateReflectsTasks'
  BY StoredState DEF EvidenceInv
<1> QED
  BY <1>1, ReplacedEvidence DEF StepKeeps

\* r is old with its evidence as it was.
SameEvidence(old, r) ==
  /\ r.implemented = old.implemented /\ r.checks = old.checks
  /\ r.reviews = old.reviews /\ r.archive = old.archive

LEMMA SameIsKept ==
  ASSUME EvidenceInv, NEW t \in Tasks, NEW r, SameEvidence(tasks[t], r)
  PROVE  Archives(tasks[t], r)
BY EvidenceFields DEF SameEvidence, Archives, EvidenceKept

LEMMA ReleasedEvidence ==
  ASSUME NEW r \in Task, NEW status
  PROVE  /\ SameEvidence(r, Released(r, status)) /\ Released(r, status).status = status
         /\ SameEvidence(r, Requeued(r)) /\ Requeued(r).status = "queued"
BY DEF SameEvidence, Released, Requeued, Task

-----------------------------------------------------------------------------
(* The worker's operations.                                                 *)

LEMMA ClaimKeeps ==
  ASSUME EvidenceInv, NEW w \in Workers, NEW p \in Candidates, Claim(w, p)
  PROVE  StepKeeps
<1> DEFINE claimed(t) == [tasks[t] EXCEPT !.status = "running", !.provider = p,
                            !.owner = w, !.ttl = LeaseTicks, !.note = "plain"]
<1>1. PICK t \in EligibleTasks(tasks) : Store(Replace(t, claimed(t)))
  BY DEF Claim
<1>2. t \in Tasks /\ tasks[t].status = "queued"
  BY DEF EligibleTasks, Ready
<1> DEFINE r == claimed(t)
<1>3. r.status = "running" /\ SameEvidence(tasks[t], r)
  BY <1>2, EvidenceFields DEF SameEvidence, Task
<1>4. Store(Replace(t, r))
  BY <1>1
<1> HIDE DEF r
<1>5. Grounded(t, r)
  BY <1>2, <1>3, EvidenceFields, UnreviewedIsGrounded DEF SameEvidence
<1>6. r.status \notin Settled /\ tasks[t].status \notin Settled
  BY <1>2, <1>3 DEF Settled
<1> QED
  BY <1>2, <1>3, <1>4, <1>5, <1>6, SameIsKept, ReplacedKeeps

\* What completion asks for is read off four fields.
LEMMA CompletableSame ==
  ASSUME NEW t \in Tasks, NEW old \in Task, NEW r \in Task,
         SameEvidence(old, r), r.passed = old.passed, r.provider = old.provider,
         Completable(t, old)
  PROVE  Completable(t, r)
<1> DEFINE o == [old EXCEPT !.integrated = TRUE, !.passed = @ \cup {"integration"}]
           n == [r EXCEPT !.integrated = TRUE, !.passed = @ \cup {"integration"}]
<1>1. /\ n.implemented = o.implemented /\ n.passed = o.passed /\ n.integrated = o.integrated
      /\ n.reviews = o.reviews /\ n.provider = o.provider
  BY DEF SameEvidence, Task
<1>2. CompletionEvidence(t, o)
  BY DEF Completable
<1> HIDE DEF o, n
<1>3. CompletionEvidence(t, n)
  BY <1>1, <1>2 DEF CompletionEvidence, PassedReviews
<1> QED
  BY <1>3 DEF Completable, n

LEMMA GroundedSame ==
  ASSUME NEW t \in Tasks, NEW old \in Task, NEW r \in Task,
         SameEvidence(old, r), r.passed = old.passed, r.provider = old.provider,
         r.status = old.status, Grounded(t, old)
  PROVE  Grounded(t, r)
BY CompletableSame DEF Grounded, SameEvidence

LEMMA HeartbeatKeeps ==
  ASSUME EvidenceInv, NEW t \in Tasks, NEW w, Heartbeat(t, w)
  PROVE  StepKeeps
<1> DEFINE r == [tasks[t] EXCEPT !.ttl = LeaseTicks]
<1>1. /\ r \in Task /\ SameEvidence(tasks[t], r) /\ r.passed = tasks[t].passed
      /\ r.provider = tasks[t].provider /\ r.status = tasks[t].status
  <2>1. LeaseTicks \in 0..LeaseTicks BY Limits, Bounds
  <2> QED BY <2>1, EvidenceFields, LeaseType DEF SameEvidence, Task
<1>2. Store(Replace(t, r))
  BY DEF Heartbeat
<1> HIDE DEF r
<1>3. Grounded(t, r)
  BY <1>1, EvidenceFields, GroundedSame
<1> QED
  BY <1>1, <1>2, <1>3, SameIsKept, ReplacedKeeps

LEMMA ImplementationKeeps ==
  ASSUME EvidenceInv, NEW t \in Tasks, NEW w, RecordImplementation(t, w)
  PROVE  StepKeeps
<1> DEFINE r == [tasks[t] EXCEPT !.status = "validating", !.deferred = {},
                   !.recovered = FALSE, !.implemented = @ + 1,
                   !.failure = Nobody, !.note = "plain"]
<1>1. /\ r.status = "validating" /\ r.implemented = tasks[t].implemented + 1
      /\ r.checks = tasks[t].checks /\ r.reviews = tasks[t].reviews
      /\ r.archive = tasks[t].archive
  BY EvidenceFields DEF Task
<1>2. Store(Replace(t, r)) /\ tasks[t].status \in {"running", "healing"}
  BY DEF RecordImplementation
<1> HIDE DEF r
<1>3. r.implemented > 0 /\ r.implemented >= tasks[t].implemented
  BY <1>1, EvidenceFields
<1>4. Grounded(t, r)
  BY <1>1, <1>2, <1>3, EvidenceFields DEF Grounded
<1>5. Archives(tasks[t], r)
  BY <1>1, <1>3, EvidenceFields DEF Archives, EvidenceKept
<1>6. r.status \notin Settled /\ tasks[t].status \notin Settled
  BY <1>1, <1>2 DEF Settled
<1> QED
  BY <1>2, <1>4, <1>5, <1>6, ReplacedKeeps

LEMMA ValidationKeeps ==
  ASSUME EvidenceInv, NEW t \in Tasks, NEW w, NEW tier \in Tiers,
         \/ RecordPass(t, w, tier)
         \/ \E d \in Digests : RecordFailure(t, w, tier, d)
  PROVE  StepKeeps
<1>1. ASSUME NEW r, Store(Replace(t, r)), tasks[t].status = "validating",
             r.status \in {"validating", "reviewing"},
             r.implemented = tasks[t].implemented, r.checks = tasks[t].checks + 1,
             r.reviews = tasks[t].reviews, r.archive = tasks[t].archive
      PROVE  StepKeeps
  <2>1. Grounded(t, r)
    BY <1>1, EvidenceFields DEF Grounded
  <2>2. Archives(tasks[t], r)
    BY <1>1, EvidenceFields DEF Archives, EvidenceKept
  <2>3. r.status \notin Settled /\ tasks[t].status \notin Settled
    BY <1>1 DEF Settled
  <2> QED
    BY <1>1, <2>1, <2>2, <2>3, ReplacedKeeps
<1>2. CASE RecordPass(t, w, tier)
  <2> DEFINE r == [tasks[t] EXCEPT
                     !.status = IF tier = "full" THEN "reviewing" ELSE @,
                     !.checks = @ + 1, !.passed = @ \cup {tier}, !.note = "plain"]
  <2>1. Store(Replace(t, r)) /\ tasks[t].status = "validating"
    BY <1>2 DEF RecordPass
  <2>2. /\ r.status \in {"validating", "reviewing"}
        /\ r.implemented = tasks[t].implemented /\ r.checks = tasks[t].checks + 1
        /\ r.reviews = tasks[t].reviews /\ r.archive = tasks[t].archive
    BY <2>1, EvidenceFields DEF Task
  <2> HIDE DEF r
  <2> QED
    BY <1>1, <2>1, <2>2
<1>3. ASSUME NEW d \in Digests, RecordFailure(t, w, tier, d)
      PROVE  StepKeeps
  <2> DEFINE r == [tasks[t] EXCEPT !.checks = @ + 1, !.failing = d,
                     !.repeated = (d = tasks[t].failing), !.note = "plain"]
  <2>1. Store(Replace(t, r)) /\ tasks[t].status = "validating"
    BY <1>3 DEF RecordFailure
  <2>2. /\ r.status = tasks[t].status
        /\ r.implemented = tasks[t].implemented /\ r.checks = tasks[t].checks + 1
        /\ r.reviews = tasks[t].reviews /\ r.archive = tasks[t].archive
    BY EvidenceFields DEF Task
  <2> HIDE DEF r
  <2> QED
    BY <1>1, <2>1, <2>2
<1> QED
  BY <1>2, <1>3

LEMMA HealingKeeps ==
  ASSUME EvidenceInv, NEW t \in Tasks, NEW w, NEW class, AssessHealing(t, w, class)
  PROVE  StepKeeps
<1> DEFINE plan == IF tasks[t].repeated THEN "needs_user"
                   ELSE PlanHealing(class, tasks[t].attempt)
           healing == [tasks[t] EXCEPT !.status = "healing", !.attempt = @ + 1,
                                       !.note = "plain"]
           base == IF plan = "repairable" THEN healing ELSE Released(tasks[t], plan)
           r == [base EXCEPT !.failure = class]
<1>1. StoreProjected(Replace(t, r)) /\ tasks[t].status = "validating"
  BY DEF AssessHealing
<1>2. plan \in {"repairable", "needs_user", "quarantined"}
  BY DEF PlanHealing
<1>3. tasks[t] \in Task
  BY EvidenceFields
<1>4. r.status \in {"healing", "needs_user", "quarantined"} /\ SameEvidence(tasks[t], r)
  <2>1. CASE plan = "repairable"
    BY <2>1, <1>3 DEF SameEvidence, Task
  <2>2. CASE plan # "repairable"
    <3>1. plan \in {"needs_user", "quarantined"} /\ base = Released(tasks[t], plan)
      BY <2>2, <1>2
    <3> HIDE DEF plan, base
    <3>2. r.status = plan /\ SameEvidence(tasks[t], r)
      BY <3>1, <1>3 DEF Released, SameEvidence, Task
    <3> QED BY <3>1, <3>2
  <2> QED BY <2>1, <2>2
<1> HIDE DEF r
<1>5. Grounded(t, r)
  BY <1>1, <1>4, EvidenceFields, SettledIsGrounded, UnreviewedIsGrounded
     DEF SameEvidence, Settled
<1> QED
  BY <1>1, <1>4, <1>5, SameIsKept, ReplacedKeeps

LEMMA QuorumCompletes ==
  ASSUME NEW t \in Tasks, NEW old \in Task, NEW r \in Task, NEW panel \in Panels,
         tasks[t] = old, QuorumFormed(t, panel), QuorumStatus(t, panel) = "integrating",
         old.implemented > 0, old.provider # Nobody,
         r.reviews = panel, r.implemented = old.implemented, r.passed = old.passed,
         r.provider = old.provider
  PROVE  Completable(t, r)
<1> DEFINE n == [r EXCEPT !.integrated = TRUE, !.passed = @ \cup {"integration"}]
<1>1. /\ n.implemented = old.implemented /\ n.passed = old.passed \cup {"integration"}
      /\ n.integrated /\ n.reviews = panel /\ n.provider = old.provider
  BY DEF Task
<1>2. {"fast", "full"} \subseteq old.passed /\ \A v \in panel : v.verdict \notin {"needs_user", "fail"}
  BY DEF QuorumStatus
<1>3. \A v \in panel : v.verdict = "pass"
  BY <1>2, ConstantsAssumption DEF Review
<1> HIDE DEF n
<1>4. PassedReviews(n) = panel
  BY <1>1, <1>3 DEF PassedReviews
<1>5. Tiers \subseteq n.passed
  BY <1>1, <1>2 DEF Tiers
<1>6. CompletionEvidence(t, n)
  BY <1>1, <1>4, <1>5 DEF CompletionEvidence, QuorumFormed
<1> QED
  BY <1>6 DEF Completable, n

LEMMA ReviewsKeep ==
  ASSUME EvidenceInv, NEW t \in Tasks, NEW w, NEW panel \in Panels,
         RecordReviews(t, w, panel)
  PROVE  StepKeeps
<1> DEFINE status == QuorumStatus(t, panel)
           going == [tasks[t] EXCEPT !.status = status, !.note = "plain"]
           base == IF status = "integrating" THEN going ELSE Released(tasks[t], status)
           r == [base EXCEPT !.reviews = panel]
<1>1. /\ StoreProjected(Replace(t, r)) /\ tasks[t].status = "reviewing"
      /\ tasks[t].provider # Nobody /\ QuorumFormed(t, panel)
  BY DEF RecordReviews
<1>2. status \in {"integrating", "needs_user", "quarantined"}
  BY DEF QuorumStatus
<1>3. tasks[t] \in Task /\ tasks[t].reviews = {} /\ tasks[t].implemented > 0
  BY <1>1, EvidenceFields
<1>4. /\ r.implemented = tasks[t].implemented /\ r.checks = tasks[t].checks
      /\ r.archive = tasks[t].archive /\ r.reviews = panel
      /\ r.passed = tasks[t].passed /\ r.provider = tasks[t].provider /\ r.status = status
  <2>1. CASE status = "integrating"
    BY <2>1, <1>3 DEF Task
  <2>2. CASE status # "integrating"
    <3>1. base = Released(tasks[t], status) BY <2>2
    <3> HIDE DEF status, base
    <3> QED BY <3>1, <1>3 DEF Released, Task
  <2> QED BY <2>1, <2>2
<1>5. Archives(tasks[t], r)
  BY <1>3, <1>4, EvidenceFields DEF Archives, EvidenceKept
<1>6. Grounded(t, r)
  <2>1. CASE status = "integrating"
    <3>1. r \in Task
      <4>1. status \in Statuses BY <2>1 DEF Statuses, Active
      <4>2. going \in Task /\ base = going
        BY <2>1, <4>1, <1>3 DEF Task, Notes
      <4> HIDE DEF going, base
      <4> QED BY <4>2, ConstantsAssumption DEF Task
    <3> HIDE DEF r
    <3>2. Completable(t, r)
      BY <2>1, <3>1, <1>1, <1>3, <1>4, QuorumCompletes
    <3> QED BY <2>1, <3>2, <1>4 DEF Grounded, Active
  <2>2. CASE status # "integrating"
    <3> HIDE DEF r, status
    <3> QED BY <2>2, <1>2, <1>4, SettledIsGrounded DEF Settled
  <2> QED BY <2>1, <2>2
<1> HIDE DEF r
<1> QED
  BY <1>1, <1>5, <1>6, ReplacedKeeps

LEMMA IntegrationKeeps ==
  ASSUME EvidenceInv, NEW t \in Tasks, NEW w, RecordIntegration(t, w)
  PROVE  StepKeeps
<1> DEFINE r == [Released(tasks[t], "completed") EXCEPT !.integrated = TRUE,
                   !.checks = @ + 1, !.passed = @ \cup {"integration"}]
<1>1. StoreProjected(Replace(t, r))
  BY DEF RecordIntegration
<1>2. /\ r.status = "completed" /\ r.implemented = tasks[t].implemented
      /\ r.checks = tasks[t].checks + 1 /\ r.reviews = tasks[t].reviews
      /\ r.archive = tasks[t].archive
  BY EvidenceFields DEF Released, Task
<1> HIDE DEF r
<1>3. Archives(tasks[t], r)
  BY <1>2, EvidenceFields DEF Archives, EvidenceKept
<1>4. Grounded(t, r)
  BY <1>2, SettledIsGrounded DEF Settled
<1> QED
  BY <1>1, <1>3, <1>4, ReplacedKeeps

LEMMA RetryKeeps ==
  ASSUME EvidenceInv, NEW t \in Tasks, NEW w, NEW p,
         Implementing(tasks[t]) \/ tasks[t].status = "reviewing",
         ReleaseForRetry(t, w) \/ ReleaseContractFailureForRetry(t, w, p)
  PROVE  StepKeeps
<1> DEFINE refused == [Requeued(tasks[t]) EXCEPT
                         !.attempt = IF @ < AttemptLimit THEN @ + 1 ELSE @,
                         !.deferred = @ \cup {p}, !.failure = "implementation"]
<1>1. tasks[t].reviews = {} /\ tasks[t] \in Task
  BY EvidenceFields DEF Implementing
<1>2. ASSUME NEW r, StoreProjected(Replace(t, r)), r.status = "queued",
             SameEvidence(tasks[t], r)
      PROVE  StepKeeps
  <2>1. Grounded(t, r)
    BY <1>1, <1>2, UnreviewedIsGrounded DEF SameEvidence
  <2> QED
    BY <1>2, <2>1, SameIsKept, ReplacedKeeps
<1>3. CASE ReleaseForRetry(t, w)
  BY <1>1, <1>2, <1>3, ReleasedEvidence DEF ReleaseForRetry
<1>4. CASE ReleaseContractFailureForRetry(t, w, p)
  <2>1. StoreProjected(Replace(t, refused))
    BY <1>4 DEF ReleaseContractFailureForRetry
  <2>2. refused.status = "queued" /\ SameEvidence(tasks[t], refused)
    <3>1. Requeued(tasks[t]) \in Task
      BY <1>1, RequeuedType
    <3> QED
      BY <1>1, <3>1, ReleasedEvidence DEF SameEvidence, Task
  <2> HIDE DEF refused
  <2> QED
    BY <1>2, <2>1, <2>2
<1> QED
  BY <1>3, <1>4

LEMMA InterruptKeeps ==
  ASSUME EvidenceInv, NEW t \in Tasks, NEW w, NEW class, NEW note,
         Interrupt(t, w, class, note)
  PROVE  StepKeeps
<1> DEFINE r == [Released(tasks[t], "needs_user") EXCEPT
                   !.failure = IF class = Nobody THEN @ ELSE class, !.note = note]
<1>1. StoreProjected(Replace(t, r))
  BY DEF Interrupt
<1>2. r.status = "needs_user" /\ SameEvidence(tasks[t], r)
  BY EvidenceFields DEF Released, SameEvidence, Task
<1> HIDE DEF r
<1>3. Grounded(t, r)
  BY <1>2, SettledIsGrounded DEF Settled
<1> QED
  BY <1>1, <1>2, <1>3, SameIsKept, ReplacedKeeps

LEMMA WorkerKeeps ==
  ASSUME EvidenceInv, NEW t \in Tasks, NEW w \in Workers, WorkerStep(t, w)
  PROVE  StepKeeps
<1>1. ASSUME NEW tier \in {"fast", "full"},
             \/ RecordPass(t, w, tier)
             \/ \E d \in Digests : RecordFailure(t, w, tier, d)
      PROVE  StepKeeps
  <2>1. tier \in Tiers BY <1>1 DEF Tiers
  <2> QED BY <1>1, <2>1, ValidationKeeps
<1>2. ASSUME NEW p, Implementing(tasks[t]) \/ tasks[t].status = "reviewing",
             ReleaseForRetry(t, w) \/ ReleaseContractFailureForRetry(t, w, p)
      PROVE  StepKeeps
  BY <1>2, RetryKeeps
<1>3. ASSUME NEW class, NEW note, Interrupt(t, w, class, note)
      PROVE  StepKeeps
  BY <1>3, InterruptKeeps
<1> QED
  BY <1>1, <1>2, <1>3, HeartbeatKeeps, ImplementationKeeps, HealingKeeps, ReviewsKeep,
     IntegrationKeeps DEF WorkerStep

-----------------------------------------------------------------------------
(* Expiry, the clock and the owner.                                         *)

LEMMA ReconcileKeeps ==
  ASSUME EvidenceInv, ReconcileExpired
  PROVE  StepKeeps
<1> DEFINE next(u) == IF Leased(tasks[u]) /\ tasks[u].ttl = 0
                      THEN Released(tasks[u], "needs_user") ELSE tasks[u]
<1>1. StoreProjected([u \in Tasks |-> next(u)])
  BY DEF ReconcileExpired
<1>2. ASSUME NEW u \in Tasks
      PROVE  tasks'[u] \in {Released(tasks[u], "needs_user"), tasks[u]}
  BY <1>1 DEF StoreProjected
<1>3. ASSUME NEW u \in Tasks
      PROVE  Grounded(u, tasks'[u]) /\ Archives(tasks[u], tasks'[u])
  <2>1. CASE tasks'[u] = tasks[u]
    BY <2>1, EvidenceFields, KeptAsItIs DEF EvidenceInv, Archives
  <2>2. CASE tasks'[u] = Released(tasks[u], "needs_user")
    <3>1. tasks'[u].status = "needs_user" /\ SameEvidence(tasks[u], tasks'[u])
      BY <2>2, EvidenceFields, ReleasedEvidence
    <3> QED
      BY <3>1, SettledIsGrounded, SameIsKept DEF Settled
  <2> QED
    BY <1>2, <2>1, <2>2
<1>4. StateReflectsTasks'
  BY <1>1 DEF StoreProjected, StateReflectsTasks
<1> QED
  BY <1>3, <1>4 DEF StepKeeps, AllGrounded, AllArchive

LEMMA TickKeeps ==
  ASSUME EvidenceInv, Tick
  PROVE  StepKeeps
<1>1. TypeOK'
  BY TypeTick DEF EvidenceInv
<1>2. ASSUME NEW u \in Tasks
      PROVE  /\ tasks'[u].status = tasks[u].status /\ SameEvidence(tasks[u], tasks'[u])
             /\ tasks'[u].passed = tasks[u].passed /\ tasks'[u].provider = tasks[u].provider
  <2>1. tasks'[u] = [tasks[u] EXCEPT !.ttl = IF @ > 0 THEN @ - 1 ELSE 0]
    BY DEF Tick
  <2> QED
    BY <2>1, EvidenceFields DEF SameEvidence, Task
<1>3. ASSUME NEW u \in Tasks
      PROVE  Grounded(u, tasks'[u]) /\ Archives(tasks[u], tasks'[u])
  <2>1. tasks'[u] \in Task
    BY <1>1 DEF TypeOK
  <2> QED
    BY <2>1, <1>2, EvidenceFields, GroundedSame, SameIsKept
<1>4. ProjectState(tasks') = ProjectState(tasks)
  BY <1>2, SameProjectState
<1>5. StateReflectsTasks'
  BY <1>4 DEF Tick, StateReflectsTasks, EvidenceInv
<1> QED
  BY <1>3, <1>5 DEF StepKeeps, AllGrounded, AllArchive

LEMMA ErasedEvidence ==
  ASSUME NEW r \in Task, NEW a, NEW class
  PROVE  /\ Erased(r, class).status = "queued" /\ Erased(r, class).reviews = {}
         /\ Erased(r, class).implemented = 0 /\ Erased(r, class).checks = 0
         /\ Erased(r, class).archive = r.archive
         /\ Reopened(r, a, class).status = "queued" /\ Reopened(r, a, class).reviews = {}
         /\ Reopened(r, a, class).archive = Append(r.archive, Archived(r, a))
<1>1. Requeued(r) \in Task /\ Requeued(r).archive = r.archive /\ Requeued(r).status = "queued"
  BY RequeuedType, ReleasedEvidence DEF SameEvidence
<1> DEFINE e == Erased(r, class)
<1>2. /\ e.status = "queued" /\ e.reviews = {} /\ e.implemented = 0 /\ e.checks = 0
      /\ e.archive = r.archive
  BY <1>1 DEF Erased, Task
<1>3. Reopened(r, a, class) = [e EXCEPT !.archive = Append(@, Archived(r, a))]
  BY DEF Reopened
<1> QED
  BY <1>1, <1>2, <1>3 DEF Erased, Task

LEMMA ReopenedKeeps ==
  ASSUME EvidenceInv, NEW t \in Tasks, NEW a \in Approvals, NEW class, NEW r,
         \/ r = Reopened(tasks[t], a, class)
         \/ r = Erased(tasks[t], class) /\ ~HasEvidence(tasks[t])
  PROVE  Grounded(t, r) /\ Archives(tasks[t], r)
<1>1. CASE r = Reopened(tasks[t], a, class)
  BY <1>1, EvidenceFields, ErasedEvidence, UnreviewedIsGrounded DEF Archives
<1>2. CASE r = Erased(tasks[t], class) /\ ~HasEvidence(tasks[t])
  <2>1. tasks[t].implemented = 0 /\ tasks[t].checks = 0 /\ tasks[t].reviews = {}
    BY <1>2, EvidenceFields DEF HasEvidence
  <2>2. /\ r.status = "queued" /\ r.reviews = {} /\ r.implemented = 0 /\ r.checks = 0
        /\ r.archive = tasks[t].archive
    BY <1>2, EvidenceFields, ErasedEvidence
  <2>3. EvidenceKept(tasks[t], r)
    BY <2>1, <2>2 DEF EvidenceKept
  <2> QED
    BY <2>2, <2>3, UnreviewedIsGrounded DEF Archives
<1> QED
  BY <1>1, <1>2

LEMMA OwnerKeeps ==
  ASSUME EvidenceInv, NEW t \in Tasks, OwnerStep(t)
  PROVE  StepKeeps
<1>1. ASSUME NEW a \in Approvals, AuthorizeCompletedRepair(t, a)
      PROVE  StepKeeps
  <2>1. ASSUME NEW u \in Tasks
        PROVE  \/ \E class : \/ tasks'[u] = Reopened(tasks[u], a, class)
                             \/ tasks'[u] = Erased(tasks[u], class) /\ ~HasEvidence(tasks[u])
               \/ tasks'[u] = tasks[u]
    BY <1>1 DEF AuthorizeCompletedRepair, StoreProjected
  <2>2. ASSUME NEW u \in Tasks
        PROVE  Grounded(u, tasks'[u]) /\ Archives(tasks[u], tasks'[u])
    <3>1. CASE tasks'[u] = tasks[u]
      BY <3>1, EvidenceFields, KeptAsItIs DEF EvidenceInv, Archives
    <3> QED
      BY <2>1, <3>1, ReopenedKeeps
  <2>3. StateReflectsTasks'
    BY <1>1 DEF AuthorizeCompletedRepair, StoreProjected, StateReflectsTasks
  <2> QED
    BY <2>2, <2>3 DEF StepKeeps, AllGrounded, AllArchive
<1>2. ASSUME NEW a \in Approvals, AuthorizeReviewRepair(t, a)
      PROVE  StepKeeps
  <2> DEFINE r == Reopened(tasks[t], a, "product_decision")
  <2>1. StoreProjected(Replace(t, r))
    BY <1>2 DEF AuthorizeReviewRepair
  <2>2. Grounded(t, r) /\ Archives(tasks[t], r)
    BY ReopenedKeeps
  <2> HIDE DEF r
  <2> QED
    BY <2>1, <2>2, ReplacedKeeps
<1>3. ASSUME NEW r, StoreProjected(Replace(t, r)), r.status = "queued",
             SameEvidence(tasks[t], r), tasks[t].reviews = {}
      PROVE  StepKeeps
  <2>1. Grounded(t, r)
    BY <1>3, UnreviewedIsGrounded DEF SameEvidence
  <2> QED
    BY <1>3, <2>1, SameIsKept, ReplacedKeeps
<1>4. CASE AuthorizeEnvironmentRetry(t)
  <2> DEFINE r == [tasks[t] EXCEPT !.status = "queued", !.provider = Nobody, !.note = "plain"]
  <2>1. StoreProjected(Replace(t, r)) /\ tasks[t].reviews = {}
    BY <1>4 DEF AuthorizeEnvironmentRetry, EnvironmentRetryAllowed
  <2>2. r.status = "queued" /\ SameEvidence(tasks[t], r)
    BY EvidenceFields DEF SameEvidence, Task
  <2> HIDE DEF r
  <2> QED
    BY <1>3, <2>1, <2>2
<1>5. CASE AuthorizeQuarantineRecovery(t)
  <2> DEFINE r == [tasks[t] EXCEPT !.status = "queued", !.provider = Nobody,
                                   !.recovered = TRUE, !.note = "plain"]
  <2>1. StoreProjected(Replace(t, r)) /\ tasks[t].reviews = {}
    BY <1>5 DEF AuthorizeQuarantineRecovery, QuarantineRecoveryAllowed
  <2>2. r.status = "queued" /\ SameEvidence(tasks[t], r)
    BY EvidenceFields DEF SameEvidence, Task
  <2> HIDE DEF r
  <2> QED
    BY <1>3, <2>1, <2>2
<1> QED
  BY <1>1, <1>2, <1>4, <1>5 DEF OwnerStep

-----------------------------------------------------------------------------
(* The theorems.                                                            *)

LEMMA NextKeeps ==
  EvidenceInv /\ [Next]_vars => EvidenceInv' /\ AllArchive
<1> SUFFICES ASSUME EvidenceInv, [Next]_vars PROVE EvidenceInv' /\ AllArchive
  OBVIOUS
<1>1. TypeOK'
  BY TypeNext DEF EvidenceInv
<1>2. CASE Next
  <2>1. StepKeeps
    BY <1>2, ClaimKeeps, WorkerKeeps, OwnerKeeps, ReconcileKeeps, TickKeeps DEF Next
  <2> QED
    BY <1>1, <2>1 DEF StepKeeps, EvidenceInv
<1>3. CASE UNCHANGED vars
  <2>1. AllArchive
    BY <1>3, KeptAsItIs DEF vars, EvidenceInv, AllArchive, Archives
  <2> QED
    BY <1>1, <1>3, <2>1 DEF vars, EvidenceInv, StateReflectsTasks, AllGrounded
<1> QED
  BY <1>2, <1>3

LEMMA InitEvidence == Init => EvidenceInv
<1> SUFFICES ASSUME Init PROVE EvidenceInv
  OBVIOUS
<1>1. NewTask.status = "queued" /\ NewTask.reviews = {}
  BY DEF NewTask
<1>2. \A t \in Tasks : tasks[t] = NewTask
  BY DEF Init
<1>3. AllGrounded
  BY <1>1, <1>2, UnreviewedIsGrounded DEF AllGrounded
<1>4. 1 \in Tasks
  BY ConstantsAssumption DEF Tasks
<1>5. ProjectState(tasks) = "running"
  BY <1>1, <1>2, <1>4 DEF ProjectState
<1> QED
  BY <1>3, <1>5, InitType DEF EvidenceInv, StateReflectsTasks, Init

LEMMA AlwaysEvidenceInv == Spec => []EvidenceInv
BY InitEvidence, NextKeeps, PTL DEF Spec

\* The stored project state is the projection of the stored tasks: the saves
\* that do not recompute it never settle or unsettle a task.
THEOREM StateIsProjected == Spec => []StateReflectsTasks
<1>1. EvidenceInv => StateReflectsTasks
  BY DEF EvidenceInv
<1> QED
  BY <1>1, AlwaysEvidenceInv, PTL

\* Whatever the quorum let through has all the evidence completion asks for,
\* but for the integration itself: for any panel of reviewers.
THEOREM ReviewedWorkIsCompletable == Spec => []IntegratingIsCompletable
<1>1. EvidenceInv => IntegratingIsCompletable
  BY DEF EvidenceInv, AllGrounded, Grounded, Completable, IntegratingIsCompletable
<1> QED
  BY <1>1, AlwaysEvidenceInv, PTL

\* No step drops evidence without appending it to the history, and none cuts
\* the history, however many tasks a reopened one takes along.
THEOREM EvidenceIsNeverLost == Spec => EvidenceIsArchived
<1>1. EvidenceInv /\ [Next]_vars =>
        [\A t \in Tasks :
           \/ EvidenceKept(tasks[t], tasks'[t])
           \/ \E a \in Approvals :
                tasks'[t].archive = Append(tasks[t].archive, Archived(tasks[t], a))]_vars
  BY NextKeeps DEF AllArchive, Archives
<1> QED
  BY <1>1, AlwaysEvidenceInv, PTL DEF Spec, EvidenceIsArchived

-----------------------------------------------------------------------------
(* II. The worker. Every step is one of the service's steps or none.         *)

\* Where the worker is inside integrate, the task is integrating or its lease
\* was taken away.
Integrate == {"integrating", "committed", "checked", "merged", "verified",
              "failed", "threw"}
StillIntegrating(t) == tasks[t].status = "integrating" \/ tasks[t].owner = Nobody
InFlight ==
  \/ run = Idle
  \/ /\ run \in Run /\ run.task \in Tasks
     /\ run.step \in Integrate => StillIntegrating(run.task)

LEMMA PlainIsAlwaysSaid ==
  ASSUME NEW r
  PROVE  "plain" \in InterruptNotes(r)
  <1>1. CASE Implementing(r)
    BY <1>1, EditLimitAssumption DEF InterruptNotes
  <1>2. CASE ~Implementing(r) /\ r.status = "integrating"
    BY <1>2, EditLimitAssumption DEF InterruptNotes
  <1>3. CASE ~Implementing(r) /\ r.status # "integrating"
    BY <1>3, EditLimitAssumption DEF InterruptNotes
  <1> QED BY <1>1, <1>2, <1>3

LEMMA IntegrationIsSaidWhenIntegrating ==
  ASSUME NEW r, r.status = "integrating"
  PROVE  "integration" \in InterruptNotes(r)
  <1>1. ~Implementing(r) BY DEF Implementing
  <1> QED BY <1>1, EditLimitAssumption DEF InterruptNotes

LEMMA StoppingIsAStep ==
  ASSUME NEW w \in Workers, NEW t \in Tasks,
         NEW class \in {Nobody, "implementation"}, NEW note \in {"plain", "integration"},
         Stops(w, t, class, note),
         note = "integration" => StillIntegrating(t)
  PROVE  UNCHANGED vars \/ WorkerStep(t, w)
  <1>1. CASE Interrupt(t, w, class, note)
    <2>1. tasks[t].owner # Nobody
      BY <1>1, ConstantsAssumption DEF Interrupt, Owns
    <2>2. note \in InterruptNotes(tasks[t])
      <3>1. CASE note = "plain" BY <3>1, PlainIsAlwaysSaid
      <3>2. CASE note = "integration"
        <4>1. tasks[t].status = "integrating" BY <2>1, <3>2 DEF StillIntegrating
        <4> QED BY <4>1, <3>2, IntegrationIsSaidWhenIntegrating
      <3> QED BY <3>1, <3>2
    <2> QED BY <1>1, <2>2 DEF WorkerStep
  <1>2. CASE UNCHANGED vars BY <1>2
  <1> QED BY <1>1, <1>2 DEF Stops

LEMMA StoppingPlainlyIsAStep ==
  ASSUME NEW w \in Workers, NEW t \in Tasks,
         NEW class \in {Nobody, "implementation"}, Stops(w, t, class, "plain")
  PROVE  UNCHANGED vars \/ WorkerStep(t, w)
  BY StoppingIsAStep

\* A step of the tick is one of the service's worker steps on its task, or none.
LEMMA ProgressIsAWorkerStep ==
  ASSUME InFlight, WorkerProgress
  PROVE  UNCHANGED vars \/ \E w \in Workers : WorkerStep(run.task, w)
  <1> DEFINE t == run.task
  <1>1. t \in Tasks BY DEF InFlight, WorkerProgress
  <1>2. run.step \in Integrate => StillIntegrating(t)
    BY DEF InFlight, WorkerProgress
  <1> HIDE DEF t
  <1>3. ASSUME NEW w \in Workers, WorkerStep(t, w)
        PROVE  UNCHANGED vars \/ \E v \in Workers : WorkerStep(t, v)
    BY <1>3
  <1>4. CASE UNCHANGED vars BY <1>4
  <1>w. ASSUME NEW w \in Workers,
               \/ StartImplementation(w) \/ FinishImplementation(w) \/ FailImplementation(w)
               \/ SkipImplementation(w) \/ Validate(w) \/ Assess(w) \/ ReviewTask(w)
               \/ CommitWork(w) \/ ValidateCommit(w) \/ Merge(w) \/ Revert(w)
               \/ RecordDelivery(w) \/ RecordRefused(w)
        PROVE  UNCHANGED vars \/ \E v \in Workers : WorkerStep(t, v)
    <2>s. ASSUME NEW class \in {Nobody, "implementation"}, Stops(w, t, class, "plain")
          PROVE  UNCHANGED vars \/ \E v \in Workers : WorkerStep(t, v)
      BY <1>1, <2>s, StoppingPlainlyIsAStep
    <2>i. ASSUME run.step \in Integrate, Stops(w, t, "implementation", "integration")
          PROVE  UNCHANGED vars \/ \E v \in Workers : WorkerStep(t, v)
      BY <1>1, <1>2, <2>i, StoppingIsAStep
    <2>1. CASE StartImplementation(w)
      BY <2>1, <2>s, <1>4 DEF StartImplementation, t
    <2>2. CASE FinishImplementation(w)
      BY <2>2, <1>3 DEF FinishImplementation, WorkerStep, t
    <2>3. CASE FailImplementation(w)
      BY <2>3, <1>3 DEF FailImplementation, WorkerStep, t
    <2>4. CASE SkipImplementation(w)
      BY <2>4, <1>3 DEF SkipImplementation, WorkerStep, t
    <2>5. CASE Validate(w)
      BY <2>5, <2>s, <1>3 DEF Validate, WorkerStep, t
    <2>6. CASE Assess(w)
      BY <2>6, <1>3 DEF Assess, WorkerStep, t
    <2>7. CASE ReviewTask(w)
      BY <2>7, <2>s, <1>3 DEF ReviewTask, WorkerStep, t
    <2>8. CASE CommitWork(w)
      BY <2>8, <2>i, <1>4 DEF CommitWork, Integrate, t
    <2>9. CASE ValidateCommit(w)
      BY <2>9, <2>i, <2>s, <1>4 DEF ValidateCommit, Integrate, t
    <2>10. CASE Merge(w)
      BY <2>10, <2>s, <1>4 DEF Merge, t
    <2>11. CASE Revert(w)
      BY <2>11, <2>i, <2>s, <1>4 DEF Revert, Integrate, t
    <2>12. CASE RecordDelivery(w)
      BY <2>12, <1>3 DEF RecordDelivery, WorkerStep, t
    <2>13. CASE RecordRefused(w)
      BY <2>13, <2>s DEF RecordRefused, t
    <2> QED BY <1>w, <2>1, <2>2, <2>3, <2>4, <2>5, <2>6, <2>7, <2>8, <2>9, <2>10,
               <2>11, <2>12, <2>13
  <1>5. CASE ValidateRoot BY <1>5, <1>4 DEF ValidateRoot
  <1>6. CASE LoseLease BY <1>6, <1>4 DEF LoseLease
  <1> QED BY <1>w, <1>5, <1>6 DEF WorkerProgress, t

LEMMA StepIsAServiceStep ==
  ASSUME InFlight, [IntegrationNext]_integrationVars PROVE [Next]_vars
  <1>1. ASSUME NEW w \in Workers, NEW p \in Candidates, ClaimTask(w, p)
        PROVE  [Next]_vars
    BY <1>1 DEF ClaimTask, Next
  <1>2. ASSUME NEW w \in Workers, HeartbeatRun(w) PROVE [Next]_vars
    BY <1>2 DEF HeartbeatRun, InFlight, Next, WorkerStep
  <1>3. CASE WorkerProgress
    BY <1>3, ProgressIsAWorkerStep DEF Next, InFlight, WorkerProgress
  <1>4. CASE Restart BY <1>4 DEF Restart
  <1>5. CASE Reconcile BY <1>5 DEF Reconcile, Next
  <1>6. CASE Clock BY <1>6 DEF Clock, Next
  <1>7. ASSUME NEW t \in Tasks, VerifyRepair(t) PROVE [Next]_vars
    BY <1>7 DEF VerifyRepair
  <1>8. ASSUME NEW t \in Tasks, OwnerDecides(t) PROVE [Next]_vars
    <2>1. OwnerStep(t) BY <1>8 DEF OwnerDecides, OwnerStep, Recover
    <2> QED BY <2>1 DEF Next
  <1>9. CASE EditCanonical BY <1>9 DEF EditCanonical
  <1>10. CASE DiscardEdits BY <1>10 DEF DiscardEdits
  <1>11. CASE UNCHANGED integrationVars BY <1>11 DEF integrationVars, vars
  <1> QED BY <1>1, <1>2, <1>3, <1>4, <1>5, <1>6, <1>7, <1>8, <1>9, <1>10, <1>11
          DEF IntegrationNext

-----------------------------------------------------------------------------
(* What the owner, the clock and the heartbeat leave of a task.             *)

LEMMA OwnerRequeues ==
  ASSUME TypeOK, NEW u \in Tasks, OwnerStep(u), NEW t \in Tasks
  PROVE  tasks'[t] = tasks[t] \/ (tasks'[t].status = "queued" /\ tasks'[t].owner = Nobody)
  <1>t. tasks[t] \in Task /\ tasks[u] \in Task BY TaskType
  <1>c. {"implementation", "product_decision", Nobody} \subseteq FailureClasses \cup {Nobody}
    BY DEF FailureClasses
  <1>1. ASSUME NEW a \in Approvals, AuthorizeCompletedRepair(u, a)
        PROVE  tasks'[t] = tasks[t] \/ (tasks'[t].status = "queued" /\ tasks'[t].owner = Nobody)
    <2>1. tasks'[t] \in {Reopened(tasks[t], a, "implementation"),
                         Reopened(tasks[t], a, Nobody), Erased(tasks[t], Nobody), tasks[t]}
      BY <1>1 DEF AuthorizeCompletedRepair, StoreProjected
    <2> QED BY <2>1, <1>t, <1>c, ErasedFields
  <1>2. ASSUME NEW a \in Approvals, AuthorizeReviewRepair(u, a)
        PROVE  tasks'[t] = tasks[t] \/ (tasks'[t].status = "queued" /\ tasks'[t].owner = Nobody)
    <2>1. /\ tasks'[u] = Reopened(tasks[u], a, "product_decision")
          /\ t # u => tasks'[t] = tasks[t]
      BY <1>2, Replaced DEF AuthorizeReviewRepair
    <2> QED BY <2>1, <1>t, <1>c, ErasedFields
  <1>q. ASSUME NEW r, r.status = "queued", r.owner = Nobody,
               tasks' = [tasks EXCEPT ![u] = r]
        PROVE  tasks'[t] = tasks[t] \/ (tasks'[t].status = "queued" /\ tasks'[t].owner = Nobody)
    <2>1. tasks'[u] = r /\ (t # u => tasks'[t] = tasks[t]) BY <1>q DEF TypeOK
    <2> QED BY <1>q, <2>1
  <1>3. CASE AuthorizeEnvironmentRetry(u)
    <2> DEFINE r == [tasks[u] EXCEPT !.status = "queued", !.provider = Nobody, !.note = "plain"]
    <2>1. tasks' = [tasks EXCEPT ![u] = r]
      BY <1>3 DEF AuthorizeEnvironmentRetry, StoreProjected, Replace
    <2>2. tasks[u].owner = Nobody
      BY <1>3 DEF AuthorizeEnvironmentRetry, EnvironmentRetryAllowed, Leased
    <2>3. r.status = "queued" /\ r.owner = Nobody BY <2>2, <1>t DEF Task
    <2> HIDE DEF r
    <2> QED BY <2>1, <2>3, <1>q
  <1>4. CASE AuthorizeQuarantineRecovery(u)
    <2> DEFINE r == [tasks[u] EXCEPT !.status = "queued", !.provider = Nobody,
                                     !.recovered = TRUE, !.note = "plain"]
    <2>1. tasks' = [tasks EXCEPT ![u] = r]
      BY <1>4 DEF AuthorizeQuarantineRecovery, StoreProjected, Replace
    <2>2. tasks[u].owner = Nobody
      BY <1>4 DEF AuthorizeQuarantineRecovery, QuarantineRecoveryAllowed, Leased
    <2>3. r.status = "queued" /\ r.owner = Nobody BY <2>2, <1>t DEF Task
    <2> HIDE DEF r
    <2> QED BY <2>1, <2>3, <1>q
  <1> QED BY <1>1, <1>2, <1>3, <1>4 DEF OwnerStep

\* The steps that come between a tick's own.
Between ==
  \/ \E u \in Tasks, w \in Workers : Heartbeat(u, w)
  \/ Tick
  \/ \E u \in Tasks : OwnerStep(u)
  \/ UNCHANGED vars

LEMMA BetweenKeeps ==
  ASSUME TypeOK, Between, NEW t \in Tasks
  PROVE  /\ StillIntegrating(t) => StillIntegrating(t)'
         /\ tasks'[t].status = "reviewing" => tasks[t].status = "reviewing"
  <1>1. ASSUME NEW u \in Tasks, NEW w \in Workers, Heartbeat(u, w)
        PROVE  tasks'[t].status = tasks[t].status /\ tasks'[t].owner = tasks[t].owner
    <2>1. /\ tasks'[u] = [tasks[u] EXCEPT !.ttl = LeaseTicks]
          /\ t # u => tasks'[t] = tasks[t]
      BY <1>1, Replaced DEF Heartbeat
    <2> QED BY <2>1, TaskType DEF Task
  <1>2. CASE Tick
    <2>1. /\ tasks'[t].status = tasks[t].status /\ tasks'[t].owner = tasks[t].owner
      BY <1>2, TaskType DEF Tick, Task
    <2> QED BY <2>1 DEF StillIntegrating
  <1>3. ASSUME NEW u \in Tasks, OwnerStep(u)
        PROVE  tasks'[t] = tasks[t] \/ (tasks'[t].status = "queued" /\ tasks'[t].owner = Nobody)
    BY <1>3, OwnerRequeues
  <1>4. CASE UNCHANGED vars BY <1>4 DEF vars, StillIntegrating
  <1>5. CASE \E u \in Tasks : OwnerStep(u) BY <1>5, <1>3 DEF StillIntegrating
  <1>6. CASE \E u \in Tasks, w \in Workers : Heartbeat(u, w)
    BY <1>6, <1>1 DEF StillIntegrating
  <1> QED BY <1>2, <1>4, <1>5, <1>6 DEF Between

LEMMA InFlightNext ==
  ASSUME TypeOK, InFlight, [IntegrationNext]_integrationVars PROVE InFlight'
  <1>1. ASSUME run' = run, Between PROVE InFlight'
    BY <1>1, BetweenKeeps DEF InFlight
  <1>2. ASSUME run # Idle, run' \in Run, run'.task = run.task, run'.step \notin Integrate PROVE InFlight'
    BY <1>2 DEF InFlight
  <1>3. ASSUME run # Idle, run' \in Run, run'.task = run.task,
               run.step \in Integrate, UNCHANGED vars
        PROVE  InFlight'
    BY <1>3 DEF InFlight, StillIntegrating, vars
  <1>4. CASE run' = Idle BY <1>4 DEF InFlight
  <1>r. run # Idle => run \in Run /\ run.task \in Tasks BY DEF InFlight
  <1>f. \A t \in Tasks : Begun(t) \in Run BY DEF Begun, Run, Steps
  <1>i. Idle.step = "idle" BY DEF Idle
  <1>c. ASSUME NEW w \in Workers, NEW p \in Candidates, ClaimTask(w, p) PROVE InFlight'
    <2>1. PICK t \in Tasks : run' = Begun(t) BY <1>c DEF ClaimTask
    <2> QED BY <2>1, <1>f DEF InFlight, Begun, Integrate
  <1>h. ASSUME NEW w \in Workers, HeartbeatRun(w) PROVE InFlight'
    BY <1>h, <1>r, <1>1 DEF HeartbeatRun, Between
  <1>p. CASE WorkerProgress
    <2>r. run # Idle BY <1>p DEF WorkerProgress
    <2>t. \A s \in Steps : To(s) => run' \in Run /\ run'.task = run.task /\ run'.step = s
      BY <2>r, <1>r DEF To, Run
    <2>s. ASSUME NEW w \in Workers, NEW class, NEW note, Stops(w, run.task, class, note)
          PROVE  InFlight'
      BY <2>s, <1>4 DEF Stops
    <2>w. ASSUME NEW w \in Workers,
                 \/ StartImplementation(w) \/ FinishImplementation(w) \/ FailImplementation(w)
                 \/ SkipImplementation(w) \/ Validate(w) \/ Assess(w) \/ ReviewTask(w)
                 \/ CommitWork(w) \/ ValidateCommit(w) \/ Merge(w) \/ Revert(w)
                 \/ RecordDelivery(w) \/ RecordRefused(w)
          PROVE  InFlight'
      <3>1. CASE StartImplementation(w)
        BY <3>1, <2>r, <2>t, <2>s, <1>2 DEF StartImplementation, Integrate, Steps
      <3>2. CASE FinishImplementation(w)
        BY <3>2, <2>r, <2>t, <1>2 DEF FinishImplementation, Integrate, Steps
      <3>3. CASE FailImplementation(w) BY <3>3, <1>4 DEF FailImplementation
      <3>4. CASE SkipImplementation(w)
        BY <3>4, <2>r, <1>r, <1>2 DEF SkipImplementation, Integrate
      <3>5. CASE Validate(w)
        BY <3>5, <2>r, <2>t, <2>s, <1>2 DEF Validate, Integrate, Steps
      <3>6. CASE Assess(w)
        BY <3>6, <1>r, <2>r, <1>f, <1>4 DEF Assess, InFlight, Begun, Integrate
      <3>7. CASE ReviewTask(w)
        BY <3>7, <1>r, <2>r, <2>t, <2>s, <1>4 DEF ReviewTask, InFlight, StillIntegrating, Steps
      <3>8. CASE CommitWork(w)
        BY <3>8, <2>r, <1>r, <2>s, <1>3 DEF CommitWork, Integrate, Run, Steps
      <3>9. CASE ValidateCommit(w)
        BY <3>9, <2>r, <2>t, <2>s, <1>3 DEF ValidateCommit, Integrate, Steps
      <3>10. CASE Merge(w)
        BY <3>10, <2>r, <2>t, <2>s, <1>3 DEF Merge, Integrate, Steps
      <3>11. CASE Revert(w) BY <3>11, <2>s DEF Revert
      <3>12. CASE RecordDelivery(w) BY <3>12, <1>4 DEF RecordDelivery
      <3>13. CASE RecordRefused(w) BY <3>13, <2>s DEF RecordRefused
      <3> QED BY <2>w, <3>1, <3>2, <3>3, <3>4, <3>5, <3>6, <3>7, <3>8, <3>9, <3>10,
                 <3>11, <3>12, <3>13
    <2>v. CASE ValidateRoot BY <2>v, <2>r, <2>t, <1>3 DEF ValidateRoot, Integrate, Steps
    <2>l. CASE LoseLease BY <2>l, <1>4 DEF LoseLease
    <2> QED BY <1>p, <2>w, <2>v, <2>l DEF WorkerProgress
  <1>b. ASSUME NEW t \in Tasks, VerifyRepair(t) PROVE InFlight'
    BY <1>b, <1>1 DEF VerifyRepair, Between
  <1>o. ASSUME NEW t \in Tasks, OwnerDecides(t) PROVE InFlight'
    <2>1. OwnerStep(t) BY <1>o DEF OwnerDecides, OwnerStep, Recover
    <2> QED BY <2>1, <1>o, <1>1 DEF OwnerDecides, Between
  <1> QED BY <1>c, <1>h, <1>p, <1>b, <1>o, <1>1, <1>4
    DEF IntegrationNext, Restart, Reconcile, Clock, EditCanonical, DiscardEdits,
        integrationVars, Between, vars

LEMMA InitInFlight == IntegrationInit => Init /\ TypeOK /\ InFlight
  <1> SUFFICES ASSUME IntegrationInit PROVE Init /\ TypeOK /\ InFlight OBVIOUS
  <1>1. Init /\ run = Idle BY DEF IntegrationInit
  <1> QED BY <1>1, InitType DEF InFlight

LEMMA NextInFlight ==
  TypeOK /\ InFlight /\ [IntegrationNext]_integrationVars
    => TypeOK' /\ InFlight' /\ [Next]_vars
  <1> SUFFICES ASSUME TypeOK, InFlight, [IntegrationNext]_integrationVars
               PROVE  TypeOK' /\ InFlight' /\ [Next]_vars
    OBVIOUS
  <1>1. [Next]_vars BY StepIsAServiceStep
  <1>2. TypeOK' BY <1>1, TypeNext
  <1> QED BY <1>1, <1>2, InFlightNext

\* The worker, its repository and the process that restarts call the service
\* in no state and with no argument ProjectExecution leaves out: every
\* behaviour of the running worker is one of the service's.
THEOREM WorkerUsesTheService == IntegrationSpec => UsesTheServiceAsModelled
  <1>1. IntegrationInit => Init /\ TypeOK /\ InFlight BY InitInFlight
  <1>2. TypeOK /\ InFlight /\ [IntegrationNext]_integrationVars
          => TypeOK' /\ InFlight' /\ [Next]_vars
    BY NextInFlight
  <1> QED BY <1>1, <1>2, PTL DEF IntegrationSpec, Spec, UsesTheServiceAsModelled

-----------------------------------------------------------------------------
(* What is merged sits on the commit it was validated on.                   *)

\* A history is a sequence, and it begins with a commit of the owner's.
History ==
  /\ HeadCommit \in Nat \ {0}
  /\ branch = [i \in 1..HeadCommit |-> branch[i]]
  /\ ChangesSitOnTheirBaseline

LEMMA AppendedHistory ==
  ASSUME History, NEW c, branch' = Append(branch, c),
         c.by # NoTask /\ c.undoes = 0 => c.on = HeadCommit
  PROVE  History'
  <1> DEFINE n == HeadCommit
  <1>1. n \in Nat \ {0} /\ branch = [i \in 1..n |-> branch[i]] BY DEF History
  <1>2. Len(branch) = n BY DEF HeadCommit
  <1>3. branch' = [i \in 1..(n + 1) |-> IF i = n + 1 THEN c ELSE branch[i]]
    BY <1>1, <1>2
  <1>4. Len(branch') = n + 1 BY <1>1, <1>3
  <1>5. \A i \in 1..n : branch'[i] = branch[i] BY <1>1, <1>3
  <1>6. branch'[n + 1] = c BY <1>1, <1>3
  <1>7. \A i \in 1..n : ChangeAt(i) => branch[i].on = i - 1
    BY DEF History, ChangesSitOnTheirBaseline
  <1>8. ASSUME NEW i \in 1..(n + 1), branch'[i].by # NoTask, branch'[i].undoes = 0
        PROVE  branch'[i].on = i - 1
    <2>1. CASE i = n + 1 BY <2>1, <1>1, <1>2, <1>6, <1>8
    <2>2. CASE i # n + 1
      <3>1. i \in 1..n BY <2>2, <1>1
      <3> QED BY <3>1, <1>5, <1>7, <1>8 DEF ChangeAt
    <2> QED BY <2>1, <2>2
  <1>9. branch' = [i \in 1..(n + 1) |-> branch'[i]] BY <1>3
  <1>10. HeadCommit' = n + 1 BY <1>4 DEF HeadCommit
  <1>11. ChangesSitOnTheirBaseline' BY <1>8, <1>10 DEF ChangesSitOnTheirBaseline, ChangeAt
  <1> QED BY <1>1, <1>9, <1>10, <1>11 DEF History

LEMMA OutsideHistory ==
  ASSUME History, branch' = Append(branch, OutsideCommit) PROVE History'
  <1>1. OutsideCommit.by = NoTask BY DEF OutsideCommit
  <1> QED BY <1>1, AppendedHistory

LEMMA BaselineHistory == ASSUME History, branch' = Baseline PROVE History'
  <1>1. CASE dirt = "owned" BY <1>1, OutsideHistory DEF Baseline
  <1>2. CASE dirt # "owned"
    BY <1>2 DEF Baseline, History, HeadCommit, ChangesSitOnTheirBaseline, ChangeAt
  <1> QED BY <1>1, <1>2

LEMMA MergedHistory ==
  ASSUME History, NEW w \in Workers, Merge(w), branch' # branch PROVE History'
  <1> DEFINE t == run.task
             c == [by |-> t, on |-> active[t], undoes |-> 0,
                   rejected |-> worktrees[t][active[t]].rejected]
  <1>1. branch' = Append(branch, c) /\ active[t] = HeadCommit BY DEF Merge, Merged
  <1>2. c.on = active[t] OBVIOUS
  <1> HIDE DEF c
  <1> QED BY <1>1, <1>2, AppendedHistory

LEMMA RevertedHistory ==
  ASSUME History, NEW w \in Workers, Revert(w), branch' # branch PROVE History'
  <1> DEFINE t == run.task
             c == [OutsideCommit EXCEPT !.by = t, !.undoes = Delivered(t)]
  <1>1. branch' = Append(branch, c) /\ HeadCommit = Delivered(t)
    BY DEF Revert, Reverted
  <1>2. c.undoes = Delivered(t) BY DEF OutsideCommit
  <1>3. c.undoes # 0 BY <1>1, <1>2 DEF History
  <1> HIDE DEF c
  <1> QED BY <1>1, <1>3, AppendedHistory

LEMMA NextHistory == History /\ [IntegrationNext]_integrationVars => History'
  <1> SUFFICES ASSUME History, [IntegrationNext]_integrationVars PROVE History'
    OBVIOUS
  <1>1. CASE branch' = branch
    BY <1>1 DEF History, HeadCommit, ChangesSitOnTheirBaseline, ChangeAt
  <1>2. ASSUME NEW w \in Workers,
               \/ FinishImplementation(w) \/ FailImplementation(w)
               \/ SkipImplementation(w) \/ Validate(w) \/ Assess(w) \/ ReviewTask(w)
               \/ CommitWork(w) \/ ValidateCommit(w)
               \/ RecordDelivery(w) \/ RecordRefused(w) \/ HeartbeatRun(w)
        PROVE  branch' = branch
    BY <1>2 DEF FinishImplementation, FailImplementation, Applies, SkipImplementation,
                Validate, Assess, ReviewTask, CommitWork, ValidateCommit,
                RecordDelivery, RecordRefused, HeartbeatRun, disk, canonical
  <1>3. ASSUME NEW w \in Workers, StartImplementation(w) PROVE History'
    BY <1>3, <1>1, BaselineHistory DEF StartImplementation, Prepares, canonical
  <1>4. CASE WorkerProgress
    <2>1. CASE ValidateRoot \/ LoseLease
      BY <2>1, <1>1 DEF ValidateRoot, LoseLease, disk, canonical
    <2> QED BY <2>1, <1>4, <1>1, <1>2, <1>3, MergedHistory, RevertedHistory
            DEF WorkerProgress
  <1>5. ASSUME NEW t \in Tasks, VerifyRepair(t) PROVE History'
    BY <1>5, BaselineHistory DEF VerifyRepair, Prepares
  <1>6. CASE EditCanonical BY <1>6, <1>1, OutsideHistory DEF EditCanonical
  <1>7. CASE \/ \E w \in Workers, p \in Candidates : ClaimTask(w, p)
             \/ Restart \/ Reconcile \/ Clock \/ DiscardEdits
             \/ \E t \in Tasks : OwnerDecides(t)
             \/ UNCHANGED integrationVars
    BY <1>7, <1>1 DEF ClaimTask, Restart, Reconcile, Clock, DiscardEdits, OwnerDecides,
                      disk, canonical, integrationVars
  <1> QED BY <1>1, <1>2, <1>4, <1>5, <1>6, <1>7 DEF IntegrationNext

\* Every task's change on the branch has the baseline its worktree was cut
\* from, and its commit was validated on, as its direct predecessor, whatever
\* the owner, Codkesh and earlier reverts committed in between: for any number
\* of tasks, edits and restarts.
THEOREM MergesAreValidatedInPlace == IntegrationSpec => []ChangesSitOnTheirBaseline
  <1>1. IntegrationInit => History
    BY DEF IntegrationInit, History, HeadCommit, ChangesSitOnTheirBaseline, ChangeAt,
           OutsideCommit, NoTask
  <1>2. History => ChangesSitOnTheirBaseline BY DEF History
  <1> QED BY <1>1, <1>2, NextHistory, PTL DEF IntegrationSpec

-----------------------------------------------------------------------------
(* The repository, the worktrees and the tick have their types, and a step  *)
(* that needs a workspace has one.                                          *)

Branched == branch \in Seq(Commit) /\ HeadCommit # 0
Trees ==
  /\ worktrees = [t \in Tasks |-> worktrees[t]]
  /\ \A t \in Tasks : /\ DOMAIN worktrees[t] \subseteq 1..HeadCommit
                      /\ \A b \in DOMAIN worktrees[t] : worktrees[t][b] \in Worktree
Located ==
  /\ active \in [Tasks -> Nat]
  /\ \A t \in Tasks : active[t] \in DOMAIN worktrees[t] \cup {0}
Places == Branched /\ Trees /\ Located

\* Past its first step a tick has a workspace, and reviews follow validations
\* that had one.
HasWorkspace ==
  run # Idle =>
    /\ run.step # "working" => active[run.task] # 0
    /\ run.step = "working" /\ tasks[run.task].status = "reviewing"
         => active[run.task] # 0

TypedRun ==
  /\ run \in Run /\ (run # Idle => run.task \in Tasks)
  /\ dirt \in {"clean", "owned", "foreign"} /\ edits \in 0..EditLimit

LEMMA FreshIsAWorktree ==
  /\ FreshWorktree \in Worktree
  /\ ~FreshWorktree.rejected
  BY DEF FreshWorktree, Worktree

LEMMA Grown ==
  ASSUME Branched, NEW c \in Commit, branch' = Append(branch, c)
  PROVE  Branched' /\ HeadCommit \in Nat /\ HeadCommit' = HeadCommit + 1
  BY DEF Branched, HeadCommit

LEMMA Same ==
  ASSUME Branched, branch' = branch
  PROVE  Branched' /\ HeadCommit \in Nat /\ HeadCommit' = HeadCommit
  BY DEF Branched, HeadCommit

LEMMA OutsideIsACommit == OutsideCommit \in Commit
  BY DEF OutsideCommit, Commit, NoTask

LEMMA BaselineGrown ==
  ASSUME Branched, branch' = Baseline
  PROVE  /\ Branched' /\ HeadCommit \in Nat /\ HeadCommit' \in Nat \ {0}
         /\ HeadCommit <= HeadCommit' /\ HeadCommit' = Len(Baseline)
  <1>1. CASE dirt = "owned"
    BY <1>1, Grown, OutsideIsACommit DEF Baseline, HeadCommit
  <1>2. CASE dirt # "owned" BY <1>2, Same DEF Baseline, HeadCommit, Branched
  <1> QED BY <1>1, <1>2

LEMMA SetTrees ==
  ASSUME Trees, HeadCommit \in Nat, HeadCommit' \in Nat, HeadCommit <= HeadCommit',
         NEW t \in Tasks, NEW b, NEW wt \in Worktree, SetWorktree(t, b, wt)
  PROVE  /\ b \in 1..HeadCommit' => Trees'
         /\ DOMAIN worktrees'[t] = DOMAIN worktrees[t] \cup {b}
         /\ worktrees'[t][b] = wt
         /\ \A c \in DOMAIN worktrees[t] : c # b => worktrees'[t][c] = worktrees[t][c]
         /\ \A u \in Tasks : u # t => worktrees'[u] = worktrees[u]
  <1>1. worktrees' = [u \in Tasks |->
          IF u = t THEN [c \in DOMAIN worktrees[t] \cup {b} |->
                           IF c = b THEN wt ELSE worktrees[t][c]]
          ELSE worktrees[u]]
    BY DEF SetWorktree, Trees
  <1>2. worktrees'[t] = [c \in DOMAIN worktrees[t] \cup {b} |->
                           IF c = b THEN wt ELSE worktrees[t][c]]
    BY <1>1
  <1>3. \A u \in Tasks : u # t => worktrees'[u] = worktrees[u] BY <1>1
  <1>4. DOMAIN worktrees'[t] = DOMAIN worktrees[t] \cup {b} BY <1>2
  <1>5. worktrees'[t][b] = wt BY <1>2
  <1>6. \A c \in DOMAIN worktrees[t] : c # b => worktrees'[t][c] = worktrees[t][c]
    BY <1>2
  <1>7. ASSUME b \in 1..HeadCommit' PROVE Trees'
    <2>1. worktrees' = [u \in Tasks |-> worktrees'[u]] BY <1>1
    <2>2. ASSUME NEW u \in Tasks
          PROVE  /\ DOMAIN worktrees'[u] \subseteq 1..HeadCommit'
                 /\ \A c \in DOMAIN worktrees'[u] : worktrees'[u][c] \in Worktree
      <3>1. /\ DOMAIN worktrees[u] \subseteq 1..HeadCommit
            /\ \A c \in DOMAIN worktrees[u] : worktrees[u][c] \in Worktree
        BY DEF Trees
      <3>2. 1..HeadCommit \subseteq 1..HeadCommit' OBVIOUS
      <3>3. CASE u = t BY <3>1, <3>2, <3>3, <1>4, <1>5, <1>6, <1>7
      <3>4. CASE u # t BY <3>1, <3>2, <3>4, <1>3
      <3> QED BY <3>3, <3>4
    <2> QED BY <2>1, <2>2 DEF Trees
  <1> QED BY <1>3, <1>4, <1>5, <1>6, <1>7

LEMMA KeptTrees ==
  ASSUME Trees, HeadCommit \in Nat, HeadCommit' \in Nat, HeadCommit <= HeadCommit',
         worktrees' = worktrees
  PROVE  Trees'
  <1>1. 1..HeadCommit \subseteq 1..HeadCommit' OBVIOUS
  <1> QED BY <1>1 DEF Trees

\* A branch that only grew, with the same worktrees and the same knowledge.
LEMMA BranchMoves ==
  ASSUME Places, NEW c \in Commit, branch' \in {branch, Append(branch, c)},
         worktrees' = worktrees, active' = active
  PROVE  Places' /\ HeadCommit \in Nat /\ HeadCommit' \in {HeadCommit, HeadCommit + 1}
  <1>1. /\ Branched' /\ HeadCommit \in Nat /\ HeadCommit' \in {HeadCommit, HeadCommit + 1}
    BY Grown, Same DEF Places
  <1>2. Trees' BY <1>1, KeptTrees DEF Places
  <1> QED BY <1>1, <1>2 DEF Places, Located

\* The current worktree of a task that has one is changed in place.
LEMMA WorktreeChanges ==
  ASSUME Places, NEW t \in Tasks, active[t] # 0, NEW wt \in Worktree,
         SetWorktree(t, active[t], wt), branch' = branch, active' = active
  PROVE  Places'
  <1>1. Branched' /\ HeadCommit \in Nat /\ HeadCommit' = HeadCommit
    BY Same DEF Places
  <1>2. active[t] \in DOMAIN worktrees[t] /\ active[t] \in 1..HeadCommit'
    BY <1>1 DEF Places, Located, Trees
  <1>3. /\ Trees' /\ DOMAIN worktrees'[t] = DOMAIN worktrees[t] \cup {active[t]}
        /\ \A u \in Tasks : u # t => worktrees'[u] = worktrees[u]
    BY <1>1, <1>2, SetTrees DEF Places
  <1>4. Located' BY <1>2, <1>3 DEF Places, Located
  <1> QED BY <1>1, <1>3, <1>4 DEF Places

LEMMA WorktreePrepared ==
  ASSUME Places, NEW t \in Tasks, NEW reset \in BOOLEAN, Prepares(t, reset)
  PROVE  /\ Places' /\ active'[t] # 0
         /\ \A u \in Tasks : active[u] # 0 => active'[u] # 0
  <1> DEFINE b == Len(Baseline)
             wt == IF Known(t, b) /\ ~reset THEN worktrees[t][b] ELSE FreshWorktree
  <1>1. /\ Branched' /\ HeadCommit \in Nat /\ HeadCommit' \in Nat \ {0}
        /\ HeadCommit <= HeadCommit' /\ HeadCommit' = b
    BY BaselineGrown DEF Places, Prepares
  <1>2. wt \in Worktree BY FreshIsAWorktree DEF Known, Places, Trees
  <1>3. SetWorktree(t, b, wt) BY DEF Prepares
  <1> HIDE DEF wt, b
  <1>4. b \in 1..HeadCommit' BY <1>1
  <1>5. /\ Trees' /\ DOMAIN worktrees'[t] = DOMAIN worktrees[t] \cup {b}
        /\ \A u \in Tasks : u # t => worktrees'[u] = worktrees[u]
    BY <1>1, <1>2, <1>3, <1>4, SetTrees DEF Places
  <1>6. active' = [active EXCEPT ![t] = b] BY DEF Prepares, b
  <1>7. /\ active' \in [Tasks -> Nat] /\ active'[t] = b
        /\ \A u \in Tasks : u # t => active'[u] = active[u]
    BY <1>1, <1>6 DEF Places, Located
  <1>8. Located' BY <1>5, <1>7 DEF Places, Located
  <1> QED BY <1>1, <1>5, <1>7, <1>8 DEF Places

LEMMA MarkedWorktrees ==
  ASSUME Places, MarkRejected, branch' = branch, active' = active PROVE Places'
  <1>1. Branched' /\ HeadCommit' = HeadCommit BY Same DEF Places
  <1>2. worktrees' = [t \in Tasks |-> worktrees'[t]] BY DEF MarkRejected
  <1>3. ASSUME NEW t \in Tasks
        PROVE  /\ DOMAIN worktrees'[t] = DOMAIN worktrees[t]
               /\ \A b \in DOMAIN worktrees[t] : worktrees'[t][b] \in Worktree
    <2>1. \/ worktrees'[t] = [b \in DOMAIN worktrees[t] |->
               [worktrees[t][b] EXCEPT !.rejected = @ \/ worktrees[t][b].changed
                                                      \/ worktrees[t][b].head = "commit"]]
          \/ worktrees'[t] = worktrees[t]
      BY DEF MarkRejected
    <2>2. \A b \in DOMAIN worktrees[t] : worktrees[t][b] \in Worktree
      BY DEF Places, Trees
    <2>3. ASSUME NEW wt \in Worktree
          PROVE  [wt EXCEPT !.rejected = @ \/ wt.changed \/ wt.head = "commit"] \in Worktree
      <3>1. (wt.rejected \/ wt.changed \/ wt.head = "commit") \in BOOLEAN OBVIOUS
      <3> QED BY <3>1 DEF Worktree
    <2> QED BY <2>1, <2>2, <2>3
  <1>4. Trees' BY <1>1, <1>2, <1>3 DEF Places, Trees
  <1>5. Located' BY <1>3 DEF Places, Located
  <1> QED BY <1>1, <1>4, <1>5 DEF Places

LEMMA UnmovedPlaces ==
  ASSUME Places, UNCHANGED <<branch, worktrees, active>> PROVE Places'
  BY BranchMoves, OutsideIsACommit

LEMMA ForgottenPlaces ==
  ASSUME Places, UNCHANGED <<branch, worktrees>>,
         active' \in [Tasks -> Nat], \A t \in Tasks : active'[t] \in {0, active[t]}
  PROVE  Places'
  <1>1. Branched' /\ Trees' BY Same, KeptTrees DEF Places
  <1> QED BY <1>1 DEF Places, Located

LEMMA ProgressKeepsPlaces ==
  ASSUME InFlight, Places, HasWorkspace, WorkerProgress PROVE Places'
  <1> DEFINE t == run.task
  <1>r. run # Idle /\ run \in Run /\ t \in Tasks BY DEF InFlight, WorkerProgress
  <1>a. run.step \notin {"idle", "working"} => active[t] # 0 BY <1>r DEF HasWorkspace
  <1>w. \A b \in DOMAIN worktrees[t] : worktrees[t][b] \in Worktree
    BY <1>r DEF Places, Trees
  <1>b. active[t] # 0 => active[t] \in DOMAIN worktrees[t] /\ worktrees[t][active[t]] \in Worktree
    BY <1>r, <1>w DEF Places, Located
  <1>c. active[t] \in Nat BY <1>r DEF Places, Located
  <1>n. HeadCommit \in Nat BY Same DEF Places, Branched, HeadCommit
  <1> HIDE DEF t
  <1>s. ASSUME NEW changed \in BOOLEAN, active[t] # 0,
               SetWorktree(t, active[t], [worktrees[t][active[t]] EXCEPT !.changed = changed]),
               UNCHANGED <<branch, active>>
        PROVE  Places'
    <2>1. [worktrees[t][active[t]] EXCEPT !.changed = changed] \in Worktree
      BY <1>s, <1>b DEF Worktree
    <2> QED BY <2>1, <1>s, <1>r, WorktreeChanges
  <1>1. ASSUME NEW w \in Workers, StartImplementation(w) PROVE Places'
    <2>1. CASE UNCHANGED <<canonical, worktrees, active>>
      BY <2>1, UnmovedPlaces DEF canonical
    <2>2. CASE Prepares(t, Repairs(tasks[t]))
      <3>1. Repairs(tasks[t]) \in BOOLEAN BY DEF Repairs
      <3> QED BY <3>1, <2>2, <1>r, WorktreePrepared
    <2>3. CASE active' = [active EXCEPT ![t] = 0] /\ UNCHANGED <<canonical, worktrees>>
      <3>1. active' \in [Tasks -> Nat] /\ \A u \in Tasks : active'[u] \in {0, active[u]}
        BY <2>3, <1>r DEF Places, Located
      <3> QED BY <3>1, <2>3, ForgottenPlaces DEF canonical
    <2> QED BY <1>1, <2>1, <2>2, <2>3 DEF StartImplementation, t
  <1>2. ASSUME NEW w \in Workers, FinishImplementation(w) \/ FailImplementation(w)
        PROVE  Places'
    <2>1. run.step = "prepared" /\ \E changed \in BOOLEAN : Applies(t, changed)
      BY <1>2 DEF FinishImplementation, FailImplementation, t
    <2> QED BY <2>1, <1>a, <1>s DEF Applies, canonical
  <1>3. ASSUME NEW w \in Workers, CommitWork(w) PROVE Places'
    <2>1. CASE worktrees' = worktrees BY <2>1, <1>3, UnmovedPlaces DEF CommitWork, canonical
    <2>2. CASE worktrees' # worktrees
      <3>1. /\ SetWorktree(t, active[t], [worktrees[t][active[t]] EXCEPT !.head = "commit",
                                                                       !.changed = FALSE])
            /\ run.step = "integrating" /\ UNCHANGED <<branch, active>>
        BY <2>2, <1>3 DEF CommitWork, canonical, t
      <3>2. [worktrees[t][active[t]] EXCEPT !.head = "commit", !.changed = FALSE] \in Worktree
        BY <3>1, <1>a, <1>b DEF Worktree
      <3> QED BY <3>1, <3>2, <1>r, <1>a, WorktreeChanges
    <2> QED BY <2>1, <2>2
  <1>4. ASSUME NEW w \in Workers, Merge(w) PROVE Places'
    <2>1. CASE branch' = branch BY <2>1, <1>4, UnmovedPlaces DEF Merge
    <2>2. CASE branch' # branch
      <3> DEFINE c == [by |-> t, on |-> active[t], undoes |-> 0,
                       rejected |-> worktrees[t][active[t]].rejected]
      <3>1. branch' = Append(branch, c) /\ run.step = "checked" /\ UNCHANGED <<worktrees, active>>
        BY <2>2, <1>4 DEF Merge, Merged, t
      <3>2. c \in Commit BY <3>1, <1>a, <1>b, <1>c, <1>r DEF Commit, Worktree
      <3> QED BY <3>1, <3>2, BranchMoves
    <2> QED BY <2>1, <2>2
  <1>5. ASSUME NEW w \in Workers, Revert(w) PROVE Places'
    <2>1. CASE branch' = branch BY <2>1, <1>5, UnmovedPlaces DEF Revert
    <2>2. CASE branch' # branch
      <3> DEFINE c == [OutsideCommit EXCEPT !.by = t, !.undoes = Delivered(t)]
      <3>1. branch' = Append(branch, c) /\ UNCHANGED <<worktrees, active>>
        BY <2>2, <1>5 DEF Revert, Reverted, t
      <3>2. Delivered(t) \in Nat BY <1>c DEF Delivered
      <3>3. c \in Commit BY <3>2, <1>r, OutsideIsACommit DEF Commit
      <3> QED BY <3>1, <3>3, BranchMoves
    <2> QED BY <2>1, <2>2
  <1>6. CASE LoseLease
    <2>1. CASE worktrees' = worktrees BY <2>1, <1>6, UnmovedPlaces DEF LoseLease, canonical
    <2>2. CASE worktrees' # worktrees
      BY <2>2, <1>6, <1>a, <1>s DEF LoseLease, canonical, t
    <2> QED BY <2>1, <2>2
  <1>7. CASE \/ ValidateRoot
             \/ \E w \in Workers : \/ SkipImplementation(w) \/ Validate(w) \/ Assess(w)
                                   \/ ReviewTask(w) \/ ValidateCommit(w)
                                   \/ RecordDelivery(w) \/ RecordRefused(w)
    BY <1>7, UnmovedPlaces
       DEF ValidateRoot, SkipImplementation, Validate, Assess, ReviewTask, ValidateCommit,
           RecordDelivery, RecordRefused, disk, canonical
  <1> QED BY <1>1, <1>2, <1>3, <1>4, <1>5, <1>6, <1>7 DEF WorkerProgress

LEMMA PlacesNext ==
  ASSUME InFlight, Places, HasWorkspace, [IntegrationNext]_integrationVars PROVE Places'
  <1>1. CASE WorkerProgress BY <1>1, ProgressKeepsPlaces
  <1>2. CASE Restart
    <2>1. active' \in [Tasks -> Nat] /\ \A t \in Tasks : active'[t] = 0
      BY <1>2 DEF Restart
    <2> QED BY <2>1, <1>2, ForgottenPlaces DEF Restart, disk
  <1>3. ASSUME NEW t \in Tasks, VerifyRepair(t) PROVE Places'
    BY <1>3, WorktreePrepared DEF VerifyRepair
  <1>4. ASSUME NEW t \in Tasks, OwnerDecides(t) PROVE Places'
    BY <1>4, MarkedWorktrees DEF OwnerDecides, canonical
  <1>5. CASE EditCanonical
    BY <1>5, BranchMoves, OutsideIsACommit DEF EditCanonical
  <1>6. CASE \/ \E w \in Workers, p \in Candidates : ClaimTask(w, p)
             \/ \E w \in Workers : HeartbeatRun(w)
             \/ Reconcile \/ Clock \/ DiscardEdits \/ UNCHANGED integrationVars
    BY <1>6, UnmovedPlaces DEF ClaimTask, HeartbeatRun, Reconcile, Clock, DiscardEdits,
                               disk, integrationVars
  <1> QED BY <1>1, <1>2, <1>3, <1>4, <1>5, <1>6 DEF IntegrationNext

LEMMA ClaimedIsRunning ==
  ASSUME TypeOK, NEW w \in Workers, NEW p \in Candidates, Claim(w, p),
         NEW t \in Tasks, tasks'[t].owner # tasks[t].owner
  PROVE  tasks'[t].status = "running"
  <1>1. PICK u \in Tasks :
          tasks' = Replace(u, [tasks[u] EXCEPT !.status = "running", !.provider = p,
                                 !.owner = w, !.ttl = LeaseTicks, !.note = "plain"])
    BY DEF Claim, Store, EligibleTasks
  <1> DEFINE r == [tasks[u] EXCEPT !.status = "running", !.provider = p,
                     !.owner = w, !.ttl = LeaseTicks, !.note = "plain"]
  <1>2. r.status = "running" BY TaskType DEF Task
  <1>3. tasks' = Replace(u, r) BY <1>1
  <1> HIDE DEF r
  <1>4. t = u BY <1>3 DEF Replace, TypeOK
  <1>5. tasks'[u] = r BY <1>3 DEF Replace, TypeOK
  <1> QED BY <1>2, <1>4, <1>5

LEMMA ImplementedIsValidating ==
  ASSUME TypeOK, NEW w \in Workers, NEW t \in Tasks, RecordImplementation(t, w)
  PROVE  tasks'[t].status = "validating"
  BY TaskType, Replaced DEF RecordImplementation, Store, Replace, TypeOK, Task

LEMMA HasWorkspaceNext ==
  ASSUME TypeOK, InFlight, Places, HasWorkspace, [IntegrationNext]_integrationVars
  PROVE  HasWorkspace'
  <1> DEFINE t == run.task
  <1>r. run # Idle => run \in Run /\ t \in Tasks BY DEF InFlight
  <1>i. CASE run' = Idle BY <1>i DEF HasWorkspace
  <1>k. ASSUME run # Idle, active[t] # 0, active'[t] = active[t], run'.task = t
        PROVE  HasWorkspace'
    BY <1>k DEF HasWorkspace
  <1>b. ASSUME run' = run, Between, run # Idle => (active[t] # 0 => active'[t] # 0)
        PROVE  HasWorkspace'
    <2>1. run # Idle => (tasks'[t].status = "reviewing" => tasks[t].status = "reviewing")
      BY <1>b, <1>r, BetweenKeeps
    <2> QED BY <2>1, <1>b DEF HasWorkspace
  <1>n. ASSUME NEW u \in Tasks, run' = Begun(u), tasks'[u].status # "reviewing"
        PROVE  HasWorkspace'
    BY <1>n DEF HasWorkspace, Begun
  <1>c. ASSUME NEW w \in Workers, NEW p \in Candidates, ClaimTask(w, p) PROVE HasWorkspace'
    <2>1. PICK u \in Tasks : tasks'[u].owner # tasks[u].owner /\ run' = Begun(u)
      BY <1>c DEF ClaimTask
    <2>2. tasks'[u].status = "running" BY <2>1, <1>c, ClaimedIsRunning DEF ClaimTask
    <2> QED BY <2>1, <2>2, <1>n
  <1>h. ASSUME NEW w \in Workers, HeartbeatRun(w) PROVE HasWorkspace'
    BY <1>h, <1>r, <1>b DEF HeartbeatRun, Between, disk
  <1>p. CASE WorkerProgress
    <2>r. run # Idle /\ run \in Run /\ t \in Tasks BY <1>p, <1>r DEF WorkerProgress
    <2>t. \A s \in Steps : To(s) => run'.task = t /\ run'.step = s
      BY <2>r DEF To, Run
    <2>a. run.step # "working" => active[t] # 0 BY <2>r DEF HasWorkspace
    <2>v. run.step = "working" /\ tasks[t].status = "reviewing" => active[t] # 0
      BY <2>r DEF HasWorkspace
    <2>s. ASSUME NEW w \in Workers, NEW class, NEW note, Stops(w, t, class, note)
          PROVE  HasWorkspace'
      BY <2>s, <1>i DEF Stops
    <2>w. ASSUME NEW w \in Workers,
                 \/ StartImplementation(w) \/ FinishImplementation(w) \/ FailImplementation(w)
                 \/ SkipImplementation(w) \/ Validate(w) \/ Assess(w) \/ ReviewTask(w)
                 \/ CommitWork(w) \/ ValidateCommit(w) \/ Merge(w) \/ Revert(w)
                 \/ RecordDelivery(w) \/ RecordRefused(w)
          PROVE  HasWorkspace'
      <3>1. CASE StartImplementation(w)
        <4>1. CASE /\ ~(active[t] = 0 \/ Repairs(tasks[t]))
                   /\ To("prepared") /\ UNCHANGED <<vars, canonical, worktrees, active>>
          BY <4>1, <2>r, <2>t, <1>k DEF Steps
        <4>2. CASE Prepares(t, Repairs(tasks[t])) /\ To("prepared")
          <5>1. Repairs(tasks[t]) \in BOOLEAN BY DEF Repairs
          <5>2. active'[t] # 0 BY <5>1, <4>2, <2>r, WorktreePrepared
          <5> QED BY <5>2, <4>2, <2>t DEF HasWorkspace, Steps
        <4> QED BY <3>1, <4>1, <4>2, <2>s DEF StartImplementation
      <3>2. CASE FinishImplementation(w)
        BY <3>2, <2>r, <2>t, <2>a, <1>k DEF FinishImplementation, Applies, Steps
      <3>3. CASE FailImplementation(w) BY <3>3, <1>i DEF FailImplementation
      <3>4. CASE SkipImplementation(w)
        <4>1. tasks'[t].status = "validating"
          BY <3>4, <2>r, ImplementedIsValidating DEF SkipImplementation
        <4> QED BY <4>1, <3>4 DEF SkipImplementation, HasWorkspace
      <3>5. CASE Validate(w)
        BY <3>5, <2>r, <2>t, <2>s, <1>k DEF Validate, Steps
      <3>6. CASE Assess(w)
        <4>1. \/ tasks'[t].status = "healing" /\ run' = Begun(t)
              \/ run' = Idle
          BY <3>6 DEF Assess
        <4> QED BY <4>1, <2>r, <1>n, <1>i
      <3>7. CASE ReviewTask(w)
        BY <3>7, <2>r, <2>t, <2>v, <2>s, <1>k, <1>i DEF ReviewTask, Steps
      <3>8. CASE CommitWork(w)
        BY <3>8, <2>r, <2>a, <2>s, <1>k DEF CommitWork, Run
      <3>9. CASE ValidateCommit(w)
        BY <3>9, <2>r, <2>t, <2>a, <2>s, <1>k DEF ValidateCommit, Steps
      <3>10. CASE Merge(w)
        BY <3>10, <2>r, <2>t, <2>a, <2>s, <1>k DEF Merge, Steps
      <3>11. CASE Revert(w) BY <3>11, <2>s DEF Revert
      <3>12. CASE RecordDelivery(w) BY <3>12, <1>i DEF RecordDelivery
      <3>13. CASE RecordRefused(w) BY <3>13, <2>s DEF RecordRefused
      <3> QED BY <2>w, <3>1, <3>2, <3>3, <3>4, <3>5, <3>6, <3>7, <3>8, <3>9, <3>10,
                 <3>11, <3>12, <3>13
    <2>x. CASE ValidateRoot
      BY <2>x, <2>r, <2>t, <2>a, <1>k DEF ValidateRoot, Steps
    <2>l. CASE LoseLease BY <2>l, <1>i DEF LoseLease
    <2> QED BY <1>p, <2>w, <2>x, <2>l DEF WorkerProgress
  <1>v. ASSUME NEW u \in Tasks, VerifyRepair(u) PROVE HasWorkspace'
    <2>1. \A x \in Tasks : active[x] # 0 => active'[x] # 0
      BY <1>v, WorktreePrepared DEF VerifyRepair
    <2> QED BY <2>1, <1>v, <1>r, <1>b DEF VerifyRepair, Between
  <1>o. ASSUME NEW u \in Tasks, OwnerDecides(u) PROVE HasWorkspace'
    <2>1. OwnerStep(u) BY <1>o DEF OwnerDecides, OwnerStep, Recover
    <2> QED BY <2>1, <1>o, <1>b DEF OwnerDecides, Between
  <1> QED BY <1>c, <1>h, <1>p, <1>v, <1>o, <1>b, <1>i
    DEF IntegrationNext, Restart, Reconcile, Clock, EditCanonical, DiscardEdits,
        integrationVars, Between, vars

\* What the rest of the type says: the folder and the edits.
LEMMA EditsNext ==
  ASSUME dirt \in {"clean", "owned", "foreign"}, edits \in 0..EditLimit,
         [IntegrationNext]_integrationVars
  PROVE  dirt' \in {"clean", "owned", "foreign"} /\ edits' \in 0..EditLimit
  <1>1. CASE WorkerProgress
    BY <1>1 DEF WorkerProgress, StartImplementation, FinishImplementation,
       FailImplementation, SkipImplementation, Validate, Assess, ReviewTask, CommitWork,
       ValidateCommit, Merge, Revert, RecordDelivery, RecordRefused, ValidateRoot,
       LoseLease, Prepares, Applies, disk, canonical
  <1>2. CASE EditCanonical BY <1>2, EditLimitAssumption DEF EditCanonical
  <1>3. CASE ~WorkerProgress /\ ~EditCanonical
    BY <1>3 DEF IntegrationNext, ClaimTask, HeartbeatRun, Restart, Reconcile, Clock,
       VerifyRepair, OwnerDecides, DiscardEdits, Prepares, disk, canonical, integrationVars
  <1> QED BY <1>1, <1>2, <1>3

Typed ==
  /\ TypeOK /\ InFlight /\ Places /\ HasWorkspace
  /\ dirt \in {"clean", "owned", "foreign"} /\ edits \in 0..EditLimit

LEMMA InitTyped == IntegrationInit => Typed
  <1> SUFFICES ASSUME IntegrationInit PROVE Typed OBVIOUS
  <1>1. TypeOK /\ InFlight BY InitInFlight
  <1>2. Branched
    <2>1. branch = <<OutsideCommit>> BY DEF IntegrationInit
    <2> QED BY <2>1, OutsideIsACommit DEF Branched, HeadCommit
  <1>3. Trees /\ Located BY DEF IntegrationInit, Trees, Located
  <1>4. HasWorkspace BY DEF IntegrationInit, HasWorkspace
  <1> QED BY <1>1, <1>2, <1>3, <1>4, EditLimitAssumption
          DEF IntegrationInit, Typed, Places

LEMMA NextTyped == Typed /\ [IntegrationNext]_integrationVars => Typed'
  <1> SUFFICES ASSUME Typed, [IntegrationNext]_integrationVars PROVE Typed'
    OBVIOUS
  <1>1. TypeOK' /\ InFlight' BY NextInFlight DEF Typed
  <1>2. Places' /\ HasWorkspace' BY PlacesNext, HasWorkspaceNext DEF Typed
  <1> QED BY <1>1, <1>2, EditsNext DEF Typed

LEMMA TypedIsTyped == Typed => IntegrationTypeOK
  <1> SUFFICES ASSUME Typed PROVE IntegrationTypeOK OBVIOUS
  <1>1. Idle \in Run BY DEF Run, Idle, Steps, NoTask
  <1>2. run \in Run BY <1>1 DEF Typed, InFlight
  <1> QED BY <1>2 DEF Typed, Places, Branched, Trees, Located, IntegrationTypeOK

LEMMA AlwaysTyped == IntegrationSpec => []Typed
  BY InitTyped, NextTyped, PTL DEF IntegrationSpec

\* The worktrees the process knows are on the disk, were cut from commits of
\* the branch, and every step of a tick that reads one has one - the code calls
\* a workspace it does not know an error.
THEOREM IntegrationTypeCorrect == IntegrationSpec => []IntegrationTypeOK
  BY AlwaysTyped, TypedIsTyped, PTL

-----------------------------------------------------------------------------
(* Rejected work: a task whose worktree holds it is a repair, and a repair   *)
(* gets a fresh worktree before anything else is recorded for it.           *)

\* Reopened after reviews and not implemented since. Neither recovery evidence
\* nor a message that would let the owner record some can stand in its way.
RepairPending(r) ==
  /\ Repairs(r) /\ r.status \in {"queued", "running", "needs_user"}
  /\ r.note = "plain" /\ r.failing = Nobody /\ r.reviews = {} /\ ~r.recovered

Unreviewed(r) ==
  r.recovered => r.reviews = {} /\ r.status \in {"queued", "running", "needs_user"}
RecoveredIsUnreviewed == \A t \in Tasks : Unreviewed(tasks[t])

LEMMA ReplacedUnreviewed ==
  ASSUME TypeOK, RecoveredIsUnreviewed, NEW t \in Tasks, NEW r,
         Store(Replace(t, r)) \/ StoreProjected(Replace(t, r)), Unreviewed(r)
  PROVE  RecoveredIsUnreviewed'
  <1>1. ASSUME NEW u \in Tasks PROVE Unreviewed(tasks'[u])
    BY <1>1, Replaced DEF RecoveredIsUnreviewed
  <1> QED BY <1>1 DEF RecoveredIsUnreviewed, Unreviewed

LEMMA ReopenedFields ==
  ASSUME NEW r \in Task, NEW a \in Approvals, NEW class \in FailureClasses \cup {Nobody},
         NEW q \in {Reopened(r, a, class), Erased(r, class)}
  PROVE  /\ q.status = "queued" /\ q.note = "plain" /\ q.implemented = 0
         /\ q.failing = Nobody /\ q.reviews = {} /\ q.recovered = r.recovered
         /\ q = Reopened(r, a, class) => q.archive = Append(r.archive, Archived(r, a))
         /\ q = Erased(r, class) => q.archive = r.archive
  <1> DEFINE e == Erased(r, class)
  <1>1. Requeued(r) \in Task /\ Requeued(r).status = "queued" /\ Requeued(r).note = "plain"
        /\ Requeued(r).archive = r.archive /\ Requeued(r).recovered = r.recovered
    BY RequeuedType, ConstantsAssumption DEF Requeued, Released, Task
  <1>2. /\ e.status = "queued" /\ e.note = "plain" /\ e.implemented = 0
        /\ e.failing = Nobody /\ e.reviews = {} /\ e.recovered = r.recovered
        /\ e.archive = r.archive
    BY <1>1 DEF Erased, Task
  <1>3. e \in Task BY ErasedType
  <1>4. Reopened(r, a, class) = [e EXCEPT !.archive = Append(e.archive, Archived(r, a))]
    BY DEF Reopened
  <1> HIDE DEF e
  <1>5. CASE q = Reopened(r, a, class)
    <2>1. /\ q.status = e.status /\ q.note = e.note /\ q.implemented = e.implemented
          /\ q.failing = e.failing /\ q.reviews = e.reviews /\ q.recovered = e.recovered
          /\ q.archive = Append(e.archive, Archived(r, a))
      BY <1>3, <1>4, <1>5 DEF Task
    <2>2. q = Erased(r, class) => q.archive = r.archive BY <1>2 DEF e
    <2> QED BY <2>1, <2>2, <1>2
  <1>6. CASE q = e /\ q # Reopened(r, a, class) BY <1>2, <1>6
  <1> QED BY <1>5, <1>6 DEF e

LEMMA WorkerStepUnreviewed ==
  ASSUME TypeOK, RecoveredIsUnreviewed, NEW t \in Tasks, NEW w \in Workers, WorkerStep(t, w)
  PROVE  RecoveredIsUnreviewed'
  <1> DEFINE r == tasks[t]
  <1>t. r \in Task BY TaskType
  <1>u. Unreviewed(r) BY DEF RecoveredIsUnreviewed
  <1>s. ASSUME NEW q, Store(Replace(t, q)) \/ StoreProjected(Replace(t, q)), Unreviewed(q)
        PROVE  RecoveredIsUnreviewed'
    BY <1>s, ReplacedUnreviewed
  <1>r. \A status : /\ Released(r, status).status = status
                    /\ Released(r, status).reviews = r.reviews
                    /\ Released(r, status).recovered = r.recovered
    BY <1>t DEF Released, Task
  <1>q. /\ Requeued(r).status = "queued" /\ Requeued(r).reviews = r.reviews
        /\ Requeued(r).recovered = r.recovered /\ Requeued(r) \in Task
    BY <1>t, RequeuedType DEF Requeued, Released, Task
  <1>1. CASE Heartbeat(t, w)
    <2>1. Unreviewed([r EXCEPT !.ttl = LeaseTicks]) BY <1>t, <1>u DEF Unreviewed, Task
    <2> QED BY <2>1, <1>1, <1>s DEF Heartbeat
  <1>2. CASE RecordImplementation(t, w)
    <2> DEFINE q == [r EXCEPT !.status = "validating", !.deferred = {}, !.recovered = FALSE,
                              !.implemented = @ + 1, !.failure = Nobody, !.note = "plain"]
    <2>1. Unreviewed(q) BY <1>t DEF Unreviewed, Task
    <2>2. Store(Replace(t, q)) BY <1>2 DEF RecordImplementation
    <2> HIDE DEF q
    <2> QED BY <2>1, <2>2, <1>s
  \* The stages below are none a task with recovery evidence can be in.
  <1>n. ASSUME NEW q, Store(Replace(t, q)) \/ StoreProjected(Replace(t, q)),
               r.status \in {"validating", "reviewing", "integrating"},
               q.recovered = r.recovered
        PROVE  RecoveredIsUnreviewed'
    <2>1. ~r.recovered BY <1>n, <1>u DEF Unreviewed
    <2> QED BY <2>1, <1>n, <1>s DEF Unreviewed
  <1>3. ASSUME NEW tier, RecordPass(t, w, tier) PROVE RecoveredIsUnreviewed'
    <2> DEFINE q == [r EXCEPT !.status = IF tier = "full" THEN "reviewing" ELSE @,
                              !.checks = @ + 1, !.passed = @ \cup {tier}, !.note = "plain"]
    <2>1. Store(Replace(t, q)) /\ r.status = "validating" BY <1>3 DEF RecordPass
    <2>2. q.recovered = r.recovered BY <1>t DEF Task
    <2> HIDE DEF q
    <2> QED BY <2>1, <2>2, <1>n
  <1>4. ASSUME NEW tier, NEW d, RecordFailure(t, w, tier, d) PROVE RecoveredIsUnreviewed'
    <2> DEFINE q == [r EXCEPT !.checks = @ + 1, !.failing = d,
                              !.repeated = (d = r.failing), !.note = "plain"]
    <2>1. Store(Replace(t, q)) /\ r.status = "validating" BY <1>4 DEF RecordFailure
    <2>2. q.recovered = r.recovered BY <1>t DEF Task
    <2> HIDE DEF q
    <2> QED BY <2>1, <2>2, <1>n
  <1>5. ASSUME NEW class, AssessHealing(t, w, class) PROVE RecoveredIsUnreviewed'
    <2>1. PICK base : /\ base = [r EXCEPT !.status = "healing", !.attempt = @ + 1,
                                          !.note = "plain"]
                         \/ \E plan : base = Released(r, plan)
                      /\ StoreProjected(Replace(t, [base EXCEPT !.failure = class]))
                      /\ r.status = "validating"
      BY <1>5 DEF AssessHealing
    <2>2. [base EXCEPT !.failure = class].recovered = r.recovered
      BY <2>1, <1>t DEF Released, Task
    <2> QED BY <2>1, <2>2, <1>n
  <1>6. ASSUME NEW panel, RecordReviews(t, w, panel) PROVE RecoveredIsUnreviewed'
    <2>1. PICK base : /\ \/ base = [r EXCEPT !.status = "integrating", !.note = "plain"]
                         \/ \E status : base = Released(r, status)
                      /\ StoreProjected(Replace(t, [base EXCEPT !.reviews = panel]))
                      /\ r.status = "reviewing"
      BY <1>6 DEF RecordReviews
    <2>2. [base EXCEPT !.reviews = panel].recovered = r.recovered
      BY <2>1, <1>t DEF Released, Task
    <2> QED BY <2>1, <2>2, <1>n
  <1>7. CASE RecordIntegration(t, w)
    <2> DEFINE q == [Released(r, "completed") EXCEPT !.integrated = TRUE, !.checks = @ + 1,
                       !.passed = @ \cup {"integration"}]
    <2>1. StoreProjected(Replace(t, q)) /\ r.status = "integrating"
      BY <1>7 DEF RecordIntegration
    <2>2. q.recovered = r.recovered BY <1>t DEF Released, Task
    <2> HIDE DEF q
    <2> QED BY <2>1, <2>2, <1>n
  <1>8. CASE ReleaseForRetry(t, w)
    <2>1. Unreviewed(Requeued(r)) BY <1>q, <1>u DEF Unreviewed
    <2> QED BY <2>1, <1>8, <1>s DEF ReleaseForRetry
  <1>9. CASE ReleaseContractFailureForRetry(t, w, r.provider)
    <2> DEFINE q == [Requeued(r) EXCEPT
                       !.attempt = IF @ < AttemptLimit THEN @ + 1 ELSE @,
                       !.deferred = @ \cup {r.provider}, !.failure = "implementation"]
    <2>1. q.status = "queued" /\ q.reviews = r.reviews /\ q.recovered = r.recovered
      BY <1>q DEF Task
    <2>2. StoreProjected(Replace(t, q)) BY <1>9 DEF ReleaseContractFailureForRetry
    <2> HIDE DEF q
    <2>3. Unreviewed(q) BY <2>1, <1>u DEF Unreviewed
    <2> QED BY <2>2, <2>3, <1>s
  <1>10. ASSUME NEW class, NEW note, Interrupt(t, w, class, note) PROVE RecoveredIsUnreviewed'
    <2> DEFINE q == [Released(r, "needs_user") EXCEPT
                       !.failure = IF class = Nobody THEN @ ELSE class, !.note = note]
    <2>1. q.status = "needs_user" /\ q.reviews = r.reviews /\ q.recovered = r.recovered
      BY <1>t DEF Released, Task
    <2>2. StoreProjected(Replace(t, q)) BY <1>10 DEF Interrupt
    <2> HIDE DEF q
    <2>3. Unreviewed(q) BY <2>1, <1>u DEF Unreviewed
    <2> QED BY <2>2, <2>3, <1>s
  <1> QED BY <1>1, <1>2, <1>3, <1>4, <1>5, <1>6, <1>7, <1>8, <1>9, <1>10 DEF WorkerStep

LEMMA OwnerStepUnreviewed ==
  ASSUME TypeOK, RecoveredIsUnreviewed, NEW t \in Tasks, OwnerStep(t)
  PROVE  RecoveredIsUnreviewed'
  <1>t. \A u \in Tasks : tasks[u] \in Task BY TaskType
  <1>u. \A u \in Tasks : Unreviewed(tasks[u]) BY DEF RecoveredIsUnreviewed
  <1>c. {"implementation", "product_decision", Nobody} \subseteq FailureClasses \cup {Nobody}
    BY DEF FailureClasses
  <1>e. ASSUME NEW r \in Task, NEW a \in Approvals,
               NEW class \in FailureClasses \cup {Nobody},
               NEW q \in {Reopened(r, a, class), Erased(r, class)}
        PROVE  Unreviewed(q)
    BY ReopenedFields DEF Unreviewed
  <1>1. ASSUME NEW a \in Approvals, AuthorizeCompletedRepair(t, a)
        PROVE  RecoveredIsUnreviewed'
    <2>1. ASSUME NEW u \in Tasks PROVE Unreviewed(tasks'[u])
      <3>1. tasks'[u] \in {Reopened(tasks[u], a, "implementation"),
                           Reopened(tasks[u], a, Nobody), Erased(tasks[u], Nobody), tasks[u]}
        BY <1>1 DEF AuthorizeCompletedRepair, StoreProjected
      <3> QED BY <3>1, <1>t, <1>u, <1>c, <1>e
    <2> QED BY <2>1 DEF RecoveredIsUnreviewed, Unreviewed
  <1>2. ASSUME NEW a \in Approvals, AuthorizeReviewRepair(t, a)
        PROVE  RecoveredIsUnreviewed'
    <2>1. Unreviewed(Reopened(tasks[t], a, "product_decision")) BY <1>t, <1>c, <1>e
    <2> QED BY <2>1, <1>2, ReplacedUnreviewed DEF AuthorizeReviewRepair
  <1>3. CASE AuthorizeEnvironmentRetry(t)
    <2> DEFINE q == [tasks[t] EXCEPT !.status = "queued", !.provider = Nobody, !.note = "plain"]
    <2>1. q.status = "queued" /\ q.reviews = {}
      BY <1>3, <1>t DEF AuthorizeEnvironmentRetry, EnvironmentRetryAllowed, Task
    <2>2. StoreProjected(Replace(t, q)) BY <1>3 DEF AuthorizeEnvironmentRetry
    <2> HIDE DEF q
    <2>3. Unreviewed(q) BY <2>1 DEF Unreviewed
    <2> QED BY <2>2, <2>3, ReplacedUnreviewed
  <1>4. CASE AuthorizeQuarantineRecovery(t)
    <2> DEFINE q == [tasks[t] EXCEPT !.status = "queued", !.provider = Nobody,
                                     !.recovered = TRUE, !.note = "plain"]
    <2>1. q.status = "queued" /\ q.reviews = {}
      BY <1>4, <1>t DEF AuthorizeQuarantineRecovery, QuarantineRecoveryAllowed, Task
    <2>2. StoreProjected(Replace(t, q)) BY <1>4 DEF AuthorizeQuarantineRecovery
    <2> HIDE DEF q
    <2>3. Unreviewed(q) BY <2>1 DEF Unreviewed
    <2> QED BY <2>2, <2>3, ReplacedUnreviewed
  <1> QED BY <1>1, <1>2, <1>3, <1>4 DEF OwnerStep

LEMMA NextUnreviewed ==
  ASSUME TypeOK, RecoveredIsUnreviewed, [Next]_vars PROVE RecoveredIsUnreviewed'
  <1>t. \A t \in Tasks : tasks[t] \in Task BY TaskType
  <1>u. \A t \in Tasks : Unreviewed(tasks[t]) BY DEF RecoveredIsUnreviewed
  <1>1. ASSUME NEW w \in Workers, NEW p \in Candidates, Claim(w, p)
        PROVE  RecoveredIsUnreviewed'
    <2>1. PICK t \in Tasks :
            /\ tasks[t].status = "queued"
            /\ Store(Replace(t, [tasks[t] EXCEPT !.status = "running", !.provider = p,
                                   !.owner = w, !.ttl = LeaseTicks, !.note = "plain"]))
      BY <1>1 DEF Claim, EligibleTasks, Ready
    <2> DEFINE q == [tasks[t] EXCEPT !.status = "running", !.provider = p,
                                     !.owner = w, !.ttl = LeaseTicks, !.note = "plain"]
    <2>2. q.status = "running" /\ q.reviews = tasks[t].reviews /\ q.recovered = tasks[t].recovered
      BY <1>t DEF Task
    <2>3. Store(Replace(t, q)) BY <2>1
    <2> HIDE DEF q
    <2>4. Unreviewed(q) BY <2>2, <1>u DEF Unreviewed
    <2> QED BY <2>3, <2>4, ReplacedUnreviewed
  <1>2. CASE ReconcileExpired
    <2>1. ASSUME NEW t \in Tasks PROVE Unreviewed(tasks'[t])
      <3>1. tasks'[t] = tasks[t] \/ tasks'[t] = Released(tasks[t], "needs_user")
        BY <1>2 DEF ReconcileExpired, StoreProjected
      <3>2. /\ Released(tasks[t], "needs_user").status = "needs_user"
            /\ Released(tasks[t], "needs_user").reviews = tasks[t].reviews
            /\ Released(tasks[t], "needs_user").recovered = tasks[t].recovered
        BY <1>t DEF Released, Task
      <3> QED BY <3>1, <3>2, <1>u DEF Unreviewed
    <2> QED BY <2>1 DEF RecoveredIsUnreviewed, Unreviewed
  <1>3. CASE Tick
    <2>1. ASSUME NEW t \in Tasks PROVE Unreviewed(tasks'[t])
      BY <1>3, <1>t, <1>u DEF Tick, Unreviewed, Task
    <2> QED BY <2>1 DEF RecoveredIsUnreviewed, Unreviewed
  <1>4. CASE UNCHANGED vars BY <1>4 DEF vars, RecoveredIsUnreviewed, Unreviewed
  <1> QED BY <1>1, <1>2, <1>3, <1>4, WorkerStepUnreviewed, OwnerStepUnreviewed DEF Next

\* The steps a repair that is pending can take without ceasing to be one.
LEMMA PendingSame ==
  ASSUME NEW r, NEW q, RepairPending(r), q.status \in {"queued", "running", "needs_user"},
         q.note = "plain", q.implemented = r.implemented, q.archive = r.archive,
         q.failing = r.failing, q.reviews = r.reviews, q.recovered = r.recovered
  PROVE  RepairPending(q)
  BY DEF RepairPending, Repairs

\* Reopening makes a repair of reviewed work, and of a repair.
LEMMA ReopenedIsPending ==
  ASSUME NEW r \in Task, NEW a \in Approvals, NEW class \in FailureClasses \cup {Nobody},
         r.reviews # {} \/ r.implemented = 0, ~r.recovered
  PROVE  RepairPending(Reopened(r, a, class))
  <1> DEFINE q == Reopened(r, a, class)
             last == Archived(r, a)
  <1>1. /\ q.status = "queued" /\ q.note = "plain" /\ q.implemented = 0
        /\ q.failing = Nobody /\ q.reviews = {} /\ q.recovered = r.recovered
        /\ q.archive = Append(r.archive, last)
    BY ReopenedFields
  <1>2. last.reviews = r.reviews /\ last.implemented = r.implemented BY DEF Archived
  <1>3. r.archive \in Seq(Attempt) BY DEF Task
  <1> HIDE DEF q, last
  <1>4. /\ Len(q.archive) = Len(r.archive) + 1 /\ q.archive[Len(q.archive)] = last
        /\ q.archive # <<>>
    <2> DEFINE s == r.archive
    <2>1. Len(s) \in Nat /\ s = [i \in 1..Len(s) |-> s[i]] BY <1>3
    <2>2. q.archive = [i \in 1..(Len(s) + 1) |-> IF i = Len(s) + 1 THEN last ELSE s[i]]
      BY <1>1, <2>1
    <2>3. Len(q.archive) = Len(s) + 1 BY <2>1, <2>2
    <2> QED BY <2>1, <2>2, <2>3
  <1> QED BY <1>1, <1>2, <1>4 DEF RepairPending, Repairs, q

LEMMA OwnerKeepsPending ==
  ASSUME TypeOK, NEW u \in Tasks, OwnerStep(u), NEW t \in Tasks, RepairPending(tasks[t])
  PROVE  RepairPending(tasks'[t])
  <1>t. tasks[t] \in Task BY TaskType
  <1>p. tasks[t].implemented = 0 /\ ~tasks[t].recovered BY DEF RepairPending, Repairs
  <1>c. {"implementation", "product_decision", Nobody} \subseteq FailureClasses \cup {Nobody}
    BY DEF FailureClasses
  <1>r. \A a \in Approvals, class \in {"implementation", "product_decision", Nobody} :
          RepairPending(Reopened(tasks[t], a, class))
    BY <1>t, <1>p, <1>c, ReopenedIsPending
  <1>1. ASSUME NEW a \in Approvals, AuthorizeCompletedRepair(u, a)
        PROVE  RepairPending(tasks'[t])
    <2>1. tasks'[t] \in {Reopened(tasks[t], a, "implementation"),
                         Reopened(tasks[t], a, Nobody), Erased(tasks[t], Nobody), tasks[t]}
      BY <1>1 DEF AuthorizeCompletedRepair, StoreProjected
    <2>2. RepairPending(Erased(tasks[t], Nobody))
      <3> DEFINE q == Erased(tasks[t], Nobody)
      <3>1. /\ q.status = "queued" /\ q.note = "plain" /\ q.implemented = 0
            /\ q.failing = Nobody /\ q.reviews = {} /\ q.recovered = tasks[t].recovered
            /\ q.archive = tasks[t].archive
        BY <1>t, ReopenedFields
      <3> HIDE DEF q
      <3>2. RepairPending(q) BY <3>1 DEF RepairPending, Repairs
      <3> QED BY <3>2 DEF q
    <2> QED BY <2>1, <2>2, <1>r
  <1>2. ASSUME NEW a \in Approvals, AuthorizeReviewRepair(u, a)
        PROVE  RepairPending(tasks'[t])
    <2>1. /\ tasks'[u] = Reopened(tasks[u], a, "product_decision")
          /\ t # u => tasks'[t] = tasks[t]
      BY <1>2, Replaced DEF AuthorizeReviewRepair
    <2> QED BY <2>1, <1>r
  <1>3. CASE AuthorizeEnvironmentRetry(u)
    <2> DEFINE r == [tasks[u] EXCEPT !.status = "queued", !.provider = Nobody, !.note = "plain"]
    <2>1. tasks'[u] = r /\ (t # u => tasks'[t] = tasks[t])
      BY <1>3 DEF AuthorizeEnvironmentRetry, StoreProjected, Replace, TypeOK
    <2>2. CASE t = u
      <3>1. /\ r.status = "queued" /\ r.note = "plain"
            /\ r.implemented = tasks[u].implemented /\ r.archive = tasks[u].archive
            /\ r.failing = tasks[u].failing /\ r.reviews = tasks[u].reviews
            /\ r.recovered = tasks[u].recovered
        BY <1>t, <2>2 DEF Task
      <3> HIDE DEF r
      <3>2. RepairPending(r) BY <3>1, <2>2, PendingSame
      <3> QED BY <3>2, <2>1, <2>2
    <2> QED BY <2>1, <2>2
  <1>4. CASE Verifiable(tasks[u]) /\ AuthorizeQuarantineRecovery(u)
    <2>1. t # u BY <1>4 DEF RepairPending, Verifiable
    <2>2. tasks'[t] = tasks[t]
      BY <1>4, <2>1 DEF AuthorizeQuarantineRecovery, StoreProjected, Replace, TypeOK
    <2> QED BY <2>2
  <1> QED BY <1>1, <1>2, <1>3, <1>4 DEF OwnerStep

\* A claim, the lease's clock, its end, and being stopped with a plain message.
LEMMA TickKeepsPending ==
  ASSUME TypeOK, NEW t \in Tasks, RepairPending(tasks[t]),
         \/ \E w \in Workers, p \in Candidates : Claim(w, p)
         \/ \E u \in Tasks, w \in Workers : Heartbeat(u, w)
         \/ ReconcileExpired \/ Tick \/ UNCHANGED vars
  PROVE  RepairPending(tasks'[t])
  <1>t. tasks[t] \in Task BY TaskType
  <1>k. ASSUME NEW q, q.status \in {"queued", "running", "needs_user"}, q.note = "plain",
               q.implemented = tasks[t].implemented, q.archive = tasks[t].archive,
               q.failing = tasks[t].failing, q.reviews = tasks[t].reviews,
               q.recovered = tasks[t].recovered
        PROVE  RepairPending(q)
    BY <1>k, PendingSame
  <1>s. tasks[t].status \in {"queued", "running", "needs_user"} /\ tasks[t].note = "plain"
    BY DEF RepairPending
  <1>1. ASSUME NEW w \in Workers, NEW p \in Candidates, Claim(w, p)
        PROVE  RepairPending(tasks'[t])
    <2>1. PICK u \in Tasks :
            Store(Replace(u, [tasks[u] EXCEPT !.status = "running", !.provider = p,
                                !.owner = w, !.ttl = LeaseTicks, !.note = "plain"]))
      BY <1>1 DEF Claim, EligibleTasks
    <2> DEFINE q == [tasks[u] EXCEPT !.status = "running", !.provider = p,
                                     !.owner = w, !.ttl = LeaseTicks, !.note = "plain"]
    <2>2. tasks'[u] = q /\ (t # u => tasks'[t] = tasks[t])
      BY <2>1 DEF Store, Replace, TypeOK
    <2>3. CASE t = u
      <3>1. /\ q.status = "running" /\ q.note = "plain"
            /\ q.implemented = tasks[t].implemented /\ q.archive = tasks[t].archive
            /\ q.failing = tasks[t].failing /\ q.reviews = tasks[t].reviews
            /\ q.recovered = tasks[t].recovered
        BY <1>t, <2>3 DEF Task
      <3> HIDE DEF q
      <3> QED BY <3>1, <2>2, <2>3, <1>k
    <2> QED BY <2>2, <2>3
  <1>2. ASSUME NEW u \in Tasks, NEW w \in Workers, Heartbeat(u, w)
        PROVE  RepairPending(tasks'[t])
    <2>1. tasks'[u] = [tasks[u] EXCEPT !.ttl = LeaseTicks] /\ (t # u => tasks'[t] = tasks[t])
      BY <1>2, Replaced DEF Heartbeat
    <2>2. CASE t = u
      <3> DEFINE q == [tasks[t] EXCEPT !.ttl = LeaseTicks]
      <3>1. /\ q.status = tasks[t].status /\ q.note = tasks[t].note
            /\ q.implemented = tasks[t].implemented /\ q.archive = tasks[t].archive
            /\ q.failing = tasks[t].failing /\ q.reviews = tasks[t].reviews
            /\ q.recovered = tasks[t].recovered
        BY <1>t DEF Task
      <3>2. tasks'[t] = q BY <2>1, <2>2
      <3> HIDE DEF q
      <3> QED BY <3>1, <3>2, <1>s, <1>k
    <2> QED BY <2>1, <2>2
  <1>3. CASE ReconcileExpired
    <2> DEFINE q == Released(tasks[t], "needs_user")
    <2>1. tasks'[t] = tasks[t] \/ tasks'[t] = q
      BY <1>3 DEF ReconcileExpired, StoreProjected
    <2>2. /\ q.status = "needs_user" /\ q.note = "plain"
          /\ q.implemented = tasks[t].implemented /\ q.archive = tasks[t].archive
          /\ q.failing = tasks[t].failing /\ q.reviews = tasks[t].reviews
          /\ q.recovered = tasks[t].recovered
      BY <1>t DEF Released, Task
    <2> HIDE DEF q
    <2> QED BY <2>1, <2>2, <1>k
  <1>4. CASE Tick
    <2> DEFINE q == [tasks[t] EXCEPT !.ttl = IF @ > 0 THEN @ - 1 ELSE 0]
    <2>1. tasks'[t] = q BY <1>4 DEF Tick
    <2>2. /\ q.status = tasks[t].status /\ q.note = tasks[t].note
          /\ q.implemented = tasks[t].implemented /\ q.archive = tasks[t].archive
          /\ q.failing = tasks[t].failing /\ q.reviews = tasks[t].reviews
          /\ q.recovered = tasks[t].recovered
      BY <1>t DEF Task
    <2> HIDE DEF q
    <2> QED BY <2>1, <2>2, <1>s, <1>k
  <1> QED BY <1>1, <1>2, <1>3, <1>4 DEF vars

LEMMA StoppedPlainlyIsPending ==
  ASSUME TypeOK, NEW t \in Tasks, RepairPending(tasks[t]), NEW w, NEW class,
         Stops(w, t, class, "plain")
  PROVE  RepairPending(tasks'[t])
  <1>t. tasks[t] \in Task BY TaskType
  <1>1. CASE Interrupt(t, w, class, "plain")
    <2> DEFINE q == [Released(tasks[t], "needs_user") EXCEPT
                       !.failure = IF class = Nobody THEN @ ELSE class, !.note = "plain"]
    <2>1. tasks'[t] = q BY <1>1, Replaced DEF Interrupt
    <2>2. /\ q.status = "needs_user" /\ q.note = "plain"
          /\ q.implemented = tasks[t].implemented /\ q.archive = tasks[t].archive
          /\ q.failing = tasks[t].failing /\ q.reviews = tasks[t].reviews
          /\ q.recovered = tasks[t].recovered
      BY <1>t DEF Released, Task
    <2> HIDE DEF q
    <2> QED BY <2>1, <2>2, PendingSame
  <1>2. CASE UNCHANGED vars BY <1>2 DEF vars
  <1> QED BY <1>1, <1>2 DEF Stops

\* A worker's step is a step of its own task.
LEMMA WorkerStepTouchesItsTask ==
  ASSUME TypeOK, NEW t \in Tasks, NEW w \in Workers, WorkerStep(t, w),
         NEW u \in Tasks, u # t
  PROVE  tasks'[u] = tasks[u]
  BY DEF WorkerStep, Heartbeat, RecordImplementation, RecordPass, RecordFailure,
         AssessHealing, RecordReviews, RecordIntegration, ReleaseForRetry,
         ReleaseContractFailureForRetry, Interrupt, Store, StoreProjected, Replace, TypeOK

\* The worktree a task would be continued in holds rejected work.
HoldsRejected(t) ==
  HeadCommit \in DOMAIN worktrees[t] /\ worktrees[t][HeadCommit].rejected

\* A moved branch leaves every worktree behind.
LEMMA MovedBranchForgets ==
  ASSUME Places, HeadCommit \in Nat, HeadCommit' = HeadCommit + 1,
         NEW t \in Tasks, worktrees'[t] = worktrees[t]
  PROVE  ~HoldsRejected(t)'
  <1>1. DOMAIN worktrees[t] \subseteq 1..HeadCommit BY DEF Places, Trees
  <1>2. HeadCommit + 1 \notin DOMAIN worktrees[t] BY <1>1
  <1> QED BY <1>2 DEF HoldsRejected

LEMMA UnmovedHolds ==
  ASSUME branch' = branch, NEW t \in Tasks, worktrees'[t] = worktrees[t], HoldsRejected(t)'
  PROVE  HoldsRejected(t)
  BY DEF HoldsRejected, HeadCommit

LEMMA BranchMoveHolds ==
  ASSUME Places, NEW c \in Commit, branch' \in {branch, Append(branch, c)},
         worktrees' = worktrees, active' = active, NEW t \in Tasks, HoldsRejected(t)'
  PROVE  HoldsRejected(t)
  <1>1. HeadCommit \in Nat /\ HeadCommit' \in {HeadCommit, HeadCommit + 1}
    BY BranchMoves
  <1>2. CASE HeadCommit' = HeadCommit + 1 BY <1>1, <1>2, MovedBranchForgets
  <1>3. CASE HeadCommit' = HeadCommit BY <1>3 DEF HoldsRejected
  <1> QED BY <1>1, <1>2, <1>3

LEMMA ChangedInPlaceHolds ==
  ASSUME Places, NEW t \in Tasks, active[t] # 0, NEW wt \in Worktree,
         wt.rejected = worktrees[t][active[t]].rejected,
         SetWorktree(t, active[t], wt), branch' = branch, active' = active,
         NEW u \in Tasks, HoldsRejected(u)'
  PROVE  HoldsRejected(u)
  <1>1. HeadCommit \in Nat /\ HeadCommit' = HeadCommit BY Same DEF Places
  <1>2. active[t] \in DOMAIN worktrees[t] BY DEF Places, Located
  <1>3. /\ DOMAIN worktrees'[t] = DOMAIN worktrees[t] \cup {active[t]}
        /\ worktrees'[t][active[t]] = wt
        /\ \A c \in DOMAIN worktrees[t] : c # active[t] => worktrees'[t][c] = worktrees[t][c]
        /\ \A v \in Tasks : v # t => worktrees'[v] = worktrees[v]
    BY <1>1, SetTrees DEF Places
  <1>4. CASE u = t
    <2>1. HeadCommit \in DOMAIN worktrees[t] BY <1>1, <1>2, <1>3, <1>4 DEF HoldsRejected
    <2>2. worktrees'[t][HeadCommit].rejected BY <1>1, <1>4 DEF HoldsRejected
    <2>3. worktrees[t][HeadCommit].rejected
      <3>1. CASE HeadCommit = active[t] BY <3>1, <2>2, <1>3
      <3>2. CASE HeadCommit # active[t] BY <3>2, <2>1, <2>2, <1>3
      <3> QED BY <3>1, <3>2
    <2> QED BY <2>1, <2>3, <1>4 DEF HoldsRejected
  <1>5. CASE u # t BY <1>5, <1>3, UnmovedHolds
  <1> QED BY <1>4, <1>5

\* Preparing never finds rejected work for a repair, which gets a fresh worktree.
LEMMA PreparedHolds ==
  ASSUME Places, NEW t \in Tasks, NEW reset \in BOOLEAN, Prepares(t, reset),
         NEW u \in Tasks, HoldsRejected(u)'
  PROVE  HoldsRejected(u) /\ (u = t => ~reset)
  <1> DEFINE b == Len(Baseline)
             wt == IF Known(t, b) /\ ~reset THEN worktrees[t][b] ELSE FreshWorktree
  <1>1. /\ HeadCommit \in Nat /\ HeadCommit' \in Nat \ {0}
        /\ HeadCommit <= HeadCommit' /\ HeadCommit' = b
    BY BaselineGrown DEF Places, Prepares
  <1>2. wt \in Worktree BY FreshIsAWorktree DEF Known, Places, Trees
  <1>3. SetWorktree(t, b, wt) BY DEF Prepares
  <1>4. wt = IF b \in DOMAIN worktrees[t] /\ ~reset THEN worktrees[t][b] ELSE FreshWorktree
    BY DEF Known
  <1>5. \A v \in Tasks : DOMAIN worktrees[v] \subseteq 1..HeadCommit BY DEF Places, Trees
  <1> HIDE DEF wt, b
  <1>6. /\ worktrees'[t][b] = wt
        /\ \A v \in Tasks : v # t => worktrees'[v] = worktrees[v]
    BY <1>1, <1>2, <1>3, SetTrees DEF Places
  <1>7. CASE u = t
    <2>1. wt.rejected BY <1>1, <1>6, <1>7 DEF HoldsRejected
    <2>2. b \in DOMAIN worktrees[t] /\ ~reset /\ worktrees[t][b].rejected
      BY <2>1, <1>4, FreshIsAWorktree
    <2>3. b = HeadCommit BY <2>2, <1>1, <1>5
    <2> QED BY <2>2, <2>3, <1>7 DEF HoldsRejected
  <1>8. CASE u # t
    <2>1. HeadCommit' \in DOMAIN worktrees[u] /\ worktrees[u][HeadCommit'].rejected
      BY <1>6, <1>8 DEF HoldsRejected
    <2>2. HeadCommit' = HeadCommit BY <2>1, <1>1, <1>5
    <2> QED BY <2>1, <2>2, <1>8 DEF HoldsRejected
  <1> QED BY <1>7, <1>8

LEMMA ProgressHolds ==
  ASSUME InFlight, Places, HasWorkspace, WorkerProgress, NEW u \in Tasks, HoldsRejected(u)'
  PROVE  HoldsRejected(u)
  <1> DEFINE t == run.task
  <1>r. run # Idle /\ t \in Tasks BY DEF InFlight, WorkerProgress
  <1>a. run.step # "working" => active[t] # 0 BY <1>r DEF HasWorkspace
  <1>w. \A b \in DOMAIN worktrees[t] : worktrees[t][b] \in Worktree
    BY <1>r DEF Places, Trees
  <1>b. active[t] # 0 => active[t] \in DOMAIN worktrees[t] /\ worktrees[t][active[t]] \in Worktree
    BY <1>r, <1>w DEF Places, Located
  <1>c. active[t] \in Nat BY <1>r DEF Places, Located
  <1> HIDE DEF t
  <1>s. ASSUME NEW wt \in Worktree, wt.rejected = worktrees[t][active[t]].rejected,
               active[t] # 0, SetWorktree(t, active[t], wt), UNCHANGED <<branch, active>>
        PROVE  HoldsRejected(u)
    BY <1>s, <1>r, ChangedInPlaceHolds
  <1>e. ASSUME NEW changed \in BOOLEAN, active[t] # 0,
               SetWorktree(t, active[t], [worktrees[t][active[t]] EXCEPT !.changed = changed]),
               UNCHANGED <<branch, active>>
        PROVE  HoldsRejected(u)
    <2> DEFINE wt == [worktrees[t][active[t]] EXCEPT !.changed = changed]
    <2>1. wt \in Worktree /\ wt.rejected = worktrees[t][active[t]].rejected
      BY <1>e, <1>b DEF Worktree
    <2>2. SetWorktree(t, active[t], wt) BY <1>e
    <2> HIDE DEF wt
    <2> QED BY <2>1, <2>2, <1>e, <1>s
  <1>k. ASSUME UNCHANGED <<branch, worktrees>> PROVE HoldsRejected(u)
    BY <1>k, UnmovedHolds
  <1>1. ASSUME NEW w \in Workers, StartImplementation(w) PROVE HoldsRejected(u)
    <2>1. CASE Prepares(t, Repairs(tasks[t]))
      <3>1. Repairs(tasks[t]) \in BOOLEAN BY DEF Repairs
      <3> QED BY <3>1, <2>1, <1>r, PreparedHolds
    <2>2. CASE ~Prepares(t, Repairs(tasks[t]))
      BY <1>1, <2>2, <1>k DEF StartImplementation, canonical, t
    <2> QED BY <2>1, <2>2
  <1>2. ASSUME NEW w \in Workers, FinishImplementation(w) \/ FailImplementation(w)
        PROVE  HoldsRejected(u)
    <2>1. run.step = "prepared" /\ \E changed \in BOOLEAN : Applies(t, changed)
      BY <1>2 DEF FinishImplementation, FailImplementation, t
    <2> QED BY <2>1, <1>a, <1>e DEF Applies, canonical
  <1>3. ASSUME NEW w \in Workers, CommitWork(w) PROVE HoldsRejected(u)
    <2>1. CASE worktrees' = worktrees BY <2>1, <1>3, <1>k DEF CommitWork, canonical
    <2>2. CASE worktrees' # worktrees
      <3> DEFINE wt == [worktrees[t][active[t]] EXCEPT !.head = "commit", !.changed = FALSE]
      <3>1. /\ SetWorktree(t, active[t], wt)
            /\ run.step = "integrating" /\ UNCHANGED <<branch, active>>
        BY <2>2, <1>3 DEF CommitWork, canonical, t
      <3>2. wt \in Worktree /\ wt.rejected = worktrees[t][active[t]].rejected
        BY <3>1, <1>a, <1>b DEF Worktree
      <3> HIDE DEF wt
      <3> QED BY <3>1, <3>2, <1>a, <1>s
    <2> QED BY <2>1, <2>2
  <1>4. ASSUME NEW w \in Workers, Merge(w) PROVE HoldsRejected(u)
    <2>1. CASE branch' = branch BY <2>1, <1>4, <1>k DEF Merge
    <2>2. CASE branch' # branch
      <3> DEFINE c == [by |-> t, on |-> active[t], undoes |-> 0,
                       rejected |-> worktrees[t][active[t]].rejected]
      <3>1. branch' = Append(branch, c) /\ run.step = "checked" /\ UNCHANGED <<worktrees, active>>
        BY <2>2, <1>4 DEF Merge, Merged, t
      <3>2. c \in Commit BY <3>1, <1>a, <1>b, <1>c, <1>r DEF Commit, Worktree
      <3> QED BY <3>1, <3>2, BranchMoveHolds
    <2> QED BY <2>1, <2>2
  <1>5. ASSUME NEW w \in Workers, Revert(w) PROVE HoldsRejected(u)
    <2>1. CASE branch' = branch BY <2>1, <1>5, <1>k DEF Revert
    <2>2. CASE branch' # branch
      <3> DEFINE c == [OutsideCommit EXCEPT !.by = t, !.undoes = Delivered(t)]
      <3>1. branch' = Append(branch, c) /\ UNCHANGED <<worktrees, active>>
        BY <2>2, <1>5 DEF Revert, Reverted, t
      <3>2. Delivered(t) \in Nat BY <1>c DEF Delivered
      <3>3. c \in Commit BY <3>2, <1>r, OutsideIsACommit DEF Commit
      <3> QED BY <3>1, <3>3, BranchMoveHolds
    <2> QED BY <2>1, <2>2
  <1>6. CASE LoseLease
    <2>1. CASE worktrees' = worktrees BY <2>1, <1>6, <1>k DEF LoseLease, canonical
    <2>2. CASE worktrees' # worktrees
      BY <2>2, <1>6, <1>a, <1>e DEF LoseLease, canonical, t
    <2> QED BY <2>1, <2>2
  <1>7. CASE \/ ValidateRoot
             \/ \E w \in Workers : \/ SkipImplementation(w) \/ Validate(w) \/ Assess(w)
                                   \/ ReviewTask(w) \/ ValidateCommit(w)
                                   \/ RecordDelivery(w) \/ RecordRefused(w)
    BY <1>7, <1>k
       DEF ValidateRoot, SkipImplementation, Validate, Assess, ReviewTask, ValidateCommit,
           RecordDelivery, RecordRefused, disk, canonical
  <1> QED BY <1>1, <1>2, <1>3, <1>4, <1>5, <1>6, <1>7 DEF WorkerProgress

\* Only reopening makes a worktree hold rejected work.
LEMMA RejectedByReopening ==
  ASSUME InFlight, Places, HasWorkspace, [IntegrationNext]_integrationVars,
         NEW t \in Tasks, HoldsRejected(t)', ~HoldsRejected(t)
  PROVE  \E u \in Tasks : /\ OwnerDecides(u) /\ tasks'[t].archive # tasks[t].archive
                          /\ tasks[t].reviews # {}
  <1>1. CASE WorkerProgress BY <1>1, ProgressHolds
  <1>2. CASE EditCanonical
    BY <1>2, BranchMoveHolds, OutsideIsACommit DEF EditCanonical
  <1>3. ASSUME NEW u \in Tasks, VerifyRepair(u) PROVE FALSE
    BY <1>3, PreparedHolds DEF VerifyRepair
  <1>4. ASSUME NEW u \in Tasks, OwnerDecides(u)
        PROVE  tasks'[t].archive # tasks[t].archive /\ tasks[t].reviews # {}
    <2>1. worktrees'[t] # worktrees[t]
      BY <1>4, UnmovedHolds DEF OwnerDecides, canonical
    <2> QED BY <2>1, <1>4 DEF OwnerDecides, MarkRejected
  <1>5. CASE \/ \E w \in Workers, p \in Candidates : ClaimTask(w, p)
             \/ \E w \in Workers : HeartbeatRun(w)
             \/ Restart \/ Reconcile \/ Clock \/ DiscardEdits \/ UNCHANGED integrationVars
    BY <1>5, UnmovedHolds
       DEF ClaimTask, HeartbeatRun, Restart, Reconcile, Clock, DiscardEdits, disk,
           integrationVars
  <1> QED BY <1>1, <1>2, <1>3, <1>4, <1>5 DEF IntegrationNext

LEMMA ReopenedByOwner ==
  ASSUME TypeOK, RecoveredIsUnreviewed, NEW u \in Tasks, OwnerStep(u), NEW t \in Tasks,
         tasks'[t].archive # tasks[t].archive, tasks[t].reviews # {}
  PROVE  RepairPending(tasks'[t])
  <1>t. tasks[t] \in Task /\ tasks[u] \in Task BY TaskType
  <1>p. ~tasks[t].recovered BY DEF RecoveredIsUnreviewed, Unreviewed
  <1>c. {"implementation", "product_decision", Nobody} \subseteq FailureClasses \cup {Nobody}
    BY DEF FailureClasses
  <1>r. \A a \in Approvals, class \in {"implementation", "product_decision", Nobody} :
          RepairPending(Reopened(tasks[t], a, class))
    BY <1>t, <1>p, <1>c, ReopenedIsPending
  <1>1. ASSUME NEW a \in Approvals, AuthorizeCompletedRepair(u, a)
        PROVE  RepairPending(tasks'[t])
    <2>1. tasks'[t] \in {Reopened(tasks[t], a, "implementation"),
                         Reopened(tasks[t], a, Nobody), Erased(tasks[t], Nobody), tasks[t]}
      BY <1>1 DEF AuthorizeCompletedRepair, StoreProjected
    <2>2. Erased(tasks[t], Nobody).archive = tasks[t].archive
      BY <1>t, <1>c, ReopenedFields
    <2> QED BY <2>1, <2>2, <1>r
  <1>2. ASSUME NEW a \in Approvals, AuthorizeReviewRepair(u, a)
        PROVE  RepairPending(tasks'[t])
    <2>1. /\ tasks'[u] = Reopened(tasks[u], a, "product_decision")
          /\ t # u => tasks'[t] = tasks[t]
      BY <1>2, Replaced DEF AuthorizeReviewRepair
    <2> QED BY <2>1, <1>r
  <1>3. CASE AuthorizeEnvironmentRetry(u) \/ AuthorizeQuarantineRecovery(u)
    <2>1. \E q : /\ StoreProjected(Replace(u, q))
                 /\ \/ q = [tasks[u] EXCEPT !.status = "queued", !.provider = Nobody,
                                            !.note = "plain"]
                    \/ q = [tasks[u] EXCEPT !.status = "queued", !.provider = Nobody,
                                            !.recovered = TRUE, !.note = "plain"]
      BY <1>3 DEF AuthorizeEnvironmentRetry, AuthorizeQuarantineRecovery
    <2>2. PICK q : StoreProjected(Replace(u, q)) /\ q.archive = tasks[u].archive
      BY <2>1, <1>t DEF Task
    <2>3. tasks'[u] = q /\ (t # u => tasks'[t] = tasks[t]) BY <2>2, Replaced
    <2> QED BY <2>2, <2>3
  <1> QED BY <1>1, <1>2, <1>3 DEF OwnerStep

\* No task is built on another.
Independent == \A t \in Tasks : DependsOn[t] = {}

\* Only a prerequisite's repair can reach a task a worker is at.
LEMMA OwnerLeavesTheWorkerAlone ==
  ASSUME Independent, TypeOK, NEW u \in Tasks, OwnerStep(u), NEW t \in Tasks,
         tasks[t].status \in {"running", "healing", "integrating"}
  PROVE  tasks'[t] = tasks[t]
  <1>1. ASSUME NEW a \in Approvals, AuthorizeCompletedRepair(u, a)
        PROVE  tasks'[t] = tasks[t]
    <2>1. t # u BY <1>1 DEF AuthorizeCompletedRepair
    <2>2. {u} \in SUBSET Tasks /\ ClosedUnderDependents({u})
      BY DEF Independent, ClosedUnderDependents
    <2>3. t \notin Invalidated(u) BY <2>1, <2>2 DEF Invalidated
    <2> QED BY <1>1, <2>1, <2>3 DEF AuthorizeCompletedRepair, StoreProjected
  <1>2. ASSUME NEW a \in Approvals, AuthorizeReviewRepair(u, a)
        PROVE  tasks'[t] = tasks[t]
    <2>1. t # u BY <1>2 DEF AuthorizeReviewRepair, ReviewRepairAllowed
    <2> QED BY <2>1, <1>2, Replaced DEF AuthorizeReviewRepair
  <1>3. CASE AuthorizeEnvironmentRetry(u)
    <2>1. t # u BY <1>3 DEF AuthorizeEnvironmentRetry, EnvironmentRetryAllowed
    <2> QED BY <2>1, <1>3 DEF AuthorizeEnvironmentRetry, StoreProjected, Replace, TypeOK
  <1>4. CASE AuthorizeQuarantineRecovery(u)
    <2>1. t # u BY <1>4 DEF AuthorizeQuarantineRecovery, QuarantineRecoveryAllowed
    <2> QED BY <2>1, <1>4 DEF AuthorizeQuarantineRecovery, StoreProjected, Replace, TypeOK
  <1> QED BY <1>1, <1>2, <1>3, <1>4 DEF OwnerStep

\* What holds rejected work is a repair still to be made; the task a worker
\* implements or integrates is in that stage, and what it has prepared is fresh.
RejectedIsPending == \A t \in Tasks : HoldsRejected(t) => RepairPending(tasks[t])
InStage ==
  run # Idle =>
    /\ run.step \in Integrate => tasks[run.task].status = "integrating"
    /\ run.step = "prepared" => /\ ~HoldsRejected(run.task)
                                /\ tasks[run.task].status \in {"running", "healing"}
Apart ==
  /\ Typed /\ RecoveredIsUnreviewed
  /\ RejectedWorkStaysOut /\ RejectedIsPending /\ InStage

LEMMA ProgressKeepsPending ==
  ASSUME Apart, WorkerProgress, NEW t \in Tasks, HoldsRejected(t)
  PROVE  RepairPending(tasks'[t])
  <1>p. RepairPending(tasks[t]) BY DEF Apart, RejectedIsPending
  <1>t. TypeOK /\ InFlight BY DEF Apart, Typed
  <1>r. run # Idle /\ run.task \in Tasks BY <1>t DEF InFlight, WorkerProgress
  <1>k. CASE UNCHANGED vars BY <1>k, <1>p DEF vars
  <1>o. CASE t # run.task
    <2>1. UNCHANGED vars \/ \E w \in Workers : WorkerStep(run.task, w)
      BY <1>t, ProgressIsAWorkerStep
    <2> QED BY <2>1, <1>k, <1>o, <1>p, <1>r, <1>t, WorkerStepTouchesItsTask
  <1>s. ASSUME NEW w \in Workers, NEW class, Stops(w, t, class, "plain")
        PROVE  RepairPending(tasks'[t])
    BY <1>s, <1>t, <1>p, StoppedPlainlyIsPending
  \* Any other step is taken in a stage a pending repair is not in.
  <1>n. CASE t = run.task
    <2>1. run.step \notin Integrate /\ run.step # "prepared"
      BY <1>n, <1>r, <1>p DEF Apart, InStage, RepairPending
    <2>2. tasks[t].status \notin {"validating", "reviewing"} /\ ~tasks[t].recovered
      BY <1>p DEF RepairPending
    <2>w. ASSUME NEW w \in Workers,
                 \/ StartImplementation(w) \/ FinishImplementation(w) \/ FailImplementation(w)
                 \/ SkipImplementation(w) \/ Validate(w) \/ Assess(w) \/ ReviewTask(w)
                 \/ CommitWork(w) \/ ValidateCommit(w) \/ Merge(w) \/ Revert(w)
                 \/ RecordDelivery(w) \/ RecordRefused(w)
          PROVE  RepairPending(tasks'[t])
      <3>1. CASE StartImplementation(w)
        BY <3>1, <1>n, <1>k, <1>s DEF StartImplementation
      <3>2. CASE FinishImplementation(w) \/ FailImplementation(w) \/ SkipImplementation(w)
        BY <3>2, <2>1, <2>2, <1>n
        DEF FinishImplementation, FailImplementation, SkipImplementation
      <3>3. CASE Validate(w) \/ Assess(w) \/ ReviewTask(w)
        BY <3>3, <2>2, <1>n DEF Validate, Assess, AssessHealing, ReviewTask
      <3>4. CASE \/ CommitWork(w) \/ ValidateCommit(w) \/ Merge(w) \/ Revert(w)
                 \/ RecordDelivery(w)
        BY <3>4, <2>1
        DEF CommitWork, ValidateCommit, Merge, Revert, RecordDelivery, Integrate
      <3>5. CASE RecordRefused(w) BY <3>5, <1>n, <1>s DEF RecordRefused
      <3> QED BY <2>w, <3>1, <3>2, <3>3, <3>4, <3>5
    <2> QED BY <2>w, <1>k DEF WorkerProgress, ValidateRoot, LoseLease
  <1> QED BY <1>o, <1>n

LEMMA PendingNext ==
  ASSUME Apart, [IntegrationNext]_integrationVars PROVE RejectedIsPending'
  <1>t. TypeOK /\ InFlight /\ Places /\ HasWorkspace /\ RecoveredIsUnreviewed
    BY DEF Apart, Typed
  <1> SUFFICES ASSUME NEW t \in Tasks, HoldsRejected(t)' PROVE RepairPending(tasks'[t])
    BY DEF RejectedIsPending, RepairPending, Repairs
  <1>1. CASE ~HoldsRejected(t)
    <2>1. PICK u \in Tasks : /\ OwnerDecides(u) /\ tasks'[t].archive # tasks[t].archive
                             /\ tasks[t].reviews # {}
      BY <1>1, <1>t, RejectedByReopening
    <2>2. OwnerStep(u) BY <2>1 DEF OwnerDecides, OwnerStep, Recover
    <2> QED BY <2>1, <2>2, <1>t, ReopenedByOwner
  <1>2. CASE HoldsRejected(t)
    <2>p. RepairPending(tasks[t]) BY <1>2 DEF Apart, RejectedIsPending
    <2>1. CASE WorkerProgress BY <2>1, <1>2, ProgressKeepsPending
    <2>2. ASSUME NEW u \in Tasks, OwnerDecides(u) PROVE RepairPending(tasks'[t])
      <3>1. OwnerStep(u) BY <2>2 DEF OwnerDecides, OwnerStep, Recover
      <3> QED BY <3>1, <2>p, <1>t, OwnerKeepsPending
    <2>3. CASE \/ \E w \in Workers, p \in Candidates : ClaimTask(w, p)
               \/ \E w \in Workers : HeartbeatRun(w)
               \/ Restart \/ Reconcile \/ Clock \/ \E u \in Tasks : VerifyRepair(u)
               \/ EditCanonical \/ DiscardEdits \/ UNCHANGED integrationVars
      <3>1. \/ \E w \in Workers, p \in Candidates : Claim(w, p)
            \/ \E u \in Tasks, w \in Workers : Heartbeat(u, w)
            \/ ReconcileExpired \/ Tick \/ UNCHANGED vars
        BY <2>3, <1>t DEF ClaimTask, HeartbeatRun, InFlight, Restart, Reconcile, Clock,
           VerifyRepair, EditCanonical, DiscardEdits, integrationVars, vars
      <3> QED BY <3>1, <2>p, <1>t, TickKeepsPending
    <2> QED BY <2>1, <2>2, <2>3 DEF IntegrationNext
  <1> QED BY <1>1, <1>2

LEMMA StaysOutNext ==
  ASSUME Apart, [IntegrationNext]_integrationVars PROVE RejectedWorkStaysOut'
  <1>t. InFlight /\ Places /\ HasWorkspace /\ RejectedWorkStaysOut BY DEF Apart, Typed
  <1>k. CASE branch' = branch BY <1>k, <1>t DEF RejectedWorkStaysOut, HeadCommit
  <1>a. ASSUME NEW c \in Commit, branch' = Append(branch, c), ~c.rejected
        PROVE  RejectedWorkStaysOut'
    <2>1. HeadCommit \in Nat /\ HeadCommit' = HeadCommit + 1 BY <1>a, <1>t, Grown DEF Places
    <2>2. \A i \in 1..HeadCommit : branch'[i] = branch[i]
      BY <1>a, <1>t DEF Places, Branched, HeadCommit
    <2>3. branch'[HeadCommit + 1] = c
      BY <1>a, <1>t DEF Places, Branched, HeadCommit
    <2>4. ASSUME NEW i \in 1..(HeadCommit + 1) PROVE ~branch'[i].rejected
      <3>1. CASE i = HeadCommit + 1 BY <3>1, <2>3, <1>a
      <3>2. CASE i # HeadCommit + 1
        <4>1. i \in 1..HeadCommit BY <2>1, <3>2
        <4> QED BY <4>1, <2>2, <1>t DEF RejectedWorkStaysOut
      <3> QED BY <3>1, <3>2
    <2> QED BY <2>1, <2>4 DEF RejectedWorkStaysOut
  <1>o. CASE branch' = Append(branch, OutsideCommit)
    <2>1. ~OutsideCommit.rejected BY DEF OutsideCommit
    <2> QED BY <2>1, <1>o, <1>a, OutsideIsACommit
  <1>b. CASE branch' = Baseline BY <1>b, <1>k, <1>o DEF Baseline
  <1>m. ASSUME NEW w \in Workers, Merge(w) PROVE RejectedWorkStaysOut'
    <2> DEFINE t == run.task
               c == [by |-> t, on |-> active[t], undoes |-> 0,
                     rejected |-> worktrees[t][active[t]].rejected]
    <2>1. CASE branch' # branch
      <3>1. /\ branch' = Append(branch, c) /\ run.step = "checked" /\ HeadCommit = active[t]
        BY <2>1, <1>m DEF Merge, Merged
      <3>2. run # Idle /\ t \in Tasks BY <3>1, <1>t DEF InFlight, Idle
      <3>3. active[t] # 0 BY <3>1, <3>2, <1>t DEF HasWorkspace
      <3>4. /\ active[t] \in DOMAIN worktrees[t] /\ worktrees[t][active[t]] \in Worktree
            /\ active[t] \in Nat
        BY <3>2, <3>3, <1>t DEF Places, Located, Trees
      <3>5. c \in Commit BY <3>2, <3>4 DEF Commit, Worktree
      <3>6. tasks[t].status = "integrating"
        BY <3>1, <3>2 DEF Apart, InStage, Integrate
      <3>7. ~HoldsRejected(t) BY <3>2, <3>6 DEF Apart, RejectedIsPending, RepairPending
      <3>8. ~c.rejected BY <3>1, <3>4, <3>7 DEF HoldsRejected
      <3> HIDE DEF c
      <3> QED BY <3>1, <3>5, <3>8, <1>a
    <2> QED BY <2>1, <1>k
  <1>r. ASSUME NEW w \in Workers, Revert(w) PROVE RejectedWorkStaysOut'
    <2> DEFINE t == run.task
               c == [OutsideCommit EXCEPT !.by = t, !.undoes = Delivered(t)]
    <2>1. CASE branch' # branch
      <3>1. branch' = Append(branch, c) /\ run.step \in {"failed", "threw"}
        BY <2>1, <1>r DEF Revert, Reverted
      <3>2. t \in Tasks BY <3>1, <1>t DEF InFlight, Idle
      <3>3. Delivered(t) \in Nat BY <3>2, <1>t DEF Delivered, Places, Located
      <3>4. c \in Commit /\ ~c.rejected
        BY <3>2, <3>3 DEF Commit, OutsideCommit, NoTask
      <3> HIDE DEF c
      <3> QED BY <3>1, <3>4, <1>a
    <2> QED BY <2>1, <1>k
  <1>1. CASE WorkerProgress
    <2>1. ASSUME NEW w \in Workers,
                 \/ StartImplementation(w) \/ FinishImplementation(w) \/ FailImplementation(w)
                 \/ SkipImplementation(w) \/ Validate(w) \/ Assess(w) \/ ReviewTask(w)
                 \/ CommitWork(w) \/ ValidateCommit(w)
                 \/ RecordDelivery(w) \/ RecordRefused(w)
          PROVE  branch' \in {branch, Baseline}
      BY <2>1 DEF StartImplementation, FinishImplementation, FailImplementation, Applies,
                  SkipImplementation, Validate, Assess, ReviewTask, CommitWork,
                  ValidateCommit, RecordDelivery, RecordRefused, Prepares, disk, canonical
    <2>2. CASE ValidateRoot \/ LoseLease
      BY <2>2, <1>k DEF ValidateRoot, LoseLease, disk, canonical
    <2> QED BY <1>1, <2>1, <2>2, <1>k, <1>b, <1>m, <1>r DEF WorkerProgress
  <1>2. ASSUME NEW t \in Tasks, VerifyRepair(t) PROVE RejectedWorkStaysOut'
    BY <1>2, <1>b DEF VerifyRepair, Prepares
  <1>3. CASE EditCanonical BY <1>3, <1>k, <1>o DEF EditCanonical
  <1>4. CASE \/ \E w \in Workers, p \in Candidates : ClaimTask(w, p)
             \/ \E w \in Workers : HeartbeatRun(w)
             \/ Restart \/ Reconcile \/ Clock \/ DiscardEdits
             \/ \E t \in Tasks : OwnerDecides(t)
             \/ UNCHANGED integrationVars
    BY <1>4, <1>k DEF ClaimTask, HeartbeatRun, Restart, Reconcile, Clock, DiscardEdits,
                      OwnerDecides, disk, canonical, integrationVars
  <1> QED BY <1>1, <1>2, <1>3, <1>4 DEF IntegrationNext

LEMMA InStageNext ==
  ASSUME Independent, Apart, [IntegrationNext]_integrationVars PROVE InStage'
  <1> PICK t : t = run.task OBVIOUS
  <1>t. TypeOK /\ InFlight /\ Places /\ HasWorkspace BY DEF Apart, Typed
  <1>r. run # Idle => run \in Run /\ t \in Tasks BY <1>t DEF InFlight
  <1>i. CASE run' = Idle BY <1>i DEF InStage
  <1>n. ASSUME run'.step \notin Integrate, run'.step # "prepared" PROVE InStage'
    BY <1>n DEF InStage
  <1>f. \A u : Begun(u).step = "working" BY DEF Begun
  \* A step between the tick's own leaves the stage of its task alone.
  <1>b. ASSUME run' = run,
               run # Idle => tasks'[t].status = tasks[t].status,
               run # Idle /\ HoldsRejected(t)' => HoldsRejected(t)
        PROVE  InStage'
    BY <1>b DEF Apart, InStage
  <1>m. ASSUME run # Idle, run.step \in Integrate, run'.task = t, run'.step # "prepared",
               UNCHANGED vars
        PROVE  InStage'
    BY <1>m DEF Apart, InStage, vars
  <1>c. ASSUME NEW w \in Workers, NEW p \in Candidates, ClaimTask(w, p) PROVE InStage'
    <2>1. PICK u \in Tasks : run' = Begun(u) BY <1>c DEF ClaimTask
    <2> QED BY <2>1, <1>f, <1>n DEF Integrate
  <1>h. ASSUME NEW w \in Workers, HeartbeatRun(w) PROVE InStage'
    <2>1. t \in Tasks /\ Heartbeat(t, w) /\ UNCHANGED <<branch, worktrees, run>>
      BY <1>h, <1>r DEF HeartbeatRun, disk
    <2>2. tasks'[t] = [tasks[t] EXCEPT !.ttl = LeaseTicks]
      BY <2>1, <1>t, Replaced DEF Heartbeat
    <2>3. tasks'[t].status = tasks[t].status BY <2>1, <2>2, <1>t, TaskType DEF Task
    <2>4. HoldsRejected(t)' => HoldsRejected(t) BY <2>1, UnmovedHolds
    <2> QED BY <2>1, <2>3, <2>4, <1>b
  <1>p. CASE WorkerProgress
    <2>r. run # Idle /\ run \in Run /\ t \in Tasks BY <1>p, <1>r DEF WorkerProgress
    <2>t. \A s \in Steps : To(s) => run'.task = t /\ run'.step = s
      BY <2>r DEF To, Run
    <2>s. ASSUME NEW w \in Workers, NEW class, NEW note, Stops(w, t, class, note)
          PROVE  InStage'
      BY <2>s, <1>i DEF Stops
    <2>w. ASSUME NEW w \in Workers,
                 \/ StartImplementation(w) \/ FinishImplementation(w) \/ FailImplementation(w)
                 \/ SkipImplementation(w) \/ Validate(w) \/ Assess(w) \/ ReviewTask(w)
                 \/ CommitWork(w) \/ ValidateCommit(w) \/ Merge(w) \/ Revert(w)
                 \/ RecordDelivery(w) \/ RecordRefused(w)
          PROVE  InStage'
      <3>1. CASE StartImplementation(w)
        <4>1. ASSUME To("prepared"), UNCHANGED vars, Implementing(tasks[t]), ~HoldsRejected(t)'
              PROVE  InStage'
          <5>1. run'.task = t /\ run'.step = "prepared" BY <4>1, <2>t DEF Steps
          <5>2. tasks'[t].status \in {"running", "healing"} BY <4>1 DEF Implementing, vars
          <5> QED BY <5>1, <5>2, <4>1 DEF InStage, Integrate
        <4>2. HoldsRejected(t) => Repairs(tasks[t])
          BY <2>r DEF Apart, RejectedIsPending, RepairPending
        <4>3. CASE /\ ~(active[t] = 0 \/ Repairs(tasks[t]))
                   /\ To("prepared") /\ UNCHANGED <<vars, canonical, worktrees, active>>
          <5>1. ~HoldsRejected(t)' BY <4>2, <4>3, <2>r, UnmovedHolds DEF canonical
          <5> QED BY <5>1, <4>1, <4>3, <3>1 DEF StartImplementation
        <4>4. CASE Prepares(t, Repairs(tasks[t])) /\ To("prepared") /\ UNCHANGED vars
          <5>1. Repairs(tasks[t]) \in BOOLEAN BY DEF Repairs
          <5>2. ~HoldsRejected(t)' BY <5>1, <4>2, <4>4, <2>r, <1>t, PreparedHolds
          <5> QED BY <5>2, <4>1, <4>4, <3>1 DEF StartImplementation
        <4> QED BY <3>1, <4>3, <4>4, <2>s DEF StartImplementation
      <3>2. CASE FinishImplementation(w)
        BY <3>2, <2>t, <1>n DEF FinishImplementation, Steps, Integrate
      <3>3. CASE FailImplementation(w) BY <3>3, <1>i DEF FailImplementation
      <3>4. CASE SkipImplementation(w)
        BY <3>4, <1>n DEF SkipImplementation, Integrate
      <3>5. CASE Validate(w)
        BY <3>5, <2>t, <2>s, <1>n DEF Validate, Steps, Integrate
      <3>6. CASE Assess(w)
        BY <3>6, <1>f, <1>n, <1>i DEF Assess, Integrate
      <3>7. CASE ReviewTask(w)
        <4>1. CASE tasks'[t].status = "integrating" /\ To("integrating")
          BY <4>1, <2>t DEF InStage, Steps
        <4> QED BY <3>7, <4>1, <2>s, <1>i DEF ReviewTask
      <3>8. CASE CommitWork(w)
        BY <3>8, <2>r, <2>s, <1>m DEF CommitWork, Run, Integrate
      <3>9. CASE ValidateCommit(w)
        BY <3>9, <2>r, <2>t, <2>s, <1>m DEF ValidateCommit, Steps, Integrate
      <3>10. CASE Merge(w)
        BY <3>10, <2>r, <2>t, <2>s, <1>m DEF Merge, Steps, Integrate
      <3>11. CASE Revert(w) BY <3>11, <2>s DEF Revert
      <3>12. CASE RecordDelivery(w) BY <3>12, <1>i DEF RecordDelivery
      <3>13. CASE RecordRefused(w) BY <3>13, <2>s DEF RecordRefused
      <3> QED BY <2>w, <3>1, <3>2, <3>3, <3>4, <3>5, <3>6, <3>7, <3>8, <3>9, <3>10,
                 <3>11, <3>12, <3>13
    <2>x. CASE ValidateRoot
      BY <2>x, <2>r, <2>t, <1>m DEF ValidateRoot, Steps, Integrate
    <2>l. CASE LoseLease BY <2>l, <1>i DEF LoseLease
    <2> QED BY <1>p, <2>w, <2>x, <2>l DEF WorkerProgress
  <1>o. ASSUME NEW u \in Tasks, OwnerDecides(u) PROVE InStage'
    <2>1. OwnerStep(u) /\ run' = run /\ branch' = branch
      BY <1>o DEF OwnerDecides, OwnerStep, Recover, canonical
    <2>2. CASE /\ run # Idle
               /\ tasks[t].status \in {"running", "healing", "integrating"}
      <3>1. t \in Tasks /\ tasks'[t] = tasks[t]
        BY <2>1, <2>2, <1>r, <1>t, OwnerLeavesTheWorkerAlone
      <3>2. worktrees'[t] = worktrees[t] BY <3>1, <1>o DEF OwnerDecides, MarkRejected
      <3>3. HoldsRejected(t)' => HoldsRejected(t) BY <3>1, <3>2, <2>1, UnmovedHolds
      <3> QED BY <2>1, <3>1, <3>3, <1>b
    <2>3. CASE run = Idle BY <2>1, <2>3, <1>i
    <2>4. CASE /\ run # Idle
               /\ tasks[t].status \notin {"running", "healing", "integrating"}
      <3>1. run.step \notin Integrate /\ run.step # "prepared"
        BY <2>4 DEF Apart, InStage
      <3> QED BY <3>1, <2>1, <1>n
    <2> QED BY <2>2, <2>3, <2>4
  <1>z. CASE \/ Reconcile \/ Restart \/ Clock \/ \E u \in Tasks : VerifyRepair(u)
             \/ EditCanonical \/ DiscardEdits \/ UNCHANGED integrationVars
    <2>1. CASE Restart BY <2>1, <1>i DEF Restart
    <2>2. CASE Reconcile BY <2>2, <1>i DEF Reconcile
    <2>3. CASE Clock
      <3>1. run' = run /\ UNCHANGED <<branch, worktrees>> BY <2>3 DEF Clock, disk
      <3>2. run # Idle => tasks'[t].status = tasks[t].status
        BY <2>3, <1>r, <1>t, TaskType DEF Clock, Tick, Task
      <3>3. run # Idle /\ HoldsRejected(t)' => HoldsRejected(t)
        BY <3>1, <1>r, UnmovedHolds
      <3> QED BY <3>1, <3>2, <3>3, <1>b
    <2>4. ASSUME NEW u \in Tasks, VerifyRepair(u) PROVE InStage'
      <3>1. run # Idle /\ HoldsRejected(t)' => HoldsRejected(t)
        BY <2>4, <1>r, <1>t, PreparedHolds DEF VerifyRepair
      <3> QED BY <3>1, <2>4, <1>b DEF VerifyRepair, vars
    <2>5. CASE EditCanonical
      <3>1. run # Idle /\ HoldsRejected(t)' => HoldsRejected(t)
        BY <2>5, <1>r, <1>t, BranchMoveHolds, OutsideIsACommit DEF EditCanonical
      <3> QED BY <3>1, <2>5, <1>b DEF EditCanonical, vars
    <2>6. CASE DiscardEdits \/ UNCHANGED integrationVars
      <3>1. UNCHANGED <<vars, branch, worktrees, run>>
        BY <2>6 DEF DiscardEdits, integrationVars, vars
      <3>2. run # Idle /\ HoldsRejected(t)' => HoldsRejected(t)
        BY <3>1, <1>r, UnmovedHolds
      <3> QED BY <3>1, <3>2, <1>b DEF vars
    <2> QED BY <1>z, <2>1, <2>2, <2>3, <2>4, <2>5, <2>6
  <1> QED BY <1>c, <1>h, <1>p, <1>o, <1>z DEF IntegrationNext

LEMMA InitApart == IntegrationInit => Apart
  <1> SUFFICES ASSUME IntegrationInit PROVE Apart OBVIOUS
  <1>1. Typed BY InitTyped
  <1>2. RecoveredIsUnreviewed
    BY DEF IntegrationInit, Init, RecoveredIsUnreviewed, Unreviewed, NewTask
  <1>3. RejectedWorkStaysOut
    BY DEF IntegrationInit, RejectedWorkStaysOut, HeadCommit, OutsideCommit
  <1>4. RejectedIsPending BY DEF IntegrationInit, RejectedIsPending, HoldsRejected
  <1>5. InStage BY DEF IntegrationInit, InStage
  <1> QED BY <1>1, <1>2, <1>3, <1>4, <1>5 DEF Apart

LEMMA NextApart ==
  ASSUME Independent PROVE Apart /\ [IntegrationNext]_integrationVars => Apart'
  <1> SUFFICES ASSUME Apart, [IntegrationNext]_integrationVars PROVE Apart'
    OBVIOUS
  <1>1. Typed' BY NextTyped DEF Apart
  <1>2. RecoveredIsUnreviewed'
    <2>1. TypeOK /\ InFlight /\ RecoveredIsUnreviewed BY DEF Apart, Typed
    <2> QED BY <2>1, StepIsAServiceStep, NextUnreviewed
  <1> QED BY <1>1, <1>2, PendingNext, StaysOutNext, InStageNext DEF Apart

\* Where no task is built on another, what reviewers or the clean checkout
\* rejected never reaches the branch: for any number of tasks, edits, restarts
\* and repairs. A worktree that holds it belongs to a repair, a repair is given
\* a fresh one before anything is recorded for it, and nothing the owner can
\* authorize meanwhile - an environment retry, a recovery, another repair - ends
\* the repair. Between dependent tasks this is not so: integrate does not look
\* at the record again, and a repaired prerequisite reopens what it is merging.
THEOREM RejectedWorkIsRedone ==
  ASSUME Independent
  PROVE  IntegrationSpec => []RejectedWorkStaysOut
  <1>1. Apart /\ [IntegrationNext]_integrationVars => Apart' BY NextApart
  <1>2. Apart => RejectedWorkStaysOut BY DEF Apart
  <1> QED BY <1>1, <1>2, InitApart, PTL DEF IntegrationSpec

-----------------------------------------------------------------------------
(* Completed work is in effect, and lies on its prerequisites' changes, as   *)
(* long as nothing was reopened: from then on a task may be completed        *)
(* without a change of its own.                                             *)

NothingReopened == \A t \in Tasks : tasks[t].archive = <<>>

\* Without approvals nothing ever is.
LEMMA NoApprovalsNoReopening ==
  ASSUME Approvals = {}, TypeOK
  PROVE  NothingReopened
  <1> SUFFICES ASSUME NEW t \in Tasks PROVE tasks[t].archive = <<>>
    BY DEF NothingReopened
  <1>1. tasks[t].archive \in Seq(Attempt) BY TaskType DEF Task
  <1>2. Attempt = {} BY DEF Attempt
  <1> QED BY <1>1, <1>2

LEMMA ArchivesOnlyGrow ==
  ASSUME TypeOK, AllArchive, NothingReopened'
  PROVE  NothingReopened
  <1> SUFFICES ASSUME NEW t \in Tasks PROVE tasks[t].archive = <<>>
    BY DEF NothingReopened
  <1>1. tasks[t].archive \in Seq(Attempt) BY TaskType DEF Task
  <1>2. tasks'[t].archive = <<>> BY DEF NothingReopened
  <1>3. Archives(tasks[t], tasks'[t]) BY DEF AllArchive
  <1>4. \A x : Append(tasks[t].archive, x) # <<>> BY <1>1
  <1> QED BY <1>2, <1>3, <1>4 DEF Archives, EvidenceKept

\* While nothing is reopened the owner only takes stopped tasks up again.
LEMMA OwnerTakesUpStopped ==
  ASSUME TypeOK, NothingReopened', NEW u \in Tasks, OwnerStep(u), NEW t \in Tasks
  PROVE  \/ tasks'[t] = tasks[t]
         \/ tasks[t].status \in {"needs_user", "quarantined"} /\ tasks'[t].status = "queued"
  <1>t. tasks[u] \in Task /\ tasks[u].archive \in Seq(Attempt) BY TaskType DEF Task
  <1>a. \A x : Append(tasks[u].archive, x) # <<>> BY <1>t
  <1>n. \A a, class : tasks'[u] # Reopened(tasks[u], a, class)
    BY <1>t, <1>a, ErasedEvidence DEF NothingReopened
  <1>1. ASSUME NEW a \in Approvals PROVE ~AuthorizeCompletedRepair(u, a)
    BY <1>n DEF AuthorizeCompletedRepair, StoreProjected
  <1>2. ASSUME NEW a \in Approvals PROVE ~AuthorizeReviewRepair(u, a)
    BY <1>n, Replaced DEF AuthorizeReviewRepair
  <1>3. CASE AuthorizeEnvironmentRetry(u)
    <2> DEFINE r == [tasks[u] EXCEPT !.status = "queued", !.provider = Nobody, !.note = "plain"]
    <2>1. StoreProjected(Replace(u, r)) /\ tasks[u].status = "needs_user"
      BY <1>3 DEF AuthorizeEnvironmentRetry, EnvironmentRetryAllowed
    <2>2. r.status = "queued" BY <1>t DEF Task
    <2> HIDE DEF r
    <2> QED BY <2>1, <2>2, Replaced
  <1>4. CASE AuthorizeQuarantineRecovery(u)
    <2> DEFINE r == [tasks[u] EXCEPT !.status = "queued", !.provider = Nobody,
                                     !.recovered = TRUE, !.note = "plain"]
    <2>1. StoreProjected(Replace(u, r)) /\ tasks[u].status \in {"needs_user", "quarantined"}
      BY <1>4 DEF AuthorizeQuarantineRecovery, QuarantineRecoveryAllowed
    <2>2. r.status = "queued" BY <1>t DEF Task
    <2> HIDE DEF r
    <2> QED BY <2>1, <2>2, Replaced
  <1> QED BY <1>1, <1>2, <1>3, <1>4 DEF OwnerStep

\* What a worker does to its task short of recording its delivery.
Unfinished(t, w) ==
  \/ Heartbeat(t, w) \/ RecordImplementation(t, w)
  \/ \E tier \in {"fast", "full"} :
       RecordPass(t, w, tier) \/ \E d \in Digests : RecordFailure(t, w, tier, d)
  \/ \E class : AssessHealing(t, w, class)
  \/ \E panel : RecordReviews(t, w, panel)
  \/ \E p : ReleaseForRetry(t, w) \/ ReleaseContractFailureForRetry(t, w, p)
  \/ \E class, note : Interrupt(t, w, class, note)

LEMMA StagesSeen ==
  ASSUME TypeOK, TypeOK'
  PROVE  /\ UNCHANGED Board!vars
              => \A t \in Tasks : tasks'[t].status = "completed" <=> tasks[t].status = "completed"
         /\ \A S, s : Board!Release(S, s) /\ s # "completed"
              => \A t \in Tasks : tasks'[t].status = "completed" => tasks[t].status = "completed"
  <1>1. \A t \in Tasks : tasks[t].status \in Statuses /\ tasks'[t].status \in Statuses
    BY DEF TypeOK, Task
  <1>2. ASSUME NEW t \in Tasks
        PROVE  /\ StageOf(tasks[t].status) = "completed" <=> tasks[t].status = "completed"
               /\ StageOf(tasks'[t].status) = "completed" <=> tasks'[t].status = "completed"
    BY <1>1, Stages
  <1>3. ASSUME UNCHANGED Board!vars, NEW t \in Tasks
        PROVE  StageOf(tasks'[t].status) = StageOf(tasks[t].status)
    BY <1>3 DEF Board!vars
  <1>4. ASSUME NEW S, NEW s, Board!Release(S, s), s # "completed", NEW t \in Tasks
        PROVE  StageOf(tasks'[t].status) \in {s, StageOf(tasks[t].status)}
    BY <1>4 DEF Board!Release
  <1> QED BY <1>2, <1>3, <1>4

LEMMA UnfinishedCompletesNothing ==
  ASSUME TypeOK, TypeOK', Held, NEW t \in Tasks, NEW w, Unfinished(t, w),
         NEW u \in Tasks, tasks'[u].status = "completed"
  PROVE  tasks[u].status = "completed"
  <1>k. CASE UNCHANGED Board!vars BY <1>k, StagesSeen
  <1>s. ASSUME NEW s \in {"queued", "needs_user", "quarantined"}, Board!Stop(t, s)
        PROVE  tasks[u].status = "completed"
    <2>1. Board!Release({t}, s) /\ s # "completed" BY <1>s DEF Board!Stop
    <2> QED BY <2>1, StagesSeen
  <1>1. ASSUME NEW class, AssessHealing(t, w, class) PROVE tasks[u].status = "completed"
    BY <1>1, <1>k, <1>s, HealingSteps
  <1>2. ASSUME NEW panel, RecordReviews(t, w, panel) PROVE tasks[u].status = "completed"
    BY <1>2, <1>k, <1>s, ReviewSteps
  <1>3. ASSUME NEW p, ReleaseForRetry(t, w) \/ ReleaseContractFailureForRetry(t, w, p)
        PROVE  tasks[u].status = "completed"
    BY <1>3, <1>s, RetrySteps
  <1>4. ASSUME NEW class, NEW note, Interrupt(t, w, class, note)
        PROVE  tasks[u].status = "completed"
    BY <1>4, <1>s, InterruptStops
  <1> QED BY <1>1, <1>2, <1>3, <1>4, <1>k, HeartbeatUnseen, RecordedUnseen DEF Unfinished

\* Only the delivery of the task a tick is at completes a task.
LEMMA OnlyDeliveryCompletes ==
  ASSUME TypeOK, TypeOK', Held, InFlight, NothingReopened', [IntegrationNext]_integrationVars,
         \A w \in Workers : ~RecordDelivery(w),
         NEW u \in Tasks, tasks'[u].status = "completed"
  PROVE  tasks[u].status = "completed"
  <1>k. CASE UNCHANGED vars BY <1>k DEF vars
  <1>1. CASE WorkerProgress
    <2>t. run.task \in Tasks BY <1>1 DEF InFlight, WorkerProgress
    <2>u. ASSUME NEW w, Unfinished(run.task, w) PROVE tasks[u].status = "completed"
      BY <2>t, <2>u, UnfinishedCompletesNothing
    <2>s. ASSUME NEW w, NEW class, NEW note, Stops(w, run.task, class, note)
          PROVE  tasks[u].status = "completed"
      BY <2>s, <2>u, <1>k DEF Stops, Unfinished
    <2>w. ASSUME NEW w \in Workers,
                 \/ StartImplementation(w) \/ FinishImplementation(w) \/ FailImplementation(w)
                 \/ SkipImplementation(w) \/ Validate(w) \/ Assess(w) \/ ReviewTask(w)
                 \/ CommitWork(w) \/ ValidateCommit(w) \/ Merge(w) \/ Revert(w)
                 \/ RecordRefused(w)
          PROVE  tasks[u].status = "completed"
      <3>1. CASE StartImplementation(w) BY <3>1, <2>s, <1>k DEF StartImplementation
      <3>2. CASE FinishImplementation(w) \/ SkipImplementation(w)
        BY <3>2, <2>u DEF FinishImplementation, SkipImplementation, Unfinished
      <3>3. CASE FailImplementation(w) BY <3>3, <2>u DEF FailImplementation, Unfinished
      <3>4. CASE Validate(w) BY <3>4, <2>s, <2>u DEF Validate, Unfinished
      <3>5. CASE Assess(w) BY <3>5, <2>u DEF Assess, Unfinished
      <3>6. CASE ReviewTask(w) BY <3>6, <2>s, <2>u DEF ReviewTask, Unfinished
      <3>7. CASE CommitWork(w) BY <3>7, <2>s, <1>k DEF CommitWork
      <3>8. CASE ValidateCommit(w) BY <3>8, <2>s, <1>k DEF ValidateCommit
      <3>9. CASE Merge(w) BY <3>9, <2>s, <1>k DEF Merge
      <3>10. CASE Revert(w) BY <3>10, <2>s DEF Revert
      <3>11. CASE RecordRefused(w) BY <3>11, <2>s DEF RecordRefused
      <3> QED BY <2>w, <3>1, <3>2, <3>3, <3>4, <3>5, <3>6, <3>7, <3>8, <3>9, <3>10, <3>11
    <2> QED BY <1>1, <2>w, <1>k DEF WorkerProgress, ValidateRoot, LoseLease
  <1>2. ASSUME NEW w \in Workers, NEW p \in Candidates, ClaimTask(w, p)
        PROVE  tasks[u].status = "completed"
    <2>1. PICK t \in Tasks : Board!Start(t, w) BY <1>2, ClaimStarts DEF ClaimTask
    <2>2. StageOf(tasks'[u].status) \in {"active", StageOf(tasks[u].status)}
      BY <2>1 DEF Board!Start
    <2>3. tasks[u].status \in Statuses /\ tasks'[u].status \in Statuses BY DEF TypeOK, Task
    <2> QED BY <2>2, <2>3, Stages
  <1>3. ASSUME NEW w \in Workers, HeartbeatRun(w) PROVE tasks[u].status = "completed"
    BY <1>3, HeartbeatUnseen, StagesSeen DEF HeartbeatRun, InFlight
  <1>4. CASE Reconcile
    <2>1. PICK S : Board!Release(S, "needs_user")
      BY <1>4, ReconcileReconciles DEF Reconcile, Board!Reconcile
    <2> QED BY <2>1, StagesSeen
  <1>5. CASE Clock BY <1>5, TaskType DEF Clock, Tick, Task
  <1>6. ASSUME NEW t \in Tasks, OwnerDecides(t) PROVE tasks[u].status = "completed"
    <2>1. OwnerStep(t) BY <1>6 DEF OwnerDecides, OwnerStep, Recover
    <2> QED BY <2>1, OwnerTakesUpStopped
  <1> QED BY <1>1, <1>2, <1>3, <1>4, <1>5, <1>6, <1>k
    DEF IntegrationNext, Restart, VerifyRepair, EditCanonical, DiscardEdits, integrationVars, vars

-----------------------------------------------------------------------------
(* What growing does to the effects of a branch.                            *)

LEMMA BranchGrows ==
  ASSUME Branched, NEW c, branch' = Append(branch, c)
  PROVE  /\ HeadCommit \in Nat \ {0} /\ HeadCommit' = HeadCommit + 1
         /\ \A i \in 1..HeadCommit : branch'[i] = branch[i]
         /\ branch'[HeadCommit + 1] = c
  BY DEF Branched, HeadCommit

\* What was in effect at a commit stays so, whatever follows.
LEMMA EffectsArePast ==
  ASSUME Branched, NEW c, branch' = Append(branch, c),
         NEW t, NEW n \in 0..HeadCommit, InEffect(t, n)
  PROVE  InEffect(t, n)'
  <1>1. /\ HeadCommit \in Nat /\ \A i \in 1..HeadCommit : branch'[i] = branch[i]
    BY BranchGrows
  <1>2. PICK i \in 1..n : /\ branch[i].by = t /\ ChangeAt(i)
                          /\ \A j \in i..n : branch[j].undoes # i
    BY DEF InEffect
  <1>3. i \in 1..HeadCommit /\ i..n \subseteq 1..HeadCommit BY <1>1
  <1>4. branch'[i].by = t /\ ChangeAt(i)' /\ \A j \in i..n : branch'[j].undoes # i
    BY <1>1, <1>2, <1>3 DEF ChangeAt
  <1> QED BY <1>2, <1>4 DEF InEffect

\* A change is still in effect after a commit that is no revert of it.
LEMMA EffectOutlives ==
  ASSUME Branched, NEW c, branch' = Append(branch, c),
         NEW t, InEffect(t, HeadCommit),
         \A i \in 1..HeadCommit : c.undoes = i => branch[i].by # t
  PROVE  InEffect(t, HeadCommit)'
  <1>1. /\ HeadCommit \in Nat /\ HeadCommit' = HeadCommit + 1
        /\ \A i \in 1..HeadCommit : branch'[i] = branch[i]
        /\ branch'[HeadCommit + 1] = c
    BY BranchGrows
  <1>2. PICK i \in 1..HeadCommit : /\ branch[i].by = t /\ ChangeAt(i)
                                   /\ \A j \in i..HeadCommit : branch[j].undoes # i
    BY DEF InEffect
  <1>3. branch'[i].by = t /\ ChangeAt(i)' BY <1>1, <1>2 DEF ChangeAt
  <1>4. ASSUME NEW j \in i..(HeadCommit + 1) PROVE branch'[j].undoes # i
    <2>1. CASE j = HeadCommit + 1 BY <2>1, <1>1, <1>2
    <2>2. CASE j # HeadCommit + 1
      <3>1. j \in i..HeadCommit /\ j \in 1..HeadCommit BY <2>2, <1>1
      <3> QED BY <3>1, <1>1, <1>2
    <2> QED BY <2>1, <2>2
  <1>5. i \in 1..(HeadCommit + 1) BY <1>1
  <1>6. \E k \in 1..(HeadCommit + 1) : /\ branch'[k].by = t /\ ChangeAt(k)'
                                       /\ \A j \in k..(HeadCommit + 1) : branch'[j].undoes # k
    BY <1>3, <1>4, <1>5
  <1> QED BY <1>1, <1>6 DEF InEffect

\* The change a tick has merged: on its baseline, and not reverted.
Landed(t) ==
  LET i == active[t] + 1 IN
  /\ i \in 1..HeadCommit /\ branch[i].by = t /\ ChangeAt(i)
  /\ \A j \in i..HeadCommit : branch[j].undoes # i

LEMMA LandedIsInEffect ==
  ASSUME NEW t, Landed(t) PROVE InEffect(t, HeadCommit)
  BY DEF Landed, InEffect

LEMMA LandedOutlives ==
  ASSUME Branched, NEW t, Landed(t), active'[t] = active[t],
         branch' \in {branch, Append(branch, OutsideCommit)}
  PROVE  Landed(t)'
  <1>1. CASE branch' = branch BY <1>1 DEF Landed, HeadCommit, ChangeAt
  <1>2. CASE branch' = Append(branch, OutsideCommit)
    <2> PICK i : i = active[t] + 1 OBVIOUS
    <2>1. /\ HeadCommit \in Nat /\ HeadCommit' = HeadCommit + 1
          /\ \A k \in 1..HeadCommit : branch'[k] = branch[k]
          /\ branch'[HeadCommit + 1] = OutsideCommit
      BY <1>2, BranchGrows
    <2>2. /\ i \in 1..HeadCommit /\ branch[i].by = t /\ ChangeAt(i)
          /\ \A j \in i..HeadCommit : branch[j].undoes # i
      BY DEF Landed
    <2>3. branch'[i].by = t /\ ChangeAt(i)' BY <2>1, <2>2 DEF ChangeAt
    <2>4. ASSUME NEW j \in i..(HeadCommit + 1) PROVE branch'[j].undoes # i
      <3>1. CASE j = HeadCommit + 1 BY <3>1, <2>1, <2>2 DEF OutsideCommit
      <3>2. CASE j # HeadCommit + 1
        <4>1. j \in i..HeadCommit /\ j \in 1..HeadCommit BY <3>2, <2>1, <2>2
        <4> QED BY <4>1, <2>1, <2>2
      <3> QED BY <3>1, <3>2
    <2>5. i \in 1..(HeadCommit + 1) /\ i = active'[t] + 1 BY <2>1, <2>2
    <2> QED BY <2>1, <2>3, <2>4, <2>5 DEF Landed
  <1> QED BY <1>1, <1>2

\* Apart from what Codkesh and the owner commit of their own, the branch only
\* takes merges and reverts.
LEMMA BranchMovesBy ==
  ASSUME [IntegrationNext]_integrationVars
  PROVE  \/ branch' \in {branch, Append(branch, OutsideCommit)}
         \/ \E w \in Workers : Merge(w) \/ Revert(w)
  <1>b. CASE branch' \in {branch, Baseline} BY <1>b DEF Baseline
  <1>1. CASE WorkerProgress
    <2>1. ASSUME NEW w \in Workers,
                 \/ StartImplementation(w) \/ FinishImplementation(w) \/ FailImplementation(w)
                 \/ SkipImplementation(w) \/ Validate(w) \/ Assess(w) \/ ReviewTask(w)
                 \/ CommitWork(w) \/ ValidateCommit(w)
                 \/ RecordDelivery(w) \/ RecordRefused(w)
          PROVE  branch' \in {branch, Baseline}
      BY <2>1 DEF StartImplementation, FinishImplementation, FailImplementation, Applies,
                  SkipImplementation, Validate, Assess, ReviewTask, CommitWork,
                  ValidateCommit, RecordDelivery, RecordRefused, Prepares, disk, canonical
    <2>2. CASE ValidateRoot \/ LoseLease
      BY <2>2 DEF ValidateRoot, LoseLease, disk, canonical
    <2> QED BY <1>1, <2>1, <2>2, <1>b DEF WorkerProgress
  <1>2. ASSUME NEW t \in Tasks, VerifyRepair(t) PROVE branch' = Baseline
    BY <1>2 DEF VerifyRepair, Prepares
  <1>3. CASE EditCanonical BY <1>3 DEF EditCanonical
  <1>4. CASE \/ \E w \in Workers, p \in Candidates : ClaimTask(w, p)
             \/ \E w \in Workers : HeartbeatRun(w)
             \/ Restart \/ Reconcile \/ Clock \/ DiscardEdits
             \/ \E t \in Tasks : OwnerDecides(t)
             \/ UNCHANGED integrationVars
    BY <1>4 DEF ClaimTask, HeartbeatRun, Restart, Reconcile, Clock, DiscardEdits,
                OwnerDecides, disk, canonical, integrationVars
  <1> QED BY <1>1, <1>2, <1>3, <1>4, <1>b DEF IntegrationNext

-----------------------------------------------------------------------------
(* Where a tick is inside integrate.                                        *)

\* Its task is integrating, it found changes to commit, and from the merge on
\* its change is the one on top of its baseline.
Midway ==
  /\ run.step \in Integrate => tasks[run.task].status = "integrating"
  /\ run.step \in Integrate \ {"integrating"} => run.made
  /\ run.step \in {"merged", "verified", "failed", "threw"} => Landed(run.task)

LEMMA MidwayBetween ==
  ASSUME InFlight, Places, HasWorkspace, Midway, run' = run,
         run # Idle /\ tasks[run.task].status = "integrating"
           => tasks'[run.task].status = "integrating",
         run # Idle /\ active[run.task] # 0 => active'[run.task] = active[run.task],
         branch' \in {branch, Append(branch, OutsideCommit)}
  PROVE  Midway'
  <1>1. CASE run = Idle BY <1>1 DEF Midway, Integrate, Idle
  <1>2. CASE run # Idle
    <2> PICK t : t = run.task OBVIOUS
    <2>1. /\ run.step \in Integrate => tasks'[t].status = "integrating"
          /\ run.step \in Integrate \ {"integrating"} => run.made
      BY <1>2 DEF Midway
    <2>2. CASE run.step \in {"merged", "verified", "failed", "threw"}
      <3>1. Landed(t) BY <2>2 DEF Midway
      <3>2. active'[t] = active[t] BY <1>2, <2>2 DEF HasWorkspace
      <3>3. Landed(t)' BY <3>1, <3>2, LandedOutlives DEF Places
      <3> QED BY <2>1, <3>3 DEF Midway
    <2>3. CASE run.step \notin {"merged", "verified", "failed", "threw"}
      BY <2>1, <2>3 DEF Midway
    <2> QED BY <2>2, <2>3
  <1> QED BY <1>1, <1>2

\* The merge puts the change where it is looked for.
LEMMA MergeLands ==
  ASSUME Places, NEW t \in Tasks, active[t] # 0, run.task = t, run.made,
         HeadCommit = active[t], branch' = Merged(t), active' = active
  PROVE  Landed(t)'
  <1> PICK c : c = [by |-> t, on |-> active[t], undoes |-> 0,
                    rejected |-> worktrees[t][active[t]].rejected]
    OBVIOUS
  <1>1. branch' = Append(branch, c) BY DEF Merged
  <1>2. /\ HeadCommit \in Nat \ {0} /\ HeadCommit' = HeadCommit + 1
        /\ branch'[HeadCommit + 1] = c
    BY <1>1, BranchGrows DEF Places
  <1>3. c.by = t /\ c.undoes = 0 /\ t # NoTask BY DEF NoTask, Tasks
  <1> QED BY <1>2, <1>3 DEF Landed, ChangeAt

\* The state the three properties below are carried in.
Settling ==
  /\ Typed /\ IInv /\ NothingReopened
  /\ Midway /\ CompletedWorkIsInEffect /\ PrerequisitesPrecede

LEMMA MidwayNext ==
  ASSUME Settling, NothingReopened', [IntegrationNext]_integrationVars PROVE Midway'
  <1> PICK t : t = run.task OBVIOUS
  <1>t. TypeOK /\ InFlight /\ Places /\ HasWorkspace /\ Midway /\ NothingReopened
    BY DEF Settling, Typed
  <1>r. run # Idle => run \in Run /\ t \in Tasks BY <1>t DEF InFlight
  <1>n. ASSUME run'.step \notin Integrate PROVE Midway'
    BY <1>n DEF Midway, Integrate
  <1>i. CASE run' = Idle BY <1>i, <1>n DEF Idle, Integrate
  <1>m. ASSUME run # Idle, run.step \in Integrate, run'.task = t, run'.made,
               run'.step \in {"committed", "checked"}, UNCHANGED vars
        PROVE  Midway'
    BY <1>m, <1>t DEF Midway, vars
  <1>c. ASSUME NEW w \in Workers, NEW p \in Candidates, ClaimTask(w, p) PROVE Midway'
    <2>1. PICK u \in Tasks : run' = Begun(u) BY <1>c DEF ClaimTask
    <2> QED BY <2>1, <1>n DEF Begun, Integrate
  <1>h. ASSUME NEW w \in Workers, HeartbeatRun(w) PROVE Midway'
    <2>1. t \in Tasks /\ Heartbeat(t, w) /\ UNCHANGED <<branch, active, run>>
      BY <1>h, <1>r DEF HeartbeatRun, disk
    <2>2. tasks'[t] = [tasks[t] EXCEPT !.ttl = LeaseTicks]
      BY <2>1, <1>t, Replaced DEF Heartbeat
    <2>3. tasks'[t].status = tasks[t].status BY <2>1, <2>2, <1>t, TaskType DEF Task
    <2> QED BY <2>1, <2>3, <1>t, MidwayBetween
  <1>p. CASE WorkerProgress
    <2>r. run # Idle /\ run \in Run /\ t \in Tasks BY <1>p, <1>r DEF WorkerProgress
    <2>t. \A s \in Steps : To(s) => run'.task = t /\ run'.step = s /\ run'.made = run.made
      BY <2>r DEF To, Run
    <2>a. run.step \in Integrate => active[t] # 0
      BY <2>r, <1>t DEF HasWorkspace, Integrate
    <2>s. ASSUME NEW w \in Workers, NEW class, NEW note, Stops(w, t, class, note)
          PROVE  Midway'
      BY <2>s, <1>i DEF Stops
    <2>w. ASSUME NEW w \in Workers,
                 \/ StartImplementation(w) \/ FinishImplementation(w) \/ FailImplementation(w)
                 \/ SkipImplementation(w) \/ Validate(w) \/ Assess(w) \/ ReviewTask(w)
                 \/ CommitWork(w) \/ ValidateCommit(w) \/ Merge(w) \/ Revert(w)
                 \/ RecordDelivery(w) \/ RecordRefused(w)
          PROVE  Midway'
      <3>1. CASE StartImplementation(w)
        BY <3>1, <2>t, <2>s, <1>n DEF StartImplementation, Steps, Integrate
      <3>2. CASE FinishImplementation(w)
        BY <3>2, <2>t, <1>n DEF FinishImplementation, Steps, Integrate
      <3>3. CASE FailImplementation(w) BY <3>3, <1>i DEF FailImplementation
      <3>4. CASE SkipImplementation(w)
        BY <3>4, <1>n DEF SkipImplementation, Integrate
      <3>5. CASE Validate(w)
        BY <3>5, <2>t, <2>s, <1>n DEF Validate, Steps, Integrate
      <3>6. CASE Assess(w)
        BY <3>6, <1>n, <1>i DEF Assess, Integrate, Begun
      <3>7. CASE ReviewTask(w)
        <4>1. CASE tasks'[t].status = "integrating" /\ To("integrating")
          BY <4>1, <2>t DEF Midway, Steps
        <4> QED BY <3>7, <4>1, <2>s, <1>i DEF ReviewTask
      <3>8. CASE CommitWork(w)
        <4>1. tasks[t].archive = <<>> BY <2>r, <1>t DEF NothingReopened
        <4>2. CASE run' = [run EXCEPT !.step = "committed", !.made = TRUE] /\ UNCHANGED vars
          BY <4>2, <3>8, <2>r, <1>m DEF CommitWork, Run, Integrate
        <4> QED BY <3>8, <4>1, <4>2, <2>s DEF CommitWork
      <3>9. CASE ValidateCommit(w)
        BY <3>9, <2>r, <2>t, <2>s, <1>m, <1>t DEF ValidateCommit, Steps, Integrate, Midway
      <3>10. CASE Merge(w)
        <4>1. CASE HeadCommit = active[t] /\ branch' = Merged(t) /\ To("merged") /\ UNCHANGED vars
          <5>1. run.step = "checked" /\ active' = active BY <3>10 DEF Merge
          <5>2. run.made /\ tasks[t].status = "integrating" /\ active[t] # 0
            BY <5>1, <2>a, <1>t DEF Midway, Integrate
          <5>3. Landed(t)' BY <4>1, <5>1, <5>2, <2>r, <1>t, MergeLands
          <5>4. run'.task = t /\ run'.step = "merged" /\ run'.made
            BY <4>1, <5>2, <2>t DEF Steps
          <5> QED BY <4>1, <5>2, <5>3, <5>4 DEF Midway, vars
        <4> QED BY <3>10, <4>1, <2>s DEF Merge
      <3>11. CASE Revert(w) BY <3>11, <2>s DEF Revert
      <3>12. CASE RecordDelivery(w) BY <3>12, <1>i DEF RecordDelivery
      <3>13. CASE RecordRefused(w) BY <3>13, <2>s DEF RecordRefused
      <3> QED BY <2>w, <3>1, <3>2, <3>3, <3>4, <3>5, <3>6, <3>7, <3>8, <3>9, <3>10,
                 <3>11, <3>12, <3>13
    <2>x. CASE ValidateRoot
      <3>1. /\ run.step = "merged" /\ UNCHANGED <<vars, branch, active>>
            /\ run'.task = t /\ run'.step \in {"verified", "failed", "threw"}
            /\ run'.made = run.made
        BY <2>x, <2>t DEF ValidateRoot, Steps, disk
      <3>2. run.made /\ tasks[t].status = "integrating" /\ Landed(t)
        BY <3>1, <1>t DEF Midway, Integrate
      <3>3. Landed(t)' BY <3>1, <3>2, <1>t, LandedOutlives DEF Places
      <3> QED BY <3>1, <3>2, <3>3 DEF Midway, vars
    <2>l. CASE LoseLease BY <2>l, <1>i DEF LoseLease
    <2> QED BY <1>p, <2>w, <2>x, <2>l DEF WorkerProgress
  <1>o. ASSUME NEW u \in Tasks, OwnerDecides(u) PROVE Midway'
    <2>1. OwnerStep(u) /\ run' = run /\ branch' = branch /\ active' = active
      BY <1>o DEF OwnerDecides, OwnerStep, Recover, canonical
    <2>2. run # Idle /\ tasks[t].status = "integrating" => tasks'[t].status = "integrating"
      BY <2>1, <1>r, <1>t, OwnerTakesUpStopped
    <2> QED BY <2>1, <2>2, <1>t, MidwayBetween
  <1>v. ASSUME NEW u \in Tasks, VerifyRepair(u) PROVE Midway'
    <2>1. /\ UNCHANGED <<vars, run>> /\ active[u] = 0
          /\ branch' \in {branch, Append(branch, OutsideCommit)}
          /\ active' = [active EXCEPT ![u] = Len(Baseline)]
      BY <1>v DEF VerifyRepair, Prepares, Baseline
    <2>2. run # Idle /\ active[t] # 0 => active'[t] = active[t]
      BY <2>1, <1>r, <1>t DEF Places, Located
    <2> QED BY <2>1, <2>2, <1>t, MidwayBetween DEF vars
  <1>z. CASE \/ Reconcile \/ Restart \/ Clock
             \/ EditCanonical \/ DiscardEdits \/ UNCHANGED integrationVars
    <2>1. CASE Restart BY <2>1, <1>i DEF Restart
    <2>2. CASE Reconcile BY <2>2, <1>i DEF Reconcile
    <2>3. CASE Clock
      <3>1. UNCHANGED <<branch, active, run>> BY <2>3 DEF Clock, disk
      <3>2. run # Idle => tasks'[t].status = tasks[t].status
        BY <2>3, <1>r, <1>t, TaskType DEF Clock, Tick, Task
      <3> QED BY <3>1, <3>2, <1>t, MidwayBetween
    <2>4. CASE EditCanonical \/ DiscardEdits \/ UNCHANGED integrationVars
      <3>1. /\ UNCHANGED <<vars, active, run>>
            /\ branch' \in {branch, Append(branch, OutsideCommit)}
        BY <2>4 DEF EditCanonical, DiscardEdits, integrationVars, vars
      <3> QED BY <3>1, <1>t, MidwayBetween DEF vars
    <2> QED BY <1>z, <2>1, <2>2, <2>3, <2>4
  <1> QED BY <1>c, <1>h, <1>p, <1>o, <1>v, <1>z DEF IntegrationNext

\* A merge puts the change of an integrating task on top; a revert undoes the
\* change of the task that failed, which is integrating still.
LEMMA MergeAppends ==
  ASSUME Settling, NEW w \in Workers, Merge(w), branch' # branch
  PROVE  \E c : /\ branch' = Append(branch, c) /\ c.undoes = 0
                /\ c.by \in Tasks /\ tasks[c.by].status = "integrating"
  <1> PICK t : t = run.task OBVIOUS
  <1> PICK c : c = [by |-> t, on |-> active[t], undoes |-> 0,
                    rejected |-> worktrees[t][active[t]].rejected]
    OBVIOUS
  <1>1. branch' = Append(branch, c) /\ run.step = "checked"
    BY DEF Merge, Merged
  <1>2. t \in Tasks /\ tasks[t].status = "integrating"
    BY <1>1 DEF Settling, Typed, InFlight, Idle, Midway, Integrate
  <1> QED BY <1>1, <1>2

LEMMA RevertAppends ==
  ASSUME Settling, NEW w \in Workers, Revert(w), branch' # branch
  PROVE  \E c : /\ branch' = Append(branch, c)
                /\ c.undoes \in 1..HeadCommit
                /\ branch[c.undoes].by \in Tasks
                /\ tasks[branch[c.undoes].by].status = "integrating"
  <1> PICK t : t = run.task OBVIOUS
  <1>1. branch' = Reverted(t) /\ run.step \in {"failed", "threw"} BY DEF Revert
  <1>2. /\ t \in Tasks /\ tasks[t].status = "integrating"
        /\ run.made /\ Landed(t)
    BY <1>1 DEF Settling, Typed, InFlight, Idle, Midway, Integrate
  <1>3. Delivered(t) = active[t] + 1 BY <1>2 DEF Delivered
  <1>4. Delivered(t) \in 1..HeadCommit /\ branch[Delivered(t)].by = t
    BY <1>2, <1>3 DEF Landed
  <1> PICK c : c = [OutsideCommit EXCEPT !.by = t, !.undoes = Delivered(t)] OBVIOUS
  <1>5. c.undoes = Delivered(t) BY DEF OutsideCommit
  <1>6. branch' = Append(branch, c) BY <1>1 DEF Reverted
  <1> QED BY <1>2, <1>4, <1>5, <1>6

LEMMA BranchStepIs ==
  ASSUME Settling, [IntegrationNext]_integrationVars, branch' # branch
  PROVE  \E c : /\ branch' = Append(branch, c)
                /\ \/ c = OutsideCommit
                   \/ /\ c.undoes = 0 /\ c.by \in Tasks
                      /\ tasks[c.by].status = "integrating"
                   \/ /\ c.undoes \in 1..HeadCommit /\ branch[c.undoes].by \in Tasks
                      /\ tasks[branch[c.undoes].by].status = "integrating"
  <1>1. CASE branch' = Append(branch, OutsideCommit) BY <1>1
  <1>2. ASSUME NEW w \in Workers, Merge(w) \/ Revert(w)
        PROVE  \E c : /\ branch' = Append(branch, c)
                      /\ \/ /\ c.undoes = 0 /\ c.by \in Tasks
                            /\ tasks[c.by].status = "integrating"
                         \/ /\ c.undoes \in 1..HeadCommit /\ branch[c.undoes].by \in Tasks
                            /\ tasks[branch[c.undoes].by].status = "integrating"
    BY <1>2, MergeAppends, RevertAppends
  <1> QED BY <1>1, <1>2, BranchMovesBy

LEMMA CompletedNext ==
  ASSUME Settling, NothingReopened', [IntegrationNext]_integrationVars
  PROVE  CompletedWorkIsInEffect'
  <1>t. TypeOK /\ InFlight /\ Branched /\ Held /\ HeadCommit \in Nat
    BY DEF Settling, Typed, IInv, Places, Branched, HeadCommit
  <1>u. TypeOK'
    BY NextInFlight DEF Settling, Typed
  <1> SUFFICES ASSUME NEW u \in Tasks, tasks'[u].status = "completed"
               PROVE  InEffect(u, HeadCommit)'
    BY DEF CompletedWorkIsInEffect
  <1>1. CASE tasks[u].status = "completed"
    <2>1. InEffect(u, HeadCommit) BY <1>1 DEF Settling, CompletedWorkIsInEffect
    <2>2. CASE branch' = branch
      BY <2>1, <2>2 DEF InEffect, HeadCommit, ChangeAt
    <2>3. CASE branch' # branch
      <3> PICK c : /\ branch' = Append(branch, c)
                   /\ \/ c = OutsideCommit
                      \/ /\ c.undoes = 0 /\ c.by \in Tasks
                         /\ tasks[c.by].status = "integrating"
                      \/ /\ c.undoes \in 1..HeadCommit /\ branch[c.undoes].by \in Tasks
                         /\ tasks[branch[c.undoes].by].status = "integrating"
        BY <2>3, BranchStepIs
      <3>1. \A i \in 1..HeadCommit : c.undoes = i => branch[i].by # u
        BY <1>1, <1>t DEF OutsideCommit
      <3> QED BY <2>1, <3>1, <1>t, EffectOutlives
    <2> QED BY <2>2, <2>3
  <1>2. CASE tasks[u].status # "completed"
    <2>1. PICK w \in Workers : RecordDelivery(w)
      BY <1>2, <1>t, <1>u, OnlyDeliveryCompletes
    <2>2. /\ run.step = "verified" /\ RecordIntegration(run.task, w)
          /\ branch' = branch /\ active' = active
      BY <2>1 DEF RecordDelivery, disk
    <2>3. run.task \in Tasks BY <2>2, <1>t DEF InFlight, Idle
    <2>4. u = run.task
      BY <2>2, <2>3, <1>2, <1>t, WorkerStepTouchesItsTask DEF WorkerStep
    <2>5. InEffect(u, HeadCommit) BY <2>2, <2>4, LandedIsInEffect DEF Settling, Midway
    <2> QED BY <2>2, <2>5 DEF InEffect, HeadCommit, ChangeAt
  <1> QED BY <1>1, <1>2

LEMMA PrerequisitesNext ==
  ASSUME Settling, [IntegrationNext]_integrationVars
  PROVE  PrerequisitesPrecede'
  <1>t. Branched /\ HeadCommit \in Nat
    BY DEF Settling, Typed, Places, Branched, HeadCommit
  <1>1. CASE branch' = branch
    BY <1>1 DEF Settling, PrerequisitesPrecede, InEffect, HeadCommit, ChangeAt
  <1>2. CASE branch' # branch
    <2> PICK c : /\ branch' = Append(branch, c)
                 /\ \/ c = OutsideCommit
                    \/ /\ c.undoes = 0 /\ c.by \in Tasks
                       /\ tasks[c.by].status = "integrating"
                    \/ /\ c.undoes \in 1..HeadCommit /\ branch[c.undoes].by \in Tasks
                       /\ tasks[branch[c.undoes].by].status = "integrating"
      BY <1>2, BranchStepIs
    <2>1. /\ HeadCommit' = HeadCommit + 1
          /\ \A i \in 1..HeadCommit : branch'[i] = branch[i]
          /\ branch'[HeadCommit + 1] = c
      BY <1>t, BranchGrows
    <2> SUFFICES ASSUME NEW i \in 1..(HeadCommit + 1), ChangeAt(i)',
                        NEW t \in DependsOn[branch'[i].by]
                 PROVE  InEffect(t, i - 1)'
      BY <2>1 DEF PrerequisitesPrecede
    <2>2. i - 1 \in 0..HeadCommit BY <1>t
    <2>3. CASE i # HeadCommit + 1
      <3>1. i \in 1..HeadCommit BY <2>3, <1>t
      <3>2. ChangeAt(i) /\ t \in DependsOn[branch[i].by]
        BY <3>1, <2>1 DEF ChangeAt
      <3>3. InEffect(t, i - 1) BY <3>1, <3>2 DEF Settling, PrerequisitesPrecede
      <3> QED BY <3>3, <2>2, <1>t, EffectsArePast
    <2>4. CASE i = HeadCommit + 1
      <3>1. c.by # NoTask /\ c.undoes = 0 BY <2>1, <2>4 DEF ChangeAt
      <3>2. c.by \in Tasks /\ tasks[c.by].status = "integrating"
        BY <3>1, <1>t DEF OutsideCommit
      <3>3. t \in Tasks /\ tasks[t].status = "completed"
        BY <3>2, <2>1, <2>4, ConstantsAssumption
           DEF Settling, IInv, DependencyOrder, CompletedTasks
      <3>4. InEffect(t, HeadCommit) BY <3>3 DEF Settling, CompletedWorkIsInEffect
      <3>5. i - 1 = HeadCommit BY <2>4, <1>t
      <3>6. InEffect(t, i - 1) BY <3>4, <3>5
      <3> QED BY <3>6, <2>2, <1>t, EffectsArePast
    <2> QED BY <2>3, <2>4
  <1> QED BY <1>1, <1>2

-----------------------------------------------------------------------------
(* The theorems. What is carried holds while nothing is reopened, and an    *)
(* archive that was ever filled stays so.                                   *)

Delivers ==
  /\ Typed /\ IInv /\ EvidenceInv
  /\ NothingReopened => Midway /\ CompletedWorkIsInEffect /\ PrerequisitesPrecede

LEMMA InitDelivers == IntegrationInit => Delivers
  <1> SUFFICES ASSUME IntegrationInit PROVE Delivers OBVIOUS
  <1>1. Init /\ run = Idle /\ branch = <<OutsideCommit>> BY DEF IntegrationInit
  <1>2. Typed /\ IInv /\ EvidenceInv BY <1>1, InitTyped, InitInv, InitEvidence
  <1>3. Midway BY <1>1 DEF Midway, Idle, Integrate
  <1>4. CompletedWorkIsInEffect BY <1>1 DEF Init, NewTask, CompletedWorkIsInEffect
  <1>5. PrerequisitesPrecede
    BY <1>1 DEF PrerequisitesPrecede, HeadCommit, ChangeAt, OutsideCommit
  <1> QED BY <1>2, <1>3, <1>4, <1>5 DEF Delivers

LEMMA NextDelivers == Delivers /\ [IntegrationNext]_integrationVars => Delivers'
  <1> SUFFICES ASSUME Delivers, [IntegrationNext]_integrationVars PROVE Delivers'
    OBVIOUS
  <1>1. TypeOK /\ InFlight BY DEF Delivers, Typed
  <1>2. [Next]_vars BY <1>1, StepIsAServiceStep
  <1>3. Typed' /\ IInv' /\ EvidenceInv' /\ AllArchive
    BY <1>2, NextTyped, NextInv, NextKeeps DEF Delivers
  <1>4. ASSUME NothingReopened'
        PROVE  Midway' /\ CompletedWorkIsInEffect' /\ PrerequisitesPrecede'
    <2>1. NothingReopened BY <1>1, <1>3, <1>4, ArchivesOnlyGrow
    <2>2. Settling BY <2>1 DEF Delivers, Settling
    <2> QED BY <2>2, <1>4, MidwayNext, CompletedNext, PrerequisitesNext
  <1> QED BY <1>3, <1>4 DEF Delivers

LEMMA AlwaysDelivers == IntegrationSpec => []Delivers
  BY InitDelivers, NextDelivers, PTL DEF IntegrationSpec

\* Until an owner reopens something, a completed task's change is on the
\* canonical branch and no revert undid it, whatever the owner committed, the
\* process lost and other tasks integrated in between: for any tasks, files,
\* dependencies and number of edits. A delivery is recorded only for the tick
\* whose own merge landed, and a revert only ever undoes the merge of the tick
\* that failed, whose task is not completed. After a reopening this is not so:
\* unchanged files are then revalidated as they are.
THEOREM CompletedWorkIsDelivered ==
  IntegrationSpec => [](NothingReopened => CompletedWorkIsInEffect)
  <1>1. Delivers => (NothingReopened => CompletedWorkIsInEffect) BY DEF Delivers
  <1> QED BY <1>1, AlwaysDelivers, PTL

\* Until then, too, every change lies on its prerequisites' changes: the claim
\* saw them completed, and what is completed stays in effect.
THEOREM ChangesFollowPrerequisites ==
  IntegrationSpec => [](NothingReopened => PrerequisitesPrecede)
  <1>1. Delivers => (NothingReopened => PrerequisitesPrecede) BY DEF Delivers
  <1> QED BY <1>1, AlwaysDelivers, PTL

\* With nothing for the owner to approve a repair by, as in the run of two
\* dependent tasks, nothing is ever reopened.
THEOREM WithoutApprovalsWorkStands ==
  ASSUME Approvals = {}
  PROVE  IntegrationSpec => [](CompletedWorkIsInEffect /\ PrerequisitesPrecede)
  <1>1. Delivers => CompletedWorkIsInEffect /\ PrerequisitesPrecede
    BY NoApprovalsNoReopening DEF Delivers, Typed
  <1> QED BY <1>1, AlwaysDelivers, PTL
=============================================================================
