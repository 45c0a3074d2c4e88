--------------------------- MODULE ProjectExecution ---------------------------
(* The durable execution record of one project:                            *)
(* apps/core/src/project-execution-service.ts over the record, schema and   *)
(* eligibility rules of packages/orchestration/src/project-execution.ts.    *)
(*                                                                          *)
(* Every method of the service runs alone (#mutate chains them on one       *)
(* promise): it loads the record, computes its successor, parses that with  *)
(* the zod schema and replaces the file atomically. A method is therefore   *)
(* one action here, and a method that throws - or whose successor the       *)
(* schema refuses - is an action that is not enabled.                       *)
(*                                                                          *)
(* Left out: ids, titles, messages that no code reads back, timestamps, and *)
(* the task revision. An owner's decision names the revision it was taken   *)
(* on and is refused when the task has moved since; the actions below are   *)
(* the decisions taken on the current revision.                             *)
EXTENDS Naturals, Sequences, FiniteSets

CONSTANTS
  TaskCount,      \* tasks of the record, in the record's order
  DependsOn,      \* task -> the tasks it depends on
  AllowedFiles,   \* task -> the files it may change
  UiTasks,        \* the tasks with uiChanged
  Workers,        \* worker ids that may own a lease
  Providers,      \* model providers
  Candidates,     \* those a worker can be offered to implement with
  Digests,        \* what distinguishes two failing validations
  Messages,       \* the notes an interrupted worker can leave
  Panels,         \* sets of reviews a review round can return
  Approvals,      \* approval ids the owner can use
  LeaseTicks,     \* leaseMs, in clock ticks
  ImplementationLimit, ValidationLimit,  \* both 100 in executionTaskSchema
  ArchiveLimit,   \* 20 in executionTaskSchema
  AttemptLimit,   \* 20 in executionTaskSchema
  HealingBudget,  \* maxAttempts of the healing policy
  Nobody          \* null: no owner, no assignment, no failing digest

Tasks == 1..TaskCount
Tiers == {"fast", "full", "integration"}
Roles == {"functional", "design", "security", "risk"}
Active == {"running", "validating", "reviewing", "healing", "integrating"}
Statuses == Active \cup {"queued", "completed", "needs_user", "quarantined"}
States == {"running", "needs_user", "quarantined", "completed"}
FailureClasses ==
  {"implementation", "environment", "flaky", "provider", "contract",
   "product_decision", "unsafe"}
\* What the code later looks for in safeMessage: a failed clean checkout or
\* commit, a refused provider proposal, an impossible healing budget (older
\* builds only), a dependency problem, a lost workspace; else "plain".
Notes == {"plain", "integration", "contract", "healing", "dependency", "workspace"}

Review ==
  [reviewer : STRING, provider : Providers, role : Roles,
   verdict : {"pass", "fail", "needs_user"}, severe : BOOLEAN]

ASSUME ConstantsAssumption ==
  /\ TaskCount \in Nat \ {0}
  /\ DependsOn \in [Tasks -> SUBSET Tasks]
  /\ \A t \in Tasks : t \notin DependsOn[t]
  /\ \A t \in Tasks : AllowedFiles[t] # {}
  /\ UiTasks \subseteq Tasks
  /\ Candidates \subseteq Providers
  /\ Messages \subseteq Notes
  /\ \A panel \in Panels : panel \subseteq Review
  /\ LeaseTicks \in Nat \ {0}
  /\ ImplementationLimit \in Nat \ {0} /\ ValidationLimit \in Nat \ {0}
  /\ ArchiveLimit \in Nat \ {0} /\ AttemptLimit \in Nat \ {0}
  /\ HealingBudget \in 0..10
  /\ Nobody \notin Workers \cup Providers \cup Digests

VARIABLES
  tasks,  \* task -> the task as stored
  state   \* record.state, as last projected from the tasks

vars == <<tasks, state>>

\* One archived attempt (executionAttemptSchema).
Attempt ==
  [approval : Approvals, provider : Providers \cup {Nobody},
   implemented : Nat, checks : Nat, reviews : SUBSET Review]

\* One stored task (executionTaskSchema). The validations of a task are
\* their number, the tiers that have a passing one, the digest of the last
\* failing one and whether the failing one before it had the same digest:
\* the code reads nothing else of the list.
Task ==
  [status : Statuses, attempt : 0..AttemptLimit,
   provider : Providers \cup {Nobody}, deferred : SUBSET Providers,
   recovered : BOOLEAN, owner : Workers \cup {Nobody}, ttl : 0..LeaseTicks,
   implemented : 0..ImplementationLimit, checks : 0..ValidationLimit,
   passed : SUBSET Tiers, failing : Digests \cup {Nobody}, repeated : BOOLEAN,
   reviews : SUBSET Review, archive : Seq(Attempt), integrated : BOOLEAN,
   failure : FailureClasses \cup {Nobody}, note : Notes]

NewTask ==
  [status |-> "queued", attempt |-> 0, provider |-> Nobody, deferred |-> {},
   recovered |-> FALSE, owner |-> Nobody, ttl |-> 0,
   implemented |-> 0, checks |-> 0, passed |-> {}, failing |-> Nobody,
   repeated |-> FALSE, reviews |-> {}, archive |-> <<>>, integrated |-> FALSE,
   failure |-> Nobody, note |-> "plain"]

-----------------------------------------------------------------------------
(* What the code reads off a record.                                        *)

Leased(r) == r.owner # Nobody
LiveLease(r) == Leased(r) /\ r.ttl > 0

CompletedTasks(ts) == {t \in Tasks : ts[t].status = "completed"}
Ready(ts, t) ==
  ts[t].status = "queued" /\ DependsOn[t] \subseteq CompletedTasks(ts)

\* Slip: only the implementing stages counted as occupying files.
OccupiedWhileRunning(ts) ==
  UNION {AllowedFiles[t] :
           t \in {u \in Tasks : ts[u].status = "running" /\ LiveLease(ts[u])}}

OccupiedFiles(ts) ==
  UNION {AllowedFiles[t] :
           t \in {u \in Tasks : ts[u].status \in Active /\ LiveLease(ts[u])}}

EligibleTasks(ts) ==
  {t \in Tasks : /\ Ready(ts, t)
                 /\ ~LiveLease(ts[t])
                 /\ AllowedFiles[t] \cap OccupiedFiles(ts) = {}}

PassedReviews(r) == {v \in r.reviews : v.verdict = "pass"}

CompletionEvidence(t, r) ==
  LET good == PassedReviews(r) IN
  /\ r.implemented > 0
  /\ Tiers \subseteq r.passed
  /\ r.integrated
  /\ \E v \in good : v.role = "functional"
  /\ t \in UiTasks => \E v \in good : v.role = "design"
  /\ \E v, w \in good : v.reviewer # w.reviewer
  /\ r.provider # Nobody
  /\ \E v \in good : v.provider # r.provider

BlockingReviewDissent(r) ==
  \E v \in r.reviews : v.verdict # "pass" \/ v.severe

PreEvidenceDissent(r) ==
  /\ r.status = "needs_user"
  /\ r.provider # Nobody
  /\ r.implemented = 0 /\ r.checks = 0 /\ r.reviews = {}
  /\ ~r.integrated

ProjectState(ts) ==
  LET Some(s) == \E t \in Tasks : ts[t].status = s IN
  IF \A t \in Tasks : ts[t].status = "completed" THEN "completed"
  ELSE IF Some("quarantined") THEN "quarantined"
  ELSE IF Some("needs_user") THEN "needs_user"
  ELSE "running"

\* Slip: the schema without its length limits.
SchemaWithoutLimits(ts) ==
  \A t \in Tasks : LET r == ts[t] IN
    /\ r.status \in {"running", "integrating"} => Leased(r) /\ r.provider # Nobody
    /\ r.status = "completed" => ~Leased(r) /\ CompletionEvidence(t, r)

\* projectExecutionRecordSchema, for what the types above do not say.
SchemaAccepts(ts) ==
  \A t \in Tasks : LET r == ts[t] IN
    /\ r.status \in {"running", "integrating"} => Leased(r) /\ r.provider # Nobody
    /\ r.status = "completed" => ~Leased(r) /\ CompletionEvidence(t, r)
    /\ r.attempt <= AttemptLimit
    /\ r.implemented <= ImplementationLimit
    /\ r.checks <= ValidationLimit
    /\ Len(r.archive) <= ArchiveLimit

\* #mutateProject without and with projectState.
Store(ts) == SchemaAccepts(ts) /\ tasks' = ts /\ state' = state
StoreProjected(ts) == SchemaAccepts(ts) /\ tasks' = ts /\ state' = ProjectState(ts)

Replace(t, r) == [tasks EXCEPT ![t] = r]

\* Slip: an owner that is not asked whether its lease has expired.
OwnsExpired(w, t) == tasks[t].owner = w

\* #updateOwned: the caller holds the stored, unexpired lease.
Owns(w, t) == tasks[t].owner = w /\ tasks[t].ttl > 0

\* Slip: stopping a task without dropping its lease.
ReleasedKeepingLease(r, status) == [r EXCEPT !.status = status, !.note = "plain"]

Released(r, status) == [r EXCEPT !.status = status, !.owner = Nobody, !.ttl = 0,
                                 !.note = "plain"]
Requeued(r) == [Released(r, "queued") EXCEPT !.provider = Nobody]

-----------------------------------------------------------------------------
(* The worker's side: claim, heartbeat and the recorded stages.             *)

\* executableTasks and initialize: every task queued, nothing recorded.
Init == tasks = [t \in Tasks |-> NewTask] /\ state = "running"

\* claim: the first eligible task, for the best eligible candidate p. With no
\* candidate only the waiting message is written.
Claim(w, p) ==
  \E t \in EligibleTasks(tasks) :
    /\ \A u \in EligibleTasks(tasks) : t <= u
    /\ Store(Replace(t, [tasks[t] EXCEPT !.status = "running", !.provider = p,
                           !.owner = w, !.ttl = LeaseTicks, !.note = "plain"]))

Heartbeat(t, w) ==
  /\ Owns(w, t)
  /\ Store(Replace(t, [tasks[t] EXCEPT !.ttl = LeaseTicks]))

RecordImplementation(t, w) ==
  /\ Owns(w, t)
  /\ tasks[t].status \in {"running", "healing"}
  /\ Store(Replace(t, [tasks[t] EXCEPT !.status = "validating", !.deferred = {},
                         !.recovered = FALSE, !.implemented = @ + 1,
                         !.failure = Nobody, !.note = "plain"]))

RecordPass(t, w, tier) ==
  /\ Owns(w, t)
  /\ tasks[t].status = "validating"
  /\ tier = "full" => "fast" \in tasks[t].passed
  /\ Store(Replace(t, [tasks[t] EXCEPT
                         !.status = IF tier = "full" THEN "reviewing" ELSE @,
                         !.checks = @ + 1, !.passed = @ \cup {tier},
                         !.note = "plain"]))

RecordFailure(t, w, tier, d) ==
  /\ Owns(w, t)
  /\ tasks[t].status = "validating"
  /\ tier = "full" => "fast" \in tasks[t].passed
  /\ Store(Replace(t, [tasks[t] EXCEPT !.checks = @ + 1, !.failing = d,
                         !.repeated = (d = tasks[t].failing), !.note = "plain"]))

\* planHealing, for a change the adapters let through: its files are within the
\* task's authority and its golden scores are the constant 100.
PlanHealing(class, attempt) ==
  IF class \in {"product_decision", "environment"} THEN "needs_user"
  ELSE IF class = "unsafe" \/ attempt >= HealingBudget THEN "quarantined"
  ELSE "repairable"

\* assessHealing: the same failure twice in a row stops the automatic repair.
AssessHealing(t, w, class) ==
  LET r == tasks[t]
      plan == IF r.repeated THEN "needs_user" ELSE PlanHealing(class, r.attempt)
      base == IF plan = "repairable"
              THEN [r EXCEPT !.status = "healing", !.attempt = @ + 1,
                             !.note = "plain"]
              ELSE Released(r, plan) IN
  /\ Owns(w, t)
  /\ r.status = "validating"
  /\ r.failing # Nobody
  /\ StoreProjected(Replace(t, [base EXCEPT !.failure = class]))

\* Slip: no independence from the implementer asked of the reviewers.
QuorumFormedByOneProvider(t, panel) ==
  /\ \E v, w \in panel : v.reviewer # w.reviewer
  /\ \A v, w \in panel : v.reviewer = w.reviewer => v = w
  /\ \E v \in panel : v.role = "functional"
  /\ t \in UiTasks => \E v \in panel : v.role = "design"

\* evaluateQualityQuorum throws on a panel that is not a quorum ...
QuorumFormed(t, panel) ==
  /\ \E v, w \in panel : v.reviewer # w.reviewer
  /\ \A v, w \in panel : v.reviewer = w.reviewer => v = w
  /\ \E v \in panel : v.provider # tasks[t].provider
  /\ \E v \in panel : v.role = "functional"
  /\ t \in UiTasks => \E v \in panel : v.role = "design"

\* ... and otherwise decides.
QuorumStatus(t, panel) ==
  IF ~({"fast", "full"} \subseteq tasks[t].passed) THEN "quarantined"
  ELSE IF \E v \in panel : v.verdict = "needs_user" THEN "needs_user"
  ELSE IF \E v \in panel : v.severe \/ v.verdict = "fail" THEN "quarantined"
  ELSE "integrating"

RecordReviews(t, w, panel) ==
  LET status == QuorumStatus(t, panel)
      base == IF status = "integrating"
              THEN [tasks[t] EXCEPT !.status = status, !.note = "plain"]
              ELSE Released(tasks[t], status) IN
  /\ Owns(w, t)
  /\ tasks[t].status = "reviewing"
  /\ tasks[t].provider # Nobody
  /\ QuorumFormed(t, panel)
  /\ StoreProjected(Replace(t, [base EXCEPT !.reviews = panel]))

\* recordIntegration refuses a failed integration validation.
RecordIntegration(t, w) ==
  /\ Owns(w, t)
  /\ tasks[t].status = "integrating"
  /\ StoreProjected(Replace(t, [Released(tasks[t], "completed") EXCEPT
                                  !.integrated = TRUE, !.checks = @ + 1,
                                  !.passed = @ \cup {"integration"}]))

ReleaseForRetry(t, w) ==
  /\ Owns(w, t)
  /\ StoreProjected(Replace(t, Requeued(tasks[t])))

ReleaseContractFailureForRetry(t, w, p) ==
  /\ Owns(w, t)
  /\ StoreProjected(Replace(t, [Requeued(tasks[t]) EXCEPT
                                  !.attempt = IF @ < AttemptLimit THEN @ + 1 ELSE @,
                                  !.deferred = @ \cup {p},
                                  !.failure = "implementation"]))

\* interrupt; class is Nobody when the caller gives none.
Interrupt(t, w, class, note) ==
  /\ Owns(w, t)
  /\ StoreProjected(Replace(t, [Released(tasks[t], "needs_user") EXCEPT
                                  !.failure = IF class = Nobody THEN @ ELSE class,
                                  !.note = note]))

\* reconcileExpired: the coordinator runs it before every tick.
ReconcileExpired ==
  /\ \E t \in Tasks : Leased(tasks[t]) /\ tasks[t].ttl = 0
  /\ StoreProjected([t \in Tasks |->
                       IF Leased(tasks[t]) /\ tasks[t].ttl = 0
                       THEN Released(tasks[t], "needs_user") ELSE tasks[t]])

\* The clock, in ticks of which a lease lasts LeaseTicks unless renewed.
Tick ==
  /\ \E t \in Tasks : tasks[t].ttl > 0
  /\ tasks' = [t \in Tasks |-> [tasks[t] EXCEPT !.ttl = IF @ > 0 THEN @ - 1 ELSE 0]]
  /\ state' = state

-----------------------------------------------------------------------------
(* The owner's side: the four authorizations behind "retry".                *)

CleanCheckoutFailure(r) ==
  /\ r.status = "needs_user"
  /\ r.reviews # {} /\ r.reviews = PassedReviews(r)
  /\ r.failure = "implementation" \/ r.note = "integration"

ValidationDissent(r) ==
  /\ r.status \in {"needs_user", "quarantined"}
  /\ r.reviews = {} /\ r.failing # Nobody
  /\ r.failure = "implementation" \/ r.note = "healing"

ProposalContractDissent(r) ==
  \/ PreEvidenceDissent(r)
  \/ /\ r.status = "needs_user" /\ r.note = "contract"
     /\ r.reviews = {} /\ r.implemented = 0

ReviewRepairAllowed(r) ==
  /\ r.status \in {"needs_user", "quarantined"}
  /\ r.reviews = {} => ValidationDissent(r) \/ ProposalContractDissent(r)
  /\ r.reviews # {} => BlockingReviewDissent(r) \/ CleanCheckoutFailure(r)

EnvironmentRetryAllowed(r) ==
  /\ r.status = "needs_user"
  /\ ~Leased(r) /\ r.reviews = {} /\ ~r.integrated
  /\ \/ r.failure \in {Nobody, "implementation", "environment"}
     \/ r.failure = "product_decision" /\ r.note = "workspace"

QuarantineRecoveryAllowed(r) ==
  /\ \/ r.status = "quarantined" /\ r.failure \in {"implementation", "environment"}
     \/ r.status = "needs_user" /\ r.note = "dependency"
     \/ /\ r.status = "needs_user" /\ r.failing # Nobody
        /\ r.failure \in {"implementation", "environment"}
  /\ ~Leased(r) /\ r.reviews = {} /\ ~r.integrated

\* An approval already in the task's history is answered from it (no change).
Fresh(r, a) == \A i \in 1..Len(r.archive) : r.archive[i].approval # a

Archived(r, a) ==
  [approval |-> a, provider |-> r.provider, implemented |-> r.implemented,
   checks |-> r.checks, reviews |-> r.reviews]

HasEvidence(r) ==
  r.implemented > 0 \/ r.checks > 0 \/ r.reviews # {} \/ r.integrated

\* What the two repairs reset. They leave deferred and recovered as they are.
Erased(r, class) ==
  [Requeued(r) EXCEPT !.attempt = 0, !.implemented = 0, !.checks = 0,
     !.passed = {}, !.failing = Nobody, !.repeated = FALSE, !.reviews = {},
     !.integrated = FALSE, !.failure = class]

\* Slip: the evidence is reset without being archived.
ReopenedUnarchived(r, a, class) == Erased(r, class)

Reopened(r, a, class) ==
  [Erased(r, class) EXCEPT !.archive = Append(@, Archived(r, a))]

AuthorizeReviewRepair(t, a) ==
  /\ Fresh(tasks[t], a)
  /\ ReviewRepairAllowed(tasks[t])
  /\ tasks[t].attempt < AttemptLimit
  /\ StoreProjected(Replace(t, Reopened(tasks[t], a, "product_decision")))

\* The tasks a reopened one invalidates: itself and, transitively, whatever
\* depends on it - the least such set, which the code's loop grows up to.
ClosedUnderDependents(S) ==
  \A u \in Tasks : DependsOn[u] \cap S # {} => u \in S
\* Slip: only the direct dependents.
DirectlyInvalidated(t) == {t} \cup {u \in Tasks : t \in DependsOn[u]}
Invalidated(t) ==
  {u \in Tasks : \A S \in SUBSET Tasks :
                   t \in S /\ ClosedUnderDependents(S) => u \in S}

AuthorizeCompletedRepair(t, a) ==
  LET Downstream(r) ==
        IF HasEvidence(r) THEN Reopened(r, a, Nobody) ELSE Erased(r, Nobody) IN
  /\ Fresh(tasks[t], a)
  /\ tasks[t].status = "completed"
  /\ ~Leased(tasks[t]) /\ CompletionEvidence(t, tasks[t])
  /\ tasks[t].attempt < AttemptLimit
  /\ StoreProjected([u \in Tasks |->
                       IF u = t THEN Reopened(tasks[u], a, "implementation")
                       ELSE IF u \in Invalidated(t) THEN Downstream(tasks[u])
                       ELSE tasks[u]])

\* Neither authorization below clears the evidence, the attempts or the lease
\* fields it found empty.
AuthorizeEnvironmentRetry(t) ==
  /\ EnvironmentRetryAllowed(tasks[t])
  /\ StoreProjected(Replace(t, [tasks[t] EXCEPT !.status = "queued",
                                  !.provider = Nobody, !.note = "plain"]))

\* Taken with fresh passing evidence for every validation profile.
AuthorizeQuarantineRecovery(t) ==
  /\ QuarantineRecoveryAllowed(tasks[t])
  /\ StoreProjected(Replace(t, [tasks[t] EXCEPT !.status = "queued",
                                  !.provider = Nobody, !.recovered = TRUE,
                                  !.note = "plain"]))

-----------------------------------------------------------------------------
(* The callers. A worker reports the stage it is in: it releases a task only *)
(* for an error of a model call, and the messages it interrupts with depend  *)
(* on what it was doing. A task with recovery evidence is not implemented:   *)
(* the worker records that evidence in its place.                           *)

Implementing(r) == r.status = "healing" \/ (r.status = "running" /\ ~r.recovered)
InterruptNotes(r) ==
  Messages \cap
    (CASE Implementing(r) -> {"plain", "contract", "dependency", "workspace"}
       [] r.status = "integrating" -> {"plain", "integration"}
       [] OTHER -> {"plain"})

WorkerStep(t, w) ==
  \/ Heartbeat(t, w)
  \/ RecordImplementation(t, w)
  \/ \E tier \in {"fast", "full"} :
       \/ RecordPass(t, w, tier)
       \/ \E d \in Digests : RecordFailure(t, w, tier, d)
  \/ \E class \in {"implementation", "environment"} : AssessHealing(t, w, class)
  \/ \E panel \in Panels : RecordReviews(t, w, panel)
  \/ RecordIntegration(t, w)
  \/ /\ Implementing(tasks[t]) \/ tasks[t].status = "reviewing"
     /\ ReleaseForRetry(t, w)
  \/ /\ Implementing(tasks[t]) /\ tasks[t].provider # Nobody
     /\ ReleaseContractFailureForRetry(t, w, tasks[t].provider)
  \/ \E class \in {Nobody, "implementation"},
        note \in InterruptNotes(tasks[t]) : Interrupt(t, w, class, note)

\* The owner's one "retry" (retryExecution) picks the authorization by what the
\* task looks like. A verifiable task has its profiles run first: it is
\* recovered if they pass, repaired if they do not.
Verifiable(r) ==
  /\ r.reviews = {}
  /\ \/ r.status = "quarantined"
     \/ r.status = "needs_user" /\ r.note = "dependency"
     \/ /\ r.status = "needs_user" /\ r.failing # Nobody
        /\ r.failure = "implementation" \/ r.note = "healing"

Repairable(r) ==
  /\ r.status \in {"needs_user", "quarantined"}
  /\ \/ BlockingReviewDissent(r)
     \/ PreEvidenceDissent(r)
     \/ /\ r.status = "needs_user" /\ r.reviews # {}
        /\ r.failure = "implementation" \/ r.note = "integration"
     \/ r.status = "needs_user" /\ r.implemented = 0 /\ r.note = "contract"

OwnerStep(t) ==
  LET r == tasks[t] IN
  \/ \E a \in Approvals : AuthorizeCompletedRepair(t, a)
  \/ Verifiable(r) /\ AuthorizeQuarantineRecovery(t)
  \/ /\ Verifiable(r) \/ Repairable(r)
     /\ \E a \in Approvals : AuthorizeReviewRepair(t, a)
  \/ ~Verifiable(r) /\ ~Repairable(r) /\ AuthorizeEnvironmentRetry(t)

Next ==
  \/ \E w \in Workers, p \in Candidates : Claim(w, p)
  \/ \E t \in Tasks, w \in Workers : WorkerStep(t, w)
  \/ \E t \in Tasks : OwnerStep(t)
  \/ ReconcileExpired
  \/ Tick

Spec == Init /\ [][Next]_vars

-----------------------------------------------------------------------------
(* Properties.                                                              *)

\* The record has the shape its schema gives it.
TypeOK == tasks \in [Tasks -> Task] /\ state \in States

\* The stored project state, which the worker, the coordinator and the studio
\* act on, is the projection of the stored tasks, although half of the
\* service's operations do not recompute it.
StateReflectsTasks == state = ProjectState(tasks)

\* The service keeps the promises of TaskBoard: its stages are the statuses
\* with the worker's own stages taken together.
StageOf(status) == IF status \in Active THEN "active" ELSE status
Board == INSTANCE TaskBoard WITH
  stage <- [t \in Tasks |-> StageOf(tasks[t].status)],
  holder <- [t \in Tasks |-> tasks[t].owner],
  live <- [t \in Tasks |-> tasks[t].ttl > 0]
ImplementsTaskBoard == Board!Spec

\* A task that left the queue has every dependency completed, whatever the
\* owner reopens meanwhile: nothing is built, reviewed, integrated or kept
\* completed on top of a prerequisite whose proof was withdrawn.
DependencyOrder ==
  \A t \in Tasks : tasks[t].status # "queued" =>
    DependsOn[t] \subseteq CompletedTasks(tasks)

\* Two tasks under live leases never share a file: an expired lease frees the
\* files, and no late heartbeat brings it back.
FileExclusion ==
  \A t, u \in Tasks :
    t # u /\ LiveLease(tasks[t]) /\ LiveLease(tasks[u])
      => AllowedFiles[t] \cap AllowedFiles[u] = {}

\* A task is in a worker's stage exactly while it is leased, so an abandoned
\* stage always has a lease whose expiry reconcileExpired can find, and a task
\* that is put back or stopped never keeps files occupied. The schema asks
\* this of two stages only.
LeaseMatchesStage ==
  \A t \in Tasks : tasks[t].status \in Active <=> Leased(tasks[t])

\* A task whose reviews passed can always be recorded as integrated - the
\* change is in the canonical branch by then - so long as its validation list
\* has room: the quorum rule that let it through is at least as strict as
\* the completion evidence the schema asks for.
IntegratingIsCompletable ==
  \A t \in Tasks : tasks[t].status = "integrating" =>
    CompletionEvidence(t, [tasks[t] EXCEPT !.integrated = TRUE,
                                           !.passed = @ \cup {"integration"}])

\* Evidence leaves a task only into its archive: a repair, of the task or of
\* a prerequisite, that drops implementation, validation or review evidence
\* appends exactly that evidence to the history, and history is never cut.
EvidenceKept(old, new) ==
  /\ new.implemented >= old.implemented
  /\ new.checks >= old.checks
  /\ old.reviews \subseteq new.reviews
  /\ new.archive = old.archive
EvidenceIsArchived ==
  [][\A t \in Tasks :
       \/ EvidenceKept(tasks[t], tasks'[t])
       \/ \E a \in Approvals :
            tasks'[t].archive = Append(tasks[t].archive, Archived(tasks[t], a))]_vars

\* A task the record hands to the owner can be resumed by the owner's retry,
\* the repair budget allowing.
InterruptedWorkCanBeResumed ==
  \A t \in Tasks : LET r == tasks[t] IN
    r.status = "needs_user" =>
      IF Verifiable(r) THEN ReviewRepairAllowed(r) \/ QuarantineRecoveryAllowed(r)
      ELSE IF Repairable(r) THEN ReviewRepairAllowed(r)
      ELSE EnvironmentRetryAllowed(r)

\* After an owner's repair the implementation runs again: the queued task
\* carries no recovery evidence a worker would record in its place.
RepairRunsImplementation ==
  [][\A t \in Tasks : tasks'[t].archive # tasks[t].archive =>
       ~tasks'[t].recovered]_vars
=============================================================================
