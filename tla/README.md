# Codkesh: a verification of the autonomous delivery core

Codkesh is a local control plane that takes a software project from an owner's
request to integrated, reviewed changes: it plans a solution and a backlog,
lets model providers implement the tasks in isolated Git worktrees, validates
and reviews them, and merges them into the owner's repository. Its core is a
set of small durable state machines - one JSON file each, replaced atomically -
driven by coordinators that live in one Node process and lose their memory when
it ends. This directory models those state machines, checks them with TLC and
proves the most important facts about them with TLAPS.

## 1. Inventory

Paths are relative to the repository's `apps/core/src/` unless they start with
`packages/`.

| Component | Durable state | Operations | Hard behaviour |
|---|---|---|---|
| Project execution service (`project-execution-service.ts`, `packages/orchestration/src/project-execution.ts`) | the execution record: per task its status, lease, assignment, evidence lists, archive; the project state | claim, heartbeat, recordImplementation, recordValidation, recordReviews, recordIntegration, assessHealing, releaseForRetry, releaseContractFailureForRetry, interrupt, reconcileExpired, four owner authorizations | leases that expire under slow workers, tasks sharing files, reopening a task others were built on, evidence that must not be lost, bounded lists that fill up |
| Execution worker and adapters (`project-execution-worker.ts`, `project-execution-runtime-adapters.ts`) | none (workspaces and feedback in memory) | tick, with candidates, implement, validate, heal, review, integrate, observe | any adapter call may throw or outlive the lease |
| Execution coordinator (`project-execution-coordinator.ts`) | `project-execution-runs.json` | schedule, resumePending, stop, #arm, #enqueue, #drain, #run | schedule calls during a run, crashes at each await, a run file and an execution record that disagree, slots |
| Control plane (`control-plane-main.ts`, `control-plane.ts`) | none | start-up, shutdown, retryExecution, wakeQueuedProjectExecutions, HTTP routes | the HTTP server answers before the coordinators resumed |
| Task workspace (`project-task-workspace.ts`) | Git worktrees and the canonical branch | prepare, resetAuthorizedFiles, apply, commit, validateCommit, integrate, revertIntegration | a canonical branch moved by another task, a crash between merge and record |
| Project lifecycle (`project-lifecycle-service.ts`, `packages/orchestration/src/project-lifecycle.ts`) | stage, revision, questions, artifacts, receipts | begin, assess, answer, publishSolution, decideSolution, publishBacklog, activateDelivery, completeDelivery, reopen | idempotency receipts, stale revisions, reopening |
| Lifecycle coordinator (`project-lifecycle-coordinator.ts`) | checkpoints, dispatches, lease directories | reconcile, acquire, heartbeat, release, acknowledgeReopen | several controllers, stale takeover, dispatch at most once per revision |
| Solution and delivery-plan coordinators with their orchestrators | run files, the solution and plan documents | schedule, resumePending, execute | in-flight runs against forced regeneration, deferred retries, a Jira that refuses a plan already accepted |
| Jira delivery (`jira-delivery-service.ts`) | the receipt of issues and links | synchronize | overlapping callers, lost answers, edited issues |
| Jira execution observer (`project-execution-jira-observer.ts`) | receipts by task and revision | synchronize | passes with an old record in hand, comments repeated, issues people moved |
| Provider capacity, circuits, journal | usage windows, circuit, attempts | snapshot, record, recordGatewayAttempt | unserialized updates, caps on lists |
| Provider connections and vault | connection records, secrets | connect, rotate, revoke | a step of several fails |
| Local request store (`local-request-store.ts`, `local-*.ts`) | requests with their sessions, worktrees, the canonical branch | authorize, prepare, validate; preview, approve, apply, roll back and reconcile a patch or change set; proposals; commits and integrations and their undo | unknown outcome of an interrupted effect, a store saved in a form no load accepts, others' commits |
| Distributed workers, durable scheduler, supervisor (`packages/`) | leases | claim, renew, reconcile | libraries that no application calls yet |

How they interact: the lifecycle coordinator polls the lifecycle and dispatches
each stage once - solution, delivery plan, execution - to the coordinator of
that stage. The delivery-plan coordinator, when its plan is synchronized with
Jira, initializes the execution record and schedules the project with the
execution coordinator. The execution coordinator runs `reconcileExpired` and
one `tick` of the worker at a time per project, and from the record the tick
leaves decides whether to go on, wait, ask for the owner or complete the
delivery in the lifecycle. The owner's retry goes through `retryExecution`,
which picks one of four authorizations of the service and schedules the project
again.

What makes each part correct:

- *execution service*: a task is worked on under exactly one live lease; no
  task starts before, or stays completed without, its prerequisites; files are
  never shared by live leases; a completed task has all its evidence; evidence
  only moves into the archive; the owner can resume whatever is handed to them.
- *execution coordinator*: no two runs of one project overlap; every pending
  run is remembered by something that will come back to it, across crashes; a
  completed run has told the lifecycle; nothing waiting is starved.
- *workspace*: the canonical branch only ever holds validated commits, each of
  a task whose record says so.
- *lifecycle and its coordinators*: stages only move along the allowed edges,
  on current artifacts; each stage of each revision is dispatched, and its work
  really started, once.
- *Jira*: an item has one issue and a revision one comment; a completed receipt
  stands for everything execution starts from; what was left unfinished is
  finished.
- *requests*: receipts say what worktrees and branch hold, after any
  interruption; others' commits stay; what is saved can be loaded.
- *providers*: usage is never under-counted.

`PROJECT.json` lists every component with its status and every hazard at its
line.

## 2. Modules

| Module | Models | Composes |
|---|---|---|
| `ProjectExecution.tla` | the execution record and all operations of the service, with the worker and the owner's retry as callers | `TaskBoard` (refinement) |
| `TaskBoard.tla` | the abstract promise: a board of tasks taken, stopped, completed and withdrawn under leases | |
| `MCProjectExecution.tla` with its `.cfg` | constants for TLC | `ProjectExecution` |
| `TaskBoard_proofs.tla` | the board's own guarantees | `TaskBoard` |
| `TaskIntegration.tla` | the worker's tick on the task worktrees and the canonical repository, with restarts and the owner's edits | `ProjectExecution` (extended; implements its `Spec`) |
| `MCTaskIntegration.tla` with its `.cfg` | constants for TLC | `TaskIntegration` |
| `TaskIntegration_proofs.tla` | part I, the service of `ProjectExecution`: types, the refinement, the safety invariants, the project state, the completion evidence and the archive; part II, the worker: that it keeps within the service, where merges land, its types, that rejected work is redone and completed work stays in effect | `TaskIntegration`, the board's proofs |
| `ExecutionCoordinator.tla` | the scheduler of executions, its process and its callers | |
| `MCExecutionCoordinator.tla` with its `.cfg` | constants for TLC | `ExecutionCoordinator` |
| `ExecutionCoordinator_proofs.tla` | the scheduler's safety | `ExecutionCoordinator` |
| `DeliveryPipeline.tla` | a project from its context to its completion: lifecycle, solution and plan runs, the minute timer, the dispatcher, the owner | |
| `DeliveryPipeline_proofs.tla` | its types, that runs are remembered and what is built is approved | `DeliveryPipeline` |
| `LifecycleCoordinator.tla` | the lease, record and dispatches of the controllers of one project | |
| `LifecycleCoordinator_proofs.tla` | its types, and that dispatchers hold the lease | `LifecycleCoordinator` |
| `JiraDelivery.tla` | how a plan becomes issues and links | |
| `JiraDelivery_proofs.tla` | issues created once, completed receipts whole | `JiraDelivery` |
| `JiraObserver.tla` | how the progress of tasks is published | |
| `JiraObserver_proofs.tla` | its types, comments written once, receipts true | `JiraObserver` |
| `LocalRequests.tla` | what an owner's local request does to files and to Git | |
| `LocalRequests_proofs.tla` | its types, that the store stays readable, that receipts are true and others' commits stay | `LocalRequests` |
| `MCDeliveryPipeline.tla`, `MCLifecycleCoordinator.tla`, `MCJiraDelivery.tla`, `MCJiraObserver.tla`, `MCLocalRequests.tla` with their `.cfg` | constants for TLC | the module they are named after |

### ProjectExecution

`tasks` is the stored record's task list and `state` its project state. Every
method of the service is serialized by `#mutate`, loads the file, computes a
successor, parses it with the zod schema and renames a new file over the old
one; so a method is one action, and a method that throws, or whose successor
`SchemaAccepts` refuses, is not enabled. `Store` is a save that keeps the
project state, `StoreProjected` one that recomputes it - the code does so in
some methods only, which is why `StateReflectsTasks` is worth checking.

| Action | Method |
|---|---|
| `Claim`, `Heartbeat` | claim, heartbeat |
| `RecordImplementation`, `RecordPass`, `RecordFailure` | recordImplementation, recordValidation |
| `AssessHealing` | assessHealing with planHealing |
| `RecordReviews`, `RecordIntegration` | recordReviews with evaluateQualityQuorum, recordIntegration |
| `ReleaseForRetry`, `ReleaseContractFailureForRetry`, `Interrupt` | the same names |
| `ReconcileExpired`, `Tick` | reconcileExpired, the clock |
| `AuthorizeReviewRepair`, `AuthorizeCompletedRepair`, `AuthorizeEnvironmentRetry`, `AuthorizeQuarantineRecovery` | the same names |

`WorkerStep` and `OwnerStep` are the callers: the first offers each operation
in the stages where the worker's `tick` reports it (with any number of workers,
each of which may be a late one), the second is `retryExecution`'s dispatch.

A task's validations are abstracted to their number, the tiers with a passing
one, and what distinguishes the last two failing ones; free text to the
phrases the code later searches it for (`Notes`).

### TaskIntegration

`ProjectExecution` lets any worker call any operation its stage allows. This
module says what the one worker of a project really does: `run` is its tick,
cut at every await of a Git command, a validation, a model call or the service,
and the service's operations are called from there.

| State | Code |
|---|---|
| `branch`, `dirt` | the canonical branch, HEAD last, and whether the canonical folder has uncommitted changes: Codkesh's own artifacts (`owned`, committed by `ensureExecutionBaseline`) or anything else (`foreign`, refused) |
| `worktrees` | the folders under `project-task-worktrees`, by task and baseline; they survive the process |
| `active` | `#workspaces` of the adapters; it does not survive |
| `run` | the tick: which task, which step, whether `commit` found changes |

| Action | Code |
|---|---|
| `Prepares` in `StartImplementation`, `VerifyRepair` | prepare with ensureExecutionBaseline and resetAuthorizedFiles |
| `FinishImplementation`, `FailImplementation`, `SkipImplementation` | the rest of implement with apply, the recovery evidence branch of tick |
| `Validate`, `Assess`, `ReviewTask` | validate, heal, review |
| `CommitWork`, `ValidateCommit`, `Merge`, `ValidateRoot`, `Revert`, `RecordDelivery` | integrate: commit, validateCommit, integrate, validateRoot, revertIntegration, recordIntegration |
| `Stops`, `LoseLease`, `RecordRefused` | the catch of tick: the interruption, the one refused because the lease is gone, the call a full list refuses |
| `Restart`, `Clock`, `Reconcile`, `OwnerDecides`, `EditCanonical`, `DiscardEdits` | the process, the clock, the coordinator, the owner, Codkesh's own writes |

A commit is abstracted to whose it is, the baseline it was validated on, what
it reverts, and whether it holds rejected work (a ghost: set where an attempt
that was reviewed is reopened, never read by the code's guards). None of the
steps inside integrate looks at the lease or the record, and none does here.

Left out: file contents, validation commands and review texts (their outcomes
are choices), paths outside a task's authority, Git index errors, and history
the owner rewrites (the branch only grows).

### ExecutionCoordinator

`runs` is the runs file, `records` what the coordinator can tell of each
execution record, `told` the lifecycles whose delivery is complete. `timers`,
`queue`, `inFlight` and `slots` are the coordinator's memory and vanish in
`Exit`; `limit` is the number of slots it was constructed with. A run is cut at its awaits: `Begin` (saved as running), `Tick`
(reconcileExpired and the worker), `OnCompleted`, `SaveOutcome` and `Recheck`,
the `finally` block. `Schedule` and `Arm` are the two halves of schedule();
`Restart`, `Resume` and `ResumeContradicted` are resumePending, one run at a
time; `Wake` and `OwnerRetries` are its callers in the control plane.

### DeliveryPipeline

How the stages hang together, as `control-plane-main.ts` wires them. It stops
where the other modules begin: Jira synchronization is its receipt and its
answer (`JiraDelivery` has the issues), execution is the run's state
(`ExecutionCoordinator` and `ProjectExecution` have the rest), and the lifecycle
coordinator is one `Dispatch` per revision (`LifecycleCoordinator` has how).

| State | Code |
|---|---|
| `lifecycle` | the service's record: stage, published solutions and backlogs, approval, feedback, epic |
| `design`, `plan`, `planned`, `receipt`, `execution` | the documents on disk by revision, the Jira receipt and the execution record |
| `runs`, `work`, `timers` | the two coordinators' files, what is in flight, their retry timers |
| `sync`, `route`, `dispatched` | the minute timer, a publishSolution request between its two writes, the dispatcher |

`Schedule` is schedule() with both options, `Begin` to `Save` is #execute, cut
where the orchestrator awaits: `ReadForDesign`, `WriteDesign`, `PublishSolution`
for a design, `ReadForPlan` to `ScheduleExecution` for a plan with the Jira
synchronization and the start of execution that follow it. Documents are their
revision, since their digest is unique. What a run has read is kept until its last
use only (`Leave`).

### LifecycleCoordinator

Controllers share three files: the lifecycle, the record, and a directory that
is the lease. An attempt of `reconcile` is cut at each file operation, because
another controller may run between any two and an attempt writes back the copy
it read: `MakeLease`, `Inspect`, `Displace`, `Relock`, `Own` and `Sign` are
`#acquire`; `Observe` to `Complete` is the body; `Heartbeat`, `Release` and
`Unlock` the rest. `ReadForReopen` and `AcknowledgeReopen` are the call that
takes no lease. `Tick` ages the lease; `Crash` ends a process and leaves its
files; `ousted` (a ghost) marks who lost the lease while using it.

### JiraDelivery

Each call of synchronize works on its own `copy` of the receipt and saves it
whole; `caller` says how far it is. `Find` is findByMarker and what is done about
it, `Create`, `SaveIssue`, `Link`, `SaveLink`, `Activate`, `Complete` the rest
in order. Jira keeps `created`, `parentOf` and `linked`; `overlapped` (a ghost)
remembers that a call began while another was at work, for nothing in the code
keeps two apart.

### JiraObserver

A pass reads the execution record once (`Begin`) and goes through the tasks:
`Load`, `Look` (hasMarker), `Comment`, `Read`, `Post` and `Confirm`
(ensureStatus), `Save`. `Work` is the execution service, `Move` people at the
board. `outrun` (a ghost) marks tasks moved by a pass whose record was older
than what another had shown Jira.

### LocalRequests

The store runs one operation at a time (`#serialize`), loads and validates every
request first (`Readable`), and saves with the weaker check of one request's
shape. An operation on files is three steps - the save that it begins, its work,
the save of what came of it - and `Cut` may fall between any two; an undo has no
first save. `record` is the file, `tree` the worktrees, `canonical` the branch
that others commit to as well (`OwnerCommits`), `op` the operation under way.
Files of a change set are written one by one. `uses`, the ways an owner takes,
is no state of the store: it keeps the histories of one request apart.

## 3. Runs

| Run | Question | Bounds |
|---|---|---|
| `execution_single` | every history of one task; `TypeOK`, `LeaseMatchesStage`, `IntegratingIsCompletable`, `EvidenceIsArchived` | 1 task, 2 providers, an archive of 1, lists of 2 and 4, healing budget 1: every limit is reached and refused |
| `execution_chain` | reopening along dependencies; `StateReflectsTasks`, `DependencyOrder`, and `ImplementsTaskBoard` (the abstract specification as a property) | 3 tasks in a chain, so that a reopened task has an indirect dependent |
| `execution_pair` | heartbeats racing expiry; `FileExclusion` | 2 workers, 2 independent tasks sharing a file, leases of 2 ticks |
| `integration_single` | `IntegrationTypeOK`, `ChangesSitOnTheirBaseline`, `RejectedWorkStaysOut` | 1 task, 1 approval, 1 edit at any step, leases of 1 tick: repair, healing, expiry, restarts and a moved HEAD in one history |
| `integration_pair` | `CompletedWorkIsInEffect`, `PrerequisitesPrecede`, `RunsEnd` (liveness), and `UsesTheServiceAsModelled` (ProjectExecution's `Spec` as a property) | a task and its prerequisite, 1 edit, every list limit reached, no owner repairs (the exceptions below) |
| `coordinator_scheduling` | `TypeOK`, `NoOrphanedRun`, `OneRunPerProject`, `CompletedIsTold`, `WaitingRunsGoOn` (liveness) | 2 projects, 1 slot and a process that is stopped or ends once, at any step, or 2 slots (the code's default) and a process that goes on |
| `lifecycle_lease` | `TypeOK`, `OneDispatcher`, `StagesAreDispatched` (liveness) | 2 controllers, a lease of 1 tick, 2 revisions, 1 end of a process, an owner who reopens |
| `pipeline` | `TypeOK`, `ImplementationIsApproved`, `PendingRunsAreRemembered`, `AcceptedPlansReachDelivery`, `RunsGoOn` (both liveness) | 2 designs, 1 plan, 1 reopening, 1 restart |
| `jira_delivery` | `TypeOK`, `IssuesAreCreatedOnce`, `CompletedReceiptsAreWhole`, `SynchronizationCompletes` (liveness) | an epic, a story and a linked task, 2 callers, 2 faults |
| `jira_observer` | `TypeOK`, `CommentsAreWrittenOnce`, `ReceiptsAreObservations`, `CompletionIsPublished` (liveness) | a task of 3 revisions, 2 passes, 1 fault, one foreign status |
| `requests` | `TypeOK`, `StoreStaysReadable`, `ReceiptsAreTrue`, `OthersCommitsSurvive` | one request with all three ways to change and 1 commit by others, or two that patch the same file |
| `requests_ownership` | finding 1: `OneOwnerPerRun` is violated | the same requests, no commits by others |

Why the bounds are enough: projects never touch each other's execution record,
so one record is modelled; the limits on lists (100, 20) are constants here, so
small values make the refusals happen; two workers give every race between a
holder and a late one; three tasks are the fewest with an indirect dependency.
In the coordinator projects interact only through the slots, so two are enough
for the queue. One run starts it with one slot, where a project waits for the
other and the process may end, or with two, where a slot still held in its last
look at a run stands beside one that works on the same project (`CrashLimit` is
given by the number of slots: two slots and an end of the process together are
3 million states, past what liveness can be checked for; the safety theorems
hold for any number of both). A project has one tick
at a time, so a worker's repository sees two tasks only one after the other: two
are enough for one change to lie on another, and one edit for a HEAD that moves
or a folder that is dirty between any two steps of a tick. Two controllers, callers
or passes give every race over a shared file, of which each has one. Two
designs and one reopening give a design that is not the one approved; with one
plan a receipt of an earlier plan does not occur in the run (`Mismatched` is then
never true), and two plans exceed what TLC finishes: that case is described
under the exceptions below. An item without a parent, one with a
parent and one with a link are what a plan has to offer `JiraDelivery`. The commits of others and the
requests share a bound because each gives the branch a second author.

### Fairness

Only the liveness properties assume any. For the coordinator: armed timers fire, promises
settle (each adapter call is bounded by a time limit - `GIT_TIMEOUT_MS` and
`VALIDATION_TIMEOUT_MS` in the workspace, request timeouts in the model
client), and a started process goes through resumePending. For a tick
(`RunsEnd`): weak fairness of `WorkerProgress` as a whole, which says only that
what a tick awaits settles, by those same limits. For the pipeline: a run
in flight goes on and the minute timer comes round; strong fairness of
`TimerActivates` alone, which says that Jira does not refuse for ever. Neither
property needs the dispatcher or the retry timers to come round. For the lifecycle coordinator: its
interval makes attempts, their file operations end, the clock goes on. For
Jira: the minute timer begins calls and passes, and one that began goes on. Faults
are bounded, so that refusals end. Nothing makes the owner decide or retry, a
provider be admitted, a process stop or start again.

### Findings

1. **A run that a patch and a change set both own makes the store unreadable**
   (`OneOwnerPerRun`, run `requests_ownership`). previewPatch looks for an
   earlier patch but not for a change set, and accepting a proposal stores a
   change set without looking for a patch; the save accepts it. The load asserts
   that "Legacy patch and multi-file change set cannot own the same execution
   run." (`packages/runtime/src/local-requests.ts:1027`), so every later
   operation on every request throws.

Six more histories are kept as configurations of their own, each with one
property that TLC refutes in seconds
(`tlc -config <cfg> <module>`); they are no part of the runs above:

- `MCProjectExecution_interrupted.cfg`, `InterruptedWorkCanBeResumed`: when the
  lease of an `integrating` task expires, its reviews are all passing and its
  failure class is null; the task goes to `needs_user`, and every authorization
  behind the owner's retry refuses it.
- `MCProjectExecution_recovery.cfg`, `RepairRunsImplementation`: a repair erases
  evidence but not `verifiedRecoveryEvidenceDigest`, which the next worker
  records in place of an implementation.
- `MCExecutionCoordinator_latecall.cfg`, `LateCallsAreHeard`: a schedule()
  between the end of a tick and the save of its outcome is overwritten by that
  outcome and nothing is armed.
- `MCLocalRequests_replaced.cfg`, `CommitsKeepTheirChange`: a proposal that was
  requested before the run had a change set is accepted once that change set is
  committed and rolled back; its preview takes the place of the receipt the
  commit was made of, and the load's assertion at
  `packages/runtime/src/local-requests.ts:1125` refuses the whole store.
- `MCTaskIntegration_prepared.cfg`, `QueuedWorkCanBePrepared`: after a failed
  clean checkout the rejected commit stays HEAD of the worktree of that
  baseline; the repair the owner authorizes must prepare the same folder and is
  refused until something else moves the canonical branch.
- `MCTaskIntegration_reverts.cfg`, `RevertsUndoTheirOwnChange`: without changes
  the baseline stands for the commit; when the canonical folder then fails, the
  baseline is reverted, which may be somebody else's change.

### Exceptions the properties name

A property that excludes a case says so, because the code does not prevent it:

- *integration_pair has no owner repairs*, and `RejectedWorkStaysOut` is said of
  tasks that do not depend on each other. commit() accepts unchanged files of
  any task with an archived attempt, also one stopped before implementing, so
  such a task can complete without a change of its own. And integrate asks for
  neither the lease nor the record: when a prerequisite is reopened while a
  dependent is integrated, the dependent's change is still merged, and only
  recordIntegration, after the merge, is refused.
- *OneDispatcher*: a lease may be taken from a controller that is using it,
  between its directory and its owner file, or after one slow dispatch.
- *StagesAreDispatched*: a reopened project whose acknowledgement was lost is
  over in the record for good.
- *ImplementationIsApproved*, *AcceptedPlansReachDelivery*: activateDelivery
  accepts any backlog the lifecycle still lists, and the Jira receipt belongs to
  the first plan for ever, so that a second plan never reaches delivery.
- *IssuesAreCreatedOnce*, *CommentsAreWrittenOnce*: overlapping calls may create
  a second issue, and comment once each.
- *ReceiptsAreObservations*, *CompletionIsPublished*: a pass with an older record
  may take an issue back, which nothing makes good.
- *StoreStaysReadable*: a preview may be a run's second owner (finding 1), and
  that of an accepted proposal may replace the change set of a commit
  (`MCLocalRequests_replaced.cfg`); a request in one of these states excuses no
  other.
- *ReceiptsAreTrue*: an undo that ends after its work and before its save leaves
  a record that says the opposite, and no reconciliation looks at it.
- *OthersCommitsSurvive*: integrations and undos reset the branch, also over a
  commit made meanwhile; and reconciliation takes a commit with the expected
  paths for its own, whose undo then removes it.

## 4. Proofs

The theorems about the service (part I of `TaskIntegration_proofs`) hold for every value of the constants that
satisfies `ConstantsAssumption`: any number of tasks, any dependency relation without
self-loops (cycles are allowed), any file sets, workers, providers and limits.

- `TypeCorrect == Spec => []TypeOK`. `TypeOK` is inductive; each operation has
  a lemma that the task record it writes is a `Task`, and `SchemaAccepts`
  supplies the bounds of the counters.
- `ServiceImplementsTaskBoard == Spec => ImplementsTaskBoard`. The mapping
  takes the worker's own stages together, the lease owner as holder, and a
  positive time to live as live. The step proof needs that a stage is leased
  exactly while active (`Held`), that a completed task's dependencies are
  completed (`DependencyOrder`) and that live leases share no file
  (`FileExclusion`): `IInv` is their conjunction with `TypeOK`. Operations that
  only move a task within its stages map to stuttering.
- `DependenciesComeFirst`, `LiveLeasesShareNoFile`, `StagesAreLeased` are the
  safety consequences. Dependency order is preserved by
  `AuthorizeCompletedRepair` because `Invalidated(t)` is closed under
  dependents, which is where a weaker invalidation breaks the proof.
- `StateIsProjected`, `ReviewedWorkIsCompletable` and `EvidenceIsNeverLost`
  share one inductive invariant, `EvidenceInv`: besides `TypeOK` and
  `StateReflectsTasks` it says what each stage stands on (`Grounded`). Reviews
  are only there from integration on, without which recordReviews could replace
  an earlier round that was never archived; validation and review follow an
  implementation, without which a quorum could let through what the schema then
  refuses.
- `BoardKeepsItsPromises`: the abstract board alone guarantees the three.
- `WorkerUsesTheService == IntegrationSpec => UsesTheServiceAsModelled`: the
  running worker implements the service's specification, so the theorems above
  hold of it. Besides `TypeOK` the induction needs `InFlight`: while a tick is
  inside integrate its task is integrating or has lost its lease. Without it
  the note "integration" could be left on a task of another stage, which the
  service's own module does not allow; it holds because the owner's decisions
  and the expiry all take the lease away.
- `MergesAreValidatedInPlace == IntegrationSpec => []ChangesSitOnTheirBaseline`.
  The inductive invariant adds that the history is a non-empty sequence: a
  revert names a commit (its index is not 0), so only `Merge` adds a change,
  under the guard that HEAD is the baseline.
- `IntegrationTypeCorrect == IntegrationSpec => []IntegrationTypeOK`. The types
  rest on `HasWorkspace`: past its first step a tick has a workspace in this
  process, also in a review, which needs that only a validation with a workspace
  leads to `reviewing` and that nothing between the tick's steps does. Without
  it a merge could name a worktree that does not exist.
- `RejectedWorkIsRedone`: where no task depends on another, `IntegrationSpec =>
  []RejectedWorkStaysOut`. The inductive invariant is `Apart`. A worktree cut
  from the present HEAD that holds rejected work belongs to a task whose repair
  is pending (`RejectedIsPending`): reopened after reviews, not implemented
  since, without recovery evidence (`RecoveredIsUnreviewed`), and stopped with
  no message that would let the owner record some. Such a repair is given a
  fresh worktree before its implementation is recorded (`InStage`), and a moved
  HEAD leaves every worktree behind. The assumption is used once, where the
  owner's decisions leave the task a worker is at alone; a prerequisite's repair
  does not, which is the exception above.
- `CompletedWorkIsDelivered` and `ChangesFollowPrerequisites`: `IntegrationSpec
  => [](NothingReopened => CompletedWorkIsInEffect)`, and the same for
  `PrerequisitesPrecede`, with any dependencies. `NothingReopened` says that all
  archives are empty; archives only grow (`EvidenceIsNeverLost`), so it holds up to
  the first reopening, and without approvals for ever, which is the run
  (`WithoutApprovalsWorkStands`). The invariant adds `Midway`: inside integrate
  the task is still integrating - until something is reopened the owner only
  takes stopped tasks up again - `commit` found changes, and from the merge on
  the change on top of the tick's baseline is its own and not reverted
  (`Landed`). Then a delivery is only recorded for a change that landed, and a
  revert undoes the change of a task that is integrating, hence not completed.
  `PrerequisitesPrecede` needs the other two and the service's `DependencyOrder`.
  After a reopening both properties fail, which is the exception above.
  These six also assume `EditLimitAssumption`.

The argument goes through the board on purpose: the board's invariants are
proved once, on five actions, and reach the service by the mapping.

- `CoordinatorTypeCorrect`, `OneRunEach`, `CompletionIsToldFirst` and
  `PendingRunsAreRemembered` hold of the scheduler, under
  `CoordinatorAssumption`, for any number of projects, slots and process ends.
  They share `CoordinatorInv`. `Exclusive`: what is in flight is what the
  working slots work on, and a project in the queue waits once and is not in
  flight - only with both does the head of the queue start safely. `Told`: a
  slot whose result is "completed" has told the lifecycle. `Remembered`: a
  pending run is held by a timer, schedule call, queue, flight or start-up
  pass; the look #run takes at the saved run, once it is out of flight, counts
  only for a run that is not saved as "running", because that look ignores
  "running". `NoOrphanedRun` alone is not inductive: a slot in its
  last look at a run saved as "running" satisfies it, and then drops the run.

- `LifecycleTypeCorrect` and `DispatchersHoldTheLease` hold of the lifecycle
  coordinator under `LifecycleAssumption`, for any number of controllers and any
  lease length. The second rests on `OneHolder`: a controller that uses the
  lease and has not been ousted finds the directory there, and whoever else uses
  it has been ousted. `OneDispatcher` alone is not inductive, for it says nothing
  of the steps before a dispatch, nor of the directory that keeps others out.
- `SynchronizationTypeCorrect`, `OneIssueEach` and `CompletedMeansWhole` hold of
  Jira synchronization under `JiraDeliveryAssumption`, for any plan whose items
  come after their parents, any callers and any number of faults. The inductive
  invariant is `Sound`: the receipt, and every call's copy of one, fits Jira
  (`Fits`: its issues exist, no item has one before its parent, its links are
  between the issues it names), what a call is about to do is what its copy lacks
  (`Works`), and while calls do not overlap one of them is at work and creates an
  issue only where there is none (`Single`). That a completed receipt stays whole
  under overlap needs that only the epic of the copy completes delivery, which
  `Works` keeps from `Activate` to `Complete`.

- `PipelineTypeCorrect`, `PipelineRunsAreRemembered` and
  `WhatIsBuiltIsApproved` hold of the pipeline under its assumption, for any
  number of designs, plans, reopenings and restarts - also two plans, which the
  run cannot reach. The inductive invariant is `TypeOK` with `Pool` and
  `Approval`. `Pool`: a run that is not over is in flight or has its timer, and
  never both (`OneWayOn`), without which ending a flight could leave a stale
  timer. `Approval`: while the planner works the project stays where it read it
  and its plan is new (`PlanningFollowsApproval`), an accepted plan is the last
  backlog and was made from the approved design (`AcceptedIsApproved`), and the
  receipt binds everyone who has Jira at work to one plan (`OnePlanInJira`).
- `ObserverTypeCorrect`, `CommentsOnce` and `ReceiptsObserve` hold of the
  observer for any tasks, passes and faults. `CommentsAreWrittenOnce` alone is
  not inductive: with overlap its bound is the number of passes, and what keeps
  it is that a pass which is about to comment found no comment, so those that
  commented and those about to (`Commenters`) are different passes
  (`CommentersLeft`); without overlap one pass is under way (`OneCommenter`).
  A receipt is true because what it is about to record was seen in Jira since
  the pass last looked (`ObservedStays`), its comment being there
  (`Commented`); a pass with an older record marks the task `outrun` first.

- `RequestsTypeCorrect`, `StoreLoadsButForPreviews`, `RequestReceiptsTrue` and
  `OthersCommitsStay` hold of local requests under `LocalRequestsAssumption`, for
  any set of requests, any finite set of files that each way touches, any
  commits of others and any interruptions - also several requests of all
  ways with others' commits between theirs, which the run keeps apart. The
  inductive invariant `RInv` has five parts. `Typed`: besides the types, the record says
  what is being done to it (`SavedAs`). `AllFit`: what one record keeps by
  itself (`Fits`): all that a load asks of it, but that the preview of a patch or
  of an accepted proposal may be the run's second owner (`TwoOwners`), and that
  of an accepted proposal may be where a commit's change set was (`Replaced`).
  `OpsBeginReadable` - an operation is only under way in a readable store - is
  why nothing else breaks a condition and nothing is built on a broken one;
  `StoreStaysReadable` follows for each request by itself. `AllStand`: each
  record against its worktree at every step of an operation, not only
  between two (`Stands`, `Tells`): during an undo the files may be either,
  and `Past` is the undo that ended after its work. `AllLand`: each record
  against the branch (`Recorded`, `NotThere`), and `Agreed`: unless a
  request is `Mistaken`, every integration that landed begins the branch, and
  begins what any operation under way will reset the branch to.
  `ReceiptsAreTrue` alone is far from inductive, for it says nothing while an
  operation is under way, nor of what an undo puts back: `Reset` sets the branch to the
  target of one request, and what keeps the receipt of another true is that
  both receipts end in commits of different authors, so that one which begins
  the other begins its target too (`BeginsFront`). `OthersCommitsSurvive` is an
  action property and follows from the same invariant.

Every invariant and every safety action property of a passing run is stated by a
theorem. Only model-checked are the seven liveness properties
(`WaitingRunsGoOn`, `RunsEnd`, `StagesAreDispatched`,
`AcceptedPlansReachDelivery`, `RunsGoOn`, `SynchronizationCompletes`,
`CompletionIsPublished`), which are out of the prover's reach.
Three are proved with a condition: `RejectedWorkStaysOut` where no task depends on
another, `CompletedWorkIsInEffect` and `PrerequisitesPrecede` until something is
reopened.

## 5. Not modelled

Listed with reasons in `PROJECT.json`: user interfaces, HTTP routing, vendored
code, libraries no application calls yet, pure decision functions, and the
components planned below. Inside the
modelled ones: timestamps, ids, wording, task revisions (an owner's decision on
a stale revision is refused before anything else happens), corrupt files, and
the order in which resumePending visits runs.

## 6. Plan

What is left, in order of importance:

1. Provider capacity, circuits and journal: lost updates of the capacity file,
   and what is replayed from the journal after a crash.
2. Connections and vault: a record and a secret changed in two steps.
3. The distributed lease authority and pairing, once an application calls them.
4. Two plans in `DeliveryPipeline`, for the receipt of an earlier plan, on an
   abstraction with fewer concurrent callers.
