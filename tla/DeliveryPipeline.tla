--------------------------- MODULE DeliveryPipeline ---------------------------
(* How one project moves from its context to its delivery: the lifecycle     *)
(* service (project-lifecycle-service.ts over packages/orchestration's       *)
(* project-lifecycle.ts), the solution and delivery-plan coordinators with   *)
(* the orchestrators they run, the Jira synchronization and the execution    *)
(* they end in, as control-plane-main.ts wires them.                         *)
(*                                                                          *)
(* A step is what happens between two awaits that matter: a file is read or  *)
(* rewritten, a model or Jira answers. Four callers work on the project at   *)
(* once: the two workers, the timer that synchronizes Jira every minute, the *)
(* lifecycle coordinator and the owner's requests.                           *)
(*                                                                          *)
(* Left out: what the artifacts say (a design and a plan are their revision, *)
(* whose digest is unique), the eligibility record (the stages after         *)
(* solution_design are entered with an eligible assessment and no event      *)
(* removes it), receipts of replayed requests, and the lease and record of   *)
(* the lifecycle coordinator, which LifecycleCoordinator has. #execute and   *)
(* schedule read their run and go on in one step.                            *)
EXTENDS Naturals, SequencesExt

CONSTANTS
  DesignLimit,    \* bound: revisions of the solution
  PlanLimit,      \* bound: revisions of the delivery plan
  ReopenLimit,    \* bound: times the owner reopens the project
  CrashLimit      \* bound: times the process ends and starts again

ASSUME PipelineAssumption ==
  DesignLimit \in Nat /\ PlanLimit \in Nat /\ ReopenLimit \in Nat /\ CrashLimit \in Nat

Designs == 1..DesignLimit
Plans == 1..PlanLimit
Stages ==
  {"context_review", "clarification", "solution_design", "awaiting_design_approval",
   "backlog_design", "backlog_qa", "delivery", "complete", "cancelled"}
Kinds == {"solution", "delivery_plan"}
RunStates == {"none", "queued", "running", "deferred", "needs_user", "completed"}

VARIABLES
  lifecycle,    \* the service's record of the project
  design,       \* revision of the solution document (0: none)
  plan,         \* revision of the delivery plan document (0: none)
  planned,      \* plan -> the design it was made from
  receipt,      \* the Jira receipt: its plan (0: none) and completed
  execution,    \* the plan of the execution record (0: none)
  runs,         \* kind -> persisted run state, and the execution's run
  work,         \* kind -> the run in flight
  timers,       \* the kinds with an armed retry timer
  sync,         \* the minute timer's synchronization
  route,        \* design a publishSolution request has written, not reported
  dispatched,   \* the lifecycle coordinator has dispatched this revision's action
  reopens, crashes

disk == <<design, plan, planned, receipt, execution>>
pools == <<runs, work, timers>>
callers == <<sync, route, dispatched>>
bounds == <<reopens, crashes>>
vars == <<lifecycle, disk, pools, callers, bounds>>

Lifecycles ==
  [stage : Stages, solutions : SUBSET Designs, approved : Designs \cup {0},
   feedback : BOOLEAN, backlogs : Seq(Plans), epic : Plans \cup {0}]

\* A worker: base is the revision it read, from the design it plans.
NoWork == [pc |-> "idle", base |-> 0, from |-> 0]
NoSync == [pc |-> "idle", base |-> 0]

Init ==
  /\ lifecycle = [stage |-> "context_review", solutions |-> {}, approved |-> 0,
                  feedback |-> FALSE, backlogs |-> <<>>, epic |-> 0]
  /\ design = 0 /\ plan = 0 /\ planned = [p \in Plans |-> 0]
  /\ receipt = [plan |-> 0, completed |-> FALSE] /\ execution = 0
  /\ runs = [k \in Kinds \cup {"execution"} |-> "none"]
  /\ work = [k \in Kinds |-> NoWork] /\ timers = {}
  /\ sync = NoSync /\ route = 0 /\ dispatched = FALSE
  /\ reopens = 0 /\ crashes = 0

-----------------------------------------------------------------------------
(* The lifecycle service. Every event makes a new revision, for which the   *)
(* lifecycle coordinator has dispatched nothing yet.                         *)

Advance(next) == lifecycle' = next /\ dispatched' = FALSE
Unmoved == UNCHANGED <<lifecycle, dispatched>>
MoveTo(s) == Advance([lifecycle EXCEPT !.stage = s])

\* assess, override, answer and publishQuestions: the scope is settled, found
\* too small, or more is asked and answered.
AssessScope ==
  /\ lifecycle.stage \in {"context_review", "clarification"}
  /\ \E s \in {"context_review", "clarification", "solution_design", "cancelled"} :
       ~(s = "clarification" /\ lifecycle.stage = s) /\ MoveTo(s)
  /\ UNCHANGED <<disk, pools, sync, route, bounds>>

\* design_completed: refused in any other stage.
SolutionAccepted == lifecycle.stage = "solution_design"
ReportSolution(d) ==
  Advance([lifecycle EXCEPT !.stage = "awaiting_design_approval", !.solutions = @ \cup {d}])

\* backlog_completed. upsertArtifact lists no revision twice and puts the new
\* one last.
BacklogAccepted == lifecycle.stage = "backlog_design"
ReportBacklog(p) ==
  Advance([lifecycle EXCEPT !.stage = "backlog_qa", !.epic = 0,
             !.backlogs = Append(RemoveFirst(@, p), p)])

\* activateDelivery: the first call moves the project; a later one is accepted
\* when its plan is the first backlog and its epic the one delivery began with.
AlreadyActive(p) ==
  /\ lifecycle.stage = "delivery" /\ lifecycle.epic = p
  /\ lifecycle.backlogs # <<>> /\ Head(lifecycle.backlogs) = p
Activatable(p) == lifecycle.stage = "backlog_qa" /\ p \in Range(lifecycle.backlogs)
Activate(p) == Advance([lifecycle EXCEPT !.stage = "delivery", !.epic = p])

-----------------------------------------------------------------------------
(* The two coordinators of runs: schedule and its options.                  *)

InFlight(k) == work[k].pc # "idle"
Launch(k) == work' = [work EXCEPT ![k] = IF InFlight(k) THEN @ ELSE [NoWork EXCEPT !.pc = "starting"]]
SetRun(k, s) == runs' = [runs EXCEPT ![k] = s]

\* schedule: regenerate is forceRegenerate (the solution's only), retry is
\* forceDeferredRetry. A deferred run is due once it has been launched.
Anew(k, regenerate, retry) ==
  \/ runs[k] \in {"none", "needs_user"}
  \/ runs[k] = "completed" /\ regenerate /\ k = "solution"
  \/ runs[k] = "deferred" /\ retry
Over(k, regenerate) == runs[k] = "completed" /\ ~(regenerate /\ k = "solution")
Waits(k, retry) == runs[k] = "deferred" /\ ~retry /\ ~InFlight(k)
Schedule(k, regenerate, retry) ==
  /\ runs' = IF Anew(k, regenerate, retry) THEN [runs EXCEPT ![k] = "queued"] ELSE runs
  /\ timers' = IF Waits(k, retry) THEN timers \cup {k}
               ELSE IF runs[k] = "deferred" /\ retry THEN timers \ {k} ELSE timers
  /\ IF Over(k, regenerate) \/ Waits(k, retry) THEN work' = work ELSE Launch(k)

\* schedule again, now that the run is due.
RetryTimer(k) ==
  /\ k \in timers /\ timers' = timers \ {k}
  /\ runs' = runs /\ Launch(k)
  /\ UNCHANGED <<lifecycle, disk, callers, bounds>>

At(k, pc) == work[k].pc = pc
Goto(k, pc) == work' = [work EXCEPT ![k].pc = pc]
\* What the run has read and written is of no more use to it.
Leave(k, pc) == work' = [work EXCEPT ![k] = [NoWork EXCEPT !.pc = pc]]

Begin(k) ==
  /\ At(k, "starting")
  /\ SetRun(k, "running") /\ Goto(k, "reading")
  /\ UNCHANGED <<lifecycle, disk, timers, callers, bounds>>

\* Slip: the outcome has a state of its own for what the models refuse.
SaveAsFailed(k) ==
  /\ \/ At(k, "saving") /\ SetRun(k, "completed") /\ timers' = timers
     \/ At(k, "failing") /\ SetRun(k, "failed") /\ timers' = timers
     \/ At(k, "deferring") /\ SetRun(k, "deferred") /\ timers' = timers \cup {k}
  /\ work' = [work EXCEPT ![k] = NoWork]
  /\ UNCHANGED <<lifecycle, disk, callers, bounds>>

\* Slip: a deferred run is saved without arming its timer.
SaveUnarmed(k) ==
  /\ \/ At(k, "saving") /\ SetRun(k, "completed")
     \/ At(k, "failing") /\ SetRun(k, "needs_user")
     \/ At(k, "deferring") /\ SetRun(k, "deferred")
  /\ work' = [work EXCEPT ![k] = NoWork]
  /\ UNCHANGED <<lifecycle, disk, timers, callers, bounds>>

\* #execute saves the outcome: the run leaves #inFlight with it.
Save(k) ==
  /\ \/ At(k, "saving") /\ SetRun(k, "completed") /\ timers' = timers
     \/ At(k, "failing") /\ SetRun(k, "needs_user") /\ timers' = timers
     \/ At(k, "deferring") /\ SetRun(k, "deferred") /\ timers' = timers \cup {k}
  /\ work' = [work EXCEPT ![k] = NoWork]
  /\ UNCHANGED <<lifecycle, disk, callers, bounds>>

\* No free provider can serve the models now, or the reviewers dissent.
ModelsFail(k) ==
  /\ work[k].pc \in {"researching", "planning"}
  /\ Leave(k, "deferring") \/ Leave(k, "failing")
  /\ UNCHANGED <<lifecycle, disk, runs, timers, callers, bounds>>

-----------------------------------------------------------------------------
(* ProjectSolutionOrchestrator.run.                                         *)

\* A design that the lifecycle has and the owner did not object to is kept.
Kept == design # 0 /\ ~lifecycle.feedback /\ design \in lifecycle.solutions
ReadForDesign ==
  /\ At("solution", "reading")
  /\ work' = [work EXCEPT !["solution"] =
       IF lifecycle.stage = "awaiting_design_approval" \/ (SolutionAccepted /\ Kept)
       THEN [NoWork EXCEPT !.pc = "saving"]
       ELSE IF ~SolutionAccepted THEN [NoWork EXCEPT !.pc = "failing"]
       ELSE [NoWork EXCEPT !.pc = "researching", !.base = design]]
  /\ UNCHANGED <<lifecycle, disk, runs, timers, callers, bounds>>

\* Research, reviews and ProjectSolutionService.publish, which writes the
\* document if its revision is still the one the work began from.
WriteDesign ==
  /\ At("solution", "researching")
  /\ IF work["solution"].base = design
     THEN /\ design < DesignLimit /\ design' = design + 1
          /\ work' = [work EXCEPT !["solution"] =
               [pc |-> "publishing", base |-> 0, from |-> design + 1]]
     ELSE design' = design /\ Leave("solution", "failing")
  /\ UNCHANGED <<lifecycle, plan, planned, receipt, execution, runs, timers, callers, bounds>>

PublishSolution ==
  /\ At("solution", "publishing")
  /\ IF SolutionAccepted
     THEN ReportSolution(work["solution"].from) /\ Leave("solution", "saving")
     ELSE Unmoved /\ Leave("solution", "failing")
  /\ UNCHANGED <<disk, runs, timers, sync, route, bounds>>

-----------------------------------------------------------------------------
(* ProjectDeliveryPlanOrchestrator.run, and what follows a plan.            *)

\* Slip: any approval will do.
SomeApproved == lifecycle.approved # 0

\* The design on disk must be the one the owner approved.
Approved == lifecycle.approved # 0 /\ lifecycle.approved = design
ReadForPlan ==
  /\ At("delivery_plan", "reading")
  /\ work' = [work EXCEPT !["delivery_plan"] =
       IF lifecycle.stage \in {"backlog_qa", "delivery"} THEN [NoWork EXCEPT !.pc = "checking"]
       ELSE IF BacklogAccepted /\ Approved
       THEN [pc |-> "planning", base |-> plan, from |-> design]
       ELSE [NoWork EXCEPT !.pc = "failing"]]
  /\ UNCHANGED <<lifecycle, disk, runs, timers, callers, bounds>>

WritePlan ==
  /\ At("delivery_plan", "planning")
  /\ IF work["delivery_plan"].base = plan
     THEN /\ plan < PlanLimit /\ plan' = plan + 1
          /\ planned' = [planned EXCEPT ![plan + 1] = work["delivery_plan"].from]
          /\ work' = [work EXCEPT !["delivery_plan"] =
               [pc |-> "publishing", base |-> plan + 1, from |-> 0]]
     ELSE UNCHANGED <<plan, planned>> /\ Leave("delivery_plan", "failing")
  /\ UNCHANGED <<lifecycle, design, receipt, execution, runs, timers, callers, bounds>>

PublishBacklog ==
  /\ At("delivery_plan", "publishing")
  /\ IF BacklogAccepted
     THEN ReportBacklog(work["delivery_plan"].base) /\ Leave("delivery_plan", "checking")
     ELSE Unmoved /\ Leave("delivery_plan", "failing")
  /\ UNCHANGED <<disk, runs, timers, sync, route, bounds>>

\* JiraDeliveryService.synchronize up to its receipt: it keeps to the plan of
\* an earlier synchronization, and has nothing to do once that is completed.
Mismatched == receipt.plan \notin {0, plan}
Receipted == receipt' = IF receipt.plan = 0 THEN [plan |-> plan, completed |-> FALSE] ELSE receipt
CheckReceipt ==
  /\ At("delivery_plan", "checking")
  /\ work' = [work EXCEPT !["delivery_plan"] =
       IF Mismatched THEN [NoWork EXCEPT !.pc = "failing"]
       ELSE IF receipt.completed THEN [NoWork EXCEPT !.pc = "initializing"]
       ELSE [NoWork EXCEPT !.pc = "activating", !.base = plan]]
  /\ IF Mismatched THEN receipt' = receipt ELSE Receipted
  /\ UNCHANGED <<lifecycle, design, plan, planned, execution, runs, timers, callers, bounds>>

\* The issues and links are made and delivery activated; or Jira refuses.
ActivateByPlan ==
  /\ At("delivery_plan", "activating")
  /\ \/ /\ Activatable(work["delivery_plan"].base)
        /\ Activate(work["delivery_plan"].base) /\ Goto("delivery_plan", "confirming")
     \/ /\ AlreadyActive(work["delivery_plan"].base)
        /\ Unmoved /\ Goto("delivery_plan", "confirming")
     \/ Unmoved /\ Leave("delivery_plan", "failing")
  /\ UNCHANGED <<disk, runs, timers, sync, route, bounds>>

ConfirmByPlan ==
  /\ At("delivery_plan", "confirming")
  /\ receipt' = [plan |-> work["delivery_plan"].base, completed |-> TRUE]
  /\ Leave("delivery_plan", "initializing")
  /\ UNCHANGED <<lifecycle, design, plan, planned, execution, runs, timers, callers, bounds>>

\* ProjectExecutionService.initialize.
JiraReady == receipt.completed /\ receipt.plan = plan
Initializable == JiraReady /\ execution \in {0, plan}
InitializeByPlan ==
  /\ At("delivery_plan", "initializing")
  /\ IF Initializable
     THEN execution' = plan /\ Goto("delivery_plan", "scheduling")
     ELSE execution' = execution /\ Goto("delivery_plan", "failing")
  /\ UNCHANGED <<lifecycle, design, plan, planned, receipt, runs, timers, callers, bounds>>

\* The observer's synchronization may fail; otherwise the execution's run is
\* queued.
ScheduleExecution ==
  /\ At("delivery_plan", "scheduling")
  /\ \/ SetRun("execution", "queued") /\ Goto("delivery_plan", "saving")
     \/ runs' = runs /\ Goto("delivery_plan", "failing")
  /\ UNCHANGED <<lifecycle, disk, timers, callers, bounds>>

-----------------------------------------------------------------------------
(* The timer that synchronizes Jira every minute.                           *)

\* Slip: a synchronization that has a receipt is left to whoever began it.
TimerSyncAnew ==
  /\ sync = NoSync /\ plan # 0 /\ receipt.plan = 0
  /\ Receipted /\ sync' = [pc |-> "activating", base |-> plan]
  /\ UNCHANGED <<lifecycle, design, plan, planned, execution, pools, route, dispatched, bounds>>

\* It reads the plan before anything else, so there must be one.
TimerSync ==
  /\ sync = NoSync /\ plan # 0 /\ ~Mismatched /\ ~receipt.completed
  /\ Receipted /\ sync' = [pc |-> "activating", base |-> plan]
  /\ UNCHANGED <<lifecycle, design, plan, planned, execution, pools, route, dispatched, bounds>>

TimerActivates ==
  /\ sync.pc = "activating"
  /\ \/ Activatable(sync.base) /\ Activate(sync.base) /\ sync' = [sync EXCEPT !.pc = "confirming"]
     \/ AlreadyActive(sync.base) /\ Unmoved /\ sync' = [sync EXCEPT !.pc = "confirming"]
     \/ Unmoved /\ sync' = NoSync
  /\ UNCHANGED <<disk, pools, route, bounds>>

TimerConfirms ==
  /\ sync.pc = "confirming"
  /\ receipt' = [plan |-> sync.base, completed |-> TRUE] /\ sync' = NoSync
  /\ UNCHANGED <<lifecycle, design, plan, planned, execution, pools, route, dispatched, bounds>>

-----------------------------------------------------------------------------
(* The execution's run, as far as the pipeline sees it.                     *)

\* A tick without a record initializes one; an error waits for the owner.
ExecutionTick ==
  /\ runs["execution"] = "queued"
  /\ \/ /\ execution = 0
        /\ IF Initializable THEN execution' = plan /\ runs' = runs
           ELSE execution' = execution /\ SetRun("execution", "needs_user")
        /\ Unmoved
     \/ /\ execution # 0 /\ execution' = execution
        /\ \/ SetRun("execution", "needs_user") /\ Unmoved
           \/ /\ lifecycle.stage = "delivery"
              /\ SetRun("execution", "completed") /\ MoveTo("complete")
           \/ /\ lifecycle.stage = "complete"
              /\ SetRun("execution", "completed") /\ Unmoved
  /\ UNCHANGED <<design, plan, planned, receipt, work, timers, sync, route, bounds>>

\* The owner retries the execution, which needs a record.
RetryExecution ==
  /\ execution # 0 /\ lifecycle.stage = "delivery"
  /\ runs["execution"] = "needs_user" /\ SetRun("execution", "queued")
  /\ UNCHANGED <<lifecycle, disk, work, timers, callers, bounds>>

-----------------------------------------------------------------------------
(* The lifecycle coordinator's dispatch, recorded for the revision it was    *)
(* made for. LifecycleCoordinator has the steps between the call and the     *)
(* record, and what a restart between them repeats.                          *)

ActionStages == {"solution_design", "backlog_design", "backlog_qa", "delivery"}
Dispatch ==
  /\ lifecycle.stage \in ActionStages /\ ~dispatched /\ dispatched' = TRUE
  /\ \/ lifecycle.stage = "solution_design" /\ Schedule("solution", TRUE, FALSE)
     \/ /\ lifecycle.stage \in {"backlog_design", "backlog_qa"}
        /\ Schedule("delivery_plan", FALSE, FALSE)
     \/ /\ lifecycle.stage = "delivery"
        /\ SetRun("execution", "queued") /\ UNCHANGED <<work, timers>>
  /\ UNCHANGED <<lifecycle, disk, sync, route, bounds>>

-----------------------------------------------------------------------------
(* The owner.                                                               *)

\* A decision needs the design on disk and the lifecycle to agree on it.
Decidable ==
  /\ lifecycle.stage = "awaiting_design_approval"
  /\ design \in lifecycle.solutions

Decided(next) ==
  /\ Decidable
  /\ Advance(next)
  /\ UNCHANGED <<disk, sync, route, bounds>>

\* The route schedules the plan, or the solution again, after the decision.
Approve ==
  /\ Decided([lifecycle EXCEPT !.stage = "backlog_design", !.approved = design])
  /\ Schedule("delivery_plan", FALSE, FALSE)
Decline ==
  /\ Decided([lifecycle EXCEPT !.stage = "cancelled"]) /\ UNCHANGED pools
RequestRevision ==
  /\ design < DesignLimit
  /\ Decided([lifecycle EXCEPT !.stage = "solution_design", !.approved = 0, !.feedback = TRUE])
  /\ Schedule("solution", TRUE, FALSE)

\* generateSolution and generateBacklog.
Generate(k) ==
  /\ Schedule(k, TRUE, TRUE)
  /\ UNCHANGED <<lifecycle, disk, callers, bounds>>

\* The publishSolution request: the document first, then the lifecycle.
WriteSolution ==
  /\ route = 0 /\ design < DesignLimit
  /\ design' = design + 1 /\ route' = design + 1
  /\ UNCHANGED <<lifecycle, plan, planned, receipt, execution, pools, sync, dispatched, bounds>>
SubmitSolution ==
  /\ route # 0 /\ route' = 0
  /\ IF SolutionAccepted THEN ReportSolution(route) ELSE Unmoved
  /\ UNCHANGED <<disk, pools, sync, bounds>>

\* reopen clears what the project was decided on, not its artifacts.
Reopen ==
  /\ lifecycle.stage \in {"complete", "cancelled"} /\ reopens < ReopenLimit
  /\ reopens' = reopens + 1
  /\ Advance([lifecycle EXCEPT !.stage = "context_review", !.approved = 0,
                               !.feedback = FALSE, !.epic = 0])
  /\ UNCHANGED <<disk, pools, sync, route, crashes>>

\* Slip: a restart resumes the queued runs only.
RestartQueued ==
  /\ crashes < CrashLimit /\ crashes' = crashes + 1
  /\ work' = [k \in Kinds |->
       IF runs[k] = "queued" THEN [NoWork EXCEPT !.pc = "starting"] ELSE NoWork]
  /\ timers' = {k \in Kinds : runs[k] = "deferred"}
  /\ sync' = NoSync /\ route' = 0
  /\ UNCHANGED <<lifecycle, disk, runs, dispatched, reopens>>

\* The process ends and starts again: resumePending schedules the runs that
\* were not over, whose deferral may or may not be due.
Pending == {"queued", "running", "deferred"}
Restart ==
  /\ crashes < CrashLimit /\ crashes' = crashes + 1
  /\ \E due \in SUBSET Kinds :
       LET waiting(k) == runs[k] = "deferred" /\ k \notin due
       IN /\ work' = [k \in Kinds |->
               IF runs[k] \in Pending /\ ~waiting(k) THEN [NoWork EXCEPT !.pc = "starting"]
               ELSE NoWork]
          /\ timers' = {k \in Kinds : waiting(k)}
  /\ sync' = NoSync /\ route' = 0
  /\ UNCHANGED <<lifecycle, disk, runs, dispatched, reopens>>

Solution == ReadForDesign \/ WriteDesign \/ PublishSolution
Planning ==
  \/ ReadForPlan \/ WritePlan \/ PublishBacklog \/ CheckReceipt \/ ActivateByPlan
  \/ ConfirmByPlan \/ InitializeByPlan \/ ScheduleExecution
Worker(k) ==
  \/ Begin(k) \/ Save(k) \/ ModelsFail(k)
  \/ k = "solution" /\ Solution
  \/ k = "delivery_plan" /\ Planning
Timer == TimerSync \/ TimerActivates \/ TimerConfirms
Owner ==
  \/ AssessScope \/ Approve \/ Decline \/ RequestRevision \/ WriteSolution
  \/ SubmitSolution \/ Reopen \/ RetryExecution \/ \E k \in Kinds : Generate(k)

Next ==
  \/ \E k \in Kinds : Worker(k) \/ RetryTimer(k)
  \/ Timer \/ Dispatch \/ ExecutionTick \/ Owner \/ Restart

Spec == Init /\ [][Next]_vars

\* The runs' own awaited calls end and the minute timer comes round. Jira may
\* refuse for a while but not for ever; neither the models nor the owner owe an
\* answer, and nothing is asked of the coordinator or of the retry timers.
FairSpec ==
  /\ Spec /\ \A k \in Kinds : WF_vars(Worker(k))
  /\ WF_vars(Timer) /\ SF_vars(TimerActivates /\ sync'.pc = "confirming")

-----------------------------------------------------------------------------
(* Properties.                                                              *)

\* Every variable keeps its type: the states of a run are those of its schema.
TypeOK ==
  /\ lifecycle \in Lifecycles /\ design \in 0..DesignLimit /\ plan \in 0..PlanLimit
  /\ planned \in [Plans -> 0..DesignLimit]
  /\ receipt \in [plan : 0..PlanLimit, completed : BOOLEAN] /\ execution \in 0..PlanLimit
  /\ runs \in [Kinds \cup {"execution"} -> RunStates]
  /\ work \in [Kinds ->
       [pc : {"idle", "starting", "reading", "researching", "planning", "publishing",
              "checking", "activating", "confirming", "initializing", "scheduling",
              "saving", "failing", "deferring"},
        base : Nat, from : Nat]]
  /\ timers \subseteq Kinds /\ route \in 0..DesignLimit /\ dispatched \in BOOLEAN
  /\ sync \in [pc : {"idle", "activating", "confirming"}, base : 0..PlanLimit]

\* What is built is what the owner approved: a project in delivery by its latest
\* plan has its epic, its receipt and its execution record of that plan, made
\* from the approved design, whoever synchronized Jira and however often the
\* process ended. (A synchronization begun before a reopen can activate delivery
\* with the epic of an earlier plan: the lifecycle keeps earlier backlogs, and
\* activateDelivery asks only that the plan be one of them.)
ImplementationIsApproved ==
  lifecycle.stage = "delivery" /\ lifecycle.epic = Last(lifecycle.backlogs) =>
    /\ planned[lifecycle.epic] = lifecycle.approved
    /\ execution \in {0, lifecycle.epic} /\ receipt.plan = lifecycle.epic

\* A run that is not over is in flight or waits for an armed timer, and no timer
\* is left behind for a run that went on without it.
PendingRunsAreRemembered ==
  \A k \in Kinds :
    /\ runs[k] \in Pending => InFlight(k) \/ k \in timers
    /\ k \in timers => runs[k] = "deferred"

\* A plan that passed its reviews reaches delivery: when the plan's own run
\* failed at Jira, the minute timer takes it up - unless the receipt belongs to
\* an earlier plan of the project.
AcceptedPlansReachDelivery ==
  lifecycle.stage = "backlog_qa" ~> lifecycle.stage # "backlog_qa" \/ Mismatched

\* No run hangs: one that is queued or running comes to an end or is deferred,
\* through restarts and failing models.
RunsGoOn ==
  \A k \in Kinds :
    runs[k] \in {"queued", "running"} ~> runs[k] \notin {"queued", "running"}

=============================================================================
