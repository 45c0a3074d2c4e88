------------------------ MODULE DeliveryPipeline_proofs ------------------------
(* Proofs about DeliveryPipeline, for any number of revisions, reopenings   *)
(* and restarts.                                                            *)
EXTENDS DeliveryPipeline, SequenceTheorems, TLAPS

Planner == work["delivery_plan"]

\* A run goes on either in flight or by its timer, never both.
OneWayOn == \A k \in Kinds : InFlight(k) => k \notin timers

\* The solution's worker publishes what it has written.
DesignsAreWritten == At("solution", "publishing") => work["solution"].from \in Designs

\* While a plan is made nobody else moves the project: the stage and the
\* approval the planner read are those it publishes under. Its plan is new.
PlanningFollowsApproval ==
  /\ Range(lifecycle.backlogs) \subseteq 1..plan
  /\ Planner.pc = "planning" =>
       lifecycle.stage = "backlog_design" /\ Planner.from = lifecycle.approved
  /\ Planner.pc = "publishing" =>
       /\ lifecycle.stage = "backlog_design" /\ Planner.base = plan /\ plan \in Plans
       /\ plan \notin Range(lifecycle.backlogs) /\ planned[plan] = lifecycle.approved
  /\ Planner.pc = "checking" => plan # 0

\* A project whose plan is accepted has it as its last backlog, and no planner
\* comes between.
AcceptedIsApproved ==
  lifecycle.stage \in {"backlog_qa", "delivery"} =>
    /\ lifecycle.backlogs # <<>> /\ Last(lifecycle.backlogs) = plan /\ plan # 0
    /\ planned[plan] = lifecycle.approved

\* The receipt binds Jira to one plan for good: whoever has Jira at work, the
\* epic and the execution are of that plan.
OnePlanInJira ==
  /\ lifecycle.stage = "delivery" => lifecycle.epic = receipt.plan /\ receipt.plan # 0
  /\ execution \in {0, receipt.plan}
  /\ Planner.pc \in {"activating", "confirming"} => Planner.base = receipt.plan /\ receipt.plan # 0
  /\ sync.pc # "idle" => sync.base = receipt.plan /\ receipt.plan # 0

\* TypeOK, Pool and Approval together are inductive.
Pool == PendingRunsAreRemembered /\ OneWayOn
Approval ==
  DesignsAreWritten /\ PlanningFollowsApproval /\ AcceptedIsApproved /\ OnePlanInJira

-----------------------------------------------------------------------------
(* The runs: in flight, or waiting for a timer.                             *)

LEMMA PoolTypes ==
  ASSUME TypeOK
  PROVE  /\ runs \in [Kinds \cup {"execution"} -> RunStates]
         /\ work \in [Kinds -> [pc : {"idle", "starting", "reading", "researching",
              "planning", "publishing", "checking", "activating", "confirming",
              "initializing", "scheduling", "saving", "failing", "deferring"},
              base : Nat, from : Nat]]
         /\ timers \subseteq Kinds /\ "execution" \notin Kinds
BY DEF TypeOK, Kinds

\* Nothing but the lifecycle, the files or the stage of a run in flight changes.
LEMMA PoolSame ==
  ASSUME TypeOK, Pool, timers' = timers, \A k \in Kinds : runs'[k] = runs[k],
         \A k \in Kinds : work'[k].pc = "idle" <=> work[k].pc = "idle"
  PROVE  Pool'
BY DEF Pool, PendingRunsAreRemembered, OneWayOn, InFlight

LEMMA Gone ==
  ASSUME TypeOK, NEW k \in Kinds, work[k].pc # "idle",
         NEW w, w.pc # "idle", work' = [work EXCEPT ![k] = w]
  PROVE  \A j \in Kinds : work'[j].pc = "idle" <=> work[j].pc = "idle"
BY PoolTypes

LEMMA GoneTo ==
  ASSUME TypeOK, NEW k \in Kinds, work[k].pc # "idle", NEW pc, pc # "idle",
         Goto(k, pc) \/ Leave(k, pc)
  PROVE  \A j \in Kinds : work'[j].pc = "idle" <=> work[j].pc = "idle"
BY PoolTypes DEF Goto, Leave, NoWork

LEMMA GoesTo ==
  ASSUME TypeOK, NEW k \in Kinds, NEW pc, Goto(k, pc) \/ Leave(k, pc)
  PROVE  /\ work'[k].pc = pc
         /\ Goto(k, pc) => work'[k].base = work[k].base
BY PoolTypes DEF Goto, Leave, NoWork

\* A record that is written whole has the fields it is written with.
LEMMA Writes ==
  ASSUME TypeOK, NEW k \in Kinds, NEW b, NEW f,
         work' = [work EXCEPT ![k] = [pc |-> "publishing", base |-> b, from |-> f]]
  PROVE  work'[k].pc = "publishing" /\ work'[k].base = b /\ work'[k].from = f
BY PoolTypes

LEMMA Launched ==
  ASSUME TypeOK, NEW k \in Kinds, Launch(k)
  PROVE  /\ InFlight(k)'
         /\ \A j \in Kinds : j # k => work'[j] = work[j]
BY PoolTypes DEF Launch, InFlight, NoWork

LEMMA ScheduleKeepsPool ==
  ASSUME TypeOK, Pool, NEW k \in Kinds, NEW regenerate \in BOOLEAN, NEW retry \in BOOLEAN,
         Schedule(k, regenerate, retry)
  PROVE  Pool'
<1>1. \A j \in Kinds : j # k =>
        work'[j] = work[j] /\ runs'[j] = runs[j] /\ (j \in timers' <=> j \in timers)
  BY PoolTypes, Launched DEF Schedule
<1>2. CASE Over(k, regenerate)
  BY <1>1, <1>2, PoolTypes
     DEF Schedule, Over, Anew, Waits, Pool, PendingRunsAreRemembered, OneWayOn, InFlight, Pending
<1>3. CASE Waits(k, retry)
  BY <1>1, <1>3, PoolTypes
     DEF Schedule, Over, Anew, Waits, Pool, PendingRunsAreRemembered, OneWayOn, InFlight, Pending
<1>4. CASE ~Over(k, regenerate) /\ ~Waits(k, retry)
  <2>1. Launch(k)
    BY <1>4 DEF Schedule
  <2>2. InFlight(k)'
    BY <2>1, Launched
  <2>3. k \notin timers'
    BY <1>4, PoolTypes DEF Schedule, Waits, Over, Anew, Pool, PendingRunsAreRemembered, OneWayOn,
       InFlight
  <2> QED
    BY <1>1, <2>2, <2>3 DEF Pool, PendingRunsAreRemembered, OneWayOn, InFlight
<1> QED
  BY <1>2, <1>3, <1>4

\* A step of a worker that keeps its run in flight.
LEMMA WorkerKeepsPool ==
  ASSUME TypeOK, Pool, NEW k \in Kinds, Worker(k), ~Begin(k), ~Save(k)
  PROVE  Pool'
<1>1. timers' = timers /\ \A j \in Kinds : runs'[j] = runs[j]
  BY PoolTypes DEF Worker, ModelsFail, Solution, Planning, ReadForDesign, WriteDesign,
     PublishSolution, ReadForPlan, WritePlan, PublishBacklog, CheckReceipt, ActivateByPlan,
     ConfirmByPlan, InitializeByPlan, ScheduleExecution, SetRun
<1>2. work[k].pc # "idle"
  BY DEF Worker, ModelsFail, Solution, Planning, ReadForDesign, WriteDesign, PublishSolution,
     ReadForPlan, WritePlan, PublishBacklog, CheckReceipt, ActivateByPlan, ConfirmByPlan,
     InitializeByPlan, ScheduleExecution, At
<1> SUFFICES \A j \in Kinds : work'[j].pc = "idle" <=> work[j].pc = "idle"
  BY <1>1, PoolSame
<1>3. CASE ModelsFail(k)
  BY <1>2, <1>3, GoneTo DEF ModelsFail
<1>4. CASE k = "solution" /\ Solution
  <2>1. CASE ReadForDesign
    BY <1>2, <1>4, <2>1, PoolTypes DEF ReadForDesign, NoWork
  <2>2. CASE WriteDesign
    <3>1. CASE work["solution"].base # design
      BY <1>2, <1>4, <2>2, <3>1, GoneTo DEF WriteDesign
    <3>2. CASE work["solution"].base = design
      BY <1>2, <1>4, <2>2, <3>2, Gone DEF WriteDesign
    <3> QED
      BY <3>1, <3>2
  <2>3. CASE PublishSolution
    BY <1>2, <1>4, <2>3, GoneTo DEF PublishSolution
  <2> QED
    BY <1>4, <2>1, <2>2, <2>3 DEF Solution
<1>5. CASE k = "delivery_plan" /\ Planning
  <2>1. CASE ReadForPlan
    BY <1>2, <1>5, <2>1, PoolTypes DEF ReadForPlan, NoWork
  <2>2. CASE WritePlan
    <3>1. CASE work["delivery_plan"].base # plan
      BY <1>2, <1>5, <2>2, <3>1, GoneTo DEF WritePlan
    <3>2. CASE work["delivery_plan"].base = plan
      BY <1>2, <1>5, <2>2, <3>2, Gone DEF WritePlan
    <3> QED
      BY <3>1, <3>2
  <2>3. CASE CheckReceipt
    BY <1>2, <1>5, <2>3, PoolTypes DEF CheckReceipt, NoWork
  <2>4. CASE PublishBacklog \/ ActivateByPlan \/ ConfirmByPlan \/ InitializeByPlan
             \/ ScheduleExecution
    BY <1>2, <1>5, <2>4, GoneTo
       DEF PublishBacklog, ActivateByPlan, ConfirmByPlan, InitializeByPlan, ScheduleExecution
  <2> QED
    BY <1>5, <2>1, <2>2, <2>3, <2>4 DEF Planning
<1> QED
  BY <1>3, <1>4, <1>5 DEF Worker

LEMMA BeginAndSaveKeepPool ==
  ASSUME TypeOK, Pool, NEW k \in Kinds, Begin(k) \/ Save(k)
  PROVE  Pool'
<1>1. CASE Begin(k)
  BY <1>1, PoolTypes DEF Begin, SetRun, Goto, Leave, At, Pool, PendingRunsAreRemembered, OneWayOn,
     InFlight, Pending
<1>2. CASE Save(k)
  BY <1>2, PoolTypes DEF Save, SetRun, At, NoWork, Pool, PendingRunsAreRemembered, OneWayOn,
     InFlight, Pending
<1> QED
  BY <1>1, <1>2

LEMMA NextPool == TypeOK /\ Pool /\ [Next]_vars => Pool'
<1> SUFFICES ASSUME TypeOK, Pool, [Next]_vars PROVE Pool'
  OBVIOUS
<1>1. CASE \E k \in Kinds : Worker(k)
  BY <1>1, WorkerKeepsPool, BeginAndSaveKeepPool
<1>2. CASE \E k \in Kinds : RetryTimer(k)
  <2> PICK k \in Kinds : RetryTimer(k)
    BY <1>2
  <2>1. Launch(k) /\ runs' = runs /\ timers' = timers \ {k}
    BY DEF RetryTimer
  <2> QED
    BY <2>1, Launched DEF Pool, PendingRunsAreRemembered, OneWayOn, InFlight
<1>3. CASE UNCHANGED vars \/ Timer \/ ExecutionTick \/ AssessScope \/ Decline
           \/ WriteSolution \/ SubmitSolution \/ Reopen \/ RetryExecution
  BY <1>3, PoolSame, PoolTypes DEF vars, pools, Timer, TimerSync, TimerActivates, TimerConfirms,
     ExecutionTick, AssessScope, Decline, WriteSolution, SubmitSolution, Reopen, RetryExecution,
     SetRun
<1>4. CASE Dispatch \/ Approve \/ RequestRevision \/ \E k \in Kinds : Generate(k)
  <2>1. CASE Dispatch /\ lifecycle.stage = "delivery"
    BY <2>1, PoolSame, PoolTypes DEF Dispatch, SetRun
  <2>2. CASE \/ Schedule("solution", TRUE, FALSE) \/ Schedule("delivery_plan", FALSE, FALSE)
             \/ \E k \in Kinds : Schedule(k, TRUE, TRUE)
    BY <2>2, ScheduleKeepsPool DEF Kinds
  <2> QED
    BY <1>4, <2>1, <2>2 DEF Dispatch, Approve, RequestRevision, Generate
<1>5. CASE Restart
  BY <1>5, PoolTypes DEF Restart, NoWork, Pool, PendingRunsAreRemembered, OneWayOn, InFlight,
     Pending
<1> QED
  BY <1>1, <1>2, <1>3, <1>4, <1>5 DEF Next, Owner

-----------------------------------------------------------------------------
(* The types.                                                               *)

WorkPcs ==
  {"idle", "starting", "reading", "researching", "planning", "publishing", "checking",
   "activating", "confirming", "initializing", "scheduling", "saving", "failing", "deferring"}
Works == [pc : WorkPcs, base : Nat, from : Nat]
PoolsTyped ==
  /\ runs \in [Kinds \cup {"execution"} -> RunStates]
  /\ work \in [Kinds -> Works] /\ timers \subseteq Kinds
DiskTyped ==
  /\ design \in 0..DesignLimit /\ plan \in 0..PlanLimit
  /\ planned \in [Plans -> 0..DesignLimit]
  /\ receipt \in [plan : 0..PlanLimit, completed : BOOLEAN] /\ execution \in 0..PlanLimit
CallersTyped ==
  /\ route \in 0..DesignLimit /\ dispatched \in BOOLEAN
  /\ sync \in [pc : {"idle", "activating", "confirming"}, base : 0..PlanLimit]

LEMMA TypesInParts ==
  TypeOK <=> lifecycle \in Lifecycles /\ DiskTyped /\ PoolsTyped /\ CallersTyped
BY Zenon DEF TypeOK, DiskTyped, PoolsTyped, CallersTyped, Works, WorkPcs

LEMMA LifecycleFields ==
  ASSUME NEW l \in Lifecycles
  PROVE  /\ l.stage \in Stages /\ l.solutions \subseteq Designs /\ l.approved \in Designs \cup {0}
         /\ l.feedback \in BOOLEAN /\ l.backlogs \in Seq(Plans) /\ l.epic \in Plans \cup {0}
BY DEF Lifecycles

\* A project's record, with any of its fields replaced.
LEMMA LifecycleUpdates ==
  ASSUME NEW l \in Lifecycles
  PROVE  /\ \A s \in Stages : [l EXCEPT !.stage = s] \in Lifecycles
         /\ \A s \in Stages, d \in Designs :
              [l EXCEPT !.stage = s, !.solutions = @ \cup {d}] \in Lifecycles
         /\ \A s \in Stages, p \in Plans : [l EXCEPT !.stage = s, !.epic = p] \in Lifecycles
         /\ \A s \in Stages, b \in Seq(Plans) :
              [l EXCEPT !.stage = s, !.epic = 0, !.backlogs = b] \in Lifecycles
         /\ \A s \in Stages, d \in Designs \cup {0} :
              /\ [l EXCEPT !.stage = s, !.approved = d] \in Lifecycles
              /\ \A f \in BOOLEAN : [l EXCEPT !.stage = s, !.approved = d, !.feedback = f] \in Lifecycles
              /\ [l EXCEPT !.stage = s, !.approved = d, !.feedback = FALSE, !.epic = 0] \in Lifecycles
<1> DEFINE D == Designs  P == Plans  Q == Seq(Plans)
<1> HIDE DEF D, P, Q
<1>1. Lifecycles = [stage : Stages, solutions : SUBSET D, approved : D \cup {0},
                    feedback : BOOLEAN, backlogs : Q, epic : P \cup {0}]
  BY DEF Lifecycles, D, P, Q
<1> QED
  BY <1>1 DEF D, P, Q

\* A plan that is new to the record is put last.
LEMMA NewBacklog ==
  ASSUME NEW s \in Seq(Plans), NEW p \in Plans, p \notin Range(s)
  PROVE  /\ Append(RemoveFirst(s, p), p) \in Seq(Plans)
         /\ Append(RemoveFirst(s, p), p) # <<>>
         /\ Last(Append(RemoveFirst(s, p), p)) = p
         /\ Range(Append(RemoveFirst(s, p), p)) = Range(s) \cup {p}
<1>1. \A i \in 1..Len(s) : s[i] # p
  BY DEF Range
<1>2. RemoveFirst(s, p) = s
  BY <1>1 DEF RemoveFirst
<1>3. /\ Append(s, p) \in Seq(Plans) /\ Len(Append(s, p)) = Len(s) + 1 /\ Len(s) \in Nat
      /\ DOMAIN Append(s, p) = 1..(Len(s) + 1) /\ DOMAIN s = 1..Len(s)
      /\ \A i \in 1..Len(s) : Append(s, p)[i] = s[i]
      /\ Append(s, p)[Len(s) + 1] = p
  OBVIOUS
<1>4. Append(s, p) # <<>> /\ Last(Append(s, p)) = p
  BY <1>3 DEF Last
<1>5. Range(Append(s, p)) = Range(s) \cup {p}
  BY <1>3 DEF Range
<1> QED
  BY <1>2, <1>3, <1>4, <1>5

LEMMA LaunchTyped ==
  ASSUME work \in [Kinds -> Works], NEW k \in Kinds, Launch(k)
  PROVE  work' \in [Kinds -> Works]
<1>1. [NoWork EXCEPT !.pc = "starting"] \in Works
  BY DEF Works, WorkPcs, NoWork
<1> QED
  BY <1>1 DEF Launch

LEMMA GotoTyped ==
  ASSUME work \in [Kinds -> Works], NEW k \in Kinds, NEW pc \in WorkPcs,
         Goto(k, pc) \/ Leave(k, pc)
  PROVE  work' \in [Kinds -> Works]
<1>1. [work[k] EXCEPT !.pc = pc] \in Works /\ [NoWork EXCEPT !.pc = pc] \in Works
  BY DEF Works, NoWork
<1> QED
  BY <1>1 DEF Goto, Leave

LEMMA NewWorkTyped ==
  ASSUME NEW pc \in WorkPcs
  PROVE  /\ [NoWork EXCEPT !.pc = pc] \in Works
         /\ \A b \in Nat : [NoWork EXCEPT !.pc = pc, !.base = b] \in Works
<1>1. NoWork \in Works
  BY DEF Works, WorkPcs, NoWork
<1> QED
  BY <1>1 DEF Works

LEMMA WorkerTyped ==
  ASSUME TypeOK, NEW k \in Kinds, Worker(k)
  PROVE  work' \in [Kinds -> Works]
<1>0. work \in [Kinds -> Works] /\ NoWork \in Works /\ DiskTyped
  BY TypesInParts DEF PoolsTyped, Works, WorkPcs, NoWork
<1>1. CASE \/ Begin(k) \/ Save(k) \/ ModelsFail(k)
  BY <1>0, <1>1, GotoTyped DEF Begin, Save, ModelsFail, WorkPcs
<1>2. CASE ReadForDesign
  <2>1. [NoWork EXCEPT !.pc = "researching", !.base = design] \in Works
    <3>1. "researching" \in WorkPcs /\ design \in Nat
      BY <1>0, PipelineAssumption DEF WorkPcs, DiskTyped
    <3> QED
      BY <3>1, NewWorkTyped, Zenon
  <2>2. "saving" \in WorkPcs /\ "failing" \in WorkPcs /\ "solution" \in Kinds
    BY DEF WorkPcs, Kinds
  <2>3. PICK w \in Works : work' = [work EXCEPT !["solution"] = w]
    BY <1>2, <2>1, <2>2, NewWorkTyped, Zenon DEF ReadForDesign
  <2> QED
    BY <1>0, <2>2, <2>3
<1>3. CASE WriteDesign
  <2>1. CASE work["solution"].base # design
    BY <1>0, <1>3, <2>1, GotoTyped DEF WriteDesign, WorkPcs, Kinds
  <2>2. CASE work["solution"].base = design
    <3>1. work' = [work EXCEPT !["solution"] =
             [pc |-> "publishing", base |-> 0, from |-> design + 1]]
      BY <1>3, <2>2 DEF WriteDesign
    <3>2. design + 1 \in Nat
      BY <1>0, PipelineAssumption DEF DiskTyped
    <3> QED
      BY <1>0, <3>1, <3>2 DEF Works, WorkPcs, Kinds
  <2> QED
    BY <2>1, <2>2
<1>4. CASE ReadForPlan
  <2>1. [pc |-> "planning", base |-> plan, from |-> design] \in Works
    BY <1>0 DEF Works, WorkPcs, DiskTyped
  <2>2. "checking" \in WorkPcs /\ "failing" \in WorkPcs /\ "delivery_plan" \in Kinds
    BY DEF WorkPcs, Kinds
  <2>3. PICK w \in Works : work' = [work EXCEPT !["delivery_plan"] = w]
    BY <1>4, <2>1, <2>2, NewWorkTyped, Zenon DEF ReadForPlan
  <2> QED
    BY <1>0, <2>2, <2>3
<1>5. CASE WritePlan
  <2>1. CASE work["delivery_plan"].base # plan
    BY <1>0, <1>5, <2>1, GotoTyped DEF WritePlan, WorkPcs, Kinds
  <2>2. CASE work["delivery_plan"].base = plan
    <3>1. work' = [work EXCEPT !["delivery_plan"] =
             [pc |-> "publishing", base |-> plan + 1, from |-> 0]]
      BY <1>5, <2>2 DEF WritePlan
    <3>2. plan + 1 \in Nat
      BY <1>0, PipelineAssumption DEF DiskTyped
    <3> QED
      BY <1>0, <3>1, <3>2 DEF Works, WorkPcs, Kinds
  <2> QED
    BY <2>1, <2>2
<1>6. CASE CheckReceipt
  <2>1. [NoWork EXCEPT !.pc = "activating", !.base = plan] \in Works
    <3>1. "activating" \in WorkPcs /\ plan \in Nat
      BY <1>0, PipelineAssumption DEF WorkPcs, DiskTyped
    <3> QED
      BY <3>1, NewWorkTyped, Zenon
  <2>2. "initializing" \in WorkPcs /\ "failing" \in WorkPcs /\ "delivery_plan" \in Kinds
    BY DEF WorkPcs, Kinds
  <2>3. PICK w \in Works : work' = [work EXCEPT !["delivery_plan"] = w]
    BY <1>6, <2>1, <2>2, NewWorkTyped, Zenon DEF CheckReceipt
  <2> QED
    BY <1>0, <2>2, <2>3
<1>7. CASE \/ PublishSolution \/ PublishBacklog \/ ActivateByPlan \/ ConfirmByPlan
           \/ InitializeByPlan \/ ScheduleExecution
  BY <1>0, <1>7, GotoTyped DEF PublishSolution, PublishBacklog, ActivateByPlan, ConfirmByPlan,
     InitializeByPlan, ScheduleExecution, WorkPcs, Kinds
<1> QED
  BY <1>1, <1>2, <1>3, <1>4, <1>5, <1>6, <1>7 DEF Worker, Solution, Planning

LEMMA NextPoolsTyped == TypeOK /\ [Next]_vars => PoolsTyped'
<1> SUFFICES ASSUME TypeOK, [Next]_vars PROVE PoolsTyped'
  OBVIOUS
<1>0. PoolsTyped
  BY TypesInParts
<1>1. ASSUME NEW k \in Kinds, Worker(k)
      PROVE  PoolsTyped'
  <2>1. work' \in [Kinds -> Works]
    BY <1>1, WorkerTyped
  <2>2. runs' \in [Kinds \cup {"execution"} -> RunStates] /\ timers' \subseteq Kinds
    BY <1>0, <1>1 DEF PoolsTyped, RunStates, SetRun, Worker, Begin, Save, ModelsFail, Solution,
       Planning, ReadForDesign, WriteDesign, PublishSolution, ReadForPlan, WritePlan,
       PublishBacklog, CheckReceipt, ActivateByPlan, ConfirmByPlan, InitializeByPlan,
       ScheduleExecution
  <2> QED
    BY <2>1, <2>2 DEF PoolsTyped
<1>2. ASSUME NEW k \in Kinds, RetryTimer(k)
      PROVE  PoolsTyped'
  BY <1>0, <1>2, LaunchTyped DEF RetryTimer, PoolsTyped
<1>3. CASE UNCHANGED vars \/ Timer \/ ExecutionTick \/ AssessScope \/ Decline
           \/ WriteSolution \/ SubmitSolution \/ Reopen \/ RetryExecution
           \/ (Dispatch /\ lifecycle.stage = "delivery")
  BY <1>0, <1>3 DEF PoolsTyped, RunStates, vars, pools, Timer, TimerSync, TimerActivates,
     TimerConfirms, ExecutionTick, AssessScope, Decline, WriteSolution, SubmitSolution, Reopen,
     RetryExecution, Dispatch, SetRun
<1>4. ASSUME NEW k \in Kinds, NEW regenerate, NEW retry, Schedule(k, regenerate, retry)
      PROVE  PoolsTyped'
  <2>1. runs' \in [Kinds \cup {"execution"} -> RunStates] /\ timers' \subseteq Kinds
    BY <1>0, <1>4 DEF Schedule, PoolsTyped, RunStates
  <2>2. work' = work \/ Launch(k)
    BY <1>4 DEF Schedule
  <2> QED
    BY <1>0, <2>1, <2>2, LaunchTyped DEF PoolsTyped
<1>5. CASE Restart
  <2>1. [NoWork EXCEPT !.pc = "starting"] \in Works /\ NoWork \in Works
    BY DEF Works, WorkPcs, NoWork
  <2> QED
    BY <1>0, <1>5, <2>1 DEF Restart, PoolsTyped
<1>6. "solution" \in Kinds /\ "delivery_plan" \in Kinds
  BY DEF Kinds
<1> QED
  BY <1>1, <1>2, <1>3, <1>4, <1>5, <1>6
     DEF Next, Owner, Dispatch, Approve, RequestRevision, Generate

LEMMA ReportSolutionTyped ==
  ASSUME lifecycle \in Lifecycles, NEW d \in Designs, ReportSolution(d)
  PROVE  lifecycle' \in Lifecycles
<1>1. "awaiting_design_approval" \in Stages
  BY DEF Stages
<1> QED
  BY <1>1, LifecycleUpdates, Zenon DEF ReportSolution, Advance

LEMMA ReportBacklogTyped ==
  ASSUME lifecycle \in Lifecycles, NEW p \in Plans, p \notin Range(lifecycle.backlogs),
         ReportBacklog(p)
  PROVE  /\ lifecycle' \in Lifecycles /\ lifecycle'.stage = "backlog_qa"
         /\ lifecycle'.approved = lifecycle.approved
         /\ lifecycle'.backlogs # <<>> /\ Last(lifecycle'.backlogs) = p
         /\ Range(lifecycle'.backlogs) = Range(lifecycle.backlogs) \cup {p}
<1>1. PICK b : b = Append(RemoveFirst(lifecycle.backlogs, p), p)
  OBVIOUS
<1>0. lifecycle.backlogs \in Seq(Plans) /\ "backlog_qa" \in Stages
  BY LifecycleFields DEF Stages
<1>2. /\ b \in Seq(Plans) /\ b # <<>> /\ Last(b) = p
      /\ Range(b) = Range(lifecycle.backlogs) \cup {p}
  BY <1>0, <1>1, NewBacklog
<1>3. lifecycle' = [lifecycle EXCEPT !.stage = "backlog_qa", !.epic = 0, !.backlogs = b]
  BY <1>1 DEF ReportBacklog, Advance
<1>4. /\ lifecycle'.stage = "backlog_qa" /\ lifecycle'.backlogs = b
      /\ lifecycle'.approved = lifecycle.approved
  BY <1>3 DEF Lifecycles
<1>5. lifecycle' \in Lifecycles
  BY <1>0, <1>2, <1>3, LifecycleUpdates, Zenon
<1> QED
  BY <1>2, <1>4, <1>5

LEMMA ActivateTyped ==
  ASSUME lifecycle \in Lifecycles, NEW p, Activatable(p), Activate(p)
  PROVE  /\ lifecycle' \in Lifecycles /\ lifecycle'.stage = "delivery" /\ lifecycle'.epic = p
         /\ lifecycle'.approved = lifecycle.approved
         /\ lifecycle'.backlogs = lifecycle.backlogs
<1>0. lifecycle.backlogs \in Seq(Plans)
  BY LifecycleFields
<1>1. p \in Plans
  BY <1>0 DEF Activatable, Range
<1>2. lifecycle' = [lifecycle EXCEPT !.stage = "delivery", !.epic = p] /\ "delivery" \in Stages
  BY DEF Activate, Advance, Stages
<1>3. /\ lifecycle'.stage = "delivery" /\ lifecycle'.epic = p
      /\ lifecycle'.approved = lifecycle.approved /\ lifecycle'.backlogs = lifecycle.backlogs
  BY <1>2 DEF Lifecycles
<1>4. lifecycle' \in Lifecycles
  BY <1>1, <1>2, LifecycleUpdates, Zenon
<1> QED
  BY <1>3, <1>4

LEMMA NextLifecycleTyped == TypeOK /\ Approval /\ [Next]_vars => lifecycle' \in Lifecycles
<1> SUFFICES ASSUME TypeOK, Approval, [Next]_vars PROVE lifecycle' \in Lifecycles
  OBVIOUS
<1>0. lifecycle \in Lifecycles /\ DiskTyped /\ CallersTyped
  BY TypesInParts
<1>1. CASE UNCHANGED lifecycle
  BY <1>0, <1>1
<1>2. ASSUME NEW s \in Stages, MoveTo(s)
      PROVE  lifecycle' \in Lifecycles
  BY <1>0, <1>2, LifecycleUpdates, Zenon DEF MoveTo, Advance
<1>3. CASE AssessScope \/ ExecutionTick
  BY <1>1, <1>2, <1>3 DEF AssessScope, ExecutionTick, Stages, Unmoved
<1>4. CASE PublishSolution \/ SubmitSolution
  BY <1>0, <1>1, <1>4, ReportSolutionTyped, PipelineAssumption
     DEF PublishSolution, SubmitSolution, Unmoved, Approval, DesignsAreWritten, CallersTyped,
         Designs
<1>5. CASE PublishBacklog
  BY <1>0, <1>1, <1>5, ReportBacklogTyped
     DEF PublishBacklog, Unmoved, Approval, PlanningFollowsApproval, Planner, At
<1>6. CASE ActivateByPlan \/ Timer
  BY <1>0, <1>1, <1>6, ActivateTyped
     DEF ActivateByPlan, Timer, TimerSync, TimerActivates, TimerConfirms, Unmoved
<1>7. CASE Approve \/ Decline \/ RequestRevision \/ Reopen
  <2>1. /\ "backlog_design" \in Stages /\ "cancelled" \in Stages /\ "solution_design" \in Stages
        /\ "context_review" \in Stages /\ TRUE \in BOOLEAN /\ 0 \in Designs \cup {0}
    BY DEF Stages
  <2>2. Approve => design \in Designs
    BY <1>0, LifecycleFields DEF Approve, Decided, Decidable
  <2>3. CASE Approve
    BY <1>0, <2>1, <2>2, <2>3, LifecycleUpdates, Zenon DEF Approve, Decided, Advance
  <2>4. CASE Decline
    BY <1>0, <2>1, <2>4, LifecycleUpdates, Zenon DEF Decline, Decided, Advance
  <2>5. CASE RequestRevision
    BY <1>0, <2>1, <2>5, LifecycleUpdates, Zenon DEF RequestRevision, Decided, Advance
  <2>6. CASE Reopen
    BY <1>0, <2>1, <2>6, LifecycleUpdates, Zenon DEF Reopen, Advance
  <2> QED
    BY <1>7, <2>3, <2>4, <2>5, <2>6
<1>8. CASE \/ \E k \in Kinds : RetryTimer(k) \/ Begin(k) \/ Save(k) \/ ModelsFail(k) \/ Generate(k)
           \/ ReadForDesign \/ WriteDesign \/ ReadForPlan \/ WritePlan \/ CheckReceipt
           \/ ConfirmByPlan \/ InitializeByPlan \/ ScheduleExecution
           \/ Dispatch \/ WriteSolution \/ RetryExecution \/ Restart \/ UNCHANGED vars
  BY <1>1, <1>8 DEF RetryTimer, Begin, Save, ModelsFail, Generate, ReadForDesign, WriteDesign,
     ReadForPlan, WritePlan, CheckReceipt, ConfirmByPlan, InitializeByPlan, ScheduleExecution,
     Dispatch, WriteSolution, RetryExecution, Restart, vars
<1> QED
  BY <1>3, <1>4, <1>5, <1>6, <1>7, <1>8 DEF Next, Worker, Solution, Planning, Owner

LEMMA NextDiskTyped == TypeOK /\ Approval /\ [Next]_vars => DiskTyped'
<1> SUFFICES ASSUME TypeOK, Approval, [Next]_vars PROVE DiskTyped'
  OBVIOUS
<1>0. DiskTyped /\ lifecycle \in Lifecycles /\ CallersTyped
  BY TypesInParts
<1>1. CASE UNCHANGED disk
  BY <1>0, <1>1 DEF disk, DiskTyped
<1>2. CASE WriteDesign \/ WriteSolution
  BY <1>0, <1>2, PipelineAssumption DEF WriteDesign, WriteSolution, DiskTyped
<1>3. CASE WritePlan
  <2>1. lifecycle.approved \in 0..DesignLimit
    <3>1. lifecycle.approved \in Designs \cup {0}
      BY <1>0, LifecycleFields
    <3> QED
      BY <3>1, PipelineAssumption DEF Designs
  <2>2. At("delivery_plan", "planning") => work["delivery_plan"].from \in 0..DesignLimit
    BY <2>1 DEF At, Approval, PlanningFollowsApproval, Planner
  <2>3. plan' \in 0..PlanLimit /\ planned' \in [Plans -> 0..DesignLimit]
    <3>1. CASE work["delivery_plan"].base # plan
      BY <1>0, <1>3, <3>1 DEF WritePlan, DiskTyped
    <3>2. CASE work["delivery_plan"].base = plan
      <4>1. /\ plan < PlanLimit /\ plan' = plan + 1
            /\ planned' = [planned EXCEPT ![plan + 1] = work["delivery_plan"].from]
        BY <1>3, <3>2 DEF WritePlan
      <4> QED
        BY <1>0, <1>3, <2>2, <4>1, PipelineAssumption DEF WritePlan, DiskTyped, Plans
    <3> QED
      BY <3>1, <3>2
  <2>4. UNCHANGED <<design, receipt, execution>>
    BY <1>3 DEF WritePlan
  <2> QED
    BY <1>0, <2>3, <2>4 DEF DiskTyped
<1>4. CASE CheckReceipt \/ TimerSync
  <2>1. Receipted \/ receipt' = receipt
    BY <1>4 DEF CheckReceipt, TimerSync
  <2>2. receipt' \in [plan : 0..PlanLimit, completed : BOOLEAN]
    <3>1. receipt \in [plan : 0..PlanLimit, completed : BOOLEAN] /\ plan \in 0..PlanLimit
      BY <1>0 DEF DiskTyped
    <3>2. [plan |-> plan, completed |-> FALSE] \in [plan : 0..PlanLimit, completed : BOOLEAN]
      BY <3>1
    <3> QED
      BY <2>1, <3>1, <3>2, Zenon DEF Receipted
  <2>3. UNCHANGED <<design, plan, planned, execution>>
    BY <1>4 DEF CheckReceipt, TimerSync
  <2> QED
    BY <1>0, <2>2, <2>3 DEF DiskTyped
<1>5. CASE ConfirmByPlan \/ TimerConfirms
  <2>1. ConfirmByPlan => receipt' = [plan |-> receipt.plan, completed |-> TRUE]
    BY DEF ConfirmByPlan, At, Approval, OnePlanInJira, Planner
  <2>2. TimerConfirms => receipt' = [plan |-> receipt.plan, completed |-> TRUE]
    BY DEF TimerConfirms, Approval, OnePlanInJira
  <2>3. receipt' \in [plan : 0..PlanLimit, completed : BOOLEAN]
    <3>1. receipt \in [plan : 0..PlanLimit, completed : BOOLEAN]
      BY <1>0 DEF DiskTyped
    <3>2. [plan |-> receipt.plan, completed |-> TRUE]
            \in [plan : 0..PlanLimit, completed : BOOLEAN]
      BY <3>1
    <3> QED
      BY <1>5, <2>1, <2>2, <3>2, Zenon
  <2>4. UNCHANGED <<design, plan, planned, execution>>
    BY <1>5 DEF ConfirmByPlan, TimerConfirms
  <2> QED
    BY <1>0, <2>3, <2>4 DEF DiskTyped
<1>6. CASE InitializeByPlan \/ ExecutionTick
  BY <1>0, <1>6 DEF InitializeByPlan, ExecutionTick, DiskTyped
<1>7. CASE \/ \E k \in Kinds : RetryTimer(k) \/ Begin(k) \/ Save(k) \/ ModelsFail(k) \/ Generate(k)
           \/ ReadForDesign \/ PublishSolution \/ ReadForPlan \/ PublishBacklog \/ ActivateByPlan
           \/ ScheduleExecution \/ TimerActivates \/ Dispatch \/ AssessScope
           \/ Approve \/ Decline \/ RequestRevision \/ SubmitSolution \/ Reopen
           \/ RetryExecution \/ Restart \/ UNCHANGED vars
  BY <1>1, <1>7 DEF RetryTimer, Begin, Save, ModelsFail, Generate, ReadForDesign,
     PublishSolution, ReadForPlan, PublishBacklog, ActivateByPlan, ScheduleExecution,
     TimerActivates, Dispatch, AssessScope, Approve, Decline, RequestRevision, Decided,
     SubmitSolution, Reopen, RetryExecution, Restart, vars
<1> QED
  BY <1>2, <1>3, <1>4, <1>5, <1>6, <1>7 DEF Next, Worker, Solution, Planning, Timer, Owner

LEMMA NextCallersTyped == TypeOK /\ Approval /\ [Next]_vars => CallersTyped'
<1> SUFFICES ASSUME TypeOK, Approval, [Next]_vars PROVE CallersTyped'
  OBVIOUS
<1>0. DiskTyped /\ CallersTyped
  BY TypesInParts
<1>1. route' \in 0..DesignLimit
  <2>1. route' = route \/ route' = 0 \/ WriteSolution
    BY DEF Next, Worker, Solution, Planning, Timer, Owner, vars, callers, RetryTimer, Begin, Save,
       ModelsFail, ReadForDesign, WriteDesign, PublishSolution, ReadForPlan, WritePlan,
       PublishBacklog, CheckReceipt, ActivateByPlan, ConfirmByPlan, InitializeByPlan,
       ScheduleExecution, TimerSync, TimerActivates, TimerConfirms, ExecutionTick, Dispatch,
       AssessScope, Approve, Decline, RequestRevision, Decided, SubmitSolution, Reopen,
       RetryExecution, Generate, Restart
  <2> QED
    BY <1>0, <2>1, PipelineAssumption DEF CallersTyped, DiskTyped, WriteSolution
<1>2. dispatched' \in BOOLEAN
  <2>1. dispatched' = dispatched \/ dispatched' = FALSE \/ dispatched' = TRUE
    BY DEF Next, Worker, Solution, Planning, Timer, Owner, vars, callers, RetryTimer, Begin, Save,
       ModelsFail, ReadForDesign, WriteDesign, PublishSolution, ReadForPlan, WritePlan,
       PublishBacklog, CheckReceipt, ActivateByPlan, ConfirmByPlan, InitializeByPlan,
       ScheduleExecution, TimerSync, TimerActivates, TimerConfirms, ExecutionTick, Dispatch,
       AssessScope, Approve, Decline, RequestRevision, Decided, SubmitSolution, Reopen,
       RetryExecution, Generate, Restart, Advance, MoveTo, Unmoved, ReportSolution,
       ReportBacklog, Activate
  <2> QED
    BY <1>0, <2>1 DEF CallersTyped
<1>3. sync' \in [pc : {"idle", "activating", "confirming"}, base : 0..PlanLimit]
  <2>1. sync' = sync \/ sync' = NoSync \/ Timer
    BY DEF Next, Worker, Solution, Planning, Owner, vars, callers, RetryTimer, Begin, Save,
       ModelsFail, ReadForDesign, WriteDesign, PublishSolution, ReadForPlan, WritePlan,
       PublishBacklog, CheckReceipt, ActivateByPlan, ConfirmByPlan, InitializeByPlan,
       ScheduleExecution, ExecutionTick, Dispatch, AssessScope, Approve, Decline,
       RequestRevision, Decided, SubmitSolution, WriteSolution, Reopen, RetryExecution,
       Generate, Restart
  <2>2. CASE Timer
    BY <1>0, <2>2, PipelineAssumption
       DEF Timer, TimerSync, TimerActivates, TimerConfirms, CallersTyped, DiskTyped, NoSync
  <2> QED
    BY <1>0, <2>1, <2>2, PipelineAssumption DEF CallersTyped, NoSync
<1> QED
  BY <1>1, <1>2, <1>3 DEF CallersTyped

LEMMA NextTypes == TypeOK /\ Approval /\ [Next]_vars => TypeOK'
<1> SUFFICES ASSUME TypeOK, Approval, [Next]_vars PROVE TypeOK'
  OBVIOUS
<1>1. lifecycle' \in Lifecycles /\ DiskTyped' /\ PoolsTyped' /\ CallersTyped'
  BY NextLifecycleTyped, NextDiskTyped, NextPoolsTyped, NextCallersTyped
<1>2. TypeOK' <=> (lifecycle \in Lifecycles /\ DiskTyped /\ PoolsTyped /\ CallersTyped)'
  BY Zenon DEF TypeOK, DiskTyped, PoolsTyped, CallersTyped, Works, WorkPcs
<1> QED
  BY <1>1, <1>2

-----------------------------------------------------------------------------
(* What is built is what was approved.                                      *)

\* The lifecycle stays, moves where nothing is being planned or built, or
\* begins delivery with the plan the receipt is of.
Stays == UNCHANGED lifecycle
MovesElsewhere ==
  /\ lifecycle.stage # "backlog_design" /\ lifecycle'.stage \notin {"backlog_qa", "delivery"}
  /\ lifecycle'.backlogs = lifecycle.backlogs
BeginsDelivery ==
  /\ lifecycle.stage = "backlog_qa" /\ lifecycle'.stage = "delivery"
  /\ lifecycle'.approved = lifecycle.approved /\ lifecycle'.backlogs = lifecycle.backlogs
  /\ lifecycle'.epic = receipt.plan /\ receipt.plan # 0

LEMMA ElsewhereMoves ==
  ASSUME TypeOK, AssessScope \/ ExecutionTick \/ Approve \/ Decline \/ RequestRevision
                 \/ Reopen \/ SubmitSolution \/ PublishSolution
  PROVE  Stays \/ MovesElsewhere
<1>0. lifecycle \in Lifecycles
  BY TypesInParts
<1>1. CASE AssessScope \/ ExecutionTick
  BY <1>0, <1>1 DEF AssessScope, ExecutionTick, MoveTo, Advance, Unmoved, Stays, MovesElsewhere,
     Lifecycles
<1>2. CASE SubmitSolution \/ PublishSolution
  BY <1>0, <1>2 DEF SubmitSolution, PublishSolution, SolutionAccepted, ReportSolution, Advance,
     Unmoved, Stays, MovesElsewhere, Lifecycles
<1>3. CASE Approve \/ Decline \/ RequestRevision
  BY <1>0, <1>3 DEF Approve, Decline, RequestRevision, Decided, Decidable, Advance, Stays,
     MovesElsewhere, Lifecycles
<1>4. CASE Reopen
  BY <1>0, <1>4 DEF Reopen, Advance, Stays, MovesElsewhere, Lifecycles
<1> QED
  BY <1>1, <1>2, <1>3, <1>4

LEMMA ActivationMoves ==
  ASSUME TypeOK, Approval, ActivateByPlan \/ TimerActivates
  PROVE  Stays \/ BeginsDelivery
<1>0. lifecycle \in Lifecycles
  BY TypesInParts
<1>1. ASSUME NEW p, p = receipt.plan, p # 0, Activatable(p), Activate(p)
      PROVE  BeginsDelivery
  BY <1>0, <1>1, ActivateTyped DEF BeginsDelivery, Activatable
<1>2. CASE ActivateByPlan
  BY <1>1, <1>2 DEF ActivateByPlan, At, Approval, OnePlanInJira, Planner, Unmoved, Stays
<1>3. CASE TimerActivates
  BY <1>1, <1>3 DEF TimerActivates, Approval, OnePlanInJira, Unmoved, Stays
<1> QED
  BY <1>2, <1>3

LEMMA LifecycleMoves ==
  ASSUME TypeOK, Approval, [Next]_vars, ~PublishBacklog
  PROVE  Stays \/ MovesElsewhere \/ BeginsDelivery
<1>1. CASE \/ AssessScope \/ ExecutionTick \/ Approve \/ Decline \/ RequestRevision
           \/ Reopen \/ SubmitSolution \/ PublishSolution
  BY <1>1, ElsewhereMoves
<1>2. CASE ActivateByPlan \/ TimerActivates
  BY <1>2, ActivationMoves
<1>3. CASE \/ \E k \in Kinds : RetryTimer(k) \/ Begin(k) \/ Save(k) \/ ModelsFail(k) \/ Generate(k)
           \/ ReadForDesign \/ WriteDesign \/ ReadForPlan \/ WritePlan \/ CheckReceipt
           \/ ConfirmByPlan \/ InitializeByPlan \/ ScheduleExecution \/ TimerSync \/ TimerConfirms
           \/ Dispatch \/ WriteSolution \/ RetryExecution \/ Restart \/ UNCHANGED vars
  BY <1>3 DEF RetryTimer, Begin, Save, ModelsFail, Generate, ReadForDesign, WriteDesign,
     ReadForPlan, WritePlan, CheckReceipt, ConfirmByPlan, InitializeByPlan, ScheduleExecution,
     TimerSync, TimerConfirms, Dispatch, WriteSolution, RetryExecution, Restart, vars, Stays
<1> QED
  BY <1>1, <1>2, <1>3 DEF Next, Worker, Solution, Planning, Timer, Owner

\* What a run becomes when the planner's own steps do not concern it.
Harmless ==
  {"idle", "starting", "reading", "initializing", "scheduling", "saving", "failing", "deferring"}

LEMMA ScheduledWork ==
  ASSUME TypeOK, NEW k \in Kinds, NEW regenerate, NEW retry, Schedule(k, regenerate, retry)
  PROVE  \A j \in Kinds : work'[j] = work[j] \/ work'[j].pc \in Harmless
<1>1. work' = work \/ Launch(k)
  BY DEF Schedule
<1>2. ASSUME Launch(k)
      PROVE  \A j \in Kinds : work'[j] = work[j] \/ work'[j].pc \in Harmless
  BY <1>2, PoolTypes DEF Launch, NoWork, Harmless
<1> QED
  BY <1>1, <1>2

LEMMA OtherWork ==
  ASSUME TypeOK, [Next]_vars, ~Solution, ~Planning
  PROVE  \A j \in Kinds : work'[j] = work[j] \/ work'[j].pc \in Harmless
<1>1. CASE \E k \in Kinds : Begin(k) \/ Save(k) \/ ModelsFail(k)
  BY <1>1, PoolTypes DEF Begin, Save, ModelsFail, Goto, Leave, NoWork, Harmless
<1>2. CASE \E k \in Kinds : RetryTimer(k)
  BY <1>2, PoolTypes DEF RetryTimer, Launch, NoWork, Harmless
<1>3. CASE Restart
  BY <1>3, PoolTypes DEF Restart, NoWork, Harmless
<1>4. CASE Dispatch \/ Approve \/ RequestRevision \/ \E k \in Kinds : Generate(k)
  BY <1>4, ScheduledWork DEF Dispatch, Approve, RequestRevision, Generate, Kinds
<1>5. CASE Timer \/ ExecutionTick \/ AssessScope \/ Decline \/ WriteSolution \/ SubmitSolution
           \/ Reopen \/ RetryExecution \/ UNCHANGED vars
  BY <1>5 DEF Timer, TimerSync, TimerActivates, TimerConfirms, ExecutionTick, AssessScope,
     Decline, WriteSolution, SubmitSolution, Reopen, RetryExecution, vars, pools
<1> QED
  BY <1>1, <1>2, <1>3, <1>4, <1>5 DEF Next, Worker, Owner

\* Each worker's steps are about its own run.
LEMMA OneRunAtATime ==
  ASSUME TypeOK
  PROVE  /\ Solution => work'["delivery_plan"] = work["delivery_plan"]
         /\ Planning => work'["solution"] = work["solution"]
<1>1. ASSUME Solution
      PROVE  work'["delivery_plan"] = work["delivery_plan"]
  BY <1>1, PoolTypes DEF Solution, ReadForDesign, WriteDesign, PublishSolution, Goto, Leave, Kinds
<1>2. ASSUME Planning
      PROVE  work'["solution"] = work["solution"]
  BY <1>2, PoolTypes DEF Planning, ReadForPlan, WritePlan, PublishBacklog, CheckReceipt,
     ActivateByPlan, ConfirmByPlan, InitializeByPlan, ScheduleExecution, Goto, Leave, Kinds
<1> QED
  BY <1>1, <1>2

LEMMA NextDesignsAreWritten == TypeOK /\ Approval /\ [Next]_vars => DesignsAreWritten'
<1> SUFFICES ASSUME TypeOK, Approval, [Next]_vars PROVE DesignsAreWritten'
  OBVIOUS
<1>0. DesignsAreWritten /\ "solution" \in Kinds /\ DiskTyped
  BY TypesInParts DEF Approval, Kinds
<1>1. CASE Planning
  BY <1>0, <1>1, OneRunAtATime DEF DesignsAreWritten, At
<1>2. CASE ReadForDesign \/ PublishSolution
  <2>1. NoWork \in Works
    BY DEF NoWork, Works, WorkPcs
  <2>2. CASE ReadForDesign
    <3>1. /\ [NoWork EXCEPT !.pc = "saving"].pc # "publishing"
          /\ [NoWork EXCEPT !.pc = "failing"].pc # "publishing"
          /\ [NoWork EXCEPT !.pc = "researching", !.base = design].pc # "publishing"
      BY <2>1 DEF Works
    <3>2. PICK w : w.pc # "publishing" /\ work' = [work EXCEPT !["solution"] = w]
      BY <2>2, <3>1, Zenon DEF ReadForDesign
    <3> QED
      BY <1>0, <3>2, PoolTypes DEF DesignsAreWritten, At
  <2>3. CASE PublishSolution
    BY <1>0, <2>3, GoesTo DEF PublishSolution, DesignsAreWritten, At
  <2> QED
    BY <1>2, <2>2, <2>3
<1>3. CASE WriteDesign
  <2>1. CASE work["solution"].base # design
    BY <1>0, <1>3, <2>1, GoesTo DEF WriteDesign, DesignsAreWritten, At
  <2>2. CASE work["solution"].base = design
    <3>1. /\ design < DesignLimit
          /\ work' = [work EXCEPT !["solution"] =
               [pc |-> "publishing", base |-> 0, from |-> design + 1]]
      BY <1>3, <2>2 DEF WriteDesign
    <3>2. work'["solution"].from = design + 1
      BY <1>0, <3>1, Writes
    <3> QED
      BY <1>0, <3>1, <3>2, PipelineAssumption DEF DiskTyped, DesignsAreWritten, Designs
  <2> QED
    BY <2>1, <2>2
<1>4. CASE ~Solution /\ ~Planning
  BY <1>0, <1>4, OtherWork DEF Harmless, DesignsAreWritten, At
<1> QED
  BY <1>1, <1>2, <1>3, <1>4 DEF Solution

\* The planner's part is kept where the planner goes on or leaves it.
LEMMA PlanningFrame ==
  ASSUME TypeOK, Approval, Stays \/ MovesElsewhere \/ BeginsDelivery,
         UNCHANGED <<plan, planned>>,
         \/ Planner' = Planner \/ Planner'.pc \in Harmless \cup {"activating", "confirming"}
         \/ Planner'.pc = "checking" /\ plan # 0
  PROVE  PlanningFollowsApproval' /\ AcceptedIsApproved'
<1>0. PlanningFollowsApproval /\ AcceptedIsApproved
  BY DEF Approval
<1>1. Range(lifecycle'.backlogs) \subseteq 1..plan
  BY <1>0 DEF PlanningFollowsApproval, Stays, MovesElsewhere, BeginsDelivery
<1>2. AcceptedIsApproved'
  BY <1>0 DEF AcceptedIsApproved, Stays, MovesElsewhere, BeginsDelivery
<1>3. CASE Planner' = Planner /\ Planner.pc \in {"planning", "publishing"}
  <2>1. Stays
    BY <1>0, <1>3 DEF PlanningFollowsApproval, MovesElsewhere, BeginsDelivery
  <2> QED
    BY <1>0, <1>2, <1>3, <2>1 DEF PlanningFollowsApproval, Stays
<1>4. CASE Planner' = Planner /\ Planner.pc \notin {"planning", "publishing"}
  BY <1>0, <1>1, <1>2, <1>4 DEF PlanningFollowsApproval
<1>5. CASE \/ Planner'.pc \in Harmless \cup {"activating", "confirming"}
           \/ Planner'.pc = "checking" /\ plan # 0
  BY <1>1, <1>2, <1>5 DEF PlanningFollowsApproval, Harmless
<1> QED
  BY <1>3, <1>4, <1>5

LEMMA ReadForPlanKeeps ==
  ASSUME TypeOK, Approval, ReadForPlan
  PROVE  PlanningFollowsApproval' /\ AcceptedIsApproved'
<1>0. PlanningFollowsApproval /\ AcceptedIsApproved /\ UNCHANGED <<lifecycle, plan, planned>>
  BY DEF Approval, ReadForPlan, disk
<1>1. NoWork \in Works /\ "delivery_plan" \in Kinds
  BY DEF NoWork, Works, WorkPcs, Kinds
<1>2. /\ [NoWork EXCEPT !.pc = "checking"].pc = "checking"
      /\ [NoWork EXCEPT !.pc = "failing"].pc = "failing"
  BY <1>1 DEF Works
<1>3. CASE lifecycle.stage \in {"backlog_qa", "delivery"}
  <2>1. Planner' = [NoWork EXCEPT !.pc = "checking"]
    BY <1>1, <1>3, PoolTypes DEF ReadForPlan, Planner
  <2>2. plan # 0
    BY <1>0, <1>3 DEF AcceptedIsApproved
  <2> QED
    BY <1>0, <1>2, <2>1, <2>2, PlanningFrame DEF Stays
<1>4. CASE lifecycle.stage = "backlog_design" /\ Approved
  <2>1. Planner' = [pc |-> "planning", base |-> plan, from |-> design]
    BY <1>1, <1>4, PoolTypes DEF ReadForPlan, Planner, BacklogAccepted
  <2> QED
    BY <1>0, <1>4, <2>1 DEF PlanningFollowsApproval, AcceptedIsApproved, Approved
<1>5. CASE ~(lifecycle.stage \in {"backlog_qa", "delivery"})
           /\ ~(lifecycle.stage = "backlog_design" /\ Approved)
  <2>1. Planner' = [NoWork EXCEPT !.pc = "failing"]
    BY <1>1, <1>5, PoolTypes DEF ReadForPlan, Planner, BacklogAccepted
  <2> QED
    BY <1>0, <1>2, <2>1, PlanningFrame DEF Stays, Harmless
<1> QED
  BY <1>3, <1>4, <1>5

LEMMA WritePlanKeeps ==
  ASSUME TypeOK, Approval, WritePlan
  PROVE  PlanningFollowsApproval' /\ AcceptedIsApproved'
<1>0. /\ PlanningFollowsApproval /\ AcceptedIsApproved /\ DiskTyped /\ "delivery_plan" \in Kinds
      /\ UNCHANGED lifecycle
  BY TypesInParts DEF Approval, WritePlan, Kinds
<1>1. CASE work["delivery_plan"].base # plan
  <2>1. Planner'.pc = "failing" /\ UNCHANGED <<plan, planned>>
    BY <1>0, <1>1, GoesTo DEF WritePlan, Planner
  <2> QED
    BY <1>0, <2>1, PlanningFrame DEF Stays, Harmless
<1>2. CASE work["delivery_plan"].base = plan
  <2>1. /\ plan < PlanLimit /\ plan' = plan + 1
        /\ planned' = [planned EXCEPT ![plan + 1] = work["delivery_plan"].from]
        /\ work' = [work EXCEPT !["delivery_plan"] =
             [pc |-> "publishing", base |-> plan + 1, from |-> 0]]
    BY <1>2 DEF WritePlan
  <2>2. Planner'.pc = "publishing" /\ Planner'.base = plan'
    BY <1>0, <2>1, Writes DEF Planner
  <2>3. lifecycle.stage = "backlog_design" /\ work["delivery_plan"].from = lifecycle.approved
    BY <1>0 DEF WritePlan, At, PlanningFollowsApproval, Planner
  <2>4. plan' \in Plans /\ plan \in Nat
    BY <1>0, <2>1, PipelineAssumption DEF DiskTyped, Plans
  <2>5. planned'[plan'] = lifecycle.approved
    BY <1>0, <2>1, <2>3, <2>4 DEF DiskTyped
  <2>6. plan' \notin Range(lifecycle.backlogs) /\ Range(lifecycle.backlogs) \subseteq 1..plan'
    BY <1>0, <2>1, <2>4 DEF PlanningFollowsApproval
  <2> QED
    BY <1>0, <2>2, <2>3, <2>4, <2>5, <2>6 DEF PlanningFollowsApproval, AcceptedIsApproved
<1> QED
  BY <1>1, <1>2

LEMMA PublishBacklogKeeps ==
  ASSUME TypeOK, Approval, PublishBacklog
  PROVE  PlanningFollowsApproval' /\ AcceptedIsApproved'
<1>0. /\ PlanningFollowsApproval /\ DiskTyped /\ lifecycle \in Lifecycles
      /\ "delivery_plan" \in Kinds /\ UNCHANGED <<plan, planned>>
  BY TypesInParts DEF Approval, PublishBacklog, Kinds, disk
<1>1. /\ Planner.base = plan /\ plan \in Plans /\ plan \notin Range(lifecycle.backlogs)
      /\ planned[plan] = lifecycle.approved /\ lifecycle.stage = "backlog_design"
  BY <1>0 DEF PublishBacklog, At, PlanningFollowsApproval, Planner
<1>2. ReportBacklog(plan) /\ Planner'.pc = "checking"
  BY <1>0, <1>1, GoesTo DEF PublishBacklog, BacklogAccepted, Planner
<1>3. /\ lifecycle'.stage = "backlog_qa" /\ lifecycle'.approved = lifecycle.approved
      /\ lifecycle'.backlogs # <<>> /\ Last(lifecycle'.backlogs) = plan
      /\ Range(lifecycle'.backlogs) = Range(lifecycle.backlogs) \cup {plan}
  BY <1>0, <1>1, <1>2, ReportBacklogTyped
<1>4. plan # 0 /\ Range(lifecycle'.backlogs) \subseteq 1..plan
  BY <1>0, <1>1, <1>3, PipelineAssumption DEF PlanningFollowsApproval, Plans
<1> QED
  BY <1>0, <1>1, <1>2, <1>3, <1>4 DEF PlanningFollowsApproval, AcceptedIsApproved

LEMMA CheckReceiptWork ==
  ASSUME TypeOK, CheckReceipt
  PROVE  \/ Planner'.pc \in Harmless
         \/ ~Mismatched /\ Planner'.pc = "activating" /\ Planner'.base = plan
<1>1. NoWork \in Works /\ "delivery_plan" \in Kinds
  BY DEF NoWork, Works, WorkPcs, Kinds
<1>2. /\ [NoWork EXCEPT !.pc = "failing"].pc = "failing"
      /\ [NoWork EXCEPT !.pc = "initializing"].pc = "initializing"
      /\ [NoWork EXCEPT !.pc = "activating", !.base = plan].pc = "activating"
      /\ [NoWork EXCEPT !.pc = "activating", !.base = plan].base = plan
  BY <1>1 DEF Works
<1>3. PICK w : /\ \/ w.pc \in Harmless
                  \/ ~Mismatched /\ w.pc = "activating" /\ w.base = plan
               /\ work' = [work EXCEPT !["delivery_plan"] = w]
  BY <1>2, Zenon DEF CheckReceipt, Harmless
<1> QED
  BY <1>1, <1>3, PoolTypes DEF Planner

LEMMA NextPlanning ==
  TypeOK /\ Approval /\ [Next]_vars => PlanningFollowsApproval' /\ AcceptedIsApproved'
<1> SUFFICES ASSUME TypeOK, Approval, [Next]_vars
             PROVE  PlanningFollowsApproval' /\ AcceptedIsApproved'
  OBVIOUS
<1>1. CASE ReadForPlan \/ WritePlan \/ PublishBacklog
  BY <1>1, ReadForPlanKeeps, WritePlanKeeps, PublishBacklogKeeps
<1>2. CASE ~WritePlan /\ ~PublishBacklog /\ ~ReadForPlan
  <2>1. UNCHANGED <<plan, planned>>
    BY <1>2 DEF Next, Worker, Solution, Planning, Timer, Owner, vars, disk, RetryTimer, Begin, Save,
       ModelsFail, ReadForDesign, WriteDesign, PublishSolution, CheckReceipt, ActivateByPlan,
       ConfirmByPlan, InitializeByPlan, ScheduleExecution, TimerSync, TimerActivates,
       TimerConfirms, ExecutionTick, Dispatch, AssessScope, Approve, Decline, RequestRevision,
       Decided, SubmitSolution, WriteSolution, Reopen, RetryExecution, Generate, Restart
  <2>2. Planner' = Planner \/ Planner'.pc \in Harmless \cup {"activating", "confirming"}
    <3>1. CASE Solution
      BY <3>1, OneRunAtATime DEF Planner
    <3>2. CASE CheckReceipt
      BY <3>2, CheckReceiptWork
    <3>3. CASE ActivateByPlan \/ ConfirmByPlan \/ InitializeByPlan \/ ScheduleExecution
      BY <3>3, GoesTo DEF ActivateByPlan, ConfirmByPlan, InitializeByPlan, ScheduleExecution,
         Harmless, Planner, Kinds
    <3>4. CASE ~Solution /\ ~Planning
      BY <3>4, OtherWork DEF Planner, Kinds
    <3> QED
      BY <1>2, <3>1, <3>2, <3>3, <3>4 DEF Planning
  <2> QED
    BY <1>2, <2>1, <2>2, LifecycleMoves, PlanningFrame
<1> QED
  BY <1>1, <1>2

\* The receipt's plan is written once; the callers, the epic and the execution
\* follow it.
LEMMA JiraFrame ==
  ASSUME Approval,
         receipt'.plan = receipt.plan \/ receipt.plan = 0,
         Stays \/ MovesElsewhere \/ BeginsDelivery \/ lifecycle'.stage = "backlog_qa",
         execution' = execution \/ execution' = receipt'.plan,
         \/ Planner' = Planner \/ Planner'.pc \notin {"activating", "confirming"}
         \/ Planner.pc \in {"activating", "confirming"} /\ Planner'.base = Planner.base
         \/ Planner'.base = receipt'.plan /\ receipt'.plan # 0,
         \/ sync' = sync \/ sync'.pc = "idle"
         \/ sync.pc # "idle" /\ sync'.base = sync.base
         \/ sync'.base = receipt'.plan /\ receipt'.plan # 0
  PROVE  OnePlanInJira'
<1>0. OnePlanInJira
  BY DEF Approval
<1>1. lifecycle'.stage = "delivery" => lifecycle'.epic = receipt'.plan /\ receipt'.plan # 0
  BY <1>0 DEF OnePlanInJira, Stays, MovesElsewhere, BeginsDelivery
<1>2. execution' \in {0, receipt'.plan}
  BY <1>0 DEF OnePlanInJira
<1>3. Planner'.pc \in {"activating", "confirming"} => Planner'.base = receipt'.plan /\ receipt'.plan # 0
  BY <1>0 DEF OnePlanInJira
<1>4. sync'.pc # "idle" => sync'.base = receipt'.plan /\ receipt'.plan # 0
  BY <1>0 DEF OnePlanInJira
<1> QED
  BY <1>1, <1>2, <1>3, <1>4 DEF OnePlanInJira

LEMMA ReceiptedPlan ==
  ASSUME Receipted, ~Mismatched
  PROVE  receipt'.plan = plan /\ (receipt'.plan = receipt.plan \/ receipt.plan = 0)
BY DEF Receipted, Mismatched

LEMMA PlannerInJira ==
  ASSUME TypeOK, Approval, Planning
  PROVE  \/ Planner'.pc \notin {"activating", "confirming"}
         \/ Planner.pc \in {"activating", "confirming"} /\ Planner'.base = Planner.base
         \/ Planner'.base = receipt'.plan /\ receipt'.plan # 0
<1>0. "delivery_plan" \in Kinds /\ DiskTyped
  BY TypesInParts DEF Kinds
<1>1. CASE ReadForPlan
  <2>1. NoWork \in Works
    BY DEF NoWork, Works, WorkPcs
  <2>2. /\ [NoWork EXCEPT !.pc = "checking"].pc \notin {"activating", "confirming"}
        /\ [NoWork EXCEPT !.pc = "failing"].pc \notin {"activating", "confirming"}
        /\ [pc |-> "planning", base |-> plan, from |-> design].pc \notin {"activating", "confirming"}
    BY <2>1 DEF Works
  <2>3. PICK w : w.pc \notin {"activating", "confirming"}
                 /\ work' = [work EXCEPT !["delivery_plan"] = w]
    BY <1>1, <2>2, Zenon DEF ReadForPlan
  <2> QED
    BY <1>0, <2>3, PoolTypes DEF Planner
<1>2. CASE WritePlan
  <2>1. CASE work["delivery_plan"].base # plan
    BY <1>0, <1>2, <2>1, GoesTo DEF WritePlan, Planner
  <2>2. CASE work["delivery_plan"].base = plan
    <3>1. work' = [work EXCEPT !["delivery_plan"] =
             [pc |-> "publishing", base |-> plan + 1, from |-> 0]]
      BY <1>2, <2>2 DEF WritePlan
    <3> QED
      BY <1>0, <3>1, Writes DEF Planner
  <2> QED
    BY <2>1, <2>2
<1>3. CASE CheckReceipt
  <2>1. CASE Planner'.pc \in Harmless
    BY <2>1 DEF Harmless
  <2>2. CASE ~Mismatched /\ Planner'.pc = "activating" /\ Planner'.base = plan
    <3>1. receipt'.plan = plan /\ plan # 0
      BY <1>3, <2>2, ReceiptedPlan DEF CheckReceipt, At, Approval, PlanningFollowsApproval, Planner
    <3> QED
      BY <2>2, <3>1
  <2> QED
    BY <1>3, <2>1, <2>2, CheckReceiptWork
<1>4. CASE ActivateByPlan \/ PublishBacklog \/ ConfirmByPlan \/ InitializeByPlan \/ ScheduleExecution
  BY <1>0, <1>4, GoesTo DEF ActivateByPlan, PublishBacklog, ConfirmByPlan, InitializeByPlan,
     ScheduleExecution, At, Planner
<1> QED
  BY <1>1, <1>2, <1>3, <1>4 DEF Planning

LEMMA NextOnePlan == TypeOK /\ Approval /\ [Next]_vars => OnePlanInJira'
<1> SUFFICES ASSUME TypeOK, Approval, [Next]_vars PROVE OnePlanInJira'
  OBVIOUS
<1>0. "delivery_plan" \in Kinds /\ OnePlanInJira
  BY DEF Kinds, Approval
<1>1. \/ Stays \/ MovesElsewhere \/ BeginsDelivery \/ lifecycle'.stage = "backlog_qa"
  <2>1. PublishBacklog => lifecycle'.stage = "backlog_qa"
    <3> SUFFICES ASSUME PublishBacklog PROVE lifecycle'.stage = "backlog_qa"
      OBVIOUS
    <3>1. lifecycle \in Lifecycles /\ lifecycle.stage = "backlog_design"
      BY TypesInParts DEF PublishBacklog, At, Approval, PlanningFollowsApproval, Planner
    <3> QED
      BY <3>1 DEF PublishBacklog, BacklogAccepted, ReportBacklog, Advance, Lifecycles
  <2> QED
    BY <2>1, LifecycleMoves
<1>2. \/ Planner' = Planner \/ Planner'.pc \notin {"activating", "confirming"}
      \/ Planner.pc \in {"activating", "confirming"} /\ Planner'.base = Planner.base
      \/ Planner'.base = receipt'.plan /\ receipt'.plan # 0
  <2>1. CASE Planning
    BY <2>1, PlannerInJira
  <2>2. CASE Solution
    BY <2>2, OneRunAtATime DEF Planner
  <2>3. CASE ~Solution /\ ~Planning
    BY <1>0, <2>3, OtherWork DEF Planner, Harmless
  <2> QED
    BY <2>1, <2>2, <2>3
<1>3. CASE CheckReceipt
  <2>1. receipt'.plan = receipt.plan \/ receipt.plan = 0
    BY <1>3, ReceiptedPlan DEF CheckReceipt
  <2>2. execution' = execution /\ sync' = sync
    BY <1>3 DEF CheckReceipt, callers
  <2> QED
    BY <1>1, <1>2, <2>1, <2>2, JiraFrame
<1>4. CASE ConfirmByPlan
  <2>1. receipt'.plan = receipt.plan /\ execution' = execution /\ sync' = sync
    BY <1>0, <1>4 DEF ConfirmByPlan, At, OnePlanInJira, Planner, callers
  <2> QED
    BY <1>1, <1>2, <2>1, JiraFrame
<1>5. CASE InitializeByPlan \/ ExecutionTick
  <2>1. receipt' = receipt /\ (execution' = execution \/ execution' = receipt.plan) /\ sync' = sync
    BY <1>5 DEF InitializeByPlan, ExecutionTick, Initializable, JiraReady, callers
  <2> QED
    BY <1>1, <1>2, <2>1, JiraFrame
<1>6. CASE TimerSync
  <2>1. receipt'.plan = plan /\ (receipt'.plan = receipt.plan \/ receipt.plan = 0) /\ plan # 0
    BY <1>6, ReceiptedPlan DEF TimerSync
  <2>2. execution' = execution /\ sync'.base = plan
    BY <1>6 DEF TimerSync
  <2> QED
    BY <1>1, <1>2, <2>1, <2>2, JiraFrame
<1>7. CASE TimerActivates \/ TimerConfirms
  <2>0. CallersTyped
    BY TypesInParts
  <2>1. receipt'.plan = receipt.plan /\ execution' = execution
    BY <1>0, <1>7 DEF TimerActivates, TimerConfirms, OnePlanInJira, disk
  <2>2. sync'.pc = "idle" \/ (sync.pc # "idle" /\ sync'.base = sync.base)
    BY <1>7, <2>0 DEF TimerActivates, TimerConfirms, NoSync, CallersTyped
  <2> QED
    BY <1>1, <1>2, <2>1, <2>2, JiraFrame
<1>8. CASE \/ \E k \in Kinds : RetryTimer(k) \/ Begin(k) \/ Save(k) \/ ModelsFail(k) \/ Generate(k)
           \/ Solution \/ ReadForPlan \/ WritePlan \/ PublishBacklog \/ ActivateByPlan
           \/ ScheduleExecution \/ Dispatch \/ AssessScope \/ Approve \/ Decline
           \/ RequestRevision \/ WriteSolution \/ SubmitSolution \/ Reopen \/ RetryExecution
           \/ Restart \/ UNCHANGED vars
  <2>1. receipt' = receipt /\ execution' = execution
    BY <1>8 DEF disk, vars, RetryTimer, Begin, Save, ModelsFail, Generate, Solution,
       ReadForDesign, WriteDesign, PublishSolution, ReadForPlan, WritePlan, PublishBacklog,
       ActivateByPlan, ScheduleExecution, Dispatch, AssessScope, Approve, Decline,
       RequestRevision, Decided, WriteSolution, SubmitSolution, Reopen, RetryExecution, Restart
  <2>2. sync' = sync \/ sync' = NoSync
    BY <1>8 DEF callers, vars, RetryTimer, Begin, Save, ModelsFail, Generate, Solution,
       ReadForDesign, WriteDesign, PublishSolution, ReadForPlan, WritePlan, PublishBacklog,
       ActivateByPlan, ScheduleExecution, Dispatch, AssessScope, Approve, Decline,
       RequestRevision, Decided, WriteSolution, SubmitSolution, Reopen, RetryExecution, Restart
  <2>3. NoSync.pc = "idle"
    BY DEF NoSync
  <2> QED
    BY <1>1, <1>2, <2>1, <2>2, <2>3, JiraFrame
<1> QED
  BY <1>3, <1>4, <1>5, <1>6, <1>7, <1>8 DEF Next, Worker, Planning, Timer, Owner

-----------------------------------------------------------------------------
(* The inductive invariant, and what it gives.                              *)

LEMMA InitPipeline == Init => TypeOK /\ Pool /\ Approval
<1> SUFFICES ASSUME Init PROVE TypeOK /\ Pool /\ Approval
  OBVIOUS
<1>1. lifecycle \in Lifecycles
  BY DEF Init, Lifecycles, Stages
<1>2. NoWork \in Works /\ NoSync \in [pc : {"idle", "activating", "confirming"}, base : 0..PlanLimit]
  BY PipelineAssumption DEF NoWork, NoSync, Works, WorkPcs
<1>3. PoolsTyped
  BY <1>2 DEF Init, PoolsTyped, RunStates
<1>4. DiskTyped
  <2>1. [plan |-> 0, completed |-> FALSE] \in [plan : 0..PlanLimit, completed : BOOLEAN]
    BY PipelineAssumption
  <2> QED
    BY <2>1, PipelineAssumption DEF Init, DiskTyped
<1>5. CallersTyped
  <2>1. sync = NoSync /\ route = 0 /\ dispatched = FALSE
    BY DEF Init
  <2>2. 0 \in 0..DesignLimit
    BY PipelineAssumption
  <2> QED
    BY <1>2, <2>1, <2>2, Zenon DEF CallersTyped
<1>6. TypeOK
  BY <1>1, <1>3, <1>4, <1>5, TypesInParts
<1>7. Pool
  BY DEF Init, Pool, PendingRunsAreRemembered, OneWayOn, InFlight, NoWork, Pending, Kinds
<1>8. Approval
  <2>1. Range(<<>>) = {}
    BY DEF Range
  <2> QED
    BY <2>1, PipelineAssumption DEF Init, Approval, DesignsAreWritten, At, PlanningFollowsApproval,
       AcceptedIsApproved, OnePlanInJira, Planner, NoWork, NoSync, Kinds
<1> QED
  BY <1>6, <1>7, <1>8

LEMMA AlwaysPipelineInv == Spec => [](TypeOK /\ Pool /\ Approval)
<1>1. TypeOK /\ Pool /\ Approval /\ [Next]_vars => (TypeOK /\ Pool /\ Approval)'
  BY NextTypes, NextPool, NextDesignsAreWritten, NextPlanning, NextOnePlan DEF Approval
<1> QED
  BY <1>1, InitPipeline, PTL DEF Spec

\* Every file, run and caller of the pipeline keeps its type; in particular a
\* delivery has an epic, and what is approved was designed.
THEOREM PipelineTypeCorrect == Spec => []TypeOK
BY AlwaysPipelineInv, PTL

\* No run is lost between a worker and its timer, whatever schedules it and
\* whenever the process ends.
THEOREM PipelineRunsAreRemembered == Spec => []PendingRunsAreRemembered
<1>1. Pool => PendingRunsAreRemembered
  BY DEF Pool
<1> QED
  BY <1>1, AlwaysPipelineInv, PTL

\* A project in delivery by its latest plan has its epic, its receipt and its
\* execution of that plan, made from the approved design: for any number of
\* revisions, reopenings and restarts.
THEOREM WhatIsBuiltIsApproved == Spec => []ImplementationIsApproved
<1>1. Approval => ImplementationIsApproved
  BY DEF Approval, ImplementationIsApproved, AcceptedIsApproved, OnePlanInJira
<1> QED
  BY <1>1, AlwaysPipelineInv, PTL
=============================================================================
