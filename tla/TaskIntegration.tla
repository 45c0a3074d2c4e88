---------------------------- MODULE TaskIntegration ----------------------------
(* One project's worker, its task workspaces and the canonical repository:  *)
(* apps/core/src/project-task-workspace.ts driven by the runtime adapters   *)
(* and the worker, over the execution service of ProjectExecution. Every    *)
(* await of a Git command, a validation or the service ends a step, and     *)
(* the owner, the clock and the end of the process come between.            *)
(*                                                                          *)
(* Left out: file contents (a workspace differs from its baseline or not),  *)
(* validation commands and reviews (their outcomes are choices), paths      *)
(* outside a task's authority, and history the owner rewrites.              *)
EXTENDS ProjectExecution

CONSTANT EditLimit  \* edits the owner and Codkesh make on the canonical repository

ASSUME EditLimitAssumption ==
  EditLimit \in Nat /\ {"plain", "integration"} \subseteq Messages

VARIABLES
  branch,     \* the commits of the canonical branch, HEAD last
  dirt,       \* uncommitted changes of the canonical folder
  worktrees,  \* task -> baseline -> the worktree on disk
  active,     \* the adapters' #workspaces: task -> baseline, 0 when unknown
  run,        \* the worker's tick, if one is under way
  edits       \* edits made so far, up to EditLimit

canonical == <<branch, dirt>>
disk == <<branch, dirt, worktrees, edits>>
integrationVars == <<tasks, state, branch, dirt, worktrees, active, run, edits>>

NoTask == 0

\* by: the task whose change or revert it is; on: the baseline the change was
\* validated on; undoes: the commit a revert undoes; rejected: whether it
\* holds work of an attempt that was reviewed and then reopened.
Commit == [by : Tasks \cup {NoTask}, on : Nat, undoes : Nat, rejected : BOOLEAN]
OutsideCommit == [by |-> NoTask, on |-> 0, undoes |-> 0, rejected |-> FALSE]

\* A worktree's HEAD is its baseline or a commit made on it.
Worktree == [head : {"baseline", "commit"}, changed : BOOLEAN, rejected : BOOLEAN]
FreshWorktree == [head |-> "baseline", changed |-> FALSE, rejected |-> FALSE]

\* prepared: implement has its workspace; assess: a validation failed;
\* integrating .. threw: inside integrate. made: commit found changes.
Steps == {"idle", "working", "prepared", "full", "assess", "integrating",
          "committed", "checked", "merged", "verified", "failed", "threw"}
Run == [task : Tasks \cup {NoTask}, step : Steps, made : BOOLEAN]
Idle == [task |-> NoTask, step |-> "idle", made |-> FALSE]
Begun(t) == [task |-> t, step |-> "working", made |-> FALSE]
To(step) == run' = [run EXCEPT !.step = step]

HeadCommit == Len(branch)
ChangeAt(i) == branch[i].by # NoTask /\ branch[i].undoes = 0

IntegrationInit ==
  /\ Init
  /\ branch = <<OutsideCommit>> /\ dirt = "clean"
  /\ worktrees = [t \in Tasks |-> <<>>]
  /\ active = [t \in Tasks |-> 0]
  /\ run = Idle /\ edits = 0

-----------------------------------------------------------------------------
(* prepare: the baseline, the worktree for it, and what can refuse them.    *)

\* Slip: an attempt that was reviewed is continued instead of restarted.
RepairsUnstartedOnly(r) ==
  /\ r.implemented = 0 /\ r.archive # <<>>
  /\ r.archive[Len(r.archive)].implemented = 0

\* isRepair in implement.
Repairs(r) ==
  /\ r.implemented = 0 /\ r.archive # <<>>
  /\ LET latest == r.archive[Len(r.archive)] IN
       latest.reviews # {} \/ latest.implemented = 0

\* ensureExecutionBaseline: what Codkesh itself wrote becomes a commit.
Baseline == IF dirt = "owned" THEN Append(branch, OutsideCommit) ELSE branch
Known(t, b) == b \in DOMAIN worktrees[t]
Occupied(t) == Known(t, Len(Baseline)) /\ worktrees[t][Len(Baseline)].head = "commit"

SetWorktree(t, b, wt) ==
  worktrees' = [worktrees EXCEPT ![t] =
                  [c \in DOMAIN @ \cup {b} |-> IF c = b THEN wt ELSE @[c]]]

\* Slip: the worktree is cut from a checkpoint that is not on the branch.
PreparesUncheckpointed(t, reset) ==
  LET b == Len(Baseline) IN
  /\ dirt # "foreign" /\ ~Occupied(t)
  /\ UNCHANGED canonical
  /\ active' = [active EXCEPT ![t] = b]
  /\ SetWorktree(t, b, FreshWorktree)

\* The worktree of this task and baseline is reused as it was left; a repair
\* resets it (resetAuthorizedFiles). Changes Codkesh does not own, or artifacts
\* of its own that differ from their history, are refused as foreign.
Prepares(t, reset) ==
  LET b == Len(Baseline) IN
  /\ dirt # "foreign" /\ ~Occupied(t)
  /\ branch' = Baseline /\ dirt' = "clean"
  /\ active' = [active EXCEPT ![t] = b]
  /\ SetWorktree(t, b, IF Known(t, b) /\ ~reset THEN worktrees[t][b] ELSE FreshWorktree)

\* The worker's catch: the tick ends with the interruption, which the service
\* refuses when the lease is gone.
Stops(w, t, class, note) ==
  /\ run' = Idle
  /\ \/ Interrupt(t, w, class, note)
     \/ ~Owns(w, t) /\ UNCHANGED vars

-----------------------------------------------------------------------------
(* The worker's tick up to the reviews.                                     *)

ClaimTask(w, p) ==
  /\ run = Idle
  /\ Claim(w, p)
  /\ \E t \in Tasks : tasks'[t].owner # tasks[t].owner /\ run' = Begun(t)
  /\ UNCHANGED <<disk, active>>

HeartbeatRun(w) ==
  /\ run # Idle /\ Heartbeat(run.task, w)
  /\ UNCHANGED <<disk, active, run>>

StartImplementation(w) ==
  LET t == run.task
      prepare == active[t] = 0 \/ Repairs(tasks[t]) IN
  /\ run.step = "working" /\ Implementing(tasks[t])
  /\ edits' = edits
  /\ \/ /\ ~prepare
        /\ To("prepared") /\ UNCHANGED <<vars, canonical, worktrees, active>>
     \/ /\ prepare /\ Prepares(t, Repairs(tasks[t]))
        /\ To("prepared") /\ UNCHANGED vars
     \/ /\ prepare /\ dirt = "foreign"
        /\ Stops(w, t, Nobody, "plain")
        /\ active' = [active EXCEPT ![t] = 0] /\ UNCHANGED <<canonical, worktrees>>
     \/ /\ prepare /\ dirt # "foreign" /\ Occupied(t)
        /\ Stops(w, t, "implementation", "plain")
        /\ active' = [active EXCEPT ![t] = 0] /\ UNCHANGED <<canonical, worktrees>>

\* The proposal is applied, or a call for it fails before or after that.
Applies(t, changed) ==
  /\ SetWorktree(t, active[t], [worktrees[t][active[t]] EXCEPT !.changed = changed])
  /\ UNCHANGED <<canonical, active, edits>>

FinishImplementation(w) ==
  LET t == run.task IN
  /\ run.step = "prepared"
  /\ \E changed \in BOOLEAN : Applies(t, changed)
  /\ RecordImplementation(t, w) /\ To("working")

FailImplementation(w) ==
  LET t == run.task IN
  /\ run.step = "prepared" /\ Implementing(tasks[t])
  /\ \E changed \in BOOLEAN : Applies(t, changed)
  /\ run' = Idle
  /\ \/ ReleaseForRetry(t, w)
     \/ tasks[t].provider # Nobody
        /\ ReleaseContractFailureForRetry(t, w, tasks[t].provider)
     \/ \E class \in {Nobody, "implementation"}, note \in InterruptNotes(tasks[t]) :
          Interrupt(t, w, class, note)

\* Recovery evidence stands for an implementation.
SkipImplementation(w) ==
  LET t == run.task IN
  /\ run.step = "working"
  /\ tasks[t].status = "running" /\ tasks[t].recovered
  /\ RecordImplementation(t, w)
  /\ UNCHANGED <<disk, active, run>>

\* validate throws when this process does not know the workspace.
Validate(w) ==
  LET t == run.task
      tier == IF run.step = "full" THEN "full" ELSE "fast" IN
  /\ run.step \in {"working", "full"} /\ tasks[t].status = "validating"
  /\ UNCHANGED <<disk, active>>
  /\ \/ active[t] = 0 /\ Stops(w, t, Nobody, "plain")
     \/ /\ active[t] # 0 /\ RecordPass(t, w, tier)
        /\ To(IF tier = "fast" THEN "full" ELSE "working")
     \/ /\ active[t] # 0 /\ To("assess")
        /\ \E d \in Digests : RecordFailure(t, w, tier, d)

Assess(w) ==
  LET t == run.task IN
  /\ run.step = "assess"
  /\ \E class \in {"implementation", "environment"} : AssessHealing(t, w, class)
  /\ run' = IF tasks'[t].status = "healing" THEN Begun(t) ELSE Idle
  /\ UNCHANGED <<disk, active>>

ReviewTask(w) ==
  LET t == run.task IN
  /\ run.step = "working" /\ tasks[t].status = "reviewing"
  /\ UNCHANGED <<disk, active>>
  /\ \/ /\ \E panel \in Panels : RecordReviews(t, w, panel)
        /\ IF tasks'[t].status = "integrating" THEN To("integrating") ELSE run' = Idle
     \/ run' = Idle /\ ReleaseForRetry(t, w)
     \/ Stops(w, t, Nobody, "plain")

-----------------------------------------------------------------------------
(* integrate: commit, clean checkout, fast-forward, root validation, revert. *)
(* None of these steps asks for the lease.                                  *)

\* Slip: a workspace without changes is taken as delivered, whatever its past.
CommitWhateverIsThere(w) ==
  LET t == run.task
      wt == worktrees[t][active[t]] IN
  /\ run.step = "integrating"
  /\ UNCHANGED <<canonical, active, edits, vars>>
  /\ run' = [run EXCEPT !.step = "committed", !.made = wt.changed]
  /\ SetWorktree(t, active[t], [wt EXCEPT !.head = IF wt.changed THEN "commit" ELSE @,
                                          !.changed = FALSE])

\* Unchanged files of a task that was tried before are revalidated as they
\* are; the baseline then stands for the commit.
CommitWork(w) ==
  LET t == run.task
      wt == worktrees[t][active[t]] IN
  /\ run.step = "integrating"
  /\ UNCHANGED <<canonical, active, edits>>
  /\ \/ /\ wt.changed
        /\ SetWorktree(t, active[t], [wt EXCEPT !.head = "commit", !.changed = FALSE])
        /\ run' = [run EXCEPT !.step = "committed", !.made = TRUE] /\ UNCHANGED vars
     \/ /\ ~wt.changed /\ tasks[t].archive # <<>>
        /\ run' = [run EXCEPT !.step = "committed", !.made = FALSE]
        /\ UNCHANGED <<vars, worktrees>>
     \/ ~wt.changed /\ Stops(w, t, "implementation", "integration") /\ UNCHANGED worktrees

\* validateCommit in a detached checkout: it passes, fails or throws.
ValidateCommit(w) ==
  LET t == run.task IN
  /\ run.step = "committed" /\ UNCHANGED <<disk, active>>
  /\ \/ To("checked") /\ UNCHANGED vars
     \/ Stops(w, t, "implementation", "integration")
     \/ \E class \in {Nobody, "implementation"} : Stops(w, t, class, "plain")

Merged(t) ==
  IF run.made
  THEN Append(branch, [by |-> t, on |-> active[t], undoes |-> 0,
                       rejected |-> worktrees[t][active[t]].rejected])
  ELSE branch

\* Slip: the change is merged on top of whatever HEAD has become.
MergeAnyway(w) ==
  LET t == run.task IN
  /\ run.step = "checked" /\ UNCHANGED <<worktrees, active, edits, dirt>>
  /\ \/ dirt = "clean" /\ branch' = Merged(t) /\ To("merged") /\ UNCHANGED vars
     \/ dirt # "clean" /\ Stops(w, t, Nobody, "plain") /\ UNCHANGED branch

\* ProjectTaskWorkspaceService.integrate. A HEAD that moved is noticed by the
\* check or, after it, by merge --ff-only, which is another class of failure; the
\* branch is left alone either way, so that check and merge are one step.
Merge(w) ==
  LET t == run.task IN
  /\ run.step = "checked" /\ UNCHANGED <<worktrees, active, edits, dirt>>
  /\ \/ /\ dirt = "clean" /\ HeadCommit = active[t]
        /\ branch' = Merged(t) /\ To("merged") /\ UNCHANGED vars
     \/ dirt # "clean" /\ Stops(w, t, Nobody, "plain") /\ UNCHANGED branch
     \/ /\ dirt = "clean" /\ HeadCommit # active[t] /\ UNCHANGED branch
        /\ \E class \in {Nobody, "implementation"} : Stops(w, t, class, "plain")

\* Dependencies and validation in the canonical folder itself.
ValidateRoot ==
  /\ run.step = "merged"
  /\ \E outcome \in {"verified", "failed", "threw"} : To(outcome)
  /\ UNCHANGED <<vars, disk, active>>

\* The commit revertIntegration is asked to undo.
Delivered(t) == active[t] + IF run.made THEN 1 ELSE 0
Reverted(t) == Append(branch, [OutsideCommit EXCEPT !.by = t, !.undoes = Delivered(t)])

\* Slip: a failed validation that was reverted is recorded all the same.
RevertAndRecord(w) ==
  LET t == run.task IN
  /\ run.step \in {"failed", "threw"} /\ UNCHANGED <<worktrees, active, edits, dirt>>
  /\ branch' = Reverted(t) /\ To("verified") /\ UNCHANGED vars

\* Slip: the revert waits for a canonical folder it can work in.
RevertWhenClean(w) ==
  LET t == run.task IN
  /\ run.step \in {"failed", "threw"} /\ UNCHANGED <<worktrees, active, edits, dirt>>
  /\ dirt = "clean" /\ HeadCommit = Delivered(t)
  /\ branch' = Reverted(t) /\ Stops(w, t, "implementation", "integration")

\* A revert of the baseline does not restore the baseline: the difference is
\* noticed and a second revert refused. The look at HEAD and the revert are one
\* step: an edit between the two is not modelled.
Revert(w) ==
  LET t == run.task IN
  /\ run.step \in {"failed", "threw"} /\ UNCHANGED <<worktrees, active, edits, dirt>>
  /\ IF dirt # "clean" \/ HeadCommit # Delivered(t)
     THEN Stops(w, t, "implementation", "plain") /\ UNCHANGED branch
     ELSE /\ branch' = Reverted(t)
          /\ \/ run.step = "failed" /\ run.made /\ Stops(w, t, "implementation", "integration")
             \/ run.step = "failed" /\ ~run.made /\ Stops(w, t, "implementation", "plain")
             \/ run.step = "threw" /\ Stops(w, t, Nobody, "plain")
             \/ run.step = "threw" /\ run.made /\ Stops(w, t, "implementation", "plain")

RecordDelivery(w) ==
  /\ run.step = "verified" /\ RecordIntegration(run.task, w) /\ run' = Idle
  /\ UNCHANGED <<disk, active>>

\* A call on the service is refused: the lease is gone, and so is the tick.
Served == {"working", "prepared", "full", "assess", "verified"}
LoseLease ==
  LET t == run.task IN
  /\ run.step \in Served /\ \A w \in Workers : ~Owns(w, t)
  /\ run' = Idle /\ UNCHANGED <<vars, canonical, active, edits>>
  /\ \/ UNCHANGED worktrees
     \/ /\ run.step = "prepared"
        /\ \E changed \in BOOLEAN :
             SetWorktree(t, active[t], [worktrees[t][active[t]] EXCEPT !.changed = changed])

\* A full evidence list refuses the next entry.
RecordRefused(w) ==
  LET r == tasks[run.task] IN
  /\ \/ run.step \in {"prepared", "working"} /\ r.implemented = ImplementationLimit
        /\ r.status \in {"running", "healing"}
     \/ run.step \in {"working", "full"} /\ r.checks = ValidationLimit
        /\ r.status = "validating"
     \/ run.step = "verified" /\ r.checks = ValidationLimit
  /\ Stops(w, run.task, Nobody, "plain") /\ UNCHANGED <<disk, active>>

-----------------------------------------------------------------------------
(* The process, the clock and the owner.                                    *)

\* The process ends and starts again: the tick and #workspaces are gone.
Restart ==
  /\ run' = Idle /\ active' = [t \in Tasks |-> 0]
  /\ run # Idle \/ active # active'
  /\ UNCHANGED <<vars, disk>>

\* The coordinator reconciles before a tick.
Reconcile == run = Idle /\ ReconcileExpired /\ UNCHANGED <<disk, active, run>>
Clock == Tick /\ UNCHANGED <<disk, active, run>>

\* verifyQuarantineRepair looks up or prepares the workspace it validates; the
\* validation changes nothing, and what it says decides whether Recover follows.
VerifyRepair(t) ==
  /\ Verifiable(tasks[t]) /\ active[t] = 0
  /\ Prepares(t, FALSE) /\ UNCHANGED <<vars, run, edits>>

\* Slip: recovery without a look at what the task was stopped for.
RecoverAnything(t) == active[t] # 0 /\ AuthorizeQuarantineRecovery(t)
Recover(t) == Verifiable(tasks[t]) /\ active[t] # 0 /\ AuthorizeQuarantineRecovery(t)

\* Reviewed work whose attempt is reopened counts as rejected wherever a
\* worktree still holds it.
MarkRejected ==
  worktrees' = [t \in Tasks |->
    IF tasks'[t].archive # tasks[t].archive /\ tasks[t].reviews # {}
    THEN [b \in DOMAIN worktrees[t] |->
            [worktrees[t][b] EXCEPT !.rejected = @ \/ worktrees[t][b].changed
                                                   \/ worktrees[t][b].head = "commit"]]
    ELSE worktrees[t]]

OwnerDecides(t) ==
  /\ \/ \E a \in Approvals : AuthorizeCompletedRepair(t, a)
     \/ Recover(t)
     \/ /\ Verifiable(tasks[t]) \/ Repairable(tasks[t])
        /\ \E a \in Approvals : AuthorizeReviewRepair(t, a)
     \/ /\ ~Verifiable(tasks[t]) /\ ~Repairable(tasks[t])
        /\ AuthorizeEnvironmentRetry(t)
  /\ MarkRejected /\ UNCHANGED <<canonical, active, run, edits>>

\* The owner edits, commits or discards; Codkesh writes its own artifacts.
EditCanonical ==
  /\ edits < EditLimit /\ edits' = edits + 1
  /\ \/ dirt' = "foreign" /\ UNCHANGED branch
     \/ dirt = "clean" /\ dirt' = "owned" /\ UNCHANGED branch
     \/ dirt' = "clean" /\ branch' = Append(branch, OutsideCommit)
  /\ UNCHANGED <<vars, worktrees, active, run>>
DiscardEdits ==
  /\ dirt = "foreign" /\ dirt' = "clean"
  /\ UNCHANGED <<vars, branch, worktrees, active, run, edits>>

WorkerProgress ==
  /\ run # Idle
  /\ \/ \E w \in Workers :
          \/ StartImplementation(w) \/ FinishImplementation(w) \/ FailImplementation(w)
          \/ SkipImplementation(w) \/ Validate(w) \/ Assess(w) \/ ReviewTask(w)
          \/ CommitWork(w) \/ ValidateCommit(w) \/ Merge(w) \/ Revert(w)
          \/ RecordDelivery(w) \/ RecordRefused(w)
     \/ ValidateRoot
     \/ LoseLease

IntegrationNext ==
  \/ \E w \in Workers, p \in Candidates : ClaimTask(w, p)
  \/ \E w \in Workers : HeartbeatRun(w)
  \/ WorkerProgress
  \/ Restart \/ Reconcile \/ Clock
  \/ \E t \in Tasks : VerifyRepair(t) \/ OwnerDecides(t)
  \/ EditCanonical \/ DiscardEdits

IntegrationSpec == IntegrationInit /\ [][IntegrationNext]_integrationVars

\* A command, a validation and a model call end: each has a timeout.
FairIntegrationSpec == IntegrationSpec /\ WF_integrationVars(WorkerProgress)

-----------------------------------------------------------------------------
(* Properties.                                                              *)

IntegrationTypeOK ==
  /\ branch \in Seq(Commit) /\ dirt \in {"clean", "owned", "foreign"}
  /\ \A t \in Tasks : /\ active[t] \in DOMAIN worktrees[t] \cup {0}
                      /\ DOMAIN worktrees[t] \subseteq 1..HeadCommit
                      /\ \A b \in DOMAIN worktrees[t] : worktrees[t][b] \in Worktree
  /\ run \in Run
  /\ edits \in 0..EditLimit

\* The worker with its repository only ever does to the record what
\* ProjectExecution lets its callers do, so everything shown of the service
\* holds of the running system.
UsesTheServiceAsModelled == Spec

\* Every change on the branch sits directly on the baseline it was validated
\* on, whatever was committed while it was being validated.
ChangesSitOnTheirBaseline ==
  \A i \in 1..HeadCommit : ChangeAt(i) => branch[i].on = i - 1

\* What reviewers or the clean checkout rejected, and the owner had reopened,
\* never reaches the branch: not through a worktree left behind, a restart, an
\* environment retry or a recovery. Said of tasks that are not built on each
\* other: repairing a prerequisite reopens a task while it is being merged.
RejectedWorkStaysOut == \A i \in 1..HeadCommit : ~branch[i].rejected

InEffect(t, n) ==
  \E i \in 1..n : /\ branch[i].by = t /\ ChangeAt(i)
                  /\ \A j \in i..n : branch[j].undoes # i

\* A completed task's change is on the branch and no revert undid it.
CompletedWorkIsInEffect ==
  \A t \in Tasks : tasks[t].status = "completed" => InEffect(t, HeadCommit)

\* A change lies on its prerequisites' changes.
PrerequisitesPrecede ==
  \A i \in 1..HeadCommit : ChangeAt(i) =>
    \A t \in DependsOn[branch[i].by] : InEffect(t, i - 1)

\* A tick always ends: whatever the repository, the lease and the limits have
\* become, some way out of its step is open.
RunsEnd == (run # Idle) ~> (run = Idle)

\* The workspace a queued task needs can be prepared on the present HEAD.
QueuedWorkCanBePrepared ==
  \A t \in Tasks : tasks[t].status = "queued" => ~Occupied(t)

\* A revert undoes a change of the task whose integration failed.
RevertsUndoTheirOwnChange ==
  \A i \in 1..HeadCommit : branch[i].undoes # 0 =>
    branch[branch[i].undoes].by = branch[i].by
=============================================================================
