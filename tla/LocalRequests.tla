---------------------------- MODULE LocalRequests ----------------------------
(* What an owner's local request does to files and to Git:                   *)
(* apps/core/src/local-request-store.ts with local-execution.ts,             *)
(* local-validation.ts, local-patch.ts, local-change-set.ts, local-commit.ts  *)
(* and local-integration.ts, from an approved plan to its undone integration. *)
(*                                                                          *)
(* The store runs one operation at a time. An operation that touches files    *)
(* saves that it begins, does its work, and saves what came of it; an undo    *)
(* saves only the latter. Between the two the process may end or a git        *)
(* command may fail, and the canonical repository belongs to others as well.  *)
(* Every load validates all requests, every save only their shape.            *)
(*                                                                          *)
(* Left out: the request up to its approved plan, its zero-effect lease and    *)
(* archive; expiry of an authority; the digests by which the owner names what  *)
(* is approved; edits of a worktree by hand; a cherry-pick cut short half-way; *)
(* the attempt of a failed applyChangeSet to put back what it has written, which *)
(* leaves the files as an earlier end of it would.                             *)
EXTENDS Naturals, FiniteSets, FiniteSetsExt, SequencesExt

CONSTANTS
  Requests,
  Habits,      \* what owners may do: request -> the ways its owner will use
  Touches,     \* request -> way -> the files it changes, numbered in path order
  CommitLimit  \* bound: requests in use and commits by others, together

Ways == {"patch", "changeSet", "proposal"}

ASSUME LocalRequestsAssumption ==
  /\ Habits \subseteq [Requests -> SUBSET Ways]
  /\ Touches \in [Requests -> [Ways -> (SUBSET Nat) \ {{}}]]
  /\ \A r \in Requests, w \in Ways : IsFiniteSet(Touches[r][w])
  /\ CommitLimit \in Nat /\ "owner" \notin Requests

Files == UNION {Touches[r][w] : r \in Requests, w \in Ways}
\* raced: made by others while an operation was at work in the canonical folder.
Commits == [by : Requests \cup {"owner"}, files : SUBSET Files, raced : BOOLEAN]

Executions ==
  {"none", "authorized", "preparing", "ready", "validating", "validated",
   "review_ready", "failed", "cancelled", "interrupted"}
Changes ==
  {"none", "previewed", "approved", "applying", "applied", "rolled_back", "interrupted"}
Landings ==
  {"none", "previewed", "approved", "creating", "created", "undone", "interrupted"}
Proposals ==
  {"none", "requested", "generating", "deferred", "needs_user", "review_ready",
   "accepted", "rejected", "interrupted"}

VARIABLES
  record,      \* request -> its execution session in the store's file
  tree,        \* request -> files its worktree has changed, and those HEAD has
  canonical,   \* the canonical branch since the first authorization
  op,          \* the operation in progress between two saves
  cut          \* undos that ended after their work and before their save

vars == <<record, tree, canonical, op, cut>>

\* uses is not in the file: the ways the owner will take.
NoSession ==
  [uses |-> {}, execution |-> "none", workspace |-> "none", run |-> "none", baseline |-> <<>>,
   observed |-> {}, patch |-> "none", changeSet |-> "none", from |-> "changeSet",
   proposal |-> "none", commit |-> "none", files |-> {}, integration |-> "none",
   target |-> <<>>, result |-> <<>>]
NoOp == [doing |-> "nothing"]

Init ==
  /\ \E habit \in Habits :
       record = [r \in Requests |-> [NoSession EXCEPT !.uses = habit[r]]]
  /\ tree = [r \in Requests |-> [written |-> {}, head |-> {}]]
  /\ canonical = <<>> /\ op = NoOp /\ cut = {}

-----------------------------------------------------------------------------
(* What a load accepts: validateLocalRequestCollection.                      *)

HasReceipt(state) == state \in {"applied", "rolled_back"}

WorkspaceFits(s) ==
  /\ s.execution \in {"ready", "validating", "validated", "review_ready", "failed"}
       => s.workspace = "ready"
  /\ s.execution = "cancelled" => s.workspace \in {"none", "preserved"}
  /\ s.execution = "interrupted" => s.workspace \in {"none", "interrupted"}

RunFits(s) ==
  IF s.run = "none"
  THEN /\ s.execution \notin {"validating", "validated", "review_ready", "failed"}
       /\ {s.patch, s.changeSet, s.proposal, s.commit} = {"none"}
  ELSE /\ s.workspace # "none"
       /\ s.execution = "review_ready" => s.run = "passed" /\ s.observed # {}

OneOwner(s) == s.patch = "none" \/ s.changeSet = "none"

ProposalFits(s) ==
  s.proposal = "accepted" /\ s.changeSet # "none" => s.from = "proposal"

CommitFits(s) == s.commit # "none" => (HasReceipt(s.patch) # HasReceipt(s.changeSet))

Readable ==
  \A r \in Requests :
    LET s == record[r]
    IN WorkspaceFits(s) /\ RunFits(s) /\ OneOwner(s) /\ ProposalFits(s) /\ CommitFits(s)

\* Slip: an operation does not wait for the one before it.
Overlapping == Readable

\* An operation begins when the one before it has ended and the store loads.
Quiet == op = NoOp /\ Readable
Doing(r, what) == op.doing = what /\ op.for = r
Does(r, what) == op' = [doing |-> what, for |-> r, stage |-> "begun"]
Done == op' = [op EXCEPT !.stage = "done"]
IsDone == op.stage = "done"
Saves(r, s) == record' = [record EXCEPT ![r] = s]

Runnable(s) == s.execution = "ready" /\ s.workspace # "none" /\ s.run = "ready"
PatchFiles(r) == Touches[r]["patch"]
SetFiles(r) == Touches[r][record[r].from]

-----------------------------------------------------------------------------
(* The session: authorized, prepared, run, validated, cancelled.             *)

\* Saves s and nothing else, outside any operation that takes time.
Records(r, s) == Quiet /\ Saves(r, s) /\ UNCHANGED <<tree, canonical, op, cut>>
\* Saves that the operation began.
Starts(r, s, what) == Quiet /\ Saves(r, s) /\ Does(r, what) /\ UNCHANGED <<tree, canonical, cut>>
\* Saves what the operation came to.
Finishes(r, s) == Saves(r, s) /\ op' = NoOp /\ UNCHANGED <<tree, canonical, cut>>

AuthorizeExecution(r) ==
  /\ record[r].execution = "none" /\ record[r].uses # {}
  /\ Records(r, [record[r] EXCEPT !.execution = "authorized", !.baseline = canonical])

PrepareExecution(r) ==
  /\ record[r].execution = "authorized"
  /\ Starts(r, [record[r] EXCEPT !.execution = "preparing"], "prepare")

\* git worktree add of a new branch at the baseline.
Prepared(r) ==
  /\ Doing(r, "prepare")
  /\ Finishes(r, [record[r] EXCEPT !.execution = "ready", !.workspace = "ready"])

StartExecution(r) ==
  /\ record[r].execution = "ready" /\ record[r].workspace = "ready" /\ record[r].run = "none"
  /\ Records(r, [record[r] EXCEPT !.run = "ready"])

ValidateExecution(r) ==
  /\ Runnable(record[r])
  /\ Starts(r, [record[r] EXCEPT !.execution = "validating", !.run = "validating"], "validate")

\* runBoundedValidation and observeBoundedChanges: git diff --check, then the
\* changed paths; either refuses if a branch has left the baseline.
Validated(r) ==
  /\ Doing(r, "validate")
  /\ canonical = record[r].baseline /\ tree[r].head = {}
  /\ \E passed \in BOOLEAN :
       Finishes(r, [record[r] EXCEPT
         !.run = IF passed THEN "passed" ELSE "failed",
         !.execution = IF ~passed THEN "failed"
                       ELSE IF tree[r].written # {} THEN "review_ready" ELSE "validated",
         !.observed = tree[r].written])

\* Slip: the workspace stays as it was.
StopsInPlace(s, state, kept) ==
  [s EXCEPT !.execution = state, !.run = IF @ = "none" THEN @ ELSE state]

\* The workspace and the run of a session that stops, if it has them.
Stopped(s, state, kept) ==
  [s EXCEPT !.execution = state,
            !.workspace = IF @ = "none" THEN @ ELSE kept,
            !.run = IF @ = "none" THEN @ ELSE state]

CancelExecution(r) ==
  /\ record[r].execution \notin {"none", "cancelled", "interrupted"}
  /\ Records(r, Stopped(record[r], "cancelled", "preserved"))

ReconcileExecution(r) ==
  /\ record[r].execution \in {"preparing", "validating"}
  /\ Records(r, Stopped(record[r], "interrupted", "interrupted"))

-----------------------------------------------------------------------------
(* The change: a patch of one file, or a change set of several.              *)

PreviewPatch(r) ==
  /\ "patch" \in record[r].uses /\ Runnable(record[r]) /\ record[r].patch = "none"
  /\ Records(r, [record[r] EXCEPT !.patch = "previewed"])

ApprovePatch(r) ==
  /\ record[r].patch = "previewed"
  /\ Records(r, [record[r] EXCEPT !.patch = "approved"])

\* Neither apply looks at the session's state: a cancelled one may be changed.
ApplyPatch(r) ==
  /\ record[r].patch = "approved" /\ record[r].workspace # "none" /\ record[r].run # "none"
  /\ Starts(r, [record[r] EXCEPT !.patch = "applying"], "patch")

PatchApplied(r) ==
  /\ Doing(r, "patch") /\ IsDone
  /\ Finishes(r, [record[r] EXCEPT !.patch = "applied"])

RollbackPatch(r) ==
  /\ Quiet /\ record[r].patch = "applied" /\ PatchFiles(r) \subseteq tree[r].written
  /\ Does(r, "unpatch") /\ UNCHANGED <<record, tree, canonical, cut>>

PatchRolledBack(r) ==
  /\ Doing(r, "unpatch") /\ IsDone
  /\ Finishes(r, [record[r] EXCEPT !.patch = "rolled_back"])

ReconcilePatch(r) ==
  /\ record[r].patch = "applying"
  /\ Records(r, [record[r] EXCEPT !.patch = "interrupted"])

PreviewChangeSet(r) ==
  /\ "changeSet" \in record[r].uses /\ Runnable(record[r])
  /\ record[r].patch = "none" /\ record[r].changeSet = "none"
  /\ Records(r, [record[r] EXCEPT !.changeSet = "previewed"])

ApproveChangeSet(r) ==
  /\ record[r].changeSet = "previewed"
  /\ Records(r, [record[r] EXCEPT !.changeSet = "approved"])

ApplyChangeSet(r) ==
  /\ record[r].changeSet = "approved"
  /\ Starts(r, [record[r] EXCEPT !.changeSet = "applying"], "changeSet")

ChangeSetApplied(r) ==
  /\ Doing(r, "changeSet") /\ IsDone
  /\ Finishes(r, [record[r] EXCEPT !.changeSet = "applied"])

RollbackChangeSet(r) ==
  /\ Quiet /\ record[r].changeSet = "applied" /\ SetFiles(r) \subseteq tree[r].written
  /\ Does(r, "unset") /\ UNCHANGED <<record, tree, canonical, cut>>

ChangeSetRolledBack(r) ==
  /\ Doing(r, "unset") /\ IsDone
  /\ Finishes(r, [record[r] EXCEPT !.changeSet = "rolled_back"])

\* Slip: what has begun to be written is taken for applied.
ReconcileAsApplied(r) ==
  /\ record[r].changeSet = "applying"
  /\ Records(r, [record[r] EXCEPT
       !.changeSet = IF SetFiles(r) \cap tree[r].written # {} THEN "applied" ELSE "interrupted"])

\* All files as after the change: applied. As before it, or mixed: interrupted.
ReconcileChangeSet(r) ==
  /\ record[r].changeSet = "applying"
  /\ Records(r, [record[r] EXCEPT
       !.changeSet = IF SetFiles(r) \subseteq tree[r].written THEN "applied" ELSE "interrupted"])

\* The files an operation works on, and its work on a worktree: one file at a
\* time in path order, restored in the opposite order.
OpFiles(r) == IF op.doing \in {"patch", "unpatch"} THEN PatchFiles(r) ELSE SetFiles(r)
Writes(r, files) == tree' = [tree EXCEPT ![r].written = files]

WriteFile(r) ==
  /\ op.doing \in {"patch", "changeSet"} /\ Doing(r, op.doing)
  /\ op.stage = "begun" => canonical = record[r].baseline /\ OpFiles(r) \cap tree[r].written = {}
  /\ LET left == OpFiles(r) \ tree[r].written
     IN /\ left # {} /\ Writes(r, tree[r].written \cup {Min(left)})
        /\ op' = [op EXCEPT !.stage = IF Cardinality(left) = 1 THEN "done" ELSE "working"]
  /\ UNCHANGED <<record, canonical, cut>>

RestoreFile(r) ==
  /\ op.doing \in {"unpatch", "unset"} /\ Doing(r, op.doing)
  /\ LET left == OpFiles(r) \cap tree[r].written
     IN /\ left # {} /\ Writes(r, tree[r].written \ {Max(left)})
        /\ op' = [op EXCEPT !.stage = IF Cardinality(left) = 1 THEN "done" ELSE "working"]
  /\ UNCHANGED <<record, canonical, cut>>

-----------------------------------------------------------------------------
(* The proposal: a provider's answer, which may become the change set.       *)

RequestProposal(r) ==
  /\ "proposal" \in record[r].uses /\ Runnable(record[r])
  /\ {record[r].patch, record[r].changeSet, record[r].proposal} = {"none"}
  /\ Records(r, [record[r] EXCEPT !.proposal = "requested"])

BeginProposalGeneration(r) ==
  /\ record[r].proposal = "requested"
  /\ Records(r, [record[r] EXCEPT !.proposal = "generating"])

\* The generator heard from a provider, or from none.
RecordProposalGeneration(r) ==
  /\ record[r].proposal \in {"generating", "deferred", "needs_user"}
  /\ \E state \in {"generating", "deferred", "needs_user"} :
       Records(r, [record[r] EXCEPT !.proposal = state])

ImportProposal(r) ==
  /\ record[r].proposal \in {"requested", "generating"}
  /\ Records(r, [record[r] EXCEPT !.proposal = "review_ready"])

\* Acceptance puts a preview of the proposal where the change set is - whatever
\* is there, and whoever owns the run by now - if its files are as the prompt
\* quoted them.
AcceptProposal(r) ==
  /\ record[r].proposal = "review_ready" /\ record[r].workspace # "none"
  /\ Touches[r]["proposal"] \cap tree[r].written = {}
  /\ Records(r, [record[r] EXCEPT !.proposal = "accepted", !.changeSet = "previewed",
                                  !.from = "proposal"])

RejectProposal(r) ==
  /\ record[r].proposal = "review_ready" /\ record[r].workspace # "none"
  /\ Records(r, [record[r] EXCEPT !.proposal = "rejected"])

ReconcileProposal(r) ==
  /\ record[r].proposal \in {"generating", "interrupted"}
  /\ Records(r, [record[r] EXCEPT !.proposal = "interrupted"])

-----------------------------------------------------------------------------
(* The commit on the worktree's own branch.                                  *)

\* previewIsolatedCommit: every changed path was validated, and the patch's file
\* is among them, or the change set's are all of them.
ChangeIsWhole(r) ==
  /\ tree[r].written # {} /\ tree[r].written \subseteq record[r].observed
  /\ IF HasReceipt(record[r].patch)
     THEN PatchFiles(r) \subseteq tree[r].written
     ELSE tree[r].written = SetFiles(r)

PreviewCommit(r) ==
  /\ record[r].execution = "review_ready" /\ record[r].run = "passed"
  /\ record[r].workspace # "none" /\ record[r].commit = "none"
  /\ (record[r].patch = "applied") # (record[r].changeSet = "applied")
  /\ canonical = record[r].baseline /\ tree[r].head = {} /\ ChangeIsWhole(r)
  /\ Records(r, [record[r] EXCEPT !.commit = "previewed", !.files = tree[r].written])

ApproveCommit(r) ==
  /\ record[r].commit = "previewed"
  /\ Records(r, [record[r] EXCEPT !.commit = "approved"])

CreateCommit(r) ==
  /\ record[r].commit = "approved"
  /\ Starts(r, [record[r] EXCEPT !.commit = "creating"], "commit")

\* The previewed paths are staged; those that differ from HEAD must be all.
Commit(r) ==
  /\ Doing(r, "commit") /\ op.stage = "begun"
  /\ canonical = record[r].baseline /\ tree[r].head = {}
  /\ tree[r].written \cap record[r].files = record[r].files
  /\ tree' = [tree EXCEPT ![r].head = record[r].files] /\ Done
  /\ UNCHANGED <<record, canonical, cut>>

CommitCreated(r) ==
  /\ Doing(r, "commit") /\ IsDone /\ canonical = record[r].baseline
  /\ Finishes(r, [record[r] EXCEPT !.commit = "created"])

UndoCommit(r) ==
  /\ Quiet /\ record[r].commit = "created"
  /\ tree[r].head # {} /\ tree[r].written = tree[r].head
  /\ Does(r, "uncommit") /\ UNCHANGED <<record, tree, canonical, cut>>

Uncommit(r) ==
  /\ Doing(r, "uncommit") /\ op.stage = "begun"
  /\ tree' = [tree EXCEPT ![r].head = {}] /\ Done
  /\ UNCHANGED <<record, canonical, cut>>

CommitUndone(r) ==
  /\ Doing(r, "uncommit") /\ IsDone
  /\ Finishes(r, [record[r] EXCEPT !.commit = "undone"])

ReconcileCommit(r) ==
  /\ record[r].commit = "creating"
  /\ Records(r, [record[r] EXCEPT !.commit = "interrupted"])

-----------------------------------------------------------------------------
(* The integration into the canonical branch.                                *)

PreviewIntegration(r) ==
  /\ record[r].commit = "created" /\ record[r].integration = "none"
  /\ Records(r, [record[r] EXCEPT !.integration = "previewed", !.target = canonical])

ApproveIntegration(r) ==
  /\ record[r].integration = "previewed"
  /\ Records(r, [record[r] EXCEPT !.integration = "approved"])

CreateIntegration(r) ==
  /\ record[r].integration = "approved"
  /\ Starts(r, [record[r] EXCEPT !.integration = "creating"], "integrate")

CherryPick(r) ==
  /\ Doing(r, "integrate") /\ op.stage = "begun" /\ canonical = record[r].target
  /\ canonical' = Append(canonical, [by |-> r, files |-> record[r].files, raced |-> FALSE])
  /\ Done /\ UNCHANGED <<record, tree, cut>>

\* What is at the head must be one commit over the target with the paths
\* previewed; anything else is reset to the target.
OverTarget(r) ==
  /\ canonical # <<>> /\ Front(canonical) = record[r].target
  /\ Last(canonical).files = record[r].files

IntegrationCreated(r) ==
  /\ Doing(r, "integrate") /\ IsDone
  /\ IF OverTarget(r)
     THEN /\ Saves(r, [record[r] EXCEPT !.integration = "created", !.result = canonical])
          /\ canonical' = canonical
     ELSE /\ canonical' = record[r].target
          /\ record' = record
  /\ op' = NoOp /\ UNCHANGED <<tree, cut>>

\* Slip: undo looks only whether its commit is there.
UndoAnyhow(r) ==
  /\ Quiet /\ record[r].integration = "created" /\ IsPrefix(record[r].result, canonical)
  /\ Does(r, "reset") /\ UNCHANGED <<record, tree, canonical, cut>>

UndoIntegration(r) ==
  /\ Quiet /\ record[r].integration = "created" /\ canonical = record[r].result
  /\ Does(r, "reset") /\ UNCHANGED <<record, tree, canonical, cut>>

Reset(r) ==
  /\ Doing(r, "reset") /\ op.stage = "begun"
  /\ canonical' = record[r].target /\ Done
  /\ UNCHANGED <<record, tree, cut>>

IntegrationUndone(r) ==
  /\ Doing(r, "reset") /\ IsDone /\ canonical = record[r].target
  /\ Finishes(r, [record[r] EXCEPT !.integration = "undone"])

\* reconcileLocalIntegration: not started, done - by whoever made the commit
\* over the target - or refused.
ReconcileIntegration(r) ==
  /\ record[r].integration = "creating"
  /\ \/ /\ canonical = record[r].target
        /\ Records(r, [record[r] EXCEPT !.integration = "interrupted"])
     \/ /\ OverTarget(r)
        /\ Records(r, [record[r] EXCEPT !.integration = "created", !.result = canonical])

-----------------------------------------------------------------------------

Undoes == {"unpatch", "unset", "uncommit", "reset"}

\* The process ends, or a command fails and the operation throws: what it saved
\* and what it did stay.
Cut ==
  /\ op # NoOp /\ op' = NoOp
  /\ cut' = (IF op.doing \in Undoes /\ op.stage # "begun"
             THEN cut \cup {<<op.for, op.doing>>} ELSE cut)
  /\ UNCHANGED <<record, tree, canonical>>

\* The owner, or a worker of a project, commits to the canonical branch.
OwnerCommits ==
  /\ Cardinality({r \in Requests : record[r].uses # {}})
       + Cardinality({i \in DOMAIN canonical : canonical[i].by = "owner"}) < CommitLimit
  /\ \E files \in (SUBSET Files) \ {{}} :
       canonical' = Append(canonical,
         [by |-> "owner", files |-> files, raced |-> op.doing \in {"integrate", "reset"}])
  /\ UNCHANGED <<record, tree, op, cut>>

Session(r) ==
  \/ AuthorizeExecution(r) \/ PrepareExecution(r) \/ Prepared(r) \/ StartExecution(r)
  \/ ValidateExecution(r) \/ Validated(r) \/ CancelExecution(r) \/ ReconcileExecution(r)
Change(r) ==
  \/ PreviewPatch(r) \/ ApprovePatch(r) \/ ApplyPatch(r) \/ PatchApplied(r)
  \/ RollbackPatch(r) \/ PatchRolledBack(r) \/ ReconcilePatch(r)
  \/ PreviewChangeSet(r) \/ ApproveChangeSet(r) \/ ApplyChangeSet(r) \/ ChangeSetApplied(r)
  \/ RollbackChangeSet(r) \/ ChangeSetRolledBack(r) \/ ReconcileChangeSet(r)
  \/ WriteFile(r) \/ RestoreFile(r)
Proposal(r) ==
  \/ RequestProposal(r) \/ BeginProposalGeneration(r) \/ RecordProposalGeneration(r)
  \/ ImportProposal(r) \/ AcceptProposal(r) \/ RejectProposal(r) \/ ReconcileProposal(r)
Landing(r) ==
  \/ PreviewCommit(r) \/ ApproveCommit(r) \/ CreateCommit(r) \/ Commit(r) \/ CommitCreated(r)
  \/ UndoCommit(r) \/ Uncommit(r) \/ CommitUndone(r) \/ ReconcileCommit(r)
  \/ PreviewIntegration(r) \/ ApproveIntegration(r) \/ CreateIntegration(r) \/ CherryPick(r)
  \/ IntegrationCreated(r) \/ UndoIntegration(r) \/ Reset(r) \/ IntegrationUndone(r)
  \/ ReconcileIntegration(r)

Next ==
  \/ \E r \in Requests : Session(r) \/ Change(r) \/ Proposal(r) \/ Landing(r)
  \/ Cut \/ OwnerCommits

Spec == Init /\ [][Next]_vars

-----------------------------------------------------------------------------

\* Every variable keeps its type; an operation belongs to a record that says so,
\* or to an undo, which has nothing saved.
TypeOK ==
  /\ \A r \in Requests :
       LET s == record[r]
       IN /\ s.execution \in Executions /\ s.workspace \in {"none", "ready", "preserved", "interrupted"}
          /\ s.run \in {"none", "ready", "validating", "passed", "failed", "cancelled", "interrupted"}
          /\ s.patch \in Changes /\ s.changeSet \in Changes /\ s.from \in Ways
          /\ s.proposal \in Proposals /\ s.commit \in Landings /\ s.integration \in Landings
          /\ s.observed \subseteq Files /\ s.files \subseteq Files
          /\ {s.baseline, s.target, s.result} \subseteq Seq(Commits)
          /\ tree[r].written \subseteq Files /\ tree[r].head \subseteq Files
  /\ canonical \in Seq(Commits) /\ cut \subseteq Requests \X Undoes
  /\ op = NoOp \/
     LET s == record[op.for]
     IN CASE op.doing = "prepare" -> s.execution = "preparing"
          [] op.doing = "validate" -> s.execution = "validating"
          [] op.doing = "patch" -> s.patch = "applying"
          [] op.doing = "changeSet" -> s.changeSet = "applying"
          [] op.doing = "commit" -> s.commit = "creating"
          [] op.doing = "integrate" -> s.integration = "creating"
          [] OTHER -> op.doing \in Undoes

\* local-requests.ts:1026 asserts it of every store it loads.
OneOwnerPerRun == \A r \in Requests : OneOwner(record[r])

\* The run has two owners, the later one still a preview: it was previewed or
\* accepted without a look at the other.
TwoOwners(s) == ~OneOwner(s) /\ "previewed" \in {s.patch, s.changeSet}

\* The preview of an accepted proposal is where the change set and its receipt
\* were that a commit was previewed for.
Replaced(s) == s.proposal = "accepted" /\ s.changeSet = "previewed" /\ s.commit # "none"

\* What one operation saved the next one can load. Each request keeps to what
\* the load asks of it - its session, its run, its proposal, its owners, its
\* commit - but for the two conditions that a preview can break: it may be the
\* run's second owner, and an accepted one may have replaced a commit's change.
StoreStaysReadable ==
  \A r \in Requests :
    LET s == record[r]
    IN /\ WorkspaceFits(s) /\ RunFits(s) /\ ProposalFits(s)
       /\ OneOwner(s) \/ TwoOwners(s)
       /\ CommitFits(s) \/ Replaced(s)

\* local-requests.ts:1125 asserts of every store it loads that a commit has the
\* receipt of the change it was previewed for.
CommitsKeepTheirChange == \A r \in Requests : CommitFits(record[r])

\* r's receipt of its integration is for a commit that somebody else made.
Mistaken(r) == record[r].result # <<>> /\ Last(record[r].result).by # r

\* Between two operations the records tell what the worktrees and the canonical
\* branch hold, after any end of an operation and its reconciliation: a change
\* that is applied, rolled back, committed or integrated is so in all its files
\* and none that was not validated. Exceptions: an undo that ended before its
\* save, and integrations once a request took another's commit for its own.
ChangeIsTrue(r) ==
  LET s == record[r]
  IN /\ s.patch = "applied" /\ <<r, "unpatch">> \notin cut => PatchFiles(r) \subseteq tree[r].written
     /\ s.patch = "rolled_back" => PatchFiles(r) \cap tree[r].written = {}
     /\ s.changeSet = "applied" /\ <<r, "unset">> \notin cut => SetFiles(r) \subseteq tree[r].written
     /\ s.changeSet = "rolled_back" => SetFiles(r) \cap tree[r].written = {}

CommitIsTrue(r) ==
  LET s == record[r]
  IN /\ s.commit = "created" /\ <<r, "uncommit">> \notin cut => tree[r].head = s.files
     /\ s.commit = "undone" => tree[r].head = {}
     /\ tree[r].head # {} =>
          /\ tree[r].head \subseteq s.observed
          /\ tree[r].head = (IF HasReceipt(s.patch) THEN PatchFiles(r) ELSE SetFiles(r))

IntegrationIsTrue(r) ==
  LET s == record[r]
  IN /\ s.integration = "created" /\ <<r, "reset">> \notin cut =>
          \/ IsPrefix(s.result, canonical) /\ Last(s.result).files = s.files
          \/ \E q \in Requests : Mistaken(q)
     /\ s.integration \in {"undone", "interrupted"} =>
          \A i \in DOMAIN canonical : canonical[i].by # r

ReceiptsAreTrue ==
  op = NoOp /\ Readable =>
    \A r \in Requests : ChangeIsTrue(r) /\ CommitIsTrue(r) /\ IntegrationIsTrue(r)

\* No operation takes a commit of others off the canonical branch - but one made
\* while that operation was at work in the folder, or one that reconciliation
\* took for the request's own.
OthersCommitsSurvive ==
  [][\A i \in DOMAIN canonical :
       \/ i \in DOMAIN canonical' /\ canonical'[i] = canonical[i]
       \/ canonical[i].raced \/ canonical[i].by = op.for \/ Mistaken(op.for)]_vars

=============================================================================
