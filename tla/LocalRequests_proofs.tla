------------------------- MODULE LocalRequests_proofs -------------------------
(* Local requests for any number of requests, any files and commits: types,  *)
(* a store that stays readable, receipts that are true, and commits of        *)
(* others that survive.                                                      *)
EXTENDS LocalRequests, FiniteSetTheorems, WellFoundedInduction, TLAPS

-----------------------------------------------------------------------------
(* Sets of files.                                                           *)

LEMMA LeastFile ==
  ASSUME NEW S \in SUBSET Nat, S # {}
  PROVE  Min(S) \in S
<1>1. PICK x \in S : \A y \in S : ~ (<<y, x>> \in OpToRel(<, Nat))
  BY NatLessThanWellFounded, WFMin, Zenon
<1>2. \A y \in S : ~ (y < x)
  BY <1>1, Zenon DEF OpToRel
<1>3. \A y \in S : x <= y
  BY <1>2
<1> QED BY <1>3 DEF Min

LEMMA OnlyFile ==
  ASSUME NEW S \in SUBSET Nat, IsFiniteSet(S), Cardinality(S) = 1
  PROVE  S = {Min(S)} /\ S = {Max(S)}
<1>1. PICK x : S = {x}
  BY FS_Singleton
<1>2. x \in Nat /\ \A y \in S : x <= y /\ x >= y
  BY <1>1
<1>3. Min(S) = x
  BY <1>1, <1>2 DEF Min
<1>4. Max(S) = x
  BY <1>1, <1>2 DEF Max
<1> QED
  BY <1>1, <1>3, <1>4

LEMMA FileTypes ==
  ASSUME NEW r \in Requests, NEW w \in Ways
  PROVE  /\ Touches[r][w] \subseteq Files /\ Touches[r][w] \subseteq Nat
         /\ Touches[r][w] # {} /\ IsFiniteSet(Touches[r][w])
<1>1. Touches[r] \in [Ways -> (SUBSET Nat) \ {{}}]
  BY LocalRequestsAssumption
<1>2. Touches[r][w] \in SUBSET Nat /\ Touches[r][w] # {}
  BY <1>1
<1>3. \A f \in Touches[r][w] : f \in Files
  BY SMT DEF Files
<1> QED
  BY <1>2, <1>3, LocalRequestsAssumption

-----------------------------------------------------------------------------
(* Records: an execution session, and what each way to change one keeps.    *)

Workspaces == {"none", "ready", "preserved", "interrupted"}
Runs == {"none", "ready", "validating", "passed", "failed", "cancelled", "interrupted"}
Doings == {"prepare", "validate", "patch", "changeSet", "commit", "integrate"} \cup Undoes

Sessions ==
  [uses : SUBSET Ways, execution : Executions, workspace : Workspaces, run : Runs,
   baseline : Seq(Commits), observed : SUBSET Files, patch : Changes, changeSet : Changes,
   from : Ways, proposal : Proposals, commit : Landings, files : SUBSET Files,
   integration : Landings, target : Seq(Commits), result : Seq(Commits)]

KeepsSession(s, t) ==
  t.execution = s.execution /\ t.workspace = s.workspace /\ t.run = s.run
  /\ t.observed = s.observed
KeepsChange(s, t) == t.patch = s.patch /\ t.changeSet = s.changeSet /\ t.from = s.from
KeepsProposal(s, t) == t.proposal = s.proposal
KeepsCommit(s, t) == t.commit = s.commit /\ t.files = s.files
KeepsIntegration(s, t) ==
  t.integration = s.integration /\ t.target = s.target /\ t.result = s.result

\* A change of the session, of the change, of the commit, of the integration.
OnlySession(s, t) ==
  t \in Sessions /\ KeepsChange(s, t) /\ KeepsProposal(s, t) /\ KeepsCommit(s, t)
  /\ KeepsIntegration(s, t)
OnlyChange(s, t) ==
  t \in Sessions /\ KeepsSession(s, t) /\ KeepsProposal(s, t) /\ KeepsCommit(s, t)
  /\ KeepsIntegration(s, t)
OnlyProposal(s, t) ==
  t \in Sessions /\ KeepsSession(s, t) /\ KeepsCommit(s, t) /\ KeepsIntegration(s, t)
OnlyCommit(s, t) ==
  t \in Sessions /\ KeepsSession(s, t) /\ KeepsChange(s, t) /\ KeepsProposal(s, t)
  /\ KeepsIntegration(s, t)
OnlyIntegration(s, t) ==
  t \in Sessions /\ KeepsSession(s, t) /\ KeepsChange(s, t) /\ KeepsProposal(s, t)
  /\ KeepsCommit(s, t)

LEMMA StopKeeps ==
  ASSUME NEW s \in Sessions, NEW x \in {"cancelled", "interrupted"},
         NEW k \in {"preserved", "interrupted"}, NEW t, t = Stopped(s, x, k)
  PROVE  /\ t.execution = x
         /\ t.workspace = (IF s.workspace = "none" THEN "none" ELSE k)
         /\ t.run = (IF s.run = "none" THEN "none" ELSE x)
         /\ t.observed = s.observed /\ OnlySession(s, t)
<1> PICK w \in Workspaces : w = IF s.workspace = "none" THEN s.workspace ELSE k
  BY DEF Workspaces, Sessions
<1> PICK u \in Runs : u = IF s.run = "none" THEN s.run ELSE x
  BY DEF Runs, Sessions
<1>1. t = [s EXCEPT !.execution = x, !.workspace = w, !.run = u]
  BY DEF Stopped
<1>2. x \in Executions
  BY DEF Executions
<1> QED
  BY <1>1, <1>2 DEF OnlySession, Sessions, KeepsChange, KeepsProposal, KeepsCommit, KeepsIntegration

-----------------------------------------------------------------------------
(* Types, and what each kind of step does.                                  *)

OpTyped ==
  op = NoOp \/ op \in [doing : Doings, for : Requests, stage : {"begun", "working", "done"}]
Trees == [written : SUBSET Files, head : SUBSET Files]
StateTyped ==
  /\ record \in [Requests -> Sessions] /\ tree \in [Requests -> Trees]
  /\ canonical \in Seq(Commits) /\ cut \subseteq Requests \X Undoes
  /\ OpTyped

\* The record of a request says what is being done to it.
SavedAs(r) ==
  LET s == record[r]
  IN /\ Doing(r, "prepare") => s.execution = "preparing"
     /\ Doing(r, "validate") => s.execution = "validating"
     /\ Doing(r, "patch") => s.patch = "applying"
     /\ Doing(r, "unpatch") => s.patch = "applied"
     /\ Doing(r, "changeSet") => s.changeSet = "applying"
     /\ Doing(r, "unset") => s.changeSet = "applied"
     /\ Doing(r, "commit") => s.commit = "creating"
     /\ Doing(r, "uncommit") => s.commit = "created"
     /\ Doing(r, "integrate") => s.integration = "creating"
     /\ Doing(r, "reset") => s.integration = "created"
Typed == StateTyped /\ \A r \in Requests : SavedAs(r)

Becomes(r, t) == record' = [record EXCEPT ![r] = t]
Frozen == {"review_ready", "cancelled"}

\* The actions by what they save, and those that save nothing.
PatchSaves(r) ==
  \/ PreviewPatch(r) \/ ApprovePatch(r) \/ ApplyPatch(r) \/ PatchApplied(r)
  \/ PatchRolledBack(r) \/ ReconcilePatch(r)
SetSaves(r) ==
  \/ PreviewChangeSet(r) \/ ApproveChangeSet(r) \/ ApplyChangeSet(r) \/ ChangeSetApplied(r)
  \/ ChangeSetRolledBack(r) \/ ReconcileChangeSet(r)
CommitSaves(r) ==
  \/ PreviewCommit(r) \/ ApproveCommit(r) \/ CreateCommit(r) \/ CommitCreated(r)
  \/ CommitUndone(r) \/ ReconcileCommit(r)
IntegrationSaves(r) ==
  \/ PreviewIntegration(r) \/ ApproveIntegration(r) \/ CreateIntegration(r)
  \/ (IntegrationCreated(r) /\ OverTarget(r)) \/ IntegrationUndone(r) \/ ReconcileIntegration(r)
BeginsUndo(r) == RollbackPatch(r) \/ RollbackChangeSet(r) \/ UndoCommit(r) \/ UndoIntegration(r)
GivesUp(r) == IntegrationCreated(r) /\ ~OverTarget(r)

\* A session fits as it did, and one that is over stays over.
MovesSession(s, t) ==
  /\ OnlySession(s, t)
  /\ WorkspaceFits(s) /\ RunFits(s) => WorkspaceFits(t) /\ RunFits(t)
  /\ s.execution \in Frozen => t.execution \in Frozen /\ t.observed = s.observed

LEMMA SessionSteps ==
  ASSUME Typed, NEW r \in Requests, Session(r)
  PROVE  \E t \in Sessions :
           /\ Becomes(r, t) /\ MovesSession(record[r], t) /\ UNCHANGED <<tree, canonical, cut>>
           /\ \/ op' = NoOp
              \/ Quiet /\ Does(r, "prepare") /\ t.execution = "preparing"
              \/ Quiet /\ Does(r, "validate") /\ t.execution = "validating"
<1>0. record[r] \in Sessions /\ tree[r].written \in SUBSET Files
      /\ canonical \in Seq(Commits) /\ SavedAs(r)
  BY DEF Typed, StateTyped, Trees
<1> SUFFICES \E t : /\ Becomes(r, t) /\ MovesSession(record[r], t)
                   /\ UNCHANGED <<tree, canonical, cut>>
                   /\ \/ op' = NoOp
                      \/ Quiet /\ Does(r, "prepare") /\ t.execution = "preparing"
                      \/ Quiet /\ Does(r, "validate") /\ t.execution = "validating"
  BY Zenon DEF MovesSession, OnlySession
<1> USE DEF Records, Starts, Finishes, Saves, Becomes
<1>1. CASE AuthorizeExecution(r)
  <2> PICK t : t = [record[r] EXCEPT !.execution = "authorized", !.baseline = canonical]
    OBVIOUS
  <2>1. /\ t.execution = "authorized" /\ t.workspace = record[r].workspace /\ t.run = record[r].run
        /\ t.observed = record[r].observed /\ OnlySession(record[r], t)
    BY <1>0 DEF Executions, OnlySession, Sessions, KeepsChange, KeepsProposal, KeepsCommit,
       KeepsIntegration
  <2>2. MovesSession(record[r], t)
    BY <1>1, <2>1 DEF MovesSession, AuthorizeExecution, WorkspaceFits, RunFits, Frozen,
       OnlySession, KeepsChange, KeepsProposal, KeepsCommit
  <2> QED
    BY <1>1, <2>2, Zenon DEF AuthorizeExecution, Quiet
<1>2. CASE PrepareExecution(r)
  <2> PICK t : t = [record[r] EXCEPT !.execution = "preparing"]
    OBVIOUS
  <2>1. /\ t.execution = "preparing" /\ t.workspace = record[r].workspace /\ t.run = record[r].run
        /\ t.observed = record[r].observed
        /\ OnlySession(record[r], t)
    BY <1>0 DEF Executions, Workspaces, Runs, OnlySession, Sessions, KeepsChange, KeepsProposal,
       KeepsCommit, KeepsIntegration
  <2>2. MovesSession(record[r], t)
    BY <1>2, <2>1 DEF MovesSession, PrepareExecution, WorkspaceFits, RunFits, Frozen,
       OnlySession, KeepsChange, KeepsProposal, KeepsCommit
  <2> QED
    BY <1>2, <2>1, <2>2, Zenon DEF PrepareExecution, Quiet
<1>3. CASE Prepared(r)
  <2> PICK t : t = [record[r] EXCEPT !.execution = "ready", !.workspace = "ready"]
    OBVIOUS
  <2>1. /\ t.execution = "ready" /\ t.workspace = "ready" /\ t.run = record[r].run
        /\ t.observed = record[r].observed
        /\ OnlySession(record[r], t)
    BY <1>0 DEF Executions, Workspaces, Runs, OnlySession, Sessions, KeepsChange, KeepsProposal,
       KeepsCommit, KeepsIntegration
  <2>2. MovesSession(record[r], t)
    BY <1>3, <2>1, <1>0 DEF MovesSession, Prepared, WorkspaceFits, RunFits, Frozen,
       OnlySession, KeepsChange, KeepsProposal, KeepsCommit, SavedAs
  <2> QED
    BY <1>3, <2>1, <2>2, Zenon DEF Prepared, Quiet
<1>4. CASE StartExecution(r)
  <2> PICK t : t = [record[r] EXCEPT !.run = "ready"]
    OBVIOUS
  <2>1. /\ t.execution = record[r].execution /\ t.workspace = record[r].workspace /\ t.run = "ready"
        /\ t.observed = record[r].observed
        /\ OnlySession(record[r], t)
    BY <1>0 DEF Executions, Workspaces, Runs, OnlySession, Sessions, KeepsChange, KeepsProposal,
       KeepsCommit, KeepsIntegration
  <2>2. MovesSession(record[r], t)
    BY <1>4, <2>1 DEF MovesSession, StartExecution, WorkspaceFits, RunFits, Frozen,
       OnlySession, KeepsChange, KeepsProposal, KeepsCommit
  <2> QED
    BY <1>4, <2>1, <2>2, Zenon DEF StartExecution, Quiet
<1>5. CASE ValidateExecution(r)
  <2> PICK t : t = [record[r] EXCEPT !.execution = "validating", !.run = "validating"]
    OBVIOUS
  <2>1. /\ t.execution = "validating" /\ t.workspace = record[r].workspace /\ t.run = "validating"
        /\ t.observed = record[r].observed
        /\ OnlySession(record[r], t)
    BY <1>0 DEF Executions, Workspaces, Runs, OnlySession, Sessions, KeepsChange, KeepsProposal,
       KeepsCommit, KeepsIntegration
  <2>2. MovesSession(record[r], t)
    BY <1>5, <2>1 DEF MovesSession, ValidateExecution, WorkspaceFits, RunFits, Frozen,
       OnlySession, KeepsChange, KeepsProposal, KeepsCommit, Runnable
  <2> QED
    BY <1>5, <2>1, <2>2, Zenon DEF ValidateExecution, Quiet
<1>6. CASE Validated(r)
  <2>1. PICK passed \in BOOLEAN : Finishes(r, [record[r] EXCEPT
         !.run = IF passed THEN "passed" ELSE "failed",
         !.execution = IF ~passed THEN "failed"
                       ELSE IF tree[r].written # {} THEN "review_ready" ELSE "validated",
         !.observed = tree[r].written])
    BY <1>6, Zenon DEF Validated
  <2> PICK u \in Runs : u = IF passed THEN "passed" ELSE "failed"
    BY DEF Runs
  <2> PICK x \in Executions : x = IF ~passed THEN "failed"
                       ELSE IF tree[r].written # {} THEN "review_ready" ELSE "validated"
    BY DEF Executions
  <2> PICK t : t = [record[r] EXCEPT !.run = u, !.execution = x, !.observed = tree[r].written]
    OBVIOUS
  <2>2. /\ t.execution = x /\ t.workspace = record[r].workspace /\ t.run = u
        /\ t.observed = tree[r].written /\ OnlySession(record[r], t)
    BY <1>0 DEF OnlySession, Sessions, KeepsChange, KeepsProposal, KeepsCommit, KeepsIntegration
  <2>3. record[r].execution = "validating"
    BY <1>0, <1>6 DEF Validated, SavedAs
  <2>4. MovesSession(record[r], t)
    BY <2>2, <2>3 DEF MovesSession, WorkspaceFits, RunFits, Frozen, OnlySession, KeepsChange,
       KeepsProposal, KeepsCommit
  <2> QED
    BY <2>1, <2>4, Zenon
<1>7. CASE CancelExecution(r)
  <2> PICK t : t = Stopped(record[r], "cancelled", "preserved")
    OBVIOUS
  <2>1. /\ t.execution = "cancelled" /\ t.observed = record[r].observed /\ OnlySession(record[r], t)
        /\ t.workspace = IF record[r].workspace = "none" THEN "none" ELSE "preserved"
        /\ t.run = IF record[r].run = "none" THEN "none" ELSE "cancelled"
    BY <1>0, StopKeeps
  <2>2. MovesSession(record[r], t)
    BY <2>1 DEF MovesSession, WorkspaceFits, RunFits, Frozen, OnlySession, KeepsChange,
       KeepsProposal, KeepsCommit
  <2> QED
    BY <1>7, <2>2, Zenon DEF CancelExecution, Quiet
<1>8. CASE ReconcileExecution(r)
  <2> PICK t : t = Stopped(record[r], "interrupted", "interrupted")
    OBVIOUS
  <2>1. /\ t.execution = "interrupted" /\ t.observed = record[r].observed
        /\ OnlySession(record[r], t)
        /\ t.workspace = IF record[r].workspace = "none" THEN "none" ELSE "interrupted"
        /\ t.run = IF record[r].run = "none" THEN "none" ELSE "interrupted"
    BY <1>0, StopKeeps
  <2>2. MovesSession(record[r], t)
    BY <1>8, <2>1 DEF MovesSession, ReconcileExecution, WorkspaceFits, RunFits, Frozen,
       OnlySession, KeepsChange, KeepsProposal, KeepsCommit
  <2> QED
    BY <1>8, <2>2, Zenon DEF ReconcileExecution, Quiet
<1> QED
  BY <1>1, <1>2, <1>3, <1>4, <1>5, <1>6, <1>7, <1>8, Zenon DEF Session

\* A save of the patch.
PatchMoves(r, t) ==
  LET s == record[r]
  IN /\ OnlyChange(s, t) /\ t.changeSet = s.changeSet /\ t.from = s.from
     /\ \/ /\ Quiet /\ op' = NoOp
           /\ \/ s.patch = "none" /\ t.patch = "previewed" /\ Runnable(s)
              \/ s.patch = "previewed" /\ t.patch = "approved"
              \/ s.patch = "applying" /\ t.patch = "interrupted"
        \/ Quiet /\ Does(r, "patch") /\ s.patch = "approved" /\ t.patch = "applying"
        \/ /\ op' = NoOp /\ Doing(r, "patch") /\ IsDone
           /\ s.patch = "applying" /\ t.patch = "applied"
        \/ /\ op' = NoOp /\ Doing(r, "unpatch") /\ IsDone
           /\ s.patch = "applied" /\ t.patch = "rolled_back"

LEMMA PatchSteps ==
  ASSUME Typed, NEW r \in Requests, PatchSaves(r)
  PROVE  \E t \in Sessions :
           /\ Becomes(r, t) /\ PatchMoves(r, t) /\ UNCHANGED <<tree, canonical, cut>>
<1>0. record[r] \in Sessions /\ tree[r].written \in SUBSET Files
      /\ canonical \in Seq(Commits) /\ SavedAs(r)
  BY DEF Typed, StateTyped, Trees
<1> SUFFICES \E t : Becomes(r, t) /\ PatchMoves(r, t) /\ UNCHANGED <<tree, canonical, cut>>
  BY Zenon DEF PatchMoves, OnlyChange
<1> USE DEF Records, Starts, Finishes, Saves, Becomes
<1>1. CASE PreviewPatch(r)
  <2> PICK t : t = [record[r] EXCEPT !.patch = "previewed"]
    OBVIOUS
  <2>1. /\ t.patch = "previewed" /\ t.changeSet = record[r].changeSet /\ t.from = record[r].from
        /\ OnlyChange(record[r], t)
    BY <1>0 DEF Changes, OnlyChange, Sessions, KeepsSession, KeepsProposal, KeepsCommit,
       KeepsIntegration
  <2>2. PatchMoves(r, t)
    BY <1>0, <1>1, <2>1 DEF PatchMoves, PreviewPatch, Quiet, SavedAs
  <2> QED
    BY <1>1, <2>2, Zenon DEF PreviewPatch
<1>2. CASE ApprovePatch(r)
  <2> PICK t : t = [record[r] EXCEPT !.patch = "approved"]
    OBVIOUS
  <2>1. /\ t.patch = "approved" /\ t.changeSet = record[r].changeSet /\ t.from = record[r].from
        /\ OnlyChange(record[r], t)
    BY <1>0 DEF Changes, OnlyChange, Sessions, KeepsSession, KeepsProposal, KeepsCommit,
       KeepsIntegration
  <2>2. PatchMoves(r, t)
    BY <1>0, <1>2, <2>1 DEF PatchMoves, ApprovePatch, Quiet, SavedAs
  <2> QED
    BY <1>2, <2>2, Zenon DEF ApprovePatch
<1>3. CASE ApplyPatch(r)
  <2> PICK t : t = [record[r] EXCEPT !.patch = "applying"]
    OBVIOUS
  <2>1. /\ t.patch = "applying" /\ t.changeSet = record[r].changeSet /\ t.from = record[r].from
        /\ OnlyChange(record[r], t)
    BY <1>0 DEF Changes, OnlyChange, Sessions, KeepsSession, KeepsProposal, KeepsCommit,
       KeepsIntegration
  <2>2. PatchMoves(r, t)
    BY <1>0, <1>3, <2>1 DEF PatchMoves, ApplyPatch, Quiet, SavedAs
  <2> QED
    BY <1>3, <2>2, Zenon DEF ApplyPatch
<1>4. CASE PatchApplied(r)
  <2> PICK t : t = [record[r] EXCEPT !.patch = "applied"]
    OBVIOUS
  <2>1. /\ t.patch = "applied" /\ t.changeSet = record[r].changeSet /\ t.from = record[r].from
        /\ OnlyChange(record[r], t)
    BY <1>0 DEF Changes, OnlyChange, Sessions, KeepsSession, KeepsProposal, KeepsCommit,
       KeepsIntegration
  <2>2. PatchMoves(r, t)
    BY <1>0, <1>4, <2>1 DEF PatchMoves, PatchApplied, Quiet, SavedAs
  <2> QED
    BY <1>4, <2>2, Zenon DEF PatchApplied
<1>5. CASE PatchRolledBack(r)
  <2> PICK t : t = [record[r] EXCEPT !.patch = "rolled_back"]
    OBVIOUS
  <2>1. /\ t.patch = "rolled_back" /\ t.changeSet = record[r].changeSet /\ t.from = record[r].from
        /\ OnlyChange(record[r], t)
    BY <1>0 DEF Changes, OnlyChange, Sessions, KeepsSession, KeepsProposal, KeepsCommit,
       KeepsIntegration
  <2>2. PatchMoves(r, t)
    BY <1>0, <1>5, <2>1 DEF PatchMoves, PatchRolledBack, Quiet, SavedAs
  <2> QED
    BY <1>5, <2>2, Zenon DEF PatchRolledBack
<1>6. CASE ReconcilePatch(r)
  <2> PICK t : t = [record[r] EXCEPT !.patch = "interrupted"]
    OBVIOUS
  <2>1. /\ t.patch = "interrupted" /\ t.changeSet = record[r].changeSet /\ t.from = record[r].from
        /\ OnlyChange(record[r], t)
    BY <1>0 DEF Changes, OnlyChange, Sessions, KeepsSession, KeepsProposal, KeepsCommit,
       KeepsIntegration
  <2>2. PatchMoves(r, t)
    BY <1>0, <1>6, <2>1 DEF PatchMoves, ReconcilePatch, Quiet, SavedAs
  <2> QED
    BY <1>6, <2>2, Zenon DEF ReconcilePatch
<1> QED
  BY <1>1, <1>2, <1>3, <1>4, <1>5, <1>6 DEF PatchSaves

\* A save of the change set.
SetMoves(r, t) ==
  LET s == record[r]
  IN /\ OnlyChange(s, t) /\ t.patch = s.patch /\ t.from = s.from
     /\ \/ /\ Quiet /\ op' = NoOp
           /\ \/ /\ s.patch = "none" /\ s.changeSet = "none" /\ t.changeSet = "previewed"
                 /\ Runnable(s)
              \/ s.changeSet = "previewed" /\ t.changeSet = "approved"
              \/ /\ s.changeSet = "applying" /\ t.changeSet = "applied"
                 /\ SetFiles(r) \subseteq tree[r].written
              \/ s.changeSet = "applying" /\ t.changeSet = "interrupted"
        \/ Quiet /\ Does(r, "changeSet") /\ s.changeSet = "approved" /\ t.changeSet = "applying"
        \/ /\ op' = NoOp /\ Doing(r, "changeSet") /\ IsDone
           /\ s.changeSet = "applying" /\ t.changeSet = "applied"
        \/ /\ op' = NoOp /\ Doing(r, "unset") /\ IsDone
           /\ s.changeSet = "applied" /\ t.changeSet = "rolled_back"

LEMMA ChangeSetSteps ==
  ASSUME Typed, NEW r \in Requests, SetSaves(r)
  PROVE  \E t \in Sessions :
           /\ Becomes(r, t) /\ SetMoves(r, t) /\ UNCHANGED <<tree, canonical, cut>>
<1>0. record[r] \in Sessions /\ tree[r].written \in SUBSET Files
      /\ canonical \in Seq(Commits) /\ SavedAs(r)
  BY DEF Typed, StateTyped, Trees
<1> SUFFICES \E t : Becomes(r, t) /\ SetMoves(r, t) /\ UNCHANGED <<tree, canonical, cut>>
  BY Zenon DEF SetMoves, OnlyChange
<1> USE DEF Records, Starts, Finishes, Saves, Becomes
<1>1. CASE PreviewChangeSet(r)
  <2> PICK t : t = [record[r] EXCEPT !.changeSet = "previewed"]
    OBVIOUS
  <2>1. /\ t.changeSet = ("previewed") /\ t.patch = record[r].patch /\ t.from = record[r].from
        /\ OnlyChange(record[r], t)
    BY <1>0 DEF Changes, OnlyChange, Sessions, KeepsSession, KeepsProposal, KeepsCommit,
       KeepsIntegration
  <2>2. SetMoves(r, t)
    BY <1>0, <1>1, <2>1 DEF SetMoves, PreviewChangeSet, Quiet, SavedAs
  <2> QED
    BY <1>1, <2>2, Zenon DEF PreviewChangeSet
<1>2. CASE ApproveChangeSet(r)
  <2> PICK t : t = [record[r] EXCEPT !.changeSet = "approved"]
    OBVIOUS
  <2>1. /\ t.changeSet = ("approved") /\ t.patch = record[r].patch /\ t.from = record[r].from
        /\ OnlyChange(record[r], t)
    BY <1>0 DEF Changes, OnlyChange, Sessions, KeepsSession, KeepsProposal, KeepsCommit,
       KeepsIntegration
  <2>2. SetMoves(r, t)
    BY <1>0, <1>2, <2>1 DEF SetMoves, ApproveChangeSet, Quiet, SavedAs
  <2> QED
    BY <1>2, <2>2, Zenon DEF ApproveChangeSet
<1>3. CASE ApplyChangeSet(r)
  <2> PICK t : t = [record[r] EXCEPT !.changeSet = "applying"]
    OBVIOUS
  <2>1. /\ t.changeSet = ("applying") /\ t.patch = record[r].patch /\ t.from = record[r].from
        /\ OnlyChange(record[r], t)
    BY <1>0 DEF Changes, OnlyChange, Sessions, KeepsSession, KeepsProposal, KeepsCommit,
       KeepsIntegration
  <2>2. SetMoves(r, t)
    BY <1>0, <1>3, <2>1 DEF SetMoves, ApplyChangeSet, Quiet, SavedAs
  <2> QED
    BY <1>3, <2>2, Zenon DEF ApplyChangeSet
<1>4. CASE ChangeSetApplied(r)
  <2> PICK t : t = [record[r] EXCEPT !.changeSet = "applied"]
    OBVIOUS
  <2>1. /\ t.changeSet = ("applied") /\ t.patch = record[r].patch /\ t.from = record[r].from
        /\ OnlyChange(record[r], t)
    BY <1>0 DEF Changes, OnlyChange, Sessions, KeepsSession, KeepsProposal, KeepsCommit,
       KeepsIntegration
  <2>2. SetMoves(r, t)
    BY <1>0, <1>4, <2>1 DEF SetMoves, ChangeSetApplied, Quiet, SavedAs
  <2> QED
    BY <1>4, <2>2, Zenon DEF ChangeSetApplied
<1>5. CASE ChangeSetRolledBack(r)
  <2> PICK t : t = [record[r] EXCEPT !.changeSet = "rolled_back"]
    OBVIOUS
  <2>1. /\ t.changeSet = ("rolled_back") /\ t.patch = record[r].patch /\ t.from = record[r].from
        /\ OnlyChange(record[r], t)
    BY <1>0 DEF Changes, OnlyChange, Sessions, KeepsSession, KeepsProposal, KeepsCommit,
       KeepsIntegration
  <2>2. SetMoves(r, t)
    BY <1>0, <1>5, <2>1 DEF SetMoves, ChangeSetRolledBack, Quiet, SavedAs
  <2> QED
    BY <1>5, <2>2, Zenon DEF ChangeSetRolledBack
<1>6. CASE ReconcileChangeSet(r)
  <2> PICK t : t = [record[r] EXCEPT !.changeSet = IF SetFiles(r) \subseteq tree[r].written THEN "applied" ELSE "interrupted"]
    OBVIOUS
  <2>1. /\ t.changeSet = (IF SetFiles(r) \subseteq tree[r].written THEN "applied" ELSE "interrupted") /\ t.patch = record[r].patch /\ t.from = record[r].from
        /\ OnlyChange(record[r], t)
    BY <1>0 DEF Changes, OnlyChange, Sessions, KeepsSession, KeepsProposal, KeepsCommit,
       KeepsIntegration
  <2>2. SetMoves(r, t)
    BY <1>0, <1>6, <2>1 DEF SetMoves, ReconcileChangeSet, Quiet, SavedAs
  <2> QED
    BY <1>6, <2>2, Zenon DEF ReconcileChangeSet
<1> QED
  BY <1>1, <1>2, <1>3, <1>4, <1>5, <1>6 DEF SetSaves

\* A save of the proposal.
ProposalMoves(r, t) ==
  LET s == record[r]
  IN /\ OnlyProposal(s, t) /\ Quiet /\ op' = NoOp /\ s.proposal # "accepted"
     /\ \/ /\ KeepsChange(s, t) /\ t.proposal # "accepted"
           /\ s.proposal = "none" => Runnable(s)
        \/ /\ s.proposal = "review_ready" /\ t.proposal = "accepted"
           /\ t.changeSet = "previewed" /\ t.from = "proposal" /\ t.patch = s.patch

LEMMA ProposalSteps ==
  ASSUME Typed, NEW r \in Requests, Proposal(r)
  PROVE  \E t \in Sessions :
           /\ Becomes(r, t) /\ ProposalMoves(r, t) /\ UNCHANGED <<tree, canonical, cut>>
<1>0. record[r] \in Sessions /\ tree[r].written \in SUBSET Files
      /\ canonical \in Seq(Commits) /\ SavedAs(r)
  BY DEF Typed, StateTyped, Trees
<1> SUFFICES \E t : Becomes(r, t) /\ ProposalMoves(r, t) /\ UNCHANGED <<tree, canonical, cut>>
  BY Zenon DEF ProposalMoves, OnlyProposal
<1> USE DEF Records, Starts, Finishes, Saves, Becomes
<1>1. CASE RequestProposal(r)
  <2> PICK t : t = [record[r] EXCEPT !.proposal = "requested"]
    OBVIOUS
  <2>1. /\ t.proposal = "requested" /\ KeepsChange(record[r], t)
        /\ OnlyProposal(record[r], t)
    BY <1>0 DEF Proposals, OnlyProposal, Sessions, KeepsSession, KeepsChange, KeepsCommit,
       KeepsIntegration
  <2>2. ProposalMoves(r, t)
    BY <1>0, <1>1, <2>1 DEF ProposalMoves, RequestProposal, Quiet, SavedAs
  <2> QED
    BY <1>1, <2>2, Zenon DEF RequestProposal
<1>2. CASE BeginProposalGeneration(r)
  <2> PICK t : t = [record[r] EXCEPT !.proposal = "generating"]
    OBVIOUS
  <2>1. /\ t.proposal = "generating" /\ KeepsChange(record[r], t)
        /\ OnlyProposal(record[r], t)
    BY <1>0 DEF Proposals, OnlyProposal, Sessions, KeepsSession, KeepsChange, KeepsCommit,
       KeepsIntegration
  <2>2. ProposalMoves(r, t)
    BY <1>0, <1>2, <2>1 DEF ProposalMoves, BeginProposalGeneration, Quiet, SavedAs
  <2> QED
    BY <1>2, <2>2, Zenon DEF BeginProposalGeneration
<1>3. CASE AcceptProposal(r)
  <2> PICK t : t = [record[r] EXCEPT !.proposal = "accepted", !.changeSet = "previewed", !.from = "proposal"]
    OBVIOUS
  <2>1. /\ t.proposal = "accepted" /\ t.changeSet = "previewed" /\ t.from = "proposal"
        /\ t.patch = record[r].patch
        /\ OnlyProposal(record[r], t)
    BY <1>0 DEF Proposals, Changes, Ways, OnlyProposal, Sessions, KeepsSession, KeepsChange, KeepsCommit,
       KeepsIntegration
  <2>2. ProposalMoves(r, t)
    BY <1>0, <1>3, <2>1 DEF ProposalMoves, AcceptProposal, Quiet, SavedAs
  <2> QED
    BY <1>3, <2>2, Zenon DEF AcceptProposal
<1>4. CASE ImportProposal(r)
  <2> PICK t : t = [record[r] EXCEPT !.proposal = "review_ready"]
    OBVIOUS
  <2>1. /\ t.proposal = "review_ready" /\ KeepsChange(record[r], t)
        /\ OnlyProposal(record[r], t)
    BY <1>0 DEF Proposals, OnlyProposal, Sessions, KeepsSession, KeepsChange, KeepsCommit,
       KeepsIntegration
  <2>2. ProposalMoves(r, t)
    BY <1>0, <1>4, <2>1 DEF ProposalMoves, ImportProposal, Quiet, SavedAs
  <2> QED
    BY <1>4, <2>2, Zenon DEF ImportProposal
<1>5. CASE RejectProposal(r)
  <2> PICK t : t = [record[r] EXCEPT !.proposal = "rejected"]
    OBVIOUS
  <2>1. /\ t.proposal = "rejected" /\ KeepsChange(record[r], t)
        /\ OnlyProposal(record[r], t)
    BY <1>0 DEF Proposals, OnlyProposal, Sessions, KeepsSession, KeepsChange, KeepsCommit,
       KeepsIntegration
  <2>2. ProposalMoves(r, t)
    BY <1>0, <1>5, <2>1 DEF ProposalMoves, RejectProposal, Quiet, SavedAs
  <2> QED
    BY <1>5, <2>2, Zenon DEF RejectProposal
<1>6. CASE ReconcileProposal(r)
  <2> PICK t : t = [record[r] EXCEPT !.proposal = "interrupted"]
    OBVIOUS
  <2>1. /\ t.proposal = "interrupted" /\ KeepsChange(record[r], t)
        /\ OnlyProposal(record[r], t)
    BY <1>0 DEF Proposals, OnlyProposal, Sessions, KeepsSession, KeepsChange, KeepsCommit,
       KeepsIntegration
  <2>2. ProposalMoves(r, t)
    BY <1>0, <1>6, <2>1 DEF ProposalMoves, ReconcileProposal, Quiet, SavedAs
  <2> QED
    BY <1>6, <2>2, Zenon DEF ReconcileProposal
<1>7. CASE RecordProposalGeneration(r)
  <2>1. PICK state \in {"generating", "deferred", "needs_user"} :
          Records(r, [record[r] EXCEPT !.proposal = state])
    BY <1>7, Zenon DEF RecordProposalGeneration
  <2> PICK t : t = [record[r] EXCEPT !.proposal = state]
    OBVIOUS
  <2>2. t.proposal = state /\ KeepsChange(record[r], t) /\ OnlyProposal(record[r], t)
    BY <1>0 DEF Proposals, OnlyProposal, Sessions, KeepsSession, KeepsChange, KeepsCommit,
       KeepsIntegration
  <2>3. ProposalMoves(r, t)
    BY <1>7, <2>1, <2>2 DEF ProposalMoves, RecordProposalGeneration, Quiet
  <2> QED
    BY <2>1, <2>3, Zenon
<1> QED
  BY <1>1, <1>2, <1>3, <1>4, <1>5, <1>6, <1>7, Zenon DEF Proposal

\* A save of the commit.
CommitMoves(r, t) ==
  LET s == record[r]
  IN /\ OnlyCommit(s, t)
     /\ \/ /\ Quiet /\ op' = NoOp /\ s.commit = "none" /\ t.commit = "previewed"
           /\ s.execution = "review_ready" /\ s.run = "passed"
           /\ (s.patch = "applied") # (s.changeSet = "applied")
           /\ tree[r].head = {} /\ ChangeIsWhole(r) /\ t.files = tree[r].written
        \/ /\ t.files = s.files
           /\ \/ Quiet /\ op' = NoOp /\ s.commit = "previewed" /\ t.commit = "approved"
              \/ Quiet /\ op' = NoOp /\ s.commit = "creating" /\ t.commit = "interrupted"
              \/ Quiet /\ Does(r, "commit") /\ s.commit = "approved" /\ t.commit = "creating"
              \/ /\ op' = NoOp /\ Doing(r, "commit") /\ IsDone
                 /\ s.commit = "creating" /\ t.commit = "created"
              \/ /\ op' = NoOp /\ Doing(r, "uncommit") /\ IsDone
                 /\ s.commit = "created" /\ t.commit = "undone"

LEMMA CommitSteps ==
  ASSUME Typed, NEW r \in Requests, CommitSaves(r)
  PROVE  \E t \in Sessions :
           /\ Becomes(r, t) /\ CommitMoves(r, t) /\ UNCHANGED <<tree, canonical, cut>>
<1>0. record[r] \in Sessions /\ tree[r].written \in SUBSET Files
      /\ canonical \in Seq(Commits) /\ SavedAs(r)
  BY DEF Typed, StateTyped, Trees
<1> SUFFICES \E t : Becomes(r, t) /\ CommitMoves(r, t) /\ UNCHANGED <<tree, canonical, cut>>
  BY Zenon DEF CommitMoves, OnlyCommit
<1> USE DEF Records, Starts, Finishes, Saves, Becomes
<1>1. CASE PreviewCommit(r)
  <2> PICK t : t = [record[r] EXCEPT !.commit = "previewed", !.files = tree[r].written]
    OBVIOUS
  <2>1. /\ t.commit = "previewed" /\ t.files = tree[r].written
        /\ OnlyCommit(record[r], t)
    BY <1>0 DEF Landings, OnlyCommit, Sessions, KeepsSession, KeepsChange, KeepsProposal,
       KeepsIntegration
  <2>2. CommitMoves(r, t)
    BY <1>0, <1>1, <2>1 DEF CommitMoves, PreviewCommit, Quiet, SavedAs
  <2> QED
    BY <1>1, <2>2, Zenon DEF PreviewCommit
<1>2. CASE ApproveCommit(r)
  <2> PICK t : t = [record[r] EXCEPT !.commit = "approved"]
    OBVIOUS
  <2>1. /\ t.commit = "approved" /\ t.files = record[r].files
        /\ OnlyCommit(record[r], t)
    BY <1>0 DEF Landings, OnlyCommit, Sessions, KeepsSession, KeepsChange, KeepsProposal,
       KeepsIntegration
  <2>2. CommitMoves(r, t)
    BY <1>0, <1>2, <2>1 DEF CommitMoves, ApproveCommit, Quiet, SavedAs
  <2> QED
    BY <1>2, <2>2, Zenon DEF ApproveCommit
<1>3. CASE CreateCommit(r)
  <2> PICK t : t = [record[r] EXCEPT !.commit = "creating"]
    OBVIOUS
  <2>1. /\ t.commit = "creating" /\ t.files = record[r].files
        /\ OnlyCommit(record[r], t)
    BY <1>0 DEF Landings, OnlyCommit, Sessions, KeepsSession, KeepsChange, KeepsProposal,
       KeepsIntegration
  <2>2. CommitMoves(r, t)
    BY <1>0, <1>3, <2>1 DEF CommitMoves, CreateCommit, Quiet, SavedAs
  <2> QED
    BY <1>3, <2>2, Zenon DEF CreateCommit
<1>4. CASE CommitCreated(r)
  <2> PICK t : t = [record[r] EXCEPT !.commit = "created"]
    OBVIOUS
  <2>1. /\ t.commit = "created" /\ t.files = record[r].files
        /\ OnlyCommit(record[r], t)
    BY <1>0 DEF Landings, OnlyCommit, Sessions, KeepsSession, KeepsChange, KeepsProposal,
       KeepsIntegration
  <2>2. CommitMoves(r, t)
    BY <1>0, <1>4, <2>1 DEF CommitMoves, CommitCreated, Quiet, SavedAs
  <2> QED
    BY <1>4, <2>2, Zenon DEF CommitCreated
<1>5. CASE CommitUndone(r)
  <2> PICK t : t = [record[r] EXCEPT !.commit = "undone"]
    OBVIOUS
  <2>1. /\ t.commit = "undone" /\ t.files = record[r].files
        /\ OnlyCommit(record[r], t)
    BY <1>0 DEF Landings, OnlyCommit, Sessions, KeepsSession, KeepsChange, KeepsProposal,
       KeepsIntegration
  <2>2. CommitMoves(r, t)
    BY <1>0, <1>5, <2>1 DEF CommitMoves, CommitUndone, Quiet, SavedAs
  <2> QED
    BY <1>5, <2>2, Zenon DEF CommitUndone
<1>6. CASE ReconcileCommit(r)
  <2> PICK t : t = [record[r] EXCEPT !.commit = "interrupted"]
    OBVIOUS
  <2>1. /\ t.commit = "interrupted" /\ t.files = record[r].files
        /\ OnlyCommit(record[r], t)
    BY <1>0 DEF Landings, OnlyCommit, Sessions, KeepsSession, KeepsChange, KeepsProposal,
       KeepsIntegration
  <2>2. CommitMoves(r, t)
    BY <1>0, <1>6, <2>1 DEF CommitMoves, ReconcileCommit, Quiet, SavedAs
  <2> QED
    BY <1>6, <2>2, Zenon DEF ReconcileCommit
<1> QED
  BY <1>1, <1>2, <1>3, <1>4, <1>5, <1>6 DEF CommitSaves

\* A save of the integration.
IntegrationMoves(r, t) ==
  LET s == record[r]
  IN /\ OnlyIntegration(s, t)
     /\ \/ /\ Quiet /\ op' = NoOp /\ s.integration = "none" /\ t.integration = "previewed"
           /\ s.commit = "created" /\ t.target = canonical /\ t.result = s.result
        \/ /\ t.target = s.target /\ t.result = s.result
           /\ \/ Quiet /\ op' = NoOp /\ s.integration = "previewed" /\ t.integration = "approved"
              \/ /\ Quiet /\ Does(r, "integrate")
                 /\ s.integration = "approved" /\ t.integration = "creating"
              \/ /\ Quiet /\ op' = NoOp /\ canonical = s.target
                 /\ s.integration = "creating" /\ t.integration = "interrupted"
              \/ /\ op' = NoOp /\ Doing(r, "reset") /\ IsDone /\ canonical = s.target
                 /\ s.integration = "created" /\ t.integration = "undone"
        \/ /\ op' = NoOp /\ s.integration = "creating" /\ t.integration = "created"
           /\ OverTarget(r) /\ t.target = s.target /\ t.result = canonical
           /\ Quiet \/ (Doing(r, "integrate") /\ IsDone)

LEMMA IntegrationSteps ==
  ASSUME Typed, NEW r \in Requests, IntegrationSaves(r)
  PROVE  \E t \in Sessions :
           /\ Becomes(r, t) /\ IntegrationMoves(r, t) /\ UNCHANGED <<tree, canonical, cut>>
<1>0. record[r] \in Sessions /\ tree[r].written \in SUBSET Files
      /\ canonical \in Seq(Commits) /\ SavedAs(r)
  BY DEF Typed, StateTyped, Trees
<1> SUFFICES \E t : Becomes(r, t) /\ IntegrationMoves(r, t) /\ UNCHANGED <<tree, canonical, cut>>
  BY Zenon DEF IntegrationMoves, OnlyIntegration
<1> USE DEF Records, Starts, Finishes, Saves, Becomes
<1>1. CASE PreviewIntegration(r)
  <2> PICK t : t = [record[r] EXCEPT !.integration = "previewed", !.target = canonical]
    OBVIOUS
  <2>1. /\ t.integration = "previewed" /\ t.target = canonical /\ t.result = record[r].result
        /\ OnlyIntegration(record[r], t)
    BY <1>0 DEF Landings, OnlyIntegration, Sessions, KeepsSession, KeepsChange, KeepsProposal,
       KeepsCommit
  <2>2. IntegrationMoves(r, t)
    BY <1>0, <1>1, <2>1 DEF IntegrationMoves, PreviewIntegration, Quiet, SavedAs
  <2> QED
    BY <1>1, <2>2, Zenon DEF PreviewIntegration
<1>2. CASE ApproveIntegration(r)
  <2> PICK t : t = [record[r] EXCEPT !.integration = "approved"]
    OBVIOUS
  <2>1. /\ t.integration = "approved" /\ t.target = record[r].target /\ t.result = record[r].result
        /\ OnlyIntegration(record[r], t)
    BY <1>0 DEF Landings, OnlyIntegration, Sessions, KeepsSession, KeepsChange, KeepsProposal,
       KeepsCommit
  <2>2. IntegrationMoves(r, t)
    BY <1>0, <1>2, <2>1 DEF IntegrationMoves, ApproveIntegration, Quiet, SavedAs
  <2> QED
    BY <1>2, <2>2, Zenon DEF ApproveIntegration
<1>3. CASE CreateIntegration(r)
  <2> PICK t : t = [record[r] EXCEPT !.integration = "creating"]
    OBVIOUS
  <2>1. /\ t.integration = "creating" /\ t.target = record[r].target /\ t.result = record[r].result
        /\ OnlyIntegration(record[r], t)
    BY <1>0 DEF Landings, OnlyIntegration, Sessions, KeepsSession, KeepsChange, KeepsProposal,
       KeepsCommit
  <2>2. IntegrationMoves(r, t)
    BY <1>0, <1>3, <2>1 DEF IntegrationMoves, CreateIntegration, Quiet, SavedAs
  <2> QED
    BY <1>3, <2>2, Zenon DEF CreateIntegration
<1>4. CASE IntegrationCreated(r) /\ OverTarget(r)
  <2> PICK t : t = [record[r] EXCEPT !.integration = "created", !.result = canonical]
    OBVIOUS
  <2>1. /\ t.integration = "created" /\ t.target = record[r].target /\ t.result = canonical
        /\ OnlyIntegration(record[r], t)
    BY <1>0 DEF Landings, OnlyIntegration, Sessions, KeepsSession, KeepsChange, KeepsProposal,
       KeepsCommit
  <2>2. IntegrationMoves(r, t)
    BY <1>0, <1>4, <2>1 DEF IntegrationMoves, IntegrationCreated, Quiet, SavedAs
  <2> QED
    BY <1>4, <2>2, Zenon DEF IntegrationCreated
<1>5. CASE IntegrationUndone(r)
  <2> PICK t : t = [record[r] EXCEPT !.integration = "undone"]
    OBVIOUS
  <2>1. /\ t.integration = "undone" /\ t.target = record[r].target /\ t.result = record[r].result
        /\ OnlyIntegration(record[r], t)
    BY <1>0 DEF Landings, OnlyIntegration, Sessions, KeepsSession, KeepsChange, KeepsProposal,
       KeepsCommit
  <2>2. IntegrationMoves(r, t)
    BY <1>0, <1>5, <2>1 DEF IntegrationMoves, IntegrationUndone, Quiet, SavedAs
  <2> QED
    BY <1>5, <2>2, Zenon DEF IntegrationUndone
<1>6. CASE /\ ReconcileIntegration(r) /\ canonical = record[r].target
           /\ Records(r, [record[r] EXCEPT !.integration = "interrupted"])
  <2> PICK t : t = [record[r] EXCEPT !.integration = "interrupted"]
    OBVIOUS
  <2>1. /\ t.integration = "interrupted" /\ t.target = record[r].target /\ t.result = record[r].result
        /\ OnlyIntegration(record[r], t)
    BY <1>0 DEF Landings, OnlyIntegration, Sessions, KeepsSession, KeepsChange, KeepsProposal,
       KeepsCommit
  <2>2. IntegrationMoves(r, t)
    BY <1>0, <1>6, <2>1 DEF IntegrationMoves, ReconcileIntegration, Quiet, SavedAs
  <2> QED
    BY <1>6, <2>2, Zenon DEF ReconcileIntegration
<1>7. CASE /\ ReconcileIntegration(r) /\ OverTarget(r)
           /\ Records(r, [record[r] EXCEPT !.integration = "created", !.result = canonical])
  <2> PICK t : t = [record[r] EXCEPT !.integration = "created", !.result = canonical]
    OBVIOUS
  <2>1. /\ t.integration = "created" /\ t.target = record[r].target /\ t.result = canonical
        /\ OnlyIntegration(record[r], t)
    BY <1>0 DEF Landings, OnlyIntegration, Sessions, KeepsSession, KeepsChange, KeepsProposal,
       KeepsCommit
  <2>2. IntegrationMoves(r, t)
    BY <1>0, <1>7, <2>1 DEF IntegrationMoves, ReconcileIntegration, Quiet, SavedAs
  <2> QED
    BY <1>7, <2>2, Zenon DEF ReconcileIntegration
<1> QED
  BY <1>1, <1>2, <1>3, <1>4, <1>5, <1>6, <1>7, Zenon DEF IntegrationSaves, ReconcileIntegration

-----------------------------------------------------------------------------
(* Operations and the files they work on.                                   *)

Ops == [doing : Doings, for : Requests, stage : {"begun", "working", "done"}]

LEMMA OpGoesOn ==
  ASSUME OpTyped, op # NoOp, NEW x \in {"begun", "working", "done"}, op' = [op EXCEPT !.stage = x]
  PROVE  /\ op' \in Ops /\ op' # NoOp /\ op'.stage = x /\ op'.doing = op.doing /\ op'.for = op.for
         /\ OpTyped'
<1>1. op \in Ops
  BY DEF OpTyped, Ops
<1>2. op' \in Ops /\ op'.stage = x /\ op'.doing = op.doing /\ op'.for = op.for
  BY <1>1 DEF Ops
<1>3. op' # NoOp
  BY <1>2 DEF Ops, Doings, Undoes, NoOp
<1> QED
  BY <1>2, <1>3 DEF OpTyped, Ops

LEMMA OpBegins ==
  ASSUME NEW r \in Requests, NEW d \in Doings, Does(r, d)
  PROVE  /\ op' \in Ops /\ op' # NoOp /\ op'.stage = "begun" /\ op'.doing = d /\ op'.for = r
         /\ OpTyped'
<1>1. op' \in Ops /\ op'.stage = "begun" /\ op'.doing = d /\ op'.for = r
  BY DEF Does, Ops
<1>2. op' # NoOp
  BY <1>1 DEF Ops, Doings, Undoes, NoOp
<1> QED
  BY <1>1, <1>2 DEF OpTyped, Ops

LEMMA NothingIsDone ==
  ASSUME NEW r, NEW d, d # "nothing"
  PROVE  Doing(r, d) => op # NoOp
BY DEF Doing, NoOp

LEMMA WorkIsUnderWay ==
  ASSUME NEW r \in Requests,
         WriteFile(r) \/ RestoreFile(r) \/ Commit(r) \/ Uncommit(r) \/ CherryPick(r) \/ Reset(r)
  PROVE  op # NoOp
BY DEF WriteFile, RestoreFile, Commit, Uncommit, CherryPick, Reset, Doing, NoOp

LEMMA OpFilesTyped ==
  ASSUME StateTyped, NEW r \in Requests
  PROVE  /\ PatchFiles(r) \in SUBSET Files /\ PatchFiles(r) \subseteq Nat
         /\ SetFiles(r) \in SUBSET Files /\ SetFiles(r) \subseteq Nat
         /\ OpFiles(r) \in SUBSET Files /\ OpFiles(r) \subseteq Nat
         /\ IsFiniteSet(OpFiles(r)) /\ PatchFiles(r) # {} /\ SetFiles(r) # {}
<1>1. "patch" \in Ways /\ record[r].from \in Ways
  BY DEF StateTyped, Sessions, Ways
<1>2. OpFiles(r) = PatchFiles(r) \/ OpFiles(r) = SetFiles(r)
  BY DEF OpFiles
<1> QED
  BY <1>1, <1>2, FileTypes DEF PatchFiles, SetFiles

\* Writing adds a file of the operation, and the last one makes them all.
LEMMA WriteFileWorks ==
  ASSUME StateTyped, NEW r \in Requests, WriteFile(r)
  PROVE  /\ \E W \in SUBSET Files :
              /\ tree' = [tree EXCEPT ![r].written = W]
              /\ tree[r].written \subseteq W /\ W \subseteq tree[r].written \cup OpFiles(r)
              /\ op'.stage = "done" => OpFiles(r) \subseteq W
         /\ op' # NoOp /\ OpTyped' /\ op'.doing = op.doing /\ op'.for = op.for
         /\ op.for = r /\ op.doing \in {"patch", "changeSet"}
         /\ UNCHANGED <<record, canonical, cut>>
<1>1. /\ op.doing \in {"patch", "changeSet"} /\ op.for = r /\ op # NoOp /\ OpTyped
      /\ UNCHANGED <<record, canonical, cut>>
  BY WorkIsUnderWay DEF WriteFile, Doing, StateTyped
<1> PICK left : left = OpFiles(r) \ tree[r].written
  OBVIOUS
<1>2. /\ left # {} /\ tree' = [tree EXCEPT ![r].written = tree[r].written \cup {Min(left)}]
      /\ op' = [op EXCEPT !.stage = IF Cardinality(left) = 1 THEN "done" ELSE "working"]
  BY DEF WriteFile, Writes
<1> PICK W : W = tree[r].written \cup {Min(left)}
  OBVIOUS
<1>3. left \in SUBSET Nat /\ left \subseteq Files /\ IsFiniteSet(left)
  BY OpFilesTyped, FS_Subset
<1>4. Min(left) \in left
  BY <1>2, <1>3, LeastFile
<1>5. W \in SUBSET Files /\ tree[r].written \subseteq W /\ W \subseteq tree[r].written \cup OpFiles(r)
  BY <1>3, <1>4 DEF StateTyped, Trees
<1> PICK x : x = IF Cardinality(left) = 1 THEN "done" ELSE "working"
  OBVIOUS
<1>6. /\ op' # NoOp /\ OpTyped' /\ op'.doing = op.doing /\ op'.for = op.for /\ op'.stage = x
  BY <1>1, <1>2, OpGoesOn
<1>7. x = "done" => left = {Min(left)}
  BY <1>3, OnlyFile
<1>8. op'.stage = "done" => OpFiles(r) \subseteq W
  BY <1>6, <1>7
<1> QED
  BY <1>1, <1>2, <1>5, <1>6, <1>8

\* Restoring takes one off, and the last one leaves none.
LEMMA RestoreFileWorks ==
  ASSUME StateTyped, NEW r \in Requests, RestoreFile(r)
  PROVE  /\ \E W \in SUBSET Files :
              /\ tree' = [tree EXCEPT ![r].written = W]
              /\ W \subseteq tree[r].written
              /\ op'.stage = "done" => OpFiles(r) \cap W = {}
         /\ op' # NoOp /\ OpTyped' /\ op'.doing = op.doing /\ op'.for = op.for
         /\ op'.stage # "begun"
         /\ op.for = r /\ op.doing \in {"unpatch", "unset"}
         /\ UNCHANGED <<record, canonical, cut>>
<1>1. /\ op.doing \in {"unpatch", "unset"} /\ op.for = r /\ op # NoOp /\ OpTyped
      /\ UNCHANGED <<record, canonical, cut>>
  BY WorkIsUnderWay DEF RestoreFile, Doing, StateTyped
<1> PICK left : left = OpFiles(r) \cap tree[r].written
  OBVIOUS
<1>2. /\ tree' = [tree EXCEPT ![r].written = tree[r].written \ {Max(left)}]
      /\ op' = [op EXCEPT !.stage = IF Cardinality(left) = 1 THEN "done" ELSE "working"]
  BY DEF RestoreFile, Writes
<1> PICK W : W = tree[r].written \ {Max(left)}
  OBVIOUS
<1>3. left \in SUBSET Nat /\ IsFiniteSet(left)
  BY OpFilesTyped, FS_Subset
<1>4. W \in SUBSET Files /\ W \subseteq tree[r].written
  BY DEF StateTyped, Trees
<1> PICK x : x = IF Cardinality(left) = 1 THEN "done" ELSE "working"
  OBVIOUS
<1>5. /\ op' # NoOp /\ OpTyped' /\ op'.doing = op.doing /\ op'.for = op.for /\ op'.stage = x
  BY <1>1, <1>2, OpGoesOn
<1>6. x = "done" => left = {Max(left)}
  BY <1>3, OnlyFile
<1>7. op'.stage = "done" => OpFiles(r) \cap W = {}
  BY <1>5, <1>6
<1> QED
  BY <1>1, <1>2, <1>4, <1>5, <1>7

LEMMA BeginsUndoWorks ==
  ASSUME NEW r \in Requests, BeginsUndo(r)
  PROVE  /\ Quiet /\ UNCHANGED <<record, tree, canonical, cut>>
         /\ \/ Does(r, "unpatch") /\ record[r].patch = "applied"
            \/ Does(r, "unset") /\ record[r].changeSet = "applied"
            \/ Does(r, "uncommit") /\ record[r].commit = "created"
            \/ /\ Does(r, "reset") /\ record[r].integration = "created"
               /\ canonical = record[r].result
BY DEF BeginsUndo, RollbackPatch, RollbackChangeSet, UndoCommit, UndoIntegration

\* A commit, its undo, a cherry-pick and a reset are the work of one step.
LEMMA DoneWorks ==
  ASSUME StateTyped, NEW r \in Requests, Commit(r) \/ Uncommit(r) \/ CherryPick(r) \/ Reset(r)
  PROVE  /\ op' # NoOp /\ OpTyped' /\ op'.doing = op.doing /\ op'.for = op.for
         /\ op'.stage = "done" /\ op.stage = "begun" /\ op.for = r /\ UNCHANGED <<record, cut>>
<1>1. Done /\ op # NoOp /\ op.stage = "begun" /\ op.for = r /\ UNCHANGED <<record, cut>>
  BY WorkIsUnderWay DEF Commit, Uncommit, CherryPick, Reset, Doing
<1> QED
  BY <1>1, OpGoesOn DEF Done, StateTyped

LEMMA StepKinds ==
  ASSUME [Next]_vars
  PROVE  \/ UNCHANGED vars \/ Cut \/ OwnerCommits
         \/ \E r \in Requests :
              \/ Session(r) \/ PatchSaves(r) \/ SetSaves(r) \/ Proposal(r) \/ CommitSaves(r)
              \/ IntegrationSaves(r) \/ BeginsUndo(r) \/ WriteFile(r) \/ RestoreFile(r)
              \/ Commit(r) \/ Uncommit(r) \/ CherryPick(r) \/ Reset(r) \/ GivesUp(r)
BY DEF Next, Change, Landing, PatchSaves, SetSaves, CommitSaves, IntegrationSaves, BeginsUndo,
   GivesUp

-----------------------------------------------------------------------------
(* Types.                                                                   *)

LEMMA SavedTyped ==
  ASSUME StateTyped, NEW r \in Requests, NEW t \in Sessions, Becomes(r, t),
         UNCHANGED <<tree, canonical, cut>>, OpTyped'
  PROVE  StateTyped'
<1>1. record' \in [Requests -> Sessions]
  BY DEF StateTyped, Becomes
<1> QED
  BY <1>1 DEF StateTyped

LEMMA NextStateTyped ==
  ASSUME Typed, [Next]_vars
  PROVE  StateTyped'
<1>0. StateTyped /\ OpTyped
  BY DEF Typed, StateTyped
<1>1. CASE UNCHANGED vars
  BY <1>0, <1>1 DEF StateTyped, OpTyped, vars
<1>2. CASE Cut
  <2>1. cut' \subseteq Requests \X Undoes
    <3>1. CASE op.doing \in Undoes /\ op.stage # "begun"
      <4>1. op.for \in Requests
        BY <1>0, <1>2 DEF Cut, OpTyped
      <4>2. <<op.for, op.doing>> \in Requests \X Undoes
        BY <3>1, <4>1
      <4>3. cut' = cut \cup {<<op.for, op.doing>>}
        BY <1>2, <3>1 DEF Cut
      <4> QED
        BY <1>0, <4>2, <4>3 DEF StateTyped
    <3>2. CASE ~(op.doing \in Undoes /\ op.stage # "begun")
      BY <1>0, <1>2, <3>2 DEF Cut, StateTyped
    <3> QED
      BY <3>1, <3>2
  <2>2. OpTyped' /\ UNCHANGED <<record, tree, canonical>>
    BY <1>2 DEF Cut, OpTyped
  <2> QED
    BY <1>0, <2>1, <2>2 DEF StateTyped
<1>3. CASE OwnerCommits
  <2>1. PICK files \in SUBSET Files, raced \in BOOLEAN :
          canonical' = Append(canonical, [by |-> "owner", files |-> files, raced |-> raced])
    <3>1. PICK files \in (SUBSET Files) \ {{}} :
            canonical' = Append(canonical,
              [by |-> "owner", files |-> files, raced |-> op.doing \in {"integrate", "reset"}])
      BY <1>3 DEF OwnerCommits
    <3>2. (op.doing \in {"integrate", "reset"}) \in BOOLEAN
      OBVIOUS
    <3>3. files \in SUBSET Files
      OBVIOUS
    <3> QED
      BY <3>1, <3>2, <3>3, Zenon
  <2>2. [by |-> "owner", files |-> files, raced |-> raced] \in Commits
    BY DEF Commits
  <2>3. canonical' \in Seq(Commits)
    BY <1>0, <2>1, <2>2 DEF StateTyped
  <2> QED
    BY <1>0, <1>3, <2>3 DEF OwnerCommits, StateTyped, OpTyped
<1>4. ASSUME NEW r \in Requests, Session(r)
      PROVE  StateTyped'
  <2>1. OpTyped'
    BY <1>4, SessionSteps, OpBegins DEF OpTyped, Doings
  <2> QED
    BY <1>0, <1>4, <2>1, SessionSteps, SavedTyped
<1>5. ASSUME NEW r \in Requests, PatchSaves(r)
      PROVE  StateTyped'
  <2>1. PICK t \in Sessions : Becomes(r, t) /\ PatchMoves(r, t) /\ UNCHANGED <<tree, canonical, cut>>
    BY <1>5, PatchSteps
  <2>2. OpTyped'
    BY <2>1, OpBegins DEF PatchMoves, OpTyped, Doings
  <2> QED
    BY <1>0, <2>1, <2>2, SavedTyped
<1>6. ASSUME NEW r \in Requests, SetSaves(r)
      PROVE  StateTyped'
  <2>1. PICK t \in Sessions : Becomes(r, t) /\ SetMoves(r, t) /\ UNCHANGED <<tree, canonical, cut>>
    BY <1>6, ChangeSetSteps
  <2>2. OpTyped'
    BY <2>1, OpBegins DEF SetMoves, OpTyped, Doings
  <2> QED
    BY <1>0, <2>1, <2>2, SavedTyped
<1>7. ASSUME NEW r \in Requests, Proposal(r)
      PROVE  StateTyped'
  <2>1. PICK t \in Sessions :
          Becomes(r, t) /\ ProposalMoves(r, t) /\ UNCHANGED <<tree, canonical, cut>>
    BY <1>7, ProposalSteps
  <2>2. OpTyped'
    BY <2>1 DEF ProposalMoves, OpTyped
  <2> QED
    BY <1>0, <2>1, <2>2, SavedTyped
<1>8. ASSUME NEW r \in Requests, CommitSaves(r)
      PROVE  StateTyped'
  <2>1. PICK t \in Sessions :
          Becomes(r, t) /\ CommitMoves(r, t) /\ UNCHANGED <<tree, canonical, cut>>
    BY <1>8, CommitSteps
  <2>2. OpTyped'
    BY <2>1, OpBegins DEF CommitMoves, OpTyped, Doings
  <2> QED
    BY <1>0, <2>1, <2>2, SavedTyped
<1>9. ASSUME NEW r \in Requests, IntegrationSaves(r)
      PROVE  StateTyped'
  <2>1. PICK t \in Sessions :
          Becomes(r, t) /\ IntegrationMoves(r, t) /\ UNCHANGED <<tree, canonical, cut>>
    BY <1>9, IntegrationSteps
  <2>2. OpTyped'
    BY <2>1, OpBegins DEF IntegrationMoves, OpTyped, Doings
  <2> QED
    BY <1>0, <2>1, <2>2, SavedTyped
<1>10. ASSUME NEW r \in Requests, BeginsUndo(r)
       PROVE  StateTyped'
  <2>1. OpTyped' /\ UNCHANGED <<record, tree, canonical, cut>>
    BY <1>10, BeginsUndoWorks, OpBegins DEF Doings, Undoes
  <2> QED
    BY <1>0, <2>1 DEF StateTyped
<1>11. ASSUME NEW r \in Requests, WriteFile(r) \/ RestoreFile(r)
       PROVE  StateTyped'
  <2>1. PICK W \in SUBSET Files : tree' = [tree EXCEPT ![r].written = W]
    BY <1>0, <1>11, WriteFileWorks, RestoreFileWorks
  <2>2. OpTyped' /\ UNCHANGED <<record, canonical, cut>>
    BY <1>0, <1>11, WriteFileWorks, RestoreFileWorks
  <2>3. tree' \in [Requests -> Trees]
    BY <1>0, <2>1 DEF StateTyped, Trees
  <2> QED
    BY <1>0, <2>2, <2>3 DEF StateTyped
<1>12. ASSUME NEW r \in Requests, Commit(r) \/ Uncommit(r)
       PROVE  StateTyped'
  <2>1. PICK H \in SUBSET Files : tree' = [tree EXCEPT ![r].head = H]
    BY <1>0, <1>12 DEF Commit, Uncommit, StateTyped, Sessions
  <2>2. OpTyped' /\ UNCHANGED <<record, canonical, cut>>
    BY <1>0, <1>12, DoneWorks DEF Commit, Uncommit
  <2>3. tree' \in [Requests -> Trees]
    BY <1>0, <2>1 DEF StateTyped, Trees
  <2> QED
    BY <1>0, <2>2, <2>3 DEF StateTyped
<1>13. ASSUME NEW r \in Requests, CherryPick(r) \/ Reset(r)
       PROVE  StateTyped'
  <2>1. record[r].files \in SUBSET Files /\ record[r].target \in Seq(Commits)
    BY <1>0 DEF StateTyped, Sessions
  <2>2. [by |-> r, files |-> record[r].files, raced |-> FALSE] \in Commits
    BY <2>1 DEF Commits
  <2>3. PICK c \in Commits : c = [by |-> r, files |-> record[r].files, raced |-> FALSE]
    BY <2>2
  <2>4. canonical' = Append(canonical, c) \/ canonical' = record[r].target
    BY <1>13, <2>3 DEF CherryPick, Reset
  <2>5. canonical' \in Seq(Commits)
    BY <1>0, <2>1, <2>4 DEF StateTyped
  <2>6. OpTyped' /\ UNCHANGED <<record, tree, cut>>
    BY <1>0, <1>13, DoneWorks DEF CherryPick, Reset
  <2> QED
    BY <1>0, <2>5, <2>6 DEF StateTyped
<1>14. ASSUME NEW r \in Requests, GivesUp(r)
       PROVE  StateTyped'
  <2>1. canonical' = record[r].target /\ op' = NoOp /\ UNCHANGED <<record, tree, cut>>
    BY <1>14 DEF GivesUp, IntegrationCreated
  <2>2. record[r].target \in Seq(Commits)
    BY <1>0 DEF StateTyped, Sessions
  <2> QED
    BY <1>0, <2>1, <2>2 DEF StateTyped, OpTyped
<1> QED
  BY <1>1, <1>2, <1>3, <1>4, <1>5, <1>6, <1>7, <1>8, <1>9, <1>10, <1>11, <1>12, <1>13, <1>14,
     StepKinds

\* An operation under way concerns the record as it was when it began.
LEMMA SavedAsStays ==
  ASSUME Typed, UNCHANGED record, op' = NoOp \/ (op'.doing = op.doing /\ op'.for = op.for)
  PROVE  \A q \in Requests : SavedAs(q)'
<1>1. CASE op' = NoOp
  BY <1>1 DEF SavedAs, Doing, NoOp
<1>2. CASE op'.doing = op.doing /\ op'.for = op.for
  BY <1>2 DEF Typed, SavedAs, Doing
<1> QED
  BY <1>1, <1>2

LEMMA SavedAsEnds ==
  ASSUME op' = NoOp
  PROVE  \A q \in Requests : SavedAs(q)'
BY DEF SavedAs, Doing, NoOp

LEMMA NextSavedAs ==
  ASSUME Typed, [Next]_vars
  PROVE  \A q \in Requests : SavedAs(q)'
<1>0. StateTyped
  BY DEF Typed
<1> USE DEF Becomes
<1>1. CASE UNCHANGED vars \/ Cut \/ OwnerCommits
  BY <1>1, SavedAsStays, SavedAsEnds DEF vars, Cut, OwnerCommits
<1>2. ASSUME NEW r \in Requests, NEW t \in Sessions, Becomes(r, t), op' # NoOp,
             \/ Does(r, "prepare") /\ t.execution = "preparing"
             \/ Does(r, "validate") /\ t.execution = "validating"
             \/ Does(r, "patch") /\ t.patch = "applying"
             \/ Does(r, "changeSet") /\ t.changeSet = "applying"
             \/ Does(r, "commit") /\ t.commit = "creating"
             \/ Does(r, "integrate") /\ t.integration = "creating"
      PROVE  \A q \in Requests : SavedAs(q)'
  <2>1. record'[r] = t
    BY <1>0, <1>2 DEF StateTyped
  <2> QED
    BY <1>2, <2>1 DEF SavedAs, Doing, Does
<1>3. ASSUME NEW r \in Requests, Session(r)
      PROVE  \A q \in Requests : SavedAs(q)'
  BY <1>2, <1>3, SessionSteps, SavedAsEnds
<1>4. ASSUME NEW r \in Requests, PatchSaves(r)
      PROVE  \A q \in Requests : SavedAs(q)'
  BY <1>2, <1>4, PatchSteps, SavedAsEnds DEF PatchMoves
<1>5. ASSUME NEW r \in Requests, SetSaves(r)
      PROVE  \A q \in Requests : SavedAs(q)'
  BY <1>2, <1>5, ChangeSetSteps, SavedAsEnds DEF SetMoves
<1>6. ASSUME NEW r \in Requests, Proposal(r)
      PROVE  \A q \in Requests : SavedAs(q)'
  BY <1>6, ProposalSteps, SavedAsEnds DEF ProposalMoves
<1>7. ASSUME NEW r \in Requests, CommitSaves(r)
      PROVE  \A q \in Requests : SavedAs(q)'
  BY <1>2, <1>7, CommitSteps, SavedAsEnds DEF CommitMoves
<1>8. ASSUME NEW r \in Requests, IntegrationSaves(r)
      PROVE  \A q \in Requests : SavedAs(q)'
  BY <1>2, <1>8, IntegrationSteps, SavedAsEnds DEF IntegrationMoves
<1>9. ASSUME NEW r \in Requests, BeginsUndo(r)
      PROVE  \A q \in Requests : SavedAs(q)'
  BY <1>9, BeginsUndoWorks DEF SavedAs, Doing, Does
<1>10. ASSUME NEW r \in Requests, WriteFile(r) \/ RestoreFile(r)
       PROVE  \A q \in Requests : SavedAs(q)'
  BY <1>0, <1>10, WriteFileWorks, RestoreFileWorks, SavedAsStays
<1>11. ASSUME NEW r \in Requests, Commit(r) \/ Uncommit(r) \/ CherryPick(r) \/ Reset(r)
       PROVE  \A q \in Requests : SavedAs(q)'
  BY <1>0, <1>11, DoneWorks, SavedAsStays
<1>12. ASSUME NEW r \in Requests, GivesUp(r)
       PROVE  \A q \in Requests : SavedAs(q)'
  BY <1>12, SavedAsEnds DEF GivesUp, IntegrationCreated
<1> QED
  BY <1>1, <1>3, <1>4, <1>5, <1>6, <1>7, <1>8, <1>9, <1>10, <1>11, <1>12, StepKinds

LEMMA InitTyped == Init => Typed
<1> SUFFICES ASSUME Init PROVE Typed
  OBVIOUS
<1>1. record \in [Requests -> Sessions]
  <2>1. PICK habit \in Habits : record = [r \in Requests |-> [NoSession EXCEPT !.uses = habit[r]]]
    BY DEF Init
  <2>2. NoSession \in Sessions
    <3>1. <<>> \in Seq(Commits) /\ {} \in SUBSET Files /\ {} \in SUBSET Ways
      OBVIOUS
    <3>2. /\ "none" \in Executions /\ "none" \in Workspaces /\ "none" \in Runs /\ "none" \in Changes
          /\ "changeSet" \in Ways /\ "none" \in Proposals /\ "none" \in Landings
      BY DEF Executions, Workspaces, Runs, Changes, Ways, Proposals, Landings
    <3> QED
      BY <3>1, <3>2 DEF NoSession, Sessions
  <2>3. habit \in [Requests -> SUBSET Ways]
    BY LocalRequestsAssumption
  <2>4. \A r \in Requests : [NoSession EXCEPT !.uses = habit[r]] \in Sessions
    BY <2>2, <2>3 DEF Sessions
  <2> QED
    BY <2>1, <2>4
<1>2. tree \in [Requests -> Trees]
  BY DEF Init, Trees
<1>3. canonical \in Seq(Commits) /\ cut \subseteq Requests \X Undoes /\ OpTyped
  BY DEF Init, OpTyped
<1>4. \A r \in Requests : SavedAs(r)
  BY DEF Init, SavedAs, Doing, NoOp
<1> QED
  BY <1>1, <1>2, <1>3, <1>4 DEF Typed, StateTyped

LEMMA TypedIsTypeOK == Typed => TypeOK
<1> SUFFICES ASSUME Typed PROVE TypeOK
  OBVIOUS
<1>1. ASSUME NEW r \in Requests
      PROVE  LET s == record[r]
             IN /\ s.execution \in Executions /\ s.workspace \in Workspaces /\ s.run \in Runs
                /\ s.patch \in Changes /\ s.changeSet \in Changes /\ s.from \in Ways
                /\ s.proposal \in Proposals /\ s.commit \in Landings /\ s.integration \in Landings
                /\ s.observed \subseteq Files /\ s.files \subseteq Files
                /\ {s.baseline, s.target, s.result} \subseteq Seq(Commits)
                /\ tree[r].written \subseteq Files /\ tree[r].head \subseteq Files
  BY DEF Typed, StateTyped, Sessions, Trees
<1>2. canonical \in Seq(Commits) /\ cut \subseteq Requests \X Undoes
  BY DEF Typed, StateTyped
<1>3. op = NoOp \/
     LET s == record[op.for]
     IN CASE op.doing = "prepare" -> s.execution = "preparing"
          [] op.doing = "validate" -> s.execution = "validating"
          [] op.doing = "patch" -> s.patch = "applying"
          [] op.doing = "changeSet" -> s.changeSet = "applying"
          [] op.doing = "commit" -> s.commit = "creating"
          [] op.doing = "integrate" -> s.integration = "creating"
          [] OTHER -> op.doing \in Undoes
  <2> SUFFICES ASSUME op # NoOp
               PROVE  LET s == record[op.for]
                      IN CASE op.doing = "prepare" -> s.execution = "preparing"
                           [] op.doing = "validate" -> s.execution = "validating"
                           [] op.doing = "patch" -> s.patch = "applying"
                           [] op.doing = "changeSet" -> s.changeSet = "applying"
                           [] op.doing = "commit" -> s.commit = "creating"
                           [] op.doing = "integrate" -> s.integration = "creating"
                           [] OTHER -> op.doing \in Undoes
    OBVIOUS
  <2>1. op.for \in Requests /\ op.doing \in Doings
    BY DEF Typed, StateTyped, OpTyped
  <2>2. SavedAs(op.for)
    BY <2>1 DEF Typed
  <2> QED
    BY <2>1, <2>2 DEF SavedAs, Doing, Doings
<1> QED
  BY <1>1, <1>2, <1>3 DEF TypeOK, Workspaces, Runs

\* The types hold in every state, and an operation under way is one that its
\* request's record announces or an undo, whatever was cut short before it.
THEOREM RequestsTypeCorrect == Spec => []TypeOK
<1>1. Typed /\ [Next]_vars => Typed'
  BY NextStateTyped, NextSavedAs DEF Typed
<1> QED
  BY <1>1, InitTyped, TypedIsTypeOK, PTL DEF Spec

-----------------------------------------------------------------------------
(* What one operation saved the next one can load.                          *)

\* What every record keeps to. A preview may break two conditions of the load;
\* only a readable store goes on from there, so that nothing else does.
Fits(s) ==
  /\ WorkspaceFits(s) /\ RunFits(s)
  /\ s.proposal = "accepted" => s.from = "proposal"
  /\ OneOwner(s) \/ TwoOwners(s)
  /\ CommitFits(s) \/ Replaced(s)
  /\ s.commit # "none" => s.execution \in Frozen
AllFit == \A r \in Requests : Fits(record[r])

LEMMA SessionFits ==
  ASSUME NEW s, NEW t, MovesSession(s, t), Fits(s)
  PROVE  Fits(t)
<1>1. KeepsChange(s, t) /\ KeepsProposal(s, t) /\ KeepsCommit(s, t)
      /\ WorkspaceFits(t) /\ RunFits(t) /\ (s.execution \in Frozen => t.execution \in Frozen)
  BY DEF MovesSession, OnlySession, Fits
<1> QED
  BY <1>1 DEF Fits, OneOwner, TwoOwners, CommitFits, Replaced, KeepsChange, KeepsProposal,
     KeepsCommit

LEMMA ChangeKeepsSession ==
  ASSUME NEW s, NEW t, KeepsSession(s, t), WorkspaceFits(s)
  PROVE  WorkspaceFits(t)
BY DEF KeepsSession, WorkspaceFits

LEMMA PatchFits ==
  ASSUME Readable, NEW r \in Requests, NEW t, PatchMoves(r, t), Fits(record[r])
  PROVE  Fits(t)
<1> PICK s : s = record[r]
  OBVIOUS
<1>1. KeepsSession(s, t) /\ KeepsProposal(s, t) /\ KeepsCommit(s, t)
      /\ t.changeSet = s.changeSet /\ t.from = s.from
  BY DEF PatchMoves, OnlyChange
<1>2. \/ s.patch = "none" /\ t.patch = "previewed" /\ s.execution = "ready" /\ s.run = "ready"
      \/ s.patch \in {"previewed", "approved", "applying"} /\ t.patch # "none"
      \/ s.patch = "applied" /\ t.patch = "rolled_back"
  BY DEF PatchMoves, Runnable
<1>3. WorkspaceFits(t)
  BY <1>1, ChangeKeepsSession DEF Fits
<1>4. RunFits(t)
  BY <1>1, <1>2 DEF Fits, RunFits, KeepsSession, KeepsProposal, KeepsCommit
<1>5. OneOwner(s) /\ CommitFits(s)
  BY DEF Readable
<1>6. OneOwner(t) \/ TwoOwners(t)
  BY <1>1, <1>2, <1>5 DEF OneOwner, TwoOwners
<1>7. CommitFits(t)
  BY <1>1, <1>2, <1>5 DEF Fits, OneOwner, CommitFits, HasReceipt, Frozen, KeepsProposal, KeepsCommit
<1> QED
  BY <1>1, <1>3, <1>4, <1>6, <1>7 DEF Fits, KeepsSession, KeepsProposal, KeepsCommit

LEMMA ChangeSetFits ==
  ASSUME Readable, NEW r \in Requests, NEW t, SetMoves(r, t), Fits(record[r])
  PROVE  Fits(t)
<1> PICK s : s = record[r]
  OBVIOUS
<1>1. KeepsSession(s, t) /\ KeepsProposal(s, t) /\ KeepsCommit(s, t)
      /\ t.patch = s.patch /\ t.from = s.from
  BY DEF SetMoves, OnlyChange
<1>2. \/ s.changeSet = "none" /\ t.changeSet = "previewed" /\ s.execution = "ready" /\ s.run = "ready"
      \/ s.changeSet \in {"previewed", "approved", "applying"} /\ t.changeSet # "none"
      \/ s.changeSet = "applied" /\ t.changeSet = "rolled_back"
  BY DEF SetMoves, Runnable
<1>3. WorkspaceFits(t)
  BY <1>1, ChangeKeepsSession DEF Fits
<1>4. RunFits(t)
  BY <1>1, <1>2 DEF Fits, RunFits, KeepsSession, KeepsProposal, KeepsCommit
<1>5. OneOwner(s) /\ CommitFits(s)
  BY DEF Readable
<1>6. OneOwner(t) \/ TwoOwners(t)
  BY <1>1, <1>2, <1>5 DEF OneOwner, TwoOwners
<1>7. CommitFits(t)
  BY <1>1, <1>2, <1>5 DEF Fits, OneOwner, CommitFits, HasReceipt, Frozen, KeepsProposal, KeepsCommit
<1> QED
  BY <1>1, <1>3, <1>4, <1>6, <1>7 DEF Fits, KeepsSession, KeepsProposal, KeepsCommit

LEMMA ProposalFitsStill ==
  ASSUME NEW r, NEW t, ProposalMoves(r, t), Fits(record[r])
  PROVE  Fits(t)
<1> PICK s : s = record[r]
  OBVIOUS
<1>1. /\ KeepsSession(s, t) /\ KeepsCommit(s, t) /\ s.proposal # "accepted"
      /\ s.proposal = "none" => s.run = "ready"
      /\ \/ KeepsChange(s, t) /\ t.proposal # "accepted"
         \/ /\ s.proposal = "review_ready" /\ t.proposal = "accepted"
            /\ t.changeSet = "previewed" /\ t.from = "proposal"
  BY DEF ProposalMoves, OnlyProposal, Runnable
<1>2. WorkspaceFits(t)
  BY <1>1, ChangeKeepsSession DEF Fits
<1>3. RunFits(t)
  BY <1>1 DEF Fits, RunFits, KeepsSession, KeepsCommit, KeepsChange
<1>4. OneOwner(t) \/ TwoOwners(t)
  BY <1>1 DEF Fits, OneOwner, TwoOwners, KeepsChange
<1>5. CommitFits(t) \/ Replaced(t)
  BY <1>1 DEF Fits, CommitFits, Replaced, KeepsCommit, KeepsChange
<1> QED
  BY <1>1, <1>2, <1>3, <1>4, <1>5 DEF Fits, KeepsSession, KeepsCommit

LEMMA CommitFitsStill ==
  ASSUME Readable, NEW r \in Requests, NEW t, CommitMoves(r, t), Fits(record[r])
  PROVE  Fits(t)
<1> PICK s : s = record[r]
  OBVIOUS
<1>1. /\ KeepsSession(s, t) /\ KeepsChange(s, t) /\ KeepsProposal(s, t)
      /\ \/ /\ s.execution = "review_ready" /\ s.run = "passed"
            /\ (s.patch = "applied") # (s.changeSet = "applied")
         \/ s.commit # "none" /\ t.commit # "none"
  BY DEF CommitMoves, OnlyCommit
<1>2. WorkspaceFits(t)
  BY <1>1, ChangeKeepsSession DEF Fits
<1>3. RunFits(t)
  BY <1>1 DEF Fits, RunFits, KeepsSession, KeepsProposal, KeepsChange
<1>4. OneOwner(t) /\ CommitFits(t)
  <2>1. OneOwner(s) /\ CommitFits(s)
    BY DEF Readable
  <2> QED
    BY <1>1, <2>1 DEF OneOwner, CommitFits, HasReceipt, KeepsChange
<1> QED
  BY <1>1, <1>2, <1>3, <1>4 DEF Fits, Frozen, KeepsSession, KeepsProposal, KeepsChange

LEMMA IntegrationFits ==
  ASSUME NEW r, NEW t, IntegrationMoves(r, t), Fits(record[r])
  PROVE  Fits(t)
<1> PICK s : s = record[r]
  OBVIOUS
<1>1. KeepsSession(s, t) /\ KeepsChange(s, t) /\ KeepsProposal(s, t) /\ KeepsCommit(s, t)
  BY DEF IntegrationMoves, OnlyIntegration
<1>2. WorkspaceFits(t)
  BY <1>1, ChangeKeepsSession DEF Fits
<1>3. RunFits(t)
  BY <1>1 DEF Fits, RunFits, KeepsSession, KeepsProposal, KeepsChange, KeepsCommit
<1>4. (OneOwner(t) \/ TwoOwners(t)) /\ (CommitFits(t) \/ Replaced(t))
  BY <1>1 DEF Fits, OneOwner, TwoOwners, CommitFits, Replaced, KeepsProposal, KeepsChange,
     KeepsCommit
<1> QED
  BY <1>1, <1>2, <1>3, <1>4 DEF Fits, KeepsSession, KeepsProposal, KeepsChange, KeepsCommit

\* The steps that leave every record as it is.
LEMMA RecordsStay ==
  ASSUME Typed, UNCHANGED vars \/ Cut \/ OwnerCommits
                \/ \E r \in Requests : \/ BeginsUndo(r) \/ WriteFile(r) \/ RestoreFile(r)
                                       \/ Commit(r) \/ Uncommit(r) \/ CherryPick(r) \/ Reset(r)
                                       \/ GivesUp(r)
  PROVE  record' = record
BY DEF vars, Cut, OwnerCommits, BeginsUndo, RollbackPatch, RollbackChangeSet, UndoCommit,
   UndoIntegration, WriteFile, RestoreFile, Commit, Uncommit, CherryPick, Reset, GivesUp,
   IntegrationCreated

\* An operation begins on a readable store and leaves it so until its last save.
OpsBeginReadable == op # NoOp => Readable

LEMMA SavesAreQuiet ==
  ASSUME NEW r \in Requests, NEW t,
         \/ PatchMoves(r, t) \/ SetMoves(r, t) \/ ProposalMoves(r, t)
         \/ CommitMoves(r, t) \/ IntegrationMoves(r, t)
  PROVE  Quiet \/ op # NoOp
BY DEF PatchMoves, SetMoves, ProposalMoves, CommitMoves, IntegrationMoves, Doing, NoOp

LEMMA FitStays ==
  ASSUME Typed, AllFit, NEW r \in Requests, NEW t \in Sessions, Becomes(r, t), Fits(t)
  PROVE  AllFit'
BY DEF AllFit, Becomes, Typed, StateTyped

LEMMA NextFits ==
  ASSUME Typed, AllFit, OpsBeginReadable, [Next]_vars
  PROVE  AllFit'
<1>1. ASSUME record' = record
      PROVE  AllFit'
  BY <1>1 DEF AllFit
<1>2. ASSUME NEW r \in Requests, Session(r)
      PROVE  AllFit'
  BY <1>2, SessionSteps, SessionFits, FitStays DEF AllFit
<1>3. ASSUME NEW r \in Requests, PatchSaves(r)
      PROVE  AllFit'
  <2>1. PICK t \in Sessions : Becomes(r, t) /\ PatchMoves(r, t)
    BY <1>3, PatchSteps
  <2>2. Readable
    BY <2>1, SavesAreQuiet DEF OpsBeginReadable, Quiet
  <2> QED
    BY <2>1, <2>2, PatchFits, FitStays DEF AllFit
<1>4. ASSUME NEW r \in Requests, SetSaves(r)
      PROVE  AllFit'
  <2>1. PICK t \in Sessions : Becomes(r, t) /\ SetMoves(r, t)
    BY <1>4, ChangeSetSteps
  <2>2. Readable
    BY <2>1, SavesAreQuiet DEF OpsBeginReadable, Quiet
  <2> QED
    BY <2>1, <2>2, ChangeSetFits, FitStays DEF AllFit
<1>5. ASSUME NEW r \in Requests, Proposal(r)
      PROVE  AllFit'
  BY <1>5, ProposalSteps, ProposalFitsStill, FitStays DEF AllFit
<1>6. ASSUME NEW r \in Requests, CommitSaves(r)
      PROVE  AllFit'
  <2>1. PICK t \in Sessions : Becomes(r, t) /\ CommitMoves(r, t)
    BY <1>6, CommitSteps
  <2>2. Readable
    BY <2>1, SavesAreQuiet DEF OpsBeginReadable, Quiet
  <2> QED
    BY <2>1, <2>2, CommitFitsStill, FitStays DEF AllFit
<1>7. ASSUME NEW r \in Requests, IntegrationSaves(r)
      PROVE  AllFit'
  BY <1>7, IntegrationSteps, IntegrationFits, FitStays DEF AllFit
<1> QED
  BY <1>1, <1>2, <1>3, <1>4, <1>5, <1>6, <1>7, RecordsStay, StepKinds

\* What an operation saves as it begins can be loaded like what it found.
LEMMA BeginningStaysReadable ==
  ASSUME Typed, AllFit, Readable, NEW r \in Requests, NEW t \in Sessions, Becomes(r, t), Fits(t),
         \/ KeepsChange(record[r], t) /\ KeepsProposal(record[r], t)
            /\ (t.commit # "none" => record[r].commit # "none")
         \/ PatchMoves(r, t) /\ record[r].patch = "approved" /\ t.patch = "applying"
         \/ SetMoves(r, t) /\ record[r].changeSet = "approved" /\ t.changeSet = "applying"
  PROVE  Readable'
<1> PICK s : s = record[r]
  OBVIOUS
<1>1. OneOwner(s) /\ ProposalFits(s) /\ CommitFits(s)
  BY DEF Readable
<1>2. CASE KeepsChange(s, t) /\ KeepsProposal(s, t) /\ (t.commit # "none" => s.commit # "none")
  <2>1. OneOwner(t) /\ ProposalFits(t) /\ CommitFits(t)
    BY <1>1, <1>2 DEF OneOwner, ProposalFits, CommitFits, KeepsChange, KeepsProposal
  <2> QED
    BY <2>1 DEF Readable, Becomes, Typed, StateTyped, Fits
<1>3. CASE PatchMoves(r, t) /\ s.patch = "approved" /\ t.patch = "applying"
  <2>1. OneOwner(t) /\ ProposalFits(t) /\ CommitFits(t)
    BY <1>1, <1>3 DEF OneOwner, ProposalFits, CommitFits, HasReceipt, PatchMoves, OnlyChange,
       KeepsProposal, KeepsCommit
  <2> QED
    BY <2>1 DEF Readable, Becomes, Typed, StateTyped, Fits
<1>4. CASE SetMoves(r, t) /\ s.changeSet = "approved" /\ t.changeSet = "applying"
  <2>1. OneOwner(t) /\ ProposalFits(t) /\ CommitFits(t)
    BY <1>1, <1>4 DEF OneOwner, ProposalFits, CommitFits, HasReceipt, SetMoves, OnlyChange,
       KeepsProposal, KeepsCommit
  <2> QED
    BY <2>1 DEF Readable, Becomes, Typed, StateTyped, Fits
<1> QED
  BY <1>2, <1>3, <1>4

LEMMA NextBeginsReadable ==
  ASSUME Typed, AllFit, OpsBeginReadable, [Next]_vars
  PROVE  OpsBeginReadable'
<1> SUFFICES ASSUME op' # NoOp PROVE Readable'
  BY DEF OpsBeginReadable
<1>0. AllFit'
  BY NextFits
<1>1. ASSUME record' = record, Readable
      PROVE  Readable'
  BY <1>1 DEF Readable
<1>2. ASSUME NEW r \in Requests, Session(r)
      PROVE  Readable'
  <2>1. PICK t \in Sessions : /\ Becomes(r, t) /\ MovesSession(record[r], t)
                              /\ op' = NoOp \/ Quiet
    BY <1>2, SessionSteps
  <2>2. KeepsChange(record[r], t) /\ KeepsProposal(record[r], t) /\ t.commit = record[r].commit
    BY <2>1 DEF MovesSession, OnlySession, KeepsCommit
  <2> QED
    BY <2>1, <2>2, SessionFits, BeginningStaysReadable DEF AllFit, Quiet
<1>3. ASSUME NEW r \in Requests, PatchSaves(r)
      PROVE  Readable'
  <2>1. PICK t \in Sessions : Becomes(r, t) /\ PatchMoves(r, t)
    BY <1>3, PatchSteps
  <2>2. Quiet /\ record[r].patch = "approved" /\ t.patch = "applying"
    BY <2>1 DEF PatchMoves
  <2> QED
    BY <2>1, <2>2, PatchFits, BeginningStaysReadable DEF AllFit, Quiet
<1>4. ASSUME NEW r \in Requests, SetSaves(r)
      PROVE  Readable'
  <2>1. PICK t \in Sessions : Becomes(r, t) /\ SetMoves(r, t)
    BY <1>4, ChangeSetSteps
  <2>2. Quiet /\ record[r].changeSet = "approved" /\ t.changeSet = "applying"
    BY <2>1 DEF SetMoves
  <2> QED
    BY <2>1, <2>2, ChangeSetFits, BeginningStaysReadable DEF AllFit, Quiet
<1>5. ASSUME NEW r \in Requests, Proposal(r)
      PROVE  Readable'
  BY <1>5, ProposalSteps DEF ProposalMoves
<1>6. ASSUME NEW r \in Requests, CommitSaves(r)
      PROVE  Readable'
  <2>1. PICK t \in Sessions : Becomes(r, t) /\ CommitMoves(r, t)
    BY <1>6, CommitSteps
  <2>2. /\ Quiet /\ record[r].commit = "approved"
        /\ KeepsChange(record[r], t) /\ KeepsProposal(record[r], t)
    BY <2>1 DEF CommitMoves, OnlyCommit
  <2> QED
    BY <2>1, <2>2, CommitFitsStill, BeginningStaysReadable DEF AllFit, Quiet
<1>7. ASSUME NEW r \in Requests, IntegrationSaves(r)
      PROVE  Readable'
  <2>1. PICK t \in Sessions : Becomes(r, t) /\ IntegrationMoves(r, t)
    BY <1>7, IntegrationSteps
  <2>2. /\ Quiet /\ t.commit = record[r].commit
        /\ KeepsChange(record[r], t) /\ KeepsProposal(record[r], t)
    BY <2>1 DEF IntegrationMoves, OnlyIntegration, KeepsCommit
  <2> QED
    BY <2>1, <2>2, IntegrationFits, BeginningStaysReadable DEF AllFit, Quiet
<1>8. CASE \E r \in Requests : BeginsUndo(r)
  BY <1>1, <1>8, BeginsUndoWorks DEF Quiet
<1>9. CASE \E r \in Requests : \/ WriteFile(r) \/ RestoreFile(r) \/ Commit(r) \/ Uncommit(r)
                               \/ CherryPick(r) \/ Reset(r)
  BY <1>1, <1>9, WorkIsUnderWay, RecordsStay DEF OpsBeginReadable
<1>10. CASE \/ UNCHANGED vars \/ OwnerCommits \/ Cut \/ \E r \in Requests : GivesUp(r)
  <2>1. op' = op
    BY <1>10 DEF vars, OwnerCommits, Cut, GivesUp, IntegrationCreated
  <2> QED
    BY <1>1, <1>10, <2>1, RecordsStay DEF OpsBeginReadable
<1> QED
  BY <1>2, <1>3, <1>4, <1>5, <1>6, <1>7, <1>8, <1>9, <1>10, StepKinds

LEMMA InitFits == Init => AllFit /\ OpsBeginReadable
<1> SUFFICES ASSUME Init PROVE AllFit /\ OpsBeginReadable
  OBVIOUS
<1>1. ASSUME NEW r \in Requests
      PROVE  Fits(record[r])
  <2>1. PICK habit \in Habits : record = [q \in Requests |-> [NoSession EXCEPT !.uses = habit[q]]]
    BY DEF Init
  <2>2. record[r] = [NoSession EXCEPT !.uses = habit[r]]
    BY <2>1
  <2>3. LET s == record[r]
        IN /\ s.execution = "none" /\ s.workspace = "none" /\ s.run = "none" /\ s.patch = "none"
           /\ s.changeSet = "none" /\ s.proposal = "none" /\ s.commit = "none"
    BY <2>2 DEF NoSession
  <2> QED
    BY <2>3 DEF Fits, WorkspaceFits, RunFits, OneOwner, CommitFits
<1> QED
  BY <1>1 DEF AllFit, OpsBeginReadable, Init

\* Whoever operates in whatever order, every request keeps to all that a load
\* asks of it but for two conditions, and those only a preview breaks: one that
\* is the run's second owner, and one of an accepted proposal that is where the
\* change set of a commit was. What is applied, validated, committed, cancelled
\* or reconciled is never what a load refuses, a landed proposal included.
THEOREM StoreLoadsButForPreviews == Spec => []StoreStaysReadable
<1>1. Typed /\ AllFit /\ OpsBeginReadable /\ [Next]_vars => (Typed /\ AllFit /\ OpsBeginReadable)'
  BY NextStateTyped, NextSavedAs, NextFits, NextBeginsReadable DEF Typed
<1>2. AllFit => StoreStaysReadable
  BY DEF AllFit, Fits, StoreStaysReadable, ProposalFits
<1> QED
  BY <1>1, <1>2, InitTyped, InitFits, PTL DEF Spec

-----------------------------------------------------------------------------
(* Receipts of changes and of commits.                                      *)

\* An undo of r that has begun its work, whether it came to its save or not.
Past(r, what) == <<r, what>> \in cut \/ (Doing(r, what) /\ op.stage # "begun")
At(r, what) == Doing(r, what) /\ IsDone

\* A change that is saved as applied or rolled back is so in the worktree, and
\* an operation that has done its work has done it all.
ChangeStands(r) ==
  LET s == record[r]
  IN /\ s.patch = "applied" /\ ~Past(r, "unpatch") => PatchFiles(r) \subseteq tree[r].written
     /\ s.patch = "rolled_back" => PatchFiles(r) \cap tree[r].written = {}
     /\ s.changeSet = "applied" /\ ~Past(r, "unset") => SetFiles(r) \subseteq tree[r].written
     /\ s.changeSet = "rolled_back" => SetFiles(r) \cap tree[r].written = {}
     /\ At(r, "patch") => PatchFiles(r) \subseteq tree[r].written
     /\ At(r, "unpatch") => PatchFiles(r) \cap tree[r].written = {}
     /\ At(r, "changeSet") => SetFiles(r) \subseteq tree[r].written
     /\ At(r, "unset") => SetFiles(r) \cap tree[r].written = {}

\* The files previewed for a commit are the change, and they were validated.
FilesAreTheChange(r) ==
  LET s == record[r]
  IN s.commit # "none" =>
       /\ s.files \subseteq s.observed
       /\ s.files = (IF HasReceipt(s.patch) THEN PatchFiles(r) ELSE SetFiles(r))

\* Only a patch writes to a worktree that has no change set.
WrittenByPatch(r) == record[r].changeSet = "none" => tree[r].written \subseteq PatchFiles(r)

\* The branch of the worktree has the commit, or nothing.
CommitStands(r) ==
  LET s == record[r]
  IN /\ s.commit = "created" /\ ~Past(r, "uncommit") => tree[r].head = s.files
     /\ s.commit = "undone" => tree[r].head = {}
     /\ At(r, "commit") => tree[r].head = s.files
     /\ At(r, "uncommit") => tree[r].head = {}
     /\ tree[r].head = {} \/ (s.commit # "none" /\ tree[r].head = s.files)

\* What is past stays so, and no more work is done.
ChangePast(q) ==
  /\ \A what \in {"unpatch", "unset"} : Past(q, what) => Past(q, what)'
  /\ \A what \in {"patch", "unpatch", "changeSet", "unset"} : At(q, what)' => At(q, what)
CommitPast(q) ==
  /\ Past(q, "uncommit") => Past(q, "uncommit")'
  /\ \A what \in {"commit", "uncommit"} : At(q, what)' => At(q, what)
PastStays(q) == ChangePast(q) /\ CommitPast(q)

LEMMA CommitStays ==
  ASSUME NEW q, CommitStands(q), CommitPast(q), tree'[q].head = tree[q].head,
         KeepsCommit(record[q], record'[q])
  PROVE  CommitStands(q)'
BY DEF CommitStands, CommitPast, KeepsCommit

LEMMA ChangeStays ==
  ASSUME NEW q, ChangeStands(q), ChangePast(q), tree'[q].written = tree[q].written,
         KeepsChange(record[q], record'[q])
  PROVE  ChangeStands(q)'
<1>1. PatchFiles(q)' = PatchFiles(q) /\ SetFiles(q)' = SetFiles(q)
  BY DEF PatchFiles, SetFiles, KeepsChange
<1> QED
  BY <1>1 DEF ChangeStands, ChangePast, KeepsChange

LEMMA WrittenStays ==
  ASSUME NEW q, WrittenByPatch(q), tree'[q].written = tree[q].written,
         record'[q].changeSet = "none" => record[q].changeSet = "none"
  PROVE  WrittenByPatch(q)'
BY DEF WrittenByPatch, PatchFiles

LEMMA FilesStay ==
  ASSUME NEW q, FilesAreTheChange(q), KeepsChange(record[q], record'[q]),
         KeepsCommit(record[q], record'[q]),
         record[q].commit # "none" => record'[q].observed = record[q].observed
  PROVE  FilesAreTheChange(q)'
BY DEF FilesAreTheChange, KeepsChange, KeepsCommit, PatchFiles, SetFiles

\* What holds of a request and its worktree.
Stands(q) == CommitStands(q) /\ WrittenByPatch(q)
Tells(q) == ChangeStands(q) /\ FilesAreTheChange(q)
KeepsStands(q) == Stands(q)' /\ (Readable' /\ Tells(q) => Tells(q)')

LEMMA OthersStand ==
  ASSUME NEW q, Stands(q), PastStays(q), record'[q] = record[q], tree'[q] = tree[q]
  PROVE  KeepsStands(q)
<1>1. /\ KeepsChange(record[q], record'[q]) /\ KeepsCommit(record[q], record'[q])
  BY DEF KeepsChange, KeepsCommit
<1>2. Stands(q)'
  BY <1>1, CommitStays, WrittenStays DEF Stands, PastStays
<1>3. Tells(q) => Tells(q)'
  BY <1>1, ChangeStays, FilesStay DEF Tells, PastStays
<1> QED
  BY <1>2, <1>3 DEF KeepsStands

\* An operation on r disturbs no other request.
LEMMA OthersPast ==
  ASSUME NEW r, NEW q, q # r, cut' = cut, op = NoOp \/ op.for = r, op' = NoOp \/ op'.for = r
  PROVE  PastStays(q)
BY DEF PastStays, ChangePast, CommitPast, Past, At, Doing, NoOp

\* A save ends no undo but the one it is the save of.
LEMMA PastOfSave ==
  ASSUME NEW q, cut' = cut, op' = NoOp \/ \E r \in Requests, d \in Doings : Does(r, d)
  PROVE  /\ \A what \in Doings : ~At(q, what)'
         /\ \A what \in Undoes : Past(q, what) /\ ~Doing(q, what) => Past(q, what)'
<1>1. \A what \in Doings : ~At(q, what)'
  BY DEF At, Doing, Does, IsDone, NoOp, Doings, Undoes
<1> QED
  BY <1>1 DEF Past

LEMMA ChangePastOfSave ==
  ASSUME NEW q, cut' = cut, op' = NoOp \/ \E r \in Requests, d \in Doings : Does(r, d),
         ~Doing(q, "unpatch"), ~Doing(q, "unset")
  PROVE  ChangePast(q)
BY PastOfSave DEF ChangePast, Doings, Undoes

LEMMA CommitPastOfSave ==
  ASSUME NEW q, cut' = cut, op' = NoOp \/ \E r \in Requests, d \in Doings : Does(r, d),
         ~Doing(q, "uncommit")
  PROVE  CommitPast(q)
BY PastOfSave DEF CommitPast, Doings, Undoes

LEMMA PatchStands ==
  ASSUME Typed, Readable, NEW r \in Requests, Fits(record[r]), Stands(r), NEW t \in Sessions,
         Becomes(r, t), PatchMoves(r, t), UNCHANGED <<tree, canonical, cut>>
  PROVE  KeepsStands(r)
<1> PICK s : s = record[r]
  OBVIOUS
<1>1. record'[r] = t
  BY DEF Typed, StateTyped, Becomes
<1>2. /\ KeepsSession(s, t) /\ KeepsCommit(s, t) /\ t.changeSet = s.changeSet /\ t.from = s.from
      /\ op' = NoOp \/ Does(r, "patch")
      /\ op = NoOp \/ Doing(r, "patch") \/ Doing(r, "unpatch")
  BY DEF PatchMoves, OnlyChange, Quiet
<1>3. CommitPast(r)
  BY <1>2, CommitPastOfSave DEF Doings, Undoes, Doing, NoOp
<1>4. Stands(r)'
  BY <1>1, <1>2, <1>3, CommitStays, WrittenStays DEF Stands
<1>5. ASSUME ChangeStands(r)
      PROVE  ChangeStands(r)'
  <2>1. PatchFiles(r)' = PatchFiles(r) /\ SetFiles(r)' = SetFiles(r)
    BY <1>1, <1>2 DEF PatchFiles, SetFiles
  <2>2. \A what \in Doings : ~At(r, what)'
    BY <1>2, PastOfSave DEF Doings, Undoes
  <2>3. Past(r, "unset") => Past(r, "unset")'
    BY <1>2, PastOfSave DEF Doings, Undoes, Doing, NoOp
  <2>4. t.patch = "applied" => PatchFiles(r) \subseteq tree[r].written
    BY <1>5 DEF PatchMoves, ChangeStands, At
  <2>5. t.patch = "rolled_back" => PatchFiles(r) \cap tree[r].written = {}
    BY <1>5 DEF PatchMoves, ChangeStands, At
  <2> QED
    BY <1>1, <1>2, <1>5, <2>1, <2>2, <2>3, <2>4, <2>5 DEF ChangeStands, Doings, Undoes
<1>6. ASSUME FilesAreTheChange(r)
      PROVE  FilesAreTheChange(r)'
  <2>1. PatchFiles(r)' = PatchFiles(r) /\ SetFiles(r)' = SetFiles(r)
    BY <1>1, <1>2 DEF PatchFiles, SetFiles
  <2>2. OneOwner(s) /\ CommitFits(s) /\ (s.commit # "none" => s.execution \in Frozen)
    BY DEF Readable, Fits
  <2>3. s.commit # "none" => HasReceipt(t.patch) = HasReceipt(s.patch)
    BY <2>2 DEF PatchMoves, Runnable, Frozen, OneOwner, CommitFits, HasReceipt
  <2> QED
    BY <1>1, <1>2, <1>6, <2>1, <2>3 DEF FilesAreTheChange, KeepsSession, KeepsCommit
<1> QED
  BY <1>4, <1>5, <1>6 DEF KeepsStands, Tells

LEMMA SetStands ==
  ASSUME Typed, NEW r \in Requests, Stands(r), NEW t \in Sessions,
         Becomes(r, t), SetMoves(r, t), UNCHANGED <<tree, canonical, cut>>
  PROVE  KeepsStands(r)
<1> PICK s : s = record[r]
  OBVIOUS
<1>1. record'[r] = t
  BY DEF Typed, StateTyped, Becomes
<1>2. /\ KeepsSession(s, t) /\ KeepsCommit(s, t) /\ t.patch = s.patch /\ t.from = s.from
      /\ t.changeSet # "none"
      /\ op' = NoOp \/ Does(r, "changeSet")
      /\ op = NoOp \/ Doing(r, "changeSet") \/ Doing(r, "unset")
  BY DEF SetMoves, OnlyChange, Quiet
<1>3. CommitPast(r)
  BY <1>2, CommitPastOfSave DEF Doings, Undoes, Doing, NoOp
<1>4. Stands(r)'
  BY <1>1, <1>2, <1>3, CommitStays, WrittenStays DEF Stands
<1>5. PatchFiles(r)' = PatchFiles(r) /\ SetFiles(r)' = SetFiles(r)
  BY <1>1, <1>2 DEF PatchFiles, SetFiles
<1>6. ASSUME ChangeStands(r)
      PROVE  ChangeStands(r)'
  <2>2. \A what \in Doings : ~At(r, what)'
    BY <1>2, PastOfSave DEF Doings, Undoes
  <2>3. Past(r, "unpatch") => Past(r, "unpatch")'
    BY <1>2, PastOfSave DEF Doings, Undoes, Doing, NoOp
  <2>4. t.changeSet = "applied" => SetFiles(r) \subseteq tree[r].written
    BY <1>6 DEF SetMoves, ChangeStands, At
  <2>5. t.changeSet = "rolled_back" => SetFiles(r) \cap tree[r].written = {}
    BY <1>6 DEF SetMoves, ChangeStands, At
  <2> QED
    BY <1>1, <1>2, <1>5, <1>6, <2>2, <2>3, <2>4, <2>5 DEF ChangeStands, Doings, Undoes
<1>7. ASSUME FilesAreTheChange(r)
      PROVE  FilesAreTheChange(r)'
  BY <1>1, <1>2, <1>5, <1>7 DEF FilesAreTheChange, KeepsSession, KeepsCommit
<1> QED
  BY <1>4, <1>6, <1>7 DEF KeepsStands, Tells

\* A proposal accepted over a commit leaves a store that no load accepts.
LEMMA ProposalStands ==
  ASSUME Typed, Readable, NEW r \in Requests, Stands(r), NEW t \in Sessions,
         Becomes(r, t), ProposalMoves(r, t), UNCHANGED <<tree, canonical, cut>>
  PROVE  KeepsStands(r)
<1> PICK s : s = record[r]
  OBVIOUS
<1>1. record'[r] = t
  BY DEF Typed, StateTyped, Becomes
<1>2. KeepsSession(s, t) /\ KeepsCommit(s, t) /\ op' = NoOp /\ op = NoOp
  BY DEF ProposalMoves, OnlyProposal, Quiet
<1>3. PastStays(r)
  BY <1>2, CommitPastOfSave, ChangePastOfSave DEF PastStays, Doing, NoOp
<1>4. CASE KeepsChange(s, t)
  <2>1. Stands(r)'
    BY <1>1, <1>2, <1>3, <1>4, CommitStays, WrittenStays DEF Stands, PastStays, KeepsChange
  <2>2. Tells(r) => Tells(r)'
    BY <1>1, <1>2, <1>3, <1>4, ChangeStays, FilesStay DEF Tells, PastStays, KeepsSession
  <2> QED
    BY <2>1, <2>2 DEF KeepsStands
<1>5. CASE t.proposal = "accepted" /\ t.changeSet = "previewed" /\ t.patch = s.patch
  <2>1. Stands(r)'
    BY <1>1, <1>2, <1>3, <1>5, CommitStays, WrittenStays DEF Stands, PastStays
  <2>2. ChangeStands(r) => ChangeStands(r)'
    BY <1>1, <1>3, <1>2, <1>5, PastOfSave
       DEF ChangeStands, PastStays, ChangePast, PatchFiles, Doings, Undoes
  <2>3. CommitFits(s) /\ (Readable' => OneOwner(t) /\ CommitFits(t))
    BY <1>1 DEF Readable
  <2>4. Readable' => t.commit = "none"
    BY <1>2, <1>5, <2>3 DEF KeepsCommit, CommitFits, OneOwner, HasReceipt
  <2>5. Readable' => FilesAreTheChange(r)'
    BY <1>1, <2>4 DEF FilesAreTheChange
  <2> QED
    BY <2>1, <2>2, <2>5 DEF KeepsStands, Tells
<1> QED
  BY <1>4, <1>5 DEF ProposalMoves

LEMMA CommitSaveStands ==
  ASSUME Typed, Readable, NEW r \in Requests, Stands(r), NEW t \in Sessions,
         Becomes(r, t), CommitMoves(r, t), UNCHANGED <<tree, canonical, cut>>
  PROVE  KeepsStands(r)
<1> PICK s : s = record[r]
  OBVIOUS
<1>1. record'[r] = t
  BY DEF Typed, StateTyped, Becomes
<1>2. /\ KeepsSession(s, t) /\ KeepsChange(s, t)
      /\ op' = NoOp \/ Does(r, "commit")
      /\ op = NoOp \/ Doing(r, "commit") \/ Doing(r, "uncommit")
  BY DEF CommitMoves, OnlyCommit, Quiet
<1>3. ChangePast(r)
  BY <1>2, ChangePastOfSave DEF Doings, Undoes, Doing, NoOp
<1>4. \A what \in Doings : ~At(r, what)'
  BY <1>2, PastOfSave DEF Doings, Undoes
<1>5. CommitStands(r)'
  BY <1>1, <1>4 DEF CommitStands, Stands, CommitMoves, At, Doings, Undoes
<1>6. WrittenByPatch(r)'
  BY <1>1, <1>2, WrittenStays DEF Stands, KeepsChange
<1>7. ChangeStands(r) => ChangeStands(r)'
  BY <1>1, <1>2, <1>3, ChangeStays
<1>8. FilesAreTheChange(r) => FilesAreTheChange(r)'
  <2>1. PatchFiles(r)' = PatchFiles(r) /\ SetFiles(r)' = SetFiles(r)
    BY <1>1, <1>2 DEF PatchFiles, SetFiles, KeepsChange
  <2>2. CASE s.commit # "none" /\ t.files = s.files
    BY <1>1, <1>2, <2>1, <2>2 DEF FilesAreTheChange, KeepsSession, KeepsChange
  <2>3. CASE /\ (s.patch = "applied") # (s.changeSet = "applied") /\ ChangeIsWhole(r)
             /\ t.files = tree[r].written
    <3>1. OneOwner(s)
      BY DEF Readable
    <3>2. HasReceipt(s.patch) => s.changeSet = "none"
      BY <3>1 DEF OneOwner, HasReceipt
    <3> QED
      BY <1>1, <1>2, <2>1, <2>3, <3>2
         DEF FilesAreTheChange, ChangeIsWhole, Stands, WrittenByPatch, KeepsSession, KeepsChange
  <2> QED
    BY <2>2, <2>3 DEF CommitMoves
<1> QED
  BY <1>5, <1>6, <1>7, <1>8 DEF KeepsStands, Stands, Tells

LEMMA WriteStands ==
  ASSUME Typed, Readable, NEW r \in Requests, Stands(r), WriteFile(r)
  PROVE  KeepsStands(r)
<1>0. StateTyped /\ SavedAs(r) /\ OneOwner(record[r])
  BY DEF Typed, Readable
<1>1. PICK W \in SUBSET Files :
        /\ tree' = [tree EXCEPT ![r].written = W]
        /\ tree[r].written \subseteq W /\ W \subseteq tree[r].written \cup OpFiles(r)
        /\ op'.stage = "done" => OpFiles(r) \subseteq W
  BY <1>0, WriteFileWorks
<1>2. /\ op'.doing = op.doing /\ op'.for = op.for
      /\ op.for = r /\ op.doing \in {"patch", "changeSet"}
      /\ UNCHANGED <<record, canonical, cut>>
  BY <1>0, WriteFileWorks
<1>3. tree'[r].written = W /\ tree'[r].head = tree[r].head
  BY <1>0, <1>1 DEF StateTyped, Trees
<1>4. CommitPast(r)
  BY <1>2 DEF CommitPast, Past, At, Doing
<1>5. CommitStands(r)'
  BY <1>2, <1>3, <1>4, CommitStays DEF Stands, KeepsCommit
<1>6. PatchFiles(r)' = PatchFiles(r) /\ SetFiles(r)' = SetFiles(r)
  BY <1>2 DEF PatchFiles, SetFiles
<1>7. FilesAreTheChange(r) => FilesAreTheChange(r)'
  BY <1>2, FilesStay DEF KeepsChange, KeepsCommit
<1>8. CASE op.doing = "patch"
  <2>1. record[r].patch = "applying" /\ record[r].changeSet = "none" /\ OpFiles(r) = PatchFiles(r)
    BY <1>0, <1>2, <1>8 DEF SavedAs, Doing, OneOwner, OpFiles
  <2>2. WrittenByPatch(r)'
    BY <1>1, <1>3, <1>6, <2>1 DEF Stands, WrittenByPatch
  <2>3. ChangeStands(r)'
    BY <1>1, <1>2, <1>3, <1>6, <1>8, <2>1 DEF ChangeStands, At, Doing, IsDone
  <2> QED
    BY <1>5, <1>7, <2>2, <2>3 DEF KeepsStands, Stands, Tells
<1>9. CASE op.doing = "changeSet"
  <2>1. record[r].changeSet = "applying" /\ record[r].patch = "none" /\ OpFiles(r) = SetFiles(r)
    BY <1>0, <1>2, <1>9 DEF SavedAs, Doing, OneOwner, OpFiles
  <2>2. WrittenByPatch(r)'
    BY <1>2, <2>1 DEF WrittenByPatch
  <2>3. ChangeStands(r)'
    BY <1>1, <1>2, <1>3, <1>6, <1>9, <2>1 DEF ChangeStands, At, Doing, IsDone
  <2> QED
    BY <1>5, <1>7, <2>2, <2>3 DEF KeepsStands, Stands, Tells
<1> QED
  BY <1>2, <1>8, <1>9

LEMMA RestoreStands ==
  ASSUME Typed, Readable, NEW r \in Requests, Stands(r), RestoreFile(r)
  PROVE  KeepsStands(r)
<1>0. StateTyped /\ SavedAs(r) /\ OneOwner(record[r])
  BY DEF Typed, Readable
<1>1. PICK W \in SUBSET Files :
        /\ tree' = [tree EXCEPT ![r].written = W] /\ W \subseteq tree[r].written
        /\ op'.stage = "done" => OpFiles(r) \cap W = {}
  BY <1>0, RestoreFileWorks
<1>2. /\ op'.doing = op.doing /\ op'.for = op.for /\ op'.stage # "begun"
      /\ op.for = r /\ op.doing \in {"unpatch", "unset"}
      /\ UNCHANGED <<record, canonical, cut>>
  BY <1>0, RestoreFileWorks
<1>3. tree'[r].written = W /\ tree'[r].head = tree[r].head
  BY <1>0, <1>1 DEF StateTyped, Trees
<1>4. CommitPast(r)
  BY <1>2 DEF CommitPast, Past, At, Doing
<1>5. CommitStands(r)'
  BY <1>2, <1>3, <1>4, CommitStays DEF Stands, KeepsCommit
<1>6. PatchFiles(r)' = PatchFiles(r) /\ SetFiles(r)' = SetFiles(r)
  BY <1>2 DEF PatchFiles, SetFiles
<1>7. FilesAreTheChange(r) => FilesAreTheChange(r)'
  BY <1>2, FilesStay DEF KeepsChange, KeepsCommit
<1>8. WrittenByPatch(r)'
  BY <1>1, <1>2, <1>3, <1>6 DEF Stands, WrittenByPatch
<1>9. CASE op.doing = "unpatch"
  <2>1. record[r].patch = "applied" /\ record[r].changeSet = "none" /\ OpFiles(r) = PatchFiles(r)
    BY <1>0, <1>2, <1>9 DEF SavedAs, Doing, OneOwner, OpFiles
  <2>2. Past(r, "unpatch")'
    BY <1>2, <1>9 DEF Past, Doing
  <2>3. ChangeStands(r)'
    BY <1>1, <1>2, <1>3, <1>6, <1>9, <2>1, <2>2 DEF ChangeStands, At, Doing, IsDone
  <2> QED
    BY <1>5, <1>7, <1>8, <2>3 DEF KeepsStands, Stands, Tells
<1>10. CASE op.doing = "unset"
  <2>1. record[r].changeSet = "applied" /\ record[r].patch = "none" /\ OpFiles(r) = SetFiles(r)
    BY <1>0, <1>2, <1>10 DEF SavedAs, Doing, OneOwner, OpFiles
  <2>2. Past(r, "unset")'
    BY <1>2, <1>10 DEF Past, Doing
  <2>3. ChangeStands(r)'
    BY <1>1, <1>2, <1>3, <1>6, <1>10, <2>1, <2>2 DEF ChangeStands, At, Doing, IsDone
  <2> QED
    BY <1>5, <1>7, <1>8, <2>3 DEF KeepsStands, Stands, Tells
<1> QED
  BY <1>2, <1>9, <1>10

LEMMA HeadStands ==
  ASSUME Typed, NEW r \in Requests, Stands(r), Commit(r) \/ Uncommit(r)
  PROVE  KeepsStands(r)
<1>0. StateTyped /\ SavedAs(r) /\ record[r].files \in SUBSET Files
  BY DEF Typed, StateTyped, Sessions
<1>1. /\ op'.doing = op.doing /\ op'.for = op.for /\ op'.stage = "done" /\ op.for = r
      /\ UNCHANGED <<record, cut>>
  BY <1>0, DoneWorks
<1>2. \/ op.doing = "commit" /\ tree' = [tree EXCEPT ![r].head = record[r].files]
      \/ op.doing = "uncommit" /\ tree' = [tree EXCEPT ![r].head = {}]
  BY DEF Commit, Uncommit, Doing
<1>3. /\ tree'[r].written = tree[r].written
      /\ tree'[r].head = IF op.doing = "commit" THEN record[r].files ELSE {}
  BY <1>0, <1>2 DEF StateTyped, Trees
<1>4. ChangePast(r)
  BY <1>1, <1>2 DEF ChangePast, Past, At, Doing
<1>5. CommitStands(r)'
  BY <1>0, <1>1, <1>2, <1>3 DEF CommitStands, Past, At, Doing, SavedAs
<1>6. WrittenByPatch(r)'
  BY <1>1, <1>3, WrittenStays DEF Stands
<1>7. Tells(r) => Tells(r)'
  BY <1>1, <1>3, <1>4, ChangeStays, FilesStay DEF Tells, KeepsChange, KeepsCommit
<1> QED
  BY <1>5, <1>6, <1>7 DEF KeepsStands, Stands

\* A step on r, and no other request is concerned.
LEMMA OneStands ==
  ASSUME Typed, \A q \in Requests : Stands(q), NEW r \in Requests, KeepsStands(r),
         \/ \E t \in Sessions : Becomes(r, t) /\ tree' = tree
         \/ record' = record /\ \E f : tree' = [tree EXCEPT ![r].written = f]
         \/ record' = record /\ \E f : tree' = [tree EXCEPT ![r].head = f],
         cut' = cut, op = NoOp \/ op.for = r, op' = NoOp \/ op'.for = r
  PROVE  \A q \in Requests : KeepsStands(q)
<1> SUFFICES ASSUME NEW q \in Requests, q # r PROVE KeepsStands(q)
  OBVIOUS
<1>1. record'[q] = record[q] /\ tree'[q] = tree[q]
  BY DEF Typed, StateTyped, Becomes
<1>2. PastStays(q)
  BY OthersPast
<1> QED
  BY <1>1, <1>2, OthersStand

LEMMA NextStands ==
  ASSUME Typed, AllFit, OpsBeginReadable, \A q \in Requests : Stands(q), [Next]_vars
  PROVE  \A q \in Requests : KeepsStands(q)
<1>0. StateTyped
  BY DEF Typed
<1>1. ASSUME record' = record, tree' = tree, \A q \in Requests : PastStays(q)
      PROVE  \A q \in Requests : KeepsStands(q)
  BY <1>1, OthersStand
<1>2. CASE UNCHANGED vars \/ OwnerCommits
  <2>1. record' = record /\ tree' = tree /\ op' = op /\ cut' = cut
    BY <1>2 DEF vars, OwnerCommits
  <2>2. \A q \in Requests : PastStays(q)
    BY <2>1 DEF PastStays, ChangePast, CommitPast, Past, At, Doing, IsDone
  <2> QED
    BY <1>1, <2>1, <2>2
<1>3. CASE Cut
  <2>1. ASSUME NEW q \in Requests
        PROVE  PastStays(q)
    <3>1. \A what \in {"patch", "unpatch", "changeSet", "unset", "commit", "uncommit"} : ~At(q, what)'
      BY <1>3 DEF Cut, At, Doing, NoOp
    <3>2. \A what \in {"unpatch", "unset", "uncommit"} : Past(q, what) => <<q, what>> \in cut'
      BY <1>3 DEF Cut, Past, Doing, Undoes
    <3> QED
      BY <3>1, <3>2 DEF PastStays, ChangePast, CommitPast, Past
  <2> QED
    BY <1>1, <1>3, <2>1 DEF Cut
<1>4. ASSUME NEW r \in Requests, Session(r)
      PROVE  \A q \in Requests : KeepsStands(q)
  <2>1. PICK t \in Sessions :
          /\ Becomes(r, t) /\ MovesSession(record[r], t) /\ UNCHANGED <<tree, canonical, cut>>
          /\ \/ op' = NoOp
             \/ Quiet /\ (Does(r, "prepare") \/ Does(r, "validate"))
    BY <1>4, SessionSteps
  <2>2. op = NoOp \/ (op.for = r /\ op.doing \in {"prepare", "validate"})
    BY <1>4 DEF Session, AuthorizeExecution, PrepareExecution, Prepared, StartExecution,
       ValidateExecution, Validated, CancelExecution, ReconcileExecution, Records, Starts, Quiet,
       Doing
  <2>3. op' = NoOp \/ op'.for = r
    BY <2>1 DEF Does
  <2>4. PastStays(r)
    <3>1. op' = NoOp \/ \E d \in Doings : Does(r, d)
      BY <2>1 DEF Doings
    <3> QED
      BY <2>1, <2>2, <3>1, ChangePastOfSave, CommitPastOfSave DEF PastStays, Doing, NoOp
  <2>5. record'[r] = t
    BY <1>0, <2>1 DEF StateTyped, Becomes
  <2>6. /\ KeepsChange(record[r], t) /\ KeepsCommit(record[r], t)
        /\ record[r].commit # "none" => t.observed = record[r].observed
    BY <2>1 DEF MovesSession, OnlySession, AllFit, Fits
  <2>7. KeepsStands(r)
    <3>1. Stands(r)'
      BY <2>1, <2>4, <2>5, <2>6, CommitStays, WrittenStays DEF Stands, PastStays, KeepsChange
    <3>2. Tells(r) => Tells(r)'
      BY <2>1, <2>4, <2>5, <2>6, ChangeStays, FilesStay DEF Tells, PastStays
    <3> QED
      BY <3>1, <3>2 DEF KeepsStands
  <2> QED
    BY <2>1, <2>2, <2>3, <2>7, OneStands
<1>5. ASSUME NEW r \in Requests, PatchSaves(r)
      PROVE  \A q \in Requests : KeepsStands(q)
  <2>1. PICK t \in Sessions : Becomes(r, t) /\ PatchMoves(r, t) /\ UNCHANGED <<tree, canonical, cut>>
    BY <1>5, PatchSteps
  <2>2. KeepsStands(r)
    BY <2>1, SavesAreQuiet, PatchStands DEF AllFit, OpsBeginReadable, Quiet
  <2>3. (op = NoOp \/ op.for = r) /\ (op' = NoOp \/ op'.for = r)
    BY <2>1 DEF PatchMoves, Quiet, Doing, Does
  <2> QED
    BY <2>1, <2>2, <2>3, OneStands
<1>6. ASSUME NEW r \in Requests, SetSaves(r)
      PROVE  \A q \in Requests : KeepsStands(q)
  <2>1. PICK t \in Sessions : Becomes(r, t) /\ SetMoves(r, t) /\ UNCHANGED <<tree, canonical, cut>>
    BY <1>6, ChangeSetSteps
  <2>2. KeepsStands(r)
    BY <2>1, SetStands
  <2>3. (op = NoOp \/ op.for = r) /\ (op' = NoOp \/ op'.for = r)
    BY <2>1 DEF SetMoves, Quiet, Doing, Does
  <2> QED
    BY <2>1, <2>2, <2>3, OneStands
<1>7. ASSUME NEW r \in Requests, Proposal(r)
      PROVE  \A q \in Requests : KeepsStands(q)
  <2>1. PICK t \in Sessions :
          Becomes(r, t) /\ ProposalMoves(r, t) /\ UNCHANGED <<tree, canonical, cut>>
    BY <1>7, ProposalSteps
  <2>2. KeepsStands(r)
    BY <2>1, SavesAreQuiet, ProposalStands DEF OpsBeginReadable, Quiet
  <2>3. (op = NoOp \/ op.for = r) /\ (op' = NoOp \/ op'.for = r)
    BY <2>1 DEF ProposalMoves, Quiet
  <2> QED
    BY <2>1, <2>2, <2>3, OneStands
<1>8. ASSUME NEW r \in Requests, CommitSaves(r)
      PROVE  \A q \in Requests : KeepsStands(q)
  <2>1. PICK t \in Sessions :
          Becomes(r, t) /\ CommitMoves(r, t) /\ UNCHANGED <<tree, canonical, cut>>
    BY <1>8, CommitSteps
  <2>2. KeepsStands(r)
    BY <2>1, SavesAreQuiet, CommitSaveStands DEF OpsBeginReadable, Quiet
  <2>3. (op = NoOp \/ op.for = r) /\ (op' = NoOp \/ op'.for = r)
    BY <2>1 DEF CommitMoves, Quiet, Doing, Does
  <2> QED
    BY <2>1, <2>2, <2>3, OneStands
<1>9. ASSUME NEW r \in Requests, IntegrationSaves(r)
      PROVE  \A q \in Requests : KeepsStands(q)
  <2>1. PICK t \in Sessions :
          Becomes(r, t) /\ IntegrationMoves(r, t) /\ UNCHANGED <<tree, canonical, cut>>
    BY <1>9, IntegrationSteps
  <2>2. /\ KeepsSession(record[r], t) /\ KeepsChange(record[r], t) /\ KeepsCommit(record[r], t)
        /\ op = NoOp \/ (op.for = r /\ op.doing \in {"integrate", "reset"})
        /\ op' = NoOp \/ Does(r, "integrate")
    BY <2>1 DEF IntegrationMoves, OnlyIntegration, Quiet, Doing
  <2>3. PastStays(r)
    <3>1. op' = NoOp \/ \E d \in Doings : Does(r, d)
      BY <2>2 DEF Doings
    <3> QED
      BY <2>1, <2>2, <3>1, ChangePastOfSave, CommitPastOfSave DEF PastStays, Doing, NoOp
  <2>4. record'[r] = t
    BY <1>0, <2>1 DEF StateTyped, Becomes
  <2>5. KeepsStands(r)
    <3>1. Stands(r)'
      BY <2>1, <2>2, <2>3, <2>4, CommitStays, WrittenStays DEF Stands, PastStays, KeepsChange
    <3>2. Tells(r) => Tells(r)'
      BY <2>1, <2>2, <2>3, <2>4, ChangeStays, FilesStay DEF Tells, PastStays, KeepsSession
    <3> QED
      BY <3>1, <3>2 DEF KeepsStands
  <2>6. op' = NoOp \/ op'.for = r
    BY <2>2 DEF Does
  <2> QED
    BY <2>1, <2>2, <2>5, <2>6, OneStands
<1>10. ASSUME NEW r \in Requests, BeginsUndo(r)
       PROVE  \A q \in Requests : KeepsStands(q)
  <2>1. /\ Quiet /\ UNCHANGED <<record, tree, canonical, cut>>
        /\ \E d \in Doings : Does(r, d)
    BY <1>10, BeginsUndoWorks DEF Doings, Undoes
  <2>2. \A q \in Requests : PastStays(q)
    BY <2>1, ChangePastOfSave, CommitPastOfSave DEF PastStays, Doing, NoOp, Quiet
  <2> QED
    BY <1>1, <2>1, <2>2
<1>11. ASSUME NEW r \in Requests, WriteFile(r) \/ RestoreFile(r)
       PROVE  \A q \in Requests : KeepsStands(q)
  <2>1. /\ \E W : tree' = [tree EXCEPT ![r].written = W]
        /\ op.for = r /\ op'.for = r /\ UNCHANGED <<record, cut>>
    BY <1>0, <1>11, WriteFileWorks, RestoreFileWorks
  <2>2. Readable
    BY <1>11, WorkIsUnderWay DEF OpsBeginReadable
  <2>3. KeepsStands(r)
    BY <1>11, <2>2, WriteStands, RestoreStands
  <2> QED
    BY <2>1, <2>3, OneStands
<1>12. ASSUME NEW r \in Requests, Commit(r) \/ Uncommit(r)
       PROVE  \A q \in Requests : KeepsStands(q)
  <2>1. op.for = r /\ op'.for = r /\ UNCHANGED <<record, cut>>
    BY <1>0, <1>12, DoneWorks
  <2>2. \E H : tree' = [tree EXCEPT ![r].head = H]
    BY <1>12 DEF Commit, Uncommit
  <2> QED
    BY <1>12, <2>1, <2>2, HeadStands, OneStands
<1>13. ASSUME NEW r \in Requests, CherryPick(r) \/ Reset(r) \/ GivesUp(r)
       PROVE  \A q \in Requests : KeepsStands(q)
  <2>1. UNCHANGED <<record, tree, cut>> /\ op.doing \in {"integrate", "reset"}
    BY <1>13, RecordsStay DEF CherryPick, Reset, GivesUp, IntegrationCreated, Doing
  <2>2. op' = NoOp \/ op'.doing = op.doing
    BY <1>0, <1>13, DoneWorks DEF GivesUp, IntegrationCreated
  <2>3. \A q \in Requests : PastStays(q)
    BY <2>1, <2>2 DEF PastStays, ChangePast, CommitPast, Past, At, Doing, NoOp
  <2> QED
    BY <1>1, <2>1, <2>3
<1> QED
  BY <1>2, <1>3, <1>4, <1>5, <1>6, <1>7, <1>8, <1>9, <1>10, <1>11, <1>12, <1>13, StepKinds

\* A store that loads after a step loaded before it.
LEMMA ReadableBefore ==
  ASSUME Typed, OpsBeginReadable, [Next]_vars, Readable'
  PROVE  Readable
<1>1. ASSUME record' = record
      PROVE  Readable
  BY <1>1 DEF Readable
<1>2. ASSUME NEW r \in Requests, Session(r)
      PROVE  Readable
  <2>1. Prepared(r) \/ Validated(r) \/ Quiet
    BY <1>2, Zenon DEF Session, AuthorizeExecution, PrepareExecution, StartExecution,
       ValidateExecution, CancelExecution, ReconcileExecution, Records, Starts
  <2>2. Prepared(r) \/ Validated(r) => op # NoOp
    BY NothingIsDone DEF Prepared, Validated
  <2> QED
    BY <2>1, <2>2 DEF OpsBeginReadable, Quiet
<1>3. ASSUME NEW r \in Requests, PatchSaves(r)
      PROVE  Readable
  BY <1>3, PatchSteps, SavesAreQuiet DEF OpsBeginReadable, Quiet
<1>4. ASSUME NEW r \in Requests, SetSaves(r)
      PROVE  Readable
  BY <1>4, ChangeSetSteps, SavesAreQuiet DEF OpsBeginReadable, Quiet
<1>5. ASSUME NEW r \in Requests, Proposal(r)
      PROVE  Readable
  BY <1>5, ProposalSteps, SavesAreQuiet DEF OpsBeginReadable, Quiet
<1>6. ASSUME NEW r \in Requests, CommitSaves(r)
      PROVE  Readable
  BY <1>6, CommitSteps, SavesAreQuiet DEF OpsBeginReadable, Quiet
<1>7. ASSUME NEW r \in Requests, IntegrationSaves(r)
      PROVE  Readable
  BY <1>7, IntegrationSteps, SavesAreQuiet DEF OpsBeginReadable, Quiet
<1> QED
  BY <1>1, <1>2, <1>3, <1>4, <1>5, <1>6, <1>7, RecordsStay, StepKinds

AllStand == (\A q \in Requests : Stands(q)) /\ (Readable => \A q \in Requests : Tells(q))

LEMMA NextAllStand ==
  ASSUME Typed, AllFit, OpsBeginReadable, AllStand, [Next]_vars
  PROVE  AllStand'
<1>1. \A q \in Requests : KeepsStands(q)
  BY NextStands DEF AllStand
<1>2. Readable' => Readable
  BY ReadableBefore
<1> QED
  BY <1>1, <1>2 DEF AllStand, KeepsStands

LEMMA InitAllStand == Init => AllStand
<1> SUFFICES ASSUME Init PROVE AllStand
  OBVIOUS
<1>1. ASSUME NEW q \in Requests
      PROVE  Stands(q) /\ Tells(q)
  <2>1. PICK habit \in Habits : record = [r \in Requests |-> [NoSession EXCEPT !.uses = habit[r]]]
    BY DEF Init
  <2>2. record[q] = [NoSession EXCEPT !.uses = habit[q]]
    BY <2>1
  <2>3. record[q].patch = "none" /\ record[q].changeSet = "none" /\ record[q].commit = "none"
    BY <2>2 DEF NoSession
  <2>4. tree[q].written = {} /\ tree[q].head = {} /\ \A what \in Doings : ~At(q, what)
    BY DEF Init, At, Doing, Doings, NoOp, Undoes
  <2> QED
    BY <2>3, <2>4
       DEF Stands, Tells, CommitStands, WrittenByPatch, ChangeStands, FilesAreTheChange, Doings, Undoes
<1> QED
  BY <1>1 DEF AllStand

\* Between two operations, what is saved of a change and a commit is so.
LEMMA ChangeAndCommitTrue ==
  ASSUME AllStand, op = NoOp, Readable, NEW r \in Requests
  PROVE  ChangeIsTrue(r) /\ CommitIsTrue(r)
<1>1. Stands(r) /\ Tells(r)
  BY DEF AllStand
<1>2. \A what \in Undoes : Past(r, what) => <<r, what>> \in cut
  BY DEF Past, Doing, NoOp, Undoes
<1>3. ChangeIsTrue(r)
  BY <1>1, <1>2 DEF Tells, ChangeStands, ChangeIsTrue, Undoes
<1>4. CommitIsTrue(r)
  BY <1>1, <1>2 DEF Stands, Tells, CommitStands, FilesAreTheChange, CommitIsTrue, Undoes
<1> QED
  BY <1>3, <1>4

-----------------------------------------------------------------------------
(* Sequences of commits: which begins which, and which has none of r's.      *)

Begins(s, t) == Len(s) <= Len(t) /\ \A i \in 1..Len(s) : t[i] = s[i]
Without(r, s) == \A i \in 1..Len(s) : s[i].by # r

LEMMA BeginsIsPrefix ==
  ASSUME NEW s \in Seq(Commits), NEW t \in Seq(Commits), Begins(s, t)
  PROVE  IsPrefix(s, t)
BY DEF Begins, IsPrefix

LEMMA BeginsItself ==
  ASSUME NEW s \in Seq(Commits)
  PROVE  Begins(s, s)
BY DEF Begins

LEMMA BeginsLonger ==
  ASSUME NEW s \in Seq(Commits), NEW t \in Seq(Commits), NEW c \in Commits, Begins(s, t)
  PROVE  Begins(s, Append(t, c))
BY DEF Begins

LEMMA FrontBegins ==
  ASSUME NEW s \in Seq(Commits), s # <<>>
  PROVE  /\ Front(s) \in Seq(Commits) /\ Len(s) = Len(Front(s)) + 1 /\ Begins(Front(s), s)
         /\ Last(s) = s[Len(s)] /\ Len(s) \in Nat /\ Len(s) > 0
<1>1. Len(s) \in Nat /\ Len(s) > 0
  OBVIOUS
<1>2. Front(s) = SubSeq(s, 1, Len(s) - 1) /\ Last(s) = s[Len(s)]
  BY DEF Front, Last
<1>3. PICK n \in Nat : Len(s) = n + 1
  BY <1>1
<1>4. Front(s) = SubSeq(s, 1, n)
  BY <1>2, <1>3
<1>5. Front(s) \in Seq(Commits)
  BY <1>3, <1>4
<1>6. Len(Front(s)) = n
  BY <1>3, <1>4
<1>7. \A i \in 1..n : Front(s)[i] = s[i]
  BY <1>3, <1>4
<1> QED
  BY <1>1, <1>2, <1>3, <1>5, <1>6, <1>7 DEF Begins

LEMMA WithoutBegun ==
  ASSUME NEW r, NEW s \in Seq(Commits), NEW t \in Seq(Commits), Begins(s, t), Without(r, t)
  PROVE  Without(r, s)
BY DEF Begins, Without

LEMMA WithoutLonger ==
  ASSUME NEW r, NEW s \in Seq(Commits), NEW c \in Commits, c.by # r, Without(r, s)
  PROVE  Without(r, Append(s, c))
BY DEF Without

LEMMA BeginsThrough ==
  ASSUME NEW s \in Seq(Commits), NEW t \in Seq(Commits), NEW u \in Seq(Commits),
         Begins(s, t), Begins(t, u)
  PROVE  Begins(s, u)
BY DEF Begins

\* Of two that begin one another's way and end differently, one begins the
\* other without its end.
LEMMA BeginsFront ==
  ASSUME NEW s \in Seq(Commits), NEW t \in Seq(Commits), Begins(s, t), s # <<>>, t # <<>>,
         Last(s) # Last(t)
  PROVE  Begins(s, Front(t))
<1>1. Len(s) # Len(t)
  BY FrontBegins DEF Begins
<1>2. Len(s) <= Len(Front(t)) /\ \A i \in 1..Len(Front(t)) : Front(t)[i] = t[i]
  BY <1>1, FrontBegins DEF Begins
<1> QED
  BY <1>2, FrontBegins DEF Begins

-----------------------------------------------------------------------------
(* Receipts of integrations, and what is on the canonical branch.           *)

\* An operation that has begun and not done its work.
Busy(r, what) == Doing(r, what) /\ ~IsDone

\* What the record alone says: a receipt is of one commit over the target, and
\* r had none there when it was previewed.
Recorded(r) ==
  LET s == record[r]
  IN /\ s.integration # "none" => s.commit # "none"
     /\ s.result # <<>> => s.integration \in {"created", "undone"}
     /\ s.integration \in {"created", "undone"} =>
          s.result # <<>> /\ Front(s.result) = s.target /\ Last(s.result).files = s.files
     /\ Without(r, s.target)

\* r has nothing on the canonical branch before its cherry-pick, nor after an
\* integration that did not come to it or was undone.
NotThere(r) ==
  /\ record[r].integration \in {"none", "previewed", "approved", "undone", "interrupted"}
       => Without(r, canonical)
  /\ Busy(r, "integrate") => Without(r, canonical)

\* Over its target there is r's commit, and what others made while r worked.
Beyond(r) ==
  \A i \in 1..Len(canonical) :
    i > Len(record[r].target) => canonical[i].by = r \/ canonical[i].raced \/ Mistaken(r)
UnderWay(r) ==
  /\ At(r, "integrate") => Begins(record[r].target, canonical) /\ Beyond(r)
  /\ Busy(r, "reset") => Begins(record[r].result, canonical) /\ Beyond(r)
Lands(r) == Recorded(r) /\ NotThere(r) /\ UnderWay(r)

\* A receipt that holds begins the canonical branch, and what an operation at
\* work on it will reset it to - as long as nobody took another's commit.
Landed(r) == record[r].integration = "created" /\ ~Past(r, "reset")
HoldsOver(r) ==
  /\ Begins(record[r].result, canonical)
  /\ \A q \in Requests \ {r} :
       /\ At(q, "integrate") => Begins(record[r].result, record[q].target)
       /\ Busy(q, "reset") => Begins(record[r].result, record[q].result)
Agreed ==
  (\E q \in Requests : Mistaken(q)) \/ \A r \in Requests : Landed(r) => HoldsOver(r)

AllLand == (\A r \in Requests : Lands(r)) /\ Agreed

\* Nothing begins, ends or is forgotten that works on the canonical branch.
GoesOn(q) ==
  /\ Past(q, "reset") => Past(q, "reset")'
  /\ \A what \in {"integrate", "reset"} :
       (At(q, what)' => At(q, what)) /\ (Busy(q, what)' => Busy(q, what))

LEMMA LandStays ==
  ASSUME AllLand, canonical' = canonical, \A q \in Requests : GoesOn(q),
         \A q \in Requests :
           /\ KeepsIntegration(record[q], record'[q])
           /\ record[q].commit # "none" =>
                record'[q].commit # "none" /\ record'[q].files = record[q].files
  PROVE  AllLand'
<1>1. ASSUME NEW q \in Requests
      PROVE  Lands(q)' /\ (Mistaken(q)' <=> Mistaken(q)) /\ (Landed(q)' => Landed(q))
             /\ record'[q].result = record[q].result /\ record'[q].target = record[q].target
  <2> PICK s : s = record[q]
    OBVIOUS
  <2> PICK t : t = record'[q]
    OBVIOUS
  <2>1. /\ t.integration = s.integration /\ t.target = s.target /\ t.result = s.result
        /\ (s.commit # "none" => t.commit # "none" /\ t.files = s.files)
    BY DEF KeepsIntegration
  <2>2. Lands(q) /\ GoesOn(q)
    BY DEF AllLand
  <2>3. Recorded(q)'
    BY <2>1, <2>2 DEF Lands, Recorded, Without
  <2>4. NotThere(q)'
    BY <2>1, <2>2 DEF Lands, NotThere, GoesOn, Without
  <2>5. Mistaken(q)' <=> Mistaken(q)
    BY <2>1 DEF Mistaken
  <2>6. Beyond(q) => Beyond(q)'
    BY <2>1, <2>5 DEF Beyond
  <2>7. UnderWay(q)'
    BY <2>1, <2>2, <2>6 DEF Lands, UnderWay, GoesOn, Begins
  <2> QED
    BY <2>1, <2>2, <2>3, <2>4, <2>5, <2>7 DEF Lands, Landed, GoesOn
<1>2. Agreed'
  <2>1. CASE \E q \in Requests : Mistaken(q)
    BY <1>1, <2>1 DEF Agreed
  <2>2. CASE ~\E q \in Requests : Mistaken(q)
    <3>1. ASSUME NEW r \in Requests, Landed(r)'
          PROVE  HoldsOver(r)'
      <4>1. HoldsOver(r)
        BY <1>1, <2>2, <3>1 DEF AllLand, Agreed
      <4>2. Begins(record'[r].result, canonical')
        BY <1>1, <4>1 DEF HoldsOver
      <4>3. ASSUME NEW q \in Requests \ {r}
            PROVE  /\ At(q, "integrate")' => Begins(record'[r].result, record'[q].target)
                   /\ Busy(q, "reset")' => Begins(record'[r].result, record'[q].result)
        BY <1>1, <4>1 DEF HoldsOver, GoesOn
      <4> QED
        BY <4>2, <4>3 DEF HoldsOver, Begins
    <3> QED
      BY <3>1 DEF Agreed
  <2> QED
    BY <2>1, <2>2
<1> QED
  BY <1>1, <1>2 DEF AllLand

\* Work on something else than the canonical branch.
LEMMA GoesOnElsewhere ==
  ASSUME NEW q, cut' = cut, op = NoOp \/ op.doing \notin {"integrate", "reset"},
         op' = NoOp \/ op'.doing \notin {"integrate", "reset"}
  PROVE  GoesOn(q)
BY DEF GoesOn, Past, At, Busy, Doing, NoOp

LEMMA LandElsewhere ==
  ASSUME Typed, AllLand, canonical' = canonical, cut' = cut,
         op = NoOp \/ op.doing \notin {"integrate", "reset"},
         op' = NoOp \/ op'.doing \notin {"integrate", "reset"},
         \/ record' = record
         \/ \E r \in Requests, t \in Sessions :
              /\ Becomes(r, t) /\ KeepsIntegration(record[r], t)
              /\ record[r].commit # "none" => t.commit # "none" /\ t.files = record[r].files
  PROVE  AllLand'
<1>1. \A q \in Requests : GoesOn(q)
  BY GoesOnElsewhere
<1>2. CASE record' = record
  BY <1>1, <1>2, LandStays DEF KeepsIntegration
<1>3. ASSUME NEW r \in Requests, NEW t \in Sessions,
             /\ Becomes(r, t) /\ KeepsIntegration(record[r], t)
             /\ record[r].commit # "none" => t.commit # "none" /\ t.files = record[r].files
      PROVE  AllLand'
  <2>1. record'[r] = t /\ \A q \in Requests : q # r => record'[q] = record[q]
    BY <1>3 DEF Typed, StateTyped, Becomes
  <2>2. ASSUME NEW q \in Requests
        PROVE  /\ KeepsIntegration(record[q], record'[q])
               /\ record[q].commit # "none" =>
                    record'[q].commit # "none" /\ record'[q].files = record[q].files
    BY <1>3, <2>1 DEF KeepsIntegration
  <2> QED
    BY <1>1, <2>2, LandStays
<1> QED
  BY <1>2, <1>3

\* The canonical branch grows by one commit.
LEMMA LandLonger ==
  ASSUME Typed, AllLand, NEW c \in Commits, canonical' = Append(canonical, c), record' = record,
         c.by \notin Requests, \A r \in Requests : At(r, "integrate") \/ Busy(r, "reset") => c.raced,
         op' = op, cut' = cut
  PROVE  AllLand'
<1>0. canonical \in Seq(Commits)
      /\ \A q \in Requests : record[q].target \in Seq(Commits) /\ record[q].result \in Seq(Commits)
  BY DEF Typed, StateTyped, Sessions
<1>1. /\ \A q \in Requests : (Mistaken(q)' <=> Mistaken(q)) /\ (Recorded(q)' <=> Recorded(q))
      /\ \A q, what : /\ Past(q, what)' <=> Past(q, what)
                      /\ At(q, what)' <=> At(q, what)
                      /\ Busy(q, what)' <=> Busy(q, what)
  BY DEF Mistaken, Recorded, Past, At, Busy, Doing, IsDone, Without
<1>2. ASSUME NEW q \in Requests
      PROVE  Lands(q)'
  <2>1. Without(q, canonical) => Without(q, canonical)'
    BY <1>0, WithoutLonger
  <2>2. NotThere(q)'
    BY <1>1, <2>1 DEF AllLand, Lands, NotThere
  <2>3. \A s \in Seq(Commits) : Begins(s, canonical) => Begins(s, canonical')
    BY <1>0, BeginsLonger
  <2>4. Beyond(q) /\ (At(q, "integrate") \/ Busy(q, "reset")) => Beyond(q)'
    BY <1>0, <1>1 DEF Beyond
  <2>5. UnderWay(q)'
    BY <1>0, <1>1, <2>3, <2>4 DEF AllLand, Lands, UnderWay
  <2> QED
    BY <1>1, <2>2, <2>5 DEF AllLand, Lands
<1>3. Agreed'
  <2>1. \A s \in Seq(Commits) : Begins(s, canonical) => Begins(s, canonical')
    BY <1>0, BeginsLonger
  <2> QED
    BY <1>0, <1>1, <2>1 DEF AllLand, Agreed, Landed, HoldsOver
<1> QED
  BY <1>2, <1>3 DEF AllLand

LEMMA SequencesTyped ==
  ASSUME Typed
  PROVE  /\ canonical \in Seq(Commits)
         /\ \A q \in Requests : /\ record[q].target \in Seq(Commits)
                                /\ record[q].result \in Seq(Commits)
                                /\ record[q].files \in SUBSET Files
BY DEF Typed, StateTyped, Sessions

\* A save of r's integration.
LEMMA LandSaved ==
  ASSUME Typed, AllLand, NEW r \in Requests, NEW t \in Sessions, Becomes(r, t),
         IntegrationMoves(r, t), UNCHANGED <<tree, canonical, cut>>
  PROVE  AllLand'
<1> PICK s : s = record[r]
  OBVIOUS
<1>0. /\ canonical \in Seq(Commits) /\ s.target \in Seq(Commits) /\ s.result \in Seq(Commits)
      /\ t.target \in Seq(Commits) /\ t.result \in Seq(Commits)
  BY SequencesTyped DEF Sessions
<1>1. record'[r] = t /\ \A q \in Requests : q # r => record'[q] = record[q]
  BY DEF Typed, StateTyped, Becomes
<1>2. /\ t.commit = s.commit /\ t.files = s.files
      /\ op' = NoOp \/ (op'.doing = "integrate" /\ op'.for = r /\ op'.stage = "begun"
                        /\ Quiet /\ s.integration = "approved" /\ t.integration = "creating"
                        /\ t.target = s.target /\ t.result = s.result)
      /\ op = NoOp \/ op.for = r
  BY DEF IntegrationMoves, OnlyIntegration, KeepsCommit, Does, Quiet, Doing
<1>3. Lands(r)
  BY DEF AllLand
<1>4. \A q \in Requests : ~At(q, "integrate")' /\ ~At(q, "reset")' /\ ~Busy(q, "reset")'
  BY <1>2 DEF At, Busy, Doing, IsDone, NoOp
<1>5. Lands(r)'
  <2>1. Busy(r, "integrate")' => s.integration = "approved" /\ t.integration = "creating"
                                 /\ t.target = s.target /\ t.result = s.result
    BY <1>2 DEF Busy, Doing, NoOp
  <2>2. CASE /\ s.integration = "none" /\ t.integration = "previewed" /\ op' = NoOp
             /\ s.commit = "created" /\ t.target = canonical /\ t.result = s.result
    BY <1>1, <1>2, <1>3, <1>4, <2>1, <2>2 DEF Lands, Recorded, NotThere, UnderWay, Without
  <2>3. CASE /\ t.target = s.target /\ t.result = s.result
             /\ \/ s.integration = "previewed" /\ t.integration = "approved"
                \/ s.integration = "approved" /\ t.integration = "creating"
                \/ /\ canonical = s.target
                   /\ s.integration = "creating" /\ t.integration = "interrupted"
                \/ /\ canonical = s.target
                   /\ s.integration = "created" /\ t.integration = "undone"
    BY <1>1, <1>2, <1>3, <1>4, <2>1, <2>3 DEF Lands, Recorded, NotThere, UnderWay, Without
  <2>4. CASE /\ s.integration = "creating" /\ t.integration = "created"
             /\ OverTarget(r) /\ t.target = s.target /\ t.result = canonical
    BY <1>1, <1>2, <1>3, <1>4, <2>1, <2>4
       DEF Lands, Recorded, NotThere, UnderWay, Without, OverTarget
  <2> QED
    BY <2>2, <2>3, <2>4 DEF IntegrationMoves
<1>6. ASSUME NEW q \in Requests, q # r
      PROVE  Lands(q)' /\ (Landed(q)' => Landed(q)) /\ (Mistaken(q)' <=> Mistaken(q))
  <2>1. GoesOn(q) /\ Lands(q)
    BY <1>2, <1>6 DEF GoesOn, Past, At, Busy, Doing, NoOp, AllLand
  <2>2. Recorded(q)' /\ (Mistaken(q)' <=> Mistaken(q))
    BY <1>1, <1>6, <2>1 DEF Lands, Recorded, Mistaken, Without
  <2>3. NotThere(q)'
    BY <1>1, <1>6, <2>1 DEF Lands, NotThere, GoesOn, Without
  <2>4. UnderWay(q)'
    BY <1>4 DEF UnderWay
  <2> QED
    BY <1>1, <1>6, <2>1, <2>2, <2>3, <2>4 DEF Lands, Landed, GoesOn
<1>7. Mistaken(r) => Mistaken(r)'
  <2>1. s.result # <<>> => t.result = s.result
    BY <1>3 DEF Lands, Recorded, IntegrationMoves
  <2> QED
    BY <1>1, <2>1 DEF Mistaken
<1>8. Agreed'
  <2>1. CASE \E q \in Requests : Mistaken(q)
    BY <1>6, <1>7, <2>1 DEF Agreed
  <2>2. CASE ~\E q \in Requests : Mistaken(q)
    <3>1. ASSUME NEW q \in Requests, Landed(q)'
          PROVE  HoldsOver(q)'
      <4>1. CASE q # r
        <5>1. Begins(record[q].result, canonical) /\ record'[q] = record[q]
          BY <1>1, <1>6, <2>2, <3>1, <4>1 DEF AllLand, Agreed, HoldsOver
        <5> QED
          BY <1>4, <5>1 DEF HoldsOver, Begins
      <4>2. CASE q = r
        <5>1. t.integration = "created"
          BY <1>1, <3>1, <4>2 DEF Landed
        <5>2. t.result = canonical
          BY <5>1 DEF IntegrationMoves
        <5>3. Begins(record'[q].result, canonical')
          BY <1>0, <1>1, <4>2, <5>2, BeginsItself
        <5> QED
          BY <1>4, <5>3 DEF HoldsOver, Begins
      <4> QED
        BY <4>1, <4>2
    <3> QED
      BY <3>1 DEF Agreed
  <2> QED
    BY <2>1, <2>2
<1> QED
  BY <1>5, <1>6, <1>8 DEF AllLand

LEMMA LandUndoBegins ==
  ASSUME Typed, AllLand, NEW r \in Requests, UndoIntegration(r)
  PROVE  AllLand'
<1>0. /\ canonical \in Seq(Commits)
      /\ \A q \in Requests : record[q].target \in Seq(Commits) /\ record[q].result \in Seq(Commits)
  BY SequencesTyped
<1>1. /\ op = NoOp /\ op' = [doing |-> "reset", for |-> r, stage |-> "begun"]
      /\ record[r].integration = "created" /\ canonical = record[r].result
      /\ UNCHANGED <<record, tree, canonical, cut>>
  BY DEF UndoIntegration, Quiet, Does
<1>2. /\ \A q \in Requests : ~At(q, "integrate")' /\ ~Busy(q, "integrate")' /\ ~At(q, "reset")'
      /\ \A q \in Requests : Busy(q, "reset")' => q = r
      /\ \A q \in Requests : Past(q, "reset")' <=> Past(q, "reset")
  BY <1>1 DEF At, Busy, Past, Doing, IsDone, NoOp
<1>3. Recorded(r) /\ record[r].result # <<>> /\ Front(record[r].result) = record[r].target
  BY <1>1 DEF AllLand, Lands, Recorded
<1>4. Beyond(r)
  <2>1. Len(canonical) = Len(record[r].target) + 1 /\ Last(canonical) = canonical[Len(canonical)]
    BY <1>0, <1>1, <1>3, FrontBegins
  <2>2. Mistaken(r) \/ canonical[Len(canonical)].by = r
    BY <1>1, <1>3, <2>1 DEF Mistaken
  <2>3. \A i \in 1..Len(canonical) : i > Len(record[r].target) => i = Len(canonical)
    BY <1>0, <2>1
  <2> QED
    BY <2>2, <2>3 DEF Beyond
<1>5. Begins(record[r].result, canonical)
  BY <1>0, <1>1, BeginsItself
<1>6. ASSUME NEW q \in Requests
      PROVE  Lands(q)' /\ (Landed(q)' <=> Landed(q)) /\ (Mistaken(q)' <=> Mistaken(q))
  <2>1. Lands(q)
    BY DEF AllLand
  <2>2. Recorded(q)' /\ NotThere(q)' /\ (Mistaken(q)' <=> Mistaken(q)) /\ (Beyond(q)' <=> Beyond(q))
    BY <1>1, <1>2, <2>1 DEF Lands, Recorded, NotThere, Mistaken, Without, Beyond
  <2>3. UnderWay(q)'
    BY <1>1, <1>2, <1>4, <1>5, <2>2 DEF UnderWay, Begins
  <2> QED
    BY <1>1, <1>2, <2>2, <2>3 DEF Lands, Landed
<1>7. Agreed'
  <2>1. CASE \E q \in Requests : Mistaken(q)
    BY <1>6, <2>1 DEF Agreed
  <2>2. CASE ~\E q \in Requests : Mistaken(q)
    <3>1. ASSUME NEW q \in Requests, Landed(q)'
          PROVE  HoldsOver(q)'
      <4>1. Begins(record[q].result, canonical)
        BY <1>6, <2>2, <3>1 DEF AllLand, Agreed, HoldsOver
      <4> QED
        BY <1>1, <1>2, <4>1 DEF HoldsOver, Begins
    <3> QED
      BY <3>1 DEF Agreed
  <2> QED
    BY <2>1, <2>2
<1> QED
  BY <1>6, <1>7 DEF AllLand

LEMMA LandPicked ==
  ASSUME Typed, AllLand, NEW r \in Requests, CherryPick(r)
  PROVE  AllLand'
<1>0. /\ canonical \in Seq(Commits)
      /\ \A q \in Requests : record[q].target \in Seq(Commits) /\ record[q].result \in Seq(Commits)
  BY SequencesTyped
<1>1. PICK c \in Commits : c = [by |-> r, files |-> record[r].files, raced |-> FALSE]
  BY SequencesTyped DEF Commits
<1>2. /\ canonical = record[r].target /\ canonical' = Append(canonical, c) /\ c.by = r
      /\ UNCHANGED <<record, tree, cut>> /\ Busy(r, "integrate") /\ op.doing = "integrate"
      /\ record[r].integration = "creating"
  BY <1>1 DEF CherryPick, Busy, Doing, IsDone, Typed, SavedAs
<1>3. op'.doing = "integrate" /\ op'.for = r /\ op'.stage = "done"
  BY <1>2, DoneWorks DEF Typed, Busy, Doing
<1>4. /\ \A q \in Requests : ~Busy(q, "integrate")' /\ ~Busy(q, "reset")'
      /\ \A q \in Requests : At(q, "integrate")' => q = r
      /\ \A q \in Requests : Past(q, "reset")' <=> Past(q, "reset")
  BY <1>2, <1>3 DEF At, Busy, Past, Doing, IsDone
<1>5. Begins(record[r].target, canonical') /\ Beyond(r)'
  <2>1. Begins(canonical, canonical')
    BY <1>0, <1>2, BeginsItself, BeginsLonger
  <2>2. \A i \in 1..Len(canonical') : i > Len(canonical) => canonical'[i].by = r
    BY <1>0, <1>2
  <2> QED
    BY <1>2, <2>1, <2>2 DEF Beyond
<1>6. ASSUME NEW q \in Requests
      PROVE  Lands(q)' /\ (Landed(q)' <=> Landed(q)) /\ (Mistaken(q)' <=> Mistaken(q))
  <2>1. Lands(q)
    BY DEF AllLand
  <2>2. Recorded(q)' /\ (Mistaken(q)' <=> Mistaken(q)) /\ (Landed(q)' <=> Landed(q))
    BY <1>2, <1>4, <2>1 DEF Lands, Recorded, Mistaken, Without, Landed
  <2>3. NotThere(q)'
    <3>1. q # r /\ Without(q, canonical) => Without(q, Append(canonical, c))
      BY <1>0, <1>2, WithoutLonger
    <3>2. q # r /\ Without(q, canonical) => Without(q, canonical)'
      BY <1>2, <3>1
    <3> QED
      BY <1>2, <1>4, <2>1, <3>2 DEF Lands, NotThere
  <2>4. UnderWay(q)'
    BY <1>2, <1>4, <1>5 DEF UnderWay, Begins
  <2> QED
    BY <2>2, <2>3, <2>4 DEF Lands
<1>7. Agreed'
  <2>1. CASE \E q \in Requests : Mistaken(q)
    BY <1>6, <2>1 DEF Agreed
  <2>2. CASE ~\E q \in Requests : Mistaken(q)
    <3>1. ASSUME NEW q \in Requests, Landed(q)'
          PROVE  HoldsOver(q)'
      <4>1. Begins(record[q].result, canonical)
        BY <1>6, <2>2, <3>1 DEF AllLand, Agreed, HoldsOver
      <4>2. Begins(record[q].result, canonical')
        BY <1>0, <1>2, <4>1, BeginsLonger
      <4> QED
        BY <1>2, <1>4, <4>1, <4>2 DEF HoldsOver, Begins
    <3> QED
      BY <3>1 DEF Agreed
  <2> QED
    BY <2>1, <2>2
<1> QED
  BY <1>6, <1>7 DEF AllLand

\* The canonical branch goes back to r's target: at an undo that has its commit
\* under what others made meanwhile, or at an integration that found something
\* else than its commit.
Shrinks(r) == Reset(r) \/ GivesUp(r)

LEMMA ShrinksWithinBounds ==
  ASSUME Typed, AllLand, NEW r \in Requests, Shrinks(r)
  PROVE  /\ canonical' = record[r].target /\ Begins(canonical', canonical) /\ Beyond(r)
         /\ op.for = r /\ UNCHANGED <<record, tree, cut>>
         /\ op.doing \in {"integrate", "reset"}
         /\ op' = NoOp \/ (op.doing = "reset" /\ op'.doing = "reset" /\ op'.for = r
                           /\ op'.stage = "done")
<1>0. /\ canonical \in Seq(Commits)
      /\ \A q \in Requests : record[q].target \in Seq(Commits) /\ record[q].result \in Seq(Commits)
  BY SequencesTyped
<1>1. /\ canonical' = record[r].target /\ op.for = r /\ UNCHANGED <<record, tree, cut>>
      /\ op.doing \in {"integrate", "reset"}
  BY DEF Shrinks, Reset, GivesUp, IntegrationCreated, Doing
<1>2. UnderWay(r) /\ Recorded(r)
  BY DEF AllLand, Lands
<1>3. CASE Reset(r)
  <2>1. Busy(r, "reset") /\ record[r].integration = "created"
    BY <1>3 DEF Reset, Busy, IsDone, Typed, SavedAs
  <2>2. Begins(record[r].result, canonical) /\ Beyond(r)
    BY <1>2, <2>1 DEF UnderWay
  <2>3. record[r].result # <<>> /\ Front(record[r].result) = record[r].target
    BY <1>2, <2>1 DEF Recorded
  <2>4. Begins(record[r].target, canonical)
    BY <1>0, <2>2, <2>3, FrontBegins, BeginsThrough
  <2>5. op'.doing = op.doing /\ op'.for = r /\ op'.stage = "done" /\ op.doing = "reset"
    BY <1>3, DoneWorks DEF Typed, Reset, Doing
  <2> QED
    BY <1>1, <2>2, <2>4, <2>5
<1>4. CASE GivesUp(r)
  <2>1. At(r, "integrate") /\ op' = NoOp
    BY <1>4 DEF GivesUp, IntegrationCreated, At
  <2> QED
    BY <1>1, <1>2, <2>1 DEF UnderWay
<1> QED
  BY <1>3, <1>4 DEF Shrinks

LEMMA LandShrinks ==
  ASSUME Typed, AllLand, NEW r \in Requests, Shrinks(r)
  PROVE  AllLand'
<1>0. /\ canonical \in Seq(Commits) /\ canonical' \in Seq(Commits)
      /\ \A q \in Requests : record[q].target \in Seq(Commits) /\ record[q].result \in Seq(Commits)
  BY SequencesTyped, ShrinksWithinBounds
<1>1. /\ canonical' = record[r].target /\ Begins(canonical', canonical)
      /\ op.for = r /\ UNCHANGED <<record, tree, cut>>
      /\ op' = NoOp \/ (op'.doing = "reset" /\ op'.for = r /\ op'.stage = "done")
  BY ShrinksWithinBounds
<1>2. /\ \A q \in Requests : ~Busy(q, "integrate")' /\ ~Busy(q, "reset")' /\ ~At(q, "integrate")'
      /\ \A q \in Requests : q # r /\ Past(q, "reset") => Past(q, "reset")'
  BY <1>1 DEF At, Busy, Past, Doing, IsDone, NoOp
<1>3. ~Landed(r)'
  <2>1. CASE Reset(r)
    <3>1. Past(r, "reset")'
      BY <2>1, DoneWorks DEF Typed, Reset, Doing, Past
    <3> QED
      BY <3>1 DEF Landed
  <2>2. CASE GivesUp(r)
    <3>1. record'[r].integration = "creating"
      BY <1>1, <2>2 DEF GivesUp, IntegrationCreated, Typed, SavedAs
    <3> QED
      BY <3>1 DEF Landed
  <2> QED
    BY <2>1, <2>2 DEF Shrinks
<1>4. ASSUME NEW q \in Requests
      PROVE  Lands(q)' /\ (q # r /\ Landed(q)' => Landed(q)) /\ (Mistaken(q)' <=> Mistaken(q))
  <2>1. Lands(q)
    BY DEF AllLand
  <2>2. Recorded(q)' /\ (Mistaken(q)' <=> Mistaken(q)) /\ (q # r /\ Landed(q)' => Landed(q))
    BY <1>1, <1>2, <2>1 DEF Lands, Recorded, Mistaken, Without, Landed
  <2>3. NotThere(q)'
    <3>1. Without(q, canonical) => Without(q, canonical)'
      BY <1>0, <1>1, WithoutBegun DEF Without
    <3> QED
      BY <1>1, <1>2, <2>1, <3>1 DEF Lands, NotThere
  <2>4. UnderWay(q)'
    BY <1>2 DEF UnderWay
  <2> QED
    BY <2>2, <2>3, <2>4 DEF Lands
<1>5. Agreed'
  <2>1. CASE \E q \in Requests : Mistaken(q)
    BY <1>4, <2>1 DEF Agreed
  <2>2. CASE ~\E q \in Requests : Mistaken(q)
    <3>1. ASSUME NEW q \in Requests, Landed(q)'
          PROVE  HoldsOver(q)'
      <4>1. q # r /\ HoldsOver(q) /\ record[q].integration = "created"
        BY <1>3, <1>4, <2>2, <3>1 DEF AllLand, Agreed, Landed
      <4>2. Begins(record[q].result, canonical')
        <5>1. CASE Reset(r)
          <6>1. Busy(r, "reset") /\ record[r].integration = "created"
            BY <5>1 DEF Reset, Busy, IsDone, Typed, SavedAs
          <6>2. Begins(record[q].result, record[r].result)
            BY <4>1, <6>1 DEF HoldsOver
          <6>3. /\ record[r].result # <<>> /\ Front(record[r].result) = record[r].target
                /\ record[q].result # <<>>
            BY <4>1, <6>1 DEF AllLand, Lands, Recorded
          <6>4. Last(record[q].result) # Last(record[r].result)
            BY <2>2, <4>1, <6>3 DEF Mistaken
          <6> QED
            BY <1>0, <1>1, <6>2, <6>3, <6>4, BeginsFront
        <5>2. CASE GivesUp(r)
          <6>1. At(r, "integrate")
            BY <5>2 DEF GivesUp, IntegrationCreated, At
          <6> QED
            BY <1>1, <4>1, <6>1 DEF HoldsOver
        <5> QED
          BY <5>1, <5>2 DEF Shrinks
      <4> QED
        BY <1>1, <1>2, <4>2 DEF HoldsOver, Begins
    <3> QED
      BY <3>1 DEF Agreed
  <2> QED
    BY <2>1, <2>2
<1> QED
  BY <1>4, <1>5 DEF AllLand

LEMMA LandOwnerCommits ==
  ASSUME Typed, AllLand, OwnerCommits
  PROVE  AllLand'
<1>1. PICK files \in (SUBSET Files) \ {{}} :
        canonical' = Append(canonical,
          [by |-> "owner", files |-> files, raced |-> op.doing \in {"integrate", "reset"}])
  BY DEF OwnerCommits
<1>2. PICK raced \in BOOLEAN : raced = (op.doing \in {"integrate", "reset"})
  <2>1. (op.doing \in {"integrate", "reset"}) \in BOOLEAN
    OBVIOUS
  <2> QED
    BY <2>1, Zenon
<1>3. PICK c \in Commits : c = [by |-> "owner", files |-> files, raced |-> raced]
  BY DEF Commits
<1>4. canonical' = Append(canonical, c) /\ c.by \notin Requests
      /\ (op.doing \in {"integrate", "reset"} => c.raced)
  BY <1>1, <1>2, <1>3, LocalRequestsAssumption
<1>5. \A q \in Requests : At(q, "integrate") \/ Busy(q, "reset") => c.raced
  BY <1>4 DEF At, Busy, Doing
<1>6. record' = record /\ op' = op /\ cut' = cut
  BY DEF OwnerCommits
<1> QED
  BY <1>4, <1>5, <1>6, LandLonger

LEMMA NextLand ==
  ASSUME Typed, AllLand, [Next]_vars
  PROVE  AllLand'
<1>0. StateTyped
  BY DEF Typed
<1>1. CASE UNCHANGED vars
  <2>1. record' = record /\ canonical' = canonical /\ op' = op /\ cut' = cut
    BY <1>1 DEF vars
  <2>2. \A q \in Requests : GoesOn(q)
    BY <2>1 DEF GoesOn, Past, At, Busy, Doing, IsDone
  <2> QED
    BY <2>1, <2>2, LandStays DEF KeepsIntegration
<1>2. CASE Cut
  <2>1. record' = record /\ canonical' = canonical
    BY <1>2 DEF Cut
  <2>2. ASSUME NEW q \in Requests
        PROVE  GoesOn(q)
    <3>1. \A what \in {"integrate", "reset"} : ~At(q, what)' /\ ~Busy(q, what)'
      BY <1>2 DEF Cut, At, Busy, Doing, NoOp
    <3>2. Past(q, "reset") => <<q, "reset">> \in cut'
      BY <1>2 DEF Cut, Past, Doing, Undoes
    <3> QED
      BY <3>1, <3>2 DEF GoesOn, Past
  <2> QED
    BY <2>1, <2>2, LandStays DEF KeepsIntegration
<1>3. CASE OwnerCommits
  BY <1>3, LandOwnerCommits
<1>4. ASSUME NEW r \in Requests, Session(r)
      PROVE  AllLand'
  <2>1. PICK t \in Sessions :
          /\ Becomes(r, t) /\ MovesSession(record[r], t) /\ UNCHANGED <<tree, canonical, cut>>
          /\ \/ op' = NoOp
             \/ Does(r, "prepare") \/ Does(r, "validate")
    BY <1>4, SessionSteps
  <2>2. op = NoOp \/ op.doing \notin {"integrate", "reset"}
    BY <1>4 DEF Session, AuthorizeExecution, PrepareExecution, Prepared, StartExecution,
       ValidateExecution, Validated, CancelExecution, ReconcileExecution, Records, Starts, Quiet,
       Doing
  <2>3. op' = NoOp \/ op'.doing \notin {"integrate", "reset"}
    BY <2>1 DEF Does
  <2>4. KeepsIntegration(record[r], t) /\ KeepsCommit(record[r], t)
    BY <2>1 DEF MovesSession, OnlySession
  <2> QED
    BY <2>1, <2>2, <2>3, <2>4, LandElsewhere DEF KeepsCommit
<1>5. ASSUME NEW r \in Requests, PatchSaves(r)
      PROVE  AllLand'
  <2>1. PICK t \in Sessions : Becomes(r, t) /\ PatchMoves(r, t) /\ UNCHANGED <<tree, canonical, cut>>
    BY <1>5, PatchSteps
  <2>2. /\ op = NoOp \/ op.doing \notin {"integrate", "reset"}
        /\ op' = NoOp \/ op'.doing \notin {"integrate", "reset"}
        /\ KeepsIntegration(record[r], t) /\ KeepsCommit(record[r], t)
    BY <2>1 DEF PatchMoves, OnlyChange, Quiet, Doing, Does
  <2> QED
    BY <2>1, <2>2, LandElsewhere DEF KeepsCommit
<1>6. ASSUME NEW r \in Requests, SetSaves(r)
      PROVE  AllLand'
  <2>1. PICK t \in Sessions : Becomes(r, t) /\ SetMoves(r, t) /\ UNCHANGED <<tree, canonical, cut>>
    BY <1>6, ChangeSetSteps
  <2>2. /\ op = NoOp \/ op.doing \notin {"integrate", "reset"}
        /\ op' = NoOp \/ op'.doing \notin {"integrate", "reset"}
        /\ KeepsIntegration(record[r], t) /\ KeepsCommit(record[r], t)
    BY <2>1 DEF SetMoves, OnlyChange, Quiet, Doing, Does
  <2> QED
    BY <2>1, <2>2, LandElsewhere DEF KeepsCommit
<1>7. ASSUME NEW r \in Requests, Proposal(r)
      PROVE  AllLand'
  <2>1. PICK t \in Sessions :
          Becomes(r, t) /\ ProposalMoves(r, t) /\ UNCHANGED <<tree, canonical, cut>>
    BY <1>7, ProposalSteps
  <2>2. /\ op = NoOp /\ op' = NoOp
        /\ KeepsIntegration(record[r], t) /\ KeepsCommit(record[r], t)
    BY <2>1 DEF ProposalMoves, OnlyProposal, Quiet
  <2> QED
    BY <2>1, <2>2, LandElsewhere DEF KeepsCommit
<1>8. ASSUME NEW r \in Requests, CommitSaves(r)
      PROVE  AllLand'
  <2>1. PICK t \in Sessions :
          Becomes(r, t) /\ CommitMoves(r, t) /\ UNCHANGED <<tree, canonical, cut>>
    BY <1>8, CommitSteps
  <2>2. /\ op = NoOp \/ op.doing \notin {"integrate", "reset"}
        /\ op' = NoOp \/ op'.doing \notin {"integrate", "reset"}
        /\ KeepsIntegration(record[r], t)
        /\ record[r].commit # "none" => t.commit # "none" /\ t.files = record[r].files
    BY <2>1 DEF CommitMoves, OnlyCommit, Quiet, Doing, Does
  <2> QED
    BY <2>1, <2>2, LandElsewhere
<1>9. ASSUME NEW r \in Requests, IntegrationSaves(r)
      PROVE  AllLand'
  BY <1>9, IntegrationSteps, LandSaved
<1>10. ASSUME NEW r \in Requests, BeginsUndo(r)
       PROVE  AllLand'
  <2>1. CASE UndoIntegration(r)
    BY <2>1, LandUndoBegins
  <2>2. CASE ~UndoIntegration(r)
    <3>1. /\ op = NoOp /\ UNCHANGED <<record, tree, canonical, cut>>
          /\ Does(r, "unpatch") \/ Does(r, "unset") \/ Does(r, "uncommit")
      BY <1>10, <2>2 DEF BeginsUndo, RollbackPatch, RollbackChangeSet, UndoCommit, Quiet
    <3>2. op'.doing \notin {"integrate", "reset"}
      BY <3>1 DEF Does
    <3> QED
      BY <3>1, <3>2, LandElsewhere
  <2> QED
    BY <2>1, <2>2
<1>11. ASSUME NEW r \in Requests, WriteFile(r) \/ RestoreFile(r)
       PROVE  AllLand'
  <2>1. /\ op'.doing = op.doing /\ UNCHANGED <<record, canonical, cut>>
        /\ op.doing \in {"patch", "changeSet", "unpatch", "unset"}
    BY <1>0, <1>11, WriteFileWorks, RestoreFileWorks
  <2> QED
    BY <2>1, LandElsewhere
<1>12. ASSUME NEW r \in Requests, Commit(r) \/ Uncommit(r)
       PROVE  AllLand'
  <2>1. /\ op'.doing = op.doing /\ UNCHANGED <<record, cut>>
    BY <1>0, <1>12, DoneWorks
  <2>2. canonical' = canonical /\ op.doing \in {"commit", "uncommit"}
    BY <1>12 DEF Commit, Uncommit, Doing
  <2> QED
    BY <2>1, <2>2, LandElsewhere
<1> QED
  BY <1>1, <1>2, <1>3, <1>4, <1>5, <1>6, <1>7, <1>8, <1>9, <1>10, <1>11, <1>12, LandPicked,
     LandShrinks, StepKinds DEF Shrinks

LEMMA InitLand == Init => AllLand
<1> SUFFICES ASSUME Init PROVE AllLand
  OBVIOUS
<1>1. ASSUME NEW q \in Requests
      PROVE  Lands(q) /\ ~Landed(q)
  <2>1. PICK habit \in Habits : record = [r \in Requests |-> [NoSession EXCEPT !.uses = habit[r]]]
    BY DEF Init
  <2>2. record[q] = [NoSession EXCEPT !.uses = habit[q]]
    BY <2>1
  <2>3. record[q].integration = "none" /\ record[q].target = <<>> /\ record[q].result = <<>>
    BY <2>2 DEF NoSession
  <2>4. canonical = <<>> /\ \A what \in Doings : ~Doing(q, what)
    BY DEF Init, Doing, Doings, NoOp, Undoes
  <2>5. Without(q, <<>>)
    BY DEF Without
  <2> QED
    BY <2>3, <2>4, <2>5
       DEF Lands, Landed, Recorded, NotThere, UnderWay, At, Busy, Doings, Undoes
<1> QED
  BY <1>1 DEF AllLand, Agreed

\* Between two operations, what is saved of an integration is so.
LEMMA IntegrationTrue ==
  ASSUME Typed, AllLand, op = NoOp, NEW r \in Requests
  PROVE  IntegrationIsTrue(r)
<1>0. canonical \in Seq(Commits) /\ record[r].result \in Seq(Commits)
  BY SequencesTyped
<1>1. Lands(r)
  BY DEF AllLand
<1>2. ASSUME record[r].integration = "created", <<r, "reset">> \notin cut,
             ~\E q \in Requests : Mistaken(q)
      PROVE  IsPrefix(record[r].result, canonical) /\ Last(record[r].result).files = record[r].files
  <2>1. Landed(r)
    BY <1>2 DEF Landed, Past, Doing, NoOp
  <2>2. Begins(record[r].result, canonical)
    BY <1>2, <2>1 DEF AllLand, Agreed, HoldsOver
  <2> QED
    BY <1>0, <1>1, <1>2, <2>2, BeginsIsPrefix DEF Lands, Recorded
<1>3. ASSUME record[r].integration \in {"undone", "interrupted"}
      PROVE  \A i \in DOMAIN canonical : canonical[i].by # r
  BY <1>0, <1>1, <1>3 DEF Lands, NotThere, Without
<1> QED
  BY <1>2, <1>3 DEF IntegrationIsTrue

RInv == Typed /\ AllFit /\ OpsBeginReadable /\ AllStand /\ AllLand

LEMMA RInvHolds == Spec => []RInv
<1>1. Init => RInv
  BY InitTyped, InitFits, InitAllStand, InitLand DEF RInv
<1>2. RInv /\ [Next]_vars => RInv'
  BY NextStateTyped, NextSavedAs, NextFits, NextBeginsReadable, NextAllStand, NextLand
     DEF RInv, Typed
<1> QED
  BY <1>1, <1>2, PTL DEF Spec

\* Whenever the store loads, what it says of changes, commits and integrations is
\* so in the worktrees and on the canonical branch, for any number of requests,
\* any files and any end of the process between work and save.
THEOREM RequestReceiptsTrue == Spec => []ReceiptsAreTrue
<1>1. RInv => ReceiptsAreTrue
  BY ChangeAndCommitTrue, IntegrationTrue DEF RInv, ReceiptsAreTrue
<1> QED
  BY <1>1, RInvHolds, PTL

\* A step takes off the canonical branch only what the request itself put there
\* or what was made while its operation was at work - unless reconciliation took
\* another's commit for the request's.
THEOREM OthersCommitsStay == Spec => OthersCommitsSurvive
<1>1. ASSUME RInv, [Next]_vars, NEW i \in DOMAIN canonical
      PROVE  \/ i \in DOMAIN canonical' /\ canonical'[i] = canonical[i]
             \/ canonical[i].raced \/ canonical[i].by = op.for \/ Mistaken(op.for)
  <2>0. Typed /\ AllLand /\ canonical \in Seq(Commits) /\ i \in 1..Len(canonical)
    BY <1>1, SequencesTyped DEF RInv
  <2>1. ASSUME canonical' = canonical
        PROVE  i \in DOMAIN canonical' /\ canonical'[i] = canonical[i]
    BY <2>1
  <2>2. ASSUME NEW c, canonical' = Append(canonical, c)
        PROVE  i \in DOMAIN canonical' /\ canonical'[i] = canonical[i]
    BY <2>0, <2>2
  <2>3. ASSUME NEW r \in Requests, Shrinks(r)
        PROVE  \/ i \in DOMAIN canonical' /\ canonical'[i] = canonical[i]
               \/ canonical[i].raced \/ canonical[i].by = op.for \/ Mistaken(op.for)
    <3>1. /\ canonical' = record[r].target /\ Begins(canonical', canonical) /\ Beyond(r)
          /\ op.for = r /\ canonical' \in Seq(Commits)
      BY <2>0, <2>3, ShrinksWithinBounds, SequencesTyped
    <3>2. CASE i <= Len(canonical')
      BY <2>0, <3>1, <3>2 DEF Begins
    <3>3. CASE i > Len(canonical')
      BY <2>0, <3>1, <3>3 DEF Beyond
    <3> QED
      BY <2>0, <3>1, <3>2, <3>3
  <2>4. ASSUME NEW r \in Requests,
               \/ Session(r) \/ PatchSaves(r) \/ SetSaves(r) \/ Proposal(r) \/ CommitSaves(r)
               \/ IntegrationSaves(r) \/ BeginsUndo(r) \/ WriteFile(r) \/ RestoreFile(r)
               \/ Commit(r) \/ Uncommit(r)
        PROVE  canonical' = canonical
    <3>1. CASE Session(r) \/ PatchSaves(r) \/ SetSaves(r) \/ Proposal(r)
      BY <2>0, <3>1, SessionSteps, PatchSteps, ChangeSetSteps, ProposalSteps
    <3>2. CASE CommitSaves(r) \/ IntegrationSaves(r) \/ BeginsUndo(r)
      BY <2>0, <3>2, CommitSteps, IntegrationSteps, BeginsUndoWorks
    <3>3. CASE WriteFile(r) \/ RestoreFile(r) \/ Commit(r) \/ Uncommit(r)
      BY <3>3 DEF WriteFile, RestoreFile, Commit, Uncommit
    <3> QED
      BY <2>4, <3>1, <3>2, <3>3
  <2>5. CASE UNCHANGED vars \/ Cut
    BY <2>1, <2>5 DEF vars, Cut
  <2>6. CASE OwnerCommits \/ \E r \in Requests : CherryPick(r)
    BY <2>2, <2>6 DEF OwnerCommits, CherryPick
  <2> QED
    BY <1>1, <2>1, <2>3, <2>4, <2>5, <2>6, StepKinds DEF Shrinks
<1>2. RInv /\ [Next]_vars =>
        [\A i \in DOMAIN canonical :
           \/ i \in DOMAIN canonical' /\ canonical'[i] = canonical[i]
           \/ canonical[i].raced \/ canonical[i].by = op.for \/ Mistaken(op.for)]_vars
  BY <1>1
<1> QED
  BY <1>2, RInvHolds, PTL DEF Spec, OthersCommitsSurvive

=============================================================================
