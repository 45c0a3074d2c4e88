----------------------------- MODULE JiraObserver -----------------------------
(* How the progress of a project's tasks is published in Jira:               *)
(* apps/core/src/project-execution-jira-observer.ts, once the plan's issues   *)
(* exist.                                                                   *)
(*                                                                          *)
(* The timer and the execution worker each make passes over the tasks, on    *)
(* the execution record they read at the start. What a pass has published of *)
(* a task's revision is a receipt under a marker, which is also in the       *)
(* comment, so that a pass that ended early can be repeated. Nothing keeps   *)
(* two passes apart.                                                        *)
(*                                                                          *)
(* A task's status is one of four, for those Jira is told the same of:       *)
(* running (also validating and healing), reviewing (also integrating),      *)
(* completed, and queued for all that Jira is told nothing of. Left out: a    *)
(* task without an issue, and what a comment says.                          *)
EXTENDS Naturals, FiniteSets, SequencesExt

CONSTANTS
  Order,          \* the tasks as the execution record lists them
  Closable,       \* the tasks whose evidence the closure policy accepts
  Passes,         \* who makes passes
  Timer,          \* the one that comes round every minute
  RevisionLimit,  \* bound: task -> its last revision
  MovedTo,        \* bound: the statuses people move issues to
  FaultLimit      \* bound: requests Jira refuses or whose answer is lost, and restarts

Tasks == Range(Order)
Statuses == {"queued", "running", "reviewing", "completed"}
Published == {"To Do", "In Progress", "In Review", "Done", "another"}

ASSUME JiraObserverAssumption ==
  /\ Order \in Seq(Tasks) /\ Order # <<>> /\ Closable \subseteq Tasks
  /\ Timer \in Passes /\ IsFiniteSet(Passes)
  /\ RevisionLimit \in [Tasks -> Nat] /\ MovedTo \subseteq Published /\ FaultLimit \in Nat

\* jiraStatus: what Jira is to say ("none": no transition).
JiraStatus ==
  [queued |-> "none", running |-> "In Progress", reviewing |-> "In Review", completed |-> "Done"]

\* safePredecessors: the statuses a pass takes an issue on from.
Predecessors(s) ==
  CASE s = "In Progress" -> {"To Do"}
    [] s = "In Review" -> {"In Progress"}
    [] s = "Done" -> {"In Progress", "In Review"}

VARIABLES
  task,        \* the execution record: each task's revision and status
  issue,       \* task -> the status of its issue
  comments,    \* task -> revision -> comments with its marker
  receipts,    \* task -> revision -> what was observed of it
  pass,        \* what each pass is about to do
  edited,      \* the tasks whose issue somebody moved
  overlapped,  \* a pass began while another was under way
  outrun,      \* tasks moved by a pass that another with a newer record outran
  faults
vars == <<task, issue, comments, receipts, pass, edited, overlapped, outrun, faults>>

Revisions(t) == 0..RevisionLimit[t]
Untouched == [t \in Tasks |-> [revision |-> 0, status |-> "queued"]]

\* A receipt says what came of a revision: nothing to publish, its status seen
\* in Jira, or a transition that was not seen there.
Outcomes == {"none", "silent", "published", "unmoved"}

\* A pass: the record it read, the task it is at, whether Jira had shown this
\* task's workflow before, and the outcome it is about to record.
Pcs == {"idle", "loading", "looking", "commenting", "reading", "posting", "confirming", "saving"}
Idle == [pc |-> "idle", seen |-> Untouched, at |-> 1, known |-> FALSE, outcome |-> "none"]

Init ==
  /\ task = Untouched
  /\ issue = [t \in Tasks |-> "To Do"]
  /\ comments = [t \in Tasks |-> [r \in Revisions(t) |-> 0]]
  /\ receipts = [t \in Tasks |-> [r \in Revisions(t) |-> "none"]]
  /\ pass = [p \in Passes |-> Idle] /\ edited = {}
  /\ overlapped = FALSE /\ outrun = {} /\ faults = 0

-----------------------------------------------------------------------------
(* The execution service, and people at the Jira board.                     *)

\* What may follow a status; every mutation of a task makes a new revision. (One
\* that leaves a task queued, such as an owner's authorization, is left out: Jira
\* is told nothing of it.)
Successors ==
  [queued |-> {"running"}, running |-> {"running", "reviewing", "queued"},
   reviewing |-> {"reviewing", "completed", "queued"}, completed |-> {"queued"}]
Work(t) ==
  /\ task[t].revision < RevisionLimit[t]
  /\ \E s \in Successors[task[t].status] :
       task' = [task EXCEPT ![t] = [revision |-> @.revision + 1, status |-> s]]
  /\ UNCHANGED <<issue, comments, receipts, pass, edited, overlapped, outrun, faults>>

Move(t) ==
  /\ t \notin edited /\ edited' = edited \cup {t}
  /\ \E s \in MovedTo \ {issue[t]} : issue' = [issue EXCEPT ![t] = s]
  /\ UNCHANGED <<task, comments, receipts, pass, overlapped, outrun, faults>>

-----------------------------------------------------------------------------
(* A pass.                                                                  *)

At(p, pc) == pass[p].pc = pc
Goto(p, pc) == pass' = [pass EXCEPT ![p].pc = pc]
Ends(p) == pass' = [pass EXCEPT ![p] = Idle]
Hand(p) == Order[pass[p].at]
Seen(p) == pass[p].seen[Hand(p)]
Desired(p) == JiraStatus[Seen(p).status]
Receipt(p) == receipts[Hand(p)][Seen(p).revision]
Advanced(w) == IF w.at = Len(Order) THEN Idle ELSE [w EXCEPT !.at = @ + 1, !.pc = "loading"]

Begin(p) ==
  /\ At(p, "idle")
  /\ pass' = [pass EXCEPT ![p].pc = "loading", ![p].seen = task]
  /\ overlapped' = (overlapped \/ \E q \in Passes \ {p} : ~At(q, "idle"))
  /\ UNCHANGED <<task, issue, comments, receipts, edited, outrun, faults>>

\* A revision that is published already is passed over, and one that may not be
\* closed ends the pass.
Load(p) ==
  /\ At(p, "loading")
  /\ pass' = [pass EXCEPT ![p] =
       IF Seen(p).revision = 0 \/ Receipt(p) \in {"silent", "published"} THEN Advanced(@)
       ELSE IF Desired(p) = "Done" /\ Hand(p) \notin Closable THEN Idle
       ELSE [@ EXCEPT !.pc = IF Receipt(p) = "unmoved" THEN "reading" ELSE "looking",
                      !.known = \E r \in Revisions(Hand(p)) : receipts[Hand(p)][r] = "published",
                      !.outcome = "none"]]
  /\ UNCHANGED <<task, issue, comments, receipts, edited, overlapped, outrun, faults>>

\* Slip: the comment of a revision without a receipt is not looked for.
LookNowhere(p) ==
  /\ At(p, "looking") /\ Goto(p, "commenting")
  /\ UNCHANGED <<task, issue, comments, receipts, edited, overlapped, outrun, faults>>

\* hasMarker.
Look(p) ==
  /\ At(p, "looking")
  /\ Goto(p, IF comments[Hand(p)][Seen(p).revision] = 0 THEN "commenting" ELSE "reading")
  /\ UNCHANGED <<task, issue, comments, receipts, edited, overlapped, outrun, faults>>

\* A request that changes something in Jira, whose answer may be lost.
Answered(p, pc) ==
  \/ Goto(p, pc) /\ faults' = faults
  \/ Ends(p) /\ faults < FaultLimit /\ faults' = faults + 1

Comment(p) ==
  /\ At(p, "commenting")
  /\ comments' = [comments EXCEPT ![Hand(p)][Seen(p).revision] = @ + 1]
  /\ Answered(p, "reading")
  /\ UNCHANGED <<task, issue, receipts, edited, overlapped, outrun>>

Outcome(p, o) == pass' = [pass EXCEPT ![p].pc = "saving", ![p].outcome = o]

\* Slip: an issue nobody has started is not closed.
AcceptedFromWork(p) == issue[Hand(p)] \in Predecessors(Desired(p))

\* ensureStatus up to its refusal: where an issue may be taken on from.
AcceptedFrom(p) ==
  \/ issue[Hand(p)] \in Predecessors(Desired(p))
  \/ Desired(p) = "Done" /\ ~pass[p].known /\ issue[Hand(p)] = "To Do"
Read(p) ==
  /\ At(p, "reading")
  /\ IF Desired(p) = "none" THEN Outcome(p, "silent")
     ELSE IF issue[Hand(p)] = Desired(p) THEN Outcome(p, "published")
     ELSE IF AcceptedFrom(p) THEN Goto(p, "posting") ELSE Ends(p)
  /\ UNCHANGED <<task, issue, comments, receipts, edited, overlapped, outrun, faults>>

\* Another pass has shown Jira a later revision of the task.
Outrun(p) ==
  LET t == Hand(p)
      older(r) == Seen(p).revision < r
  IN \/ \E r \in Revisions(t) : older(r) /\ receipts[t][r] = "published"
     \/ \E q \in Passes \ {p} : pass[q].pc \in {"confirming", "saving"} /\ Hand(q) = t
                                /\ older(Seen(q).revision)
Post(p) ==
  /\ At(p, "posting")
  /\ outrun' = IF Outrun(p) THEN outrun \cup {Hand(p)} ELSE outrun
  /\ issue' = [issue EXCEPT ![Hand(p)] = Desired(p)]
  /\ Answered(p, "confirming")
  /\ UNCHANGED <<task, comments, receipts, edited, overlapped>>

Confirm(p) ==
  /\ At(p, "confirming")
  /\ Outcome(p, IF issue[Hand(p)] = Desired(p) THEN "published" ELSE "unmoved")
  /\ UNCHANGED <<task, issue, comments, receipts, edited, overlapped, outrun, faults>>

\* Slip: the receipt is of the revision after the one published.
SaveAhead(p) ==
  /\ At(p, "saving")
  /\ receipts' = [receipts EXCEPT ![Hand(p)][Seen(p).revision + 1] = pass[p].outcome]
  /\ pass' = [pass EXCEPT ![p] = Advanced(@)]
  /\ UNCHANGED <<task, issue, comments, edited, overlapped, outrun, faults>>

\* Slip: the receipt is of the revision the task has come to meanwhile.
SaveLatest(p) ==
  /\ At(p, "saving")
  /\ receipts' = [receipts EXCEPT ![Hand(p)][task[Hand(p)].revision] = pass[p].outcome]
  /\ pass' = [pass EXCEPT ![p] = Advanced(@)]
  /\ UNCHANGED <<task, issue, comments, edited, overlapped, outrun, faults>>

Save(p) ==
  /\ At(p, "saving")
  /\ receipts' = [receipts EXCEPT ![Hand(p)][Seen(p).revision] = pass[p].outcome]
  /\ pass' = [pass EXCEPT ![p] = Advanced(@)]
  /\ UNCHANGED <<task, issue, comments, edited, overlapped, outrun, faults>>

\* Jira refuses a request or has no transition to the status: the pass ends.
Refused(p) ==
  /\ pass[p].pc \in {"looking", "commenting", "reading", "posting", "confirming"}
  /\ faults < FaultLimit /\ faults' = faults + 1 /\ Ends(p)
  /\ UNCHANGED <<task, issue, comments, receipts, edited, overlapped, outrun>>

Restart ==
  /\ faults < FaultLimit /\ faults' = faults + 1
  /\ pass' = [p \in Passes |-> Idle]
  /\ UNCHANGED <<task, issue, comments, receipts, edited, overlapped, outrun>>

Proceed(p) ==
  \/ Load(p) \/ Look(p) \/ Comment(p) \/ Read(p) \/ Post(p) \/ Confirm(p) \/ Save(p)

Next ==
  \/ \E p \in Passes : Begin(p) \/ Proceed(p) \/ Refused(p)
  \/ \E t \in Tasks : Work(t) \/ Move(t)
  \/ Restart

Spec == Init /\ [][Next]_vars

\* The timer makes pass after pass, and a pass that began goes on.
FairSpec == Spec /\ WF_vars(Begin(Timer)) /\ \A p \in Passes : WF_vars(Proceed(p))

-----------------------------------------------------------------------------

\* Every variable keeps its type: a receipt has one of its outcomes, and only a
\* revision the task has come to has one.
TypeOK ==
  /\ \A t \in Tasks :
       /\ task[t] \in [revision : Revisions(t), status : Statuses]
       /\ comments[t] \in [Revisions(t) -> Nat]
       /\ receipts[t] \in [Revisions(t) -> Outcomes]
       /\ \A r \in Revisions(t) : r > task[t].revision => receipts[t][r] = "none"
  /\ issue \in [Tasks -> Published] /\ edited \subseteq Tasks
  /\ \A p \in Passes : pass[p].pc \in Pcs /\ pass[p].at \in 1..Len(Order)
  /\ overlapped \in BOOLEAN /\ outrun \subseteq Tasks /\ faults \in 0..FaultLimit

\* A revision is commented on once, however often passes end between a request
\* and its receipt - unless passes overlap, when each may comment once.
CommentsAreWrittenOnce ==
  \A t \in Tasks : \A r \in Revisions(t) :
    comments[t][r] <= IF overlapped THEN Cardinality(Passes) ELSE 1

\* A receipt is not a promise but an observation: when the latest revision of a
\* task is recorded as published, its comment is there and Jira shows its status,
\* unless somebody moved the issue, or a pass with an older record in hand did
\* when another had already shown Jira a newer one.
ReceiptsAreObservations ==
  \A t \in Tasks :
    LET r == task[t].revision
    IN receipts[t][r] = "published" /\ t \notin edited \cup outrun =>
         issue[t] = JiraStatus[task[t].status] /\ comments[t][r] >= 1

\* A completed task's issue is closed in the end, also when passes came too late
\* to see the task under way - unless people move issues, the task is reopened,
\* its evidence does not allow closing it, a task before it in the record makes
\* every pass end early, or a pass with an older record in hand moved the issue
\* after another had shown Jira a newer one, which nothing makes good.
CompletionIsPublished ==
  \A i \in DOMAIN Order :
    LET t == Order[i]
    IN task[t].status = "completed"
         ~> \/ issue[t] = "Done" \/ task[t].status # "completed" \/ t \in outrun
            \/ \E j \in 1..i : Order[j] \notin Closable \/ Order[j] \in edited
            \/ \E j \in 1..(i - 1) : task[Order[j]].status # "completed"

=============================================================================
