------------------------- MODULE LifecycleCoordinator -------------------------
(* The reconciler of project lifecycles:                                     *)
(* apps/core/src/project-lifecycle-coordinator.ts, for one project.          *)
(*                                                                          *)
(* A controller takes the project's lease - a directory - looks at the       *)
(* lifecycle, records what it saw, and dispatches the stage's worker. The    *)
(* lease, the record and the lifecycle are files that every controller reads *)
(* and rewrites whole, so a step here is one file operation: an attempt      *)
(* that reads a record and persists it later writes back the copy it read.   *)
(*                                                                          *)
(* Left out: the event log, the revision counter and the times, which        *)
(* nothing reads back (the lease's are its ticks to live); a corrupt file.   *)
(* The reads before the lease are one step: they only decide whether to go   *)
(* on, and a torn one only costs an attempt that finds nothing to do.        *)
EXTENDS Naturals, FiniteSets

CONSTANTS
  Controllers,
  LeaseTicks,      \* leaseMs, in ticks of the clock
  RevisionLimit,   \* bound: the last revision of the lifecycle
  CrashLimit,      \* bound: times a controller's process ends
  FirstStages,     \* bound: the stages the coordinator may first find
  StagesTaken      \* bound: the stages the environment moves the lifecycle to

Terminal == {"complete", "cancelled"}
Stages ==
  {"intake", "context_review", "clarification", "solution_design",
   "awaiting_design_approval", "backlog_design", "backlog_qa", "delivery",
   "blocked"} \cup Terminal

ASSUME LifecycleAssumption ==
  /\ LeaseTicks \in Nat \ {0} /\ RevisionLimit \in Nat \ {0} /\ CrashLimit \in Nat
  /\ {"nobody", "gone", "absent"} \cap Controllers = {}
  /\ FirstStages \cup StagesTaken \subseteq Stages

Revisions == 0..RevisionLimit

\* The owner of a lease without an owner.json, and of one whose holder ended.
Nobody == "nobody"
Gone == "gone"
Absent == [owner |-> "absent", ttl |-> 0]
Locks == [owner : Controllers \cup {Nobody, Gone, "absent"}, ttl : 0..LeaseTicks]

\* A record: the revision of its checkpoint (a revision has one stage), the
\* terminal stage it observed and what it says of each revision's action.
Records ==
  [checkpoint : Revisions,
   terminal : Terminal \cup {"none"},
   done : [Revisions -> {"none", "dispatched", "completed"}]]
NoRecord ==
  [checkpoint |-> 0, terminal |-> "none", done |-> [r \in Revisions |-> "none"]]

VARIABLES
  lifecycle,   \* [stage, revision], the service's record
  lock,        \* the lease directory and its owner file
  record,      \* the coordinator's record
  desk,        \* what each controller's attempt is about to do, and its copies
  ack,         \* an acknowledgeReopen between its read and its write
  ousted,      \* controllers whose lease another took away while they used it
  crashes

leaseVars == <<lock, ousted>>
vars == <<lifecycle, lock, record, desk, ack, ousted, crashes>>

Pcs ==
  {"idle", "locking", "inspecting", "displacing", "relocking",
   "rereading", "recovering", "owning", "beating", "loading", "acquiring",
   "observing", "reading", "checkpointing", "terminating", "dispatching",
   "renewing", "working", "finishing", "completing",
   "releasing", "signing", "signed", "unlocking"}

\* The attempts that have made the lease directory and not removed it.
Using == Pcs \ {"idle", "locking", "inspecting", "displacing", "relocking"}

\* idle, or an attempt: seen is the lifecycle it read, copy the record.
Idle == [pc |-> "idle", seen |-> [stage |-> "intake", revision |-> 0], copy |-> NoRecord]
Lifecycles == [stage : Stages, revision : Revisions]
Desks == [pc : Pcs, seen : Lifecycles, copy : Records]
NoAck == [pc |-> "none", stage |-> "intake", revision |-> 0, copy |-> NoRecord]

\* The coordinator's first look at a project: in whatever stage it is by then.
Init ==
  /\ lifecycle \in [stage : FirstStages, revision : {1}]
  /\ lock = Absent /\ record = NoRecord
  /\ desk = [c \in Controllers |-> Idle]
  /\ ack = NoAck /\ ousted = {} /\ crashes = 0

-----------------------------------------------------------------------------
(* The lease.                                                               *)

At(c, pc) == desk[c].pc = pc
Goto(c, pc) == desk' = [desk EXCEPT ![c].pc = pc]
Ends(c) == desk' = [desk EXCEPT ![c] = Idle]

\* actionForStage: the stages a worker is dispatched for.
ActionStages == {"solution_design", "backlog_design", "backlog_qa", "delivery"}

\* reconcile returns at once: no lease, and the stage's action is done.
UpToDate ==
  /\ lifecycle.stage \in ActionStages /\ lock = Absent
  /\ record.checkpoint = lifecycle.revision
  /\ record.done[lifecycle.revision] = "completed"

Reconcile(c) ==
  /\ At(c, "idle") /\ ~UpToDate
  /\ Goto(c, "locking") /\ UNCHANGED <<lifecycle, record, ack, leaseVars, crashes>>

\* Slip: a directory that is there already does not stop the attempt.
MakeLeaseShared(c) ==
  /\ At(c, "locking")
  /\ lock' = (IF lock = Absent THEN [Absent EXCEPT !.owner = Nobody] ELSE lock)
  /\ Goto(c, "owning")
  /\ UNCHANGED <<lifecycle, record, ack, ousted, crashes>>

\* mkdir of the lease: EEXIST sends the attempt to look at its owner.
MakeLease(c) ==
  /\ At(c, "locking")
  /\ IF lock = Absent
     THEN lock' = [Absent EXCEPT !.owner = Nobody] /\ Goto(c, "owning")
     ELSE lock' = lock /\ Goto(c, "inspecting")
  /\ UNCHANGED <<lifecycle, record, ack, ousted, crashes>>

\* Slip: a lease with an owner is taken as held, expired or not.
Owned(l) == l.owner # Nobody

\* readLease and readHeartbeat. An ownerless lease counts as abandoned.
Busy(l) == l.ttl > 0
Inspect(c) ==
  /\ At(c, "inspecting")
  /\ IF Busy(lock) THEN Ends(c) ELSE Goto(c, "displacing")
  /\ UNCHANGED <<lifecycle, record, ack, leaseVars, crashes>>

\* The lease directory goes away under whoever else is using it.
OustedBy(c) ==
  ousted' = (ousted \cup {d \in Controllers : desk[d].pc \in Using}) \ {c}

\* rename of the lease out of the way; ENOENT starts over.
Displace(c) ==
  /\ At(c, "displacing")
  /\ IF lock = Absent
     THEN Goto(c, "locking") /\ UNCHANGED leaseVars
     ELSE Goto(c, "relocking") /\ lock' = Absent /\ OustedBy(c)
  /\ UNCHANGED <<lifecycle, record, ack, crashes>>

\* The second mkdir: EEXIST ends the attempt.
Relock(c) ==
  /\ At(c, "relocking")
  /\ IF lock = Absent
     THEN lock' = [Absent EXCEPT !.owner = Nobody] /\ Goto(c, "rereading")
     ELSE lock' = lock /\ Ends(c)
  /\ UNCHANGED <<lifecycle, record, ack, ousted, crashes>>

\* atomicWrite of owner.json, which makes the directory again if it is gone.
Own(c) ==
  /\ At(c, "owning")
  /\ lock' = [owner |-> c, ttl |-> LeaseTicks] /\ Goto(c, "beating")
  /\ UNCHANGED <<lifecycle, record, ack, ousted, crashes>>

\* Slip: a renewal adds to what is left of the lease.
BeatenLonger(c) ==
  IF lock = Absent THEN [Absent EXCEPT !.owner = Nobody]
  ELSE IF lock.owner = c THEN [lock EXCEPT !.ttl = @ + LeaseTicks] ELSE lock

\* #heartbeat: the file counts for the owner it names, and it too makes the
\* directory again.
Beaten(c) ==
  IF lock = Absent THEN [Absent EXCEPT !.owner = Nobody]
  ELSE IF lock.owner = c THEN [lock EXCEPT !.ttl = LeaseTicks] ELSE lock
Heartbeat(c) ==
  /\ \/ At(c, "beating") /\ Goto(c, "loading")
     \/ At(c, "renewing") /\ Goto(c, "working")
  /\ lock' = Beaten(c)
  /\ UNCHANGED <<lifecycle, record, ack, ousted, crashes>>

\* #release: only the owner goes on, to sign the record and remove the lease.
Release(c) ==
  /\ At(c, "releasing")
  /\ IF lock.owner = c THEN Goto(c, "signing") /\ ousted' = ousted
     ELSE Ends(c) /\ ousted' = ousted \ {c}
  /\ UNCHANGED <<lifecycle, lock, record, ack, crashes>>

Unlock(c) ==
  /\ At(c, "unlocking")
  /\ lock' = Absent /\ OustedBy(c) /\ Ends(c)
  /\ UNCHANGED <<lifecycle, record, ack, crashes>>

-----------------------------------------------------------------------------
(* The record.                                                              *)

\* A load, and what the copy is for.
Loads ==
  [rereading |-> "recovering", loading |-> "acquiring", finishing |-> "completing",
   signing |-> "signed"]
Load(c) ==
  /\ desk[c].pc \in DOMAIN Loads
  /\ desk' = [desk EXCEPT ![c].pc = Loads[@], ![c].copy = record]
  /\ UNCHANGED <<lifecycle, record, ack, leaseVars, crashes>>

\* #persist writes a whole record, and the attempt goes on with it.
Persist(c, next, pc) ==
  /\ record' = next
  /\ desk' = [desk EXCEPT ![c].pc = pc, ![c].copy = next]
  /\ UNCHANGED <<lifecycle, ack, leaseVars, crashes>>

\* The events lease_recovered, lease_acquired and lease_released.
Signs == [recovering |-> "owning", acquiring |-> "observing", signed |-> "unlocking"]
Sign(c) ==
  /\ desk[c].pc \in DOMAIN Signs
  /\ Persist(c, desk[c].copy, Signs[desk[c].pc])

Observe(c) ==
  /\ At(c, "observing")
  /\ desk' = [desk EXCEPT ![c].pc = "reading", ![c].seen = lifecycle]
  /\ UNCHANGED <<lifecycle, record, ack, leaseVars, crashes>>

\* What is left to do once the checkpoint is recorded.
Decided(seen, state) ==
  IF seen.stage \in Terminal
  THEN IF state.terminal = "none" THEN "terminating" ELSE "releasing"
  ELSE IF seen.stage \notin ActionStages \/ state.done[seen.revision] = "completed"
  THEN "releasing"
  ELSE IF state.done[seen.revision] = "none" THEN "dispatching" ELSE "renewing"

\* "A terminal project cannot be changed without an explicit reopen operation."
Refused(seen, state) == state.terminal # "none" /\ seen.stage # state.terminal
Read(c) ==
  LET seen == desk[c].seen
      next == IF Refused(seen, record) THEN "releasing"
              ELSE IF record.checkpoint # seen.revision THEN "checkpointing"
              ELSE Decided(seen, record)
  IN /\ At(c, "reading")
     /\ desk' = [desk EXCEPT ![c].pc = next, ![c].copy = record]
     /\ UNCHANGED <<lifecycle, record, ack, leaseVars, crashes>>

RecordCheckpoint(c) ==
  LET next == [desk[c].copy EXCEPT !.checkpoint = desk[c].seen.revision]
  IN At(c, "checkpointing") /\ Persist(c, next, Decided(desk[c].seen, next))

ObserveTerminal(c) ==
  /\ At(c, "terminating")
  /\ Persist(c, [desk[c].copy EXCEPT !.terminal = desk[c].seen.stage], "releasing")

RecordDispatch(c) ==
  LET next == [desk[c].copy EXCEPT !.done[desk[c].seen.revision] = "dispatched"]
  IN At(c, "dispatching") /\ Persist(c, next, "renewing")

\* dispatch returns, or throws.
Dispatch(c) ==
  /\ At(c, "working")
  /\ Goto(c, "finishing") \/ Goto(c, "releasing")
  /\ UNCHANGED <<lifecycle, record, ack, leaseVars, crashes>>

Complete(c) ==
  LET next == [desk[c].copy EXCEPT !.done[desk[c].seen.revision] = "completed"]
  IN At(c, "completing") /\ Persist(c, next, "releasing")

-----------------------------------------------------------------------------
(* The owner's reopen, the lifecycle, the clock and the end of a process.   *)

\* The reopen route: the service reopens, then acknowledgeReopen reads the
\* record and writes it back without its terminal stage.
Reopen ==
  /\ lifecycle.stage \in Terminal /\ lifecycle.revision < RevisionLimit
  /\ ack = NoAck
  /\ lifecycle' = [stage |-> "context_review", revision |-> lifecycle.revision + 1]
  /\ ack' = [ack EXCEPT !.pc = "reading", !.stage = lifecycle.stage,
                        !.revision = lifecycle.revision + 1]
  /\ UNCHANGED <<record, desk, leaseVars, crashes>>

Acknowledgeable ==
  /\ lifecycle = [stage |-> "context_review", revision |-> ack.revision]
  /\ record.terminal = ack.stage
ReadForReopen ==
  /\ ack.pc = "reading"
  /\ ack' = IF Acknowledgeable THEN [ack EXCEPT !.pc = "writing", !.copy = record]
            ELSE NoAck
  /\ UNCHANGED <<lifecycle, record, desk, leaseVars, crashes>>
AcknowledgeReopen ==
  /\ ack.pc = "writing"
  /\ record' = [ack.copy EXCEPT !.terminal = "none", !.checkpoint = ack.revision]
  /\ ack' = NoAck
  /\ UNCHANGED <<lifecycle, desk, leaseVars, crashes>>

\* Whatever else moves the lifecycle (the pipeline module says what does).
Advance ==
  /\ lifecycle.stage \notin Terminal /\ lifecycle.revision < RevisionLimit
  /\ \E s \in StagesTaken \ {lifecycle.stage} :
       lifecycle' = [stage |-> s, revision |-> lifecycle.revision + 1]
  /\ UNCHANGED <<record, desk, ack, leaseVars, crashes>>

Tick ==
  /\ lock.ttl > 0 /\ lock' = [lock EXCEPT !.ttl = @ - 1]
  /\ UNCHANGED <<lifecycle, record, desk, ack, ousted, crashes>>

\* A process ends in the middle of an attempt, and of the owner's request if
\* it served that too; its lease stays as it is.
Crash(c) ==
  /\ ~At(c, "idle") /\ crashes < CrashLimit
  /\ crashes' = crashes + 1 /\ Ends(c) /\ ousted' = ousted \ {c}
  /\ lock' = IF lock.owner = c THEN [lock EXCEPT !.owner = Gone] ELSE lock
  /\ ack' \in {ack, NoAck}
  /\ UNCHANGED <<lifecycle, record>>

Attempt(c) ==
  \/ Reconcile(c) \/ MakeLease(c) \/ Inspect(c) \/ Displace(c) \/ Relock(c)
  \/ Own(c) \/ Heartbeat(c) \/ Load(c) \/ Sign(c) \/ Observe(c) \/ Read(c)
  \/ RecordCheckpoint(c) \/ ObserveTerminal(c) \/ RecordDispatch(c)
  \/ Dispatch(c) \/ Complete(c) \/ Release(c) \/ Unlock(c)

Next ==
  \/ \E c \in Controllers : Attempt(c) \/ Crash(c)
  \/ Reopen \/ ReadForReopen \/ AcknowledgeReopen \/ Advance \/ Tick

Spec == Init /\ [][Next]_vars

\* The timer starts an attempt every five seconds, file operations and worker
\* calls end, a started request is answered, and time passes. A worker's call
\* may fail as often as it likes.
FairSpec ==
  /\ Spec /\ WF_vars(ReadForReopen \/ AcknowledgeReopen) /\ WF_vars(Tick)
  /\ \A c \in Controllers : WF_vars(Attempt(c))

-----------------------------------------------------------------------------
(* Properties.                                                              *)

\* Every variable keeps its type; the record's revisions never pass the
\* lifecycle's.
TypeOK ==
  /\ lifecycle \in Lifecycles /\ lock \in Locks /\ record \in Records
  /\ desk \in [Controllers -> Desks]
  /\ ack \in [pc : {"none", "reading", "writing"}, stage : Stages,
              revision : Revisions, copy : Records]
  /\ ousted \subseteq Controllers /\ crashes \in 0..CrashLimit
  /\ record.checkpoint <= lifecycle.revision

\* "One per-project lease prevents duplicate workers from dispatching the same
\* stage" - as long as no lease is taken away from an attempt that is still
\* using it, by a controller that saw it before its owner file was written or
\* after it had expired (a worker's call has one renewal, before it).
OneDispatcher ==
  \A c, d \in Controllers :
    At(c, "working") /\ At(d, "working") /\ c # d => c \in ousted \/ d \in ousted

\* A stage with an action that the lifecycle stays in is dispatched, whatever
\* leases ended processes have left behind - unless the record still says that
\* the project is over.
StagesAreDispatched ==
  (lifecycle.stage \in ActionStages)
    ~> \/ \E c \in Controllers : At(c, "working") /\ desk[c].seen = lifecycle
       \/ record.done[lifecycle.revision] = "completed"
       \/ lifecycle.stage \notin ActionStages \/ record.terminal # "none"

=============================================================================
