------------------------- MODULE ExecutionCoordinator -------------------------
(* The scheduler of project executions:                                     *)
(* apps/core/src/project-execution-coordinator.ts, as control-plane-main.ts *)
(* starts, calls and stops it.                                              *)
(*                                                                          *)
(* One Node process runs it, so a step here is what happens between two     *)
(* awaits: a write to the runs file, or the end of the call awaited. The    *)
(* runs file outlives the process; timers, the ready queue and the runs in  *)
(* flight do not.                                                           *)
(*                                                                          *)
(* Left out: the clock (an armed timer fires at some later moment, whatever *)
(* its retry time), attempt counts and messages, which nothing reads back,  *)
(* the order in which resumePending visits the runs, a corrupt or           *)
(* unwritable runs file, and a tick without a record (tick creates it).     *)
EXTENDS Naturals, Sequences, FiniteSets

CONSTANTS
  Projects,
  MaxConcurrentProjects,  \* the most slots a coordinator is constructed with
  CrashLimit,             \* bound: times the process ends, by its number of slots
  Attended                \* bound: projects the owner retries or a provider wakes

ASSUME CoordinatorAssumption ==
  /\ MaxConcurrentProjects \in Nat \ {0} /\ CrashLimit \in [1..MaxConcurrentProjects -> Nat]
  /\ Attended \subseteq Projects /\ "none" \notin Projects

RunStates == {"none", "queued", "running", "deferred", "needs_user", "completed"}

\* What the coordinator can tell of an execution record: running with a task
\* that is ready, running without one, waiting for the owner (needs_user or
\* quarantined), or completed.
RecordStates == {"ready", "busy", "owner", "completed"}

Slots == 1..MaxConcurrentProjects
Idle == [project |-> "none", pc |-> "idle", result |-> "none"]
Slot ==
  [project : Projects \cup {"none"},
   pc : {"idle", "starting", "ticking", "completing", "saving", "checking"},
   result : RunStates]

VARIABLES
  runs,      \* project -> persisted run state
  records,   \* project -> its execution record, as RecordStates
  told,      \* projects whose lifecycle completeDelivery has completed
  process,   \* "up", "stopped" (#stopped, on its way to exit) or "down"
  timers,    \* the projects with an armed timer
  queue,     \* #readyQueue (#queued is its range)
  inFlight,  \* #inFlight
  slots,     \* the calls of #run: #activeProjects is the number not idle
  calls,     \* projects a caller is about to schedule
  arming,    \* projects whose schedule() has saved and not yet armed
  resuming,  \* project -> run state resumePending loaded and has yet to visit
  visit,     \* the run whose record resumePending found to contradict it
  limit,     \* maxConcurrentProjects, as the coordinator was constructed with it
  crashes

disk == <<runs, records, told>>
turn == <<timers, queue, inFlight, slots>>
startup == <<resuming, visit>>
vars == <<disk, process, turn, calls, arming, startup, limit, crashes>>

NoVisit == [project |-> "none", record |-> "none"]
NothingToResume == [p \in Projects |-> "none"]

Init ==
  /\ runs = [p \in Projects |-> "none"]
  /\ records = [p \in Projects |-> "ready"] /\ told = {}
  /\ process = "up" /\ limit \in 1..MaxConcurrentProjects /\ crashes = 0
  /\ timers = {} /\ queue = <<>> /\ inFlight = {} /\ slots = [i \in Slots |-> Idle]
  /\ calls = Projects /\ arming = {}
  /\ resuming = NothingToResume /\ visit = NoVisit

-----------------------------------------------------------------------------
(* Arming, queueing and starting.                                           *)

\* #arm.
Armed(p) == IF process # "up" \/ p \in inFlight THEN timers ELSE timers \cup {p}

Queued == {queue[i] : i \in 1..Len(queue)}
Started(p) == [project |-> p, pc |-> "starting", result |-> "none"]

\* What #enqueue and #run ask of a project.
MayStart(p) == p \notin Queued \cup inFlight

\* setTimeout's callback: #enqueue and the #drain that follows.
TimerFires(p) ==
  LET free == {i \in 1..limit : slots[i] = Idle} IN
  /\ p \in timers
  /\ timers' = timers \ {p}
  /\ \/ ~MayStart(p) /\ UNCHANGED <<queue, inFlight, slots>>
     \/ /\ MayStart(p) /\ free = {}
        /\ queue' = Append(queue, p)
        /\ UNCHANGED <<inFlight, slots>>
     \/ \E i \in free :
          /\ MayStart(p) /\ \A j \in free : i <= j
          /\ slots' = [slots EXCEPT ![i] = Started(p)]
          /\ inFlight' = inFlight \cup {p}
          /\ UNCHANGED queue
  /\ UNCHANGED <<disk, process, calls, arming, startup, limit, crashes>>

\* Slip: a call of #run ends without draining the queue.
FreedUndrained(i) == slots' = [slots EXCEPT ![i] = Idle] /\ UNCHANGED <<queue, inFlight>>

\* A call of #run ends: #drain gives its slot to the head of the queue.
Freed(i) ==
  IF queue = <<>>
  THEN slots' = [slots EXCEPT ![i] = Idle] /\ UNCHANGED <<queue, inFlight>>
  ELSE /\ slots' = [slots EXCEPT ![i] = Started(Head(queue))]
       /\ queue' = Tail(queue)
       /\ inFlight' = inFlight \cup {Head(queue)}

\* schedule: the run is saved ...
Schedule(p) ==
  /\ p \in calls
  /\ calls' = calls \ {p}
  /\ IF process = "up"
     THEN runs' = [runs EXCEPT ![p] = "queued"] /\ arming' = arming \cup {p}
     ELSE UNCHANGED <<runs, arming>>
  /\ UNCHANGED <<records, told, process, turn, startup, limit, crashes>>

\* ... and armed.
Arm(p) ==
  /\ p \in arming
  /\ arming' = arming \ {p}
  /\ timers' = Armed(p)
  /\ UNCHANGED <<disk, process, queue, inFlight, slots, calls, startup, limit, crashes>>

-----------------------------------------------------------------------------
(* #run, from one await to the next.                                        *)

rest == <<process, timers, queue, calls, arming, startup, limit, crashes>>

Begin(i) ==
  /\ slots[i].pc = "starting"
  /\ runs' = [runs EXCEPT ![slots[i].project] = "running"]
  /\ slots' = [slots EXCEPT ![i].pc = "ticking"]
  /\ UNCHANGED <<records, told, inFlight, rest>>

\* Where reconcileExpired and the worker's tick can leave a record.
AfterTick(record) ==
  CASE record = "ready" -> RecordStates
    [] record = "busy" -> {"busy", "owner"}
    [] OTHER -> {record}

\* Slip: the run is saved under the record's own state.
ReportRecordState(i, record) ==
  [slots EXCEPT ![i].pc = IF record = "completed" THEN "completing" ELSE "saving",
                ![i].result = record]

\* Slip: a completed record is not reported before its run is saved.
ReportUntold(i, record) ==
  [slots EXCEPT ![i].pc = "saving",
                ![i].result = CASE record = "completed" -> "completed"
                                [] record = "owner" -> "needs_user"
                                [] OTHER -> "deferred"]

Report(i, record) ==
  [slots EXCEPT ![i].pc = IF record = "completed" THEN "completing" ELSE "saving",
                ![i].result = CASE record = "completed" -> "none"
                                [] record = "owner" -> "needs_user"
                                [] OTHER -> "deferred"]

\* Slip: a project counts as in flight only until its tick has returned.
TickLeaves(i) ==
  LET p == slots[i].project IN
  /\ slots[i].pc = "ticking"
  /\ \E record \in AfterTick(records[p]) :
       /\ records' = [records EXCEPT ![p] = record]
       /\ \/ slots' = Report(i, record)
          \/ slots' = Report(i, "owner")
          \/ record = "ready" /\ slots' = Report(i, "busy")
  /\ inFlight' = inFlight \ {p}
  /\ UNCHANGED <<runs, told, rest>>

\* The tick returns the record it left, or throws: for want of a provider,
\* with the task put back, or unexpectedly, most often with it interrupted.
Tick(i) ==
  LET p == slots[i].project IN
  /\ slots[i].pc = "ticking"
  /\ \E record \in AfterTick(records[p]) :
       /\ records' = [records EXCEPT ![p] = record]
       /\ \/ slots' = Report(i, record)
          \/ slots' = Report(i, "owner")
          \/ record = "ready" /\ slots' = Report(i, "busy")
  /\ UNCHANGED <<runs, told, inFlight, rest>>

\* onCompleted completes the delivery, then synchronizes Jira; both may fail.
OnCompleted(i) ==
  /\ slots[i].pc = "completing"
  /\ \/ /\ told' = told \cup {slots[i].project}
        /\ slots' = [slots EXCEPT ![i].pc = "saving", ![i].result = "completed"]
     \/ /\ told' \in {told, told \cup {slots[i].project}}
        /\ slots' = [slots EXCEPT ![i].pc = "saving", ![i].result = "needs_user"]
  /\ UNCHANGED <<runs, records, inFlight, rest>>

\* The outcome is saved and the project leaves #inFlight. The #arm between the
\* two does nothing: the project is still in flight.
SaveOutcome(i) ==
  /\ slots[i].pc = "saving"
  /\ runs' = [runs EXCEPT ![slots[i].project] = slots[i].result]
  /\ inFlight' = inFlight \ {slots[i].project}
  /\ slots' = [slots EXCEPT ![i].pc = "checking"]
  /\ UNCHANGED <<records, told, rest>>

\* Slip: nobody looks at the run once it is out of flight.
FreedUnchecked(i) ==
  /\ slots[i].pc = "checking"
  /\ Freed(i)
  /\ UNCHANGED <<disk, process, timers, calls, arming, startup, limit, crashes>>

\* The saved run is read once more, and armed if it is to go on.
Recheck(i) ==
  LET p == slots[i].project IN
  /\ slots[i].pc = "checking"
  /\ timers' = IF runs[p] \in {"queued", "deferred"} THEN Armed(p) ELSE timers
  /\ Freed(i)
  /\ UNCHANGED <<disk, process, calls, arming, startup, limit, crashes>>

-----------------------------------------------------------------------------
(* Start, stop and end of the process.                                      *)

\* stop, on SIGINT or SIGTERM. What is in flight goes on until the exit (whose
\* bound is asked for here: a process is stopped to end).
Stop ==
  /\ process = "up" /\ crashes < CrashLimit[limit]
  /\ process' = "stopped"
  /\ timers' = {} /\ queue' = <<>>
  /\ UNCHANGED <<disk, inFlight, slots, calls, arming, startup, limit, crashes>>

\* The process ends, leaving the records wherever its ticks had brought them.
Exit ==
  LET Ticking(p) == \E i \in Slots : slots[i].project = p /\ slots[i].pc = "ticking" IN
  /\ process # "down" /\ crashes < CrashLimit[limit]
  /\ process' = "down" /\ crashes' = crashes + 1
  /\ records' \in [Projects -> RecordStates]
  /\ \A p \in Projects : records'[p] \in
       IF Ticking(p) THEN AfterTick(records[p]) ELSE {records[p]}
  /\ timers' = {} /\ queue' = <<>> /\ inFlight' = {} /\ slots' = [i \in Slots |-> Idle]
  /\ calls' = {} /\ arming' = {} /\ resuming' = NothingToResume /\ visit' = NoVisit
  /\ UNCHANGED <<runs, told, limit>>

\* resumePending loads the runs.
Restart ==
  /\ process = "down"
  /\ process' = "up" /\ resuming' = runs
  /\ UNCHANGED <<disk, turn, calls, arming, visit, limit, crashes>>

Resumable == {"queued", "running", "deferred"}

\* resumePending arms a pending run; for one that needs the owner it reads the
\* record, to see whether that is still so. (Nothing stops it half-way: it
\* arms nothing once the process is stopped.)
Resume(p) ==
  LET contradicted == /\ resuming[p] = "needs_user"
                      /\ records[p] \in {"ready", "completed"} IN
  /\ visit = NoVisit /\ resuming[p] # "none"
  /\ resuming' = [resuming EXCEPT ![p] = "none"]
  /\ timers' = IF resuming[p] \in Resumable THEN Armed(p) ELSE timers
  /\ visit' = IF contradicted THEN [project |-> p, record |-> records[p]] ELSE NoVisit
  /\ UNCHANGED <<disk, process, queue, inFlight, slots, calls, arming, limit, crashes>>

\* It saves what follows from the record it read. (If onCompleted fails the
\* process ends: see Exit.)
ResumeContradicted ==
  LET p == visit.project IN
  /\ visit # NoVisit /\ visit' = NoVisit
  /\ \/ /\ visit.record = "ready"
        /\ runs' = [runs EXCEPT ![p] = "queued"]
        /\ timers' = Armed(p)
        /\ UNCHANGED told
     \/ /\ visit.record = "completed"
        /\ told' = told \cup {p}
        /\ runs' = [runs EXCEPT ![p] = "completed"]
        /\ UNCHANGED timers
  /\ UNCHANGED <<records, process, queue, inFlight, slots, calls, arming, resuming,
                 limit, crashes>>

-----------------------------------------------------------------------------
(* The callers of schedule.                                                 *)

\* wakeQueuedProjectExecutions: after resumePending, and whenever a provider
\* connection is admitted. A record that is running without a ready task may
\* hold queued ones, which is what it asks for.
Wake ==
  LET With(record) == {p \in Attended : records[p] = record} IN
  /\ process # "down" /\ resuming = NothingToResume /\ visit = NoVisit
  /\ \E blocked \in SUBSET With("busy") : calls' = calls \cup With("ready") \cup blocked
  /\ UNCHANGED <<disk, process, turn, arming, startup, limit, crashes>>

\* retryExecution sends a stopped or completed task back to the queue.
OwnerRetries(p) ==
  /\ process # "down" /\ records[p] \in {"owner", "completed"}
  /\ records' = [records EXCEPT ![p] = "ready"]
  /\ calls' = calls \cup {p}
  /\ UNCHANGED <<runs, told, process, turn, arming, startup, limit, crashes>>

Run(i) == Begin(i) \/ Tick(i) \/ OnCompleted(i) \/ SaveOutcome(i) \/ Recheck(i)

Next ==
  \/ \E p \in Projects : TimerFires(p) \/ Schedule(p) \/ Arm(p) \/ Resume(p)
  \/ \E p \in Attended : OwnerRetries(p)
  \/ \E i \in Slots : Run(i)
  \/ ResumeContradicted \/ Wake \/ Stop \/ Exit \/ Restart

Spec == Init /\ [][Next]_vars

\* Armed timers fire, promises settle - every adapter call a tick awaits is
\* bounded by a time limit - and a process that was started goes through
\* resumePending. Nothing obliges the owner to retry, a provider to be
\* admitted, or the process to stop or to be started again.
Fairness ==
  /\ \A p \in Projects : WF_vars(TimerFires(p)) /\ WF_vars(Schedule(p)) /\ WF_vars(Arm(p))
  /\ \A i \in Slots : WF_vars(Run(i))
  /\ WF_vars((\E p \in Projects : Resume(p)) \/ ResumeContradicted)

FairSpec == Spec /\ Fairness

-----------------------------------------------------------------------------
(* Properties.                                                              *)

TypeOK ==
  /\ runs \in [Projects -> RunStates] /\ records \in [Projects -> RecordStates]
  /\ told \in SUBSET Projects /\ process \in {"up", "stopped", "down"}
  /\ timers \in SUBSET Projects /\ queue \in Seq(Projects)
  /\ inFlight \in SUBSET Projects /\ slots \in [Slots -> Slot]
  /\ calls \in SUBSET Projects /\ arming \in SUBSET Projects
  /\ resuming \in [Projects -> RunStates]
  /\ visit \in [project : Projects \cup {"none"}, record : RecordStates \cup {"none"}]
  /\ limit \in 1..MaxConcurrentProjects /\ crashes \in 0..CrashLimit[limit]

\* Two calls of #run never work on one project, although the slot of the first
\* is still held while its last look at the saved run is awaited; and nothing
\* waits for a slot that another call already has or waits for, since #drain
\* starts what waits without looking again. No two ticks of a project overlap.
Working(i) == slots[i].pc \in {"starting", "ticking", "completing", "saving"}
OneRunPerProject ==
  /\ \A i, j \in Slots :
       i # j /\ Working(i) /\ Working(j) => slots[i].project # slots[j].project
  /\ \A k \in 1..Len(queue) : queue[k] \notin inFlight
  /\ \A k, l \in 1..Len(queue) : k # l => queue[k] # queue[l]

\* While the process is up, a run saved as queued, running or deferred always
\* has something in memory that will come back to it, across schedule calls
\* made during a run, re-arming, and restarts that find any run state on disk.
NoOrphanedRun ==
  process = "up" =>
    \A p \in Projects : runs[p] \in {"queued", "running", "deferred"} =>
      \/ p \in timers \cup arming \cup Queued
      \/ \E i \in Slots : slots[i].project = p
      \/ resuming[p] # "none"

\* No run is saved as completed before the project's delivery is: a delivery
\* whose completion failed is left to be reconciled at the next start.
CompletedIsTold == \A p \in Projects : runs[p] = "completed" => p \in told

\* A run waiting for its turn gets it, with fewer slots than projects and with
\* the others being scheduled again and again.
WaitingRunsGoOn ==
  \A p \in Projects :
    runs[p] \in {"queued", "deferred"} ~>
      runs[p] \notin {"queued", "deferred"} \/ process # "up"

\* A schedule call made once a tick is over - the owner's retry of the task the
\* tick interrupted, or a provider admitted meanwhile - leads to another tick.
LateCallsAreHeard ==
  \A i \in Slots, p \in Attended :
    (slots[i].project = p /\ slots[i].pc = "saving" /\ p \in calls)
      ~> (\E j \in Slots : slots[j].project = p /\ slots[j].pc = "ticking")
           \/ process # "up"
=============================================================================
