---------------------- MODULE ExecutionCoordinator_proofs ----------------------
(* The scheduler for any number of projects, slots and process ends: types, *)
(* one run per project, nothing pending forgotten, nothing completed        *)
(* untold.                                                                  *)
EXTENDS ExecutionCoordinator, TLAPS

-----------------------------------------------------------------------------
(* Types. A slot at work has a project, and so has a contradicted run.      *)

Occupied == \A i \in Slots : slots[i].pc # "idle" => slots[i].project \in Projects
Visiting == visit # NoVisit => visit.project \in Projects
Typed == TypeOK /\ Occupied /\ Visiting

LEMMA SlotsAreNumbers == Slots \subseteq Nat /\ 1 \in Slots
BY CoordinatorAssumption DEF Slots

\* A coordinator has no more slots than one is ever constructed with.
LEMMA LimitedSlots ==
  ASSUME Typed
  PROVE  1..limit \subseteq Slots
BY CoordinatorAssumption DEF Typed, TypeOK, Slots

LEMMA SlotType ==
  ASSUME TypeOK, NEW i \in Slots
  PROVE  /\ slots[i] \in Slot /\ slots[i].result \in RunStates
         /\ slots[i].project \in Projects \cup {"none"}
BY DEF TypeOK, Slot

LEMMA StartedSlot ==
  ASSUME NEW p \in Projects
  PROVE  /\ Started(p) \in Slot /\ Started(p).project = p
         /\ Started(p).pc = "starting" /\ Started(p).result = "none"
BY DEF Started, Slot, RunStates

LEMMA IdleSlot == Idle \in Slot /\ Idle.pc = "idle" /\ Idle.project = "none" /\ Idle.result = "none"
BY DEF Idle, Slot, RunStates

\* Replacing what one slot holds.
LEMMA SlotReplaced ==
  ASSUME Typed, NEW i \in Slots, NEW s \in Slot,
         s.pc # "idle" => s.project \in Projects,
         slots' = [slots EXCEPT ![i] = s]
  PROVE  /\ slots' \in [Slots -> Slot] /\ Occupied' /\ slots'[i] = s
         /\ \A j \in Slots : j # i => slots'[j] = slots[j]
BY DEF Typed, TypeOK, Occupied

LEMMA HeadAndTail ==
  ASSUME NEW S, NEW q \in Seq(S), q # <<>>
  PROVE  /\ Head(q) \in S /\ Tail(q) \in Seq(S) /\ Len(q) \in Nat \ {0}
         /\ Head(q) = q[1] /\ Len(Tail(q)) = Len(q) - 1
         /\ \A k \in 1..Len(Tail(q)) : Tail(q)[k] = q[k + 1]
OBVIOUS

LEMMA ArmedType ==
  ASSUME Typed, NEW p \in Projects
  PROVE  Armed(p) \in SUBSET Projects
BY DEF Armed, Typed, TypeOK

LEMMA FreedTypes ==
  ASSUME Typed, NEW i \in Slots, Freed(i)
  PROVE  /\ slots' \in [Slots -> Slot] /\ Occupied'
         /\ queue' \in Seq(Projects) /\ inFlight' \in SUBSET Projects
<1>1. CASE queue = <<>>
  <2>1. slots' = [slots EXCEPT ![i] = Idle] /\ UNCHANGED <<queue, inFlight>>
    BY <1>1 DEF Freed
  <2> QED
    BY <2>1, IdleSlot, SlotReplaced DEF Typed, TypeOK
<1>2. CASE queue # <<>>
  <2>1. /\ slots' = [slots EXCEPT ![i] = Started(Head(queue))]
        /\ queue' = Tail(queue) /\ inFlight' = inFlight \cup {Head(queue)}
    BY <1>2 DEF Freed
  <2>2. Head(queue) \in Projects /\ Tail(queue) \in Seq(Projects)
    BY <1>2, HeadAndTail DEF Typed, TypeOK
  <2> QED
    BY <2>1, <2>2, StartedSlot, SlotReplaced DEF Typed, TypeOK
<1> QED
  BY <1>1, <1>2

\* What Begin, Tick, OnCompleted and SaveOutcome do to their slot.
LEMMA SlotMoved ==
  ASSUME Typed, NEW i \in Slots, slots[i].pc # "idle",
         NEW pc \in {"starting", "ticking", "completing", "saving", "checking"},
         NEW result \in RunStates,
         slots' = [slots EXCEPT ![i].pc = pc, ![i].result = result]
  PROVE  /\ slots' \in [Slots -> Slot] /\ Occupied'
         /\ slots'[i].project = slots[i].project /\ slots'[i].pc = pc
         /\ slots'[i].result = result
         /\ \A j \in Slots : j # i => slots'[j] = slots[j]
<1> DEFINE s == [slots[i] EXCEPT !.pc = pc, !.result = result]
<1>1. s \in Slot /\ s.project = slots[i].project /\ s.pc = pc /\ s.result = result
  BY SlotType DEF Typed, Slot
<1>2. slots' = [slots EXCEPT ![i] = s]
  BY DEF Typed, TypeOK
<1>3. s.project \in Projects
  BY <1>1 DEF Typed, Occupied
<1> HIDE DEF s
<1> QED
  BY <1>1, <1>2, <1>3, SlotReplaced

\* A run's steps in one form: the slot's next place and result.
Goes(i, pc, result) == slots' = [slots EXCEPT ![i].pc = pc, ![i].result = result]

LEMMA BeginGoes ==
  ASSUME Typed, NEW i \in Slots, Begin(i)
  PROVE  Goes(i, "ticking", slots[i].result)
BY SlotType DEF Begin, Goes, Typed, TypeOK, Slot

LEMMA SaveGoes ==
  ASSUME Typed, NEW i \in Slots, SaveOutcome(i)
  PROVE  Goes(i, "checking", slots[i].result)
BY SlotType DEF SaveOutcome, Goes, Typed, TypeOK, Slot

LEMMA TickGoes ==
  ASSUME Typed, NEW i \in Slots, Tick(i)
  PROVE  \/ Goes(i, "completing", "none")
         \/ Goes(i, "saving", "needs_user") \/ Goes(i, "saving", "deferred")
<1>1. ASSUME NEW record \in RecordStates, slots' = Report(i, record)
      PROVE  \/ Goes(i, "completing", "none")
             \/ Goes(i, "saving", "needs_user") \/ Goes(i, "saving", "deferred")
  <2>1. CASE record = "completed"
    BY <1>1, <2>1 DEF Report, Goes
  <2>2. CASE record = "owner"
    BY <1>1, <2>2 DEF Report, Goes
  <2>3. CASE record \in {"ready", "busy"}
    BY <1>1, <2>3 DEF Report, Goes
  <2> QED
    BY <2>1, <2>2, <2>3 DEF RecordStates
<1>2. \A record : AfterTick(record) \subseteq RecordStates \cup {record}
  BY DEF AfterTick, RecordStates
<1>3. records[slots[i].project] \in RecordStates
  BY DEF Tick, Typed, TypeOK, Occupied
<1> QED
  BY <1>1, <1>2, <1>3 DEF Tick, RecordStates

LEMMA OnCompletedGoes ==
  ASSUME Typed, NEW i \in Slots, OnCompleted(i)
  PROVE  \/ Goes(i, "saving", "completed") /\ told' = told \cup {slots[i].project}
         \/ Goes(i, "saving", "needs_user") /\ told' \in {told, told \cup {slots[i].project}}
BY DEF OnCompleted, Goes

LEMMA GoneTypes ==
  ASSUME Typed, NEW i \in Slots, slots[i].pc # "idle",
         NEW pc \in {"ticking", "completing", "saving", "checking"},
         NEW result \in RunStates, Goes(i, pc, result)
  PROVE  slots' \in [Slots -> Slot] /\ Occupied'
BY SlotMoved DEF Goes

LEMMA TypedRun ==
  ASSUME Typed, NEW i \in Slots, Run(i)
  PROVE  Typed'
<1>0. {"none", "needs_user", "deferred", "completed"} \subseteq RunStates
  BY DEF RunStates
<1>1. CASE Begin(i)
  <2>1. slots' \in [Slots -> Slot] /\ Occupied'
    BY <1>1, BeginGoes, GoneTypes, SlotType DEF Begin, Typed
  <2> QED
    BY <1>1, <2>1 DEF Begin, rest, startup, Typed, TypeOK, Visiting, RunStates
<1>2. CASE Tick(i)
  <2>1. slots' \in [Slots -> Slot] /\ Occupied'
    BY <1>0, <1>2, TickGoes, GoneTypes DEF Tick
  <2>2. records' \in [Projects -> RecordStates]
    <3>1. \A record : AfterTick(record) \subseteq RecordStates \cup {record}
      BY DEF AfterTick, RecordStates
    <3>2. records[slots[i].project] \in RecordStates
      BY <1>2 DEF Tick, Typed, TypeOK, Occupied
    <3>3. PICK record \in AfterTick(records[slots[i].project]) :
            records' = [records EXCEPT ![slots[i].project] = record]
      BY <1>2 DEF Tick
    <3>4. record \in RecordStates
      BY <3>1, <3>2
    <3> QED
      BY <3>3, <3>4 DEF Typed, TypeOK
  <2> QED
    BY <1>2, <2>1, <2>2 DEF Tick, rest, startup, Typed, TypeOK, Visiting
<1>3. CASE OnCompleted(i)
  <2>1. slots' \in [Slots -> Slot] /\ Occupied'
    BY <1>0, <1>3, OnCompletedGoes, GoneTypes DEF OnCompleted
  <2>2. told' \in SUBSET Projects
    BY <1>3 DEF OnCompleted, Typed, TypeOK, Occupied
  <2> QED
    BY <1>3, <2>1, <2>2 DEF OnCompleted, rest, startup, Typed, TypeOK, Visiting
<1>4. CASE SaveOutcome(i)
  <2>1. slots' \in [Slots -> Slot] /\ Occupied'
    BY <1>4, SaveGoes, GoneTypes, SlotType DEF SaveOutcome, Typed
  <2>2. runs' \in [Projects -> RunStates]
    BY <1>4, SlotType DEF SaveOutcome, Typed, TypeOK
  <2> QED
    BY <1>4, <2>1, <2>2 DEF SaveOutcome, rest, startup, Typed, TypeOK, Visiting
<1>5. CASE Recheck(i)
  <2>1. slots[i].project \in Projects
    BY <1>5 DEF Recheck, Typed, Occupied
  <2>2. timers' \in SUBSET Projects
    BY <1>5, <2>1, ArmedType DEF Recheck, Typed, TypeOK
  <2> QED
    BY <1>5, <2>2, FreedTypes DEF Recheck, disk, startup, Typed, TypeOK, Visiting
<1> QED
  BY <1>1, <1>2, <1>3, <1>4, <1>5 DEF Run

LEMMA TypedTimer ==
  ASSUME Typed, NEW p \in Projects, TimerFires(p)
  PROVE  Typed'
<1>1. timers' \in SUBSET Projects
  BY DEF TimerFires, Typed, TypeOK
<1>2. CASE UNCHANGED <<queue, inFlight, slots>>
  BY <1>1, <1>2 DEF TimerFires, disk, startup, Typed, TypeOK, Visiting, Occupied
<1>3. CASE queue' = Append(queue, p) /\ UNCHANGED <<inFlight, slots>>
  <2>1. queue' \in Seq(Projects)
    BY <1>3 DEF Typed, TypeOK
  <2> QED
    BY <1>1, <1>3, <2>1 DEF TimerFires, disk, startup, Typed, TypeOK, Visiting, Occupied
<1>4. ASSUME NEW i \in Slots, slots' = [slots EXCEPT ![i] = Started(p)],
             inFlight' = inFlight \cup {p}, UNCHANGED queue
      PROVE  Typed'
  <2>1. slots' \in [Slots -> Slot] /\ Occupied'
    BY <1>4, StartedSlot, SlotReplaced
  <2> QED
    BY <1>1, <1>4, <2>1 DEF TimerFires, disk, startup, Typed, TypeOK, Visiting
<1> QED
  BY <1>2, <1>3, <1>4, LimitedSlots DEF TimerFires

LEMMA TypedResume ==
  ASSUME Typed, (\E p \in Projects : Resume(p)) \/ ResumeContradicted
  PROVE  Typed'
<1>1. ASSUME NEW p \in Projects, Resume(p)
      PROVE  Typed'
  <2>1. timers' \in SUBSET Projects
    BY <1>1, ArmedType DEF Resume, Typed, TypeOK
  <2>2. resuming' \in [Projects -> RunStates]
    BY <1>1 DEF Resume, Typed, TypeOK, RunStates
  <2>3. visit' \in [project : Projects \cup {"none"}, record : RecordStates \cup {"none"}] /\ Visiting'
    BY <1>1 DEF Resume, Typed, TypeOK, NoVisit, Visiting
  <2> QED
    BY <1>1, <2>1, <2>2, <2>3 DEF Resume, disk, Typed, TypeOK, Occupied
<1>2. CASE ResumeContradicted
  <2>1. visit.project \in Projects
    BY <1>2 DEF ResumeContradicted, Typed, Visiting
  <2>2. timers' \in SUBSET Projects /\ told' \in SUBSET Projects
    BY <1>2, <2>1, ArmedType DEF ResumeContradicted, Typed, TypeOK
  <2>3. runs' \in [Projects -> RunStates]
    BY <1>2 DEF ResumeContradicted, Typed, TypeOK, RunStates
  <2> QED
    BY <1>2, <2>2, <2>3 DEF ResumeContradicted, Typed, TypeOK, Occupied, Visiting, NoVisit
<1> QED
  BY <1>1, <1>2

LEMMA TypedRest ==
  ASSUME Typed,
         \/ \E p \in Projects : Schedule(p) \/ Arm(p) \/ OwnerRetries(p)
         \/ Wake \/ Stop \/ Exit \/ Restart \/ UNCHANGED vars
  PROVE  Typed'
<1>1. ASSUME NEW p \in Projects, Schedule(p) \/ Arm(p) \/ OwnerRetries(p)
      PROVE  Typed'
  BY <1>1, ArmedType DEF Schedule, Arm, OwnerRetries, disk, turn, startup, Typed, TypeOK,
     Occupied, Visiting, RunStates, RecordStates
<1>2. CASE Wake
  <2>1. calls' \in SUBSET Projects
    BY <1>2, CoordinatorAssumption DEF Wake, Typed, TypeOK
  <2> QED
    BY <1>2, <2>1 DEF Wake, disk, turn, startup, Typed, TypeOK, Occupied, Visiting
<1>3. CASE Stop
  BY <1>3 DEF Stop, disk, startup, Typed, TypeOK, Occupied, Visiting
<1>4. CASE Exit
  <2>1. slots' \in [Slots -> Slot] /\ Occupied'
    BY <1>4, IdleSlot DEF Exit, Occupied
  <2>2. NothingToResume \in [Projects -> RunStates]
    BY DEF NothingToResume, RunStates
  <2>3. limit' \in 1..MaxConcurrentProjects /\ crashes' \in 0..CrashLimit[limit']
    <3>1. CrashLimit[limit] \in Nat
      BY CoordinatorAssumption DEF Typed, TypeOK
    <3> QED
      BY <1>4, <3>1 DEF Exit, Typed, TypeOK
  <2>4. resuming' = NothingToResume /\ visit' = NoVisit /\ process' = "down"
        /\ records' \in [Projects -> RecordStates] /\ UNCHANGED <<runs, told>>
        /\ timers' = {} /\ queue' = <<>> /\ inFlight' = {} /\ calls' = {} /\ arming' = {}
    BY <1>4 DEF Exit
  <2> QED
    BY <2>1, <2>2, <2>3, <2>4 DEF Typed, TypeOK, Visiting, NoVisit
<1>5. CASE Restart
  BY <1>5 DEF Restart, disk, turn, Typed, TypeOK, Occupied, Visiting
<1>6. CASE UNCHANGED vars
  BY <1>6 DEF vars, disk, turn, startup, Typed, TypeOK, Occupied, Visiting
<1> QED
  BY <1>1, <1>2, <1>3, <1>4, <1>5, <1>6

LEMMA TypedNext == Typed /\ [Next]_vars => Typed'
<1>1. Attended \subseteq Projects
  BY CoordinatorAssumption
<1> QED
  BY <1>1, TypedRun, TypedTimer, TypedResume, TypedRest DEF Next

LEMMA TypedInit == Init => Typed
<1> SUFFICES ASSUME Init PROVE Typed
  OBVIOUS
<1>1. slots \in [Slots -> Slot] /\ Occupied
  BY IdleSlot DEF Init, Occupied
<1>2. limit \in 1..MaxConcurrentProjects /\ crashes \in 0..CrashLimit[limit]
  BY CoordinatorAssumption DEF Init
<1> QED
  BY <1>1, <1>2 DEF Init, Typed, TypeOK, Visiting, RunStates, RecordStates,
     NothingToResume, NoVisit

-----------------------------------------------------------------------------
(* What is in flight, what waits, and what works.                           *)

\* The projects of the slots at work are those in flight, each once; those in
\* the queue wait once, and are not in flight.
Exclusive ==
  /\ \A i \in Slots : Working(i) => slots[i].project \in inFlight
  /\ \A p \in inFlight : \E i \in Slots : Working(i) /\ slots[i].project = p
  /\ OneRunPerProject

\* A slot moves on with its project, or gives it up.
LEMMA GoesOnExclusive ==
  ASSUME Typed, Exclusive, NEW i \in Slots, Working(i),
         NEW pc \in {"ticking", "completing", "saving"}, NEW result \in RunStates,
         Goes(i, pc, result), UNCHANGED <<queue, inFlight>>
  PROVE  Exclusive'
<1>1. /\ slots'[i].project = slots[i].project /\ slots'[i].pc = pc
      /\ \A j \in Slots : j # i => slots'[j] = slots[j]
  BY SlotMoved DEF Goes, Working
<1>2. \A j \in Slots : /\ slots'[j].project = slots[j].project
                       /\ Working(j)' <=> Working(j)
  BY <1>1 DEF Working
<1> QED
  BY <1>2 DEF Exclusive, OneRunPerProject

LEMMA GivesUpExclusive ==
  ASSUME Typed, Exclusive, NEW i \in Slots, Working(i), NEW result \in RunStates,
         Goes(i, "checking", result), queue' = queue,
         inFlight' = inFlight \ {slots[i].project}
  PROVE  Exclusive'
<1>1. /\ slots'[i].project = slots[i].project /\ slots'[i].pc = "checking"
      /\ \A j \in Slots : j # i => slots'[j] = slots[j]
  BY SlotMoved DEF Goes, Working
<1>2. ~Working(i)' /\ \A j \in Slots : j # i => (Working(j)' <=> Working(j))
  BY <1>1 DEF Working
<1> QED
  BY <1>1, <1>2 DEF Exclusive, OneRunPerProject

\* A slot that did not work takes up a project that neither waits nor works.
LEMMA TakesUpExclusive ==
  ASSUME Typed, Exclusive, NEW i \in Slots, ~Working(i), NEW p \in Projects,
         p \notin inFlight, slots' = [slots EXCEPT ![i] = Started(p)],
         inFlight' = inFlight \cup {p},
         \A k \in 1..Len(queue') : queue'[k] \notin inFlight \cup {p},
         \A k, l \in 1..Len(queue') : k # l => queue'[k] # queue'[l]
  PROVE  Exclusive'
<1>1. slots'[i] = Started(p) /\ \A j \in Slots : j # i => slots'[j] = slots[j]
  BY StartedSlot, SlotReplaced
<1>2. /\ Working(i)' /\ slots'[i].project = p
      /\ \A j \in Slots : j # i => (Working(j)' <=> Working(j))
  BY <1>1, StartedSlot DEF Working
<1> QED
  BY <1>1, <1>2 DEF Exclusive, OneRunPerProject

LEMMA FreedExclusive ==
  ASSUME Typed, Exclusive, NEW i \in Slots, ~Working(i), Freed(i)
  PROVE  Exclusive'
<1>1. CASE queue = <<>>
  <2>1. slots' = [slots EXCEPT ![i] = Idle] /\ UNCHANGED <<queue, inFlight>>
    BY <1>1 DEF Freed
  <2>2. slots'[i] = Idle /\ \A j \in Slots : j # i => slots'[j] = slots[j]
    BY <2>1, IdleSlot, SlotReplaced
  <2>3. \A j \in Slots : Working(j)' <=> Working(j)
    BY <2>2, IdleSlot DEF Working
  <2> QED
    BY <2>1, <2>2, <2>3 DEF Exclusive, OneRunPerProject, Working
<1>2. CASE queue # <<>>
  <2>1. /\ slots' = [slots EXCEPT ![i] = Started(Head(queue))]
        /\ queue' = Tail(queue) /\ inFlight' = inFlight \cup {Head(queue)}
    BY <1>2 DEF Freed
  <2>2. /\ Head(queue) \in Projects /\ Len(queue) \in Nat \ {0} /\ Head(queue) = queue[1]
        /\ Len(queue') = Len(queue) - 1
        /\ \A k \in 1..Len(queue') : queue'[k] = queue[k + 1]
    BY <1>2, <2>1, HeadAndTail DEF Typed, TypeOK
  <2>3. \A k \in 1..Len(queue') : k + 1 \in 1..Len(queue) /\ k + 1 # 1
    BY <2>2
  <2>4. 1 \in 1..Len(queue)
    BY <2>2
  <2>5. \A k \in 1..Len(queue') : queue'[k] \notin inFlight \cup {Head(queue)}
    BY <2>2, <2>3, <2>4 DEF Exclusive, OneRunPerProject
  <2>6. \A k, l \in 1..Len(queue') : k # l => queue'[k] # queue'[l]
    <3> SUFFICES ASSUME NEW k \in 1..Len(queue'), NEW l \in 1..Len(queue'), k # l
                 PROVE  queue'[k] # queue'[l]
      OBVIOUS
    <3>1. k + 1 # l + 1
      BY <2>2
    <3> QED
      BY <2>2, <2>3, <3>1 DEF Exclusive, OneRunPerProject
  <2>7. Head(queue) \notin inFlight
    BY <2>2, <2>4 DEF Exclusive, OneRunPerProject
  <2> QED
    BY <2>1, <2>2, <2>5, <2>6, <2>7, TakesUpExclusive
<1> QED
  BY <1>1, <1>2

LEMMA ExclusiveRun ==
  ASSUME Typed, Exclusive, NEW i \in Slots, Run(i)
  PROVE  Exclusive'
<1>0. {"none", "needs_user", "deferred", "completed"} \subseteq RunStates
  BY DEF RunStates
<1>1. CASE Begin(i)
  BY <1>1, BeginGoes, GoesOnExclusive, SlotType DEF Begin, Working, rest, Typed
<1>2. CASE Tick(i)
  BY <1>0, <1>2, TickGoes, GoesOnExclusive DEF Tick, Working, rest
<1>3. CASE OnCompleted(i)
  BY <1>0, <1>3, OnCompletedGoes, GoesOnExclusive DEF OnCompleted, Working, rest
<1>4. CASE SaveOutcome(i)
  BY <1>4, SaveGoes, GivesUpExclusive, SlotType DEF SaveOutcome, Working, rest, Typed
<1>5. CASE Recheck(i)
  BY <1>5, FreedExclusive DEF Recheck, Working
<1> QED
  BY <1>1, <1>2, <1>3, <1>4, <1>5 DEF Run

LEMMA ExclusiveTimer ==
  ASSUME Typed, Exclusive, NEW p \in Projects, TimerFires(p)
  PROVE  Exclusive'
<1>1. CASE UNCHANGED <<queue, inFlight, slots>>
  BY <1>1 DEF Exclusive, OneRunPerProject, Working
<1>w. ASSUME MayStart(p)
      PROVE  p \notin inFlight /\ \A k \in 1..Len(queue) : queue[k] # p
  BY <1>w DEF MayStart, Queued
<1>2. CASE MayStart(p) /\ queue' = Append(queue, p) /\ UNCHANGED <<inFlight, slots>>
  <2>1. /\ Len(queue) \in Nat /\ Len(queue') = Len(queue) + 1 /\ queue'[Len(queue) + 1] = p
        /\ \A k \in 1..Len(queue) : queue'[k] = queue[k]
    BY <1>2 DEF Typed, TypeOK
  <2>2. \A k \in 1..Len(queue') : k \in 1..Len(queue) \/ k = Len(queue) + 1
    BY <2>1
  <2>3. \A k \in 1..Len(queue') : queue'[k] \notin inFlight
    BY <1>2, <1>w, <2>1, <2>2 DEF Exclusive, OneRunPerProject
  <2>4. \A k, l \in 1..Len(queue') : k # l => queue'[k] # queue'[l]
    BY <1>2, <1>w, <2>1, <2>2 DEF Exclusive, OneRunPerProject
  <2> QED
    BY <1>2, <2>3, <2>4 DEF Exclusive, OneRunPerProject, Working
<1>3. ASSUME NEW i \in Slots, slots[i] = Idle, MayStart(p),
             slots' = [slots EXCEPT ![i] = Started(p)],
             inFlight' = inFlight \cup {p}, UNCHANGED queue
      PROVE  Exclusive'
  <2>1. ~Working(i)
    BY <1>3, IdleSlot DEF Working
  <2>2. \A k \in 1..Len(queue') : queue'[k] \notin inFlight \cup {p}
    BY <1>3, <1>w DEF Exclusive, OneRunPerProject
  <2>3. \A k, l \in 1..Len(queue') : k # l => queue'[k] # queue'[l]
    BY <1>3 DEF Exclusive, OneRunPerProject
  <2> QED
    BY <1>3, <1>w, <2>1, <2>2, <2>3, TakesUpExclusive
<1> QED
  BY <1>1, <1>2, <1>3, LimitedSlots DEF TimerFires

LEMMA ExclusiveNext == Typed /\ Exclusive /\ [Next]_vars => Exclusive'
<1> SUFFICES ASSUME Typed, Exclusive, [Next]_vars PROVE Exclusive'
  OBVIOUS
<1>1. CASE UNCHANGED <<slots, queue, inFlight>>
  BY <1>1 DEF Exclusive, OneRunPerProject, Working
<1>3. CASE Stop
  <2>1. queue' = <<>> /\ UNCHANGED <<slots, inFlight>> /\ Len(queue') = 0
    BY <1>3 DEF Stop
  <2> QED
    BY <2>1 DEF Exclusive, OneRunPerProject, Working
<1>4. CASE Exit
  <2>1. queue' = <<>> /\ inFlight' = {} /\ Len(queue') = 0
        /\ \A i \in Slots : slots'[i] = Idle
    BY <1>4 DEF Exit
  <2> QED
    BY <2>1, IdleSlot DEF Exclusive, OneRunPerProject, Working
<1>5. CASE \/ \E p \in Projects : Schedule(p) \/ Arm(p) \/ Resume(p)
           \/ \E p \in Attended : OwnerRetries(p)
           \/ ResumeContradicted \/ Wake \/ Restart \/ UNCHANGED vars
  BY <1>1, <1>5 DEF Schedule, Arm, Resume, OwnerRetries, ResumeContradicted, Wake, Restart,
     vars, turn
<1> QED
  BY <1>3, <1>4, <1>5, ExclusiveRun, ExclusiveTimer DEF Next

-----------------------------------------------------------------------------
(* What is completed is told.                                               *)

Outcomes == {"none", "needs_user", "deferred", "completed"}
Told ==
  /\ CompletedIsTold
  /\ \A i \in Slots : /\ slots[i].result \in Outcomes
                      /\ slots[i].result = "completed" => slots[i].project \in told

LEMMA GoesTold ==
  ASSUME Typed, Told, NEW i \in Slots, slots[i].pc # "idle",
         NEW pc \in {"ticking", "completing", "saving", "checking"},
         NEW result \in Outcomes, Goes(i, pc, result), told \subseteq told',
         result = "completed" => slots[i].project \in told',
         \/ runs' = runs
         \/ runs' = [runs EXCEPT ![slots[i].project] = "running"]
         \/ runs' = [runs EXCEPT ![slots[i].project] = result]
  PROVE  Told'
<1>1. /\ slots'[i].project = slots[i].project /\ slots'[i].result = result
      /\ \A j \in Slots : j # i => slots'[j] = slots[j]
  BY SlotMoved DEF Goes, Outcomes, RunStates
<1>2. slots[i].project \in Projects
  BY DEF Typed, Occupied
<1>3. ASSUME NEW p \in Projects, runs'[p] = "completed"
      PROVE  p \in told'
  <2>1. runs'[p] = runs[p] \/ p = slots[i].project
    BY DEF Typed, TypeOK
  <2>2. CASE runs'[p] = runs[p]
    BY <1>3, <2>2 DEF Told, CompletedIsTold
  <2>3. CASE p = slots[i].project /\ runs'[p] # runs[p]
    BY <1>2, <1>3, <2>3 DEF Typed, TypeOK
  <2> QED
    BY <2>1, <2>2, <2>3
<1> QED
  BY <1>1, <1>3 DEF Told, CompletedIsTold

LEMMA FreedTold ==
  ASSUME Typed, Told, NEW i \in Slots, Freed(i), UNCHANGED <<runs, told>>
  PROVE  Told'
<1>1. ASSUME NEW s \in Slot, s.pc # "idle" => s.project \in Projects, s.result = "none",
             slots' = [slots EXCEPT ![i] = s]
      PROVE  Told'
  <2>1. slots'[i] = s /\ \A j \in Slots : j # i => slots'[j] = slots[j]
    BY <1>1, SlotReplaced
  <2> QED
    BY <1>1, <2>1 DEF Told, CompletedIsTold, Outcomes
<1>2. CASE queue = <<>>
  BY <1>1, <1>2, IdleSlot DEF Freed
<1>3. CASE queue # <<>>
  <2>1. Head(queue) \in Projects
    BY <1>3, HeadAndTail DEF Typed, TypeOK
  <2> QED
    BY <1>1, <1>3, <2>1, StartedSlot DEF Freed
<1> QED
  BY <1>2, <1>3

LEMMA ToldRun ==
  ASSUME Typed, Told, NEW i \in Slots, Run(i)
  PROVE  Told'
<1>0. {"none", "needs_user", "deferred", "completed"} = Outcomes /\ slots[i].result \in Outcomes
  BY DEF Outcomes, Told
<1>1. CASE Begin(i)
  BY <1>0, <1>1, BeginGoes, GoesTold DEF Begin, Told
<1>2. CASE Tick(i)
  BY <1>0, <1>2, TickGoes, GoesTold DEF Tick
<1>3. CASE OnCompleted(i)
  <2>1. told \subseteq told' /\ runs' = runs /\ slots[i].pc = "completing"
    BY <1>3 DEF OnCompleted
  <2>2. CASE Goes(i, "saving", "completed") /\ told' = told \cup {slots[i].project}
    BY <1>0, <2>1, <2>2, GoesTold
  <2>3. CASE Goes(i, "saving", "needs_user")
    BY <1>0, <2>1, <2>3, GoesTold
  <2> QED
    BY <1>3, <2>2, <2>3, OnCompletedGoes
<1>4. CASE SaveOutcome(i)
  BY <1>0, <1>4, SaveGoes, GoesTold DEF SaveOutcome, Told
<1>5. CASE Recheck(i)
  BY <1>5, FreedTold DEF Recheck, disk
<1> QED
  BY <1>1, <1>2, <1>3, <1>4, <1>5 DEF Run

LEMMA ToldNext == Typed /\ Told /\ [Next]_vars => Told'
<1> SUFFICES ASSUME Typed, Told, [Next]_vars PROVE Told'
  OBVIOUS
<1>1. CASE UNCHANGED <<slots, runs, told>>
  BY <1>1 DEF Told, CompletedIsTold
<1>2. ASSUME NEW p \in Projects, TimerFires(p)
      PROVE  Told'
  <2>1. UNCHANGED <<runs, told>>
    BY <1>2 DEF TimerFires, disk
  <2>2. ASSUME NEW i \in Slots, slots' = [slots EXCEPT ![i] = Started(p)]
        PROVE  Told'
    <3>1. slots'[i] = Started(p) /\ \A j \in Slots : j # i => slots'[j] = slots[j]
      BY <2>2, StartedSlot, SlotReplaced
    <3> QED
      BY <2>1, <3>1, StartedSlot DEF Told, CompletedIsTold, Outcomes
  <2> QED
    BY <1>1, <1>2, <2>1, <2>2, LimitedSlots DEF TimerFires
<1>3. ASSUME NEW p \in Projects, Schedule(p)
      PROVE  Told'
  <2>1. \A q \in Projects : runs'[q] \in {runs[q], "queued"}
    BY <1>3 DEF Schedule, Typed, TypeOK
  <2>2. UNCHANGED <<slots, told>>
    BY <1>3 DEF Schedule, turn
  <2> QED
    BY <2>1, <2>2 DEF Told, CompletedIsTold
<1>4. CASE ResumeContradicted
  <2>1. slots' = slots /\ told \subseteq told'
    BY <1>4 DEF ResumeContradicted
  <2>2. \A q \in Projects : runs'[q] \in {runs[q], "queued"} \/ q \in told'
    <3>1. CASE runs' = [runs EXCEPT ![visit.project] = "queued"]
      BY <3>1 DEF Typed, TypeOK
    <3>2. CASE /\ runs' = [runs EXCEPT ![visit.project] = "completed"]
               /\ told' = told \cup {visit.project}
      BY <3>2 DEF Typed, TypeOK
    <3> QED
      BY <1>4, <3>1, <3>2 DEF ResumeContradicted
  <2> QED
    BY <2>1, <2>2 DEF Told, CompletedIsTold
<1>5. CASE Exit
  BY <1>5, IdleSlot DEF Exit, Told, CompletedIsTold, Outcomes
<1>6. CASE \/ \E p \in Projects : Arm(p) \/ Resume(p)
           \/ \E p \in Attended : OwnerRetries(p)
           \/ Wake \/ Stop \/ Restart \/ UNCHANGED vars
  BY <1>1, <1>6 DEF Arm, Resume, OwnerRetries, Wake, Stop, Restart, vars, turn, disk
<1> QED
  BY <1>2, <1>3, <1>4, <1>5, <1>6, ToldRun DEF Next

-----------------------------------------------------------------------------
(* What is pending is remembered.                                           *)

\* What will come back to p by itself. A slot that is about to look at the
\* saved run comes back too, unless it finds "running" there.
Held(p) == p \in timers \cup arming \cup Queued \cup inFlight \/ resuming[p] \in Resumable
Checked(p) == \E i \in Slots : slots[i].pc = "checking" /\ slots[i].project = p
Remembered ==
  process = "up" =>
    \A p \in Projects : runs[p] \in Resumable =>
      Held(p) \/ (runs[p] # "running" /\ Checked(p))

LEMMA ArmedHeld ==
  ASSUME process = "up", NEW p, timers' = Armed(p), inFlight \subseteq inFlight'
  PROVE  Held(p)' /\ timers \subseteq timers'
BY DEF Armed, Held

LEMMA QueueShifts ==
  ASSUME Typed, queue # <<>>, queue' = Tail(queue)
  PROVE  Queued \subseteq Queued' \cup {Head(queue)}
<1>1. /\ Len(queue) \in Nat \ {0} /\ Head(queue) = queue[1]
      /\ Len(queue') = Len(queue) - 1
      /\ \A k \in 1..Len(queue') : queue'[k] = queue[k + 1]
  BY HeadAndTail DEF Typed, TypeOK
<1> SUFFICES ASSUME NEW k \in 1..Len(queue), k # 1 PROVE queue[k] \in Queued'
  BY <1>1 DEF Queued
<1>2. k - 1 \in 1..Len(queue') /\ queue'[k - 1] = queue[k]
  BY <1>1
<1> QED
  BY <1>2 DEF Queued

LEMMA FreedHolds ==
  ASSUME Typed, NEW i \in Slots, Freed(i)
  PROVE  /\ Queued \cup inFlight \subseteq Queued' \cup inFlight' /\ inFlight \subseteq inFlight'
         /\ \A j \in Slots : j # i => slots'[j] = slots[j]
<1>1. CASE queue = <<>>
  BY <1>1, IdleSlot, SlotReplaced DEF Freed, Queued
<1>2. CASE queue # <<>>
  <2>1. Head(queue) \in Projects
    BY <1>2, HeadAndTail DEF Typed, TypeOK
  <2>2. /\ slots' = [slots EXCEPT ![i] = Started(Head(queue))]
        /\ queue' = Tail(queue) /\ inFlight' = inFlight \cup {Head(queue)}
    BY <1>2 DEF Freed
  <2>3. Queued \subseteq Queued' \cup {Head(queue)}
    BY <1>2, <2>2, QueueShifts
  <2> QED
    BY <2>1, <2>2, <2>3, StartedSlot, SlotReplaced
<1> QED
  BY <1>1, <1>2

LEMMA RememberedRun ==
  ASSUME Typed, Exclusive, Told, Remembered, NEW i \in Slots, Run(i)
  PROVE  Remembered'
<1> DEFINE p == slots[i].project
<1> SUFFICES ASSUME process' = "up", NEW q \in Projects, runs'[q] \in Resumable
             PROVE  Held(q)' \/ (runs'[q] # "running" /\ Checked(q)')
  BY DEF Remembered
<1>0. process = "up" /\ (runs[q] \in Resumable => Held(q) \/ (runs[q] # "running" /\ Checked(q)))
  BY DEF Remembered, Run, Begin, Tick, OnCompleted, SaveOutcome, Recheck, rest
<1>r. RunStates \cap Resumable = {"queued", "running", "deferred"} /\ Outcomes \subseteq RunStates
  BY DEF Resumable, RunStates, Outcomes
<1>g. ASSUME slots[i].pc # "idle", slots[i].pc # "checking",
             NEW pc \in {"ticking", "completing", "saving", "checking"},
             NEW result \in RunStates, Goes(i, pc, result)
      PROVE  Checked(q) => Checked(q)'
  BY <1>g, SlotMoved DEF Goes, Checked
<1>1. CASE Begin(i)
  <2>1. CASE q = p
    <3>1. p \in inFlight
      BY <1>1 DEF Exclusive, Working, Begin
    <3> QED
      BY <1>1, <2>1, <3>1 DEF Begin, Held
  <2>2. CASE q # p
    <3>1. runs'[q] = runs[q] /\ (Checked(q) => Checked(q)')
      BY <1>1, <2>2, <1>g, BeginGoes, SlotType DEF Begin, Typed, TypeOK
    <3>2. Held(q) => Held(q)'
      BY <1>1 DEF Begin, rest, startup, Held, Queued
    <3> QED
      BY <1>0, <3>1, <3>2
  <2> QED
    BY <2>1, <2>2
<1>2. CASE Tick(i) \/ OnCompleted(i)
  <2>1. Checked(q) => Checked(q)'
    BY <1>2, <1>g, <1>r, TickGoes, OnCompletedGoes DEF Tick, OnCompleted, Outcomes
  <2>2. Held(q) => Held(q)'
    BY <1>2 DEF Tick, OnCompleted, rest, startup, Held, Queued
  <2>3. runs' = runs
    BY <1>2 DEF Tick, OnCompleted
  <2> QED
    BY <1>0, <2>1, <2>2, <2>3
<1>3. CASE SaveOutcome(i)
  <2>1. /\ slots[i].pc = "saving" /\ Goes(i, "checking", slots[i].result)
        /\ slots[i].result \in Outcomes
    BY <1>3, SaveGoes DEF SaveOutcome, Told
  <2>2. /\ slots'[i].project = p /\ slots'[i].pc = "checking"
        /\ \A j \in Slots : j # i => slots'[j] = slots[j]
    BY <2>1, <1>r, SlotMoved DEF Goes
  <2>3. CASE q = p
    <3>1. runs'[q] = slots[i].result
      BY <1>3, <2>3 DEF SaveOutcome, Typed, TypeOK
    <3>2. runs'[q] # "running"
      BY <2>1, <3>1 DEF Outcomes
    <3> QED
      BY <2>2, <2>3, <3>2 DEF Checked
  <2>4. CASE q # p
    <3>1. runs'[q] = runs[q] /\ (Checked(q) => Checked(q)')
      BY <1>3, <2>1, <2>2, <2>4 DEF SaveOutcome, Checked, Typed, TypeOK
    <3>2. Held(q) => Held(q)'
      BY <1>3, <2>4 DEF SaveOutcome, rest, startup, Held, Queued
    <3> QED
      BY <1>0, <3>1, <3>2
  <2> QED
    BY <2>3, <2>4
<1>4. CASE Recheck(i)
  <2>1. /\ Queued \cup inFlight \subseteq Queued' \cup inFlight' /\ inFlight \subseteq inFlight'
        /\ \A j \in Slots : j # i => slots'[j] = slots[j]
    BY <1>4, FreedHolds DEF Recheck
  <2>2. timers \subseteq timers' /\ UNCHANGED <<runs, arming, resuming>>
    BY <1>4, <1>0 DEF Recheck, Armed, disk, startup
  <2>3. Held(q) => Held(q)'
    BY <2>1, <2>2 DEF Held
  <2>4. CASE q = p /\ runs[q] \in {"queued", "deferred"}
    BY <1>0, <1>4, <2>1, <2>4, ArmedHeld DEF Recheck
  <2>5. CASE q = p /\ runs[q] = "running"
    BY <1>0, <2>2, <2>3, <2>5
  <2>6. CASE q # p
    <3>1. Checked(q) => Checked(q)'
      BY <2>1, <2>6 DEF Checked
    <3> QED
      BY <1>0, <2>2, <2>3, <3>1
  <2> QED
    BY <1>r, <2>2, <2>4, <2>5, <2>6 DEF Resumable
<1> QED
  BY <1>1, <1>2, <1>3, <1>4 DEF Run

LEMMA RememberedTimer ==
  ASSUME Typed, Remembered, NEW p \in Projects, TimerFires(p)
  PROVE  Remembered'
<1> SUFFICES ASSUME process' = "up", NEW q \in Projects, runs'[q] \in Resumable
             PROVE  Held(q)' \/ (runs'[q] # "running" /\ Checked(q)')
  BY DEF Remembered
<1>0. UNCHANGED <<runs, process, arming, resuming>> /\ timers' = timers \ {p}
  BY DEF TimerFires, disk, startup
<1>1. Held(q) \/ (runs[q] # "running" /\ Checked(q))
  BY <1>0 DEF Remembered
<1>2. CASE ~MayStart(p) /\ UNCHANGED <<queue, inFlight, slots>>
  <2>1. p \in Queued' \cup inFlight' /\ Queued' = Queued
    BY <1>2 DEF MayStart, Queued
  <2>2. (Held(q) => Held(q)') /\ (Checked(q) => Checked(q)')
    BY <1>0, <1>2, <2>1 DEF Held, Checked
  <2> QED
    BY <1>0, <1>1, <2>2
<1>3. CASE queue' = Append(queue, p) /\ UNCHANGED <<inFlight, slots>>
  <2>1. /\ Len(queue) \in Nat /\ Len(queue') = Len(queue) + 1 /\ queue'[Len(queue) + 1] = p
        /\ \A k \in 1..Len(queue) : queue'[k] = queue[k]
    BY <1>3 DEF Typed, TypeOK
  <2>2. Queued \cup {p} \subseteq Queued'
    <3>1. Queued \subseteq Queued'
      BY <2>1 DEF Queued
    <3>2. Len(queue) + 1 \in 1..Len(queue')
      BY <2>1
    <3> QED
      BY <2>1, <3>1, <3>2 DEF Queued
  <2>3. (Held(q) => Held(q)') /\ (Checked(q) => Checked(q)')
    BY <1>0, <1>3, <2>2 DEF Held, Checked
  <2> QED
    BY <1>0, <1>1, <2>3
<1>4. ASSUME NEW i \in Slots, slots[i] = Idle, slots' = [slots EXCEPT ![i] = Started(p)],
             inFlight' = inFlight \cup {p}, UNCHANGED queue
      PROVE  Held(q)' \/ (runs'[q] # "running" /\ Checked(q)')
  <2>1. \A j \in Slots : j # i => slots'[j] = slots[j]
    BY <1>4, StartedSlot, SlotReplaced
  <2>2. Checked(q) => Checked(q)'
    BY <1>4, <2>1, IdleSlot DEF Checked
  <2>3. Held(q) => Held(q)'
    BY <1>0, <1>4 DEF Held, Queued
  <2> QED
    BY <1>0, <1>1, <2>2, <2>3
<1> QED
  BY <1>2, <1>3, <1>4, LimitedSlots DEF TimerFires

\* What leaves the slots, the queue and the flights alone.
LEMMA RememberedScheduling ==
  ASSUME Typed, Remembered, NEW p \in Projects, Schedule(p) \/ Arm(p)
  PROVE  Remembered'
<1> SUFFICES ASSUME process' = "up", NEW q \in Projects, runs'[q] \in Resumable
             PROVE  Held(q)' \/ (runs'[q] # "running" /\ Checked(q)')
  BY DEF Remembered
<1>0. UNCHANGED <<slots, queue, inFlight, resuming, process>>
  BY DEF Schedule, Arm, turn, startup
<1>1. runs[q] \in Resumable => Held(q) \/ (runs[q] # "running" /\ Checked(q))
  BY <1>0 DEF Remembered
<1>2. Checked(q) => Checked(q)'
  BY <1>0 DEF Checked
<1>3. CASE Schedule(p)
  <2>1. /\ runs' = [runs EXCEPT ![p] = "queued"] /\ arming' = arming \cup {p}
        /\ timers' = timers
    BY <1>0, <1>3 DEF Schedule, turn
  <2>2. CASE q = p
    BY <2>1, <2>2 DEF Held
  <2>3. CASE q # p
    <3>1. runs'[q] = runs[q]
      BY <2>1, <2>3 DEF Typed, TypeOK
    <3>2. Held(q) => Held(q)'
      BY <1>0, <2>1 DEF Held, Queued
    <3> QED
      BY <1>1, <1>2, <3>1, <3>2
  <2> QED
    BY <2>2, <2>3
<1>4. CASE Arm(p)
  <2>1. arming' = arming \ {p} /\ timers' = Armed(p) /\ runs' = runs
    BY <1>4 DEF Arm, disk
  <2>2. Held(p)' /\ timers \subseteq timers'
    BY <1>0, <2>1, ArmedHeld
  <2>3. q # p => (Held(q) => Held(q)')
    BY <1>0, <2>1, <2>2 DEF Held, Queued
  <2> QED
    BY <1>1, <1>2, <2>1, <2>2, <2>3
<1> QED
  BY <1>3, <1>4

LEMMA RememberedResume ==
  ASSUME Typed, Remembered, (\E p \in Projects : Resume(p)) \/ ResumeContradicted
  PROVE  Remembered'
<1> SUFFICES ASSUME process' = "up", NEW q \in Projects, runs'[q] \in Resumable
             PROVE  Held(q)' \/ (runs'[q] # "running" /\ Checked(q)')
  BY DEF Remembered
<1>0. UNCHANGED <<slots, queue, inFlight, arming, process>>
  BY DEF Resume, ResumeContradicted
<1>1. runs[q] \in Resumable => Held(q) \/ (runs[q] # "running" /\ Checked(q))
  BY <1>0 DEF Remembered
<1>2. Checked(q) => Checked(q)'
  BY <1>0 DEF Checked
<1>3. ASSUME NEW p \in Projects, Resume(p)
      PROVE  Held(q)' \/ (runs'[q] # "running" /\ Checked(q)')
  <2>1. /\ runs' = runs /\ resuming' = [resuming EXCEPT ![p] = "none"]
        /\ timers' = IF resuming[p] \in Resumable THEN Armed(p) ELSE timers
    BY <1>3 DEF Resume, disk
  <2>2. timers \subseteq timers'
    BY <2>1 DEF Armed
  <2>3. resuming[p] \in Resumable => Held(p)'
    BY <1>0, <2>1, ArmedHeld
  <2>4. \A r \in Projects : r # p => resuming'[r] = resuming[r]
    BY <2>1 DEF Typed, TypeOK
  <2>5. Held(q) => Held(q)'
    BY <1>0, <2>2, <2>3, <2>4 DEF Held, Queued
  <2> QED
    BY <1>1, <1>2, <2>1, <2>5
<1>4. CASE ResumeContradicted
  <2>1. resuming' = resuming
    BY <1>4 DEF ResumeContradicted
  <2>2. CASE runs' = [runs EXCEPT ![visit.project] = "queued"] /\ timers' = Armed(visit.project)
    <3>0. PICK p : p = visit.project
      OBVIOUS
    <3>1. Held(p)' /\ timers \subseteq timers'
      BY <1>0, <2>2, <3>0, ArmedHeld
    <3>2. q # p => runs'[q] = runs[q] /\ (Held(q) => Held(q)')
      BY <1>0, <2>1, <2>2, <3>0, <3>1 DEF Held, Queued, Typed, TypeOK
    <3> QED
      BY <1>1, <1>2, <3>1, <3>2
  <2>3. CASE runs' = [runs EXCEPT ![visit.project] = "completed"] /\ timers' = timers
    <3>1. runs'[q] = runs[q]
      BY <2>3 DEF Typed, TypeOK, Resumable
    <3>2. Held(q) => Held(q)'
      BY <1>0, <2>1, <2>3 DEF Held, Queued
    <3> QED
      BY <1>1, <1>2, <3>1, <3>2
  <2> QED
    BY <1>4, <2>2, <2>3 DEF ResumeContradicted
<1> QED
  BY <1>3, <1>4

LEMMA RememberedNext ==
  Typed /\ Exclusive /\ Told /\ Remembered /\ [Next]_vars => Remembered'
<1> SUFFICES ASSUME Typed, Exclusive, Told, Remembered, [Next]_vars PROVE Remembered'
  OBVIOUS
<1>1. CASE Stop \/ Exit
  BY <1>1 DEF Stop, Exit, Remembered
<1>2. CASE Restart
  BY <1>2 DEF Restart, disk, Remembered, Held
<1>3. CASE (\E p \in Attended : OwnerRetries(p)) \/ Wake \/ UNCHANGED vars
  <2>1. UNCHANGED <<runs, process, turn, arming, resuming>>
    BY <1>3 DEF OwnerRetries, Wake, vars, disk, startup
  <2> QED
    BY <2>1 DEF turn, Remembered, Held, Checked, Queued
<1> QED
  BY <1>1, <1>2, <1>3, RememberedRun, RememberedTimer, RememberedScheduling, RememberedResume
     DEF Next

-----------------------------------------------------------------------------
(* The scheduler's invariant, and what follows from it.                     *)

CoordinatorInv == Typed /\ Exclusive /\ Told /\ Remembered

LEMMA InvariantInit == Init => CoordinatorInv
<1> SUFFICES ASSUME Init PROVE CoordinatorInv
  OBVIOUS
<1>1. Typed
  BY TypedInit
<1>2. \A i \in Slots : slots[i] = Idle
  BY DEF Init
<1>3. Exclusive
  <2>1. queue = <<>> /\ Len(queue) = 0 /\ inFlight = {}
    BY DEF Init
  <2> QED
    BY <1>2, <2>1, IdleSlot DEF Exclusive, OneRunPerProject, Working
<1>4. \A p \in Projects : runs[p] = "none"
  BY DEF Init
<1>5. Told
  BY <1>2, <1>4, IdleSlot DEF Told, CompletedIsTold, Outcomes
<1>6. Remembered
  BY <1>4 DEF Remembered, Resumable
<1> QED
  BY <1>1, <1>3, <1>5, <1>6 DEF CoordinatorInv

THEOREM CoordinatorInvariant == Spec => []CoordinatorInv
<1>1. CoordinatorInv /\ [Next]_vars => CoordinatorInv'
  BY TypedNext, ExclusiveNext, ToldNext, RememberedNext DEF CoordinatorInv
<1> QED
  BY InvariantInit, <1>1, PTL DEF Spec

\* Every variable of the scheduler keeps its type, whatever the number of
\* projects, of slots (maxConcurrentProjects) and of process ends.
THEOREM CoordinatorTypeCorrect == Spec => []TypeOK
<1>1. CoordinatorInv => TypeOK
  BY DEF CoordinatorInv, Typed
<1> QED
  BY CoordinatorInvariant, <1>1, PTL

\* No two calls of #run work on one project: what #enqueue and #drain start is
\* neither in flight nor waiting a second time.
THEOREM OneRunEach == Spec => []OneRunPerProject
<1>1. CoordinatorInv => OneRunPerProject
  BY DEF CoordinatorInv, Exclusive
<1> QED
  BY CoordinatorInvariant, <1>1, PTL

\* A run is saved as completed only after onCompleted, or resumePending, has
\* completed the project's delivery.
THEOREM CompletionIsToldFirst == Spec => []CompletedIsTold
<1>1. CoordinatorInv => CompletedIsTold
  BY DEF CoordinatorInv, Told
<1> QED
  BY CoordinatorInvariant, <1>1, PTL

\* While the process is up, every run saved as queued, running or deferred has
\* a timer, a place in the queue, a call of #run, a schedule call about to arm
\* it, or a place among the runs resumePending has loaded.
THEOREM PendingRunsAreRemembered == Spec => []NoOrphanedRun
<1>1. CoordinatorInv => NoOrphanedRun
  <2> SUFFICES ASSUME CoordinatorInv, process = "up",
                      NEW p \in Projects, runs[p] \in {"queued", "running", "deferred"}
               PROVE  \/ p \in timers \cup arming \cup Queued
                      \/ \E i \in Slots : slots[i].project = p
                      \/ resuming[p] # "none"
    BY DEF NoOrphanedRun
  <2>1. Held(p) \/ Checked(p)
    BY DEF CoordinatorInv, Remembered, Resumable
  <2>2. p \in inFlight => \E i \in Slots : slots[i].project = p
    BY DEF CoordinatorInv, Exclusive
  <2> QED
    BY <2>1, <2>2 DEF Held, Checked, Resumable
<1> QED
  BY CoordinatorInvariant, <1>1, PTL
=============================================================================
