---------------------- MODULE LifecycleCoordinator_proofs ----------------------
(* The lifecycle reconciler for any number of controllers, crashes and       *)
(* revisions and any length of lease: types, revisions that never run ahead, *)
(* and at most one dispatcher that still has its lease.                      *)
EXTENDS LifecycleCoordinator, TLAPS

-----------------------------------------------------------------------------
(* Types. What an attempt or an acknowledgement has read is never ahead of   *)
(* the lifecycle, only a terminal stage is about to be recorded as one, and  *)
(* nothing is left of a lease that is not there.                             *)

Fits(d, revision) ==
  /\ d.seen.revision <= revision /\ d.copy.checkpoint <= revision
  /\ d.pc = "terminating" => d.seen.stage \in Terminal

Typed ==
  /\ TypeOK
  /\ lock.owner = "absent" => lock.ttl = 0
  /\ \A c \in Controllers : Fits(desk[c], lifecycle.revision)
  /\ ack.revision <= lifecycle.revision /\ ack.copy.checkpoint <= lifecycle.revision

LEMMA RevisionsAreNumbers == Revisions \subseteq Nat /\ 0 \in Revisions /\ 1 \in Revisions
BY LifecycleAssumption DEF Revisions

LEMMA NoRecordType == NoRecord \in Records /\ NoRecord.checkpoint = 0
BY RevisionsAreNumbers DEF NoRecord, Records

LEMMA IdleType ==
  /\ Idle \in Desks /\ Idle.pc = "idle"
  /\ Idle.seen.revision = 0 /\ Idle.copy.checkpoint = 0
BY RevisionsAreNumbers, NoRecordType DEF Idle, Desks, Lifecycles, Stages, Pcs

LEMMA AbsentLock == Absent \in Locks /\ Absent.owner = "absent" /\ Absent.ttl = 0
BY LifecycleAssumption DEF Absent, Locks

LEMMA NobodysLock ==
  /\ [Absent EXCEPT !.owner = Nobody] \in Locks
  /\ [Absent EXCEPT !.owner = Nobody].owner = "nobody"
BY LifecycleAssumption DEF Absent, Locks, Nobody

LEMMA RevisionIsNumber == Typed => lifecycle.revision \in Nat /\ 0 <= lifecycle.revision
<1> SUFFICES ASSUME Typed PROVE lifecycle.revision \in Nat /\ 0 <= lifecycle.revision
  OBVIOUS
<1>1. lifecycle \in Lifecycles
  BY DEF Typed, TypeOK
<1>2. lifecycle.revision \in Nat
  BY <1>1, RevisionsAreNumbers DEF Lifecycles
<1> QED BY <1>2

\* An attempt's desk may be replaced by one whose copies are no newer than the
\* lifecycle.
LEMMA DeskReplaced ==
  ASSUME Typed, NEW c \in Controllers, NEW d \in Desks,
         Fits(d, lifecycle.revision),
         desk' = [desk EXCEPT ![c] = d]
  PROVE  /\ desk' \in [Controllers -> Desks]
         /\ \A e \in Controllers : Fits(desk'[e], lifecycle.revision)
BY DEF Typed, TypeOK

LEMMA GotoReplaces ==
  ASSUME Typed, NEW c \in Controllers, NEW pc \in Pcs \ {"terminating"}, Goto(c, pc)
  PROVE  /\ desk' \in [Controllers -> Desks]
         /\ \A e \in Controllers : Fits(desk'[e], lifecycle.revision)
<1>1. desk[c] \in Desks
  BY DEF Typed, TypeOK
<1>2. [desk[c] EXCEPT !.pc = pc] \in Desks
  BY <1>1 DEF Desks
<1>3. Fits([desk[c] EXCEPT !.pc = pc], lifecycle.revision)
  BY <1>1 DEF Desks, Fits, Typed
<1>4. desk' = [desk EXCEPT ![c] = [desk[c] EXCEPT !.pc = pc]]
  BY DEF Goto, Typed, TypeOK
<1> QED BY <1>2, <1>3, <1>4, DeskReplaced DEF Typed

LEMMA EndsReplaces ==
  ASSUME Typed, NEW c \in Controllers, Ends(c)
  PROVE  /\ desk' \in [Controllers -> Desks]
         /\ \A e \in Controllers : Fits(desk'[e], lifecycle.revision)
<1>1. 0 <= lifecycle.revision
  BY RevisionIsNumber
<1>2. Fits(Idle, lifecycle.revision)
  BY <1>1, IdleType DEF Fits
<1> QED BY <1>2, IdleType, DeskReplaced DEF Ends

\* What each kind of step leaves: a lock that is one, and desks as above.
LEMMA LockReplaced ==
  ASSUME Typed, lock' \in Locks, lock'.owner = "absent" => lock'.ttl = 0,
         desk' \in [Controllers -> Desks],
         \A e \in Controllers : Fits(desk'[e], lifecycle.revision),
         ousted' \subseteq Controllers,
         UNCHANGED <<lifecycle, record, ack, crashes>>
  PROVE  Typed'
BY DEF Typed, TypeOK

\* #persist: a record that is no newer than the lifecycle.
LEMMA PersistKeepsTypes ==
  ASSUME Typed, NEW c \in Controllers, NEW next \in Records, NEW pc \in Pcs,
         next.checkpoint <= lifecycle.revision, Persist(c, next, pc),
         pc = "terminating" => desk[c].seen.stage \in Terminal
  PROVE  Typed'
<1>1. desk[c] \in Desks
  BY DEF Typed, TypeOK
<1> DEFINE d == [desk[c] EXCEPT !.pc = pc, !.copy = next]
<1>2. d \in Desks /\ d.seen = desk[c].seen /\ d.copy = next /\ d.pc = pc
  BY <1>1 DEF Desks
<1>3. desk' = [desk EXCEPT ![c] = d]
  BY DEF Persist, Typed, TypeOK
<1>4. Fits(d, lifecycle.revision)
  BY <1>2 DEF Typed, Fits
<1> HIDE DEF d
<1>5. /\ desk' \in [Controllers -> Desks]
      /\ \A e \in Controllers : Fits(desk'[e], lifecycle.revision)
  BY <1>2, <1>3, <1>4, DeskReplaced
<1> QED BY <1>5 DEF Persist, Typed, TypeOK, leaseVars

LEMMA BeatenType ==
  ASSUME Typed, NEW c \in Controllers
  PROVE  Beaten(c) \in Locks /\ Beaten(c).owner # "absent"
<1>1. CASE lock = Absent
  BY <1>1, NobodysLock DEF Beaten
<1>2. CASE lock # Absent /\ lock.owner = c
  <2>1. c # "absent"
    BY LifecycleAssumption
  <2> QED BY <1>2, <2>1, LifecycleAssumption DEF Beaten, Typed, TypeOK, Locks
<1>3. CASE lock # Absent /\ lock.owner # c
  <2>1. lock \in Locks /\ (lock.owner = "absent" => lock.ttl = 0)
    BY DEF Typed, TypeOK
  <2>2. lock.owner # "absent"
    BY <1>3, <2>1 DEF Locks, Absent
  <2> QED BY <1>3, <2>1, <2>2 DEF Beaten
<1> QED BY <1>1, <1>2, <1>3

LEMMA DecidedType ==
  ASSUME NEW seen, NEW state
  PROVE  /\ Decided(seen, state) \in {"terminating", "releasing", "dispatching", "renewing"}
         /\ Decided(seen, state) = "terminating" => seen.stage \in Terminal
BY DEF Decided

-----------------------------------------------------------------------------
(* One step.                                                                *)

LEMMA InitTyped == Init => Typed
<1> SUFFICES ASSUME Init PROVE Typed
  OBVIOUS
<1>1. lifecycle \in Lifecycles /\ lifecycle.revision = 1
  BY LifecycleAssumption, RevisionsAreNumbers DEF Init, Lifecycles
<1>2. /\ ack.pc = "none" /\ ack.revision = 0 /\ ack.copy = NoRecord
      /\ ack \in [pc : {"none", "reading", "writing"}, stage : Stages,
                  revision : Revisions, copy : Records]
  BY RevisionsAreNumbers, NoRecordType DEF Init, NoAck, Stages
<1>3. crashes \in 0..CrashLimit
  BY LifecycleAssumption DEF Init
<1> QED BY <1>1, <1>2, <1>3, NoRecordType, IdleType, AbsentLock DEF Init, Typed, TypeOK, Fits

LEMMA LeaseStepsKeepTypes ==
  ASSUME Typed, NEW c \in Controllers,
         \/ Reconcile(c) \/ MakeLease(c) \/ Inspect(c) \/ Displace(c) \/ Relock(c)
         \/ Own(c) \/ Heartbeat(c) \/ Release(c) \/ Unlock(c)
  PROVE  Typed'
<1>1. lock \in Locks /\ (lock.owner = "absent" => lock.ttl = 0) /\ ousted \subseteq Controllers
  BY DEF Typed, TypeOK
<1>2. CASE Reconcile(c)
  <2>1. Goto(c, "locking") /\ "locking" \in Pcs \ {"terminating"}
    BY <1>2 DEF Reconcile, Pcs
  <2> QED BY <1>1, <1>2, <2>1, GotoReplaces, LockReplaced DEF Reconcile, leaseVars
<1>3. CASE MakeLease(c)
  <2>1. (Goto(c, "owning") \/ Goto(c, "inspecting")) /\ {"owning", "inspecting"} \subseteq Pcs \ {"terminating"}
    BY <1>3 DEF MakeLease, Pcs
  <2>2. lock' \in Locks /\ (lock'.owner = "absent" => lock'.ttl = 0)
    BY <1>1, <1>3, NobodysLock DEF MakeLease
  <2> QED BY <1>1, <1>3, <2>1, <2>2, GotoReplaces, LockReplaced DEF MakeLease
<1>4. CASE Inspect(c)
  <2>1. (Ends(c) \/ Goto(c, "displacing")) /\ "displacing" \in Pcs \ {"terminating"}
    BY <1>4 DEF Inspect, Pcs
  <2> QED BY <1>1, <1>4, <2>1, GotoReplaces, EndsReplaces, LockReplaced DEF Inspect, leaseVars
<1>5. CASE Displace(c)
  <2>1. (Goto(c, "locking") \/ Goto(c, "relocking")) /\ {"locking", "relocking"} \subseteq Pcs \ {"terminating"}
    BY <1>5 DEF Displace, Pcs
  <2>2. lock' \in Locks /\ (lock'.owner = "absent" => lock'.ttl = 0) /\ ousted' \subseteq Controllers
    BY <1>1, <1>5, AbsentLock DEF Displace, OustedBy, leaseVars
  <2> QED BY <1>5, <2>1, <2>2, GotoReplaces, LockReplaced DEF Displace
<1>6. CASE Relock(c)
  <2>1. (Ends(c) \/ Goto(c, "rereading")) /\ "rereading" \in Pcs \ {"terminating"}
    BY <1>6 DEF Relock, Pcs
  <2>2. lock' \in Locks /\ (lock'.owner = "absent" => lock'.ttl = 0)
    BY <1>1, <1>6, NobodysLock DEF Relock
  <2> QED BY <1>1, <1>6, <2>1, <2>2, GotoReplaces, EndsReplaces, LockReplaced DEF Relock
<1>7. CASE Own(c)
  <2>1. Goto(c, "beating") /\ "beating" \in Pcs \ {"terminating"}
    BY <1>7 DEF Own, Pcs
  <2>2. lock' \in Locks /\ lock'.owner # "absent"
    BY <1>7, LifecycleAssumption DEF Own, Locks
  <2> QED BY <1>1, <1>7, <2>1, <2>2, GotoReplaces, LockReplaced DEF Own
<1>8. CASE Heartbeat(c)
  <2>1. (Goto(c, "loading") \/ Goto(c, "working")) /\ {"loading", "working"} \subseteq Pcs \ {"terminating"}
    BY <1>8 DEF Heartbeat, Pcs
  <2>2. lock' \in Locks /\ lock'.owner # "absent"
    BY <1>8, BeatenType DEF Heartbeat
  <2> QED BY <1>1, <1>8, <2>1, <2>2, GotoReplaces, LockReplaced DEF Heartbeat
<1>9. CASE Release(c)
  <2>1. (Ends(c) \/ Goto(c, "signing")) /\ "signing" \in Pcs \ {"terminating"}
    BY <1>9 DEF Release, Pcs
  <2>2. ousted' \subseteq Controllers
    BY <1>1, <1>9 DEF Release
  <2> QED BY <1>1, <1>9, <2>1, <2>2, GotoReplaces, EndsReplaces, LockReplaced DEF Release
<1>10. CASE Unlock(c)
  <2>1. Ends(c) /\ lock' = Absent /\ ousted' \subseteq Controllers
    BY <1>1, <1>10 DEF Unlock, OustedBy
  <2> QED BY <1>10, <2>1, AbsentLock, EndsReplaces, LockReplaced DEF Unlock
<1> QED BY <1>2, <1>3, <1>4, <1>5, <1>6, <1>7, <1>8, <1>9, <1>10

\* Replacing an attempt's program counter and one of its copies.
LEMMA CopyReplaced ==
  ASSUME Typed, NEW c \in Controllers, NEW pc \in Pcs,
         pc = "terminating" => desk[c].seen.stage \in Terminal,
         \/ desk' = [desk EXCEPT ![c].pc = pc, ![c].copy = record]
         \/ pc # "terminating" /\ desk' = [desk EXCEPT ![c].pc = pc, ![c].seen = lifecycle],
         UNCHANGED <<lifecycle, record, ack, leaseVars, crashes>>
  PROVE  Typed'
<1> DEFINE d == [desk[c] EXCEPT !.pc = pc, !.copy = record]
           e == [desk[c] EXCEPT !.pc = pc, !.seen = lifecycle]
<1>1. desk[c] \in Desks /\ record \in Records /\ lifecycle \in Lifecycles
  BY DEF Typed, TypeOK
<1>2. d \in Desks /\ d.seen = desk[c].seen /\ d.copy = record
  BY <1>1 DEF Desks
<1>3. e \in Desks /\ e.seen = lifecycle /\ e.copy = desk[c].copy
  BY <1>1 DEF Desks
<1>4. \/ desk' = [desk EXCEPT ![c] = d]
      \/ pc # "terminating" /\ desk' = [desk EXCEPT ![c] = e]
  BY DEF Typed, TypeOK
<1>5. Fits(d, lifecycle.revision) /\ (pc # "terminating" => Fits(e, lifecycle.revision))
  <2>1. record.checkpoint <= lifecycle.revision
    BY DEF Typed, TypeOK
  <2>2. d.pc = pc /\ e.pc = pc /\ Fits(desk[c], lifecycle.revision)
    BY <1>1 DEF Desks, Typed
  <2> HIDE DEF d, e
  <2> QED BY <1>2, <1>3, <2>1, <2>2, RevisionIsNumber DEF Fits
<1>6. lock \in Locks /\ (lock.owner = "absent" => lock.ttl = 0) /\ ousted \subseteq Controllers
  BY DEF Typed, TypeOK
<1> HIDE DEF d, e
<1>7. /\ desk' \in [Controllers -> Desks]
      /\ \A f \in Controllers : Fits(desk'[f], lifecycle.revision)
  BY <1>2, <1>3, <1>4, <1>5, DeskReplaced
<1> QED BY <1>6, <1>7, LockReplaced DEF leaseVars

LEMMA DoneReplaced ==
  ASSUME NEW r \in Records, NEW rev \in Revisions, NEW v \in {"dispatched", "completed"}
  PROVE  /\ [r EXCEPT !.done[rev] = v] \in Records
         /\ [r EXCEPT !.done[rev] = v].checkpoint = r.checkpoint
BY DEF Records

LEMMA RecordStepsKeepTypes ==
  ASSUME Typed, NEW c \in Controllers,
         \/ Load(c) \/ Sign(c) \/ Observe(c) \/ Read(c) \/ RecordCheckpoint(c)
         \/ ObserveTerminal(c) \/ RecordDispatch(c) \/ Dispatch(c) \/ Complete(c)
  PROVE  Typed'
<1> DEFINE copy == desk[c].copy
           seen == desk[c].seen
<1>1. /\ desk[c] \in Desks /\ copy \in Records /\ seen \in Lifecycles
      /\ copy.checkpoint <= lifecycle.revision /\ seen.revision <= lifecycle.revision
      /\ seen.revision \in Revisions /\ seen.stage \in Stages
  BY DEF Typed, TypeOK, Desks, Fits, Lifecycles
<1>2. /\ \A s, r : Decided(s, r) \in Pcs /\ (Decided(s, r) = "terminating" => s.stage \in Terminal)
      /\ {"releasing", "renewing", "reading", "checkpointing", "finishing"} \subseteq Pcs
  BY DecidedType DEF Pcs
<1>3. CASE Load(c)
  <2>1. Loads[desk[c].pc] \in Pcs \ {"terminating"}
    BY <1>3 DEF Load, Loads, Pcs
  <2>2. desk' = [desk EXCEPT ![c].pc = Loads[desk[c].pc], ![c].copy = record]
    BY <1>3 DEF Load, Typed, TypeOK
  <2> QED BY <1>3, <2>1, <2>2, CopyReplaced DEF Load
<1>4. CASE Sign(c)
  <2>1. Signs[desk[c].pc] \in Pcs \ {"terminating"}
    BY <1>4 DEF Sign, Signs, Pcs
  <2> QED BY <1>1, <1>4, <2>1, PersistKeepsTypes DEF Sign
<1>5. CASE Observe(c)
  BY <1>2, <1>5, CopyReplaced DEF Observe
<1>6. CASE Read(c)
  <2>1. \E pc \in Pcs : /\ pc = "terminating" => seen.stage \in Terminal
                        /\ desk' = [desk EXCEPT ![c].pc = pc, ![c].copy = record]
    BY <1>2, <1>6 DEF Read
  <2> QED BY <1>6, <2>1, CopyReplaced DEF Read
<1>7. CASE RecordCheckpoint(c)
  <2> DEFINE next == [copy EXCEPT !.checkpoint = seen.revision]
  <2>1. next \in Records /\ next.checkpoint = seen.revision
    BY <1>1 DEF Records
  <2>2. Persist(c, next, Decided(seen, next))
    BY <1>7 DEF RecordCheckpoint
  <2> HIDE DEF next
  <2> QED BY <1>1, <1>2, <2>1, <2>2, PersistKeepsTypes
<1>8. CASE ObserveTerminal(c)
  <2> DEFINE next == [copy EXCEPT !.terminal = seen.stage]
  <2>1. seen.stage \in Terminal
    BY <1>8 DEF ObserveTerminal, At, Typed, Fits
  <2>2. next \in Records /\ next.checkpoint = copy.checkpoint
    BY <1>1, <2>1 DEF Records
  <2>3. Persist(c, next, "releasing")
    BY <1>8 DEF ObserveTerminal
  <2> HIDE DEF next
  <2> QED BY <1>1, <1>2, <2>2, <2>3, PersistKeepsTypes
<1>9. CASE RecordDispatch(c)
  <2> DEFINE next == [copy EXCEPT !.done[seen.revision] = "dispatched"]
  <2>1. next \in Records /\ next.checkpoint = copy.checkpoint
    BY <1>1, DoneReplaced
  <2>2. Persist(c, next, "renewing")
    BY <1>9 DEF RecordDispatch
  <2> HIDE DEF next
  <2> QED BY <1>1, <1>2, <2>1, <2>2, PersistKeepsTypes
<1>10. CASE Dispatch(c)
  <2>1. Goto(c, "finishing") \/ Goto(c, "releasing")
    BY <1>10 DEF Dispatch
  <2>2. lock \in Locks /\ (lock.owner = "absent" => lock.ttl = 0) /\ ousted \subseteq Controllers
    BY DEF Typed, TypeOK
  <2> QED BY <1>2, <1>10, <2>1, <2>2, GotoReplaces, LockReplaced DEF Dispatch, leaseVars
<1>11. CASE Complete(c)
  <2> DEFINE next == [copy EXCEPT !.done[seen.revision] = "completed"]
  <2>1. next \in Records /\ next.checkpoint = copy.checkpoint
    BY <1>1, DoneReplaced
  <2>2. Persist(c, next, "releasing")
    BY <1>11 DEF Complete
  <2> HIDE DEF next
  <2> QED BY <1>1, <1>2, <2>1, <2>2, PersistKeepsTypes
<1> QED BY <1>3, <1>4, <1>5, <1>6, <1>7, <1>8, <1>9, <1>10, <1>11

\* A later lifecycle, and records no newer than it.
LEMMA LaterRevisionKeepsTypes ==
  ASSUME Typed, lifecycle' \in Lifecycles, lifecycle'.revision = lifecycle.revision + 1,
         UNCHANGED <<record, desk, leaseVars, crashes>>,
         ack' \in [pc : {"none", "reading", "writing"}, stage : Stages,
                   revision : Revisions, copy : Records],
         ack'.revision <= lifecycle'.revision, ack'.copy.checkpoint <= lifecycle'.revision
  PROVE  Typed'
<1>1. lifecycle.revision \in Nat /\ lifecycle.revision <= lifecycle'.revision
  BY RevisionIsNumber
<1>2. record \in Records /\ record.checkpoint \in Nat /\ record.checkpoint <= lifecycle'.revision
  <2>1. record \in Records /\ record.checkpoint <= lifecycle.revision
    BY DEF Typed, TypeOK
  <2>2. record.checkpoint \in Nat
    BY <2>1, RevisionsAreNumbers DEF Records
  <2> QED BY <1>1, <2>1, <2>2
<1>3. ASSUME NEW c \in Controllers PROVE Fits(desk[c], lifecycle'.revision)
  <2>1. Fits(desk[c], lifecycle.revision) /\ desk[c] \in Desks
    BY DEF Typed, TypeOK
  <2>2. desk[c].seen.revision \in Nat /\ desk[c].copy.checkpoint \in Nat
    BY <2>1, RevisionsAreNumbers DEF Desks, Lifecycles, Records
  <2> QED BY <1>1, <2>1, <2>2 DEF Fits
<1> QED BY <1>2, <1>3 DEF Typed, TypeOK, leaseVars

LEMMA AckType ==
  ASSUME Typed
  PROVE  /\ ack.revision \in Revisions /\ ack.stage \in Stages /\ ack.copy \in Records
         /\ ack.revision \in Nat /\ ack.copy.checkpoint \in Nat
         /\ ack.revision <= lifecycle.revision /\ ack.copy.checkpoint <= lifecycle.revision
         /\ NoAck \in [pc : {"none", "reading", "writing"}, stage : Stages,
                       revision : Revisions, copy : Records]
         /\ NoAck.revision = 0 /\ NoAck.copy.checkpoint = 0
<1>1. ack \in [pc : {"none", "reading", "writing"}, stage : Stages, revision : Revisions, copy : Records]
  BY DEF Typed, TypeOK
<1>2. ack.copy.checkpoint \in Nat /\ ack.revision \in Nat
  BY <1>1, RevisionsAreNumbers DEF Records
<1>3. ack.revision <= lifecycle.revision /\ ack.copy.checkpoint <= lifecycle.revision
  BY DEF Typed
<1> QED BY <1>1, <1>2, <1>3, NoRecordType, RevisionsAreNumbers DEF NoAck, Stages

LEMMA OwnerStepsKeepTypes ==
  ASSUME Typed, Reopen \/ ReadForReopen \/ AcknowledgeReopen \/ Advance \/ Tick
  PROVE  Typed'
<1>1. lifecycle \in Lifecycles /\ lifecycle.revision \in Revisions /\ lifecycle.revision \in Nat
  BY RevisionIsNumber DEF Typed, TypeOK, Lifecycles
<1>2. lifecycle.revision < RevisionLimit => lifecycle.revision + 1 \in Revisions
  BY <1>1, LifecycleAssumption DEF Revisions
<1>3. record \in Records /\ record.checkpoint <= lifecycle.revision
  BY DEF Typed, TypeOK
<1>4. CASE Reopen
  <2>1. lifecycle' \in Lifecycles /\ lifecycle'.revision = lifecycle.revision + 1
        /\ lifecycle.stage \in Stages /\ lifecycle'.revision \in Revisions
    BY <1>1, <1>2, <1>4 DEF Reopen, Lifecycles, Stages
  <2>2. ack' = [pc |-> "reading", stage |-> lifecycle.stage, revision |-> lifecycle'.revision,
                copy |-> NoRecord]
    BY <1>4 DEF Reopen, NoAck
  <2>3. lifecycle'.revision \in Nat
    BY <1>1, <2>1
  <2>4. /\ ack' \in [pc : {"none", "reading", "writing"}, stage : Stages,
                     revision : Revisions, copy : Records]
        /\ ack'.revision <= lifecycle'.revision /\ ack'.copy.checkpoint <= lifecycle'.revision
    BY <2>1, <2>2, <2>3, NoRecordType
  <2> QED BY <1>4, <2>1, <2>4, LaterRevisionKeepsTypes DEF Reopen
<1>5. CASE ReadForReopen
  <2> DEFINE next == [ack EXCEPT !.pc = "writing", !.copy = record]
  <2>1. /\ next \in [pc : {"none", "reading", "writing"}, stage : Stages,
                     revision : Revisions, copy : Records]
        /\ next.revision = ack.revision /\ next.copy = record
    BY <1>3 DEF Typed, TypeOK
  <2>2. ack' = next \/ ack' = NoAck
    BY <1>5 DEF ReadForReopen
  <2> HIDE DEF next
  <2>3. /\ ack' \in [pc : {"none", "reading", "writing"}, stage : Stages,
                     revision : Revisions, copy : Records]
        /\ ack'.revision <= lifecycle.revision /\ ack'.copy.checkpoint <= lifecycle.revision
    BY <1>1, <1>3, <2>1, <2>2, AckType
  <2> QED BY <1>5, <2>3 DEF ReadForReopen, Typed, TypeOK, leaseVars
<1>6. CASE AcknowledgeReopen
  <2> DEFINE next == [ack.copy EXCEPT !.terminal = "none", !.checkpoint = ack.revision]
  <2>1. next \in Records /\ next.checkpoint = ack.revision
    BY AckType DEF Records
  <2>2. record' = next
    BY <1>6 DEF AcknowledgeReopen
  <2> HIDE DEF next
  <2>3. record' \in Records /\ record'.checkpoint <= lifecycle.revision
    BY <2>1, <2>2, AckType
  <2> QED BY <1>1, <1>6, <2>3, AckType DEF AcknowledgeReopen, Typed, TypeOK, leaseVars
<1>7. CASE Advance
  <2>1. lifecycle' \in Lifecycles /\ lifecycle'.revision = lifecycle.revision + 1
    BY <1>1, <1>2, <1>7, LifecycleAssumption DEF Advance, Lifecycles
  <2>2. lifecycle'.revision \in Nat /\ lifecycle.revision <= lifecycle'.revision
    BY <1>1, <2>1
  <2>3. ack' = ack /\ ack'.revision <= lifecycle'.revision /\ ack'.copy.checkpoint <= lifecycle'.revision
    BY <1>1, <1>7, <2>2, AckType DEF Advance
  <2>4. ack' \in [pc : {"none", "reading", "writing"}, stage : Stages,
                  revision : Revisions, copy : Records]
    BY <2>3 DEF Typed, TypeOK
  <2> QED BY <1>7, <2>1, <2>3, <2>4, LaterRevisionKeepsTypes DEF Advance
<1>8. CASE Tick
  <2>1. lock \in Locks /\ lock.ttl \in Nat /\ lock.ttl > 0 /\ lock.owner # "absent"
    BY <1>8, LifecycleAssumption DEF Tick, Typed, TypeOK, Locks
  <2>2. lock.ttl - 1 \in 0..LeaseTicks /\ lock' = [lock EXCEPT !.ttl = lock.ttl - 1]
    BY <1>8, <2>1, LifecycleAssumption DEF Tick, Locks
  <2>3. lock' \in Locks /\ lock'.owner # "absent"
    BY <2>1, <2>2 DEF Locks
  <2> QED BY <1>8, <2>3 DEF Tick, Typed, TypeOK
<1> QED BY <1>4, <1>5, <1>6, <1>7, <1>8

LEMMA CrashKeepsTypes ==
  ASSUME Typed, NEW c \in Controllers, Crash(c)
  PROVE  Typed'
<1>1. Ends(c) /\ desk' \in [Controllers -> Desks]
      /\ \A e \in Controllers : Fits(desk'[e], lifecycle.revision)
  BY EndsReplaces DEF Crash
<1>2. crashes' \in 0..CrashLimit
  BY LifecycleAssumption DEF Crash, Typed, TypeOK
<1>3. lock' \in Locks /\ (lock'.owner = "absent" => lock'.ttl = 0)
  BY DEF Crash, Typed, TypeOK, Locks, Gone
<1>4. /\ ack' \in [pc : {"none", "reading", "writing"}, stage : Stages,
                   revision : Revisions, copy : Records]
      /\ ack'.revision <= lifecycle.revision /\ ack'.copy.checkpoint <= lifecycle.revision
  <2>1. ack' = ack \/ ack' = NoAck
    BY DEF Crash
  <2> QED BY <2>1, AckType, RevisionIsNumber DEF Typed, TypeOK
<1> QED BY <1>1, <1>2, <1>3, <1>4 DEF Crash, Typed, TypeOK

LEMMA NextKeepsTypes == Typed /\ [Next]_vars => Typed'
<1> SUFFICES ASSUME Typed, [Next]_vars PROVE Typed'
  OBVIOUS
<1>1. ASSUME NEW c \in Controllers, Attempt(c) PROVE Typed'
  BY <1>1, LeaseStepsKeepTypes, RecordStepsKeepTypes DEF Attempt
<1>2. ASSUME NEW c \in Controllers, Crash(c) PROVE Typed'
  BY <1>2, CrashKeepsTypes
<1>3. CASE Reopen \/ ReadForReopen \/ AcknowledgeReopen \/ Advance \/ Tick
  BY <1>3, OwnerStepsKeepTypes
<1>4. CASE UNCHANGED vars
  BY <1>4 DEF vars, Typed, TypeOK
<1> QED BY <1>1, <1>2, <1>3, <1>4 DEF Next

\* Every variable keeps its type and no record runs ahead of the lifecycle, for
\* any number of controllers, crashes and revisions.
THEOREM LifecycleTypeCorrect == Spec => []TypeOK
<1>1. Typed => TypeOK
  BY DEF Typed
<1> QED BY <1>1, InitTyped, NextKeepsTypes, PTL DEF Spec

-----------------------------------------------------------------------------
(* The lease. An attempt that uses a lease nobody has taken from it holds    *)
(* the only one there is: whoever else is at work has been ousted. It takes  *)
(* both halves: a directory that is there keeps others from making it, and   *)
(* the one step that removes it ousts everybody.                             *)

OneHolder ==
  \A c \in Controllers :
    desk[c].pc \in Using /\ c \notin ousted =>
      /\ lock.owner # "absent"
      /\ \A d \in Controllers \ {c} : desk[d].pc \in Using => d \in ousted

\* A step of one attempt that takes no lease from others and does not remove the
\* directory: if it makes the attempt a user, nobody else may hold the lease.
LEMMA HolderKept ==
  ASSUME Typed, OneHolder, NEW c \in Controllers, desk' \in [Controllers -> Desks],
         \A d \in Controllers \ {c} : desk'[d] = desk[d],
         \A d \in Controllers \ {c} : d \in ousted' <=> d \in ousted,
         desk'[c].pc \in Using =>
           \/ desk[c].pc \in Using /\ (c \in ousted <=> c \in ousted')
           \/ lock.owner = "absent",
         lock'.owner # "absent" \/ lock'.owner = lock.owner,
         desk'[c].pc \in Using => lock'.owner # "absent" \/ c \in ousted'
  PROVE  OneHolder'
<1> SUFFICES ASSUME NEW a \in Controllers, desk'[a].pc \in Using, a \notin ousted'
             PROVE  /\ lock'.owner # "absent"
                    /\ \A d \in Controllers \ {a} : desk'[d].pc \in Using => d \in ousted'
  BY DEF OneHolder
<1>1. CASE a = c
  BY <1>1 DEF OneHolder
<1>2. CASE a # c
  <2>1. desk[a].pc \in Using /\ a \notin ousted
    BY <1>2
  <2>2. lock.owner # "absent" /\ \A d \in Controllers \ {a} : desk[d].pc \in Using => d \in ousted
    BY <2>1 DEF OneHolder
  <2> QED BY <1>2, <2>2
<1> QED BY <1>1, <1>2

LEMMA GotoMoves ==
  ASSUME Typed, NEW c \in Controllers, NEW pc, Goto(c, pc)
  PROVE  desk'[c].pc = pc /\ \A d \in Controllers \ {c} : desk'[d] = desk[d]
BY DEF Goto, Typed, TypeOK, Desks

LEMMA EndsMoves ==
  ASSUME Typed, NEW c \in Controllers, Ends(c)
  PROVE  desk'[c].pc = "idle" /\ \A d \in Controllers \ {c} : desk'[d] = desk[d]
BY IdleType DEF Ends, Typed, TypeOK

LEMMA NotUsing ==
  /\ {"idle", "locking", "inspecting", "displacing", "relocking"} \cap Using = {}
  /\ Using = Pcs \ {"idle", "locking", "inspecting", "displacing", "relocking"}
BY DEF Using

\* An attempt that holds no copy of the lease at all, before and after.
LEMMA OutsideTheLease ==
  ASSUME Typed, Typed', OneHolder, NEW c \in Controllers,
         \A d \in Controllers \ {c} : desk'[d] = desk[d],
         desk'[c].pc \notin Using,
         \A d \in Controllers \ {c} : d \in ousted' <=> d \in ousted,
         lock'.owner # "absent" \/ lock'.owner = lock.owner
  PROVE  OneHolder'
BY HolderKept DEF Typed, TypeOK

\* An attempt that goes on using the lease.
LEMMA InsideTheLease ==
  ASSUME Typed, Typed', OneHolder, NEW c \in Controllers,
         \A d \in Controllers \ {c} : desk'[d] = desk[d],
         desk[c].pc \in Using, ousted' = ousted,
         lock'.owner # "absent" \/ lock'.owner = lock.owner
  PROVE  OneHolder'
<1>1. lock'.owner # "absent" \/ c \in ousted'
  BY DEF OneHolder
<1> QED BY <1>1, HolderKept DEF Typed, TypeOK

LEMMA LeaseStepsKeepOneHolder ==
  ASSUME Typed, Typed', OneHolder, NEW c \in Controllers,
         \/ Reconcile(c) \/ MakeLease(c) \/ Inspect(c) \/ Displace(c) \/ Relock(c)
         \/ Own(c) \/ Heartbeat(c) \/ Release(c) \/ Unlock(c)
  PROVE  OneHolder'
<1>1. CASE Reconcile(c)
  <2>1. Goto(c, "locking") /\ UNCHANGED <<lock, ousted>>
    BY <1>1 DEF Reconcile, leaseVars
  <2> QED BY <2>1, GotoMoves, NotUsing, OutsideTheLease
<1>2. CASE MakeLease(c)
  <2>1. CASE lock = Absent
    <3>1. Goto(c, "owning") /\ lock'.owner # "absent" /\ ousted' = ousted /\ lock.owner = "absent"
      BY <1>2, <2>1, NobodysLock, AbsentLock DEF MakeLease
    <3> QED BY <3>1, GotoMoves, HolderKept DEF Typed, TypeOK
  <2>2. CASE lock # Absent
    <3>1. Goto(c, "inspecting") /\ UNCHANGED <<lock, ousted>>
      BY <1>2, <2>2 DEF MakeLease
    <3> QED BY <3>1, GotoMoves, NotUsing, OutsideTheLease
  <2> QED BY <2>1, <2>2
<1>3. CASE Inspect(c)
  <2>1. (Ends(c) \/ Goto(c, "displacing")) /\ UNCHANGED <<lock, ousted>>
    BY <1>3 DEF Inspect, leaseVars
  <2> QED BY <2>1, GotoMoves, EndsMoves, NotUsing, OutsideTheLease
<1>4. CASE Displace(c)
  <2>1. CASE lock = Absent
    <3>1. Goto(c, "locking") /\ UNCHANGED <<lock, ousted>>
      BY <1>4, <2>1 DEF Displace, leaseVars
    <3> QED BY <3>1, GotoMoves, NotUsing, OutsideTheLease
  <2>2. CASE lock # Absent
    <3>1. Goto(c, "relocking") /\ OustedBy(c)
      BY <1>4, <2>2 DEF Displace
    <3> QED BY <3>1, GotoMoves, NotUsing DEF OustedBy, OneHolder
  <2> QED BY <2>1, <2>2
<1>5. CASE Relock(c)
  <2>1. CASE lock = Absent
    <3>1. Goto(c, "rereading") /\ lock'.owner # "absent" /\ ousted' = ousted /\ lock.owner = "absent"
      BY <1>5, <2>1, NobodysLock, AbsentLock DEF Relock
    <3> QED BY <3>1, GotoMoves, HolderKept DEF Typed, TypeOK
  <2>2. CASE lock # Absent
    <3>1. Ends(c) /\ UNCHANGED <<lock, ousted>>
      BY <1>5, <2>2 DEF Relock
    <3> QED BY <3>1, EndsMoves, NotUsing, OutsideTheLease
  <2> QED BY <2>1, <2>2
<1>6. CASE Own(c)
  <2>1. desk[c].pc \in Using /\ Goto(c, "beating") /\ ousted' = ousted
    BY <1>6 DEF Own, At, Using, Pcs
  <2>2. lock'.owner # "absent"
    BY <1>6, LifecycleAssumption DEF Own
  <2> QED BY <2>1, <2>2, GotoMoves, InsideTheLease
<1>7. CASE Heartbeat(c)
  <2>1. (Goto(c, "loading") \/ Goto(c, "working")) /\ ousted' = ousted /\ lock' = Beaten(c)
    BY <1>7 DEF Heartbeat
  <2>2. desk[c].pc \in Using /\ lock'.owner # "absent"
    BY <1>7, <2>1, BeatenType DEF Heartbeat, At, Using, Pcs
  <2> QED BY <2>1, <2>2, GotoMoves, InsideTheLease
<1>8. CASE Release(c)
  <2>1. desk[c].pc \in Using /\ lock' = lock
    BY <1>8 DEF Release, At, Using, Pcs
  <2>2. CASE Goto(c, "signing") /\ ousted' = ousted
    BY <2>1, <2>2, GotoMoves, InsideTheLease
  <2>3. CASE Ends(c) /\ ousted' = ousted \ {c}
    BY <2>1, <2>3, EndsMoves, NotUsing, OutsideTheLease
  <2> QED BY <1>8, <2>2, <2>3 DEF Release
<1>9. CASE Unlock(c)
  <2>1. Ends(c) /\ OustedBy(c)
    BY <1>9 DEF Unlock
  <2> QED BY <2>1, EndsMoves, NotUsing DEF OustedBy, OneHolder
<1> QED BY <1>1, <1>2, <1>3, <1>4, <1>5, <1>6, <1>7, <1>8, <1>9

\* The steps on the record leave the lease alone, and an attempt that makes one
\* is using the lease.
LEMMA RecordStepsKeepOneHolder ==
  ASSUME Typed, Typed', OneHolder, NEW c \in Controllers,
         \/ Load(c) \/ Sign(c) \/ Observe(c) \/ Read(c) \/ RecordCheckpoint(c)
         \/ ObserveTerminal(c) \/ RecordDispatch(c) \/ Dispatch(c) \/ Complete(c)
  PROVE  OneHolder'
<1>1. UNCHANGED <<lock, ousted>>
  BY DEF Load, Sign, Observe, Read, RecordCheckpoint, ObserveTerminal, RecordDispatch,
         Dispatch, Complete, Persist, leaseVars
<1>2. desk[c].pc \in Using
  BY DEF Load, Loads, Sign, Signs, Observe, Read, RecordCheckpoint, ObserveTerminal,
         RecordDispatch, Dispatch, Complete, At, Using, Pcs
<1>3. \A d \in Controllers \ {c} : desk'[d] = desk[d]
  BY DEF Load, Sign, Observe, Read, RecordCheckpoint, ObserveTerminal, RecordDispatch,
         Dispatch, Complete, Persist, Goto, Typed, TypeOK
<1> QED BY <1>1, <1>2, <1>3, InsideTheLease

LEMMA CrashKeepsOneHolder ==
  ASSUME Typed, Typed', OneHolder, NEW c \in Controllers, Crash(c)
  PROVE  OneHolder'
<1>1. Ends(c) /\ ousted' = ousted \ {c}
  BY DEF Crash
<1>2. lock'.owner # "absent" \/ lock'.owner = lock.owner
  BY DEF Crash, Gone, Typed, TypeOK, Locks
<1> QED BY <1>1, <1>2, EndsMoves, NotUsing, OutsideTheLease

LEMMA NextKeepsOneHolder == Typed /\ Typed' /\ OneHolder /\ [Next]_vars => OneHolder'
<1> SUFFICES ASSUME Typed, Typed', OneHolder, [Next]_vars PROVE OneHolder'
  OBVIOUS
<1>1. ASSUME NEW c \in Controllers, Attempt(c) PROVE OneHolder'
  BY <1>1, LeaseStepsKeepOneHolder, RecordStepsKeepOneHolder DEF Attempt
<1>2. ASSUME NEW c \in Controllers, Crash(c) PROVE OneHolder'
  BY <1>2, CrashKeepsOneHolder
<1>3. CASE Reopen \/ ReadForReopen \/ AcknowledgeReopen \/ Advance
  BY <1>3 DEF Reopen, ReadForReopen, AcknowledgeReopen, Advance, leaseVars, OneHolder
<1>4. CASE Tick
  <2>1. lock'.owner = lock.owner /\ UNCHANGED <<desk, ousted>>
    BY <1>4 DEF Tick, Typed, TypeOK, Locks
  <2> QED BY <2>1 DEF OneHolder
<1>5. CASE UNCHANGED vars
  BY <1>5 DEF vars, OneHolder
<1> QED BY <1>1, <1>2, <1>3, <1>4, <1>5 DEF Next

\* Two attempts that both dispatch have one among them whose lease was taken
\* away while it used it - for any number of controllers and crashes, any length
\* of lease, and leases taken over before their owner is known.
THEOREM DispatchersHoldTheLease == Spec => []OneDispatcher
<1>1. Init => OneHolder
  BY IdleType, NotUsing DEF Init, OneHolder
<1>2. Typed /\ OneHolder => OneDispatcher
  BY DEF OneHolder, OneDispatcher, At, Using, Pcs
<1> QED BY <1>1, <1>2, InitTyped, NextKeepsTypes, NextKeepsOneHolder, PTL DEF Spec

=============================================================================
