-------------------------- MODULE JiraObserver_proofs --------------------------
(* Proofs about JiraObserver, for any tasks, passes, people at the board and *)
(* faults.                                                                  *)
EXTENDS JiraObserver, FiniteSetTheorems, TLAPS

Snapshots == [Tasks -> [revision : Nat, status : Statuses]]
PassRecords ==
  [pc : Pcs, seen : Snapshots, at : 1..Len(Order), known : BOOLEAN, outcome : Outcomes]

\* What a pass has in hand is a revision the task has been at, and the task
\* itself while it has not moved on.
SeenWas(p, t) ==
  /\ pass[p].seen[t].revision <= task[t].revision
  /\ pass[p].seen[t].revision = task[t].revision => pass[p].seen[t] = task[t]

Typed ==
  /\ task \in Snapshots /\ comments = [t \in Tasks |-> comments[t]]
  /\ receipts = [t \in Tasks |-> receipts[t]] /\ pass \in [Passes -> PassRecords]
  /\ \A t \in Tasks : task[t].revision = 0 => task[t] = Untouched[t]
  /\ \A p \in Passes, t \in Tasks : SeenWas(p, t)

\* A pass that is past its comment, and a receipt, have one to show for it.
Commented ==
  /\ \A p \in Passes :
       pass[p].pc \in {"reading", "posting", "confirming", "saving"}
         => comments[Hand(p)][Seen(p).revision] >= 1
  /\ \A t \in Tasks : \A r \in Revisions(t) : receipts[t][r] # "none" => comments[t][r] >= 1

\* A pass about to record that Jira shows a status still finds it there, unless
\* the task went on, somebody moved the issue, or an older pass was too late.
ObservedStays ==
  \A p \in Passes :
    LET t == Hand(p)
    IN /\ pass[p].pc = "saving" /\ pass[p].outcome = "published" /\ t \notin edited \cup outrun
       /\ Seen(p).revision = task[t].revision
       => issue[t] = JiraStatus[task[t].status]

\* Without an overlap one pass is under way, and it comments where none has.
OneCommenter ==
  ~overlapped =>
    /\ \A p, q \in Passes : ~At(p, "idle") /\ ~At(q, "idle") => p = q
    /\ \A p \in Passes : At(p, "commenting") => comments[Hand(p)][Seen(p).revision] = 0
    /\ \A t \in Tasks : \A r \in Revisions(t) : comments[t][r] <= 1

\* Passes only come to comment on a revision that has no comment: those that
\* did and those about to are different passes.
Commenters(t, r) ==
  {p \in Passes : At(p, "commenting") /\ Hand(p) = t /\ Seen(p).revision = r}
CommentersLeft ==
  \A t \in Tasks : \A r \in Revisions(t) :
    comments[t][r] + Cardinality(Commenters(t, r)) <= Cardinality(Passes)

-----------------------------------------------------------------------------
(* What a pass has in hand.                                                 *)

LEMMA Listed ==
  /\ Len(Order) \in Nat \ {0} /\ \A i \in 1..Len(Order) : Order[i] \in Tasks
  /\ \A t \in Tasks : RevisionLimit[t] \in Nat
BY JiraObserverAssumption

LEMMA InHand ==
  ASSUME TypeOK, Typed, NEW p \in Passes
  PROVE  /\ pass[p] \in PassRecords /\ Hand(p) \in Tasks /\ Seen(p) \in [revision : Nat, status : Statuses]
         /\ Seen(p).revision \in Revisions(Hand(p))
         /\ Seen(p).revision <= task[Hand(p)].revision
         /\ Seen(p).revision = task[Hand(p)].revision => Seen(p) = task[Hand(p)]
<1>1. pass[p] \in PassRecords
  BY DEF Typed
<1>2. pass[p].at \in 1..Len(Order) /\ pass[p].seen \in Snapshots
  BY <1>1 DEF PassRecords
<1>3. Hand(p) \in Tasks
  BY <1>2, Listed DEF Hand
<1>4. Seen(p) \in [revision : Nat, status : Statuses]
  BY <1>2, <1>3 DEF Seen, Snapshots
<1>5. SeenWas(p, Hand(p))
  BY <1>3 DEF Typed
<1>6. task[Hand(p)].revision \in 0..RevisionLimit[Hand(p)]
  BY <1>3 DEF TypeOK, Revisions
<1>7. Seen(p).revision <= task[Hand(p)].revision
  BY <1>5 DEF SeenWas, Seen
<1>8. Seen(p).revision \in Revisions(Hand(p))
  BY <1>3, <1>4, <1>6, <1>7, Listed DEF Revisions
<1> QED
  BY <1>1, <1>3, <1>4, <1>5, <1>7, <1>8 DEF SeenWas, Seen

LEMMA IdleTyped == Idle \in PassRecords /\ Untouched \in Snapshots
<1>1. Untouched \in Snapshots
  BY DEF Untouched, Snapshots, Statuses
<1> QED
  BY <1>1, Listed DEF Idle, PassRecords, Pcs, Outcomes

LEMMA AdvancedTyped ==
  ASSUME NEW w \in PassRecords
  PROVE  /\ Advanced(w) \in PassRecords /\ Advanced(w).pc \in {"idle", "loading"}
         /\ Advanced(w).seen \in {w.seen, Untouched}
<1>1. CASE w.at = Len(Order)
  BY <1>1, IdleTyped DEF Advanced, Idle
<1>2. CASE w.at # Len(Order)
  <2>1. w.at + 1 \in 1..Len(Order)
    BY <1>2, Listed DEF PassRecords
  <2>2. PICK n : n = w.at + 1
    OBVIOUS
  <2>3. Advanced(w) = [w EXCEPT !.at = n, !.pc = "loading"]
    BY <1>2, <2>2 DEF Advanced
  <2>4. n \in 1..Len(Order) /\ "loading" \in Pcs
    BY <2>1, <2>2 DEF Pcs
  <2> QED
    BY <2>3, <2>4 DEF PassRecords
<1> QED
  BY <1>1, <1>2

\* A pass keeps what it has in hand while it is at one task.
Keeps(p) == pass'[p].at = pass[p].at /\ pass'[p].seen = pass[p].seen
Alone(p) == \A q \in Passes : q # p => pass'[q] = pass[q]
Between(p) == pass'[p].pc \in {"idle", "loading"}

LEMMA GotoMoves ==
  ASSUME pass \in [Passes -> PassRecords], NEW p \in Passes, NEW pc \in Pcs, Goto(p, pc)
  PROVE  /\ pass' \in [Passes -> PassRecords] /\ Alone(p) /\ Keeps(p)
         /\ pass'[p].pc = pc /\ pass'[p].outcome = pass[p].outcome
<1>1. [pass[p] EXCEPT !.pc = pc] \in PassRecords
  BY DEF PassRecords
<1> QED
  BY <1>1 DEF Goto, PassRecords, Alone, Keeps

LEMMA OutcomeMoves ==
  ASSUME pass \in [Passes -> PassRecords], NEW p \in Passes, NEW o \in Outcomes, Outcome(p, o)
  PROVE  /\ pass' \in [Passes -> PassRecords] /\ Alone(p) /\ Keeps(p)
         /\ pass'[p].pc = "saving" /\ pass'[p].outcome = o
BY DEF Outcome, PassRecords, Alone, Keeps, Pcs

LEMMA EndsMoves ==
  ASSUME pass \in [Passes -> PassRecords], NEW p \in Passes, Ends(p)
  PROVE  /\ pass' \in [Passes -> PassRecords] /\ Alone(p)
         /\ pass'[p] = Idle /\ Idle.pc = "idle" /\ Idle.seen = Untouched
BY IdleTyped DEF Ends, Alone, Idle

-----------------------------------------------------------------------------
(* What every step of a pass leaves as it was.                              *)

\* A pass posts only a status Jira knows.
PostsAStatus == \A p \in Passes : pass[p].pc = "posting" => Desired(p) # "none"

IInv ==
  /\ TypeOK /\ Typed /\ Commented /\ PostsAStatus /\ ObservedStays /\ ReceiptsAreObservations
  /\ OneCommenter /\ CommentersLeft

\* A pass stays at its task or is done with it.
Walks(p) ==
  /\ pass' \in [Passes -> PassRecords] /\ Alone(p)
  /\ \/ Keeps(p)
     \/ Between(p) /\ pass'[p].seen \in {pass[p].seen, Untouched}

LEMMA Hands ==
  ASSUME NEW p \in Passes, Walks(p)
  PROVE  /\ \A q \in Passes : q # p =>
              pass'[q] = pass[q] /\ Hand(q)' = Hand(q) /\ Seen(q)' = Seen(q) /\ Desired(q)' = Desired(q)
         /\ Keeps(p) => Hand(p)' = Hand(p) /\ Seen(p)' = Seen(p) /\ Desired(p)' = Desired(p)
         /\ Between(p) \/ Keeps(p)
BY DEF Walks, Alone, Keeps, Hand, Seen, Desired

LEMMA EndsWalks ==
  ASSUME pass \in [Passes -> PassRecords], NEW p \in Passes, Ends(p)
  PROVE  Walks(p) /\ pass'[p].pc = "idle"
BY EndsMoves DEF Walks, Between

LEMMA GotoWalks ==
  ASSUME pass \in [Passes -> PassRecords], NEW p \in Passes, NEW pc \in Pcs, Goto(p, pc)
  PROVE  Walks(p) /\ Keeps(p) /\ pass'[p].pc = pc /\ pass'[p].outcome = pass[p].outcome
BY GotoMoves DEF Walks

LEMMA OutcomeWalks ==
  ASSUME pass \in [Passes -> PassRecords], NEW p \in Passes, NEW o \in Outcomes, Outcome(p, o)
  PROVE  Walks(p) /\ Keeps(p) /\ pass'[p].pc = "saving" /\ pass'[p].outcome = o
BY OutcomeMoves DEF Walks

LEMMA AdvancedWalks ==
  ASSUME pass \in [Passes -> PassRecords], NEW p \in Passes,
         pass' = [pass EXCEPT ![p] = Advanced(@)]
  PROVE  Walks(p) /\ Between(p)
<1>1. pass[p] \in PassRecords
  OBVIOUS
<1>2. Advanced(pass[p]) \in PassRecords /\ Advanced(pass[p]).pc \in {"idle", "loading"}
      /\ Advanced(pass[p]).seen \in {pass[p].seen, Untouched}
  BY <1>1, AdvancedTyped
<1>3. pass' = [pass EXCEPT ![p] = Advanced(pass[p])]
  OBVIOUS
<1> QED
  BY <1>2, <1>3 DEF Walks, Between, Alone

LEMMA TypesOfPasses ==
  ASSUME pass' \in [Passes -> PassRecords]
  PROVE  \A p \in Passes : pass'[p].pc \in Pcs /\ pass'[p].at \in 1..Len(Order)
BY DEF PassRecords

\* Types of what has moved when the record has not.
LEMMA TypedWalks ==
  ASSUME TypeOK, Typed, NEW p \in Passes, Walks(p), task' = task,
         comments' = [t \in Tasks |-> comments'[t]], receipts' = [t \in Tasks |-> receipts'[t]]
  PROVE  Typed'
<1>1. \A q \in Passes, t \in Tasks : SeenWas(q, t)'
  <2> TAKE q \in Passes, t \in Tasks
  <2>1. SeenWas(q, t) /\ task[t].revision \in Nat
    BY DEF Typed, Snapshots
  <2>2. CASE pass'[q].seen = pass[q].seen
    BY <2>1, <2>2 DEF SeenWas
  <2>3. CASE pass'[q].seen = Untouched
    <3>1. Untouched[t].revision = 0 /\ task[t].revision >= 0
      BY <2>1 DEF Untouched
    <3>2. task[t].revision = 0 => task[t] = Untouched[t]
      BY DEF Typed
    <3> QED
      BY <2>1, <2>3, <3>1, <3>2 DEF SeenWas
  <2> QED
    BY <2>2, <2>3 DEF Walks, Keeps, Alone
<1>2. pass' \in [Passes -> PassRecords]
  BY DEF Walks
<1> QED
  BY <1>1, <1>2 DEF Typed

\* A step of a pass that shows Jira nothing and records nothing.
Quiet == UNCHANGED <<task, issue, comments, receipts, edited, overlapped, outrun>>

\* Where the pass has got to is as far as what is in Jira lets it be.
MayBe(p) ==
  /\ pass'[p].pc = "commenting" => comments[Hand(p)][Seen(p).revision] = 0
  /\ pass'[p].pc \in {"reading", "posting", "confirming", "saving"}
       => comments[Hand(p)][Seen(p).revision] >= 1
  /\ pass'[p].pc = "posting" => Desired(p) # "none"
  /\ pass'[p].pc = "saving" /\ pass'[p].outcome = "published" => issue[Hand(p)] = Desired(p)

LEMMA QuietCommenters ==
  ASSUME TypeOK, Typed, CommentersLeft, NEW p \in Passes, Walks(p), Quiet,
         pass'[p].pc = "commenting" => comments[Hand(p)][Seen(p).revision] = 0
  PROVE  CommentersLeft'
<1> SUFFICES ASSUME NEW t \in Tasks, NEW r \in Revisions(t)
             PROVE  comments[t][r] + Cardinality(Commenters(t, r)') <= Cardinality(Passes)
  BY DEF CommentersLeft, Quiet
<1>1. IsFiniteSet(Passes) /\ comments[t][r] \in Nat
  BY JiraObserverAssumption DEF TypeOK
<1>2. Commenters(t, r) \subseteq Passes /\ Commenters(t, r)' \subseteq Passes
  BY DEF Commenters
<1>3. IsFiniteSet(Commenters(t, r)) /\ IsFiniteSet(Commenters(t, r)')
  BY <1>1, <1>2, FS_Subset
<1>4. CASE comments[t][r] = 0
  <2>1. Cardinality(Commenters(t, r)') <= Cardinality(Passes)
        /\ Cardinality(Commenters(t, r)') \in Nat
    BY <1>1, <1>2, <1>3, FS_Subset, FS_CardinalityType
  <2> QED
    BY <1>4, <2>1
<1>5. CASE comments[t][r] # 0
  <2>1. p \notin Commenters(t, r)'
    BY <1>5, Hands DEF Commenters, At, Between
  <2>2. Commenters(t, r)' \subseteq Commenters(t, r)
    BY <2>1, Hands DEF Commenters, At
  <2>3. Cardinality(Commenters(t, r)') <= Cardinality(Commenters(t, r))
        /\ Cardinality(Commenters(t, r)') \in Nat /\ Cardinality(Commenters(t, r)) \in Nat
    BY <1>3, <2>2, FS_Subset, FS_CardinalityType
  <2>4. comments[t][r] + Cardinality(Commenters(t, r)) <= Cardinality(Passes)
    BY DEF CommentersLeft
  <2>5. Cardinality(Passes) \in Nat
    BY <1>1, FS_CardinalityType
  <2> QED
    BY <1>1, <2>3, <2>4, <2>5
<1> QED
  BY <1>4, <1>5

LEMMA QuietKeeps ==
  ASSUME IInv, NEW p \in Passes, Walks(p), ~At(p, "idle"), Quiet, MayBe(p), faults' \in 0..FaultLimit
  PROVE  IInv'
<1> USE DEF IInv
<1>1. TypeOK'
  BY TypesOfPasses DEF TypeOK, Quiet, Walks
<1>2. Typed'
  <2>1. comments' = [t \in Tasks |-> comments'[t]] /\ receipts' = [t \in Tasks |-> receipts'[t]]
    BY DEF Typed, Quiet
  <2> QED
    BY <2>1, TypedWalks DEF Quiet
<1>3. Commented'
  <2>1. \A q \in Passes : pass'[q].pc \in {"reading", "posting", "confirming", "saving"}
          => comments[Hand(q)'][Seen(q)'.revision] >= 1
    BY Hands DEF Commented, MayBe, Between
  <2>2. \A t \in Tasks : \A r \in Revisions(t) : receipts[t][r] # "none" => comments[t][r] >= 1
    BY DEF Commented
  <2> QED
    BY <2>1, <2>2 DEF Commented, Quiet
<1>4. PostsAStatus'
  BY Hands DEF PostsAStatus, MayBe, Between
<1>5. ObservedStays'
  <2> SUFFICES ASSUME NEW q \in Passes, pass'[q].pc = "saving", pass'[q].outcome = "published",
                      Hand(q)' \notin edited \cup outrun,
                      Seen(q)'.revision = task[Hand(q)'].revision
               PROVE  issue[Hand(q)'] = JiraStatus[task[Hand(q)'].status]
    BY DEF ObservedStays, Quiet
  <2>1. CASE q # p
    BY <2>1, Hands DEF ObservedStays
  <2>2. CASE q = p
    <3>1. Keeps(p)
      BY <2>2, Hands DEF Between
    <3>2. Hand(p)' = Hand(p) /\ Seen(p)' = Seen(p)
      BY <3>1, Hands
    <3>3. Seen(p) = task[Hand(p)]
      BY <2>2, <3>2, InHand
    <3>4. issue[Hand(p)] = Desired(p)
      BY <2>2 DEF MayBe
    <3> QED
      BY <2>2, <3>2, <3>3, <3>4 DEF Desired
  <2> QED
    BY <2>1, <2>2
<1>6. ReceiptsAreObservations'
  BY DEF ReceiptsAreObservations, Quiet
<1>7. OneCommenter'
  <2> SUFFICES ASSUME ~overlapped
               PROVE  /\ \A q, s \in Passes : ~At(q, "idle")' /\ ~At(s, "idle")' => q = s
                      /\ \A q \in Passes : At(q, "commenting")' => comments[Hand(q)'][Seen(q)'.revision] = 0
                      /\ \A t \in Tasks : \A r \in Revisions(t) : comments[t][r] <= 1
    BY DEF OneCommenter, Quiet
  <2>1. \A q \in Passes : ~At(q, "idle")' => ~At(q, "idle")
    BY Hands DEF At
  <2>2. \A q \in Passes : At(q, "commenting")' => comments[Hand(q)'][Seen(q)'.revision] = 0
    BY Hands DEF At, MayBe, OneCommenter, Between
  <2> QED
    BY <2>1, <2>2 DEF OneCommenter
<1>8. CommentersLeft'
  BY QuietCommenters DEF MayBe
<1> QED
  BY <1>1, <1>2, <1>3, <1>4, <1>5, <1>6, <1>7, <1>8

LEMMA LoadStep ==
  ASSUME IInv, NEW p \in Passes, Load(p)
  PROVE  IInv'
<1> USE DEF IInv
<1>1. pass \in [Passes -> PassRecords] /\ ~At(p, "idle") /\ Quiet /\ faults' \in 0..FaultLimit
  BY DEF Typed, Load, At, Quiet, TypeOK
<1>2. Walks(p) /\ MayBe(p)
  <2>1. CASE Seen(p).revision = 0 \/ Receipt(p) \in {"silent", "published"}
    <3>1. pass' = [pass EXCEPT ![p] = Advanced(@)]
      BY <2>1 DEF Load
    <3> QED
      BY <1>1, <3>1, AdvancedWalks DEF MayBe, Between
  <2>2. CASE /\ ~(Seen(p).revision = 0 \/ Receipt(p) \in {"silent", "published"})
             /\ Desired(p) = "Done" /\ Hand(p) \notin Closable
    <3>1. Ends(p)
      BY <2>2 DEF Load, Ends
    <3> QED
      BY <1>1, <3>1, EndsWalks DEF MayBe
  <2>3. CASE /\ ~(Seen(p).revision = 0 \/ Receipt(p) \in {"silent", "published"})
             /\ ~(Desired(p) = "Done" /\ Hand(p) \notin Closable)
    <3>1. PICK pc, known : /\ pc = (IF Receipt(p) = "unmoved" THEN "reading" ELSE "looking")
                           /\ known = \E r \in Revisions(Hand(p)) : receipts[Hand(p)][r] = "published"
      OBVIOUS
    <3>2. pass' = [pass EXCEPT ![p] = [@ EXCEPT !.pc = pc, !.known = known, !.outcome = "none"]]
      BY <2>3, <3>1 DEF Load
    <3>3. pc \in {"reading", "looking"} /\ pc \in Pcs /\ known \in BOOLEAN /\ "none" \in Outcomes
      BY <3>1 DEF Pcs, Outcomes
    <3>4. Walks(p) /\ Keeps(p) /\ pass'[p].pc = pc
      BY <1>1, <3>2, <3>3 DEF Walks, Alone, Keeps, PassRecords
    <3>5. Receipt(p) = "unmoved" => comments[Hand(p)][Seen(p).revision] >= 1
      BY InHand DEF Receipt, Commented
    <3> QED
      BY <3>1, <3>3, <3>4, <3>5 DEF MayBe
  <2> QED
    BY <2>1, <2>2, <2>3
<1> QED
  BY <1>1, <1>2, QuietKeeps

LEMMA LookStep ==
  ASSUME IInv, NEW p \in Passes, Look(p)
  PROVE  IInv'
<1> USE DEF IInv
<1>1. pass \in [Passes -> PassRecords] /\ ~At(p, "idle") /\ Quiet /\ faults' \in 0..FaultLimit
  BY DEF Typed, Look, At, Quiet, TypeOK
<1>2. PICK pc : pc = (IF comments[Hand(p)][Seen(p).revision] = 0 THEN "commenting" ELSE "reading")
  OBVIOUS
<1>3. pc \in Pcs /\ Goto(p, pc)
  BY <1>2 DEF Pcs, Look
<1>4. Walks(p) /\ pass'[p].pc = pc
  BY <1>1, <1>3, GotoWalks
<1>5. comments[Hand(p)][Seen(p).revision] \in Nat
  BY InHand DEF TypeOK
<1>6. MayBe(p)
  BY <1>2, <1>4, <1>5 DEF MayBe
<1> QED
  BY <1>1, <1>4, <1>6, QuietKeeps

LEMMA ReadStep ==
  ASSUME IInv, NEW p \in Passes, Read(p)
  PROVE  IInv'
<1> USE DEF IInv
<1>1. pass \in [Passes -> PassRecords] /\ ~At(p, "idle") /\ Quiet /\ faults' \in 0..FaultLimit
  BY DEF Typed, Read, At, Quiet, TypeOK
<1>2. comments[Hand(p)][Seen(p).revision] >= 1
  BY DEF Read, At, Commented
<1>3. Walks(p) /\ MayBe(p)
  <2>1. CASE Desired(p) = "none" /\ Outcome(p, "silent")
    BY <1>1, <1>2, <2>1, OutcomeWalks DEF MayBe, Outcomes
  <2>2. CASE issue[Hand(p)] = Desired(p) /\ Outcome(p, "published")
    BY <1>1, <1>2, <2>2, OutcomeWalks DEF MayBe, Outcomes
  <2>3. CASE Desired(p) # "none" /\ Goto(p, "posting")
    BY <1>1, <1>2, <2>3, GotoWalks DEF MayBe, Pcs
  <2>4. CASE Ends(p)
    BY <1>1, <2>4, EndsWalks DEF MayBe
  <2> QED
    BY <2>1, <2>2, <2>3, <2>4 DEF Read
<1> QED
  BY <1>1, <1>3, QuietKeeps

LEMMA ConfirmStep ==
  ASSUME IInv, NEW p \in Passes, Confirm(p)
  PROVE  IInv'
<1> USE DEF IInv
<1>1. pass \in [Passes -> PassRecords] /\ ~At(p, "idle") /\ Quiet /\ faults' \in 0..FaultLimit
  BY DEF Typed, Confirm, At, Quiet, TypeOK
<1>2. comments[Hand(p)][Seen(p).revision] >= 1
  BY DEF Confirm, At, Commented
<1>3. PICK o : o = (IF issue[Hand(p)] = Desired(p) THEN "published" ELSE "unmoved")
  OBVIOUS
<1>4. Outcome(p, o) /\ o \in Outcomes
  BY <1>3 DEF Confirm, Outcomes
<1>5. Walks(p) /\ MayBe(p)
  BY <1>1, <1>2, <1>3, <1>4, OutcomeWalks DEF MayBe
<1> QED
  BY <1>1, <1>5, QuietKeeps

LEMMA RefusedStep ==
  ASSUME IInv, NEW p \in Passes, Refused(p)
  PROVE  IInv'
<1> USE DEF IInv
<1>1. pass \in [Passes -> PassRecords] /\ ~At(p, "idle") /\ Quiet
  BY DEF Typed, Refused, At, Quiet
<1>2. faults' \in 0..FaultLimit
  BY JiraObserverAssumption DEF Refused, TypeOK
<1>3. Walks(p) /\ MayBe(p)
  BY <1>1, EndsWalks DEF MayBe, Refused
<1> QED
  BY <1>1, <1>2, <1>3, QuietKeeps

LEMMA FewerCommenters ==
  ASSUME TypeOK, CommentersLeft, comments' = comments,
         \A q \in Passes : At(q, "commenting")' => pass'[q] = pass[q]
  PROVE  CommentersLeft'
<1> SUFFICES ASSUME NEW t \in Tasks, NEW r \in Revisions(t)
             PROVE  comments[t][r] + Cardinality(Commenters(t, r)') <= Cardinality(Passes)
  BY DEF CommentersLeft
<1>1. IsFiniteSet(Passes) /\ comments[t][r] \in Nat
  BY JiraObserverAssumption DEF TypeOK
<1>2. Commenters(t, r) \subseteq Passes /\ Commenters(t, r)' \subseteq Commenters(t, r)
  BY DEF Commenters, At, Hand, Seen
<1>3. IsFiniteSet(Commenters(t, r)) /\ IsFiniteSet(Commenters(t, r)')
  BY <1>1, <1>2, FS_Subset
<1>4. Cardinality(Commenters(t, r)') <= Cardinality(Commenters(t, r))
      /\ Cardinality(Commenters(t, r)') \in Nat /\ Cardinality(Commenters(t, r)) \in Nat
      /\ Cardinality(Passes) \in Nat
  BY <1>1, <1>2, <1>3, FS_Subset, FS_CardinalityType
<1>5. comments[t][r] + Cardinality(Commenters(t, r)) <= Cardinality(Passes)
  BY DEF CommentersLeft
<1> QED
  BY <1>1, <1>4, <1>5

LEMMA BeginStep ==
  ASSUME IInv, NEW p \in Passes, Begin(p)
  PROVE  IInv'
<1> USE DEF IInv
<1> DEFINE rest == UNCHANGED <<task, issue, comments, receipts, edited, outrun, faults>>
<1>1. rest /\ At(p, "idle")
  BY DEF Begin
<1>2. pass \in [Passes -> PassRecords] /\ task \in Snapshots
  BY DEF Typed
<1>3. /\ pass' \in [Passes -> PassRecords] /\ Alone(p)
      /\ pass'[p].pc = "loading" /\ pass'[p].seen = task
  <2>1. "loading" \in Pcs /\ pass[p] \in PassRecords
    BY <1>2 DEF Pcs
  <2>2. pass' = [pass EXCEPT ![p] = [@ EXCEPT !.pc = "loading", !.seen = task]]
    BY <1>2 DEF Begin
  <2> QED
    BY <1>2, <2>1, <2>2 DEF PassRecords, Alone
<1>4. \A q \in Passes : q # p => pass'[q] = pass[q] /\ Hand(q)' = Hand(q) /\ Seen(q)' = Seen(q)
                                 /\ Desired(q)' = Desired(q)
  BY <1>3 DEF Alone, Hand, Seen, Desired
<1>5. TypeOK'
  BY <1>1, <1>3, TypesOfPasses DEF TypeOK, Begin
<1>6. Typed'
  <2>1. \A q \in Passes, t \in Tasks : SeenWas(q, t)'
    <3> TAKE q \in Passes, t \in Tasks
    <3>1. SeenWas(q, t) /\ task[t].revision \in Nat
      BY DEF Typed, Snapshots
    <3> QED
      BY <1>1, <1>3, <1>4, <3>1 DEF SeenWas
  <2> QED
    BY <1>1, <1>3, <2>1 DEF Typed
<1>7. Commented'
  BY <1>1, <1>3, <1>4 DEF Commented
<1>8. PostsAStatus'
  BY <1>3, <1>4 DEF PostsAStatus
<1>9. ObservedStays'
  <2> SUFFICES ASSUME NEW q \in Passes, pass'[q].pc = "saving", pass'[q].outcome = "published",
                      Hand(q)' \notin edited \cup outrun,
                      Seen(q)'.revision = task[Hand(q)'].revision
               PROVE  issue[Hand(q)'] = JiraStatus[task[Hand(q)'].status]
    BY <1>1 DEF ObservedStays
  <2> QED
    BY <1>3, <1>4 DEF ObservedStays
<1>10. ReceiptsAreObservations'
  BY <1>1 DEF ReceiptsAreObservations
<1>11. OneCommenter'
  <2> SUFFICES ASSUME ~overlapped'
               PROVE  /\ \A q, s \in Passes : ~At(q, "idle")' /\ ~At(s, "idle")' => q = s
                      /\ \A q \in Passes : At(q, "commenting")' => comments[Hand(q)'][Seen(q)'.revision] = 0
                      /\ \A t \in Tasks : \A r \in Revisions(t) : comments[t][r] <= 1
    BY <1>1 DEF OneCommenter
  <2>1. ~overlapped /\ \A q \in Passes : q # p => At(q, "idle")
    BY DEF Begin
  <2>2. \A q \in Passes : q # p => At(q, "idle")'
    BY <1>4, <2>1 DEF At
  <2> QED
    BY <1>3, <2>1, <2>2 DEF At, OneCommenter
<1>12. CommentersLeft'
  BY <1>1, <1>3, <1>4, FewerCommenters DEF At
<1> QED
  BY <1>5, <1>6, <1>7, <1>8, <1>9, <1>10, <1>11, <1>12

LEMMA RestartStep ==
  ASSUME IInv, Restart
  PROVE  IInv'
<1> USE DEF IInv
<1>1. UNCHANGED <<task, issue, comments, receipts, edited, overlapped, outrun>>
  BY DEF Restart
<1>2. \A q \in Passes : pass'[q] = Idle /\ pass'[q].pc = "idle" /\ pass'[q].seen = Untouched
  BY DEF Restart, Idle
<1>3. pass' \in [Passes -> PassRecords] /\ faults' \in 0..FaultLimit
  BY IdleTyped, JiraObserverAssumption DEF Restart, TypeOK
<1>4. TypeOK'
  BY <1>1, <1>3, TypesOfPasses DEF TypeOK
<1>5. Typed'
  <2>1. \A q \in Passes, t \in Tasks : SeenWas(q, t)'
    <3> TAKE q \in Passes, t \in Tasks
    <3>1. task[t].revision \in Nat /\ Untouched[t].revision = 0
      BY DEF Typed, Snapshots, Untouched
    <3>2. task[t].revision = 0 => task[t] = Untouched[t]
      BY DEF Typed
    <3> QED
      BY <1>1, <1>2, <3>1, <3>2 DEF SeenWas
  <2> QED
    BY <1>1, <1>3, <2>1 DEF Typed
<1>6. Commented' /\ PostsAStatus' /\ ReceiptsAreObservations'
  BY <1>1, <1>2 DEF Commented, PostsAStatus, ReceiptsAreObservations
<1>7. ObservedStays'
  BY <1>2 DEF ObservedStays
<1>8. OneCommenter'
  BY <1>1, <1>2 DEF OneCommenter, At
<1>9. CommentersLeft'
  BY <1>1, <1>2, FewerCommenters DEF At
<1> QED
  BY <1>4, <1>5, <1>6, <1>7, <1>8, <1>9

LEMMA MoveStep ==
  ASSUME IInv, NEW t \in Tasks, Move(t)
  PROVE  IInv'
<1> USE DEF IInv
<1>1. UNCHANGED <<task, comments, receipts, pass, overlapped, outrun, faults>>
      /\ edited' = edited \cup {t}
  BY DEF Move
<1>2. issue' \in [Tasks -> Published] /\ \A u \in Tasks \ {t} : issue'[u] = issue[u]
  BY JiraObserverAssumption DEF Move, TypeOK
<1>3. TypeOK' /\ Typed' /\ Commented'
  <2>1. TypeOK'
    BY <1>1, <1>2 DEF TypeOK
  <2>2. Typed'
    BY <1>1 DEF Typed, SeenWas
  <2>3. Commented'
    BY <1>1 DEF Commented, Hand, Seen
  <2> QED
    BY <2>1, <2>2, <2>3
<1>4. PostsAStatus' /\ OneCommenter'
  BY <1>1 DEF PostsAStatus, OneCommenter, Hand, Seen, Desired, At
<1>5. ObservedStays'
  BY <1>1, <1>2, InHand DEF ObservedStays, Hand, Seen
<1>6. ReceiptsAreObservations'
  BY <1>1, <1>2 DEF ReceiptsAreObservations
<1>7. CommentersLeft'
  BY <1>1, FewerCommenters
<1> QED
  BY <1>3, <1>4, <1>5, <1>6, <1>7

LEMMA WorkStep ==
  ASSUME IInv, NEW t \in Tasks, Work(t)
  PROVE  IInv'
<1> USE DEF IInv
<1>1. UNCHANGED <<issue, comments, receipts, pass, edited, overlapped, outrun, faults>>
  BY DEF Work
<1>2. PICK s \in Successors[task[t].status] :
        task' = [task EXCEPT ![t] = [revision |-> @.revision + 1, status |-> s]]
  BY DEF Work
<1>3. task \in Snapshots /\ task[t].revision \in Nat /\ task[t].status \in Statuses
  BY DEF Typed, Snapshots
<1>4. s \in Statuses
  BY <1>2, <1>3 DEF Successors, Statuses
<1>5. task'[t] = [revision |-> task[t].revision + 1, status |-> s]
      /\ \A u \in Tasks \ {t} : task'[u] = task[u]
  BY <1>2, <1>3 DEF Snapshots
<1>6. task' \in Snapshots
  BY <1>2, <1>3, <1>4 DEF Snapshots
<1>7. task'[t].revision = task[t].revision + 1 /\ task'[t].revision \in Revisions(t)
      /\ task'[t] \in [revision : Revisions(t), status : Statuses]
  BY <1>3, <1>4, <1>5, Listed DEF Work, Revisions
<1>8. TypeOK'
  <2>1. \A u \in Tasks :
          /\ task'[u] \in [revision : Revisions(u), status : Statuses]
          /\ \A r \in Revisions(u) : r > task'[u].revision => receipts[u][r] = "none"
    <3> TAKE u \in Tasks
    <3>1. CASE u = t
      BY <1>3, <1>7, <3>1 DEF TypeOK, Revisions
    <3>2. CASE u # t
      BY <1>5, <3>2 DEF TypeOK
    <3> QED
      BY <3>1, <3>2
  <2> QED
    BY <1>1, <2>1 DEF TypeOK
<1>9. Typed'
  <2>1. \A p \in Passes, u \in Tasks : SeenWas(p, u)'
    <3> TAKE p \in Passes, u \in Tasks
    <3>1. SeenWas(p, u) /\ pass[p].seen[u].revision \in Nat /\ task[u].revision \in Nat
      BY DEF Typed, PassRecords, Snapshots
    <3>2. CASE u = t
      BY <1>1, <1>7, <3>1, <3>2 DEF SeenWas
    <3>3. CASE u # t
      BY <1>1, <1>5, <3>1, <3>3 DEF SeenWas
    <3> QED
      BY <3>2, <3>3
  <2>2. \A u \in Tasks : task'[u].revision = 0 => task'[u] = Untouched[u]
    BY <1>3, <1>5, <1>7 DEF Typed
  <2> QED
    BY <1>1, <1>6, <2>1, <2>2 DEF Typed
<1>10. Commented' /\ PostsAStatus' /\ OneCommenter'
  BY <1>1 DEF Commented, PostsAStatus, OneCommenter, Hand, Seen, Desired, At
<1>11. ObservedStays'
  <2> SUFFICES ASSUME NEW p \in Passes, pass[p].pc = "saving", pass[p].outcome = "published",
                      Hand(p) \notin edited \cup outrun,
                      Seen(p).revision = task'[Hand(p)].revision
               PROVE  issue[Hand(p)] = JiraStatus[task'[Hand(p)].status]
    BY <1>1 DEF ObservedStays, Hand, Seen
  <2>1. Hand(p) # t
    BY <1>3, <1>7, InHand
  <2> QED
    BY <1>5, <2>1, InHand DEF ObservedStays
<1>12. ReceiptsAreObservations'
  <2> SUFFICES ASSUME NEW u \in Tasks, receipts[u][task'[u].revision] = "published",
                      u \notin edited \cup outrun
               PROVE  /\ issue[u] = JiraStatus[task'[u].status]
                      /\ comments[u][task'[u].revision] >= 1
    BY <1>1 DEF ReceiptsAreObservations
  <2>1. u # t
    BY <1>3, <1>7 DEF TypeOK
  <2> QED
    BY <1>5, <2>1 DEF ReceiptsAreObservations
<1>13. CommentersLeft'
  BY <1>1, FewerCommenters
<1> QED
  BY <1>8, <1>9, <1>10, <1>11, <1>12, <1>13

-----------------------------------------------------------------------------
(* The steps that change something in Jira, and the receipts.               *)

LEMMA AnsweredWalks ==
  ASSUME pass \in [Passes -> PassRecords], faults \in 0..FaultLimit,
         NEW p \in Passes, NEW pc \in Pcs, Answered(p, pc)
  PROVE  /\ Walks(p) /\ faults' \in 0..FaultLimit
         /\ (Keeps(p) /\ pass'[p].pc = pc) \/ pass'[p].pc = "idle"
<1>1. CASE Goto(p, pc) /\ faults' = faults
  BY <1>1, GotoWalks
<1>2. CASE Ends(p) /\ faults < FaultLimit /\ faults' = faults + 1
  BY <1>2, EndsWalks, JiraObserverAssumption
<1> QED
  BY <1>1, <1>2 DEF Answered

LEMMA SaveStep ==
  ASSUME IInv, NEW p \in Passes, Save(p)
  PROVE  IInv'
<1> USE DEF IInv
<1>1. UNCHANGED <<task, issue, comments, edited, overlapped, outrun, faults>> /\ At(p, "saving")
  BY DEF Save
<1>2. pass \in [Passes -> PassRecords]
  BY DEF Typed
<1>3. Walks(p) /\ Between(p)
  BY <1>2, AdvancedWalks DEF Save
<1>4. PICK t, r, o : t = Hand(p) /\ r = Seen(p).revision /\ o = pass[p].outcome
  OBVIOUS
<1>5. t \in Tasks /\ r \in Revisions(t) /\ o \in Outcomes /\ r <= task[t].revision /\ r \in Nat
  BY <1>4, InHand DEF PassRecords
<1>6. receipts' = [receipts EXCEPT ![t][r] = o]
  BY <1>4 DEF Save
<1>7. /\ receipts' = [u \in Tasks |-> receipts'[u]]
      /\ \A u \in Tasks : \A s \in Revisions(u) :
           receipts'[u][s] = IF u = t /\ s = r THEN o ELSE receipts[u][s]
      /\ \A u \in Tasks : receipts'[u] \in [Revisions(u) -> Outcomes]
  <2>1. receipts = [u \in Tasks |-> receipts[u]]
    BY DEF Typed
  <2>2. \A u \in Tasks : receipts[u] \in [Revisions(u) -> Outcomes]
    BY DEF TypeOK
  <2>3. receipts' = [u \in Tasks |-> IF u = t THEN [receipts[t] EXCEPT ![r] = o] ELSE receipts[u]]
    BY <1>5, <1>6, <2>1
  <2> QED
    BY <1>5, <2>2, <2>3
<1>8. \A u \in Tasks : task[u].revision \in Nat /\ task[u].revision \in Revisions(u)
  BY DEF Typed, Snapshots, TypeOK
<1>9. comments[t][r] >= 1
  BY <1>1, <1>4 DEF Commented, At
<1>10. TypeOK'
  <2>1. \A u \in Tasks : \A s \in Revisions(u) : s > task[u].revision => receipts'[u][s] = "none"
    BY <1>5, <1>7, <1>8 DEF TypeOK, Revisions
  <2>2. pass' \in [Passes -> PassRecords]
    BY <1>3 DEF Walks
  <2> QED
    BY <1>1, <1>7, <2>1, <2>2, TypesOfPasses DEF TypeOK
<1>11. Typed'
  <2>1. comments' = [u \in Tasks |-> comments'[u]]
    BY <1>1 DEF Typed
  <2> QED
    BY <1>1, <1>3, <1>7, <2>1, TypedWalks
<1>12. Commented'
  <2>1. \A q \in Passes : pass'[q].pc \in {"reading", "posting", "confirming", "saving"}
          => comments[Hand(q)'][Seen(q)'.revision] >= 1
    BY <1>3, Hands DEF Commented, Between
  <2>2. \A u \in Tasks : \A s \in Revisions(u) : receipts'[u][s] # "none" => comments[u][s] >= 1
    BY <1>7, <1>9 DEF Commented
  <2> QED
    BY <1>1, <2>1, <2>2 DEF Commented
<1>13. PostsAStatus'
  BY <1>3, Hands DEF PostsAStatus, Between
<1>14. ObservedStays'
  <2> SUFFICES ASSUME NEW q \in Passes, pass'[q].pc = "saving", pass'[q].outcome = "published",
                      Hand(q)' \notin edited \cup outrun,
                      Seen(q)'.revision = task[Hand(q)'].revision
               PROVE  issue[Hand(q)'] = JiraStatus[task[Hand(q)'].status]
    BY <1>1 DEF ObservedStays
  <2>1. q # p
    BY <1>3 DEF Between
  <2> QED
    BY <1>3, <2>1, Hands DEF ObservedStays
<1>15. ReceiptsAreObservations'
  <2> SUFFICES ASSUME NEW u \in Tasks, receipts'[u][task[u].revision] = "published",
                      u \notin edited \cup outrun
               PROVE  issue[u] = JiraStatus[task[u].status] /\ comments[u][task[u].revision] >= 1
    BY <1>1 DEF ReceiptsAreObservations
  <2>1. CASE u = t /\ task[u].revision = r
    <3>1. o = "published"
      BY <1>5, <1>7, <2>1
    <3> QED
      BY <1>1, <1>4, <1>9, <2>1, <3>1 DEF ObservedStays, At
  <2>2. CASE ~(u = t /\ task[u].revision = r)
    BY <1>7, <1>8, <2>2 DEF ReceiptsAreObservations
  <2> QED
    BY <2>1, <2>2
<1>16. OneCommenter'
  <2> SUFFICES ASSUME ~overlapped
               PROVE  /\ \A q, s \in Passes : ~At(q, "idle")' /\ ~At(s, "idle")' => q = s
                      /\ \A q \in Passes : At(q, "commenting")' => comments[Hand(q)'][Seen(q)'.revision] = 0
                      /\ \A u \in Tasks : \A s \in Revisions(u) : comments[u][s] <= 1
    BY <1>1 DEF OneCommenter
  <2>1. \A q \in Passes : ~At(q, "idle")' => ~At(q, "idle")
    BY <1>1, <1>3, Hands DEF At
  <2>2. \A q \in Passes : At(q, "commenting")' => comments[Hand(q)'][Seen(q)'.revision] = 0
    BY <1>3, Hands DEF At, OneCommenter, Between
  <2> QED
    BY <2>1, <2>2 DEF OneCommenter
<1>17. CommentersLeft'
  BY <1>1, <1>3, FewerCommenters, Hands DEF At, Between
<1> QED
  BY <1>10, <1>11, <1>12, <1>13, <1>14, <1>15, <1>16, <1>17

LEMMA PostStep ==
  ASSUME IInv, NEW p \in Passes, Post(p)
  PROVE  IInv'
<1> USE DEF IInv
<1>1. UNCHANGED <<task, comments, receipts, edited, overlapped>> /\ At(p, "posting")
  BY DEF Post
<1>2. pass \in [Passes -> PassRecords] /\ faults \in 0..FaultLimit /\ "confirming" \in Pcs
  BY DEF Typed, TypeOK, Pcs
<1>3. /\ Walks(p) /\ faults' \in 0..FaultLimit
      /\ (Keeps(p) /\ pass'[p].pc = "confirming") \/ pass'[p].pc = "idle"
  BY <1>2, AnsweredWalks DEF Post
<1>4. PICK t : t = Hand(p)
  OBVIOUS
<1>5. /\ t \in Tasks /\ Seen(p) \in [revision : Nat, status : Statuses]
      /\ Seen(p).revision <= task[t].revision /\ task[t].revision \in Nat
      /\ task[t].revision \in Revisions(t)
      /\ Seen(p).revision = task[t].revision => Seen(p) = task[t]
  BY <1>4, InHand DEF Typed, Snapshots, TypeOK
<1>6. Desired(p) \in Published
  <2>1. Desired(p) # "none" /\ Seen(p).status \in Statuses
    BY <1>1, <1>5 DEF PostsAStatus, At
  <2>2. PICK s \in Statuses : s = Seen(p).status
    BY <2>1
  <2>3. JiraStatus[s] \in Published \cup {"none"}
    <3>1. /\ JiraStatus["queued"] = "none" /\ JiraStatus["running"] = "In Progress"
          /\ JiraStatus["reviewing"] = "In Review" /\ JiraStatus["completed"] = "Done"
      BY DEF JiraStatus
    <3> QED
      BY <3>1 DEF Statuses, Published
  <2> QED
    BY <2>1, <2>2, <2>3 DEF Desired
<1>7. /\ issue' \in [Tasks -> Published] /\ issue'[t] = Desired(p)
      /\ \A u \in Tasks \ {t} : issue'[u] = issue[u]
  BY <1>4, <1>5, <1>6 DEF Post, TypeOK
<1>8. outrun \subseteq outrun' /\ outrun' \subseteq Tasks /\ (Outrun(p) => t \in outrun')
  BY <1>4, <1>5 DEF Post, TypeOK
<1>9. TypeOK'
  <2>1. pass' \in [Passes -> PassRecords]
    BY <1>3 DEF Walks
  <2> QED
    BY <1>1, <1>3, <1>7, <1>8, <2>1, TypesOfPasses DEF TypeOK
<1>10. Typed'
  <2>1. comments' = [u \in Tasks |-> comments'[u]] /\ receipts' = [u \in Tasks |-> receipts'[u]]
    BY <1>1 DEF Typed
  <2> QED
    BY <1>1, <1>3, <2>1, TypedWalks
<1>11. Commented'
  <2>1. \A q \in Passes : pass'[q].pc \in {"reading", "posting", "confirming", "saving"}
          => comments[Hand(q)'][Seen(q)'.revision] >= 1
    BY <1>1, <1>3, Hands DEF Commented, At
  <2>2. \A u \in Tasks : \A r \in Revisions(u) : receipts[u][r] # "none" => comments[u][r] >= 1
    BY DEF Commented
  <2> QED
    BY <1>1, <2>1, <2>2 DEF Commented
<1>12. PostsAStatus'
  BY <1>3, Hands DEF PostsAStatus
<1>13. ObservedStays'
  <2> SUFFICES ASSUME NEW q \in Passes, pass'[q].pc = "saving", pass'[q].outcome = "published",
                      Hand(q)' \notin edited \cup outrun',
                      Seen(q)'.revision = task[Hand(q)'].revision
               PROVE  issue'[Hand(q)'] = JiraStatus[task[Hand(q)'].status]
    BY <1>1 DEF ObservedStays
  <2>1. /\ q # p /\ pass'[q] = pass[q] /\ Hand(q)' = Hand(q) /\ Seen(q)' = Seen(q)
        /\ Hand(q) \in Tasks
    BY <1>3, Hands, InHand
  <2>2. CASE Hand(q) # t
    BY <1>7, <1>8, <2>1, <2>2 DEF ObservedStays
  <2>3. CASE Hand(q) = t
    <3>1. ~Outrun(p)
      BY <1>8, <2>1, <2>3
    <3>2. ~(Seen(p).revision < task[t].revision)
      BY <1>4, <2>1, <2>3, <3>1 DEF Outrun
    <3>3. Seen(p) = task[t]
      BY <1>5, <3>2
    <3> QED
      BY <1>7, <2>1, <2>3, <3>3 DEF Desired
  <2> QED
    BY <2>2, <2>3
<1>14. ReceiptsAreObservations'
  <2> SUFFICES ASSUME NEW u \in Tasks, receipts[u][task[u].revision] = "published",
                      u \notin edited \cup outrun'
               PROVE  issue'[u] = JiraStatus[task[u].status] /\ comments[u][task[u].revision] >= 1
    BY <1>1 DEF ReceiptsAreObservations
  <2>1. u \notin edited \cup outrun
    BY <1>8
  <2>2. issue[u] = JiraStatus[task[u].status] /\ comments[u][task[u].revision] >= 1
    BY <2>1 DEF ReceiptsAreObservations
  <2>3. CASE u # t
    BY <1>7, <2>2, <2>3
  <2>4. CASE u = t
    <3>1. ~Outrun(p)
      BY <1>8, <2>4
    <3>2. ~(Seen(p).revision < task[t].revision)
      BY <1>4, <1>5, <2>4, <3>1 DEF Outrun
    <3>3. Seen(p) = task[t]
      BY <1>5, <3>2
    <3> QED
      BY <1>7, <2>2, <2>4, <3>3 DEF Desired
  <2> QED
    BY <2>3, <2>4
<1>15. OneCommenter'
  <2> SUFFICES ASSUME ~overlapped
               PROVE  /\ \A q, s \in Passes : ~At(q, "idle")' /\ ~At(s, "idle")' => q = s
                      /\ \A q \in Passes : At(q, "commenting")' => comments[Hand(q)'][Seen(q)'.revision] = 0
                      /\ \A u \in Tasks : \A s \in Revisions(u) : comments[u][s] <= 1
    BY <1>1 DEF OneCommenter
  <2>1. \A q \in Passes : ~At(q, "idle")' => ~At(q, "idle")
    BY <1>1, <1>3, Hands DEF At
  <2>2. \A q \in Passes : At(q, "commenting")' => comments[Hand(q)'][Seen(q)'.revision] = 0
    BY <1>3, Hands DEF At, OneCommenter
  <2> QED
    BY <2>1, <2>2 DEF OneCommenter
<1>16. CommentersLeft'
  BY <1>1, <1>3, FewerCommenters, Hands DEF At
<1> QED
  BY <1>9, <1>10, <1>11, <1>12, <1>13, <1>14, <1>15, <1>16

LEMMA CommentStep ==
  ASSUME IInv, NEW p \in Passes, Comment(p)
  PROVE  IInv'
<1> USE DEF IInv
<1>1. UNCHANGED <<task, issue, receipts, edited, overlapped, outrun>> /\ At(p, "commenting")
  BY DEF Comment
<1>2. pass \in [Passes -> PassRecords] /\ faults \in 0..FaultLimit /\ "reading" \in Pcs
  BY DEF Typed, TypeOK, Pcs
<1>3. /\ Walks(p) /\ faults' \in 0..FaultLimit
      /\ (Keeps(p) /\ pass'[p].pc = "reading") \/ pass'[p].pc = "idle"
  BY <1>2, AnsweredWalks DEF Comment
<1>4. PICK t, r : t = Hand(p) /\ r = Seen(p).revision
  OBVIOUS
<1>5. t \in Tasks /\ r \in Revisions(t) /\ comments[t][r] \in Nat
  BY <1>4, InHand DEF TypeOK
<1>6. /\ comments' = [u \in Tasks |-> comments'[u]]
      /\ \A u \in Tasks : comments'[u] \in [Revisions(u) -> Nat]
      /\ \A u \in Tasks : \A s \in Revisions(u) :
           comments'[u][s] = IF u = t /\ s = r THEN comments[t][r] + 1 ELSE comments[u][s]
  <2>1. comments = [u \in Tasks |-> comments[u]]
    BY DEF Typed
  <2>2. \A u \in Tasks : comments[u] \in [Revisions(u) -> Nat]
    BY DEF TypeOK
  <2>3. PICK n : n = comments[t][r] + 1
    OBVIOUS
  <2>4. comments' = [comments EXCEPT ![t][r] = n]
    BY <1>4, <2>3 DEF Comment
  <2>5. comments' = [u \in Tasks |-> IF u = t THEN [comments[t] EXCEPT ![r] = n] ELSE comments[u]]
    BY <1>5, <2>1, <2>4
  <2>6. n \in Nat
    BY <1>5, <2>3
  <2> QED
    BY <1>5, <2>2, <2>3, <2>5, <2>6
<1>7. \A u \in Tasks : \A s \in Revisions(u) : comments[u][s] >= 1 => comments'[u][s] >= 1
  <2> TAKE u \in Tasks
  <2> TAKE s \in Revisions(u)
  <2>1. comments[u][s] \in Nat
    BY DEF TypeOK
  <2>2. CASE u = t /\ s = r
    BY <1>6, <2>1, <2>2
  <2>3. CASE ~(u = t /\ s = r)
    BY <1>6, <2>3
  <2> QED
    BY <2>2, <2>3
<1>8. \A q \in Passes : Hand(q) \in Tasks /\ Seen(q).revision \in Revisions(Hand(q))
  BY InHand
<1>9. TypeOK'
  <2>1. pass' \in [Passes -> PassRecords]
    BY <1>3 DEF Walks
  <2> QED
    BY <1>1, <1>3, <1>6, <2>1, TypesOfPasses DEF TypeOK
<1>10. Typed'
  <2>1. receipts' = [u \in Tasks |-> receipts'[u]]
    BY <1>1 DEF Typed
  <2> QED
    BY <1>1, <1>3, <1>6, <2>1, TypedWalks
<1>11. Commented'
  <2>1. \A q \in Passes : pass'[q].pc \in {"reading", "posting", "confirming", "saving"}
          => comments'[Hand(q)'][Seen(q)'.revision] >= 1
    <3> SUFFICES ASSUME NEW q \in Passes, pass'[q].pc \in {"reading", "posting", "confirming", "saving"}
                 PROVE  comments'[Hand(q)'][Seen(q)'.revision] >= 1
      OBVIOUS
    <3>1. CASE q = p
      <4>1. Hand(p)' = t /\ Seen(p)'.revision = r
        BY <1>3, <1>4, <3>1, Hands
      <4> QED
        BY <1>5, <1>6, <3>1, <4>1
    <3>2. CASE q # p
      <4>1. pass'[q] = pass[q] /\ Hand(q)' = Hand(q) /\ Seen(q)' = Seen(q)
        BY <1>3, <3>2, Hands
      <4> QED
        BY <1>7, <1>8, <4>1 DEF Commented
    <3> QED
      BY <3>1, <3>2
  <2>2. \A u \in Tasks : \A s \in Revisions(u) : receipts[u][s] # "none" => comments'[u][s] >= 1
    BY <1>7 DEF Commented
  <2> QED
    BY <1>1, <2>1, <2>2 DEF Commented
<1>12. PostsAStatus'
  BY <1>3, Hands DEF PostsAStatus
<1>13. ObservedStays'
  <2> SUFFICES ASSUME NEW q \in Passes, pass'[q].pc = "saving", pass'[q].outcome = "published",
                      Hand(q)' \notin edited \cup outrun,
                      Seen(q)'.revision = task[Hand(q)'].revision
               PROVE  issue[Hand(q)'] = JiraStatus[task[Hand(q)'].status]
    BY <1>1 DEF ObservedStays
  <2> QED
    BY <1>3, Hands DEF ObservedStays
<1>14. ReceiptsAreObservations'
  BY <1>1, <1>7 DEF ReceiptsAreObservations, TypeOK
<1>15. OneCommenter'
  <2> SUFFICES ASSUME ~overlapped
               PROVE  /\ \A q, s \in Passes : ~At(q, "idle")' /\ ~At(s, "idle")' => q = s
                      /\ \A q \in Passes : At(q, "commenting")' => comments'[Hand(q)'][Seen(q)'.revision] = 0
                      /\ \A u \in Tasks : \A s \in Revisions(u) : comments'[u][s] <= 1
    BY <1>1 DEF OneCommenter
  <2>1. \A q \in Passes : ~At(q, "idle")' => ~At(q, "idle")
    BY <1>1, <1>3, Hands DEF At
  <2>2. \A q \in Passes : ~At(q, "commenting")'
    <3>1. \A q \in Passes : q # p => At(q, "idle")
      BY <1>1 DEF OneCommenter, At
    <3> QED
      BY <1>3, <3>1, Hands DEF At
  <2>3. \A u \in Tasks : \A s \in Revisions(u) : comments'[u][s] <= 1
    <3>1. comments[t][r] = 0
      BY <1>1, <1>4 DEF OneCommenter
    <3> QED
      BY <1>6, <3>1 DEF OneCommenter
  <2> QED
    BY <2>1, <2>2, <2>3 DEF OneCommenter
<1>16. CommentersLeft'
  <2> SUFFICES ASSUME NEW u \in Tasks, NEW s \in Revisions(u)
               PROVE  comments'[u][s] + Cardinality(Commenters(u, s)') <= Cardinality(Passes)
    BY DEF CommentersLeft
  <2>1. IsFiniteSet(Passes) /\ comments[u][s] \in Nat
    BY JiraObserverAssumption DEF TypeOK
  <2>2. p \notin Commenters(u, s)'
    BY <1>3 DEF Commenters, At
  <2>3. Commenters(u, s) \subseteq Passes /\ Commenters(u, s)' \subseteq Commenters(u, s) \ {p}
    BY <1>3, <2>2, Hands DEF Commenters, At
  <2>4. IsFiniteSet(Commenters(u, s)) /\ IsFiniteSet(Commenters(u, s) \ {p})
    BY <2>1, <2>3, FS_Subset, FS_RemoveElement
  <2>5. /\ Cardinality(Commenters(u, s)') <= Cardinality(Commenters(u, s) \ {p})
        /\ Cardinality(Commenters(u, s)') \in Nat /\ Cardinality(Commenters(u, s)) \in Nat
        /\ Cardinality(Passes) \in Nat
    BY <2>1, <2>3, <2>4, FS_Subset, FS_CardinalityType
  <2>6. Cardinality(Commenters(u, s) \ {p})
          = IF p \in Commenters(u, s) THEN Cardinality(Commenters(u, s)) - 1
            ELSE Cardinality(Commenters(u, s))
    BY <2>4, FS_RemoveElement
  <2>7. comments[u][s] + Cardinality(Commenters(u, s)) <= Cardinality(Passes)
    BY DEF CommentersLeft
  <2>8. u = t /\ s = r => p \in Commenters(u, s)
    BY <1>1, <1>4 DEF Commenters
  <2>9. comments'[u][s] = IF u = t /\ s = r THEN comments[u][s] + 1 ELSE comments[u][s]
    BY <1>6
  <2> QED
    BY <2>1, <2>5, <2>6, <2>7, <2>8, <2>9
<1> QED
  BY <1>9, <1>10, <1>11, <1>12, <1>13, <1>14, <1>15, <1>16

-----------------------------------------------------------------------------
(* The theorems.                                                            *)

LEMMA Inductive == Spec => []IInv
<1>1. Init => IInv
  <2> SUFFICES ASSUME Init PROVE IInv
    OBVIOUS
  <2>1. \A t \in Tasks : /\ task[t] = Untouched[t] /\ task[t].revision = 0
                         /\ task[t] \in [revision : Revisions(t), status : Statuses]
                         /\ task[t].revision \in Revisions(t)
    <3> TAKE t \in Tasks
    <3>2. task[t] = [revision |-> 0, status |-> "queued"] /\ Untouched[t] = task[t]
      BY DEF Init, Untouched
    <3>3. 0 \in Revisions(t) /\ "queued" \in Statuses
      BY Listed DEF Revisions, Statuses
    <3> QED
      BY <3>2, <3>3
  <2>2. \A t \in Tasks : /\ comments[t] \in [Revisions(t) -> Nat]
                         /\ receipts[t] \in [Revisions(t) -> Outcomes]
    BY DEF Init, Outcomes
  <2>3. \A t \in Tasks : \A r \in Revisions(t) : comments[t][r] = 0 /\ receipts[t][r] = "none"
    BY DEF Init
  <2>4. \A p \in Passes : pass[p] = Idle /\ pass[p].pc = "idle" /\ pass[p].seen = Untouched
    BY DEF Init, Idle
  <2>5. pass \in [Passes -> PassRecords] /\ task \in Snapshots
    BY IdleTyped DEF Init
  <2>6. TypeOK
    <3>1. \A t \in Tasks : \A r \in Revisions(t) : r > task[t].revision => receipts[t][r] = "none"
      BY <2>3
    <3>2. \A p \in Passes : pass[p].pc \in Pcs /\ pass[p].at \in 1..Len(Order)
      BY <2>5 DEF PassRecords
    <3>3. issue \in [Tasks -> Published]
      BY DEF Init, Published
    <3>4. edited \subseteq Tasks /\ overlapped \in BOOLEAN /\ outrun \subseteq Tasks
          /\ faults \in 0..FaultLimit
      <4>1. overlapped \in BOOLEAN
        BY Zenon DEF Init
      <4>2. edited \subseteq Tasks /\ outrun \subseteq Tasks
        BY DEF Init
      <4>3. faults = 0 /\ FaultLimit \in Nat
        BY JiraObserverAssumption, Zenon DEF Init
      <4>4. faults \in 0..FaultLimit
        BY <4>3
      <4> QED
        BY <4>1, <4>2, <4>4
    <3> QED
      BY <2>1, <2>2, <3>1, <3>2, <3>3, <3>4 DEF TypeOK
  <2>7. Typed
    <3>1. \A p \in Passes, t \in Tasks : SeenWas(p, t)
      <4> TAKE p \in Passes, t \in Tasks
      <4>1. pass[p].seen[t] = task[t] /\ task[t].revision = 0
        BY <2>1, <2>4
      <4> QED
        BY <4>1 DEF SeenWas
    <3>2. comments = [t \in Tasks |-> comments[t]] /\ receipts = [t \in Tasks |-> receipts[t]]
      BY DEF Init
    <3> QED
      BY <2>1, <2>5, <3>1, <3>2 DEF Typed
  <2>8. Commented /\ PostsAStatus /\ ObservedStays /\ ReceiptsAreObservations
    <3>1. ReceiptsAreObservations
      BY <2>1, <2>3 DEF ReceiptsAreObservations
    <3>2. Commented
      BY <2>3, <2>4 DEF Commented
    <3>3. PostsAStatus /\ ObservedStays
      BY <2>4 DEF PostsAStatus, ObservedStays
    <3> QED
      BY <3>1, <3>2, <3>3
  <2>9. OneCommenter
    BY <2>3, <2>4 DEF OneCommenter, At
  <2>10. CommentersLeft
    <3> SUFFICES ASSUME NEW t \in Tasks, NEW r \in Revisions(t)
                 PROVE  comments[t][r] + Cardinality(Commenters(t, r)) <= Cardinality(Passes)
      BY DEF CommentersLeft
    <3>1. Commenters(t, r) = {}
      BY <2>4 DEF Commenters, At
    <3>2. Cardinality(Commenters(t, r)) = 0 /\ Cardinality(Passes) \in Nat
      BY <3>1, FS_EmptySet, FS_CardinalityType, JiraObserverAssumption
    <3> QED
      BY <2>3, <3>2
  <2> QED
    BY <2>6, <2>7, <2>8, <2>9, <2>10 DEF IInv
<1>2. IInv /\ [Next]_vars => IInv'
  <2> SUFFICES ASSUME IInv, [Next]_vars PROVE IInv'
    OBVIOUS
  <2>1. CASE \E p \in Passes : Begin(p) \/ Proceed(p) \/ Refused(p)
    BY <2>1, BeginStep, LoadStep, LookStep, CommentStep, ReadStep, PostStep, ConfirmStep, SaveStep,
       RefusedStep DEF Proceed
  <2>2. CASE \E t \in Tasks : Work(t) \/ Move(t)
    BY <2>2, WorkStep, MoveStep
  <2>3. CASE Restart
    BY <2>3, RestartStep
  <2>4. CASE UNCHANGED vars
    <3>1. TypeOK' /\ Typed' /\ Commented' /\ PostsAStatus'
      BY <2>4 DEF IInv, vars, TypeOK, Typed, SeenWas, Commented, PostsAStatus, Hand, Seen, Desired
    <3>2. ObservedStays' /\ ReceiptsAreObservations' /\ OneCommenter'
      BY <2>4 DEF IInv, vars, ObservedStays, ReceiptsAreObservations, OneCommenter, Hand, Seen, At
    <3>3. CommentersLeft'
      BY <2>4, FewerCommenters DEF IInv, vars
    <3> QED
      BY <3>1, <3>2, <3>3 DEF IInv
  <2> QED
    BY <2>1, <2>2, <2>3, <2>4 DEF Next
<1> QED
  BY <1>1, <1>2, PTL DEF Spec

\* Every variable keeps its type, and no revision the task has not come to has
\* a receipt (execution-jira-observer's receipts are keyed by task and revision).
THEOREM ObserverTypeCorrect == Spec => []TypeOK
<1>1. IInv => TypeOK
  BY DEF IInv
<1> QED
  BY <1>1, Inductive, PTL

\* However passes end between a request and its receipt, and however often the
\* process restarts, a revision gets one comment; with any number of passes at
\* once it gets at most one from each.
THEOREM CommentsOnce == Spec => []CommentsAreWrittenOnce
<1>1. IInv => CommentsAreWrittenOnce
  <2> SUFFICES ASSUME IInv, NEW t \in Tasks, NEW r \in Revisions(t)
               PROVE  comments[t][r] <= IF overlapped THEN Cardinality(Passes) ELSE 1
    BY DEF CommentsAreWrittenOnce
  <2>1. IsFiniteSet(Commenters(t, r)) /\ IsFiniteSet(Passes)
    <3>1. Commenters(t, r) \subseteq Passes
      BY DEF Commenters
    <3> QED
      BY <3>1, FS_Subset, JiraObserverAssumption
  <2>2. Cardinality(Commenters(t, r)) \in Nat /\ Cardinality(Passes) \in Nat
    BY <2>1, FS_CardinalityType
  <2>3. comments[t][r] \in Nat
    BY DEF IInv, TypeOK
  <2>4. comments[t][r] <= Cardinality(Passes)
    BY <2>2, <2>3 DEF IInv, CommentersLeft
  <2>5. ~overlapped => comments[t][r] <= 1
    BY DEF IInv, OneCommenter
  <2> QED
    BY <2>4, <2>5
<1> QED
  BY <1>1, Inductive, PTL

\* What is recorded as published of a task's latest revision is in Jira: its
\* comment, and its status, unless people or an outrun pass moved the issue.
THEOREM ReceiptsObserve == Spec => []ReceiptsAreObservations
<1>1. IInv => ReceiptsAreObservations
  BY DEF IInv
<1> QED
  BY <1>1, Inductive, PTL
=============================================================================
