-------------------------- MODULE JiraDelivery_proofs --------------------------
(* Synchronization with Jira for any plan, any callers and any number of     *)
(* faults: types, issues created once, and receipts that are completed only  *)
(* with everything they stand for.                                           *)
EXTENDS JiraDelivery, WellFoundedInduction, TLAPS

-----------------------------------------------------------------------------
(* Positions, items and relations.                                           *)

LEMMA LeastIsThere ==
  ASSUME NEW S \in SUBSET Nat, S # {}
  PROVE  Min(S) \in S /\ \A y \in S : Min(S) <= y
<1>1. PICK x \in S : \A y \in S : ~ (<<y, x>> \in OpToRel(<, Nat))
  BY NatLessThanWellFounded, WFMin, Zenon
<1>2. \A y \in S : ~ (y < x)
  BY <1>1, Zenon DEF OpToRel
<1>3. \A y \in S : x <= y
  BY <1>2
<1> QED BY <1>3 DEF Min

LEMMA PlanTypes ==
  /\ DOMAIN Order = 1..Len(Order) /\ Len(Order) \in Nat /\ 1 \in DOMAIN Order
  /\ \A k \in DOMAIN Order : Order[k] \in Items
  /\ DOMAIN Order \subseteq Nat /\ Epic \in Items
  /\ Items = {Order[k] : k \in DOMAIN Order}
  /\ DOMAIN Relations \subseteq Nat
  /\ Range(Relations) = {Relations[k] : k \in DOMAIN Relations}
  /\ Range(Relations) \subseteq Items \X Items
  /\ \A i \in Items : Parent[i] \in Items
<1>1. DOMAIN Order = 1..Len(Order) /\ Len(Order) \in Nat /\ 1 \in DOMAIN Order
  BY JiraDeliveryAssumption
<1>2. Items = {Order[k] : k \in DOMAIN Order}
  BY DEF Items, Range
<1>3. Relations \in Seq(Items \X Items)
  BY JiraDeliveryAssumption
<1>4. Range(Relations) = {Relations[k] : k \in DOMAIN Relations}
  BY DEF Range
<1>5. DOMAIN Relations = 1..Len(Relations) /\ Len(Relations) \in Nat
      /\ \A k \in DOMAIN Relations : Relations[k] \in Items \X Items
  BY <1>3
<1>6. Range(Relations) \subseteq Items \X Items
  BY <1>4, <1>5
<1>7. \A i \in Items : Parent[i] \in Items
  BY JiraDeliveryAssumption
<1>8. DOMAIN Order \subseteq Nat /\ DOMAIN Relations \subseteq Nat
  BY <1>1, <1>5
<1>9. Epic \in Items
  BY <1>1, <1>2 DEF Epic
<1> QED BY <1>1, <1>2, <1>4, <1>6, <1>7, <1>8, <1>9

LEMMA LimitTypes ==
  /\ IssueLimit \in Nat /\ FaultLimit \in Nat /\ 0 \in 0..IssueLimit /\ 0 \in 0..FaultLimit
  /\ 1 \in 0..IssueLimit /\ 1 \in Ids
<1>1. IssueLimit \in Nat \ {0} /\ FaultLimit \in Nat
  BY JiraDeliveryAssumption
<1> QED BY <1>1 DEF Ids

\* The item at hand of a receipt that has one: it has no issue, and its parent
\* has one or is the item itself.
ItemOf(r) == Order[Min(Missing(r))]
RelationOf(r) == Relations[Min(Unmade(r))]

LEMMA ItemAtHand ==
  ASSUME NEW r \in Receipts, Missing(r) # {}
  PROVE  /\ ItemOf(r) \in Items /\ r.issues[ItemOf(r)] = 0
         /\ Parent[ItemOf(r)] = ItemOf(r) \/ r.issues[Parent[ItemOf(r)]] # 0
<1> DEFINE k == Min(Missing(r))
<1>1. k \in DOMAIN Order /\ r.issues[Order[k]] = 0 /\ \A m \in Missing(r) : k <= m
  BY PlanTypes, LeastIsThere DEF Missing
<1>2. PICK j \in 1..k : Order[j] = Parent[Order[k]]
  BY <1>1, JiraDeliveryAssumption
<1>3. k \in Nat /\ j \in DOMAIN Order
  BY <1>1, <1>2, JiraDeliveryAssumption
<1>4. CASE j = k
  BY <1>1, <1>2, <1>4, PlanTypes DEF ItemOf
<1>5. CASE j # k
  <2>1. j \notin Missing(r)
    BY <1>1, <1>2, <1>3, <1>5
  <2>2. r.issues[Order[j]] # 0
    BY <1>3, <2>1 DEF Missing
  <2> QED BY <1>1, <1>2, <2>2, PlanTypes DEF ItemOf
<1> QED BY <1>4, <1>5

LEMMA NothingMissing ==
  ASSUME NEW r \in Receipts
  PROVE  Missing(r) = {} <=> \A i \in Items : r.issues[i] # 0
BY PlanTypes DEF Missing

LEMMA RelationAtHand ==
  ASSUME NEW r \in Receipts, Unmade(r) # {}
  PROVE  /\ RelationOf(r) \in Range(Relations) /\ RelationOf(r) \in Items \X Items
         /\ RelationOf(r) \notin r.links
<1>1. Min(Unmade(r)) \in Unmade(r)
  BY PlanTypes, LeastIsThere DEF Unmade
<1> QED BY <1>1, PlanTypes DEF Unmade, RelationOf

LEMMA NothingUnmade ==
  ASSUME NEW r \in Receipts
  PROVE  Unmade(r) = {} <=> \A l \in Range(Relations) : l \in r.links
BY PlanTypes DEF Unmade

-----------------------------------------------------------------------------
(* The invariant. A receipt, or a call's copy of one, fits Jira: its issues  *)
(* are there, no item has one before its parent, and its links are between   *)
(* the issues it names. What a call is about to do is what its copy lacks,   *)
(* and it completes only the receipt whose epic delivery was activated with. *)

Fits(r) ==
  /\ \A i \in Items : r.issues[i] <= created[i]
  /\ \A i \in Items : r.issues[i] # 0 => r.issues[Parent[i]] # 0
  /\ \A l \in r.links :
       /\ r.issues[l[1]] # 0 /\ r.issues[l[2]] # 0
       /\ <<l, r.issues[l[1]], r.issues[l[2]]>> \in linked

Works(d) ==
  /\ Fits(d.copy) /\ d.copy.state # "completed"
  /\ d.pc \in {"creating", "saving"} => Missing(d.copy) # {}
  /\ d.pc = "saving" => d.found \in Ids /\ d.found <= created[ItemOf(d.copy)]
  /\ d.pc \in {"relating", "recording", "completing"} => Missing(d.copy) = {}
  /\ d.pc = "recording" =>
       LET l == RelationOf(d.copy)
       IN Unmade(d.copy) # {} /\ <<l, d.copy.issues[l[1]], d.copy.issues[l[2]]>> \in linked
  /\ d.pc = "completing" => Unmade(d.copy) = {} /\ activated = d.copy.issues[Epic]

Whole ==
  receipt.state = "completed" =>
    Missing(receipt) = {} /\ Unmade(receipt) = {} /\ receipt.issues[Epic] = activated

\* While calls do not overlap: one of them at most is at work, each item has one
\* issue at most, under the only issue of its parent, and an issue is created
\* only while there is none.
Single ==
  /\ \A c, d \in Callers : caller[c].pc # "idle" /\ caller[d].pc # "idle" => c = d
  /\ \A i \in Items : created[i] <= 1
  /\ \A i \in Items : created[i] = 1 /\ Parent[i] # i => parentOf[i][1] = 1
  /\ \A c \in Callers : caller[c].pc = "creating" => created[ItemOf(caller[c].copy)] = 0

Sound ==
  /\ TypeOK /\ Fits(receipt) /\ (\A c \in Callers : Works(caller[c]))
  /\ Whole /\ (~overlapped => Single)

LEMMA NoReceiptType ==
  /\ NoReceipt \in Receipts /\ NoReceipt.state = "none" /\ NoReceipt.links = {}
  /\ \A i \in Items : NoReceipt.issues[i] = 0
BY JiraDeliveryAssumption DEF NoReceipt, Receipts

LEMMA IdleType == Idle \in Calls /\ Idle.pc = "idle" /\ Idle.copy = NoReceipt
BY NoReceiptType, JiraDeliveryAssumption DEF Idle, Calls, Pcs

LEMMA CreatedType ==
  ASSUME TypeOK, NEW i \in Items
  PROVE  created[i] \in 0..IssueLimit /\ created[i] \in Nat /\ 0 <= created[i]
BY JiraDeliveryAssumption DEF TypeOK

LEMMA CreatedTypeNext ==
  ASSUME TypeOK', NEW i \in Items
  PROVE  created'[i] \in 0..IssueLimit /\ created'[i] \in Nat
BY JiraDeliveryAssumption DEF TypeOK

LEMMA CopyType ==
  ASSUME TypeOK, NEW c \in Callers
  PROVE  /\ caller[c] \in Calls /\ caller[c].copy \in Receipts /\ caller[c].pc \in Pcs
         /\ caller[c].found \in 0..IssueLimit
BY DEF TypeOK, Calls

LEMMA IssueType ==
  ASSUME NEW r \in Receipts, NEW i \in Items
  PROVE  r.issues[i] \in 0..IssueLimit /\ r.issues[i] \in Nat /\ (r.issues[i] # 0 => r.issues[i] \in Ids)
BY JiraDeliveryAssumption DEF Receipts, Ids

LEMMA EmptyFits == TypeOK => Fits(NoReceipt)
BY NoReceiptType, CreatedType, PlanTypes DEF Fits

LEMMA IdleWorks == TypeOK => Works(Idle)
BY IdleType, NoReceiptType, EmptyFits DEF Works

\* Jira only gains issues and links, so what fitted it goes on to.
LEMMA FitsLater ==
  ASSUME TypeOK, TypeOK', NEW r \in Receipts, Fits(r),
         \A i \in Items : created[i] <= created'[i], linked \subseteq linked'
  PROVE  Fits(r)'
<1>1. ASSUME NEW i \in Items PROVE r.issues[i] <= created'[i]
  <2>1. r.issues[i] \in Nat /\ created[i] \in Nat /\ created'[i] \in Nat
    BY IssueType, CreatedType, CreatedTypeNext
  <2> QED BY <2>1 DEF Fits
<1> QED BY <1>1 DEF Fits

LEMMA WorksLater ==
  ASSUME TypeOK, TypeOK', NEW d \in Calls, Works(d),
         \A i \in Items : created[i] <= created'[i], linked \subseteq linked',
         activated # 0 => activated' = activated
  PROVE  Works(d)'
<1>1. d.copy \in Receipts /\ Fits(d.copy)'
  BY FitsLater DEF Works, Calls
<1>2. ASSUME d.pc = "saving" PROVE d.found <= created'[ItemOf(d.copy)]
  <2>1. ItemOf(d.copy) \in Items /\ d.found \in Ids /\ d.found <= created[ItemOf(d.copy)]
    BY <1>1, <1>2, ItemAtHand DEF Works
  <2>2. /\ d.found \in Nat /\ created[ItemOf(d.copy)] \in Nat /\ created'[ItemOf(d.copy)] \in Nat
        /\ created[ItemOf(d.copy)] <= created'[ItemOf(d.copy)]
    BY <2>1, CreatedType, CreatedTypeNext DEF Ids
  <2> QED BY <2>1, <2>2
<1>3. ASSUME d.pc = "completing" PROVE activated' = activated
  BY <1>1, <1>3, NothingMissing, PlanTypes DEF Works
<1> QED BY <1>1, <1>2, <1>3 DEF Works

-----------------------------------------------------------------------------
(* What the kinds of steps keep.                                             *)

LEMMA SoundTypes == Sound => TypeOK
BY DEF Sound

\* The other calls of a step of c.
LEMMA OthersWork ==
  ASSUME Sound, TypeOK', NEW c \in Callers, NEW n, caller' = [caller EXCEPT ![c] = n],
         \A i \in Items : created[i] <= created'[i], linked \subseteq linked',
         activated # 0 => activated' = activated,
         Works(n)'
  PROVE  \A d \in Callers : Works(caller[d])'
<1>1. ASSUME NEW d \in Callers, d # c PROVE Works(caller[d])'
  <2>1. caller'[d] = caller[d] /\ caller[d] \in Calls /\ Works(caller[d])
    BY <1>1, CopyType DEF Sound, TypeOK
  <2>2. (\A e \in Calls : Works(e) => Works(e)')
    BY WorksLater DEF Sound
  <2> QED BY <2>1, <2>2 DEF Works, Fits
<1>2. caller'[c] = n
  BY DEF Sound, TypeOK
<1> QED BY <1>1, <1>2 DEF Works, Fits

\* Steps that leave Jira and what is activated as they are.
LEMMA CreatedStays ==
  ASSUME TypeOK, created' = created
  PROVE  \A i \in Items : created[i] <= created'[i]
BY CreatedType

\* A step of c alone that creates nothing.
LEMMA SingleKept ==
  ASSUME Sound, NEW c \in Callers, NEW n, caller' = [caller EXCEPT ![c] = n],
         caller[c].pc # "idle", UNCHANGED <<created, parentOf, overlapped>>,
         n.pc = "creating" => created[ItemOf(n.copy)] = 0
  PROVE  (~overlapped => Single)'
<1> SUFFICES ASSUME ~overlapped PROVE Single'
  OBVIOUS
<1>1. Single /\ (\A d \in Callers : d # c => caller'[d] = caller[d]) /\ caller'[c] = n
  BY DEF Sound, TypeOK
<1>2. ASSUME NEW d \in Callers, d # c PROVE caller'[d].pc = "idle"
  BY <1>1, <1>2 DEF Single
<1>3. ASSUME NEW d \in Callers, caller'[d].pc = "creating"
      PROVE  created[ItemOf(caller'[d].copy)] = 0
  BY <1>1, <1>2, <1>3
<1>4. \A a, b \in Callers : caller'[a].pc # "idle" /\ caller'[b].pc # "idle" => a = b
  BY <1>2
<1> QED BY <1>1, <1>3, <1>4 DEF Single

LEMMA CallReplaced ==
  ASSUME TypeOK, NEW c \in Callers, NEW n \in Calls, caller' = [caller EXCEPT ![c] = n]
  PROVE  caller' \in [Callers -> Calls]
BY DEF TypeOK

\* A step of c that changes nothing but its call.
LEMMA CallMoves ==
  ASSUME Sound, NEW c \in Callers, NEW n \in Calls, caller' = [caller EXCEPT ![c] = n],
         caller[c].pc # "idle", Works(n), faults' \in 0..FaultLimit,
         UNCHANGED <<jira, edited, receipt, activated, overlapped>>,
         n.pc = "creating" => created[ItemOf(n.copy)] = 0
  PROVE  Sound'
<1>1. TypeOK'
  BY CallReplaced DEF Sound, TypeOK, jira
<1>2. Works(n)'
  BY DEF Works, Fits, jira
<1>3. \A d \in Callers : Works(caller[d])'
  BY <1>1, <1>2, CreatedStays, OthersWork, SoundTypes DEF jira
<1>4. (~overlapped => Single)'
  BY SingleKept DEF jira
<1> QED BY <1>1, <1>3, <1>4 DEF Sound, Fits, Whole, jira

LEMMA CallEnds ==
  ASSUME Sound, NEW c \in Callers, Ends(c), caller[c].pc # "idle", faults' \in 0..FaultLimit,
         UNCHANGED <<jira, edited, receipt, activated, overlapped>>
  PROVE  Sound'
BY CallMoves, IdleType, IdleWorks, SoundTypes DEF Ends

\* #save: a receipt of the call's own that fits, which stays in its copy.
LEMMA SaveKeepsSound ==
  ASSUME Sound, NEW c \in Callers, NEW next \in Receipts, NEW pc \in Pcs \ {"creating", "saving"},
         Save(c, next, pc), caller[c].pc # "idle", Fits(next), 
         next.state = "completed" => pc = "idle" /\ Missing(next) = {} /\ Unmade(next) = {}
                                       /\ next.issues[Epic] = activated,
         pc = "relating" => Missing(next) = {},
         pc \notin {"recording", "completing"}
  PROVE  Sound'
<1> DEFINE n == IF pc = "idle" THEN Idle ELSE [pc |-> pc, copy |-> next, found |-> 0]
<1>1. n \in Calls /\ (n = Idle \/ (n.pc = pc /\ n.copy = next /\ pc # "idle"))
  <2>1. CASE pc = "idle"
    <3>1. n = Idle
      BY <2>1
    <3> QED BY <3>1, IdleType
  <2>2. CASE pc # "idle"
    <3>1. 0 \in 0..IssueLimit
      BY JiraDeliveryAssumption
    <3> QED BY <2>2, <3>1 DEF Calls
  <2> QED BY <2>1, <2>2
<1>2. caller' = [caller EXCEPT ![c] = n] /\ receipt' = next
      /\ UNCHANGED <<jira, edited, activated, overlapped, faults>>
  BY DEF Save
<1>3. n.pc \notin {"creating", "saving", "recording", "completing"}
  BY <1>1, IdleType
<1> HIDE DEF n
<1>4. Works(n)
  BY <1>1, <1>3, IdleWorks, SoundTypes DEF Works
<1>5. TypeOK'
  <2>1. \A i \in Items : next.issues[i] <= created[i]
    BY DEF Fits
  <2>2. caller' \in [Callers -> Calls]
    BY <1>1, <1>2, CallReplaced, SoundTypes
  <2> QED BY <1>2, <2>1, <2>2 DEF Sound, TypeOK, jira
<1>6. Works(n)'
  BY <1>2, <1>4 DEF Works, Fits, jira
<1>7. \A d \in Callers : Works(caller[d])'
  BY <1>2, <1>5, <1>6, CreatedStays, OthersWork, SoundTypes DEF jira
<1>8. (~overlapped => Single)'
  BY <1>2, <1>3, SingleKept DEF jira
<1>9. Fits(receipt)' /\ Whole'
  BY <1>2 DEF Fits, Whole, jira
<1> QED BY <1>5, <1>7, <1>8, <1>9 DEF Sound

-----------------------------------------------------------------------------
(* One step.                                                                *)

LEMMA InitSound == Init => Sound
<1> SUFFICES ASSUME Init PROVE Sound
  OBVIOUS
<1>1. TypeOK
  <2>1. created \in [Items -> 0..IssueLimit] /\ parentOf \in [Items -> [Ids -> 0..IssueLimit]]
    BY JiraDeliveryAssumption DEF Init
  <2>2. caller \in [Callers -> Calls] /\ receipt \in Receipts
    BY IdleType, NoReceiptType DEF Init
  <2>3. \A i \in Items : receipt.issues[i] <= created[i]
    BY NoReceiptType DEF Init
  <2>4. activated \in 0..IssueLimit /\ faults \in 0..FaultLimit /\ overlapped \in BOOLEAN
    BY LimitTypes DEF Init
  <2>5. edited \subseteq Items /\ linked \subseteq Range(Relations) \X Ids \X Ids
    BY DEF Init
  <2> QED BY <2>1, <2>2, <2>3, <2>4, <2>5 DEF TypeOK
<1>2. Fits(receipt) /\ \A c \in Callers : Works(caller[c])
  BY <1>1, EmptyFits, IdleWorks DEF Init
<1>3. Whole
  BY NoReceiptType DEF Init, Whole
<1>4. Single
  BY IdleType DEF Init, Single
<1> QED BY <1>1, <1>2, <1>3, <1>4 DEF Sound

LEMMA BeginKeepsSound ==
  ASSUME Sound, NEW c \in Callers, Begin(c)
  PROVE  Sound'
<1>1. PICK n \in Calls : /\ caller' = [caller EXCEPT ![c] = n]
                         /\ n.pc \in {"opening", "issuing"}
                         /\ n.copy = NoReceipt \/ n.copy = receipt
  <2>1. [Idle EXCEPT !.pc = "opening"] \in Calls /\ [Idle EXCEPT !.pc = "opening"].pc = "opening"
        /\ [Idle EXCEPT !.pc = "opening"].copy = NoReceipt
    BY IdleType DEF Calls, Pcs
  <2>2. receipt \in Receipts
    BY DEF Sound, TypeOK
  <2>3. /\ [Idle EXCEPT !.pc = "issuing", !.copy = receipt] \in Calls
        /\ [Idle EXCEPT !.pc = "issuing", !.copy = receipt].pc = "issuing"
        /\ [Idle EXCEPT !.pc = "issuing", !.copy = receipt].copy = receipt
    BY <2>2, IdleType DEF Calls, Pcs
  <2> QED BY <2>1, <2>3 DEF Begin
<1>2. /\ receipt.state # "completed" /\ caller[c].pc = "idle"
      /\ overlapped' = (overlapped \/ \E d \in Callers \ {c} : caller[d].pc # "idle")
      /\ UNCHANGED <<jira, edited, receipt, activated, faults>>
  BY DEF Begin, At
<1>3. Works(n)
  BY <1>1, <1>2, EmptyFits, NoReceiptType, SoundTypes DEF Works, Sound
<1>4. TypeOK'
  BY <1>1, <1>2, CallReplaced DEF Sound, TypeOK, jira
<1>5. \A d \in Callers : Works(caller[d])'
  <2>1. Works(n)'
    BY <1>2, <1>3 DEF Works, Fits, jira
  <2> QED BY <1>1, <1>2, <1>4, <2>1, CreatedStays, OthersWork, SoundTypes DEF jira
<1>6. ASSUME ~overlapped' PROVE Single'
  <2>1. ~overlapped /\ \A d \in Callers \ {c} : caller[d].pc = "idle"
    BY <1>2, <1>6
  <2>2. \A d \in Callers \ {c} : caller'[d].pc = "idle"
    BY <1>1, <2>1 DEF Sound, TypeOK
  <2>3. caller'[c].pc # "creating" /\ UNCHANGED <<created, parentOf>>
    BY <1>1, <1>2 DEF Sound, TypeOK, jira
  <2> QED BY <2>1, <2>2, <2>3 DEF Sound, Single
<1> QED BY <1>2, <1>4, <1>5, <1>6 DEF Sound, Fits, Whole, jira

\* Moving on without a new copy.
LEMMA MovesOn ==
  ASSUME Sound, NEW c \in Callers, NEW pc \in Pcs, Goto(c, pc), caller[c].pc # "idle",
         UNCHANGED <<jira, edited, receipt, activated, overlapped, faults>>,
         pc \in {"creating", "relating"},
         pc = "creating" => Missing(caller[c].copy) # {} /\ created[ItemOf(caller[c].copy)] = 0,
         pc = "relating" => Missing(caller[c].copy) = {}
  PROVE  Sound'
<1> DEFINE n == [caller[c] EXCEPT !.pc = pc]
<1>1. n \in Calls /\ n.pc = pc /\ n.copy = caller[c].copy
  BY CopyType, SoundTypes DEF Calls
<1>2. caller' = [caller EXCEPT ![c] = n]
  BY DEF Goto, Sound, TypeOK
<1>3. Works(caller[c]) /\ faults' \in 0..FaultLimit
  BY DEF Sound, TypeOK
<1> HIDE DEF n
<1>4. Works(n)
  BY <1>1, <1>3 DEF Works
<1> QED BY <1>1, <1>2, <1>3, <1>4, CallMoves

LEMMA FindKeepsSound ==
  ASSUME Sound, NEW c \in Callers, Find(c)
  PROVE  Sound'
<1>1. /\ caller[c].pc = "issuing" /\ Copy(c) = caller[c].copy /\ Item(c) = ItemOf(caller[c].copy)
      /\ UNCHANGED <<jira, edited, receipt, activated, overlapped, faults>>
      /\ faults' \in 0..FaultLimit
  BY DEF Find, At, Copy, Item, ItemOf, Sound, TypeOK
<1>2. CASE Missing(Copy(c)) = {}
  <2>1. Goto(c, "relating") /\ "relating" \in Pcs
    BY <1>2 DEF Find, Pcs
  <2> QED BY <1>1, <1>2, <2>1, MovesOn
<1>3. CASE Missing(Copy(c)) # {} /\ Ends(c)
  BY <1>1, <1>3, CallEnds
<1>4. CASE Missing(Copy(c)) # {} /\ Goto(c, "creating") /\ created[Item(c)] = 0
  <2>1. "creating" \in Pcs
    BY DEF Pcs
  <2> QED BY <1>1, <1>4, <2>1, MovesOn
<1>5. CASE /\ Missing(Copy(c)) # {} /\ created[Item(c)] = 1
           /\ caller' = [caller EXCEPT ![c].pc = "saving", ![c].found = 1]
  <2> DEFINE n == [caller[c] EXCEPT !.pc = "saving", !.found = 1]
  <2>1. 1 \in 0..IssueLimit /\ 1 \in Ids
    BY JiraDeliveryAssumption DEF Ids
  <2>2. n \in Calls /\ n.pc = "saving" /\ n.found = 1 /\ n.copy = caller[c].copy
    BY <2>1, CopyType, SoundTypes DEF Calls, Pcs
  <2>3. caller' = [caller EXCEPT ![c] = n]
    BY <1>5 DEF Sound, TypeOK
  <2>4. Works(caller[c])
    BY DEF Sound
  <2> HIDE DEF n
  <2>5. Works(n)
    BY <1>1, <1>5, <2>1, <2>2, <2>4 DEF Works
  <2> QED BY <1>1, <2>2, <2>3, <2>5, CallMoves
<1>6. Missing(Copy(c)) # {} => ItemOf(caller[c].copy) \in Items
  BY <1>1, ItemAtHand, CopyType, SoundTypes
<1>7. Missing(Copy(c)) # {} => created[Item(c)] \in Nat
  BY <1>1, <1>6, CreatedType, SoundTypes
<1> QED BY <1>2, <1>3, <1>4, <1>5, <1>7 DEF Find

LEMMA OpenKeepsSound ==
  ASSUME Sound, NEW c \in Callers, Open(c)
  PROVE  Sound'
<1> DEFINE next == [NoReceipt EXCEPT !.state = "open"]
<1>1. next \in Receipts /\ next.state = "open" /\ next.issues = NoReceipt.issues
      /\ next.links = NoReceipt.links
  BY NoReceiptType DEF Receipts
<1>2. caller[c].pc = "opening" /\ Save(c, next, "issuing")
  BY DEF Open, At
<1> HIDE DEF next
<1>3. Fits(next)
  BY <1>1, EmptyFits, SoundTypes DEF Fits
<1>4. "issuing" \in Pcs \ {"creating", "saving"}
  BY DEF Pcs
<1> QED BY <1>1, <1>2, <1>3, <1>4, SaveKeepsSound

\* createIssue: one more issue of the item at hand, under its parent's.
LEMMA CreateKeepsSound ==
  ASSUME Sound, NEW c \in Callers, Create(c)
  PROVE  Sound'
<1>1. PICK r \in Receipts, i \in Items :
        /\ r = caller[c].copy /\ i = ItemOf(r) /\ r.issues[i] = 0 /\ Missing(r) # {}
        /\ Parent[i] = i \/ r.issues[Parent[i]] # 0
        /\ caller[c].pc = "creating"
  <2>1. caller[c].copy \in Receipts /\ caller[c].pc = "creating"
        /\ Missing(caller[c].copy) # {}
    BY CopyType DEF Sound, Works, Create, At
  <2> QED BY <2>1, ItemAtHand
<1>2. TypeOK /\ Works(caller[c]) /\ Fits(r) /\ r.state # "completed"
  BY <1>1 DEF Sound, Works
<1>3. PICK n \in Ids : n = created[i] + 1 /\ created[i] \in Nat /\ n \in Nat /\ n \in 0..IssueLimit
  <2>1. created[i] + 1 <= IssueLimit /\ created[i] \in Nat
    BY <1>1, <1>2, CreatedType DEF Create, Copy, Item, ItemOf
  <2> QED BY <2>1, LimitTypes DEF Ids
<1>4. PICK p \in 0..IssueLimit : p = IF Parent[i] = i THEN 0 ELSE r.issues[Parent[i]]
  <2>1. 0 \in 0..IssueLimit /\ Parent[i] \in Items
    BY PlanTypes, LimitTypes
  <2> QED BY <2>1, IssueType
<1>5. PICK d \in Calls : /\ d = [caller[c] EXCEPT !.pc = "saving", !.found = n]
                         /\ d.pc = "saving" /\ d.found = n /\ d.copy = r
  <2>1. caller[c] \in Calls
    BY <1>2, CopyType
  <2> DEFINE e == [caller[c] EXCEPT !.pc = "saving", !.found = n]
  <2>2. e \in Calls /\ e.pc = "saving" /\ e.found = n /\ e.copy = caller[c].copy
    BY <1>3, <2>1 DEF Calls, Pcs
  <2> QED BY <1>1, <2>2
<1>6. /\ created' = [created EXCEPT ![i] = n]
      /\ parentOf' = [parentOf EXCEPT ![i][n] = p]
      /\ \/ caller' = [caller EXCEPT ![c].pc = "saving", ![c].found = n] /\ faults' = faults
         \/ Ends(c) /\ faults < FaultLimit /\ faults' = faults + 1
      /\ UNCHANGED <<linked, edited, receipt, activated, overlapped>>
  BY <1>1, <1>3, <1>4 DEF Create, Copy, Item, ItemOf
<1>7. faults' \in 0..FaultLimit
  BY <1>2, <1>6, LimitTypes DEF TypeOK
<1>8. PICK m \in {d, Idle} : caller' = [caller EXCEPT ![c] = m]
  <2>1. CASE caller' = [caller EXCEPT ![c].pc = "saving", ![c].found = n]
    BY <1>2, <1>5, <2>1 DEF TypeOK
  <2> QED BY <1>6, <2>1 DEF Ends
<1>9. m \in Calls /\ m.pc # "creating"
  BY <1>5, IdleType
<1>10. \A j \in Items : created'[j] = IF j = i THEN n ELSE created[j]
  BY <1>2, <1>6 DEF TypeOK
<1>11. \A j \in Items : created[j] <= created'[j]
  BY <1>2, <1>3, <1>10, CreatedType
<1>12. TypeOK'
  <2>1. created' \in [Items -> 0..IssueLimit]
    BY <1>2, <1>3, <1>6 DEF TypeOK
  <2>2. parentOf' \in [Items -> [Ids -> 0..IssueLimit]]
    BY <1>2, <1>3, <1>4, <1>6 DEF TypeOK
  <2>3. caller' \in [Callers -> Calls]
    BY <1>2, <1>8, <1>9, CallReplaced
  <2>4. \A j \in Items : receipt'.issues[j] <= created'[j]
    <3>1. ASSUME NEW j \in Items PROVE receipt.issues[j] <= created'[j]
      <4>1. receipt.issues[j] \in Nat /\ created[j] \in Nat /\ receipt.issues[j] <= created[j]
        BY <1>2, IssueType, CreatedType DEF TypeOK
      <4>2. created[j] <= created'[j] /\ created'[j] \in Nat
        BY <1>3, <1>10, <1>11, <4>1
      <4> QED BY <4>1, <4>2
    <3> QED BY <1>6, <3>1
  <2> QED BY <1>2, <1>6, <1>7, <2>1, <2>2, <2>3, <2>4 DEF TypeOK
<1>13. Fits(receipt)'
  <2>1. Fits(receipt) /\ receipt \in Receipts
    BY <1>2 DEF Sound, TypeOK
  <2>2. \A e \in Receipts : Fits(e) => Fits(e)'
    BY <1>2, <1>6, <1>11, <1>12, FitsLater
  <2> QED BY <1>6, <2>1, <2>2 DEF Fits
<1>14. Works(m)'
  <2>1. CASE m = Idle
    <3>1. Works(Idle)'
      <4>1. \A e \in Calls : Works(e) => Works(e)'
        BY <1>2, <1>6, <1>11, <1>12, WorksLater
      <4> QED BY <1>2, <4>1, IdleType, IdleWorks
    <3> QED BY <2>1, <3>1 DEF Works, Fits
  <2>2. CASE m = d
    <3>1. Fits(r)'
      BY <1>2, <1>6, <1>11, <1>12, FitsLater
    <3>2. n \in Ids /\ n <= created'[i]
      BY <1>3, <1>10
    <3>3. m.pc = "saving" /\ m.found = n /\ m.copy = r
      BY <1>5, <2>2
    <3>4. r.state # "completed" /\ Missing(r) # {} /\ ItemOf(r) = i
      BY <1>1, <1>2
    <3>5. Fits(m.copy)'
      BY <3>1, <3>3 DEF Fits
    <3> HIDE <1>5, <2>2
    <3> QED BY <3>2, <3>3, <3>4, <3>5 DEF Works
  <2> QED BY <2>1, <2>2
<1>15. \A e \in Callers : Works(caller[e])'
  BY <1>6, <1>8, <1>11, <1>12, <1>14, OthersWork
<1>16. Whole'
  BY <1>6 DEF Sound, Whole
<1>17. ASSUME ~overlapped' PROVE Single'
  <2>1. Single
    BY <1>6, <1>17 DEF Sound
  <2>2. created[i] = 0 /\ n = 1
    BY <1>1, <1>3, <2>1 DEF Single
  <2>3. \A e \in Callers : caller'[e].pc # "idle" => e = c
    BY <1>1, <1>2, <1>8, <2>1 DEF Single, TypeOK
  <2>4. \A j \in Items : created'[j] <= 1
    BY <1>10, <2>1, <2>2 DEF Single
  <2>5. \A e \in Callers : caller'[e].pc # "creating"
    BY <1>2, <1>8, <1>9, <2>3, IdleType DEF TypeOK
  <2>6. ASSUME NEW j \in Items, created'[j] = 1, Parent[j] # j PROVE parentOf'[j][1] = 1
    <3>1. CASE j # i
      BY <1>2, <1>6, <1>10, <2>1, <2>6, <3>1 DEF Single, TypeOK
    <3>2. CASE j = i
      <4>1. parentOf'[i][1] = r.issues[Parent[i]]
        BY <1>2, <1>3, <1>4, <1>6, <2>2, <2>6, <3>2 DEF TypeOK
      <4>2. Parent[i] \in Items /\ r.issues[Parent[i]] # 0
        BY <1>1, <2>6, <3>2, PlanTypes
      <4>3. r.issues[Parent[i]] <= created[Parent[i]] /\ created[Parent[i]] <= 1
        BY <1>2, <2>1, <4>2 DEF Fits, Single
      <4>4. r.issues[Parent[i]] \in Nat /\ created[Parent[i]] \in Nat
        BY <1>2, <4>2, IssueType, CreatedType
      <4> QED BY <3>2, <4>1, <4>2, <4>3, <4>4
    <3> QED BY <3>1, <3>2
  <2> QED BY <2>3, <2>4, <2>5, <2>6 DEF Single
<1> QED BY <1>12, <1>13, <1>15, <1>16, <1>17 DEF Sound

LEMMA SaveIssueKeepsSound ==
  ASSUME Sound, NEW c \in Callers, SaveIssue(c)
  PROVE  Sound'
<1>1. PICK r \in Receipts, i \in Items, n \in Ids :
        /\ r = caller[c].copy /\ i = ItemOf(r) /\ n = caller[c].found
        /\ r.issues[i] = 0 /\ (Parent[i] = i \/ r.issues[Parent[i]] # 0)
        /\ n <= created[i] /\ caller[c].pc = "saving"
  <2>1. /\ caller[c].copy \in Receipts /\ caller[c].pc = "saving" /\ Missing(caller[c].copy) # {}
        /\ caller[c].found \in Ids /\ caller[c].found <= created[ItemOf(caller[c].copy)]
    BY CopyType DEF Sound, Works, SaveIssue, At
  <2> QED BY <2>1, ItemAtHand
<1>2. TypeOK /\ Fits(r) /\ r.state # "completed"
  BY <1>1 DEF Sound, Works
<1>3. n \in 0..IssueLimit /\ n # 0
  BY LimitTypes DEF Ids
<1>4. PICK next \in Receipts : /\ next = [r EXCEPT !.issues[i] = n]
                               /\ next.issues = [r.issues EXCEPT ![i] = n]
                               /\ next.links = r.links /\ next.state = r.state
  <2> DEFINE e == [r EXCEPT !.issues[i] = n]
  <2>1. e \in Receipts /\ e.issues = [r.issues EXCEPT ![i] = n]
        /\ e.links = r.links /\ e.state = r.state
    BY <1>3 DEF Receipts
  <2> QED BY <2>1
<1>5. Save(c, next, "issuing") /\ "issuing" \in Pcs \ {"creating", "saving"}
  BY <1>1, <1>4 DEF SaveIssue, Copy, Item, ItemOf, Pcs
<1>6. \A j \in Items : next.issues[j] = IF j = i THEN n ELSE r.issues[j]
  BY <1>4 DEF Receipts
<1>7. Fits(next)
  <2>1. \A j \in Items : next.issues[j] <= created[j]
    BY <1>1, <1>2, <1>6 DEF Fits
  <2>2. \A j \in Items : next.issues[j] # 0 => next.issues[Parent[j]] # 0
    <3>1. ASSUME NEW j \in Items, next.issues[j] # 0 PROVE next.issues[Parent[j]] # 0
      <4>1. Parent[j] \in Items /\ Parent[i] \in Items
        BY PlanTypes
      <4>2. r.issues[j] # 0 => r.issues[Parent[j]] # 0
        BY <1>2 DEF Fits
      <4> QED BY <1>1, <1>3, <1>6, <3>1, <4>1, <4>2
    <3> QED BY <3>1
  <2>3. ASSUME NEW l \in next.links
        PROVE  /\ next.issues[l[1]] # 0 /\ next.issues[l[2]] # 0
               /\ <<l, next.issues[l[1]], next.issues[l[2]]>> \in linked
    <3>1. l \in r.links /\ l[1] \in Items /\ l[2] \in Items
      <4>1. l \in r.links /\ r.links \subseteq Range(Relations)
        BY <1>4 DEF Receipts
      <4>2. l \in Items \X Items
        BY <4>1, PlanTypes
      <4> QED BY <4>1, <4>2
    <3>2. r.issues[l[1]] # 0 /\ r.issues[l[2]] # 0 /\ <<l, r.issues[l[1]], r.issues[l[2]]>> \in linked
      BY <1>2, <3>1 DEF Fits
    <3>3. next.issues[l[1]] = r.issues[l[1]] /\ next.issues[l[2]] = r.issues[l[2]]
      BY <1>1, <1>6, <3>1, <3>2
    <3> QED BY <3>2, <3>3
  <2> QED BY <2>1, <2>2, <2>3 DEF Fits
<1> QED BY <1>1, <1>2, <1>4, <1>5, <1>7, SaveKeepsSound

\* #ensureLink makes the link between the issues of the copy.
LEMMA LinkKeepsSound ==
  ASSUME Sound, NEW c \in Callers, Link(c)
  PROVE  Sound'
<1>1. PICK r \in Receipts, l \in Range(Relations) :
        /\ r = caller[c].copy /\ l = RelationOf(r) /\ l \in Items \X Items /\ Unmade(r) # {}
        /\ caller[c].pc = "relating" /\ Missing(r) = {}
  <2>1. caller[c].copy \in Receipts /\ caller[c].pc = "relating" /\ Unmade(caller[c].copy) # {}
        /\ Missing(caller[c].copy) = {}
    BY CopyType DEF Sound, Works, Link, At, Copy
  <2> QED BY <2>1, RelationAtHand
<1>2. TypeOK /\ Works(caller[c]) /\ caller[c] \in Calls
  BY CopyType DEF Sound
<1>3. PICK k : k = <<l, r.issues[l[1]], r.issues[l[2]]>>
  OBVIOUS
<1>4. /\ linked' = linked \cup {k}
      /\ (Goto(c, "recording") /\ faults' = faults)
         \/ (Ends(c) /\ faults < FaultLimit /\ faults' = faults + 1)
      /\ UNCHANGED <<created, parentOf, edited, receipt, activated, overlapped>>
  BY <1>1, <1>3 DEF Link, Relation, RelationOf, Copy
<1>5. k \in Range(Relations) \X Ids \X Ids
  <2>1. l[1] \in Items /\ l[2] \in Items
    BY <1>1
  <2>2. r.issues[l[1]] \in Ids /\ r.issues[l[2]] \in Ids
    BY <1>1, <2>1, IssueType, NothingMissing
  <2> QED BY <1>3, <2>2
<1>6. PICK d \in Calls : /\ d = [caller[c] EXCEPT !.pc = "recording"]
                         /\ d.pc = "recording" /\ d.copy = r
  <2> DEFINE e == [caller[c] EXCEPT !.pc = "recording"]
  <2>1. e \in Calls /\ e.pc = "recording" /\ e.copy = caller[c].copy
    BY <1>2 DEF Calls, Pcs
  <2> QED BY <1>1, <2>1
<1>7. PICK m \in {d, Idle} : caller' = [caller EXCEPT ![c] = m]
  BY <1>2, <1>4, <1>6 DEF Goto, Ends, TypeOK
<1>8. m \in Calls /\ m.pc # "creating"
  BY <1>6, IdleType
<1>9. TypeOK'
  <2>1. faults' \in 0..FaultLimit
    BY <1>2, <1>4, LimitTypes DEF TypeOK
  <2>2. caller' \in [Callers -> Calls]
    BY <1>2, <1>7, <1>8, CallReplaced
  <2>3. linked' \subseteq Range(Relations) \X Ids \X Ids
    BY <1>2, <1>4, <1>5 DEF TypeOK
  <2> QED BY <1>2, <1>4, <2>1, <2>2, <2>3 DEF TypeOK
<1>10. /\ \A j \in Items : created[j] <= created'[j]
       /\ linked \subseteq linked' /\ activated' = activated
  BY <1>2, <1>4, CreatedStays
<1>11. Fits(receipt)'
  <2>1. Fits(receipt) /\ receipt \in Receipts
    BY DEF Sound, TypeOK
  <2>2. \A e \in Receipts : Fits(e) => Fits(e)'
    BY <1>2, <1>9, <1>10, FitsLater
  <2> QED BY <1>4, <2>1, <2>2 DEF Fits
<1>12. Works(m)'
  <2>1. CASE m = Idle
    <3>1. Works(Idle)'
      <4>1. \A e \in Calls : Works(e) => Works(e)'
        BY <1>2, <1>9, <1>10, WorksLater
      <4> QED BY <1>2, <4>1, IdleType, IdleWorks
    <3> QED BY <2>1, <3>1 DEF Works, Fits
  <2>2. CASE m = d
    <3>1. m.pc = "recording" /\ m.copy = r
      BY <1>6, <2>2
    <3>2. Fits(r) /\ r.state # "completed"
      BY <1>1, <1>2 DEF Works
    <3>3. Fits(r)'
      BY <1>2, <1>9, <1>10, <3>2, FitsLater
    <3>4. Fits(m.copy)'
      BY <3>1, <3>3 DEF Fits
    <3>5. Unmade(r) # {} /\ RelationOf(r) = l /\ Missing(r) = {}
          /\ <<l, r.issues[l[1]], r.issues[l[2]]>> \in linked'
      BY <1>1, <1>3, <1>4
    <3> QED BY <3>1, <3>2, <3>4, <3>5 DEF Works
  <2> QED BY <2>1, <2>2
<1>13. \A e \in Callers : Works(caller[e])'
  BY <1>7, <1>9, <1>10, <1>12, OthersWork
<1>14. (~overlapped => Single)'
  BY <1>1, <1>4, <1>7, <1>8, SingleKept
<1>15. Whole'
  BY <1>4 DEF Sound, Whole
<1> QED BY <1>9, <1>11, <1>13, <1>14, <1>15 DEF Sound

LEMMA SaveLinkKeepsSound ==
  ASSUME Sound, NEW c \in Callers, SaveLink(c)
  PROVE  Sound'
<1>1. PICK r \in Receipts, l \in Range(Relations) :
        /\ r = caller[c].copy /\ l = RelationOf(r) /\ l \in Items \X Items
        /\ caller[c].pc = "recording" /\ Missing(r) = {}
        /\ <<l, r.issues[l[1]], r.issues[l[2]]>> \in linked
  <2>1. caller[c].copy \in Receipts /\ caller[c].pc = "recording" /\ Works(caller[c])
    BY CopyType DEF Sound, SaveLink, At
  <2>2. Unmade(caller[c].copy) # {} /\ Missing(caller[c].copy) = {}
    BY <2>1 DEF Works
  <2> QED BY <2>1, <2>2, RelationAtHand DEF Works
<1>2. Fits(r) /\ r.state # "completed"
  BY <1>1 DEF Sound, Works
<1>3. PICK next \in Receipts : /\ next = [r EXCEPT !.links = @ \cup {l}]
                               /\ next.issues = r.issues
                               /\ next.links = r.links \cup {l} /\ next.state = r.state
  <2> DEFINE e == [r EXCEPT !.links = @ \cup {l}]
  <2>1. e \in Receipts /\ e.issues = r.issues /\ e.links = r.links \cup {l} /\ e.state = r.state
    BY DEF Receipts
  <2> QED BY <2>1
<1>4. Save(c, next, "relating") /\ "relating" \in Pcs \ {"creating", "saving"}
  BY <1>1, <1>3 DEF SaveLink, Copy, Relation, RelationOf, Pcs
<1>5. Missing(next) = {}
  BY <1>1, <1>3 DEF Missing
<1>6. r.issues[l[1]] # 0 /\ r.issues[l[2]] # 0
  BY <1>1, NothingMissing
<1>7. Fits(next)
  BY <1>1, <1>2, <1>3, <1>6 DEF Fits
<1> QED BY <1>1, <1>2, <1>3, <1>4, <1>5, <1>7, SaveKeepsSound

\* activateDelivery: delivery is activated with the copy's epic, or the call ends.
LEMMA ActivateKeepsSound ==
  ASSUME Sound, NEW c \in Callers, Activate(c)
  PROVE  Sound'
<1>1. PICK r \in Receipts : /\ r = caller[c].copy /\ caller[c].pc = "relating"
                            /\ Missing(r) = {} /\ Unmade(r) = {} /\ Fits(r) /\ r.state # "completed"
  BY CopyType DEF Sound, Works, Activate, At, Copy
<1>2. TypeOK /\ faults' \in 0..FaultLimit /\ UNCHANGED <<jira, edited, receipt, overlapped, faults>>
  BY DEF Activate, Sound, TypeOK
<1>3. CASE activated' = activated /\ Ends(c)
  BY <1>1, <1>2, <1>3, CallEnds
<1>4. CASE /\ activated \in {0, r.issues[Epic]} /\ activated' = r.issues[Epic]
           /\ Goto(c, "completing")
  <2>1. PICK d \in Calls : /\ d = [caller[c] EXCEPT !.pc = "completing"]
                           /\ d.pc = "completing" /\ d.copy = r
    <3> DEFINE e == [caller[c] EXCEPT !.pc = "completing"]
    <3>1. caller[c] \in Calls
      BY <1>2, CopyType
    <3>2. e \in Calls /\ e.pc = "completing" /\ e.copy = caller[c].copy
      BY <3>1 DEF Calls, Pcs
    <3> QED BY <1>1, <3>2
  <2>2. caller' = [caller EXCEPT ![c] = d]
    BY <1>2, <1>4, <2>1 DEF Goto, TypeOK
  <2>3. r.issues[Epic] \in 0..IssueLimit
    BY PlanTypes, IssueType
  <2>4. caller' \in [Callers -> Calls]
    BY <1>2, <2>2, CallReplaced
  <2>5. TypeOK'
    BY <1>2, <1>4, <2>3, <2>4 DEF TypeOK, jira
  <2>6. activated # 0 => activated' = activated
    BY <1>4
  <2>7. Works(d)'
    BY <1>1, <1>2, <1>4, <2>1 DEF Works, Fits, jira
  <2>8. (\A j \in Items : created[j] <= created'[j]) /\ linked \subseteq linked'
    BY <1>2, CreatedStays DEF jira
  <2>9. \A e \in Callers : Works(caller[e])'
    BY <2>2, <2>5, <2>6, <2>7, <2>8, OthersWork
  <2>10. (~overlapped => Single)'
    BY <1>1, <1>2, <2>1, <2>2, SingleKept DEF jira
  <2>11. Whole'
    <3>1. ASSUME receipt.state = "completed" PROVE receipt.issues[Epic] # 0
      <4>1. Missing(receipt) = {} /\ receipt \in Receipts
        BY <1>2, <3>1 DEF Sound, Whole, TypeOK
      <4> QED BY <4>1, NothingMissing, PlanTypes
    <3> QED BY <1>2, <2>6, <3>1 DEF Sound, Whole
  <2> QED BY <1>2, <2>5, <2>9, <2>10, <2>11 DEF Sound, Fits, jira
<1> QED BY <1>1, <1>3, <1>4 DEF Activate, Copy

LEMMA CompleteKeepsSound ==
  ASSUME Sound, NEW c \in Callers, Complete(c)
  PROVE  Sound'
<1>1. PICK r \in Receipts : /\ r = caller[c].copy /\ caller[c].pc = "completing"
                            /\ Missing(r) = {} /\ Unmade(r) = {} /\ Fits(r)
                            /\ activated = r.issues[Epic]
  BY CopyType DEF Sound, Works, Complete, At
<1>2. PICK next \in Receipts : /\ next = [r EXCEPT !.state = "completed"]
                               /\ next.issues = r.issues /\ next.links = r.links
  <2> DEFINE e == [r EXCEPT !.state = "completed"]
  <2>1. e \in Receipts /\ e.issues = r.issues /\ e.links = r.links
    BY DEF Receipts
  <2> QED BY <2>1
<1>3. Save(c, next, "idle") /\ "idle" \in Pcs \ {"creating", "saving"}
  BY <1>1, <1>2 DEF Complete, Copy, Pcs
<1>4. Missing(next) = {} /\ Unmade(next) = {}
  BY <1>1, <1>2 DEF Missing, Unmade
<1>5. Fits(next)
  BY <1>1, <1>2 DEF Fits
<1> QED BY <1>1, <1>2, <1>3, <1>4, <1>5, SaveKeepsSound

LEMMA RefusedKeepsSound ==
  ASSUME Sound, NEW c \in Callers, Refused(c)
  PROVE  Sound'
<1>1. /\ caller[c].pc # "idle" /\ Ends(c)
      /\ UNCHANGED <<jira, edited, receipt, activated, overlapped>>
  BY DEF Refused
<1>2. faults' \in 0..FaultLimit
  BY LimitTypes DEF Refused, Sound, TypeOK
<1> QED BY <1>1, <1>2, CallEnds

LEMMA RestartKeepsSound == Sound /\ Restart => Sound'
<1> SUFFICES ASSUME Sound, Restart PROVE Sound'
  OBVIOUS
<1>1. /\ caller' = [c \in Callers |-> Idle]
      /\ UNCHANGED <<jira, edited, receipt, activated, overlapped>>
  BY DEF Restart
<1>2. faults' \in 0..FaultLimit
  BY LimitTypes DEF Restart, Sound, TypeOK
<1>3. caller' \in [Callers -> Calls]
  BY <1>1, IdleType
<1>4. TypeOK'
  BY <1>1, <1>2, <1>3 DEF Sound, TypeOK, jira
<1>5. \A c \in Callers : Works(caller[c])'
  BY <1>1, <1>4, IdleWorks, SoundTypes DEF Works, Fits, jira
<1>6. (~overlapped => Single)'
  BY <1>1, IdleType DEF Sound, Single, jira
<1> QED BY <1>1, <1>4, <1>5, <1>6 DEF Sound, Fits, Whole, jira

LEMMA OutsideKeepsSound == Sound /\ (Edit \/ UNCHANGED vars) => Sound'
<1> SUFFICES ASSUME Sound, Edit \/ UNCHANGED vars PROVE Sound'
  OBVIOUS
<1>1. UNCHANGED <<jira, receipt, activated, caller, overlapped, faults>> /\ edited' \subseteq Items
  BY DEF Edit, vars, jira, Sound, TypeOK
<1>2. TypeOK'
  BY <1>1 DEF Sound, TypeOK, jira
<1> QED BY <1>1, <1>2 DEF Sound, Fits, Works, Whole, Single, jira

LEMMA NextKeepsSound == Sound /\ [Next]_vars => Sound'
BY BeginKeepsSound, OpenKeepsSound, FindKeepsSound, CreateKeepsSound, SaveIssueKeepsSound,
   LinkKeepsSound, SaveLinkKeepsSound, ActivateKeepsSound, CompleteKeepsSound,
   RefusedKeepsSound, RestartKeepsSound, OutsideKeepsSound
   DEF Next, Proceed

LEMMA SoundAlways == Spec => []Sound
BY InitSound, NextKeepsSound, PTL DEF Spec

-----------------------------------------------------------------------------

\* Every variable keeps its type, and the receipt on disk never names an issue
\* that Jira was not asked for.
THEOREM SynchronizationTypeCorrect == Spec => []TypeOK
BY SoundTypes, SoundAlways, PTL

\* However many calls are refused, answers lost and restarts, an item has one
\* issue in Jira - as long as no call of synchronize begins while another works.
THEOREM OneIssueEach == Spec => []IssuesAreCreatedOnce
<1>1. Sound => IssuesAreCreatedOnce
  BY DEF Sound, Single, IssuesAreCreatedOnce
<1> QED BY <1>1, SoundAlways, PTL

\* What execution starts from is whole: every item has its issue, every link is
\* made, delivery was activated with that epic, and without overlapping calls
\* every issue is under its parent's.
THEOREM CompletedMeansWhole == Spec => []CompletedReceiptsAreWhole
<1>1. Sound => CompletedReceiptsAreWhole
  <2> SUFFICES ASSUME Sound, receipt.state = "completed"
               PROVE  /\ \A i \in Items : receipt.issues[i] # 0
                      /\ \A l \in Range(Relations) : <<l, receipt.issues[l[1]], receipt.issues[l[2]]>> \in linked
                      /\ receipt.issues[Epic] = activated
                      /\ \A i \in Items : overlapped \/ Parent[i] = i
                           \/ parentOf[i][receipt.issues[i]] = receipt.issues[Parent[i]]
    BY DEF CompletedReceiptsAreWhole
  <2>1. /\ receipt \in Receipts /\ Fits(receipt) /\ Missing(receipt) = {} /\ Unmade(receipt) = {}
        /\ receipt.issues[Epic] = activated
    BY DEF Sound, Whole, TypeOK
  <2>2. \A i \in Items : receipt.issues[i] # 0
    BY <2>1, NothingMissing
  <2>3. \A l \in Range(Relations) : <<l, receipt.issues[l[1]], receipt.issues[l[2]]>> \in linked
    BY <2>1, NothingUnmade DEF Fits
  <2>4. ASSUME NEW i \in Items, ~overlapped, Parent[i] # i
        PROVE  parentOf[i][receipt.issues[i]] = receipt.issues[Parent[i]]
    <3>1. ASSUME NEW j \in Items PROVE receipt.issues[j] = 1 /\ created[j] = 1
      <4>1. receipt.issues[j] \in Nat /\ created[j] \in Nat /\ receipt.issues[j] # 0
        BY <2>1, <2>2, IssueType, CreatedType, SoundTypes
      <4>2. receipt.issues[j] <= created[j] /\ created[j] <= 1
        BY <2>1, <2>4 DEF Sound, Single, Fits
      <4> QED BY <4>1, <4>2
    <3>2. Parent[i] \in Items
      BY PlanTypes
    <3> QED BY <2>4, <3>1, <3>2 DEF Sound, Single
  <2> QED BY <2>1, <2>2, <2>3, <2>4
<1> QED BY <1>1, SoundAlways, PTL

=============================================================================
