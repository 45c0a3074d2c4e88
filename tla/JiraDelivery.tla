----------------------------- MODULE JiraDelivery -----------------------------
(* How a reviewed plan becomes issues in Jira:                               *)
(* apps/core/src/jira-delivery-service.ts, for one plan of one project.      *)
(*                                                                          *)
(* The delivery-plan run, the owner's approval by Telegram and a timer call  *)
(* synchronize, and nothing keeps two calls apart: each works on the copy of *)
(* the receipt it read and saves that copy whole. What makes a call safe to  *)
(* repeat is the marker on every issue, which a call looks for before it     *)
(* creates one.                                                             *)
(*                                                                          *)
(* Left out: another plan or Jira project than the receipt's                 *)
(* (DeliveryPipeline has it), the fields of an issue apart from its parent,   *)
(* and the catalog of the Jira project, which a call reads first and whose    *)
(* refusal is one more way for it to end. Jira's search is taken to see       *)
(* every issue that was created before it.                                  *)
EXTENDS Naturals, Sequences, FiniteSetsExt

CONSTANTS
  Order,        \* the plan's items: the epic, then stories, tasks and subtasks,
                \* so that no item comes before its parent
  Parent,       \* item -> the item whose issue is its issue's parent, or itself
  Relations,    \* the links of the plan, in the order of its items
  Callers,      \* who may call synchronize
  Timer,        \* the caller that comes round every minute
  IssueLimit,   \* bound: issues of one item
  FaultLimit    \* bound: calls Jira refuses or whose answer is lost, and restarts

Items == Range(Order)
Epic == Order[1]
Ids == 1..IssueLimit

ASSUME JiraDeliveryAssumption ==
  /\ Order \in Seq(Items) /\ Order # <<>> /\ Parent \in [Items -> Items]
  /\ \A k \in DOMAIN Order : \E j \in 1..k : Order[j] = Parent[Order[k]]
  /\ Relations \in Seq(Items \X Items) /\ Timer \in Callers
  /\ IssueLimit \in Nat \ {0} /\ FaultLimit \in Nat

\* A receipt: the issue of each item (0: none yet), the links made, and whether
\* there is none yet, it is open or completed.
Receipts ==
  [issues : [Items -> 0..IssueLimit], links : SUBSET Range(Relations),
   state : {"none", "open", "completed"}]
NoReceipt == [issues |-> [i \in Items |-> 0], links |-> {}, state |-> "none"]

VARIABLES
  created,     \* item -> how many issues with its marker Jira has
  parentOf,    \* item -> issue -> the issue it was created under (0: none)
  linked,      \* the links Jira has: relation and both issues
  edited,      \* items whose issue somebody gave another title
  receipt,     \* the receipt on disk
  activated,   \* the epic the project's delivery was activated with (0: not yet)
  caller,      \* what each call is about to do, and its copy of the receipt
  overlapped,  \* a call began while another was at work
  faults

jira == <<created, parentOf, linked>>
vars == <<jira, edited, receipt, activated, caller, overlapped, faults>>

Pcs == {"idle", "opening", "issuing", "creating", "saving", "relating", "recording", "completing"}
Calls == [pc : Pcs, copy : Receipts, found : 0..IssueLimit]
Idle == [pc |-> "idle", copy |-> NoReceipt, found |-> 0]

Init ==
  /\ created = [i \in Items |-> 0] /\ parentOf = [i \in Items |-> [n \in Ids |-> 0]]
  /\ linked = {} /\ edited = {} /\ receipt = NoReceipt /\ activated = 0
  /\ caller = [c \in Callers |-> Idle] /\ overlapped = FALSE /\ faults = 0

-----------------------------------------------------------------------------

At(c, pc) == caller[c].pc = pc
Copy(c) == caller[c].copy
Goto(c, pc) == caller' = [caller EXCEPT ![c].pc = pc]
Ends(c) == caller' = [caller EXCEPT ![c] = Idle]

\* #initialReceipt: a call without a receipt is about to save an empty one.
Begin(c) ==
  /\ At(c, "idle")
  /\ receipt.state # "completed"
  /\ IF receipt.state = "none"
     THEN caller' = [caller EXCEPT ![c] = [Idle EXCEPT !.pc = "opening"]]
     ELSE caller' = [caller EXCEPT ![c] = [Idle EXCEPT !.pc = "issuing", !.copy = receipt]]
  /\ overlapped' = (overlapped \/ \E d \in Callers \ {c} : ~At(d, "idle"))
  /\ UNCHANGED <<jira, edited, receipt, activated, faults>>

\* #save: the call's own copy replaces whatever the file says.
Save(c, next, pc) ==
  /\ receipt' = next
  /\ caller' = [caller EXCEPT ![c] = IF pc = "idle" THEN Idle ELSE [pc |-> pc, copy |-> next, found |-> 0]]
  /\ UNCHANGED <<jira, edited, activated, overlapped, faults>>

Open(c) == At(c, "opening") /\ Save(c, [NoReceipt EXCEPT !.state = "open"], "issuing")

\* The positions of the items without an issue; the first is the one at hand.
Missing(r) == {k \in DOMAIN Order : r.issues[Order[k]] = 0}
Item(c) == Order[Min(Missing(Copy(c)))]

\* Slip: what the receipt does not know is not looked for in Jira.
FindNothing(c) ==
  /\ At(c, "issuing")
  /\ IF Missing(Copy(c)) = {} THEN Goto(c, "relating") ELSE Goto(c, "creating")
  /\ UNCHANGED <<jira, edited, receipt, activated, overlapped, faults>>

\* Slip: an issue with the marker is somebody's edit.
FindConflict(c) ==
  /\ At(c, "issuing")
  /\ IF Missing(Copy(c)) = {} THEN Goto(c, "relating")
     ELSE IF created[Item(c)] > 0 THEN Ends(c) ELSE Goto(c, "creating")
  /\ UNCHANGED <<jira, edited, receipt, activated, overlapped, faults>>

\* findByMarker, and what is done about what it finds.
Find(c) ==
  /\ At(c, "issuing")
  /\ IF Missing(Copy(c)) = {} THEN Goto(c, "relating")
     ELSE LET n == created[Item(c)]
          IN IF n > 1 \/ (n = 1 /\ Item(c) \in edited) THEN Ends(c)
             ELSE IF n = 1 THEN caller' = [caller EXCEPT ![c].pc = "saving", ![c].found = 1]
             ELSE Goto(c, "creating")
  /\ UNCHANGED <<jira, edited, receipt, activated, overlapped, faults>>

\* createIssue, under the parent the copy knows. The answer may be lost.
Create(c) ==
  LET i == Item(c)
      n == created[i] + 1
  IN /\ At(c, "creating") /\ n <= IssueLimit
     /\ created' = [created EXCEPT ![i] = n]
     /\ parentOf' = [parentOf EXCEPT ![i][n] = IF Parent[i] = i THEN 0 ELSE Copy(c).issues[Parent[i]]]
     /\ \/ caller' = [caller EXCEPT ![c].pc = "saving", ![c].found = n] /\ faults' = faults
        \/ Ends(c) /\ faults < FaultLimit /\ faults' = faults + 1
  /\ UNCHANGED <<linked, edited, receipt, activated, overlapped>>

\* Slip: the receipt names the issue after the one found.
SaveNextIssue(c) ==
  /\ At(c, "saving")
  /\ Save(c, [Copy(c) EXCEPT !.issues[Item(c)] = caller[c].found + 1], "issuing")

SaveIssue(c) ==
  /\ At(c, "saving")
  /\ Save(c, [Copy(c) EXCEPT !.issues[Item(c)] = caller[c].found], "issuing")

\* #ensureLink for the next relation the copy does not have.
Unmade(r) == {k \in DOMAIN Relations : Relations[k] \notin r.links}
Relation(c) == Relations[Min(Unmade(Copy(c)))]
Link(c) ==
  /\ At(c, "relating") /\ Unmade(Copy(c)) # {}
  /\ LET l == Relation(c)
     IN linked' = linked \cup {<<l, Copy(c).issues[l[1]], Copy(c).issues[l[2]]>>}
  /\ \/ Goto(c, "recording") /\ faults' = faults
     \/ Ends(c) /\ faults < FaultLimit /\ faults' = faults + 1
  /\ UNCHANGED <<created, parentOf, edited, receipt, activated, overlapped>>

SaveLink(c) ==
  /\ At(c, "recording")
  /\ Save(c, [Copy(c) EXCEPT !.links = @ \cup {Relation(c)}], "relating")

\* Slip: delivery that is already active is good enough.
ActivateAgain(c) ==
  /\ At(c, "relating") /\ Unmade(Copy(c)) = {}
  /\ activated' = (IF activated = 0 THEN Copy(c).issues[Epic] ELSE activated)
  /\ Goto(c, "completing")
  /\ UNCHANGED <<jira, edited, receipt, overlapped, faults>>

\* activateDelivery: a second call must come with the same epic.
Activate(c) ==
  /\ At(c, "relating") /\ Unmade(Copy(c)) = {}
  /\ IF activated \in {0, Copy(c).issues[Epic]}
     THEN activated' = Copy(c).issues[Epic] /\ Goto(c, "completing")
     ELSE activated' = activated /\ Ends(c)
  /\ UNCHANGED <<jira, edited, receipt, overlapped, faults>>

Complete(c) ==
  At(c, "completing") /\ Save(c, [Copy(c) EXCEPT !.state = "completed"], "idle")

\* Jira refuses a request, or it never arrives: the call ends.
Refused(c) ==
  /\ caller[c].pc \in {"issuing", "creating", "relating"} /\ faults < FaultLimit
  /\ faults' = faults + 1 /\ Ends(c)
  /\ UNCHANGED <<jira, edited, receipt, activated, overlapped>>

\* The process ends, and every call with it.
Restart ==
  /\ faults < FaultLimit /\ faults' = faults + 1
  /\ caller' = [c \in Callers |-> Idle]
  /\ UNCHANGED <<jira, edited, receipt, activated, overlapped>>

\* Somebody gives an issue another title.
Edit ==
  /\ \E i \in Items \ edited : created[i] > 0 /\ edited' = edited \cup {i}
  /\ UNCHANGED <<jira, receipt, activated, caller, overlapped, faults>>

Proceed(c) ==
  \/ Open(c) \/ Find(c) \/ Create(c) \/ SaveIssue(c) \/ Link(c) \/ SaveLink(c)
  \/ Activate(c) \/ Complete(c)

Next == (\E c \in Callers : Begin(c) \/ Proceed(c) \/ Refused(c)) \/ Restart \/ Edit

Spec == Init /\ [][Next]_vars

\* A call that began goes on, and the timer begins one again and again; nobody
\* else owes a call. Jira refuses for a while only.
FairSpec == Spec /\ WF_vars(Begin(Timer)) /\ \A c \in Callers : WF_vars(Proceed(c))

-----------------------------------------------------------------------------

\* Every variable keeps its type, and a receipt names issues that exist.
TypeOK ==
  /\ created \in [Items -> 0..IssueLimit] /\ parentOf \in [Items -> [Ids -> 0..IssueLimit]]
  /\ linked \subseteq Range(Relations) \X Ids \X Ids
  /\ edited \subseteq Items /\ receipt \in Receipts
  /\ activated \in 0..IssueLimit /\ caller \in [Callers -> Calls]
  /\ overlapped \in BOOLEAN /\ faults \in 0..FaultLimit
  /\ \A i \in Items : receipt.issues[i] <= created[i]

\* One issue for each item of the plan, however often calls are refused, their
\* answers lost and the process restarted - as long as no two calls overlap.
IssuesAreCreatedOnce == ~overlapped => \A i \in Items : created[i] <= 1

\* A completed receipt is what execution starts from: it has an issue for every
\* item, every link between the issues it names, and the epic that delivery was
\* activated with - even if calls overlapped, when only an issue may be under
\* another call's duplicate of its parent.
CompletedReceiptsAreWhole ==
  receipt.state = "completed" =>
    /\ \A i \in Items : receipt.issues[i] # 0
    /\ \A l \in Range(Relations) : <<l, receipt.issues[l[1]], receipt.issues[l[2]]>> \in linked
    /\ receipt.issues[Epic] = activated
    /\ \A i \in Items : overlapped \/ Parent[i] = i
         \/ parentOf[i][receipt.issues[i]] = receipt.issues[Parent[i]]

\* The timer's calls finish what refused calls and restarts left unfinished -
\* unless somebody edits an issue or two calls overlap.
SynchronizationCompletes ==
  <>(overlapped \/ edited # {} \/ receipt.state = "completed")

=============================================================================
