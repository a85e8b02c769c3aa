----------------------- MODULE ReceiptWorkflowProofs -----------------------
(***************************************************************************)
(* What holds of the review of a receipt for every number of requests,     *)
(* administrators and faults.                                              *)
(***************************************************************************)
EXTENDS ReceiptWorkflow, FiniteSetTheorems, TLAPS

(* The steps of a request, whatever it asks for. *)
Step(p) == Begin(p) \/ Transition(p) \/ Edit(p) \/ Delete(p) \/ Fail(p)

Entry == [action : AuditActions, old : Statuses \cup {Keep, "gone"}, new : Statuses \cup {Keep}]

LEMMA IdleType == Idle \in RequestType /\ Over \in RequestType
  BY DEF Idle, Over, RequestType, Actors, Keep

LEMMA TargetType == \A k : Target(k) \in Statuses
  BY DEF Target, Statuses

LEMMA ActionType == \A k \in Transitions : Action(k) \in AuditActions
  BY DEF Action, Transitions, AuditActions

(* Moving on, ending and logging keep the types. *)
LEMMA EndType ==
  ASSUME req \in [Requests -> RequestType], NEW p \in Requests, End(p)
  PROVE  req' \in [Requests -> RequestType]
  BY IdleType DEF End

LEMMA GotoType ==
  ASSUME req \in [Requests -> RequestType], NEW p \in Requests,
         NEW pc \in {"read", "update", "audit", "notify", "send", "unlink", "write", "drop", "threads"},
         Goto(p, pc)
  PROVE  req' \in [Requests -> RequestType]
<1>1. [req[p] EXCEPT !.pc = pc] \in RequestType
  BY DEF RequestType
<1>2. req' = [req EXCEPT ![p] = [req[p] EXCEPT !.pc = pc]]
  BY DEF Goto
<1> QED
  BY <1>1, <1>2

LEMMA SeenType ==
  ASSUME req \in [Requests -> RequestType], NEW p \in Requests,
         NEW pc \in {"update", "audit", "unlink"}, status \in Statuses \cup {"gone"},
         req' = [req EXCEPT ![p].pc = pc, ![p].seen = status]
  PROVE  req' \in [Requests -> RequestType]
<1>1. [req[p] EXCEPT !.pc = pc, !.seen = status] \in RequestType
  BY DEF RequestType
<1>2. req' = [req EXCEPT ![p] = [req[p] EXCEPT !.pc = pc, !.seen = status]]
  OBVIOUS
<1> QED
  BY <1>1, <1>2

LEMMA LogType ==
  ASSUME trail \in Seq(Entry), NEW a \in AuditActions,
         NEW old \in Statuses \cup {Keep, "gone"}, NEW new \in Statuses \cup {Keep},
         Log(a, old, new)
  PROVE  trail' \in Seq(Entry)
<1>1. [action |-> a, old |-> old, new |-> new] \in Entry
  BY DEF Entry
<1> QED
  BY <1>1 DEF Log

LEMMA BecameType ==
  ASSUME round \in Nat, status \in Statuses \cup {"gone"}, NEW p \in Requests,
         NEW s \in Statuses \cup {"gone"}, Became(p, s)
  PROVE  status' \in Statuses \cup {"gone"} /\ round' \in Nat
  BY DEF Became

LEMMA TypeInit == Init => TypeOK
<1> SUFFICES ASSUME Init PROVE TypeOK
  OBVIOUS
<1>1. [action |-> "created", old |-> Keep, new |-> status] \in Entry
  BY DEF Init, Entry, AuditActions, Keep
<1>2. /\ <<[action |-> "created", old |-> Keep, new |-> status]>> \in Seq(Entry)
      /\ <<>> \in Seq(Entry)
  BY <1>1
<1>3. trail \in Seq(Entry)
  BY <1>2, Zenon DEF Init
<1> QED
  BY <1>3, IdleType, FaultsAssumption DEF Init, TypeOK, Entry

-----------------------------------------------------------------------------
(* Every variable keeps its type, step by step. *)

LEMMA TypeBegin == ASSUME TypeOK, NEW p \in Requests, Begin(p) PROVE TypeOK'
<1>1. req' \in [Requests -> RequestType]
  <2>1. PICK a \in Actors, k \in Transitions \cup {"edit", "delete"},
             t \in Statuses \cup {Keep}, l \in {Keep, "given", "blank"} :
          End(p) \/ req' = [req EXCEPT ![p] = NewRequest(a, k, t, l)]
    BY DEF Begin
  <2>2. NewRequest(a, k, t, l) \in RequestType
    BY DEF NewRequest, RequestType
  <2> QED
    BY <2>1, <2>2, EndType DEF TypeOK
<1> QED
  BY <1>1 DEF Begin, TypeOK, row, history

LEMMA TypeCheckLocation == ASSUME TypeOK, NEW p \in Requests, CheckLocation(p) PROVE TypeOK'
<1>1. req' \in [Requests -> RequestType]
  BY EndType, GotoType DEF CheckLocation, TypeOK
<1> QED
  BY <1>1 DEF CheckLocation, TypeOK, row, history

LEMMA TypeReadStatus == ASSUME TypeOK, NEW p \in Requests, ReadStatus(p) PROVE TypeOK'
<1>1. req' \in [Requests -> RequestType]
  BY EndType, SeenType DEF ReadStatus, TypeOK
<1> QED
  BY <1>1 DEF ReadStatus, TypeOK, row, history

LEMMA TypeGuardedUpdate == ASSUME TypeOK, NEW p \in Requests, GuardedUpdate(p) PROVE TypeOK'
<1>1. req' \in [Requests -> RequestType]
  BY EndType, GotoType DEF GuardedUpdate, Conflict, TypeOK
<1>2. status' \in Statuses \cup {"gone"} /\ round' \in Nat
  BY TargetType, BecameType DEF GuardedUpdate, TypeOK, history
<1>3. won' \in [Requests -> Nat]
  BY DEF GuardedUpdate, TypeOK, history
<1> QED
  BY <1>1, <1>2, <1>3 DEF GuardedUpdate, TypeOK

LEMMA TypeLogTransition == ASSUME TypeOK, NEW p \in Requests, LogTransition(p) PROVE TypeOK'
<1>1. req' \in [Requests -> RequestType]
  BY EndType, GotoType DEF LogTransition, TypeOK
<1>2. req[p].kind \in Transitions /\ req[p].seen \in Statuses \cup {"gone"}
  BY DEF LogTransition, At, TypeOK, RequestType
<1>3. trail' \in Seq(Entry)
  BY <1>2, LogType, TargetType, ActionType DEF LogTransition, TypeOK, Entry
<1> QED
  BY <1>1, <1>3 DEF LogTransition, TypeOK, Entry, row, history

LEMMA TypeNotify ==
  ASSUME TypeOK, NEW p \in Requests, Prune(p) \/ FindBubble(p) \/ SendBubble(p)
  PROVE  TypeOK'
<1>1. req' \in [Requests -> RequestType]
  BY EndType, GotoType DEF Prune, FindBubble, SendBubble, TypeOK
<1>2. bubbles' \in Nat
  BY DEF Prune, Pruned, FindBubble, SendBubble, TypeOK
<1> QED
  BY <1>1, <1>2 DEF Prune, FindBubble, SendBubble, TypeOK, row, history

LEMMA TypeReadForEdit == ASSUME TypeOK, NEW p \in Requests, ReadForEdit(p) PROVE TypeOK'
<1>1. req' \in [Requests -> RequestType]
  BY EndType, SeenType DEF ReadForEdit, TypeOK
<1> QED
  BY <1>1 DEF ReadForEdit, TypeOK, row, history

LEMMA TypeLogEdit == ASSUME TypeOK, NEW p \in Requests, LogEdit(p) PROVE TypeOK'
<1>1. req' \in [Requests -> RequestType]
  BY EndType, GotoType DEF LogEdit, TypeOK
<1>2. req[p].seen \in Statuses \cup {"gone"} /\ req[p].target \in Statuses \cup {Keep}
  BY DEF TypeOK, RequestType
<1>3. trail' \in Seq(Entry)
  BY <1>2, LogType DEF LogEdit, TypeOK, Entry, AuditActions
<1> QED
  BY <1>1, <1>3 DEF LogEdit, TypeOK, Entry, row, history

LEMMA TypeWriteEdit == ASSUME TypeOK, NEW p \in Requests, WriteEdit(p) PROVE TypeOK'
<1>1. req' \in [Requests -> RequestType]
  BY EndType DEF WriteEdit, TypeOK
<1>2. req[p].target \in Statuses \cup {Keep}
  BY DEF TypeOK, RequestType
<1>3. status' \in Statuses \cup {"gone"} /\ round' \in Nat
  BY <1>2, BecameType DEF WriteEdit, TypeOK, row
<1>4. located' \in BOOLEAN
  BY DEF WriteEdit, TypeOK, row
<1> QED
  BY <1>1, <1>3, <1>4 DEF WriteEdit, TypeOK

LEMMA TypeDelete == ASSUME TypeOK, NEW p \in Requests, Delete(p) PROVE TypeOK'
<1>1. CASE ReadForDelete(p)
  <2>1. req' \in [Requests -> RequestType]
    BY <1>1, EndType, SeenType DEF ReadForDelete, TypeOK
  <2> QED
    BY <1>1, <2>1 DEF ReadForDelete, TypeOK, row, history
<1>2. CASE DeleteImages(p)
  <2>1. req' \in [Requests -> RequestType]
    BY <1>2, GotoType DEF DeleteImages, TypeOK
  <2> QED
    BY <1>2, <2>1 DEF DeleteImages, TypeOK, row, history
<1>3. CASE LogDelete(p)
  <2>1. req' \in [Requests -> RequestType]
    BY <1>3, EndType, GotoType DEF LogDelete, TypeOK
  <2>2. req[p].seen \in Statuses \cup {"gone"}
    BY DEF TypeOK, RequestType
  <2>3. trail' \in Seq(Entry)
    BY <1>3, <2>2, LogType DEF LogDelete, TypeOK, Entry, AuditActions
  <2> QED
    BY <1>3, <2>1, <2>3 DEF LogDelete, TypeOK, Entry, row, history
<1>4. CASE DropRow(p)
  <2>1. req' \in [Requests -> RequestType]
    BY <1>4, GotoType DEF DropRow, TypeOK
  <2>2. trail' \in Seq(Entry)
    <3>1. trail' = <<>>
      BY <1>4 DEF DropRow
    <3> QED
      BY <3>1
  <2> QED
    BY <1>4, <2>1, <2>2 DEF DropRow, TypeOK, Entry, history
<1>5. CASE DropThreads(p)
  <2>1. req' \in [Requests -> RequestType]
    BY <1>5, EndType DEF DropThreads, TypeOK
  <2> QED
    BY <1>5, <2>1 DEF DropThreads, TypeOK, row, history
<1> QED
  BY <1>1, <1>2, <1>3, <1>4, <1>5 DEF Delete

LEMMA TypeFail == ASSUME TypeOK, NEW p \in Requests, Fail(p) PROVE TypeOK'
<1>1. req' \in [Requests -> RequestType]
  BY EndType DEF Fail, TypeOK
<1>2. faults' \in 0..MaxFaults
  BY FaultsAssumption DEF Fail, TypeOK
<1> QED
  BY <1>1, <1>2 DEF Fail, TypeOK, row, history

(* A step of the specification is a step of some request, or changes nothing. *)
LEMMA NextStep ==
  ASSUME [Next]_vars
  PROVE  (\E p \in Requests : Step(p)) \/ UNCHANGED vars
  BY DEF Next, Done, Step

LEMMA TypeNext == TypeOK /\ [Next]_vars => TypeOK'
<1> SUFFICES ASSUME TypeOK, [Next]_vars PROVE TypeOK'
  OBVIOUS
<1>1. CASE UNCHANGED vars
  BY <1>1 DEF TypeOK, vars, row, history
<1>2. ASSUME NEW p \in Requests, Step(p) PROVE TypeOK'
  <2>1. CASE Transition(p)
    BY <2>1, TypeCheckLocation, TypeReadStatus, TypeGuardedUpdate, TypeLogTransition, TypeNotify
       DEF Transition
  <2>2. CASE Edit(p)
    BY <2>2, TypeReadForEdit, TypeLogEdit, TypeWriteEdit DEF Edit
  <2> QED
    BY <1>2, <2>1, <2>2, TypeBegin, TypeDelete, TypeFail DEF Step
<1> QED
  BY <1>1, <1>2, NextStep

(* The review keeps the type of every variable, for any number of requests,
   administrators and faults.                                               *)
THEOREM TypeCorrect == Spec => []TypeOK
<1> QED
  BY TypeInit, TypeNext, PTL DEF Spec

-----------------------------------------------------------------------------
(* One decision per submission.  The property alone is not inductive: it     *)
(* says nothing of the round a pending receipt is in, which no request has   *)
(* ended yet.                                                                *)
Counted   == \A p \in Requests : won[p] <= round
OpenRound == status = "pending_approval" => \A p \in Requests : won[p] < round

DecisionInv == TypeOK /\ Counted /\ OpenRound /\ OnePerSubmission

(* A new status opens a round or leaves the open one as it is. *)
LEMMA BecameDecision ==
  ASSUME DecisionInv, NEW p \in Requests, NEW s, Became(p, s), UNCHANGED won
  PROVE  Counted' /\ OpenRound' /\ OnePerSubmission'
<1>1. \A q \in Requests : won[q] \in Nat /\ won[q] <= round
  BY DEF DecisionInv, TypeOK, Counted
<1>2. round \in Nat
  BY DEF DecisionInv, TypeOK
<1>3. OnePerSubmission'
  BY DEF DecisionInv, OnePerSubmission
<1>4. Counted'
  BY <1>1, <1>2 DEF Became, Counted
<1>5. OpenRound'
  BY <1>1, <1>2 DEF Became, OpenRound, DecisionInv
<1> QED
  BY <1>3, <1>4, <1>5

LEMMA GuardedUpdateDecision ==
  ASSUME DecisionInv, NEW p \in Requests, GuardedUpdate(p)
  PROVE  Counted' /\ OpenRound' /\ OnePerSubmission'
<1>1. CASE ~Matches(p)
  BY <1>1 DEF GuardedUpdate, history, DecisionInv, Counted, OpenRound, OnePerSubmission
<1>2. CASE Matches(p) /\ req[p].kind = "submit"
  <2>1. Became(p, Target(req[p].kind)) /\ UNCHANGED won
    BY <1>2 DEF GuardedUpdate
  <2> QED
    BY <2>1, BecameDecision
<1>3. CASE Matches(p) /\ req[p].kind # "submit"
  <2>1. status = "pending_approval"
    BY <1>3 DEF Matches, Prereq
  <2>2. status' # "pending_approval" /\ round' = round
    BY <1>3 DEF GuardedUpdate, Became, Target
  <2>3. won' = [won EXCEPT ![p] = round]
    BY <1>3 DEF GuardedUpdate
  <2>4. \A q \in Requests : won[q] \in Nat /\ won[q] < round
    BY <2>1 DEF DecisionInv, TypeOK, OpenRound
  <2>5. round \in Nat /\ won \in [Requests -> Nat]
    BY DEF DecisionInv, TypeOK
  <2>6. Counted' /\ OpenRound'
    BY <2>2, <2>3, <2>4, <2>5 DEF Counted, OpenRound
  <2>7. OnePerSubmission'
    BY <2>3, <2>4, <2>5 DEF DecisionInv, OnePerSubmission
  <2> QED
    BY <2>6, <2>7
<1> QED
  BY <1>1, <1>2, <1>3

LEMMA WriteEditDecision ==
  ASSUME DecisionInv, NEW p \in Requests, WriteEdit(p)
  PROVE  Counted' /\ OpenRound' /\ OnePerSubmission'
<1>1. CASE status = "gone"
  BY <1>1 DEF WriteEdit, row, DecisionInv, Counted, OpenRound, OnePerSubmission
<1>2. CASE status # "gone"
  BY <1>2, BecameDecision DEF WriteEdit
<1> QED
  BY <1>1, <1>2

LEMMA DropRowDecision ==
  ASSUME DecisionInv, NEW p \in Requests, DropRow(p)
  PROVE  Counted' /\ OpenRound' /\ OnePerSubmission'
  BY DEF DropRow, history, DecisionInv, Counted, OpenRound, OnePerSubmission

(* No other step touches the status or the history. *)
LEMMA OtherSteps ==
  ASSUME NEW p \in Requests, Step(p), ~GuardedUpdate(p), ~WriteEdit(p), ~DropRow(p)
  PROVE  UNCHANGED <<status, round, won>>
  BY DEF Step, Transition, Edit, Delete, Begin, CheckLocation, ReadStatus, LogTransition,
         Prune, FindBubble, SendBubble, ReadForEdit, LogEdit, ReadForDelete, DeleteImages,
         LogDelete, DropThreads, Fail, row, history

LEMMA DecisionInit == Init => DecisionInv
  BY TypeInit DEF Init, DecisionInv, Counted, OpenRound, OnePerSubmission

LEMMA DecisionNext == DecisionInv /\ [Next]_vars => DecisionInv'
<1> SUFFICES ASSUME DecisionInv, [Next]_vars PROVE DecisionInv'
  OBVIOUS
<1>1. TypeOK'
  BY TypeNext DEF DecisionInv
<1>2. CASE UNCHANGED <<status, round, won>>
  BY <1>1, <1>2 DEF DecisionInv, Counted, OpenRound, OnePerSubmission
<1>3. ASSUME NEW p \in Requests, Step(p) PROVE DecisionInv'
  <2>1. CASE GuardedUpdate(p) \/ WriteEdit(p) \/ DropRow(p)
    BY <1>1, <2>1, GuardedUpdateDecision, WriteEditDecision, DropRowDecision DEF DecisionInv
  <2> QED
    BY <1>2, <1>3, <2>1, OtherSteps
<1> QED
  BY <1>2, <1>3, NextStep DEF vars, row, history

(* However many administrators and requests of the owner act on a receipt at
   once, each submission of it is approved, rejected or recalled at most once. *)
THEOREM DecidedOnce == Spec => []OnePerSubmission
<1>1. DecisionInv => OnePerSubmission
  BY DEF DecisionInv
<1> QED
  BY <1>1, DecisionInit, DecisionNext, PTL DEF Spec

-----------------------------------------------------------------------------
(* Only administrators finish a receipt.  What a request may still write was *)
(* checked when it read the receipt, which has changed since; so the         *)
(* invariant is about what requests carry, not about the receipt.            *)
Rightful(r) ==
    /\ r.kind = "approve" => r.actor \in Admins
    /\ r.kind = "edit" /\ r.pc \in {"audit", "write"} /\ r.target = "processed"
         => r.actor \in Admins

AdminInv == TypeOK /\ \A p \in Requests : Rightful(req[p])

LEMMA EndRightful ==
  ASSUME AdminInv, NEW p \in Requests, End(p)
  PROVE  \A q \in Requests : Rightful(req'[q])
  BY DEF End, AdminInv, TypeOK, Over, Idle, Rightful

LEMMA GotoRightful ==
  ASSUME AdminInv, NEW p \in Requests, NEW pc, Goto(p, pc),
         req[p].kind # "edit" \/ req[p].pc \in {"audit", "write"}
  PROVE  \A q \in Requests : Rightful(req'[q])
<1>1. /\ Rightful(req[p])
      /\ req' = [req EXCEPT ![p] = [req[p] EXCEPT !.pc = pc]]
      /\ req[p] \in RequestType /\ req \in [Requests -> RequestType]
  BY DEF Goto, AdminInv, TypeOK
<1>2. Rightful([req[p] EXCEPT !.pc = pc])
  BY <1>1 DEF Rightful, RequestType
<1> QED
  BY <1>1, <1>2 DEF AdminInv

LEMMA SeenRightful ==
  ASSUME AdminInv, NEW p \in Requests, NEW pc,
         req' = [req EXCEPT ![p].pc = pc, ![p].seen = status],
         req[p].kind = "edit" /\ req[p].target = "processed" => req[p].actor \in Admins
  PROVE  \A q \in Requests : Rightful(req'[q])
<1>1. /\ Rightful(req[p])
      /\ req' = [req EXCEPT ![p] = [req[p] EXCEPT !.pc = pc, !.seen = status]]
      /\ req[p] \in RequestType /\ req \in [Requests -> RequestType]
  BY DEF AdminInv, TypeOK
<1>2. Rightful([req[p] EXCEPT !.pc = pc, !.seen = status])
  BY <1>1 DEF Rightful, RequestType
<1> QED
  BY <1>1, <1>2 DEF AdminInv

LEMMA BeginRightful ==
  ASSUME AdminInv, NEW p \in Requests, Begin(p)
  PROVE  \A q \in Requests : Rightful(req'[q])
<1>1. PICK a \in Actors, k \in Transitions \cup {"edit", "delete"},
           t \in Statuses \cup {Keep}, l \in {Keep, "given", "blank"} :
        \/ End(p)
        \/ /\ k \in AdminOnly => a \in Admins
           /\ req' = [req EXCEPT ![p] = NewRequest(a, k, t, l)]
  BY DEF Begin
<1>2. (k \in AdminOnly => a \in Admins) => Rightful(NewRequest(a, k, t, l))
  BY DEF NewRequest, Rightful, AdminOnly
<1> QED
  BY <1>1, <1>2, EndRightful DEF AdminInv, TypeOK

LEMMA TransitionRightful ==
  ASSUME AdminInv, NEW p \in Requests, Transition(p)
  PROVE  \A q \in Requests : Rightful(req'[q])
<1>1. req[p].kind # "edit"
  BY DEF Transition, CheckLocation, ReadStatus, GuardedUpdate, LogTransition, Prune,
         FindBubble, SendBubble, At, Transitions
<1>2. CASE ReadStatus(p)
  BY <1>1, <1>2, EndRightful, SeenRightful DEF ReadStatus
<1>3. CASE ~ReadStatus(p)
  <2>1. End(p) \/ \E pc : Goto(p, pc)
    BY <1>3 DEF Transition, CheckLocation, GuardedUpdate, Conflict, LogTransition, Prune,
                FindBubble, SendBubble
  <2> QED
    BY <2>1, <1>1, EndRightful, GotoRightful
<1> QED
  BY <1>2, <1>3

LEMMA EditRightful ==
  ASSUME AdminInv, NEW p \in Requests, Edit(p)
  PROVE  \A q \in Requests : Rightful(req'[q])
<1>1. CASE ReadForEdit(p)
  <2>1. CASE End(p)
    BY <2>1, EndRightful
  <2>2. CASE ~End(p)
    <3>1. /\ req' = [req EXCEPT ![p].pc = "audit", ![p].seen = status]
          /\ ~ReadOnly(req[p].actor)
          /\ assert_status_transition(status,
               IF req[p].target = Keep THEN status ELSE req[p].target, req[p].actor)
      BY <1>1, <2>2 DEF ReadForEdit
    <3>2. req[p].target = "processed" => req[p].actor \in Admins
      BY <3>1 DEF ReadOnly, assert_status_transition, Keep
    <3> QED
      BY <3>1, <3>2, SeenRightful
  <2> QED
    BY <2>1, <2>2
<1>2. CASE LogEdit(p)
  BY <1>2, EndRightful, GotoRightful DEF LogEdit, At
<1>3. CASE WriteEdit(p)
  BY <1>3, EndRightful DEF WriteEdit
<1> QED
  BY <1>1, <1>2, <1>3 DEF Edit

LEMMA DeleteRightful ==
  ASSUME AdminInv, NEW p \in Requests, Delete(p)
  PROVE  \A q \in Requests : Rightful(req'[q])
<1>1. req[p].kind # "edit"
  BY DEF Delete, ReadForDelete, DeleteImages, LogDelete, DropRow, DropThreads, At
<1>2. CASE ReadForDelete(p)
  BY <1>1, <1>2, EndRightful, SeenRightful DEF ReadForDelete
<1>3. CASE ~ReadForDelete(p)
  <2>1. End(p) \/ \E pc : Goto(p, pc)
    BY <1>3 DEF Delete, DeleteImages, LogDelete, DropRow, DropThreads
  <2> QED
    BY <2>1, <1>1, EndRightful, GotoRightful
<1> QED
  BY <1>2, <1>3

LEMMA AdminInit == Init => AdminInv
  BY TypeInit DEF Init, AdminInv, Rightful, Idle

LEMMA AdminNext == AdminInv /\ [Next]_vars => AdminInv'
<1> SUFFICES ASSUME AdminInv, [Next]_vars PROVE AdminInv'
  OBVIOUS
<1>1. TypeOK'
  BY TypeNext DEF AdminInv
<1>2. CASE UNCHANGED vars
  BY <1>1, <1>2 DEF vars, AdminInv, Rightful
<1>3. ASSUME NEW p \in Requests, Step(p) PROVE \A q \in Requests : Rightful(req'[q])
  BY <1>3, BeginRightful, TransitionRightful, EditRightful, DeleteRightful, EndRightful
     DEF Step, Fail
<1> QED
  BY <1>1, <1>2, <1>3, NextStep DEF AdminInv, Rightful

(* The step that makes a receipt processed is an administrator's. *)
LEMMA FinishStep ==
  ASSUME AdminInv, [Next]_vars, status # "processed", status' = "processed"
  PROVE  \E p \in Requests : req[p].actor \in Admins /\ req'[p] # req[p]
<1>1. PICK p \in Requests : Step(p)
  BY NextStep DEF vars, row
<1>2. req \in [Requests -> RequestType] /\ Rightful(req[p])
  BY DEF AdminInv, TypeOK
<1>3. CASE GuardedUpdate(p)
  <2>1. Matches(p) /\ Target(req[p].kind) = "processed"
    BY <1>3 DEF GuardedUpdate, Became
  <2>2. req[p].kind = "approve"
    BY <2>1, <1>3 DEF Target
  <2>3. req'[p].pc # req[p].pc
    <3>1. req[p].pc = "update" /\ req[p] \in RequestType
      BY <1>2, <1>3 DEF GuardedUpdate, At
    <3>2. req' = [req EXCEPT ![p] = [req[p] EXCEPT !.pc = "audit"]]
      BY <1>3, <2>1 DEF GuardedUpdate, Goto
    <3>3. [req[p] EXCEPT !.pc = "audit"].pc = "audit"
      BY <3>1 DEF RequestType
    <3> QED
      BY <3>1, <3>2, <3>3, <1>2
  <2> QED
    BY <2>2, <2>3, <1>2 DEF Rightful
<1>4. CASE WriteEdit(p)
  <2>1. req[p].kind = "edit" /\ req[p].pc = "write" /\ req[p].target = "processed"
    BY <1>4 DEF WriteEdit, Became, At, row
  <2>2. req'[p].pc # req[p].pc
    <3>1. req' = [req EXCEPT ![p] = Over] /\ Over.pc = "over"
      BY <1>4 DEF WriteEdit, End, Over, Idle
    <3> QED
      BY <3>1, <2>1, <1>2
  <2> QED
    BY <2>1, <2>2, <1>2 DEF Rightful
<1>5. CASE DropRow(p)
  BY <1>5 DEF DropRow
<1> QED
  BY <1>1, <1>3, <1>4, <1>5, OtherSteps

(* Whatever the owner sends, whatever administrators change in the meantime,
   only an administrator's request makes a receipt processed.               *)
THEOREM AdminsFinish == Spec => OnlyAdminsFinish
<1>1. AdminInv /\ [Next]_vars =>
        [status # "processed" /\ status' = "processed" =>
           \E p \in Requests : req[p].actor \in Admins /\ req'[p] # req[p]]_vars
  BY FinishStep
<1> QED
  BY <1>1, AdminInit, AdminNext, PTL DEF Spec, OnlyAdminsFinish

-----------------------------------------------------------------------------
(* A receipt has its images until a deletion that is under way takes them, and *)
(* only the request that has taken them can take the row.                      *)
LEMMA ImagesNext ==
  ASSUME TypeOK, ImagesStay, [Next]_vars
  PROVE  ImagesStay'
<1>1. CASE UNCHANGED vars
  BY <1>1 DEF vars, row, ImagesStay, At
<1>2. ASSUME NEW p \in Requests, Fail(p) PROVE ImagesStay'
  BY <1>2, FaultsAssumption DEF Fail, ImagesStay, TypeOK
<1>3. ASSUME NEW p \in Requests, Step(p), ~Fail(p) PROVE ImagesStay'
  <2>1. PICK r : req' = [req EXCEPT ![p] = r]
    BY <1>3 DEF Step, Begin, Transition, CheckLocation, ReadStatus, GuardedUpdate, Conflict,
                LogTransition, Prune, FindBubble, SendBubble, Edit, ReadForEdit, LogEdit, WriteEdit,
                Delete, ReadForDelete, DeleteImages, LogDelete, DropRow, DropThreads, Goto, End
  <2>2. \A q \in Requests : q # p => req'[q] = req[q]
    BY <2>1 DEF TypeOK
  <2>3. status' # "gone" => status # "gone"
    BY <1>3 DEF Step, Begin, Transition, CheckLocation, ReadStatus, GuardedUpdate, Matches, Prereq,
                Became, LogTransition, Prune, FindBubble, SendBubble, Edit, ReadForEdit, LogEdit,
                WriteEdit, Delete, ReadForDelete, DeleteImages, LogDelete, DropRow, DropThreads,
                row, history
  <2>4. CASE DeleteImages(p)
    <3>1. req' = [req EXCEPT ![p] = [req[p] EXCEPT !.pc = "audit"]] /\ req[p].kind = "delete"
      BY <2>4 DEF DeleteImages, Goto, At
    <3>2. At(p, {"delete"}, "audit")'
      BY <3>1 DEF TypeOK, RequestType, At
    <3> QED
      BY <3>2 DEF ImagesStay
  <2>5. CASE LogDelete(p)
    <3>1. CASE status = "gone"
      BY <2>3, <3>1 DEF ImagesStay
    <3>2. CASE status # "gone"
      <4>1. req' = [req EXCEPT ![p] = [req[p] EXCEPT !.pc = "drop"]] /\ req[p].kind = "delete"
        BY <2>5, <3>2 DEF LogDelete, Goto, At
      <4>2. At(p, {"delete"}, "drop")'
        BY <4>1 DEF TypeOK, RequestType, At
      <4> QED
        BY <4>2 DEF ImagesStay
    <3> QED
      BY <3>1, <3>2
  <2>6. CASE DropRow(p)
    BY <2>6 DEF DropRow, ImagesStay
  <2>7. CASE ~DeleteImages(p) /\ ~LogDelete(p) /\ ~DropRow(p)
    <3>1. UNCHANGED <<images, faults>>
      BY <1>3, <2>7 DEF Step, Begin, Transition, CheckLocation, ReadStatus, GuardedUpdate,
                LogTransition, Prune, FindBubble, SendBubble, Edit, ReadForEdit, LogEdit, WriteEdit,
                Delete, ReadForDelete, DropThreads
    <3>2. ~At(p, {"delete"}, "audit") /\ ~At(p, {"delete"}, "drop")
      BY <1>3, <2>7 DEF Step, Begin, Transition, CheckLocation, ReadStatus, GuardedUpdate,
                LogTransition, Prune, FindBubble, SendBubble, Edit, ReadForEdit, LogEdit, WriteEdit,
                Delete, ReadForDelete, DropThreads, At, Transitions
    <3> QED
      BY <2>2, <2>3, <3>1, <3>2 DEF ImagesStay, At
  <2> QED
    BY <2>4, <2>5, <2>6, <2>7
<1> QED
  BY <1>1, <1>2, <1>3, NextStep

(* While its row exists a receipt has its images, but for a deletion that is about
   to take the row too, or was cut short.                                        *)
THEOREM ImagesKept == Spec => []ImagesStay
<1>1. Init => TypeOK /\ ImagesStay
  BY TypeInit DEF Init, ImagesStay
<1>2. TypeOK /\ ImagesStay /\ [Next]_vars => (TypeOK /\ ImagesStay)'
  BY TypeNext, ImagesNext
<1> QED
  BY <1>1, <1>2, PTL DEF Spec

-----------------------------------------------------------------------------
(* The trail accounts for the status.  Between its guarded UPDATE and its entry *)
(* a transition owes the trail that entry; with what is owed the trail balances *)
(* at every moment.  Only the requests that have begun can owe one, and they    *)
(* are finitely many, however many may still come.                              *)
Begun    == {p \in Requests : req[p].pc # "idle"}
Owing(K) == {p \in Requests : req[p].kind \in K /\ req[p].pc = "audit"}
Count(b) == IF b THEN 1 ELSE 0

Submits   == {"submit"}
Decides   == {"recall", "approve", "reject"}
DecidesAs == {"recalled", "approved", "rejected"}

Balance ==
    faults = 0 /\ ~StatusSent /\ status # "gone" =>
        Entries({"submitted"}) + Cardinality(Owing(Submits)) + Count(BornPending)
          = Entries(DecidesAs) + Cardinality(Owing(Decides)) + Count(status = "pending_approval")

(* An edit has told the trail what it is about to write. *)
EditsTell ==
    status # "gone" =>
        \A p \in Requests : At(p, {"edit"}, "write") /\ req[p].target # Keep => StatusSent

TrailInv == TypeOK /\ IsFiniteSet(Begun) /\ EditsTell /\ Balance

LEMMA OwingFinite ==
  ASSUME IsFiniteSet(Begun), NEW K
  PROVE  IsFiniteSet(Owing(K)) /\ Cardinality(Owing(K)) \in Nat
<1>1. Owing(K) \in SUBSET Begun
  BY DEF Owing, Begun
<1> QED
  BY <1>1, FS_Subset, FS_CardinalityType

LEMMA EntriesFinite ==
  ASSUME trail \in Seq(Entry), NEW A
  PROVE  /\ IsFiniteSet({n \in DOMAIN trail : trail[n].action \in A})
         /\ Entries(A) \in Nat
<1>1. DOMAIN trail = 1..Len(trail) /\ Len(trail) \in Nat
  OBVIOUS
<1>2. {n \in DOMAIN trail : trail[n].action \in A} \in SUBSET (1..Len(trail))
  BY <1>1
<1>3. IsFiniteSet(1..Len(trail))
  BY <1>1, FS_Interval
<1>4. IsFiniteSet({n \in DOMAIN trail : trail[n].action \in A})
  BY <1>2, <1>3, FS_Subset
<1> QED
  BY <1>4, FS_CardinalityType DEF Entries

(* What one more entry does to the counts. *)
LEMMA LogCounts ==
  ASSUME trail \in Seq(Entry), NEW a \in AuditActions,
         NEW old \in Statuses \cup {Keep, "gone"}, NEW new \in Statuses \cup {Keep},
         Log(a, old, new)
  PROVE  /\ \A A : Entries(A)' = Entries(A) + Count(a \in A)
         /\ StatusSent' <=> StatusSent \/ (a = "updated" /\ new # Keep)
         /\ a # "created" => (BornPending' <=> BornPending)
<1> DEFINE e == [action |-> a, old |-> old, new |-> new]
           last == Len(trail) + 1
<1>1. /\ trail' = Append(trail, e) /\ e.action = a /\ e.new = new /\ e \in Entry
      /\ Len(trail) \in Nat /\ DOMAIN trail = 1..Len(trail)
  BY DEF Log, Entry
<1> HIDE DEF e
<1>2. /\ DOMAIN trail' = DOMAIN trail \cup {last} /\ last \notin DOMAIN trail
      /\ trail'[last] = e /\ \A n \in DOMAIN trail : trail'[n] = trail[n]
  BY <1>1
<1>3. ASSUME NEW A PROVE Entries(A)' = Entries(A) + Count(a \in A)
  <2> DEFINE S == {n \in DOMAIN trail : trail[n].action \in A}
  <2>1. IsFiniteSet(S) /\ Cardinality(S) \in Nat /\ last \notin S
    BY <1>2, EntriesFinite, FS_CardinalityType
  <2>2. {n \in DOMAIN trail' : trail'[n].action \in A} = IF a \in A THEN S \cup {last} ELSE S
    BY <1>1, <1>2
  <2> HIDE DEF S, last
  <2>3. Cardinality(S \cup {last}) = Cardinality(S) + 1
    BY <2>1, FS_AddElement
  <2>4. Entries(A)' = IF a \in A THEN Cardinality(S) + 1 ELSE Cardinality(S)
    BY <2>2, <2>3 DEF Entries
  <2>5. Entries(A) = Cardinality(S)
    BY DEF Entries, S
  <2> QED
    BY <2>1, <2>4, <2>5 DEF Count
<1>4. StatusSent' <=> StatusSent \/ (a = "updated" /\ new # Keep)
  BY <1>1, <1>2 DEF StatusSent
<1>5. a # "created" => (BornPending' <=> BornPending)
  BY <1>1, <1>2 DEF BornPending
<1> QED
  BY <1>3, <1>4, <1>5

(* What the step of one request does to what is owed. *)
LEMMA OwingMoves ==
  ASSUME IsFiniteSet(Begun), NEW p \in Requests, \A q \in Requests : q # p => req'[q] = req[q],
         NEW K
  PROVE  Cardinality(Owing(K)') = Cardinality(Owing(K)) + Count(p \in Owing(K)' /\ p \notin Owing(K))
                                                        - Count(p \in Owing(K) /\ p \notin Owing(K)')
<1>1. IsFiniteSet(Owing(K)) /\ Cardinality(Owing(K)) \in Nat
  BY OwingFinite
<1>2. CASE p \in Owing(K)' /\ p \notin Owing(K)
  <2>1. Owing(K)' = Owing(K) \cup {p}
    BY <1>2 DEF Owing
  <2>2. Cardinality(Owing(K) \cup {p}) = Cardinality(Owing(K)) + 1
    BY <1>1, <1>2, FS_AddElement
  <2> QED
    BY <1>1, <1>2, <2>1, <2>2 DEF Count
<1>3. CASE p \in Owing(K) /\ p \notin Owing(K)'
  <2>1. Owing(K)' = Owing(K) \ {p}
    BY <1>3 DEF Owing
  <2>2. Cardinality(Owing(K) \ {p}) = Cardinality(Owing(K)) - 1
    BY <1>1, <1>3, FS_RemoveElement
  <2> QED
    BY <1>1, <1>3, <2>1, <2>2 DEF Count
<1>4. CASE p \in Owing(K) <=> p \in Owing(K)'
  <2>1. Owing(K)' = Owing(K)
    BY <1>4 DEF Owing
  <2> QED
    BY <1>1, <1>4, <2>1 DEF Count
<1> QED
  BY <1>2, <1>3, <1>4

LEMMA OneRequestMoves ==
  ASSUME TypeOK, NEW p \in Requests, Step(p)
  PROVE  /\ \A q \in Requests : q # p => req'[q] = req[q]
         /\ Begun' \subseteq Begun \cup {p}
         /\ status' # "gone" => status # "gone"
<1>1. PICK r : req' = [req EXCEPT ![p] = r]
  BY DEF Step, Begin, Transition, CheckLocation, ReadStatus, GuardedUpdate, Conflict,
         LogTransition, Prune, FindBubble, SendBubble, Edit, ReadForEdit, LogEdit, WriteEdit,
         Delete, ReadForDelete, DeleteImages, LogDelete, DropRow, DropThreads, Fail, Goto, End
<1>2. \A q \in Requests : q # p => req'[q] = req[q]
  BY <1>1 DEF TypeOK
<1>3. status' # "gone" => status # "gone"
  BY DEF Step, Begin, Transition, CheckLocation, ReadStatus, GuardedUpdate, Matches, Prereq,
         Became, LogTransition, Prune, FindBubble, SendBubble, Edit, ReadForEdit, LogEdit,
         WriteEdit, Delete, ReadForDelete, DeleteImages, LogDelete, DropRow, DropThreads, Fail,
         row, history
<1> QED
  BY <1>2, <1>3 DEF Begun

-----------------------------------------------------------------------------
(* The steps that change the status or owe, or pay, an entry. *)

LEMMA BalanceUpdate ==
  ASSUME TrailInv, NEW p \in Requests, GuardedUpdate(p)
  PROVE  Balance'
<1>0. TypeOK /\ IsFiniteSet(Begun) /\ \A q \in Requests : q # p => req'[q] = req[q]
  BY OneRequestMoves DEF TrailInv, Step, Transition
<1>1. /\ UNCHANGED <<trail, faults>> /\ req[p].kind \in Transitions /\ req[p].pc = "update"
      /\ req[p] \in RequestType
  BY <1>0 DEF GuardedUpdate, At, TypeOK
<1>2. /\ UNCHANGED <<StatusSent, BornPending>> /\ \A A : Entries(A)' = Entries(A)
      /\ \A A : Entries(A) \in Nat
  BY <1>0, <1>1, EntriesFinite DEF StatusSent, BornPending, Entries, TypeOK, Entry
<1>3. p \notin Owing(Submits) /\ p \notin Owing(Decides)
  BY <1>1 DEF Owing
<1>4. Cardinality(Owing(Submits)) \in Nat /\ Cardinality(Owing(Decides)) \in Nat
  BY <1>0, OwingFinite
<1>5. CASE ~Matches(p)
  <2>1. UNCHANGED status /\ req'[p] = Over
    BY <1>0, <1>5 DEF GuardedUpdate, Conflict, End, TypeOK
  <2>2. p \notin Owing(Submits)' /\ p \notin Owing(Decides)'
    BY <2>1 DEF Owing, Over, Idle
  <2>3. /\ Cardinality(Owing(Submits)') = Cardinality(Owing(Submits))
        /\ Cardinality(Owing(Decides)') = Cardinality(Owing(Decides))
    BY <1>0, <1>3, <1>4, <2>2, OwingMoves DEF Count
  <2> QED
    BY <1>1, <1>2, <2>1, <2>3 DEF TrailInv, Balance
<1>6. CASE Matches(p)
  <2>1. /\ status' = Target(req[p].kind) /\ status = Prereq(req[p].kind)
        /\ req' = [req EXCEPT ![p] = [req[p] EXCEPT !.pc = "audit"]]
    BY <1>6 DEF GuardedUpdate, Matches, Became, Goto
  <2>2. req'[p].pc = "audit" /\ req'[p].kind = req[p].kind
    BY <1>0, <1>1, <2>1 DEF TypeOK, RequestType
  <2>3. CASE req[p].kind = "submit"
    <3>1. status = "needs_review" /\ status' = "pending_approval"
      BY <2>1, <2>3 DEF Target, Prereq
    <3>2. p \in Owing(Submits)' /\ p \notin Owing(Decides)'
      BY <2>2, <2>3 DEF Owing, Submits, Decides
    <3>3. /\ Cardinality(Owing(Submits)') = Cardinality(Owing(Submits)) + 1
          /\ Cardinality(Owing(Decides)') = Cardinality(Owing(Decides))
      BY <1>0, <1>3, <1>4, <3>2, OwingMoves DEF Count
    <3> QED
      BY <1>1, <1>2, <1>4, <3>1, <3>3 DEF TrailInv, Balance, Count
  <2>4. CASE req[p].kind # "submit"
    <3>1. status = "pending_approval" /\ status' \in Statuses \ {"pending_approval"}
      BY <1>1, <2>1, <2>4 DEF Target, Prereq, Statuses
    <3>2. p \notin Owing(Submits)' /\ p \in Owing(Decides)'
      BY <1>1, <2>2, <2>4 DEF Owing, Submits, Decides, Transitions
    <3>3. /\ Cardinality(Owing(Submits)') = Cardinality(Owing(Submits))
          /\ Cardinality(Owing(Decides)') = Cardinality(Owing(Decides)) + 1
      BY <1>0, <1>3, <1>4, <3>2, OwingMoves DEF Count
    <3> QED
      BY <1>1, <1>2, <1>4, <3>1, <3>3 DEF TrailInv, Balance, Count
  <2> QED
    BY <2>3, <2>4
<1> QED
  BY <1>5, <1>6

LEMMA BalanceLog ==
  ASSUME TrailInv, NEW p \in Requests, LogTransition(p)
  PROVE  Balance'
<1>0. /\ TypeOK /\ IsFiniteSet(Begun) /\ trail \in Seq(Entry)
      /\ \A q \in Requests : q # p => req'[q] = req[q]
  BY OneRequestMoves DEF TrailInv, Step, Transition, TypeOK, Entry
<1>1. /\ UNCHANGED <<status, faults>> /\ req[p].kind \in Transitions /\ req[p].pc = "audit"
      /\ req[p] \in RequestType
  BY <1>0 DEF LogTransition, At, row, TypeOK
<1>2. CASE status = "gone"
  BY <1>1, <1>2 DEF Balance
<1>3. CASE status # "gone"
  <2>1. Log(Action(req[p].kind), req[p].seen, Target(req[p].kind))
    BY <1>3 DEF LogTransition
  <2>2. /\ Action(req[p].kind) \in AuditActions /\ Target(req[p].kind) \in Statuses
        /\ req[p].seen \in Statuses \cup {"gone"} /\ Action(req[p].kind) \notin {"updated", "created"}
    BY <1>1, ActionType, TargetType DEF RequestType, Action, Transitions
  <2>3. /\ (StatusSent' <=> StatusSent) /\ (BornPending' <=> BornPending)
        /\ \A A : Entries(A)' = Entries(A) + Count(Action(req[p].kind) \in A)
    BY <1>0, <2>1, <2>2, LogCounts
  <2>9. Entries({"submitted"}) \in Nat /\ Entries(DecidesAs) \in Nat
    BY <1>0, EntriesFinite
  <2>4. req'[p].pc # "audit"
    BY <1>0, <1>1, <1>3 DEF LogTransition, End, Goto, Over, Idle, TypeOK, RequestType
  <2>5. p \notin Owing(Submits)' /\ p \notin Owing(Decides)'
    BY <2>4 DEF Owing
  <2>6. Cardinality(Owing(Submits)) \in Nat /\ Cardinality(Owing(Decides)) \in Nat
    BY <1>0, OwingFinite
  <2>7. /\ Cardinality(Owing(Submits)') = Cardinality(Owing(Submits)) - Count(req[p].kind \in Submits)
        /\ Cardinality(Owing(Decides)') = Cardinality(Owing(Decides)) - Count(req[p].kind \in Decides)
    <3>1. /\ p \in Owing(Submits) <=> req[p].kind \in Submits
          /\ p \in Owing(Decides) <=> req[p].kind \in Decides
      BY <1>1 DEF Owing
    <3> QED
      BY <1>0, <2>5, <2>6, <3>1, OwingMoves DEF Count
  <2>8. /\ Action(req[p].kind) \in {"submitted"} <=> req[p].kind \in Submits
        /\ Action(req[p].kind) \in DecidesAs <=> req[p].kind \in Decides
    BY <1>1 DEF Action, Submits, Decides, DecidesAs, Transitions
  <2> QED
    BY <1>1, <2>3, <2>6, <2>7, <2>8, <2>9 DEF TrailInv, Balance, Count
<1> QED
  BY <1>2, <1>3

(* Every other step leaves what is owed; an entry it writes is of another kind. *)
LEMMA BalanceOther ==
  ASSUME TrailInv, NEW p \in Requests, Step(p), ~GuardedUpdate(p), ~LogTransition(p)
  PROVE  Balance'
<1> SUFFICES ASSUME faults' = 0, ~StatusSent', status' # "gone"
             PROVE  Balance'
  BY DEF Balance
<1>0. /\ TypeOK /\ IsFiniteSet(Begun) /\ trail \in Seq(Entry) /\ req[p] \in RequestType
      /\ req \in [Requests -> RequestType]
      /\ \A q \in Requests : q # p => req'[q] = req[q]
      /\ status # "gone"
  BY OneRequestMoves DEF TrailInv, TypeOK, Entry
<1>1. ~Fail(p) /\ ~DropRow(p) /\ faults = 0
  BY <1>0 DEF Fail, DropRow, Step, Begin, Transition, CheckLocation, ReadStatus,
              Prune, FindBubble, SendBubble, Edit, ReadForEdit, LogEdit, WriteEdit, Delete,
              ReadForDelete, DeleteImages, LogDelete, DropThreads, TypeOK
<1>2. p \notin Owing(Submits) /\ p \notin Owing(Decides)
  <2>1. ~(req[p].kind \in Transitions /\ req[p].pc = "audit")
    BY <1>1 DEF Step, Begin, Transition, CheckLocation, ReadStatus,
                Prune, FindBubble, SendBubble, Edit, ReadForEdit, LogEdit, WriteEdit, Delete,
                ReadForDelete, DeleteImages, LogDelete, DropThreads, At, Transitions
  <2> QED
    BY <2>1 DEF Owing, Submits, Decides, Transitions
<1>3. p \notin Owing(Submits)' /\ p \notin Owing(Decides)'
  <2>1. CASE End(p)
    BY <1>0, <2>1 DEF End, Over, Idle, Owing
  <2>2. CASE Begin(p) /\ ~End(p)
    <3>1. PICK a, k, t, l : req' = [req EXCEPT ![p] = NewRequest(a, k, t, l)]
      BY <2>2 DEF Begin
    <3> QED
      BY <1>0, <3>1 DEF NewRequest, Owing
  <2>3. CASE (Edit(p) \/ Delete(p)) /\ ~End(p)
    <3>1. req'[p].kind = req[p].kind /\ req[p].kind \in {"edit", "delete"}
      BY <1>0, <2>3 DEF Edit, ReadForEdit, LogEdit, WriteEdit, Delete,
                ReadForDelete, DeleteImages, LogDelete, DropRow, DropThreads, At, Goto, RequestType
    <3> QED
      BY <3>1 DEF Owing, Submits, Decides
  <2>4. CASE Transition(p) /\ ~End(p)
    <3>1. req'[p].pc # "audit"
      BY <1>0, <2>4 DEF Transition, CheckLocation, ReadStatus, Prune, FindBubble, SendBubble,
                        Goto, RequestType
    <3> QED
      BY <3>1 DEF Owing
  <2> QED
    BY <1>1, <2>1, <2>2, <2>3, <2>4 DEF Step
<1>4. Cardinality(Owing(Submits)) \in Nat /\ Cardinality(Owing(Decides)) \in Nat
  BY <1>0, OwingFinite
<1>5. /\ Cardinality(Owing(Submits)') = Cardinality(Owing(Submits))
      /\ Cardinality(Owing(Decides)') = Cardinality(Owing(Decides))
  BY <1>0, <1>2, <1>3, <1>4, OwingMoves DEF Count
<1>6. CASE LogEdit(p) \/ LogDelete(p)
  <2>1. PICK a \in {"updated", "deleted"}, old \in Statuses \cup {"gone"}, new \in Statuses \cup {Keep} :
          Log(a, old, new)
    <3>1. req[p].seen \in Statuses \cup {"gone"} /\ req[p].target \in Statuses \cup {Keep}
      BY <1>0 DEF RequestType
    <3> QED
      BY <1>0, <1>6, <3>1 DEF LogEdit, LogDelete
  <2>2. a \in AuditActions /\ a \notin {"submitted"} /\ a \notin DecidesAs /\ a # "created"
    BY DEF AuditActions, DecidesAs
  <2>3. /\ (StatusSent => StatusSent') /\ (BornPending' <=> BornPending)
        /\ \A A : Entries(A)' = Entries(A) + Count(a \in A)
    BY <1>0, <2>1, <2>2, LogCounts
  <2>4. /\ Entries({"submitted"})' = Entries({"submitted"}) /\ Entries(DecidesAs)' = Entries(DecidesAs)
    <3>1. Entries({"submitted"}) \in Nat /\ Entries(DecidesAs) \in Nat
      BY <1>0, EntriesFinite
    <3> QED
      BY <2>2, <2>3, <3>1 DEF Count
  <2>5. UNCHANGED status
    BY <1>6 DEF LogEdit, LogDelete, row
  <2> QED
    BY <1>0, <1>1, <1>5, <2>3, <2>4, <2>5 DEF TrailInv, Balance, Count
<1>7. CASE ~LogEdit(p) /\ ~LogDelete(p)
  <2>1. UNCHANGED trail
    BY <1>1, <1>7 DEF Step, Begin, Transition, CheckLocation, ReadStatus, GuardedUpdate,
                      LogTransition, Prune, FindBubble, SendBubble, Edit, ReadForEdit, WriteEdit,
                      Delete, ReadForDelete, DeleteImages, DropThreads
  <2>2. /\ UNCHANGED <<StatusSent, BornPending>> /\ \A A : Entries(A)' = Entries(A)
    BY <2>1 DEF StatusSent, BornPending, Entries
  <2>3. UNCHANGED status
    <3>1. CASE WriteEdit(p)
      <4>1. req[p].target = Keep
        BY <1>0, <2>2, <3>1 DEF TrailInv, EditsTell, WriteEdit
      <4> QED
        BY <1>0, <3>1, <4>1 DEF WriteEdit, Became
    <3>2. CASE ~WriteEdit(p)
      BY <1>1, <3>2, OtherSteps
    <3> QED
      BY <3>1, <3>2
  <2> QED
    BY <1>0, <1>1, <1>5, <2>2, <2>3 DEF TrailInv, Balance
<1> QED
  BY <1>6, <1>7

LEMMA EditsTellNext ==
  ASSUME TrailInv, NEW p \in Requests, Step(p)
  PROVE  EditsTell'
<1> SUFFICES ASSUME status' # "gone" PROVE EditsTell'
  BY DEF EditsTell
<1>0. /\ trail \in Seq(Entry) /\ req[p] \in RequestType /\ req \in [Requests -> RequestType]
      /\ \A q \in Requests : q # p => req'[q] = req[q]
      /\ status # "gone"
  BY OneRequestMoves DEF TrailInv, TypeOK, Entry
<1>1. CASE LogEdit(p)
  <2>1. /\ Log("updated", req[p].seen, req[p].target)
        /\ req' = [req EXCEPT ![p] = [req[p] EXCEPT !.pc = "write"]]
    BY <1>0, <1>1 DEF LogEdit, Goto
  <2>2. /\ req[p].seen \in Statuses \cup {"gone"} /\ req[p].target \in Statuses \cup {Keep}
        /\ req'[p].target = req[p].target
    BY <1>0, <2>1 DEF RequestType
  <2>3. StatusSent' <=> StatusSent \/ req[p].target # Keep
    BY <1>0, <2>1, <2>2, LogCounts DEF AuditActions
  <2> QED
    BY <1>0, <2>2, <2>3 DEF TrailInv, EditsTell, At
<1>2. CASE ~LogEdit(p)
  <2>1. ~At(p, {"edit"}, "write")'
    <3>1. CASE End(p)
      BY <1>0, <3>1 DEF End, Over, Idle, At
    <3>2. CASE Begin(p) /\ ~End(p)
      <4>1. PICK a, k, t, l : req' = [req EXCEPT ![p] = NewRequest(a, k, t, l)]
        BY <3>2 DEF Begin
      <4> QED
        BY <1>0, <4>1 DEF NewRequest, At
    <3>3. CASE ~Begin(p) /\ ~End(p)
      <4>1. req'[p].pc # "write"
        BY <1>0, <1>2, <3>3 DEF Step, Fail, Transition, CheckLocation, ReadStatus, GuardedUpdate,
             Conflict, LogTransition, Prune, FindBubble, SendBubble, Edit, ReadForEdit, WriteEdit,
             Delete, ReadForDelete, DeleteImages, LogDelete, DropRow, DropThreads, Goto, RequestType
      <4> QED
        BY <4>1 DEF At
    <3> QED
      BY <3>1, <3>2, <3>3
  <2>2. StatusSent => StatusSent'
    <3>1. CASE UNCHANGED trail
      BY <3>1 DEF StatusSent
    <3>2. CASE LogTransition(p) \/ LogDelete(p)
      <4>1. CASE UNCHANGED trail
        BY <3>1, <4>1
      <4>2. CASE ~UNCHANGED trail
        <5>1. PICK a \in AuditActions, old \in Statuses \cup {"gone"}, new \in Statuses \cup {Keep} :
                Log(a, old, new)
          <6>1. /\ req[p].seen \in Statuses \cup {"gone"} /\ "deleted" \in AuditActions
                /\ LogTransition(p) => req[p].kind \in Transitions
            BY <1>0 DEF RequestType, LogTransition, At, AuditActions
          <6> QED
            BY <3>2, <4>2, <6>1, TargetType, ActionType DEF LogTransition, LogDelete
        <5> QED
          BY <1>0, <5>1, LogCounts
      <4> QED
        BY <4>1, <4>2
    <3>3. CASE ~LogTransition(p) /\ ~LogDelete(p)
      <4>1. UNCHANGED trail
        BY <1>2, <3>3 DEF Step, Begin, Transition, CheckLocation, ReadStatus, GuardedUpdate,
                      Prune, FindBubble, SendBubble, Edit, ReadForEdit, WriteEdit,
                      Delete, ReadForDelete, DeleteImages, DropRow, DropThreads, Fail
      <4> QED
        BY <3>1, <4>1
    <3> QED
      BY <3>2, <3>3
  <2> QED
    BY <1>0, <2>1, <2>2 DEF TrailInv, EditsTell, At
<1> QED
  BY <1>1, <1>2

LEMMA TrailInit == Init => TrailInv
<1> SUFFICES ASSUME Init PROVE TrailInv
  OBVIOUS
<1>1. /\ TypeOK /\ \A p \in Requests : req[p].pc = "idle"
  BY TypeInit DEF Init, Idle
<1>2. Begun = {} /\ Owing(Submits) = {} /\ Owing(Decides) = {}
  BY <1>1 DEF Begun, Owing
<1>3. IsFiniteSet(Begun) /\ Cardinality(Owing(Submits)) = 0 /\ Cardinality(Owing(Decides)) = 0
  BY <1>2, FS_EmptySet
<1>4. EditsTell
  BY <1>1 DEF EditsTell, At
<1>5. \A n \in DOMAIN trail : trail[n].action = "created" /\ trail[n].new = status /\ n = 1
  BY DEF Init
<1>6. Entries({"submitted"}) = 0 /\ Entries(DecidesAs) = 0
  <2>1. /\ {n \in DOMAIN trail : trail[n].action \in {"submitted"}} = {}
        /\ {n \in DOMAIN trail : trail[n].action \in DecidesAs} = {}
    BY <1>5 DEF DecidesAs
  <2> QED
    BY <2>1, FS_EmptySet DEF Entries
<1>7. BornPending <=> status = "pending_approval"
  <2>1. trail # <<>> => 1 \in DOMAIN trail
    BY DEF Init
  <2> QED
    BY <1>5, <2>1 DEF BornPending, Init
<1> QED
  BY <1>1, <1>3, <1>4, <1>6, <1>7 DEF TrailInv, Balance, Count

LEMMA TrailNext == TrailInv /\ [Next]_vars => TrailInv'
<1> SUFFICES ASSUME TrailInv, [Next]_vars PROVE TrailInv'
  OBVIOUS
<1>1. TypeOK'
  BY TypeNext DEF TrailInv
<1>2. CASE UNCHANGED vars
  BY <1>1, <1>2 DEF vars, row, TrailInv, Begun, EditsTell, At, StatusSent, Balance, Entries,
                    BornPending, Owing
<1>3. ASSUME NEW p \in Requests, Step(p) PROVE TrailInv'
  <2>1. IsFiniteSet(Begun')
    <3>1. IsFiniteSet(Begun \cup {p})
      BY FS_AddElement DEF TrailInv
    <3> QED
      BY <1>3, <3>1, OneRequestMoves, FS_Subset DEF TrailInv
  <2> QED
    BY <1>1, <1>3, <2>1, EditsTellNext, BalanceUpdate, BalanceLog, BalanceOther DEF TrailInv
<1> QED
  BY <1>2, <1>3, NextStep

(* Nobody who has come to rest owes the trail an entry, so the trail of a receipt
   at rest accounts for its status, however many requests there were and in
   whatever order their entries came.                                           *)
THEOREM TrailAccounts == Spec => []TrailBalances
<1>1. TrailInv => TrailBalances
  <2> SUFFICES ASSUME TrailInv, AtRest PROVE TrailBalances
    BY DEF TrailBalances
  <2>1. Owing(Submits) = {} /\ Owing(Decides) = {}
    BY DEF AtRest, Owing
  <2>2. Cardinality(Owing(Submits)) = 0 /\ Cardinality(Owing(Decides)) = 0
    BY <2>1, FS_EmptySet
  <2>3. Entries({"submitted"}) \in Nat /\ Entries(DecidesAs) \in Nat
    BY EntriesFinite DEF TrailInv, TypeOK, Entry
  <2> QED
    BY <2>2, <2>3 DEF TrailInv, TrailBalances, Balance, Count, DecidesAs
<1> QED
  BY <1>1, TrailInit, TrailNext, PTL DEF Spec
=============================================================================
