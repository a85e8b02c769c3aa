-------------------------- MODULE ReceiptWorkflow --------------------------
(***************************************************************************)
(* One saved receipt, and the requests that review, edit and delete it.    *)
(* A request reads the receipt, decides on what it has read, and writes    *)
(* some awaits later: the four transitions with a guarded UPDATE, the      *)
(* edit and the deletion with an unguarded one.  Each transaction on the   *)
(* database is a step, with the decisions taken on its result.             *)
(***************************************************************************)
EXTENDS Integers, FiniteSets, Sequences

CONSTANTS
    Requests,  \* bound: the requests that are ever made for this receipt
    Owner,     \* the user whose receipt it is
    Admins,    \* the users with is_admin
    MaxFaults  \* bound: exceptions and lost processes in the middle of a request

ASSUME FaultsAssumption == MaxFaults \in Nat

VARIABLES
    status,  \* receipts.status, or "gone" once the row is deleted
    located, \* receipts.location is not blank
    images,  \* the image files of the receipt are on disk
    trail,   \* the rows of audit_logs, in the order of their timestamps
    bubbles, \* rejection messages in the threads of the receipt
    req,     \* what each request is doing
    faults,  \* faults so far
    round,   \* history: how often the receipt became pending_approval
    won      \* history: the round each request ended with its guarded UPDATE

row     == <<status, located>>
history == <<round, won>>
vars    == <<row, images, trail, bubbles, req, faults, history>>

Actors   == {Owner} \cup Admins
Statuses == {"needs_review", "pending_approval", "processed"}
Keep     == "keep"  \* a field that an edit does not send

Transitions == {"submit", "recall", "approve", "reject"}
AdminOnly   == {"approve", "reject"}

Target(k) == CASE k = "submit"  -> "pending_approval"
               [] k = "approve" -> "processed"
               [] OTHER         -> "needs_review"
Prereq(k) == IF k = "submit" THEN "needs_review" ELSE "pending_approval"
Action(k) == CASE k = "submit"  -> "submitted" [] k = "recall" -> "recalled"
               [] k = "approve" -> "approved"  [] k = "reject" -> "rejected"

(* assert_status_transition: nothing to check if nothing changes; an admin
   may do anything; the owner submits and recalls.                          *)
assert_status_transition(current, target, actor) ==
    \/ current = target
    \/ actor \in Admins
    \/ /\ actor = Owner
       /\ <<current, target>> \in {<<"needs_review", "pending_approval">>,
                                   <<"pending_approval", "needs_review">>}

(* An approved receipt is for administrators only. *)
NeverReadOnly(actor) == FALSE
ReadOnly(actor) == status = "processed" /\ actor \notin Admins

-----------------------------------------------------------------------------
Idle == [pc |-> "idle", kind |-> "none", actor |-> Owner,
         target |-> Keep, place |-> Keep, seen |-> "gone"]
Over == [Idle EXCEPT !.pc = "over"]

RequestType ==
    [pc     : {"idle", "locate", "read", "update", "audit", "notify", "send",
               "unlink", "write", "drop", "threads", "over"},
     kind   : Transitions \cup {"none", "edit", "delete"},
     actor  : Actors,
     target : Statuses \cup {Keep},       \* the status an edit sends
     place  : {Keep, "given", "blank"},   \* the location an edit sends
     seen   : Statuses \cup {"gone"}]     \* the status it has read

Goto(p, pc) == req' = [req EXCEPT ![p].pc = pc]
End(p)      == req' = [req EXCEPT ![p] = Over]

At(p, k, pc) == req[p].kind \in k /\ req[p].pc = pc

(* What the code writes of the receipt, with the history of its rounds. *)
Became(p, s) ==
    /\ status' = s
    /\ round' = IF s = "pending_approval" /\ status # s THEN round + 1 ELSE round

(* audit_logs refers to the receipt, so an entry needs the row to exist. *)
Log(a, old, new) == trail' = Append(trail, [action |-> a, old |-> old, new |-> new])

-----------------------------------------------------------------------------
NewRequest(a, k, t, l) ==
    [pc |-> IF k = "approve" THEN "locate" ELSE "read",
     kind |-> k, actor |-> a, target |-> t, place |-> l, seen |-> "gone"]

(* A request begins: the handler has checked who may call it. *)
Begin(p) ==
    /\ req[p].pc = "idle"
    /\ \E a \in Actors, k \in Transitions \cup {"edit", "delete"},
          t \in Statuses \cup {Keep}, l \in {Keep, "given", "blank"} :
         /\ k # "edit" => t = Keep /\ l = Keep
         /\ IF k \in AdminOnly /\ a \notin Admins
              THEN End(p)
              ELSE req' = [req EXCEPT ![p] = NewRequest(a, k, t, l)]
    /\ UNCHANGED <<row, images, trail, bubbles, faults, history>>

(* approve looks at the location first, in a read of its own. *)
CheckLocation(p) ==
    /\ At(p, {"approve"}, "locate")
    /\ IF status = "gone" \/ ~located THEN End(p) ELSE Goto(p, "read")
    /\ UNCHANGED <<row, images, trail, bubbles, faults, history>>

(* _transition reads the receipt and checks that the actor may move it. *)
ReadStatus(p) ==
    /\ At(p, Transitions, "read")
    /\ IF \/ status = "gone"
          \/ ~assert_status_transition(status, Target(req[p].kind), req[p].actor)
         THEN End(p)
         ELSE req' = [req EXCEPT ![p].pc = "update", ![p].seen = status]
    /\ UNCHANGED <<row, images, trail, bubbles, faults, history>>

(* UPDATE receipts SET status = target WHERE status = prereq *)
Exists(p)    == status # "gone"
Matches(p)   == status = Prereq(req[p].kind)
Unnoticed(p) == Goto(p, "audit")
Conflict(p)  == End(p)  \* 409

GuardedUpdate(p) ==
    /\ At(p, Transitions, "update")
    /\ IF Matches(p)
         THEN /\ Became(p, Target(req[p].kind))
              /\ won' = IF req[p].kind = "submit" THEN won ELSE [won EXCEPT ![p] = round]
              /\ Goto(p, "audit")
         ELSE Conflict(p) /\ UNCHANGED <<status, history>>
    /\ UNCHANGED <<located, images, trail, bubbles, faults>>

(* The entry of a transition tells the status read, not the one replaced. *)
LogTransition(p) ==
    /\ At(p, Transitions, "audit")
    /\ IF status = "gone"
         THEN End(p) /\ UNCHANGED trail
         ELSE /\ Log(Action(req[p].kind), req[p].seen, Target(req[p].kind))
              /\ IF req[p].kind = "approve" THEN End(p) ELSE Goto(p, "notify")
    /\ UNCHANGED <<row, images, bubbles, faults, history>>

(* _notify_workflow: submit and recall remove the rejection messages ... *)
OneFewer == bubbles - 1
Pruned   == 0

Prune(p) ==
    /\ At(p, {"submit", "recall"}, "notify")
    /\ bubbles' = Pruned
    /\ End(p)
    /\ UNCHANGED <<row, images, trail, faults, history>>

(* ... and a rejection sends one, if it finds none. *)
FindBubble(p) ==
    /\ At(p, {"reject"}, "notify")
    /\ IF bubbles > 0 THEN End(p) ELSE Goto(p, "send")
    /\ UNCHANGED <<row, images, trail, bubbles, faults, history>>

SendBubble(p) ==
    /\ At(p, {"reject"}, "send")
    /\ bubbles' = bubbles + 1
    /\ End(p)
    /\ UNCHANGED <<row, images, trail, faults, history>>

-----------------------------------------------------------------------------
(* PUT: everything is decided on the receipt as it is read first. *)
ReadForEdit(p) ==
    LET to == IF req[p].target = Keep THEN status ELSE req[p].target
        at == IF req[p].place = Keep THEN located ELSE req[p].place = "given"
    IN  /\ At(p, {"edit"}, "read")
        /\ IF \/ status = "gone"
              \/ ReadOnly(req[p].actor)
              \/ ~assert_status_transition(status, to, req[p].actor)
              \/ to = "processed" /\ ~at
             THEN End(p)
             ELSE req' = [req EXCEPT ![p].pc = "audit", ![p].seen = status]
        /\ UNCHANGED <<row, images, trail, bubbles, faults, history>>

(* The audit entry of an edit is written before the edit. *)
LogEdit(p) ==
    /\ At(p, {"edit"}, "audit")
    /\ IF status = "gone"
         THEN End(p) /\ UNCHANGED trail
         ELSE Log("updated", req[p].seen, req[p].target) /\ Goto(p, "write")
    /\ UNCHANGED <<row, images, bubbles, faults, history>>

(* UPDATE receipts SET ... WHERE id = ...: whatever the status is by now. *)
WriteEdit(p) ==
    /\ At(p, {"edit"}, "write")
    /\ IF status = "gone"
         THEN UNCHANGED <<row, round>>
         ELSE /\ Became(p, IF req[p].target = Keep THEN status ELSE req[p].target)
              /\ located' = IF req[p].place = Keep THEN located ELSE req[p].place = "given"
    /\ End(p)
    /\ UNCHANGED <<images, trail, bubbles, faults, won>>

-----------------------------------------------------------------------------
(* DELETE: the files go first, then the audit entry, then the row. *)
UnlinkThenRead(p) ==
    /\ At(p, {"delete"}, "read")
    /\ images' = FALSE
    /\ IF status = "gone" \/ ReadOnly(req[p].actor)
         THEN End(p)
         ELSE req' = [req EXCEPT ![p].pc = "audit", ![p].seen = status]
    /\ UNCHANGED <<row, trail, bubbles, faults, history>>

ReadForDelete(p) ==
    /\ At(p, {"delete"}, "read")
    /\ IF status = "gone" \/ ReadOnly(req[p].actor)
         THEN End(p)
         ELSE req' = [req EXCEPT ![p].pc = "unlink", ![p].seen = status]
    /\ UNCHANGED <<row, images, trail, bubbles, faults, history>>

DeleteImages(p) ==
    /\ At(p, {"delete"}, "unlink")
    /\ images' = FALSE
    /\ Goto(p, "audit")
    /\ UNCHANGED <<row, trail, bubbles, faults, history>>

LogDelete(p) ==
    /\ At(p, {"delete"}, "audit")
    /\ IF status = "gone"
         THEN End(p) /\ UNCHANGED trail
         ELSE Log("deleted", req[p].seen, Keep) /\ Goto(p, "drop")
    /\ UNCHANGED <<row, images, bubbles, faults, history>>

(* The row takes its audit entries with it (ON DELETE CASCADE). *)
DropRow(p) ==
    /\ At(p, {"delete"}, "drop")
    /\ status' = "gone" /\ located' = FALSE /\ images' = FALSE /\ trail' = <<>>
    /\ Goto(p, "threads")
    /\ UNCHANGED <<bubbles, faults, history>>

DropThreads(p) ==
    /\ At(p, {"delete"}, "threads")
    /\ bubbles' = 0
    /\ End(p)
    /\ UNCHANGED <<row, images, trail, faults, history>>

-----------------------------------------------------------------------------
(* A statement raises, or the process is lost: the request goes no further. *)
Fail(p) ==
    /\ req[p].pc \notin {"idle", "over"}
    /\ faults < MaxFaults
    /\ faults' = faults + 1
    /\ End(p)
    /\ UNCHANGED <<row, images, trail, bubbles, history>>

AtRest   == \A p \in Requests : req[p].pc \in {"idle", "over"}
Finished == \A p \in Requests : req[p].pc = "over"
Done     == Finished /\ UNCHANGED vars

Transition(p) == \/ CheckLocation(p) \/ ReadStatus(p) \/ GuardedUpdate(p)
                 \/ LogTransition(p) \/ Prune(p) \/ FindBubble(p) \/ SendBubble(p)
Edit(p)       == ReadForEdit(p) \/ LogEdit(p) \/ WriteEdit(p)
Delete(p)     == \/ ReadForDelete(p) \/ DeleteImages(p) \/ LogDelete(p)
                 \/ DropRow(p) \/ DropThreads(p)

(* A receipt is created with its first audit entry, which the worker may fail
   to write; an administrator may create one as processed if it is located.  *)
Init ==
    /\ status \in Statuses /\ located \in BOOLEAN
    /\ status = "processed" => located
    /\ images = TRUE
    /\ \/ trail = <<[action |-> "created", old |-> Keep, new |-> status]>>
       \/ trail = <<>> /\ status = "needs_review"
    /\ bubbles = 0 /\ faults = 0
    /\ round = IF status = "pending_approval" THEN 1 ELSE 0
    /\ req = [p \in Requests |-> Idle]
    /\ won = [p \in Requests |-> 0]

Next ==
    \/ \E p \in Requests : Begin(p) \/ Transition(p) \/ Edit(p) \/ Delete(p) \/ Fail(p)
    \/ Done

Spec == Init /\ [][Next]_vars

-----------------------------------------------------------------------------
(* Every variable has its type. *)
AuditActions == {"created", "updated", "deleted", "submitted", "recalled",
                 "approved", "rejected"}

TypeOK ==
    /\ status \in Statuses \cup {"gone"}
    /\ located \in BOOLEAN /\ images \in BOOLEAN
    /\ trail \in Seq([action : AuditActions,
                      old : Statuses \cup {Keep, "gone"}, new : Statuses \cup {Keep}])
    /\ bubbles \in Nat /\ faults \in 0..MaxFaults
    /\ req \in [Requests -> RequestType]
    /\ round \in Nat
    /\ won \in [Requests -> Nat]

(* A submission is decided once: of the approvals, rejections and recalls
   that were sent while the receipt was pending, one is applied, and the next
   only after the receipt has become pending again.                         *)
OnePerSubmission ==
    \A p, q \in Requests : p # q /\ won[p] # 0 => won[p] # won[q]

(* Whatever its owner sends, and whatever administrators change between what
   he reads and what he writes, only an administrator's request makes a
   receipt processed.                                                       *)
OnlyAdminsFinish ==
    [][status # "processed" /\ status' = "processed" =>
         \E p \in Requests : req[p].actor \in Admins /\ req'[p] # req[p]]_vars

(* The audit trail accounts for the status: if no edit has sent a status and
   nothing has failed, then whenever no request is under way, the receipt is
   pending exactly if it was submitted once more than it was decided.  The
   entries may be in another order than the transitions.                    *)
Entries(A)  == Cardinality({n \in DOMAIN trail : trail[n].action \in A})
BornPending == \E n \in DOMAIN trail : /\ trail[n].action = "created"
                                       /\ trail[n].new = "pending_approval"
StatusSent  == \E n \in DOMAIN trail : /\ trail[n].action = "updated"
                                       /\ trail[n].new # Keep

TrailBalances ==
    AtRest /\ faults = 0 /\ ~StatusSent /\ status # "gone" =>
        Entries({"submitted"}) + (IF BornPending THEN 1 ELSE 0)
          = Entries({"recalled", "approved", "rejected"})
            + (IF status = "pending_approval" THEN 1 ELSE 0)

(* A receipt has its images unless a deletion is under way or was cut short:
   a deletion that is refused, or comes second, takes nothing away.         *)
ImagesStay ==
    status # "gone" /\ ~images =>
        faults > 0 \/ \E p \in Requests : At(p, {"delete"}, "audit") \/ At(p, {"delete"}, "drop")

-----------------------------------------------------------------------------
(* What the comments of the code promise, and its requests do not keep. *)

(* "Approved receipts are immutable for non-admins": no step of a request of
   a user who is not an administrator changes a processed receipt.          *)
ApprovedIsReadOnly ==
    [][status = "processed" /\ row' # row =>
         \E p \in Requests : req[p].actor \in Admins /\ req'[p] # req[p]]_vars

(* "Any path into 'processed' requires a location." *)
ProcessedIsLocated == [][status # "processed" /\ status' = "processed" => located']_vars

(* The list of rejected receipts, which looks at the latest audit entry, has
   the receipts whose latest decision is a rejection.                       *)
Listed      == status # "gone" /\ trail # <<>> /\ trail[Len(trail)].action = "rejected"
Decisions   == {"submitted", "recalled", "approved", "rejected"}
DecidedAt   == {n \in DOMAIN trail : trail[n].action \in Decisions}
LastDecided == \E n \in DecidedAt : /\ trail[n].action = "rejected"
                                    /\ \A m \in DecidedAt : m <= n

RejectedListed == AtRest /\ status # "gone" => (Listed <=> LastDecided)

(* "A repeat rejection keeps exactly one bubble." *)
OneBubble == bubbles <= 1

(* "The chat only shows current state": a receipt submitted again shows no
   rejection any more.                                                      *)
BubbleIsCurrent == AtRest /\ faults = 0 /\ status = "pending_approval" => bubbles = 0
=============================================================================
