---------------------------- MODULE ReviewBatches -----------------------------
(***************************************************************************)
(* A review batch: a list of receipts with a review status of its own for  *)
(* each (services/review_batch_service.py, api/review_batches.py).  The     *)
(* items know nothing of the receipts after they are made; the reviewers    *)
(* set their statuses, take them out and delete the batch, each in a        *)
(* transaction that locks the rows it changes, in its own order.            *)
(***************************************************************************)
EXTENDS Naturals, FiniteSets

CONSTANTS Reviewers,    \* requests at the same time
          Receipts,
          Unknown,      \* ids in a CSV that are no receipts
          Statuses, Notes,
          MaxCalls      \* bound: calls of the reviewers

VARIABLES existing,    \* receipts there are
          batch,       \* "none", "there", "deleted"
          items,       \* review_batch_items: NoItem, or status, notes, reviewed
          told,        \* receipt_count of the answer that made the batch
          req,         \* what each reviewer does
          left

vars == <<existing, batch, items, told, req, left>>

NoItem == [status |-> "none"]
Idle == [pc |-> "idle"]
Is(p, pc) == req[p].pc = pc
To(p, r) == req' = [req EXCEPT ![p] = r]
Spend == left > 0 /\ left' = left - 1
Ids == Receipts \cup Unknown

(* Row locks are kept to the end of the transaction. *)
HoldsItem(p, r) == req[p].pc \in {"touch", "read"} /\ req[p].item = r /\ req[p].locked
HoldsBatch(p) == req[p].pc \in {"cascade", "read"}
ItemFree(p, r) == \A q \in Reviewers \ {p} : ~HoldsItem(q, r)
BatchFree(p) == \A q \in Reviewers \ {p} : ~HoldsBatch(q)

Init == /\ existing = Receipts /\ batch = "none" /\ items = [r \in Ids |-> NoItem] /\ told = 0
        /\ req = [p \in Reviewers |-> Idle] /\ left = MaxCalls

-----------------------------------------------------------------------------
(* create_batch: the receipts of the list that exist, then the rows. *)
Choose(p, ids) ==
  /\ Is(p, "idle") /\ batch = "none" /\ \A q \in Reviewers : ~Is(q, "create")
  /\ To(p, [pc |-> "create", ids |-> ids, valid |-> ids \cap existing])
  /\ UNCHANGED <<existing, batch, items, told, left>>

Create(p) ==
  /\ Is(p, "create") /\ To(p, Idle)
  /\ batch' = "there" /\ told' = Cardinality(req[p].ids)
  /\ items' = [r \in Ids |-> IF r \in req[p].valid THEN [status |-> "pending_review", notes |-> "none", reviewed |-> FALSE] ELSE NoItem]
  /\ UNCHANGED <<existing, left>>

(* A receipt is deleted elsewhere; its items stay. *)
DeleteReceipt(r) ==
  /\ r \in existing /\ existing' = existing \ {r}
  /\ UNCHANGED <<batch, items, told, req, left>>

-----------------------------------------------------------------------------
(* update_item_status and delete_item: the row of the item, the row of the     *)
(* batch, then what is there is read back.                                    *)
After(r, change) ==
  IF items[r] = NoItem \/ change = NoItem THEN NoItem
  ELSE [status |-> change.status, notes |-> change.notes, reviewed |-> items[r].reviewed \/ change.status = "reviewed"]

(* Mutant: no transaction: the row is changed at once and not locked. *)
ChangeItemAlone(p, r, change) ==
  /\ items' = [items EXCEPT ![r] = After(r, change)]
  /\ To(p, [pc |-> "touch", item |-> r, asked |-> change, locked |-> FALSE])

ChangeItem(p, r, change) ==
  /\ To(p, [pc |-> "touch", item |-> r, asked |-> change, locked |-> items[r] # NoItem])
  /\ UNCHANGED items

Change(p, r, change) ==
  /\ Is(p, "idle") /\ batch # "none" /\ Spend /\ ItemFree(p, r)
  /\ ChangeItem(p, r, change)
  /\ UNCHANGED <<existing, batch, told>>

UpdateItem(p, r, change) == Change(p, r, change)
DeleteItem(p, r)         == Change(p, r, NoItem)

TouchBatch(p) ==
  /\ Is(p, "touch") /\ BatchFree(p)
  /\ To(p, [req[p] EXCEPT !.pc = "read"])
  /\ UNCHANGED <<existing, batch, items, told, left>>

(* The transaction sees its own change, and ends. *)
ReadBack(p) ==
  LET q == req[p]
      seen == IF q.locked THEN After(q.item, q.asked) ELSE items[q.item]
  IN /\ Is(p, "read")
     /\ To(p, [pc |-> "answered", asked |-> q.asked, got |-> seen])
     /\ items' = IF q.locked THEN [items EXCEPT ![q.item] = seen] ELSE items
     /\ UNCHANGED <<existing, batch, told, left>>

Answered(p) ==
  /\ Is(p, "answered") /\ To(p, Idle)
  /\ UNCHANGED <<existing, batch, items, told, left>>

(* delete_batch: the row of the batch, then, by the cascade, those of its items. *)
DeleteBatch(p) ==
  /\ Is(p, "idle") /\ batch = "there" /\ Spend /\ BatchFree(p)
  /\ To(p, [pc |-> "cascade"])
  /\ UNCHANGED <<existing, batch, items, told>>

Cascade(p) ==
  /\ Is(p, "cascade") /\ \A r \in Ids : ItemFree(p, r)
  /\ batch' = "deleted" /\ items' = [r \in Ids |-> NoItem] /\ To(p, Idle)
  /\ UNCHANGED <<existing, told, left>>

(* Who waits for whom; Postgres stops one of a circle, and its call fails. *)
Waits(p, q) ==
  \/ Is(p, "touch") /\ HoldsBatch(q) /\ p # q
  \/ Is(p, "cascade") /\ \E r \in Ids : HoldsItem(q, r)

Deadlocked(p) == \E q \in Reviewers : Waits(p, q) /\ Waits(q, p)

Abort(p) ==
  /\ Deadlocked(p) /\ To(p, Idle)
  /\ UNCHANGED <<existing, batch, items, told, left>>

-----------------------------------------------------------------------------
Next ==
  \/ \E p \in Reviewers :
       \/ \E ids \in SUBSET Ids \ {{}} : Choose(p, ids)
       \/ \E r \in Ids : DeleteItem(p, r) \/ \E change \in [status : Statuses, notes : Notes] : UpdateItem(p, r, change)
       \/ Create(p) \/ TouchBatch(p) \/ ReadBack(p) \/ Answered(p) \/ DeleteBatch(p) \/ Cascade(p) \/ Abort(p)
  \/ \E r \in Receipts : DeleteReceipt(r)

Spec == Init /\ [][Next]_vars

-----------------------------------------------------------------------------
(* The answer to a change is about that change, whoever else changes the item: *)
(* the item as it was set, or none (services/review_batch_service.py:165-193). *)
AnswerIsOwn ==
  \A p \in Reviewers : Is(p, "answered") /\ req[p].got # NoItem
    => req[p].asked # NoItem /\ req[p].got.status = req[p].asked.status /\ req[p].got.notes = req[p].asked.notes

(* Nobody waits for one who waits for him: deleting a batch and changing one of *)
(* its items take the two locks in opposite order.                             *)
NobodyWaitsInACircle == \A p \in Reviewers : ~Deadlocked(p)

(* The count in the answer is of the items that were made ("skip ids with no   *)
(* receipt row", services/review_batch_service.py:54).                         *)
CountIsItems == [][batch = "none" /\ batch' = "there" => told' = Cardinality({r \in Ids : items'[r] # NoItem})]_vars

===============================================================================
