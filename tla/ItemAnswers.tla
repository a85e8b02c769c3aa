---------------------------- MODULE ItemAnswers ----------------------------
(***************************************************************************)
(* What the extraction of a scan session promises its user, image by       *)
(* image.  An image that was sent is due; in the end it is answered: saved *)
(* as a receipt (or linked to the receipt it already has), or failed.  A   *)
(* saved image is never due again, a failed one is when its user retries.  *)
(***************************************************************************)
CONSTANT Items

VARIABLE answer

Init == answer = [i \in Items |-> "due"]

Save(i)  == answer[i] = "due" /\ answer' = [answer EXCEPT ![i] = "saved"]
Fail(i)  == answer[i] = "due" /\ answer' = [answer EXCEPT ![i] = "failed"]
Retry(i) == answer[i] = "failed" /\ answer' = [answer EXCEPT ![i] = "due"]

Next == \E i \in Items : Save(i) \/ Fail(i) \/ Retry(i)

Spec == Init /\ [][Next]_answer /\ \A i \in Items : WF_answer(Save(i) \/ Fail(i))

TypeOK == answer \in [Items -> {"due", "saved", "failed"}]
=============================================================================
