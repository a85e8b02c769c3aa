------------------------- MODULE MCReceiptWorkflow -------------------------
(* ReceiptWorkflow with the constants of its runs. *)
EXTENDS ReceiptWorkflow, TLC

Symmetry == Permutations(Requests)
=============================================================================
