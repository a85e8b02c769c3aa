-------------------------- MODULE MCReceiptImages --------------------------
(* Uploads of one or two images, in either order.                          *)
EXTENDS ReceiptImages, TLC

OneOrTwo == {<< >>} \cup {<<c>> : c \in Contents} \cup {<<c, d>> : c \in Contents, d \in Contents}
AtMostOne == {<< >>} \cup {<<c>> : c \in Contents}
Symmetry == Permutations(Requests) \cup Permutations(Receipts) \cup Permutations(Contents)
=============================================================================
