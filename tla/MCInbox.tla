------------------------------ MODULE MCInbox ------------------------------
(* Inbox with one receipt of one user.                                     *)
EXTENDS Inbox, TLC

CONSTANTS u1, x1
OwnerOf == x1 :> u1
Symmetry == Permutations(Requests) \cup Permutations(Admins)
=============================================================================
