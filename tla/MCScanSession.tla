--------------------------- MODULE MCScanSession ---------------------------
(* Handlers are interchangeable, and so are Celery messages. *)
EXTENDS ScanSession, TLC

Symmetry == Permutations(Requests) \cup Permutations(Tasks)
=============================================================================
