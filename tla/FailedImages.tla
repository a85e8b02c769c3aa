----------------------------- MODULE FailedImages -----------------------------
(***************************************************************************)
(* The images of a scan session that have failed, and what is promised of  *)
(* them: ScanErrors says how they fail and who tells of them.              *)
(***************************************************************************)
CONSTANTS Images,   \* 0, 1, ...: the places of the images in the session
          Procs     \* the upload, the runs and the reaper

VARIABLES image,    \* [s, tag]: what the session says of an image, and its chunk
          proc,     \* what the writers do
          told,     \* images that a record has told of since they failed
          excused   \* images whose record was lost, or whose run has died

Failed == {i \in Images : image[i].s = "failed"}

(* "so nothing fails silently" (worker.py:778): once nobody works on the session *)
(* any more, an image that failed has been told of since it did, unless its      *)
(* record was lost or the process that had it has died.                          *)
NothingSilent ==
  (\A p \in Procs : proc[p].pc \in {"over", "dead"}) => Failed \subseteq told \cup excused

===============================================================================
