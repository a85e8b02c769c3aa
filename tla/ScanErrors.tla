------------------------------ MODULE ScanErrors ------------------------------
(***************************************************************************)
(* The durable log of failed scans (scan_error_service.py): who writes to  *)
(* it and what its user does with it.  The upload, the runs of the worker  *)
(* (worker.py) and the reaper mark images as failed, and each ends by      *)
(* reading the session and writing records of what it finds failed.  How a *)
(* run comes to an answer for an image is the matter of ChunkEngine.       *)
(***************************************************************************)
EXTENDS FailedImages, Integers, Bags

CONSTANTS ChunkSize,
          Bounds      \* what may happen: [retries, deaths, raises, losses, reaps, touches]

VARIABLES chunk,    \* [s, fails]: the status of a chunk and how often it has failed
          records,  \* the rows of scan_errors, a bag: which of two alike is which is not told apart
          marking,  \* a read-all between its two statements
          left      \* what may still happen

session == <<image, chunk>>
log     == <<records, told, excused, marking>>
vars    == <<session, proc, log, left>>

Chunks  == {i \div ChunkSize : i \in Images}
NoChunk == -1
InFlight == {"pending", "processing"}
Over    == [kind |-> "none", pc |-> "over", todo |-> {}, done |-> {}, due |-> {}]

Spend(what) == left[what] > 0 /\ left' = [left EXCEPT ![what] = @ - 1]
Becomes(i, s, tag) == image' = [image EXCEPT ![i] = [s |-> s, tag |-> tag]]
First(i, S) == i \in S /\ \A j \in S : i <= j
Steps(p, x) == proc' = [proc EXCEPT ![p] = x]

-----------------------------------------------------------------------------
(* The upload: every file is prepared, or is no image.                        *)
Prepare(p) ==
  /\ proc[p].pc = "prepare"
  /\ \E i \in Images, s \in {"prepared", "failed"} :
       /\ First(i, proc[p].todo) /\ Becomes(i, s, NoChunk) /\ told' = told \ {i}
       /\ Steps(p, [proc[p] EXCEPT !.todo = @ \ {i}, !.pc = IF proc[p].todo = {i} THEN "read" ELSE @])
  /\ UNCHANGED <<chunk, records, excused, marking, left>>

(* A dispatch of what is prepared, and the two retries of a user.              *)
Starts(p, kind, todo) == proc[p] = Over /\ Steps(p, [Over EXCEPT !.kind = kind, !.pc = "work", !.todo = todo, !.done = todo])

Dispatch(p) ==
  LET todo == {i \in Images : image[i].s = "prepared"} IN
  /\ todo # {} /\ Starts(p, "main", todo)
  /\ image' = [i \in Images |-> IF i \in todo THEN [s |-> "pending", tag |-> i \div ChunkSize] ELSE image[i]]
  /\ chunk' = [c \in Chunks |-> IF \E i \in todo : i \div ChunkSize = c THEN [chunk[c] EXCEPT !.s = "pending"] ELSE chunk[c]]
  /\ UNCHANGED <<log, left>>

RetryChunk(p) ==
  /\ Spend("retries")
  /\ \E c \in Chunks :
       LET todo == {i \in Images : i \div ChunkSize = c /\ image[i].s # "saved"} IN
       /\ chunk[c].s = "failed" /\ todo # {} /\ Starts(p, "chunk", todo)
       /\ chunk' = [chunk EXCEPT ![c].s = "pending"]
       /\ image' = [i \in Images |-> IF i \in todo THEN [image[i] EXCEPT !.s = "pending"] ELSE image[i]]
  /\ UNCHANGED log

RetryItem(p) ==
  /\ Spend("retries")
  /\ \E i \in Failed : image[i].tag # NoChunk /\ Starts(p, "item", {i}) /\ Becomes(i, "pending", image[i].tag)
  /\ UNCHANGED <<chunk, log>>

(* The chunk that a run gives an image: "chunkIndex or -1" makes -1 of the first *)
(* chunk.                                                                        *)
TagOf(p, i) == IF proc[p].kind = "item" THEN (IF image[i].tag = 0 THEN NoChunk ELSE image[i].tag) ELSE i \div ChunkSize

(* A run answers an image, and its chunks when all are answered: a chunk without  *)
(* a single receipt may still count as done.                                     *)
Work(p) ==
  /\ proc[p].pc = "work"
  /\ \E i \in proc[p].todo, s \in {"saved", "failed"} :
       /\ Becomes(i, s, TagOf(p, i))
       /\ told' = told \ {i}
       /\ Steps(p, [proc[p] EXCEPT !.todo = @ \ {i}, !.pc = IF proc[p].todo = {i} THEN "settle" ELSE @])
  /\ UNCHANGED <<chunk, records, excused, marking, left>>

Settle(p) ==
  /\ proc[p].pc = "settle" /\ Steps(p, [proc[p] EXCEPT !.pc = "read"])
  /\ \E failed \in SUBSET {c \in Chunks : \A i \in proc[p].done : i \div ChunkSize = c => image[i].s = "failed"} :
       chunk' = IF proc[p].kind = "item" THEN chunk
                ELSE [c \in Chunks |-> IF \A i \in proc[p].done : i \div ChunkSize # c THEN chunk[c]
                                       ELSE IF c \in failed THEN [s |-> "failed", fails |-> chunk[c].fails + 1]
                                       ELSE [chunk[c] EXCEPT !.s = "done"]]
  /\ UNCHANGED <<image, log, left>>

(* The reaper, or the poll of a user: images of a quiet session are given up.     *)
Reap(p) ==
  /\ Spend("reaps") /\ \E i \in Images : image[i].s \in InFlight
  /\ proc[p] = Over
  /\ LET stuck == {i \in Images : image[i].s \in InFlight}
     IN Steps(p, [Over EXCEPT !.kind = "reap", !.pc = "give up", !.todo = stuck, !.done = stuck])
  /\ UNCHANGED <<session, log>>

BatchRecord == [kind |-> "batch", of |-> NoChunk, items |-> Images]
GiveUp(p) ==
  /\ proc[p].pc = "give up"
  /\ \E i \in Images :
       /\ First(i, proc[p].todo) /\ Becomes(i, "failed", image[i].tag) /\ told' = told \ {i}
       /\ Steps(p, [proc[p] EXCEPT !.todo = @ \ {i}, !.pc = IF proc[p].todo = {i} THEN "log" ELSE @,
                                   !.due = {BatchRecord}])
  /\ UNCHANGED <<chunk, records, excused, marking, left>>

-----------------------------------------------------------------------------
(* _log_batch_failures reads the whole session again.  A failed chunk has a      *)
(* record with its failed images; the others have one together.                 *)
FailedChunks == {c \in Chunks : chunk[c].s = "failed"}
ChunkRecord(c) == [kind |-> "chunk", of |-> c, items |-> {i \in Failed : image[i].tag = c}]
Covered   == UNION {ChunkRecord(c).items : c \in FailedChunks}

(* Mutant: the images are looked at one by one only if no chunk has failed. *)
UncoveredAlone == IF FailedChunks = {} THEN Failed ELSE {}

Uncovered == Failed \ Covered

ItemRecord(items) == IF items = {} THEN {} ELSE {[kind |-> "item", of |-> NoChunk, items |-> items]}
BatchFailures  == {ChunkRecord(c) : c \in FailedChunks} \cup ItemRecord(Uncovered)
UploadFailures == ItemRecord(Failed)

LogsNext(p, due) == Steps(p, IF due = {} THEN Over ELSE [proc[p] EXCEPT !.pc = "log", !.due = due])

ReadBatch(p) ==
  /\ proc[p].pc = "read" /\ LogsNext(p, IF proc[p].kind = "upload" THEN UploadFailures ELSE BatchFailures)
  /\ UNCHANGED <<session, log, left>>

ReadFails(p) ==
  /\ proc[p].pc = "read" /\ Spend("losses") /\ Steps(p, Over)
  /\ excused' = excused \cup proc[p].done
  /\ UNCHANGED <<session, records, told, marking>>

(* A run that raises has one record for all of it. *)
Raises(p) ==
  /\ proc[p].pc \in {"work", "settle"} /\ Spend("raises")
  /\ Steps(p, [proc[p] EXCEPT !.pc = "log", !.todo = {}, !.due = {BatchRecord}])
  /\ UNCHANGED <<session, log>>

Dies(p) ==
  /\ proc[p].pc \notin {"over", "dead"} /\ Spend("deaths")
  /\ Steps(p, [Over EXCEPT !.pc = "dead"])
  /\ excused' = excused \cup proc[p].done
  /\ UNCHANGED <<session, records, told, marking>>

(* log_error, chunk after chunk; it never raises. *)
FirstDue(p, r) == r \in proc[p].due /\ \A s \in proc[p].due : s.kind = "chunk" => r.kind = "chunk" /\ r.of <= s.of
Logged(p, r) == LogsNext(p, proc[p].due \ {r})

LogError(p) ==
  /\ proc[p].pc = "log"
  /\ \E r \in proc[p].due :
       /\ FirstDue(p, r) /\ Logged(p, r)
       /\ records' = records (+) SetToBag({[kind |-> r.kind, of |-> r.of, read |-> FALSE]})
       /\ told' = told \cup r.items
  /\ UNCHANGED <<session, excused, marking, left>>

LogFails(p) ==
  /\ proc[p].pc = "log" /\ Spend("losses")
  /\ \E r \in proc[p].due : FirstDue(p, r) /\ Logged(p, r) /\ excused' = excused \cup (r.items \cap proc[p].done)
  /\ UNCHANGED <<session, records, told, marking>>

-----------------------------------------------------------------------------
(* What the user does with the records.                                       *)
ByUser == UNCHANGED <<session, proc, told, excused>>
Without(r) == records (-) SetToBag({r})
Copies(r)  == IF BagIn(r, records) THEN records[r] ELSE 0
AllRead    == [r \in {[x EXCEPT !.read = TRUE] : x \in BagToSet(records)} |->
                 Copies(r) + Copies([r EXCEPT !.read = FALSE])]

mark_read    == /\ Spend("touches")
                /\ \E r \in BagToSet(records) : records' = Without(r) (+) SetToBag({[r EXCEPT !.read = TRUE]})
                /\ UNCHANGED marking /\ ByUser
delete_error == /\ Spend("touches") /\ \E r \in BagToSet(records) : records' = Without(r)
                /\ UNCHANGED marking /\ ByUser
clear_all    == /\ Spend("touches") /\ records # EmptyBag /\ records' = EmptyBag
                /\ UNCHANGED marking /\ ByUser

(* mark_all_read counts first, and marks what is unread then. *)
CountUnread == /\ marking = "no" /\ (\E r \in BagToSet(records) : ~r.read) /\ Spend("touches")
               /\ marking' = "counted"
               /\ UNCHANGED records /\ ByUser
MarkUnread  == /\ marking = "counted" /\ records' = AllRead
               /\ marking' = "no"
               /\ UNCHANGED left /\ ByUser

-----------------------------------------------------------------------------
Init ==
  /\ image = [i \in Images |-> [s |-> "new", tag |-> NoChunk]]
  /\ chunk = [c \in Chunks |-> [s |-> "none", fails |-> 0]]
  /\ \E p \in Procs : proc = [q \in Procs |-> IF q = p THEN [Over EXCEPT !.kind = "upload", !.pc = "prepare", !.todo = Images, !.done = Images]
                                               ELSE Over]
  /\ records = EmptyBag /\ told = {} /\ excused = {} /\ marking = "no"
  /\ left \in Bounds

Next ==
  \/ \E p \in Procs : \/ Prepare(p) \/ Dispatch(p) \/ RetryChunk(p) \/ RetryItem(p) \/ Work(p) \/ Settle(p) \/ Reap(p)
                      \/ GiveUp(p) \/ ReadBatch(p) \/ ReadFails(p) \/ Raises(p) \/ Dies(p) \/ LogError(p) \/ LogFails(p)
  \/ mark_read \/ delete_error \/ clear_all \/ CountUnread \/ MarkUnread

Spec == Init /\ [][Next]_vars

-----------------------------------------------------------------------------
(* "One record per failed chunk" (worker.py:738), as often as it has failed. *)
OnePerChunk ==
  \A c \in Chunks : Copies([kind |-> "chunk", of |-> c, read |-> FALSE]) <= chunk[c].fails

===============================================================================
