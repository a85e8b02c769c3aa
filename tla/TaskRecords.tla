----------------------------- MODULE TaskRecords ------------------------------
(***************************************************************************)
(* POST /receipts/batch-extract and its task record (api/receipts.py,      *)
(* api/tasks.py, services/task_service.py, the tasks.extract_receipt_batch *)
(* thread of tasks/worker.py): the row is made first, the files are put in *)
(* a directory, the message is sent; a worker extracts the chunks side by  *)
(* side and writes into the row what it has done, while the user pauses,   *)
(* resumes or deletes it.  The broker delivers again what was not          *)
(* acknowledged in time.                                                   *)
(***************************************************************************)
EXTENDS Naturals, FiniteSets, Sequences

CONSTANTS Chunks,        \* the images of the batch, as a set of sequences
          Workers,       \* threads that may run the task
          Bounds         \* bound: deliveries again, crashes, and what the user does, records

RangeOf(s) == {s[i] : i \in DOMAIN s}
Pictures == UNION {RangeOf(c) : c \in Chunks}

VARIABLES row,        \* the task: status, started, ended, results, what its message says
          upload,     \* the request
          dir,        \* _batch_{task} holds the files
          messages,   \* in the broker, and those of dead workers it still waits for
          run,        \* of each worker
          receipts,   \* images that have become receipts
          left        \* what is left of the bounds

vars == <<row, upload, dir, messages, run, receipts, left>>

NoTask == [status |-> "none"]
Says(what, n) == [what |-> what, n |-> n]
Idle == [pc |-> "idle"]
Terminal == {"completed", "failed"}

Init == /\ row = NoTask /\ upload = "new" /\ dir = FALSE /\ messages = [queued |-> 0, lost |-> 0]
        /\ run = [w \in Workers |-> Idle] /\ receipts = {}
        /\ left \in Bounds

-----------------------------------------------------------------------------
(* The request. *)
Create ==
  /\ upload = "new" /\ upload' = "files"
  /\ row' = [status |-> "queued", started |-> FALSE, ended |-> FALSE, says |-> Says("waiting", 0),
             results |-> [i \in Pictures |-> "unset"]]
  /\ UNCHANGED <<dir, messages, run, receipts, left>>

StageFiles ==
  /\ upload = "files" /\ upload' = "send" /\ dir' = TRUE
  /\ UNCHANGED <<row, messages, run, receipts, left>>

(* A file is too large, has too many pages or is not an image; the settings    *)
(* cannot be read; the broker is away.                                        *)
Refuse ==
  /\ upload \in {"files", "send"} /\ upload' = "refused"
  /\ dir' \in {dir, upload = "files"}
  /\ UNCHANGED <<row, messages, run, receipts, left>>

Send ==
  /\ upload = "send" /\ upload' = "sent" /\ messages' = [messages EXCEPT !.queued = @ + 1]
  /\ UNCHANGED <<row, dir, run, receipts, left>>

-----------------------------------------------------------------------------
(* TaskService: every statement names the task and its user, and asks nothing *)
(* of the status; a task that has been deleted is left alone.                 *)
update_progress(status, says) ==
  row' = IF row = NoTask THEN row
         ELSE [row EXCEPT !.status = status, !.says = says, !.started = @ \/ status = "processing", !.ended = status \in Terminal]

add_task_result(i, data) == row' = IF row = NoTask THEN row ELSE [row EXCEPT !.results[i] = data]

Touch == row # NoTask /\ left.touches > 0 /\ left' = [left EXCEPT !.touches = @ - 1]

(* Pause and resume set the status, and nothing else. *)
SetStatus(status) ==
  /\ Touch /\ row' = [row EXCEPT !.status = status]
  /\ UNCHANGED <<upload, dir, messages, run, receipts>>

Pause  == SetStatus("paused")
Resume == SetStatus("processing")

Report(status) ==
  /\ Touch /\ update_progress(status, Says("reported", 0))
  /\ UNCHANGED <<upload, dir, messages, run, receipts>>

Delete ==
  /\ Touch /\ row' = NoTask
  /\ UNCHANGED <<upload, dir, messages, run, receipts>>

-----------------------------------------------------------------------------
(* The worker.  A chunk reads its files when its turn comes, then stores a     *)
(* result for each image: a receipt, or nothing for one that is a duplicate,   *)
(* cannot be read or cannot be saved.  A chunk fails with nothing saved; one    *)
(* that stops on an unexpected exception says nothing (see ChunkEngine).       *)
Begin(w) ==
  /\ run[w] = Idle /\ messages.queued > 0 /\ messages' = [messages EXCEPT !.queued = @ - 1]
  /\ run' = [run EXCEPT ![w] = [pc |-> "taken", holds |-> TRUE, saved |-> <<>>, failed |-> {}, mine |-> {},
                                chunk |-> [c \in Chunks |-> [is |-> "waiting", next |-> 1, readable |-> FALSE]]]]
  /\ UNCHANGED <<row, upload, dir, receipts, left>>

(* The pool, the settings and the key are there: the chunks start (5% and 10%). *)
Start(w) ==
  /\ run[w].pc = "taken" /\ run' = [run EXCEPT ![w].pc = "working"]
  /\ update_progress("processing", Says("working", 0))
  /\ UNCHANGED <<upload, dir, messages, receipts, left>>

Open(w, c) ==
  /\ run[w].pc = "working" /\ run[w].chunk[c].is = "waiting"
  /\ run' = [run EXCEPT ![w].chunk[c] = [is |-> "open", next |-> 1, readable |-> dir]]
  /\ UNCHANGED <<row, upload, dir, messages, receipts, left>>

(* Mutant: every image that has a result counts. *)
CountResults(saved, i, made) == Append(saved, i)

(* store: only what has become a receipt counts. *)
Counted(saved, i, made) == IF made THEN Append(saved, i) ELSE saved

Store(w, c, made) ==
  LET k == run[w].chunk[c] i == c[k.next] IN
  /\ run[w].pc = "working" /\ k.is = "open" /\ k.next <= Len(c)
  /\ made => k.readable /\ i \notin receipts
  /\ receipts' = IF made THEN receipts \cup {i} ELSE receipts
  /\ run' = [run EXCEPT ![w].saved = Counted(@, i, made), ![w].chunk[c].next = @ + 1,
                        ![w].mine = IF made THEN @ \cup {i} ELSE @]
  /\ add_task_result(i, IF made THEN "data" ELSE "null")
  /\ UNCHANGED <<upload, dir, messages, left>>

EndChunk(w, c, is) ==
  LET k == run[w].chunk[c] IN
  /\ run[w].pc = "working" /\ k.is = "open"
  /\ is = "done" => k.next > Len(c)
  /\ is = "failed" => RangeOf(c) \cap run[w].mine = {} /\ k.next \in {1, Len(c) + 1}
  /\ run' = [run EXCEPT ![w].chunk[c].is = is, ![w].failed = IF is = "failed" THEN @ \cup {c} ELSE @]
  /\ UNCHANGED <<row, upload, dir, messages, receipts, left>>

(* 100%, and still in progress; an exception of a chunk has only been logged. *)
ChunksOver(r) == \A c \in Chunks : r.chunk[c].is \in {"done", "failed", "lost"}
Gather(w) ==
  /\ run[w].pc = "working" /\ ChunksOver(run[w])
  /\ update_progress("processing", Says("working", 0))
  /\ run' = [run EXCEPT ![w].pc = "gathered"]
  /\ UNCHANGED <<upload, dir, messages, receipts, left>>

(* What the end of the batch is told to be: "n/total receipts saved", "no       *)
(* receipts saved", or "receipts saved" without a number.                      *)
Verdict(r) ==
  CASE r.saved # <<>> /\ Len(r.saved) < Cardinality(Pictures) -> [status |-> "completed", says |-> Says("partial", Len(r.saved))]
    [] r.saved = <<>> /\ r.failed # {} -> [status |-> "failed", says |-> Says("nothing", 0)]
    [] OTHER -> [status |-> "completed", says |-> Says("saved", 0)]

End(w) ==
  /\ run[w].pc = "gathered"
  /\ update_progress(Verdict(run[w]).status, Verdict(run[w]).says)
  /\ run' = [run EXCEPT ![w].pc = "ending"]
  /\ UNCHANGED <<upload, dir, messages, receipts, left>>

(* No pool, no key: the whole batch fails before its first chunk. *)
Fail(w) ==
  /\ run[w].pc = "taken"
  /\ update_progress("failed", Says("error", 0))
  /\ run' = [run EXCEPT ![w].pc = "ending"]
  /\ UNCHANGED <<upload, dir, messages, receipts, left>>

(* finally: the directory goes, and the message is acknowledged. *)
Clean(w) ==
  /\ run[w].pc = "ending" /\ dir' = FALSE /\ run' = [run EXCEPT ![w] = Idle]
  /\ UNCHANGED <<row, upload, messages, receipts, left>>

(* The process dies.  The broker delivers a message again an hour after it was *)
(* taken and not acknowledged, whether its worker is alive or not.             *)
Crash(w) ==
  /\ run[w] # Idle /\ left.crashes > 0 /\ left' = [left EXCEPT !.crashes = @ - 1]
  /\ run' = [run EXCEPT ![w] = Idle]
  /\ messages' = IF run[w].holds THEN [messages EXCEPT !.lost = @ + 1] ELSE messages
  /\ UNCHANGED <<row, upload, dir, receipts>>

RedeliverLost ==
  /\ left.again > 0 /\ messages.lost > 0 /\ left' = [left EXCEPT !.again = @ - 1]
  /\ messages' = [queued |-> messages.queued + 1, lost |-> messages.lost - 1]
  /\ UNCHANGED <<row, upload, dir, run, receipts>>

RedeliverSlow(w) ==
  /\ left.again > 0 /\ run[w] # Idle /\ run[w].holds /\ left' = [left EXCEPT !.again = @ - 1]
  /\ messages' = [messages EXCEPT !.queued = @ + 1] /\ run' = [run EXCEPT ![w].holds = FALSE]
  /\ UNCHANGED <<row, upload, dir, receipts>>

-----------------------------------------------------------------------------
Next ==
  \/ Create \/ StageFiles \/ Refuse \/ Send \/ Delete \/ RedeliverLost
  \/ Pause \/ Resume
  \/ \E status \in {"queued", "processing", "completed", "failed", "paused"} : Report(status)
  \/ \E w \in Workers :
       \/ Begin(w) \/ Start(w) \/ Gather(w) \/ End(w) \/ Fail(w) \/ Clean(w) \/ Crash(w) \/ RedeliverSlow(w)
       \/ \E c \in Chunks :
            \/ Open(w, c) \/ \E made \in BOOLEAN : Store(w, c, made)
            \/ \E is \in {"done", "failed", "lost"} : EndChunk(w, c, is)

Spec == Init /\ [][Next]_vars

-----------------------------------------------------------------------------
(* What a worker says at the end is true of what it has done, whatever the     *)
(* user and another worker have done to the task (tasks/worker.py:651-667).    *)
(* "n of total": these are its receipts, some and not all.  "No receipts": it  *)
(* has made none.  "Receipts saved": it has made all of them; or it has made    *)
(* none, and then no chunk has told a failure: each has been lost to an         *)
(* exception (SuccessMeansSaved) or has found nothing to save.                 *)
TellsTrue(r) ==
  LET says == Verdict(r).says IN
  /\ says.what = "partial" => says.n = Cardinality(r.mine) /\ r.mine \notin {{}, Pictures}
  /\ says.what = "nothing" => r.mine = {}
  /\ says.what = "saved"   => \/ r.mine = Pictures
                              \/ r.mine = {} /\ \A c \in Chunks : r.chunk[c].is \in {"done", "lost"}

(* And a row that tells a number has at least so many receipts behind it.      *)
VerdictTrue ==
  /\ \A w \in Workers : run[w].pc = "gathered" => TellsTrue(run[w])
  /\ row # NoTask /\ row.says.what = "partial" => row.says.n \in 1..Cardinality(receipts)

(* "Batch extraction complete — receipts saved" is said when some are: "Whole  *)
(* batch failed ... don't report success" (tasks/worker.py:658).               *)
SuccessMeansSaved == row # NoTask /\ row.says.what = "saved" => receipts # {}

(* A failure that says "no receipts saved" is of a task that has saved none.   *)
FailureMeansNone == row # NoTask /\ row.says.what = "nothing" => receipts = {}

(* A task that waits to start will be started: its request is at work, or its  *)
(* message is on its way ("Task created, waiting to start",                    *)
(* services/task_service.py:62).                                              *)
QueuedIsComing == row # NoTask /\ row.status = "queued" /\ row.says.what = "waiting" => upload \in {"files", "send"} \/ messages.queued + messages.lost > 0

(* A paused task does nothing until it is resumed ("Pause a task",             *)
(* api/tasks.py:172).                                                         *)
PauseHolds == [][row # NoTask /\ row.status = "paused" => receipts' = receipts]_vars

===============================================================================
