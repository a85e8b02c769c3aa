---------------------------- MODULE ScanSession ----------------------------
(***************************************************************************)
(* One durable scan session (a row of scan_sessions with its rows of       *)
(* scan_session_items), the HTTP handlers that act on it, the sweep that   *)
(* declares it stuck, and the Celery tasks that extract its images.        *)
(*                                                                         *)
(* Every step is what runs between two awaits: one SQL statement or        *)
(* transaction together with the decisions taken on what the handler has   *)
(* already read.  A handler keeps what it read in its own record, so it    *)
(* may act on a session that has changed since.                            *)
(***************************************************************************)
EXTENDS Integers, FiniteSets

CONSTANTS
    Items,      \* indexes of the files announced when the session is created
    Requests,   \* HTTP requests that can be in progress at the same time
    Reaper,     \* the background task of the API process
    Tasks,      \* Celery messages that can ever be enqueued
    Ops,        \* the operations the environment may start
    MaxUploads, \* bound: POST .../process requests accepted
    MaxFaults   \* bound: exceptions, lost processes and second deliveries

ASSUME ItemsAssumption == Items \subseteq Nat /\ Items # {}
ASSUME ReaperAssumption == Reaper \notin Requests
ASSUME BoundsAssumption == MaxUploads \in Nat /\ MaxFaults \in Nat

VARIABLES
    sess,     \* scan_sessions.status, or "absent" once the row is deleted
    status,   \* scan_session_items.status
    code,     \* scan_session_items.error_code
    files,    \* the items whose image is in the scratch directory
    dir,      \* the scratch directory _scan_<id> exists
    receipts, \* the items whose image is the image of a saved receipt
    idle,     \* no row of the session was written for STUCK_TIMEOUT_SECONDS
    proc,     \* what each handler, and the reaper, is doing
    task,     \* the Celery messages
    uploads,  \* POST .../process requests accepted so far
    faults    \* faults so far

rows == <<sess, status, code, idle>>
disk == <<files, dir>>
vars == <<rows, disk, receipts, proc, task, uploads, faults>>

Procs == Requests \cup {Reaper}

Transient == {"pending", "optimizing", "processing"}
Saved     == {"needs_review", "duplicate"}
ItemStatus == Transient \cup Saved \cup {"prepared", "failed"}
SessStatus == {"uploading", "prepared", "processing", "done", "failed"}
ErrorCodes == {"none", "account", "other"} \* account: AI_QUOTA_EXCEEDED, AI_AUTH_FAILED

ReqKinds == {"process", "dispatch", "retry", "poll", "delete"}
Phases   == {"todo", "ai", "save", "saved", "dup", "over"}

First(i, S) == i \in S /\ \A j \in S : i <= j

(***************************************************************************)
(* The status of a session follows from the statuses of its items: work in *)
(* flight first, then images still held, then at least one saved image.    *)
(***************************************************************************)
DoneFirst(st) ==
    LET S == {st[i] : i \in Items}
    IN  CASE S \cap Transient # {} -> "processing"
          [] S \cap Transient = {} /\ S \cap Saved # {} -> "done"
          [] S \cap Transient = {} /\ "prepared" \in S /\ S \cap Saved = {} -> "prepared"
          [] OTHER -> "failed"

derive_session_status(st) ==
    LET S == {st[i] : i \in Items}
    IN  CASE S \cap Transient # {} -> "processing"
          [] S \cap Transient = {} /\ "prepared" \in S -> "prepared"
          [] S \cap Transient = {} /\ "prepared" \notin S /\ S \cap Saved # {} -> "done"
          [] OTHER -> "failed"

(* The status get_batch leaves in the session row and in the object it returns. *)
Reconciled == IF sess = "uploading" THEN sess ELSE derive_session_status(status)
Drifted    == Reconciled # sess

-----------------------------------------------------------------------------
(* Writes to the session.  None has any effect once the row is deleted.    *)

SetStatus(s) ==
    /\ sess' = IF sess = "absent" THEN sess ELSE s
    /\ idle' = IF sess = "absent" THEN idle ELSE FALSE

WriteItems(S, s, c) ==
    IF sess = "absent"
      THEN UNCHANGED <<status, code, idle>>
      ELSE /\ status' = [i \in Items |-> IF i \in S THEN s ELSE status[i]]
           /\ code'   = [i \in Items |-> IF i \in S THEN c ELSE code[i]]
           /\ idle'   = FALSE

update_item(i, s, c) == WriteItems({i}, s, c)

-----------------------------------------------------------------------------
(* Handlers.  Between requests a record is NoProc.                         *)

NoProc == [kind |-> "none", pc |-> "idle", todo |-> {}, staged |-> {},
           dups |-> {}, count |-> FALSE, seen |-> "absent"]

ProcType == [kind   : ReqKinds \cup {"none", "reap"},
             pc     : {"idle", "load", "reconcile", "act", "prep", "resolve",
                       "finalize", "status", "enqueue", "again", "last", "rmtree"},
             todo   : SUBSET Items,  \* items still to be treated
             staged : SUBSET Items,  \* optimised, not yet prepared
             dups   : SUBSET Items,  \* staged images found among the receipts
             count  : BOOLEAN,       \* prepared_count > 0
             seen   : SessStatus \cup {"absent"}] \* status in the loaded batch

Begin(p, k) ==
    /\ proc[p].pc = "idle"
    /\ proc' = [proc EXCEPT ![p] = [NoProc EXCEPT !.kind = k, !.pc = "load"]]
    /\ UNCHANGED <<rows, disk, receipts, task, uploads, faults>>

FreeTasks == {t \in Tasks : task[t].st = "free"}
Senders   == {p \in Requests : proc[p].kind \in {"dispatch", "retry"}}

(* Bound: a request that may enqueue starts only if a message is left for it. *)
Room == Cardinality(Senders) < Cardinality(FreeTasks)

(* Bound: an upload starts only if one more may still be accepted. *)
Asking == {p \in Requests : proc[p].kind = "process" /\ proc[p].pc = "load"}
MoreUploads == uploads + Cardinality(Asking) < MaxUploads

StartRequest(p) ==
    \E k \in Ops \cap ReqKinds :
        /\ k \in {"dispatch", "retry"} => Room
        /\ k = "process" => MoreUploads
        /\ Begin(p, k)
StartReap       == "reap" \in Ops /\ Begin(Reaper, "reap")

StartedInFlight == {i \in Items : status[i] \in Transient \ {"pending"}}
InFlight == {i \in Items : status[i] \in Transient}
Stuck    == Reconciled \in {"uploading", "processing"} /\ idle
Candidate == sess \in {"uploading", "processing"}

(* What a handler retains from the batch it loads.  The reaper looks at the
   status of the row before reconciliation only, a poll at the one after it.  *)
Selection(k, S) ==
    CASE k = "process"  -> Reconciled = "uploading" /\ S = Items
      [] k = "dispatch" -> S # {} /\ S \subseteq {i \in Items : status[i] = "prepared"}
      [] k = "retry"    -> \E i \in Items : S = {i} /\ status[i] = "failed"
                                             /\ code[i] # "account" /\ i \in files
      [] k = "poll"     -> Stuck /\ S = InFlight
      [] k = "reap"     -> Candidate /\ idle /\ S = InFlight
      [] k = "delete"   -> S = {}
      [] OTHER          -> FALSE

Loaded(k, S) ==
    [NoProc EXCEPT !.kind = k,
                   !.pc   = IF Drifted THEN "reconcile" ELSE "act",
                   !.todo = S,
                   !.seen = IF Drifted \/ k = "retry" THEN Reconciled ELSE "absent"]

(* get_batch: the rows are read, the handler's early returns are decided, and
   an upload that is accepted creates the scratch directory.                  *)
Load(p) ==
    LET k == proc[p].kind IN
    /\ proc[p].pc = "load"
    /\ sess # "absent"
    /\ k = "process" => uploads < MaxUploads
    /\ \E S \in SUBSET Items :
         /\ Selection(k, S)
         /\ proc' = [proc EXCEPT ![p] = Loaded(k, S)]
    /\ uploads' = IF k = "process" THEN uploads + 1 ELSE uploads
    /\ dir' = (dir \/ k = "process")
    /\ UNCHANGED <<rows, files, receipts, task, faults>>

(* 404, 409, 410: nothing is selected and the handler returns, but get_batch
   has repaired the status of the session it loaded.  The reaper loads only
   candidates whose row, if perhaps not their items, is old enough.          *)
Refuse(p) ==
    LET k == proc[p].kind IN
    /\ proc[p].pc = "load"
    /\ sess = "absent" \/ ~ \E S \in SUBSET Items : Selection(k, S)
    /\ \E loads \in IF k = "reap" THEN {FALSE, Candidate} ELSE {TRUE} :
         proc' = [proc EXCEPT ![p] =
            IF sess = "absent" /\ k = "delete" THEN [@ EXCEPT !.pc = "rmtree"]
            ELSE IF sess # "absent" /\ Drifted /\ loads
                   THEN [@ EXCEPT !.pc = "last", !.seen = Reconciled]
                   ELSE NoProc]
    /\ UNCHANGED <<rows, disk, receipts, task, uploads, faults>>

(* _reconcile_session_status: writes the status derived from what was read. *)
Reconcile(p) ==
    /\ proc[p].pc \in {"reconcile", "last"}
    /\ SetStatus(proc[p].seen)
    /\ LET kept == IF proc[p].kind = "retry" THEN proc[p].seen ELSE "absent"
           next == [proc[p] EXCEPT !.pc = "act", !.seen = kept]
       IN  proc' = [proc EXCEPT ![p] = IF proc[p].pc = "last" THEN NoProc ELSE next]
    /\ UNCHANGED <<status, code, disk, receipts, task, uploads, faults>>

(* The second get_batch of a handler, whose result only matters for its repair. *)
LoadAgain(p) ==
    /\ proc[p].pc = "again"
    /\ proc' = [proc EXCEPT ![p] = IF sess # "absent" /\ Drifted
                                     THEN [@ EXCEPT !.pc = "last", !.seen = Reconciled]
                                     ELSE NoProc]
    /\ UNCHANGED <<rows, disk, receipts, task, uploads, faults>>

Fault == faults < MaxFaults /\ faults' = faults + 1

(* An exception (database, broker, unsupported file type) or the loss of the
   API process ends a handler wherever it is.                                *)
RequestDies(p) ==
    /\ Fault
    /\ proc[p].pc # "idle"
    /\ proc' = [proc EXCEPT ![p] = NoProc]
    /\ UNCHANGED <<rows, disk, receipts, task, uploads>>

-----------------------------------------------------------------------------
(* POST .../process: optimise every file, look their hashes up, hold them. *)

Goes(p, pc) == proc' = [proc EXCEPT ![p].pc = pc]
At(p, k, pc) == proc[p].kind = k /\ proc[p].pc = pc

OptimizeStart(p) ==
    /\ At(p, "process", "act")
    /\ \E i \in Items : First(i, proc[p].todo) /\ update_item(i, "optimizing", "none")
    /\ Goes(p, "prep")
    /\ UNCHANGED <<sess, disk, receipts, task, uploads, faults>>

OptimizeOk(p) ==
    /\ At(p, "process", "prep")
    /\ dir
    /\ \E i \in Items :
         /\ First(i, proc[p].todo)
         /\ files' = files \cup {i}
         /\ proc' = [proc EXCEPT ![p].pc = "act", ![p].todo = @ \ {i}, ![p].staged = @ \cup {i}]
    /\ UNCHANGED <<rows, dir, receipts, task, uploads, faults>>

(* Too large, unreadable, or the directory has been removed. *)
OptimizeFails(p) ==
    /\ At(p, "process", "prep")
    /\ \E i \in Items :
         /\ First(i, proc[p].todo)
         /\ update_item(i, "failed", "other")
         /\ proc' = [proc EXCEPT ![p].pc = "act", ![p].todo = @ \ {i}]
    /\ UNCHANGED <<sess, disk, receipts, task, uploads, faults>>

LookupHashes(p) ==
    /\ At(p, "process", "act")
    /\ proc[p].todo = {}
    /\ proc' = [proc EXCEPT ![p].pc = "resolve", ![p].dups = proc[p].staged \cap receipts]
    /\ UNCHANGED <<rows, disk, receipts, task, uploads, faults>>

(* The files that are deleted when the unit U named `first` is resolved. *)
AllDiscarded(U, first, dup) == U
Discarded(U, first, dup)    == IF dup THEN U ELSE U \ {first}

(* The images of a group are merged before the lookup and the members of a unit
   written one by one; here a unit is resolved in one step.
   A unit is one image, or several merged into one PDF under the name of the
   first.  It is linked to a receipt that has its hash, or else held; a merged
   file has a hash of its own, so only a unit of one image can be a duplicate. *)
Resolve(p) ==
    /\ At(p, "process", "resolve")
    /\ \E U \in SUBSET proc[p].staged, first \in proc[p].staged :
         LET dup == U = {first} /\ first \in proc[p].dups
         IN  /\ First(first, proc[p].staged) /\ first \in U
             /\ files' = files \ Discarded(U, first, dup)
             /\ IF sess = "absent"
                  THEN UNCHANGED <<status, code, idle>>
                  ELSE /\ status' = [i \in Items |->
                             IF i = first /\ ~dup THEN "prepared"
                             ELSE IF i \in U THEN "duplicate" ELSE status[i]]
                       /\ code' = [i \in Items |-> IF i \in U THEN "none" ELSE code[i]]
                       /\ idle' = FALSE
             /\ proc' = [proc EXCEPT ![p].staged = @ \ U,
                                     ![p].count = @ \/ ~dup]
    /\ UNCHANGED <<sess, dir, receipts, task, uploads, faults>>

DupAfterUpload(count) == IF count THEN "prepared" ELSE "duplicate"
AfterUpload(count)    == IF count THEN "prepared" ELSE "failed"

finalize_prepared(p) ==
    /\ At(p, "process", "resolve")
    /\ proc[p].staged = {}
    /\ SetStatus(AfterUpload(proc[p].count))
    /\ Goes(p, "again")
    /\ UNCHANGED <<status, code, disk, receipts, task, uploads, faults>>

-----------------------------------------------------------------------------
(* POST .../dispatch and POST .../items/{i}/retry.                         *)

(* Only the selected items that are still prepared are flipped. *)
AsSelected(S)    == S
StillPrepared(S) == {i \in S : status[i] = "prepared"}

mark_queued(p) ==
    LET flipped == StillPrepared(proc[p].todo) IN
    /\ At(p, "dispatch", "act")
    /\ IF dir /\ sess # "absent" /\ flipped # {}
         THEN /\ WriteItems(flipped, "pending", "none")
              /\ proc' = [proc EXCEPT ![p].pc = "status", ![p].todo = flipped]
         ELSE /\ proc' = [proc EXCEPT ![p] = NoProc]
              /\ UNCHANGED <<status, code, idle>>
    /\ UNCHANGED <<sess, disk, receipts, task, uploads, faults>>

ResetForRetry(p) ==
    /\ At(p, "retry", "act")
    /\ WriteItems(proc[p].todo, "pending", "none")
    /\ Goes(p, IF proc[p].seen \in {"done", "failed"} THEN "status" ELSE "enqueue")
    /\ UNCHANGED <<sess, disk, receipts, task, uploads, faults>>

MarkProcessing(p) ==
    /\ proc[p].pc = "status"
    /\ SetStatus("processing")
    /\ Goes(p, "enqueue")
    /\ UNCHANGED <<status, code, disk, receipts, task, uploads, faults>>

NewTask(kind, S) == [kind |-> kind, st |-> "queued", entries |-> S,
                     phase |-> [i \in Items |-> "todo"], final |-> "absent"]

Enqueue(p) ==
    /\ proc[p].kind \in {"dispatch", "retry"} /\ proc[p].pc = "enqueue"
    /\ \E t \in FreeTasks : task' = [task EXCEPT ![t] = NewTask(proc[p].kind, proc[p].todo)]
    /\ proc' = [proc EXCEPT ![p] = NoProc]
    /\ UNCHANGED <<rows, disk, receipts, uploads, faults>>

-----------------------------------------------------------------------------
(* GET .../{id} and the reaper: fail the items that were in flight when the
   session was loaded, one at a time.                                       *)

Sweep(p) ==
    /\ proc[p].kind \in {"poll", "reap"} /\ proc[p].pc = "act"
    /\ \E i \in Items :
         /\ First(i, proc[p].todo)
         /\ update_item(i, "failed", "other")
         /\ proc' = [proc EXCEPT ![p].todo = @ \ {i}]
    /\ UNCHANGED <<sess, disk, receipts, task, uploads, faults>>

SweepEnds(p) ==
    /\ proc[p].kind \in {"poll", "reap"} /\ proc[p].pc = "act"
    /\ proc[p].todo = {}
    /\ IF proc[p].kind = "poll" THEN Goes(p, "again")
                                ELSE proc' = [proc EXCEPT ![p] = NoProc]
    /\ UNCHANGED <<rows, disk, receipts, task, uploads, faults>>

-----------------------------------------------------------------------------
(* DELETE .../{id}: the row with its items, then the directory.            *)

DropSession(p) ==
    /\ At(p, "delete", "act")
    /\ sess' = "absent"
    /\ status' = [i \in Items |-> "pending"]
    /\ code' = [i \in Items |-> "none"]
    /\ idle' = FALSE
    /\ Goes(p, "rmtree")
    /\ UNCHANGED <<disk, receipts, task, uploads, faults>>

RemoveDir(p) ==
    /\ At(p, "delete", "rmtree")
    /\ dir' = FALSE
    /\ files' = {}
    /\ proc' = [proc EXCEPT ![p] = NoProc]
    /\ UNCHANGED <<rows, receipts, task, uploads, faults>>

-----------------------------------------------------------------------------
(* The worker.  The chunks of a task run concurrently, so its entries do.  *)

TaskType == [kind    : {"none", "dispatch", "retry"},
             st      : {"free", "queued", "running", "settle", "acked"},
             entries : SUBSET Items,
             phase   : [Items -> Phases],
             final   : SessStatus \cup {"absent"}]

FreeTask == [NewTask("none", {}) EXCEPT !.st = "free"]
Doing(t, i, ph) == task[t].st = "running" /\ i \in task[t].entries /\ task[t].phase[i] = ph
Phase(t, i, ph) == task' = [task EXCEPT ![t].phase[i] = ph]

(* process_batch marks the session; retry_item does not. *)
TaskStart(t) ==
    /\ task[t].st = "queued"
    /\ task' = [task EXCEPT ![t].st = "running"]
    /\ IF task[t].kind = "dispatch" THEN SetStatus("processing") ELSE UNCHANGED <<sess, idle>>
    /\ UNCHANGED <<status, code, disk, receipts, proc, uploads, faults>>

SendToAI(t, i) ==
    /\ Doing(t, i, "todo")
    /\ update_item(i, "processing", "none")
    /\ Phase(t, i, "ai")
    /\ UNCHANGED <<sess, disk, receipts, proc, uploads, faults>>

SavedTooEarly   == "needs_review"
WhileSaving     == "processing"

ExtractOk(t, i) ==
    /\ Doing(t, i, "ai")
    /\ i \in files
    /\ update_item(i, WhileSaving, "none")
    /\ Phase(t, i, "save")
    /\ UNCHANGED <<sess, disk, receipts, proc, uploads, faults>>

(* The provider failed or returned nothing, or the file is gone. *)
ExtractFails(t, i) ==
    /\ Doing(t, i, "ai")
    /\ \E c \in ErrorCodes \ {"none"} : update_item(i, "failed", c)
    /\ Phase(t, i, "over")
    /\ UNCHANGED <<sess, disk, receipts, proc, uploads, faults>>

(* The receipt is inserted unless one has the hash of the image already. *)
SaveReceipt(t, i) ==
    /\ Doing(t, i, "save")
    /\ Phase(t, i, IF i \in receipts THEN "dup" ELSE "saved")
    /\ receipts' = receipts \cup {i}
    /\ UNCHANGED <<rows, disk, proc, uploads, faults>>

SaveFails(t, i) ==
    /\ Doing(t, i, "save")
    /\ update_item(i, "failed", "other")
    /\ Phase(t, i, "over")
    /\ UNCHANGED <<sess, disk, receipts, proc, uploads, faults>>

ReportSaved(t, i) ==
    /\ Doing(t, i, "saved") \/ Doing(t, i, "dup")
    /\ update_item(i, IF task[t].phase[i] = "dup" THEN "duplicate" ELSE "needs_review", "none")
    /\ Phase(t, i, "over")
    /\ UNCHANGED <<sess, disk, receipts, proc, uploads, faults>>

(* A database error in a chunk is isolated by gather: its items stay as they are. *)
ChunkDies(t, i) ==
    /\ Fault
    /\ \E ph \in Phases \ {"over"} : Doing(t, i, ph)
    /\ Phase(t, i, "over")
    /\ UNCHANGED <<rows, disk, receipts, proc, uploads>>

(* get_batch when every entry is over: repair the row, retain the derived status. *)
TaskLoad(t) ==
    /\ task[t].st = "running"
    /\ \A i \in task[t].entries : task[t].phase[i] = "over"
    /\ task' = [task EXCEPT ![t] =
          IF sess = "absent" THEN [@ EXCEPT !.st = "acked"]
          ELSE [@ EXCEPT !.st = "settle", !.final = derive_session_status(status)]]
    /\ UNCHANGED <<rows, disk, receipts, proc, uploads, faults>>

(* The repair of get_batch and the set_batch_status that follows write one value;
   the second of them is what another process can still be overtaken by.          *)
TaskSettle(t) ==
    /\ task[t].st = "settle"
    /\ SetStatus(task[t].final)
    /\ task' = [task EXCEPT ![t].st = "acked"]
    /\ UNCHANGED <<status, code, disk, receipts, proc, uploads, faults>>

(* No provider or no settings before the extraction, a database error after it:
   a process_batch task then fails the session, a retry does not.              *)
TaskRaises(t) ==
    /\ Fault
    /\ task[t].st \in {"running", "settle"}
    /\ \E ph \in {"todo", "over"} : \A i \in task[t].entries : task[t].phase[i] = ph
    /\ task' = [task EXCEPT ![t].st = "acked"]
    /\ IF task[t].kind = "dispatch" THEN SetStatus("failed") ELSE UNCHANGED <<sess, idle>>
    /\ UNCHANGED <<status, code, disk, receipts, proc, uploads>>

(* The container is lost: task_acks_late, so its messages are delivered again. *)
WorkerCrash ==
    /\ Fault
    /\ \E t \in Tasks : task[t].st \in {"running", "settle"}
    /\ task' = [t \in Tasks |-> IF task[t].st \in {"running", "settle"}
                                   THEN NewTask(task[t].kind, task[t].entries)
                                   ELSE task[t]]
    /\ UNCHANGED <<rows, disk, receipts, proc, uploads>>

(* A message not acknowledged within visibility_timeout is delivered a second time. *)
Redeliver(t) ==
    /\ "redeliver" \in Ops /\ Room
    /\ Fault
    /\ task[t].st = "running"
    /\ \E u \in FreeTasks : task' = [task EXCEPT ![u] = NewTask(task[t].kind, task[t].entries)]
    /\ UNCHANGED <<rows, disk, receipts, proc, uploads>>

TimePasses ==
    /\ ~idle
    /\ sess # "absent"
    /\ idle' = TRUE
    /\ UNCHANGED <<sess, status, code, disk, receipts, proc, task, uploads, faults>>

-----------------------------------------------------------------------------

Init ==
    /\ sess = "uploading"
    /\ status = [i \in Items |-> "pending"]
    /\ code = [i \in Items |-> "none"]
    /\ idle = FALSE
    /\ files = {} /\ dir = FALSE
    /\ receipts \in SUBSET Items
    /\ proc = [p \in Procs |-> NoProc]
    /\ task = [t \in Tasks |-> FreeTask]
    /\ uploads = 0 /\ faults = 0

Upload(p)   == OptimizeStart(p) \/ OptimizeOk(p) \/ OptimizeFails(p) \/ LookupHashes(p)
                 \/ Resolve(p) \/ finalize_prepared(p)
SendOff(p)  == mark_queued(p) \/ ResetForRetry(p) \/ MarkProcessing(p) \/ Enqueue(p)
Handle(p)   == Load(p) \/ Refuse(p) \/ Reconcile(p) \/ LoadAgain(p) \/ Upload(p) \/ SendOff(p)
                 \/ Sweep(p) \/ SweepEnds(p) \/ DropSession(p) \/ RemoveDir(p)
Extract(t)  == \E i \in Items : SendToAI(t, i) \/ ExtractOk(t, i) \/ ExtractFails(t, i)
                 \/ SaveReceipt(t, i) \/ SaveFails(t, i) \/ ReportSaved(t, i)
Work(t)     == TaskStart(t) \/ Extract(t) \/ TaskLoad(t) \/ TaskSettle(t)
Accident(t) == TaskRaises(t) \/ Redeliver(t) \/ \E i \in Items : ChunkDies(t, i)

Next ==
    \/ \E p \in Requests : StartRequest(p)
    \/ StartReap
    \/ \E p \in Procs : Handle(p) \/ RequestDies(p)
    \/ \E t \in Tasks : Work(t) \/ Accident(t)
    \/ WorkerCrash
    \/ TimePasses

Spec == Init /\ [][Next]_vars

(***************************************************************************)
(* Fairness.  The API process and the worker keep running what they have   *)
(* begun, the reaper's loop never ends, and time passes.  No user is       *)
(* obliged to do anything; FairPollSpec adds a client that keeps polling.  *)
(***************************************************************************)
Fairness ==
    /\ WF_vars(TimePasses)
    /\ WF_vars(StartReap)
    /\ \A p \in Procs : WF_vars(Handle(p))
    /\ \A t \in Tasks : WF_vars(Work(t))

FairSpec     == Spec /\ Fairness
FairPollSpec == FairSpec /\ WF_vars(\E p \in Requests : Begin(p, "poll"))

-----------------------------------------------------------------------------

TypeOK ==
    /\ sess \in SessStatus \cup {"absent"}
    /\ status \in [Items -> ItemStatus]
    /\ code \in [Items -> ErrorCodes]
    /\ files \subseteq Items
    /\ dir \in BOOLEAN
    /\ receipts \subseteq Items
    /\ idle \in BOOLEAN
    /\ proc \in [Procs -> ProcType]
    /\ task \in [Tasks -> TaskType]
    /\ uploads \in Nat
    /\ faults \in Nat

(* The items a dispatch has flipped and not yet put in a message. *)
Flipped(p) == IF proc[p].kind = "dispatch" /\ proc[p].pc \in {"status", "enqueue"}
                THEN proc[p].todo ELSE {}
Sent(t)    == IF task[t].kind = "dispatch" THEN task[t].entries ELSE {}

(* A held image is put in at most one message, however many clients dispatch
   overlapping groups at the same time (mark_queued: "concurrent dispatches of
   the same group can't double-send").                                         *)
DispatchedOnce ==
    /\ \A t, u \in Tasks : t # u => Sent(t) \cap Sent(u) = {}
    /\ \A p \in Procs, t \in Tasks : Flipped(p) \cap Sent(t) = {}
    /\ \A p, q \in Procs : p # q => Flipped(p) \cap Flipped(q) = {}

(* A session whose upload is over is not reported done while it still holds an
   image to be sent: "Any held (`prepared`) item keeps the session `prepared`
   (resumable)".                                                                 *)
Uploading(p) == proc[p].kind = "process" /\ proc[p].pc \in {"reconcile", "act", "prep", "resolve"}

HeldNotDone ==
    sess = "done" /\ (\A p \in Procs : ~Uploading(p)) => \A i \in Items : status[i] # "prepared"

(* A held image can be dispatched without a new upload: its file is in the scratch
   directory whatever uploads, merges, retries and deletions have happened.      *)
HeldHasFile ==
    sess # "absent" => \A i \in Items : status[i] = "prepared" => i \in files /\ dir

(* Why the two hold when a session is uploaded once: an image that an upload still
   has in hand, or that a dispatch has taken, is not prepared; a prepared image
   has left the hands of the upload, with its file; a directory is only removed
   after its session.                                                            *)
Taken(i)     == \/ \E t \in Tasks : i \in Sent(t)
                \/ \E p \in Procs : i \in Flipped(p)
InHand(p)    == IF Uploading(p) THEN proc[p].todo \cup proc[p].staged ELSE {}
OneUpload    ==
    /\ uploads <= MaxUploads
    /\ uploads = 0 => \A p \in Procs : ~Uploading(p)
    /\ \A p, q \in Procs : Uploading(p) /\ Uploading(q) => p = q
TakenNotHeld == \A i \in Items : Taken(i) => status[i] # "prepared"
InHandIsNew  ==
    /\ uploads = 0 => \A i \in Items : status[i] # "prepared" /\ ~Taken(i)
    /\ \A p \in Procs : \A i \in InHand(p) : status[i] # "prepared" /\ ~Taken(i)
    /\ \A p \in Procs : Uploading(p) => proc[p].todo \cap proc[p].staged = {}
StagedHasFile ==
    sess # "absent" => \A p \in Procs : Uploading(p) => /\ dir
                                                       /\ proc[p].staged \subseteq files
RemovalAfterDrop ==
    \A p \in Procs : At(p, "delete", "rmtree") => sess = "absent"

HandInv     == OneUpload /\ TakenNotHeld /\ InHandIsNew
DispatchInv == HandInv /\ DispatchedOnce
HeldInv     == HandInv /\ StagedHasFile /\ RemovalAfterDrop /\ HeldHasFile

(* A sweep acts on a session that nothing has written to for STUCK_TIMEOUT_SECONDS,
   and an upload writes at every image: a sweep in the middle of an upload needs an
   upload that stalls that long and goes on.  HeldNotDone holds but for those.      *)
SweepsSpareUploads == \A p, q \in Procs : Sweep(p) => ~Uploading(q)
CalmSpec == Spec /\ [][SweepsSpareUploads]_vars

(* Why it does: whoever is about to write "done" has seen every image out of the
   hands of the upload and none held, and that is final.  An image in hand is in
   flight, since neither a task nor a retry has got hold of it.                   *)
Touched(i) == \/ \E t \in Tasks : i \in task[t].entries
              \/ \E p \in Procs : proc[p].kind \in {"dispatch", "retry"} /\ i \in proc[p].todo
New        == {"pending", "optimizing"}
Settled    == uploads # 0 /\ \A i \in Items : status[i] # "prepared" /\ \A p \in Procs : i \notin InHand(p)
ToSay(s)   == \/ \E p \in Procs : proc[p].pc \in {"reconcile", "last"} /\ proc[p].seen = s
              \/ \E t \in Tasks : task[t].st = "settle" /\ task[t].final = s
SaysDone   == sess = "done" \/ ToSay("done")
BeforeUpload == uploads = 0 => /\ files = {}
                               /\ \A i \in Items : status[i] \in {"pending", "failed"} /\ ~Touched(i)
WhileOptimizing(p) == Uploading(p) /\ proc[p].todo # {} =>
    /\ proc[p].pc # "resolve" /\ files \subseteq proc[p].staged
    /\ \A i \in Items : status[i] \in New \cup {"failed"} /\ ~Touched(i)
    /\ proc[p].pc = "prep" => \A i \in Items : First(i, proc[p].todo) => status[i] \in New
StagedIsNew(p) == Uploading(p) => \A i \in proc[p].staged : status[i] \in New /\ ~Touched(i)
DoneInv    == /\ OneUpload /\ BeforeUpload
              /\ ~ToSay("absent") /\ (sess = "absent" => \A i \in Items : status[i] = "pending")
              /\ \A p \in Procs : WhileOptimizing(p) /\ StagedIsNew(p)
              /\ SaysDone => Settled

(* An item shown as saved for review has its receipt: the status is written after
   the insert, whatever is lost, delivered again or swept in between.           *)
ReviewHasReceipt ==
    sess # "absent" => \A i \in Items : status[i] = "needs_review" => i \in receipts
ReviewInv ==
    /\ \A i \in Items : status[i] = "needs_review" => i \in receipts
    /\ \A t \in Tasks, i \in Items : task[t].phase[i] = "saved" => i \in receipts

(* No two tasks have the same image at the AI provider at the same time: "the same
   image can never be sent twice (sha256 + per-item state machine)".             *)
NeverSentTwice ==
    \A t, u \in Tasks, i \in Items : Doing(t, i, "ai") /\ Doing(u, i, "ai") => t = u

(* A held image never fails without having been dispatched: the stuck detector
   "must NOT destroy held `prepared` items".                                    *)
HeldSurvives ==
    [][\A i \in Items : status[i] = "prepared" => status'[i] # "failed"]_vars

(* Whatever dies, an item in flight ends in a status a user can act on. *)
ItemsSettle ==
    \A i \in Items : (sess # "absent" /\ status[i] \in Transient)
                        ~> (sess = "absent" \/ status[i] \notin Transient)

(* A session whose client is gone in the middle of the upload does not stay
   in `uploading`.                                                              *)
UploadSettles == (sess = "uploading") ~> (sess # "uploading")

=============================================================================
