---------------------------- MODULE ChunkEngine ----------------------------
(***************************************************************************)
(* Inside the Celery tasks of one scan session: the images of a dispatch   *)
(* are split into chunks, a semaphore lets a few chunks at a time call the *)
(* AI provider, a failed call is retried, fanned out to one call per image *)
(* or given up, and an account error stops the chunks that wait.  Users    *)
(* retry a failed chunk or a failed image while all this goes on.          *)
(*                                                                         *)
(* A run is one execution of _process_chunk_with_fallback, with the HTTP   *)
(* request that asked for it when it is a retry.  Every step is what runs  *)
(* between two awaits that touch the database or the provider.  The chunk  *)
(* list is one JSON column that each run reads, changes and writes back in *)
(* two statements: `write` is what a run is in the middle of writing.      *)
(***************************************************************************)
EXTENDS Integers, FiniteSets

CONSTANTS
    Items,       \* indexes of the images that were dispatched
    Known,       \* those whose image is that of a saved receipt before
    Mains,       \* process_batch messages
    Group,       \* the images each of them was dispatched with
    Retries,     \* bound: retry requests that users can ever make
    Kinds,       \* the kinds of retry the environment uses
    Answers,     \* what the provider may answer
    ChunkSize,   \* images per provider call: 10, or 3 with PDF files
    Concurrency, \* provider calls at a time within one message
    MaxPosts,    \* bound: retry requests in progress at the same time
    MaxFaults    \* bound: exceptions that end a run

ASSUME ItemsAssumption == Items \subseteq Nat /\ IsFiniteSet(Items) /\ Items # {}
ASSUME KnownAssumption == Known \subseteq Items
ASSUME GroupAssumption == Group \in [Mains -> SUBSET Items] /\ Mains \cap Retries = {}
ASSUME DispatchAssumption == Items = UNION {Group[t] : t \in Mains}
ASSUME SizeAssumption == ChunkSize \in Nat \ {0} /\ Concurrency \in Nat \ {0}
ASSUME BoundAssumption == MaxPosts \in Nat /\ MaxFaults \in Nat

VARIABLES
    status,   \* scan_session_items.status
    code,     \* scan_session_items.error_code
    tag,      \* scan_session_items.chunk_index
    receipts, \* the items whose image is the image of a saved receipt
    stored,   \* scan_sessions.chunks
    main,     \* the process_batch messages
    cancel,   \* the cancel_event of each of them
    run,      \* the runs
    write,    \* the update_chunk each run is in
    faults    \* faults so far

items == <<status, code, tag, receipts>>
vars  == <<items, stored, main, cancel, run, write, faults>>

Saved    == {"needs_review", "duplicate"}
InFlight == {"pending", "processing"}
Errors   == {"account", "json", "transient", "other"}
ChunkIds == 0 .. Cardinality(Items) - 1
Untagged == -2  \* SQL NULL

(* A process_batch message has a run per chunk, a retry is one run. *)
Runs == (Mains \X ChunkIds) \cup (Retries \X {0})

(* The entries of a message in the order of their indexes, cut every ChunkSize. *)
Rank(i, E)   == Cardinality({j \in E : j < i})
Chunk(E, ci) == {i \in E : Rank(i, E) \div ChunkSize = ci}

First(i, S) == i \in S /\ \A j \in S : i <= j

-----------------------------------------------------------------------------
(* Classification of a failed provider call (error_codes.py).              *)

should_fan_out_to_per_image(e) == e = "json"
should_stop_batch(e)           == e = "account"

MAX_CHUNK_BACKOFF_ATTEMPTS == 2

-----------------------------------------------------------------------------
(* scan_sessions.chunks and update_chunk.                                  *)

NoChunk == [status |-> "absent", items |-> {}, attempts |-> 0, err |-> "none"]
NewChunk(S) == IF S = {} THEN NoChunk ELSE [NoChunk EXCEPT !.status = "pending", !.items = S]

ChunkStatus == {"pending", "extracting", "saving", "done", "failed"}
ChunkType == [status   : ChunkStatus \cup {"absent"},
              items    : SUBSET Items,
              attempts : Nat,
              err      : Errors \cup {"none"}]

NoWrite == [stage |-> "none", status |-> "pending", err |-> "none", inc |-> 0,
            snap |-> [ci \in ChunkIds |-> NoChunk]]
WriteType == [stage : {"none", "read", "write"}, status : ChunkStatus, inc : {0, 1},
              err : Errors \cup {"none"}, snap : [ChunkIds -> ChunkType]]

(* An error code is only replaced by another one, or dropped by `done`. *)
Updated(c, w) ==
    [c EXCEPT !.status = w.status,
              !.attempts = c.attempts + w.inc,
              !.err = IF w.status = "done" THEN "none"
                      ELSE IF w.err = "none" THEN c.err ELSE w.err]

NoRun == [kind |-> "none", pc |-> "none", ci |-> 0, entries |-> {}, left |-> {},
          got |-> {}, good |-> FALSE, attempt |-> 0, err |-> "none", calls |-> 0, late |-> 0]

RunType == [kind    : {"none", "main", "chunk", "item"},
            pc      : {"none", "reset", "wait", "skip", "mark", "call", "backoff", "save",
                       "fan", "fancall", "fail", "over", "died"},
            ci      : ChunkIds \cup {-1},
            entries : SUBSET Items,
            left    : SUBSET Items,  \* entries the current loop still has to treat
            got     : SUBSET Items,  \* entries the provider returned a receipt for
            good    : BOOLEAN,       \* any_success
            attempt : 0 .. MAX_CHUNK_BACKOFF_ATTEMPTS,
            err     : Errors \cup {"none"}, \* last_err
            calls   : Nat,           \* history: provider calls begun
            late    : Nat]           \* history: those begun after the stop

(* A run goes on once its update_chunk is written. *)
At(r, pc)   == run[r].pc = pc /\ write[r].stage = "none"
Moves(r, x) == run' = [run EXCEPT ![r] = x]

Report(kind, s, e, inc) ==
    IF kind = "item" THEN NoWrite
    ELSE [NoWrite EXCEPT !.stage = "read", !.status = s, !.err = e, !.inc = inc]
Reports(r, s, e, inc) == write' = [write EXCEPT ![r] = Report(run[r].kind, s, e, inc)]

ReadChunks(r) ==
    /\ write[r].stage = "read"
    /\ write' = [write EXCEPT ![r] =
          IF run[r].ci \in ChunkIds /\ stored[run[r].ci] # NoChunk
            THEN [@ EXCEPT !.stage = "write", !.snap = stored]
            ELSE NoWrite]
    /\ UNCHANGED <<items, stored, main, cancel, run, faults>>

WriteChunks(r) ==
    /\ write[r].stage = "write"
    /\ stored' = [write[r].snap EXCEPT ![run[r].ci] = Updated(@, write[r])]
    /\ write' = [write EXCEPT ![r] = NoWrite]
    /\ UNCHANGED <<items, main, cancel, run, faults>>

-----------------------------------------------------------------------------
(* update_item.                                                            *)

Answer(i, s, e, ci) ==
    /\ status' = [status EXCEPT ![i] = s]
    /\ code' = [code EXCEPT ![i] = e]
    /\ tag' = [tag EXCEPT ![i] = IF ci = Untagged THEN @ ELSE ci]

(* _persist_one_item, for an image that the provider returned a receipt for or
   not.  The image may be that of a receipt already; the insert may fail.      *)
Persist(i, ok) ==
    \/ /\ ok
       /\ Answer(i, IF i \in receipts THEN "duplicate" ELSE "needs_review", "none", Untagged)
       /\ receipts' = receipts \cup {i}
    \/ /\ Answer(i, "failed", "other", Untagged)
       /\ UNCHANGED receipts

-----------------------------------------------------------------------------
(* process_batch: init_chunks, then one coroutine per chunk.               *)

MainStart(t) ==
    /\ main[t] = "queued"
    /\ main' = [main EXCEPT ![t] = "running"]
    /\ stored' = [ci \in ChunkIds |-> NewChunk(Chunk(Group[t], ci))]
    /\ tag' = [i \in Items |-> IF i \in Group[t] THEN Rank(i, Group[t]) \div ChunkSize ELSE tag[i]]
    /\ run' = [r \in Runs |->
          IF r[1] = t /\ Chunk(Group[t], r[2]) # {}
            THEN [NoRun EXCEPT !.kind = "main", !.pc = "wait", !.ci = r[2],
                               !.entries = Chunk(Group[t], r[2])]
            ELSE run[r]]
    /\ UNCHANGED <<status, code, receipts, cancel, write, faults>>

Outside(r) == run[r].pc \in {"none", "wait", "over", "died"} /\ write[r].stage = "none"
Inside(t)  == {ci \in ChunkIds : ~Outside(<<t, ci>>)}

(* The semaphore is fair: chunks enter in the order of their indexes. *)
MayEnter(r) ==
    r[1] \in Mains =>
        /\ Cardinality(Inside(r[1])) < Concurrency
        /\ \A ci \in ChunkIds : ci < r[2] => run[<<r[1], ci>>].pc # "wait"

Stopped(r) == r[1] \in Mains /\ cancel[r[1]]

Enter(r) ==
    /\ At(r, "wait") /\ MayEnter(r)
    /\ IF Stopped(r)
         THEN /\ Moves(r, [run[r] EXCEPT !.pc = "skip", !.left = run[r].entries])
              /\ Reports(r, "failed", "account", 0)
         ELSE /\ Moves(r, [run[r] EXCEPT !.pc = "mark", !.left = run[r].entries])
              /\ Reports(r, "extracting", "none", 1)
    /\ UNCHANGED <<items, stored, main, cancel, faults>>

Skip(r) ==
    /\ At(r, "skip")
    /\ IF run[r].left = {}
         THEN Moves(r, [run[r] EXCEPT !.pc = "over"]) /\ UNCHANGED items
         ELSE \E i \in Items :
                /\ First(i, run[r].left)
                /\ Answer(i, "failed", "account", run[r].ci)
                /\ Moves(r, [run[r] EXCEPT !.left = @ \ {i}])
                /\ UNCHANGED receipts
    /\ UNCHANGED <<stored, main, cancel, write, faults>>

(* One provider call, counted. *)
Called(r, x) == [x EXCEPT !.calls = @ + 1, !.late = IF Stopped(r) THEN @ + 1 ELSE @]

MarkProcessing(r) ==
    /\ At(r, "mark")
    /\ IF run[r].left = {}
         THEN Moves(r, Called(r, [run[r] EXCEPT !.pc = "call"])) /\ UNCHANGED items
         ELSE \E i \in Items :
                /\ First(i, run[r].left)
                /\ Answer(i, "processing", "none", run[r].ci)
                /\ Moves(r, [run[r] EXCEPT !.left = @ \ {i}])
                /\ UNCHANGED receipts
    /\ UNCHANGED <<stored, main, cancel, write, faults>>

-----------------------------------------------------------------------------
(* The provider answers a call for a whole chunk.                          *)

OnlyGot(E, got) == got
ToSave(E, got)  == E

Extracted(r) ==
    /\ At(r, "call") /\ "receipts" \in Answers
    /\ \E got \in SUBSET run[r].entries :
         Moves(r, [run[r] EXCEPT !.pc = "save", !.err = "none", !.got = got,
                                 !.left = ToSave(run[r].entries, got)])
    /\ Reports(r, "saving", "none", 0)
    /\ UNCHANGED <<items, stored, main, cancel, faults>>

(* A failure of the whole chunk leads to the fan-out, or marks every item. *)
Failed(x, e) ==
    [x EXCEPT !.err = e, !.left = x.entries, !.good = FALSE,
              !.pc = IF should_fan_out_to_per_image(e) /\ Cardinality(x.entries) > 1
                       THEN "fan" ELSE "fail"]

ReportsFailure(r, e) ==
    IF Failed(run[r], e).pc = "fan" THEN Reports(r, "extracting", "none", 0) ELSE UNCHANGED write

MayRetry(r, e) == e = "transient" /\ run[r].attempt + 1 < MAX_CHUNK_BACKOFF_ATTEMPTS

CallFails(r) ==
    /\ At(r, "call")
    /\ \E e \in Errors \cap Answers :
         /\ ~MayRetry(r, e)
         /\ Moves(r, Failed(run[r], e))
         /\ ReportsFailure(r, e)
         /\ cancel' = IF should_stop_batch(e) /\ r[1] \in Mains
                        THEN [cancel EXCEPT ![r[1]] = TRUE] ELSE cancel
    /\ UNCHANGED <<items, stored, main, faults>>

Backoff(r) ==
    /\ At(r, "call")
    /\ \E e \in Errors \cap Answers :
         /\ MayRetry(r, e)
         /\ Moves(r, [run[r] EXCEPT !.pc = "backoff", !.err = e, !.attempt = @ + 1])
         /\ Reports(r, "extracting", e, 0)
    /\ UNCHANGED <<items, stored, main, cancel, faults>>

(* The sleep is cut short when a sibling sets cancel_event, and returns at once
   when it is set already.                                                      *)
SleepsThrough(r) == TRUE
NeverWakes(r)    == FALSE
MayWake(r)       == ~Stopped(r)

CallAgain(r) ==
    /\ At(r, "backoff") /\ MayWake(r)
    /\ Moves(r, Called(r, [run[r] EXCEPT !.pc = "call"]))
    /\ UNCHANGED <<items, stored, main, cancel, write, faults>>

Woken(r) ==
    /\ At(r, "backoff") /\ Stopped(r)
    /\ Moves(r, Failed(run[r], "account"))
    /\ UNCHANGED <<items, stored, main, cancel, write, faults>>

-----------------------------------------------------------------------------

Save(r) ==
    /\ At(r, "save")
    /\ \E i \in Items :
         /\ First(i, run[r].left)
         /\ Persist(i, i \in run[r].got)
         /\ Moves(r, [run[r] EXCEPT !.left = @ \ {i}])
    /\ UNCHANGED <<stored, main, cancel, write, faults>>

SaveEnds(r) ==
    /\ At(r, "save") /\ run[r].left = {}
    /\ Moves(r, [run[r] EXCEPT !.pc = "over"])
    /\ Reports(r, "done", "none", 0)
    /\ UNCHANGED <<items, stored, main, cancel, faults>>

FanCall(r) ==
    /\ At(r, "fan") /\ run[r].left # {}
    /\ Moves(r, Called(r, [run[r] EXCEPT !.pc = "fancall"]))
    /\ UNCHANGED <<items, stored, main, cancel, write, faults>>

OnlyTheLast(good, ok) == ok
AnySuccess(good, ok)  == good \/ ok

FanSave(r) ==
    /\ At(r, "fancall") /\ "receipts" \in Answers
    /\ \E i \in Items, ok \in BOOLEAN :
         /\ First(i, run[r].left)
         /\ Persist(i, ok)
         /\ Moves(r, [run[r] EXCEPT !.pc = "fan", !.left = @ \ {i}, !.good = AnySuccess(@, ok)])
    /\ UNCHANGED <<stored, main, cancel, write, faults>>

FanFails(r) ==
    /\ At(r, "fancall")
    /\ \E i \in Items, e \in Errors \cap Answers :
         /\ First(i, run[r].left)
         /\ Answer(i, "failed", e, run[r].ci)
         /\ Moves(r, [run[r] EXCEPT !.pc = "fan", !.left = @ \ {i}])
    /\ UNCHANGED <<receipts, stored, main, cancel, write, faults>>

FanEnds(r) ==
    /\ At(r, "fan") /\ run[r].left = {}
    /\ Moves(r, [run[r] EXCEPT !.pc = "over"])
    /\ IF run[r].good THEN Reports(r, "done", "none", 0)
                      ELSE Reports(r, "failed", run[r].err, 0)
    /\ UNCHANGED <<items, stored, main, cancel, faults>>

MarkFailed(r) ==
    /\ At(r, "fail")
    /\ IF run[r].left = {}
         THEN /\ Moves(r, [run[r] EXCEPT !.pc = "over"])
              /\ Reports(r, "failed", run[r].err, 0)
              /\ UNCHANGED items
         ELSE /\ \E i \in Items :
                   /\ First(i, run[r].left)
                   /\ Answer(i, "failed", run[r].err, run[r].ci)
                   /\ Moves(r, [run[r] EXCEPT !.left = @ \ {i}])
              /\ UNCHANGED <<receipts, write>>
    /\ UNCHANGED <<stored, main, cancel, faults>>

(* gather(return_exceptions=True): an exception in one chunk, or the loss of a
   request before it has queued its message, ends that run only; the semaphore
   is released.                                                                 *)
Die(r) ==
    /\ faults < MaxFaults /\ faults' = faults + 1
    /\ ~Outside(r)
    /\ Moves(r, [run[r] EXCEPT !.pc = "died"])
    /\ write' = [write EXCEPT ![r] = NoWrite]
    /\ UNCHANGED <<items, stored, main, cancel>>

MainEnds(t) ==
    /\ main[t] = "running"
    /\ \A ci \in ChunkIds : Outside(<<t, ci>>) /\ run[<<t, ci>>].pc # "wait"
    /\ main' = [main EXCEPT ![t] = "over"]
    /\ UNCHANGED <<items, stored, cancel, run, write, faults>>

-----------------------------------------------------------------------------
(* POST .../chunks/{ci}/retry and POST .../items/{i}/retry.                *)

Fresh(t) ==
    /\ run[<<t, 0>>] = NoRun
    /\ Cardinality({u \in Retries : run[<<u, 0>>].pc = "reset"}) < MaxPosts

OneTooMany(c) == c.attempts > 3
Exhausted(c)  == c.attempts >= 3
Eligible(c)   == {i \in c.items : status[i] \notin Saved}

RetryChunk(t) ==
    /\ "chunk" \in Kinds /\ Fresh(t)
    /\ \E ci \in ChunkIds :
         LET c == stored[ci] IN
         /\ c.status = "failed" /\ ~Exhausted(c) /\ c.err # "account"
         /\ Eligible(c) # {}
         /\ Moves(<<t, 0>>, [NoRun EXCEPT !.kind = "chunk", !.pc = "reset", !.ci = ci,
                                          !.entries = Eligible(c), !.left = Eligible(c)])
    /\ write' = [write EXCEPT ![<<t, 0>>] = Report("chunk", "pending", "none", 0)]
    /\ UNCHANGED <<items, stored, main, cancel, faults>>

(* `entry.get("chunkIndex", -1) or -1`: a chunk index of 0 is falsy. *)
RetryTag(n) == IF n = Untagged \/ n = 0 THEN -1 ELSE n

Unfinished(s) == s \notin Saved
Retriable(s)  == s = "failed"

RetryItem(t) ==
    /\ "item" \in Kinds /\ Fresh(t)
    /\ \E i \in Items :
         /\ Retriable(status[i]) /\ code[i] # "account"
         /\ Moves(<<t, 0>>, [NoRun EXCEPT !.kind = "item", !.pc = "reset", !.ci = RetryTag(tag[i]),
                                          !.entries = {i}, !.left = {i}])
    /\ UNCHANGED <<items, stored, main, cancel, write, faults>>

Reset(t) ==
    LET r == <<t, 0>> IN
    /\ At(r, "reset")
    /\ IF run[r].left = {}
         THEN Moves(r, [run[r] EXCEPT !.pc = "wait"]) /\ UNCHANGED items
         ELSE \E i \in Items :
                /\ First(i, run[r].left)
                /\ Answer(i, "pending", "none", Untagged)
                /\ Moves(r, [run[r] EXCEPT !.left = @ \ {i}])
                /\ UNCHANGED receipts
    /\ UNCHANGED <<stored, main, cancel, write, faults>>

-----------------------------------------------------------------------------

Init ==
    /\ status = [i \in Items |-> "pending"]
    /\ code = [i \in Items |-> "none"]
    /\ tag = [i \in Items |-> Untagged]
    /\ receipts = Known
    /\ stored = [ci \in ChunkIds |-> NoChunk]
    /\ main = [t \in Mains |-> "queued"]
    /\ cancel = [t \in Mains |-> FALSE]
    /\ run = [r \in Runs |-> NoRun]
    /\ write = [r \in Runs |-> NoWrite]
    /\ faults = 0

Extract(r) == Enter(r) \/ Skip(r) \/ MarkProcessing(r) \/ Extracted(r) \/ CallFails(r)
                \/ Backoff(r) \/ CallAgain(r) \/ Woken(r)
Settle(r)  == Save(r) \/ SaveEnds(r) \/ FanCall(r) \/ FanSave(r) \/ FanFails(r)
                \/ FanEnds(r) \/ MarkFailed(r)
Step(r)    == ReadChunks(r) \/ WriteChunks(r) \/ Extract(r) \/ Settle(r)

Next ==
    \/ \E t \in Mains : MainStart(t) \/ MainEnds(t)
    \/ \E t \in Retries : RetryChunk(t) \/ RetryItem(t) \/ Reset(t)
    \/ \E r \in Runs : Step(r) \/ Die(r)

Spec == Init /\ [][Next]_vars

(***************************************************************************)
(* Fairness.  Celery delivers a message, the event loop resumes every      *)
(* coroutine, the provider answers or times out after 120 s, and a request *)
(* that was accepted is carried out.  Nobody has to retry anything.        *)
(***************************************************************************)
Fairness ==
    /\ \A t \in Mains : WF_vars(MainStart(t)) /\ WF_vars(MainEnds(t))
    /\ \A t \in Retries : WF_vars(Reset(t))
    /\ \A r \in Runs : WF_vars(Step(r))

FairSpec == Spec /\ Fairness

-----------------------------------------------------------------------------

(* The types of the variables, for a reader. *)
TypeOK ==
    /\ status \in [Items -> Saved \cup InFlight \cup {"failed"}]
    /\ code \in [Items -> Errors \cup {"none"}]
    /\ tag \in [Items -> ChunkIds \cup {-1, Untagged}]
    /\ receipts \subseteq Items
    /\ stored \in [ChunkIds -> ChunkType]
    /\ main \in [Mains -> {"queued", "running", "over"}]
    /\ cancel \in [Mains -> BOOLEAN]
    /\ run \in [Runs -> RunType]
    /\ write \in [Runs -> WriteType]
    /\ faults \in Nat

(* What a run has still to answer. *)
Owed(r) ==
    CASE run[r].pc \in {"reset", "wait", "mark", "call", "backoff"} -> run[r].entries
      [] run[r].pc \in {"skip", "save", "fan", "fancall", "fail"} -> run[r].left
      [] run[r].pc = "died" -> run[r].entries
      [] OTHER -> {}

(* No image is forgotten: an image in flight is one that a queued message or a
   live run has still to answer, or its run has died.  (The loop over a chunk
   whose result list is shorter than the chunk, the fan-out, the skip.)        *)
NoneForgotten ==
    \A i \in Items : status[i] \in InFlight =>
        \/ \E t \in Mains : main[t] = "queued" /\ i \in Group[t]
        \/ \E r \in Runs : i \in Owed(r)

(* After an account error a message begins no call except the one that each of
   the other chunks already in the semaphore was about to make; chunks that fan
   out are left out here.                                                       *)
LateCalls ==
    \A t \in Mains :
        LET late == {ci \in ChunkIds : run[<<t, ci>>].late > 0} IN
        (\A ci \in ChunkIds : run[<<t, ci>>].err # "json") =>
            /\ \A ci \in late : run[<<t, ci>>].late = 1
            /\ Cardinality(late) < Concurrency

(* Any call that is answered with an account error stops the message: "any chunk
   that hits AI_QUOTA_EXCEEDED or AI_AUTH_FAILED sets this, and every other chunk
   short-circuits".                                                               *)
AccountStops ==
    \A t \in Mains : main[t] = "running" =>
        \A i \in Group[t] : code[i] = "account" => cancel[t]

(* The runs that report to a chunk of the message that started last. *)
RunsOf(ci) == {r \in Runs : run[r].kind \in {"main", "chunk"} /\ run[r].ci = ci}
Calling(ci) == {r \in RunsOf(ci) : run[r].calls > 0}

(* When the runs of a chunk are over, its record tells what happened: it is final,
   every attempt was counted, and it says failed only if no image was saved.      *)
ChunkReported ==
    \A ci \in ChunkIds :
        RunsOf(ci) # {} /\ (\A r \in RunsOf(ci) : At(r, "over")) =>
            LET c == stored[ci] IN
            /\ c.status \in {"done", "failed"}
            /\ c.attempts = Cardinality(Calling(ci))
            /\ c.status = "failed" => \A i \in c.items : status[i] = "failed"

(* The runs of a chunk that reach the provider are at most three: "Hard cap on
   user-triggered retries to prevent runaway API spend".                        *)
RetryCap == \A ci \in ChunkIds : Cardinality(Calling(ci)) <= 3

(* An image with a receipt is never sent to the provider again. *)
SavedIsFinal == [][\A i \in Items : status[i] \in Saved => status'[i] \in Saved]_vars

(* Retrying an image leaves it in its chunk: "pass the item's existing chunkIndex
   if it had one".                                                                *)
TagKept == [][\A i \in Items : tag[i] >= 0 => tag'[i] = tag[i]]_vars

(* The chunk an image is tagged with lists that image. *)
GroupedByChunk == \A i \in Items : tag[i] >= 0 => i \in stored[tag[i]].items

(* What the engine promises image by image: sent, saved for good or failed, and
   answered in the end (module ItemAnswers).                                     *)
AnswerOf(s) == IF s \in InFlight THEN "due" ELSE IF s \in Saved THEN "saved" ELSE "failed"
Images   == INSTANCE ItemAnswers WITH answer <- [i \in Items |-> AnswerOf(status[i])]
Answered == Images!Spec

(* Every message ends, whatever the provider answers and whichever chunk dies. *)
EngineEnds == \A t \in Mains : (main[t] = "running") ~> (main[t] = "over")

=============================================================================
