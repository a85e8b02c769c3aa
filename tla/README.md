# Verification of the receipt scanning application

The application lets a user upload photographs and PDF files of receipts, holds them, sends them
in chunks to an AI provider, saves what comes back as receipts and takes the receipts through a
review. This directory models the backend (`backend/app`), where the state is shared by HTTP
handlers, Celery tasks and background loops: TLA+ modules, TLC runs on small instances, and
TLAPS proofs. Source paths below are relative to `backend/app` in the repository.

## 1. The system

### Components, their state and operations

| Component | State | Operations | Module |
|---|---|---|---|
| Scan sessions (`services/batch_service.py`, `api/batches.py`) | `scan_sessions`, `scan_session_items`, the scratch directory `_scan_<id>` | create, upload and hold, dispatch, poll, retry an item, delete; the reaper | `ScanSession` |
| Scan worker tasks (`tasks/worker.py`, `core/celery_app.py`) | Celery messages with late acknowledgement | `process_batch`, `retry_item`, `retry_chunk` | the life of a message in `ScanSession`, the inside in `ChunkEngine` |
| Chunk engine (`tasks/worker.py`, `services/error_codes.py`) | the chunk list of a session, semaphore, `cancel_event` | split, call, back off, fan out, persist, retry a chunk | `ChunkEngine`, `ItemAnswers` |
| Scan error log (`services/scan_error_service.py`, `tasks/worker.py`) | `scan_errors` | writing by upload, runs and reaper; mark read, delete, clear | `FailedImages`, `ScanErrors` |
| Receipts and images (`services/database_service.py`, `api/receipts.py`, `api/images.py`, `main.py`) | `receipts`, `receipt_images`, `staged_receipt_images`, the image volume | create, edit, scan, delete, stage, discard, serve, self-heal | `ReceiptImages` |
| Review workflow (`services/receipt_workflow_service.py`, `api/receipts.py`) | `receipts.status`, audit rows, messages | submit, recall, approve, reject, edit, delete | `ReceiptWorkflow` |
| Messages (`services/messages_service.py`, `api/messages.py`) | conversations and messages | send, template, notice, read, clear, prune, remove | `Inbox` |
| Accounts, their deletion and the sweeps (`api/auth.py`, `services/data_cleanup_service.py`, `services/ops_service.py`) | `users`, the rows and files of an account, `ops` | create, change, delete; purge, sweep, watchdog | `UserData` |
| Backups (`services/backup_service.py`, `api/backup_api.py`) | `backups`, archives on disk, the tables and files imported | export, prune, delete; import | `Archives`, `BackupData` |
| AI settings and calls (`api/settings.py`, `services/admin_keys_service.py`, `services/gemini.py`) | two settings tables; the SDK's key, the locks per key | put settings, resolve provider, model and key, call | `SdkCalls`, `ProviderKeys` |
| Answers of the providers (`services/gemini.py`) | none | clean, cut, decode, unwrap, count, order | `BatchReply` |
| Reference data (`api/locations.py`, `entry_types.py`, `industries.py`, `categories.py`) | four tables | create, change, remove; file a receipt under them | `Taxonomy` |
| Legacy task records (`services/task_service.py`, `api/tasks.py`) | `tasks`, the directory `_batch_<id>`, a message | create, progress, pause, resume, delete; the worker | `TaskRecords` |
| Review batches (`services/review_batch_service.py`) | `review_batches`, `review_batch_items` | create, change and remove an item, delete | `ReviewBatches` |
| Lists, search, exports (`services/database_service.py`, `api/exports.py`) | none of their own | pages of a list that changes | `Listing` |
| Data cleaning (`services/data_cleaning_service.py`, `api/cleaning.py`) | none of its own: receipts, and a row of the AI settings that a dismissal overwrites | suggest, apply, dismiss | `Cleaning` |
| Dashboard, summary, reports (`services/dashboard_service.py`, `reports_service.py`) | none | figures over the receipts | `Figures` |
| Tokens and hosts, pools, health, rendering of files, model registry, Firebase, frontend | | | not modelled, see section 7 |

### How they interact

The browser calls the API; a handler reads rows, decides, and writes in further statements. The
two Celery queues carry messages that name a session and its entries. A worker thread runs one
message in an event loop of its own and writes the same rows. Every minute the API process runs
the reaper over stale sessions. Nothing holds a lock across two statements except single
transactions, so any two of these may interleave between statements. The files are shared by the
API and the worker through a volume and are not covered by any transaction.

### What is hard

* a handler acts on what it read before other handlers wrote (dispatch, retry, sweep, retry of a
  chunk);
* a message may be delivered twice and a worker may be lost in the middle;
* files and rows change in separate steps;
* one JSON column is read, changed and written back by several chunks at a time;
* the stuck detector guesses from time alone that work has died;
* nothing but a poll repairs some sessions.

`PROJECT.json` lists each hazard at its line with the properties that watch it.

## 2. Plan

The order was: what a user cannot recover from first. Scan sessions and the engine inside a task,
with their proofs; the review of a receipt, with its proofs; images against files; messages;
accounts and the deletion of their data; then the smaller services, which share one MC module
(`MCServices`) because each is small and none calls another. All of it is built. Every invariant
and every safety property of the passing runs is also a theorem (section 5); liveness is what only
TLC has checked. What would come next: a composition of `ScanSession` with `ReceiptImages`, whose
save of a scanned item stands for the step that `ScanSession` takes as one.

## 3. Modules

A configuration in parentheses is not a run of the project: it shows what the code does not keep
(section 6).

### ScanSession

One session. `sess`, `status`, `code` and `idle` are the rows, `files` and `dir` the scratch
directory, `receipts` the images that a saved receipt has, `proc` the handlers in progress,
`task` the Celery messages. A handler is a process with a program counter that stops at each
`await` on the database or the file system; what it read is kept in its record, and is what it
acts on even when the rows have changed since. `get_batch` reads and then repairs the session
status in a second statement, so each load is `Load` followed, when the row has drifted, by
`Reconcile`. Operations: `process` (`OptimizeStart` to `finalize_prepared`), `dispatch`
(`mark_queued`, `MarkProcessing`, `Enqueue`), `retry`, `poll` and the reaper (`Sweep`),
`delete` (`DropSession`, `RemoveDir`); the worker (`TaskStart` to `TaskSettle`), with
`WorkerCrash`, `Redeliver`, `ChunkDies`, `TaskRaises`.

Abstracted: the entries of a task run as if each were a chunk (chunks are `ChunkEngine`); a unit
of several merged images is resolved in one step; times are the single Boolean `idle`.

| Run | Shows | Bounds |
|---|---|---|
| `SessionDispatch` | two handlers over two images: no image is in two messages, a session that holds an image is never `done` | 2 images, 2 requests, 2 messages, 1 upload |
| `SessionCore` | a held image keeps its file, an image shown as saved has its receipt, under every operation at once | 1 image, 2 requests, 1 message, 1 upload, 1 fault |
| `SessionSettlesPolled` | an image in flight ends in a final status if some client polls | 1 image, 2 messages, second deliveries, 1 fault |
| (`SessionHeldSurvives.cfg`) | violated: the reaper acts on a snapshot and fails an image that an upload has just prepared | |
| (`SessionSettlesUnpolled.cfg`) | violated: without a poll, some images stay in flight for ever | |

Two images are what a merged group and overlapping selections need (`SessionDispatch` has uploads
and dispatches only); two requests and the reaper give every pair of handlers (`SessionCore`); one
message more than needed gives the second delivery.

The module states two more properties that the code does not keep and that are not among the
runs: `NeverSentTwice` (an image failed by the stuck detector and retried while its task is only
slow is extracted twice) and `UploadSettles` (an upload that dies leaves the session `uploading`).
`DispatchedOnce` needs the bound of one upload: with two, the second sets images back to
`prepared` that were dispatched in between.

### ChunkEngine and ItemAnswers

The inside of a task. A run is one execution of `_process_chunk_with_fallback`; `stored` is the
JSON chunk list, and `write` the `update_chunk` a run is in, whose read and write are two steps.
`cancel` is the `cancel_event` of a message. A retry is a run of its own that starts with the
request that asked for it. The provider's answers are the set `Answers`.
`ItemAnswers` is the abstract promise per image: due, then saved for good or failed, and a
failed image due again when its user retries it. `Answered` states that the engine implements it,
liveness included.

| Run | Shows | Bounds |
|---|---|---|
| `EngineParallel` | no image is forgotten, an account error stops the siblings before their next call | chunks of 2 and 1 images, both at the provider, 1 exception |
| `EngineRetries` | at most three runs of a chunk reach the provider, and its record says what became of it | 1 chunk of 2 images, 3 retries one after the other, 1 exception |
| `EngineItemRetry` | refinement of `ItemAnswers` with item retries, liveness included | 1 chunk of 2 images, 2 retries |
| (`EngineLostChunk.cfg`) | violated: two chunks that rewrite the list at once lose an update | 2 chunks |

A chunk of two and a chunk of one are the smallest in which a fan-out and its absence, a short
result list and a sibling exist together.

`EngineEnds` (every message ends) was checked to hold on two chunks with one exception. The module
also states what the code does not keep: `AccountStops` (the fan-out goes on after an account
error), `SavedIsFinal` (an item retry overlaps a chunk retry), `TagKept` (the chunk index 0 is
falsy and is lost by an item retry), `GroupedByChunk` (a second dispatch replaces the chunk list),
and `RetryCap` when two retry requests may be posted at once (`MaxPosts = 2`).

### ReceiptWorkflow

One receipt. `status` and `located` are its row, `images` its files, `trail` its rows of
`audit_logs`, `bubbles` the rejection messages in its threads. A request reads the receipt, keeps
what it read (`seen`) and writes later: the transitions with the guarded UPDATE of `_transition`
(`ReadStatus`, `GuardedUpdate`, `LogTransition`, then `Prune` or `FindBubble` and `SendBubble`),
the edit with an unguarded one after its audit entry (`ReadForEdit`, `LogEdit`, `WriteEdit`), the
deletion with its files first (`ReadForDelete` to `DropThreads`). `round` and `won` are history:
how often the receipt became pending, and which of these rounds a request ended.

| Run | Shows | Bounds |
|---|---|---|
| `WorkflowReview` | a submission is decided once, the trail accounts for the status, only administrators make a receipt processed, a refused deletion takes no file | 3 requests of any kind by the owner and an administrator, 1 failure |
| (`WorkflowReadOnly.cfg`) | violated: an edit that was accepted before the approval is written after it | 2 requests |
| (`WorkflowRejectedList.cfg`) | violated: the first edit of a rejected receipt takes it off the rejected list | 2 requests |

Three requests are a decision, a resubmission and a second decision; the trace of every property
below fits in them. Users keep their rights during a behaviour. Also stated and not kept:
`ProcessedIsLocated` (the location may be cleared between the check and the UPDATE), `OneBubble`
and `BubbleIsCurrent` (looking for a message and sending one are two steps).

### ReceiptImages

The receipts of one user and the three places an image lives in: `files` (the volume), the `bytes`
of its row in `kids`, and the cover columns of `rcpt`. An image is its content. Requests: create
and update with their duplicate checks, their staged images and their rollback, the saving of a
scanned item by the worker, deletion, staging, discarding, a view that writes a missing file back,
the sweep of staged images; `boot` is the self-heal of `main.py`, which runs after a restart, with
the volume or without it, before anything is served. Every transaction and every write or removal of a file is
a step.

| Run | Shows | Bounds |
|---|---|---|
| `ImagesKept` | an attached image is served and its content is on disk or in its row; an image has one receipt, although three paths check first and insert later; a restart repairs the volume | 2 requests of any kind, 2 contents, 2 receipts, 2 image ids, 2 faults |
| `ImagesRight` | violated: after a rolled-back edit and the removal of the first image, the self-heal writes the removed image into the file of the other | 1 receipt |

Two requests and two contents give every pair that can share an image; the cap of images of a
receipt is 2, so that it is met. Two faults are a rollback and a restart.

### Inbox

Conversations and messages between administrators and users. A request is one handler between two
of its SQL statements, which commit one by one: the search for a thread and its insertion, the
insertion of the message, the removal of empty threads, the deletion of a receipt's threads.
`acked` is history: what a sender was told has been sent.

A list has `ListLimit` conversations, those with the latest messages (`LIMIT 100`,
`services/messages_service.py:533`); `order` is their order, which `TouchThread` changes in a
statement after the insertion. The badge has no such limit: `Layout.tsx:86` of the frontend asks
for the count of all unread messages, `MessageCenter.tsx:88` sets the badge to the sum of the list.

`InboxThreads` shows that a hand-written message that was acknowledged is not lost, what the badge
and the list of a reader have to do with one another, and that a receipt has one thread of a
pair, with two administrators, one user, one receipt, two handlers and two messages. Three people
are what the peer rule needs: administrators write to anyone, users only to administrators. The
limit is 1, so that an administrator with two conversations goes beyond it. `BadgeIsReachable`
says: a reader with at most `ListLimit` conversations has a list that adds up to the badge; with
more, the list adds up to no more than the badge, and every unread message is in a conversation of
the reader's. That the two agree for everybody (`BadgeIsListed`) is not kept (`InboxNotKept.cfg`).

### UserData

Accounts, the deletion of one of them (`Owner`), and the removal of what it owned: one thing of
every kind (receipt image, staged image, scratch directory, backup), each with its row and its
file, because they differ in who finds them. `req` is a handler of `api/auth.py`, `task` the purge it
leaves behind, `loop` the periodic cleanup with its age guard and its guard against mass deletion,
`writing` a save whose file is written and whose row is not. A save may attach the staged image to a
receipt (`AskPromote`, `Promote`): the row moves from `staged_receipt_images` to `receipt_images`
in one transaction, and the file stays.

Every SELECT is a step. A sweep of image files reads its references from the covers (loop at
`refs`), the images of receipts (`attached`) and the staged images (`staging`) one after the other
(`services/data_cleanup_service.py:239-276`), so a promotion may come between any two of them, and
a purge reads the staged images after the rest. Two histories say what has happened on the way:
`fate` has "crossed" when an image was attached between the two reads that matter, "listed" when
the sweep of staged images had listed it as a day old; `belated` has what a save has put into a
table since the account was gone.

`UserDeletion` shows, with one deletion during each kind of save, two deletions at once, or any
change of an account, and one failed statement or restart anywhere:

* `LiveKept`: every row of an account there is has its file, but in three cases, which the
  property names: the directory of a session, when it has ended or a statement has failed; a staged
  image the sweep of staged images has listed; and a staged image that was attached between two
  reads of a sweep that deletes. `UserNotKept.cfg` shows the first, `UserSwept.cfg` the last (and
  the second, with `OrphanDelete = FALSE`).
* `CompletedIsGone`: an op that says completed is about an account that is gone, and when its
  result carries no error, every row left is one that a late save has put there since. When the
  purge raised, the op still ends as completed, with an error in its result
  (`services/data_cleanup_service.py:396`), and rows may be left: `CompletedIsPurged` is not kept.
* the data of a deleted account is gone in the end, and every op ends.

`DataGoes` needs `OrphanDelete = TRUE` (`ENABLE_ORPHAN_IMAGE_FILE_DELETE`); the
default is false, and then files of an image saved after the purge stay.

### The smaller services and MCServices

None of these calls another. `Services` is one instance of each, with constants and variables of
its own (`Archive`, `Backup`, `Reply`, `Books`, `Tasks`, `Review`, `Lists`, `Clean`, `Cards`, and
the calls by key through `SdkCalls`), and names what each promises. `ServicesProofs` extends it and
proves each promise for any values of the constants; `MCServices` extends it too, with the error
log (`FailedImages`, proved in `ScanErrorsProofs`), and its configuration gives the constants their
values, so that the run and the proofs are about the same formulas. There `focus` picks the service
a behaviour is about, the variables of the others stay at one initial state, and the state space
is the sum of theirs. The run is `Services`: 1.79 million states, of which each service has its own.

| Module | State and actions | Property | Bounds |
|---|---|---|---|
| `Archives` | rows, files and sizes of the archives of an account; export (`Export` to the two prunings), `AskDelete`, each step of a pruning, a request that dies | `RowsHaveFiles`: rows and files agree when the requests are over. `LimitsHold`: count and bytes are within their limits | 2 requests, at most 5 exports and 1 deletion, sizes 1 and 2, limits 2 and 3, 1 death |
| `BackupData` | the tables read one after the other by an export, the files packed, the import with its transaction and its files, the owner at work | `ArchiveWhole`: no child without its parent in the archive. `CompleteImport`: a completed import whose transaction held has given back what was selected. `RowsReadable`: no attached image lacks its file without a stated reason | 2 accounts, 2 receipts, 4 images, 2 imports or 2 changes and a death |
| `ProviderKeys` | the two settings tables, read and written apart; the steps of a call through the SDK | `OneCallPerKey`: calls with one key queue | 2 requests, 2 keys, 2 providers, 3 calls, 1 put of each kind, 1 failed read |
| `BatchReply` | one answer, decoded and put in order; an object with "receipts" for a single image is read as a blank receipt | `ResultsInPlace`: a result is about the image it is saved to, or the answer is refused | up to 3 images, 7 texts with nesting, strings and escapes, 5 trailers |
| `Taxonomy` | the four tables, an extraction of each receipt, the removal of an industry statement by statement | `IndustryKept`: a receipt loses its industry only when the industry goes | 2 industries, 3 categories, 2 receipts, 2 edits |
| `TaskRecords` | the task row, its directory, its message, the workers' runs | `VerdictTrue`: what a run says at its end is true of the receipts it has made itself. "n of total" gives their number, some and not all; "no receipts" means none; "receipts saved", which has no number, means all, or none when no chunk has told a failure (all lost to exceptions, or nothing to save). A row that gives a number has so many receipts behind it | 3 images in 2 chunks, 2 workers, 1 second delivery, 1 crash or 1 call of the user |
| `ReviewBatches` | the batch, its items, the row locks | `AnswerIsOwn`: an answer to a change is about that change | 2 reviewers, 2 receipts, 3 calls |
| `Listing` | the receipts, the query and what its pages had | `PagesMissFew`: an untouched receipt is missed, or repeated, at most once for each that left, or entered | 4 receipts, 4 kinds of rows, 6 queries, 2 changes |
| `Cleaning` | the receipts, what each client has on screen, what has been dismissed, whether the AI settings are still the account's own | `KeptStays`: the receipt to keep of a group of duplicates is not deleted by the client that keeps it | 4 receipts, 2 clients, 2 lists |
| `Figures` | the receipts of an account and one of another's, which only an administrator's report has; one answer | `FiguresAgree`: cards, summary and reports tell the same of the same receipts, or leave out what they say they leave out; the summary's money is the overview's, with what is no expense and with the undated expenses that a bound takes from the overview | 3 receipts of 8 kinds, one of a negative amount, and a fourth of the owner's or another's; 5 questions; 3 receipts read at most, 1 slice, so that the cuts are met |
| `FailedImages`, `ScanErrors` | the statuses of images and chunks, the processes that change them and tell of them, the log | `NothingSilent`: an image that failed has been told of since, unless its record was lost or its process died | 3 images in chunks of 2, 2 processes at a time, one retry, sweep, death, raise or loss |

## 4. Fairness

`FairSpec` of `ScanSession` and of `ChunkEngine` give weak fairness to the steps of handlers,
tasks and runs that have begun, to the reaper's loop and to the passing of time: the event loops
resume what they suspended, a provider call ends after 120 s at the latest
(`asyncio.wait_for`), and Celery delivers what is queued. No user action is fair;
`FairPollSpec` adds one client that keeps polling, as the open page of the frontend does. Faults
are never fair and are bounded. `UserData` gives weak fairness to
the cleanup loop, to the purges, handlers and saves that have begun and to the ageing of an op
that nobody touches, and strong fairness to the ageing of a file, whose step the loop may disable
for a while: time passes. Nothing is assumed fair in the other modules, which state safety only.

## 5. Proofs

Every theorem is about the specification for all values of the constants, under the named
assumptions of its module, which TLC evaluates on every run; what one needs beyond them is an
`ASSUME` of the theorem itself. Each inductive invariant was given to TLC on an instance of its
module before it was proved.

| Theorem | Property | Assumes of the constants, beyond their types |
|---|---|---|
| `ScanSessionProofs`: `TypeCorrect` | `TypeOK` | |
| `HeldIsDispatchedOnce` | `DispatchedOnce` | one upload, no second delivery while a task runs |
| `HeldKeepsItsFile` | `HeldHasFile` | one upload |
| `DoneHoldsNothing` | `HeldNotDone`, under `CalmSpec` | one upload |
| `ShownForReviewIsSaved` | `ReviewHasReceipt` | |
| `ChunkEngineProofs`: `NoImageForgotten` | `NoneForgotten` | finitely many images, all of them dispatched |
| `FewLateCalls` | `LateCalls` | the same |
| `ThreeRunsAtMost` | `RetryCap` | also one message whose images fit in one chunk, one retry request in progress at a time |
| `ChunkTold` | `ChunkReported` | the same, and no retries of single images |
| `ReceiptWorkflowProofs`: `TypeCorrect` | `TypeOK` | |
| `DecidedOnce` | `OnePerSubmission` | |
| `AdminsFinish` | `OnlyAdminsFinish` | |
| `ImagesKept` | `ImagesStay` | |
| `TrailAccounts` | `TrailBalances` | |
| `ReceiptImagesProofs`: `AttachedImagesRead` | `Readable` | ids are distinct from one another and from contents |
| `ImageHasOneReceipt` | `OneReceiptPerImage` | the same |
| `RestartBringsFilesBack` | `HealConverges` | the same |
| `InboxProofs`: `HandWrittenStays` | `HandWrittenKept` | administrators and users are distinct |
| `ThreadIsShared` | `OneThreadPerReceipt` | the same |
| `NoMessageOutOfReach` | `Reachable`, an invariant of the proof | the same |
| `BadgeAddsUp` | `BadgeIsReachable` | the same |
| `UserDataProofs`: `TypeCorrect` | `TypeOK` | |
| `LiveFilesKept` | `LiveKept` | |
| `CompletedMeansGone` | `CompletedIsGone` | |
| `ScanErrorsProofs`: `NoSilentFailure` | `NothingSilent` | |
| `ServicesProofs`: `KeysQueue` | `OneCallPerKey` | finitely many keys, settings name a provider there is |
| `AnswersAreOwn` | `AnswerIsOwn` | |
| `VerdictsTrue` | `VerdictTrue` | |
| `IndustriesKept` | `IndustryKept` | |
| `ArchivesAreWhole` | `ArchiveWhole` | the receipts there are at first have their images in order; a copy of a receipt has an id of its own |
| `RowsAreReadable` | `RowsReadable` | the same |
| `ImportsAreComplete` | `CompleteImport` | the same |
| `RowsAndFilesAgree` | `RowsHaveFiles` | no archive is empty |
| `BothLimitsHold` | `LimitsHold` | the same |
| `ReceiptsToKeepStay` | `KeptStays` | the order of the receipts has each of them once |
| `PagesMissNoMore` | `PagesMissFew` | finitely many receipts, pages that are not empty |
| `ResultsStandInPlace` | `ResultsInPlace` | a text is a JSON value that begins with a bracket and ends where its depth first returns to 0 |
| `FiguresTellTheSame` | `FiguresAgree` | finitely many receipts, amounts in whole cents, the three statuses; one month at least is asked about |

### Scan sessions

`DispatchedOnce` is not inductive: it says nothing of an image that a dispatch has read and not
yet flipped, nor of one that an upload may yet set back to `prepared`. `HandInv`, which the first
three results share, adds that a taken image is not `prepared` (`TakenNotHeld`), that what an
upload still has in hand is neither prepared nor taken (`InHandIsNew`), and that there is one
upload at a time (`OneUpload`). The assumption on uploads is necessary: TLC finds the
counterexample with two.

`HeldHasFile` needs two facts more: what an upload has staged has its file (`StagedHasFile`), and a
directory is removed only after its session (`RemovalAfterDrop`). So whoever unlinks a file has
taken the image out of its held status first, and the upload makes the file before the status.

`HeldNotDone` turned out to be false in general. Whoever writes `done` has derived it from the
items; when the poll or the reaper fails the items of an upload that is still going on, everything
is terminal, `done` is written, and the upload then goes on and prepares its last image.
`SessionDispatch` has no poll and no reaper, so it never met this. A sweep acts after
`STUCK_TIMEOUT_SECONDS` without a write and an upload writes at every image, so the upload has to
stall that long; `CalmSpec` states that no sweep meets an upload, and `DoneHoldsNothing` is proved
for it, with every other operation of the poll and the reaper. Its invariant `DoneInv` says that
`done`, once written or about to be written by somebody, is settled (`SaysDone`, `Settled`), which
rests on what an image in the hands of an upload can be (`WhileOptimizing`, `StagedIsNew`).

`ReviewInv` follows an image of a task from the insert of its receipt to the write of its status;
nothing is assumed.

### Chunk engine

One invariant, `Inv`, serves the first two results. `Begun`: a message that waits has no run and no write.
`Sound`: what a loop has still to treat are images of its run, and only a run that fans out makes
more than one call after a stop. `Room`: the chunks inside the semaphore are at most
`Concurrency`, and after the stop those that may still begin a call are fewer, because the chunk
that was refused is inside as well; this is a count over sets of chunks, and the lemmas on
cardinalities come first. `NoneForgotten` itself is inductive together with these, but only from a
start in which every image belongs to a message (`DispatchAssumption`): the module describes
images that were dispatched, and an image that no message names would be in flight without
anybody to answer it.

The other two results are about a session of one chunk (`OneChunk`): with two chunks in flight an
update of the JSON list may be lost (`EngineLostChunk.cfg`), and with it the count of runs, so
neither holds in general. What a request to retry has read, `failed`, is not held until it has
written; the proof needs that no other request is between the two, which is the bound
`MaxPosts = 1`, and TLC finds `RetryCap` violated without it. The number of images and retries,
the answers and the faults are arbitrary. `OneInv` adds to `Inv` that what a run has read of the
list is still what is stored (`OneInUse`); that one run works on the chunk at a time, and while it
does the record does not say `failed`, so that nobody may retry it (`OneAtWork`); and that the runs
counted are at most `attempts`, exactly as many when none has died, with two at most when a run is
still to be counted (`AttemptsCount`). `AllFailed` follows what a run that fails leaves behind: the
record says `failed` only if every image was answered so, which a retry of a single image may
later undo.

### Review

`DecisionInv` adds to `OnePerSubmission` that no round is ended before it begins (`Counted`) and
that the round of a pending receipt has been ended by nobody (`OpenRound`), which is what the
guard of the UPDATE re-establishes. `AdminInv` is not about the receipt, which other requests
change at any time, but about what each request carries: an edit that will write `processed`
belongs to an administrator, because an owner was refused when he read the receipt either by
`assert_status_transition` or, when it was processed already, by the read-only check. `ImagesStay`
is inductive with the types.

`TrailBalances` speaks of a receipt at rest; `TrailInv` says what holds at every moment: the
entries that tell of submissions, with those that transitions have still to write
(`Owing`), equal the entries that tell of decisions, with those still owed, and the status. An
edit whose request sends a status leaves this equation, so `EditsTell` says that its entry comes
before it writes.

### Images

`ImageInv` gives every name one owner: what has a name has been issued one (`Known1`), and the
names that a request may still remove are not attached, nor asked for, nor those of another
request (`Apart`). `Written` says that every mirror, staged or attached, holds its image, and that
the files of the images a request is about to attach are on the volume; it is what lets an image
be served when its file was lost. `OneReceiptPerId` and `OneReceiptPerImage` are what the unique
indexes keep. `NamesAssumption` says that the names of scans and those of uploads differ, as UUIDs
do. `HealConverges` is an action property: in the step that ends the self-heal no file is missing.

### Messages

`HandWrittenKept` is about what a sender was told; `Remembered` says the same with the thread and
the receipt it belongs to, so that the removal of threads, which looks at receipts, can be
compared with it. `RequestKnows` says that the thread a request has found is that of its two
people for as long as it exists. `Reachable` is what keeps it from becoming empty
between the statements of a sender: a thread is only removed when it has no message, and a message
is only inserted into a thread that exists.

`BadgeIsReachable` compares a sum over the threads a user can open with the number of the user's
unread messages. The sum is written as the cardinality of the set of pairs of a thread and one of
the numbers up to its count, and by `Blocks` that set has one element for each message in the
disjoint parts, so no induction over the threads is needed; that no message lies outside them is
`Reachable`. `FewMessages` and `FewThreads` say that there are finitely many. `ListCounts` counts
what is in the list, whatever its length; by `AllListed` nobody's conversation has `ListLimit`
others before it when there are no more than that.

### Accounts

`Deletion` follows a deletion through its purge: a purge is about an account that is gone, and
once it has deleted the account's rows without an error, what rows there are is belated. That is
an invariant because only a save makes rows, and a save after the account is gone is `belated`.
`LoopSound` is about the lists the cleanup loop keeps while others act: it purges only an account
that is gone, what it has listed of the staged images is staged or attached and marked as listed,
and an image it has not found in its references (`Unseen`) is too young to be swept or was attached
between two of its reads. `FilesSound` says that of a file whose row is still to come. `Excused`
has the exceptions of `LiveKept`. Age is what the code relies on, and the proof uses
nothing else of time.

### Error log and keys

`NothingSilent` says something only when nothing runs; `OwedInv` says at every moment who has
still to tell of a failed image. A process owes all it has in hand until it has read the session
(`OwedBy`), and from then on what is in its records that are due, because the read finds every
image that is failed at that moment: a chunk's record has its images, and the record of single
images has all others (`Uncovered`).

`OneCallPerKey` compares keys, the code excludes by locks; `SoundInv` says that a call has the lock
of its key from the moment it has one (`LockedCall`), which needs that a key keeps the lock it was
given and that what the settings resolve to is a key; `AloneInv` says that a lock is held once.

### Review batches, task records, reference data

`ReviewInv` describes what a reviewer carries between the change and the answer: whether the
UPDATE found the row and so holds its lock (`SoundReview`). A reviewer without the lock had no
item to change, and none appears later, because only the making of the batch inserts items and one
request at a time makes it (`OneCreates`, `NoNewItems`).

`TasksInv` counts: a run has saved as many results as it has made receipts, none twice (`Counts`);
every chunk that has told a failure is among its failed ones, and all are over when it has gathered
them (`Knows`). What it says at its end follows by cases on the verdict; that the number in the row
has receipts behind it holds because receipts only grow.

`IndustryKept` is an action property. `BooksInv` says that what a removal has cleared was under the
industry it removes, and that a receipt that is still being extracted is not there yet; so a step
that takes an industry from a receipt is the one that removes the industry.

### Backups

`ContentInv` goes through the export table by table. Images hang on receipts at places of their
own (`PicturesInv`), so do the rows in the archive (`RowsInv`), although receipts and images are
read at different moments; the second image of a receipt stays while the first does, until the
files are packed, and then is packed when the first is (`PackInv`). `FilesInv` says of an attached image
without a file that it came from the archive, and that if the archive had its file some import is
still to write it (`Owes`), has failed or has died. `BroughtInv` follows one import from its commit: what
was selected is there, and the images in its places have their file or are on its list; a request
of the owner in between makes it `dirty`, and then nothing is promised.

### Archives

`StockInv`: files have rows, and a row without a file is one that some request is just removing.
`LimitsHold` is about requests that prune at once with lists of different ages. For the count,
`CountInv` says that when nobody is about to look at it, what is on no list to be removed is within
the limit. Lists may be old, but each puts all rows but the newest on it, rows are only added by a
request that looks afterwards, and a row goes only when it is on a list or its user deletes it.
For the bytes, `BytesInv` says that the files fit or that some request goes on
removing whose total is at least what there is, and whose list has all of it. `Bytes` is a
cardinality (one element per byte), and that the archives to be removed are those of the last
ranks is `Ranking`: in a finite set with an order, every rank is taken once.

### Lists and data cleaning

`PageInv` sets against one another the place a page begins at and the rank of a receipt. A receipt
that stays and is not read, but stands before the next page (`Skipped`), has been moved up by one that
left; one that is read and stands behind it (`Pending`) has been moved down by one that came. Each
change moves a rank by one at most, so `Skipped` grows by one at most per departure, `Doubled` and
`Pending` together by one at most per arrival. It is a count over sets of receipts whatever the
order, the filter and the size of the page.

`KeptStays` needs that the groups on a client's list have no receipt in common (`SoundList`),
which is what the set of checked receipts is for: every receipt is in the first group that takes
it. The loop over the receipts is a recursive function; that it exists is `Recursion`, which takes the
least counterexample, from the well-foundedness of the numbers, in place of an induction. A client
that is at work shows no list, so its list does not change under it (`Working`).

### Answers of the providers

`ResultsStandInPlace` has no history: it is about the function from an answer to the results. A
text followed by a remark is cut at its first return to depth 0, and `TextAssumption` says what a
JSON value is for that count: it ends there and not before, so what is left is the value itself.
Results that number every image are put in order by rank, and as the numbers are all of those up to
the number of images, the rank of each is its number; other answers are taken in the order they are
in, or refused.

### Figures

A figure is a function of the receipts read, and the state says which figure was told of which
receipts (`CardsInv`). Every sum is a cardinality, of the cents there are less the cents owed
(`Total`, `CentsParts`), for an amount may be below zero. Two lemmas carry the
rest: `MoneyParts`, the money of a set is the sum of that of two parts, and `ComeGroups`, the totals of the groups
of a set add up to the total of the set, whatever the groups are made by; categories, suppliers,
months and years are groups. What is cut (latest months, largest suppliers, lines of a report)
is what an order leaves of a finite set (`LeastOf`, `LatestAre`, `LargestAre`), so that the part
told is at most what there is, or all when nothing is left out. The summary is set against the overview by
`SummaryTells`: an expense among the newest of every type is among the newest expenses
(`ReadOfAll`). The hint of a leading category is told exactly when a category has half of what was spent.

### Only model-checked

* Liveness: `ItemsSettle`, `Answered` (a refinement that includes liveness), `DataGoes`,
  `OpsEnd`. The provers have no rules for fairness here.
* `ImagesRight`, which does not hold.

Recursive operators and induction over data are outside the provers. Where the code adds up, sorts
or loops, the modules with proofs say what comes out: a cardinality, a rank, a fold.

## 6. What the code does not keep

`ImagesRight` is a run of its own, and its finding is in `PROJECT.json`. The configurations that
are not runs show the following; for those of the small services `NotKept.cfg` names the property
to be checked.

| Configuration | What TLC shows |
|---|---|
| `SessionHeldSurvives.cfg` | the reaper fails an image that was prepared after its read, although it "must NOT destroy held `prepared` items" (`backend/tests/test_scan_sessions.py:332`) |
| `SessionSettlesUnpolled.cfg` | without a poll, a task that raised leaves images in flight; the reaper looks only at sessions uploading or processing (`api/batches.py:55`) |
| `EngineLostChunk.cfg` | `update_chunk` loses an update of another chunk |
| `WorkflowReadOnly.cfg` | an owner's edit accepted before the approval is written after it ("immutable for non-admins", `api/receipts.py:891`) |
| `WorkflowRejectedList.cfg` | the first edit takes a rejected receipt off the rejected list |
| `InboxNotKept.cfg`, `TemplateLands` | a template composed on a receipt's thread goes to the general thread (`api/messages.py:200`) |
| `BadgeIsListed` in its place | with more conversations than a list has, the badge counts messages that the list does not show |
| `UserLastAdmin.cfg` | two administrators, each counted before the other's change, remove one another (`api/auth.py:245`) |
| `UserNotKept.cfg`, `LiveDirKept` | when the query for live sessions fails, the sweep takes the directory of one |
| `CompletedIsPurged` in its place | the op of a deletion whose purge raised ends as completed |
| `UserSwept.cfg` | a staged image is attached while a sweep reads its references, is in none of what it read, and loses its file, although "files referenced by any live receipt or session item are never touched" (`services/data_cleanup_service.py:228-230`); what is left of it is its mirror in Postgres, from which it is still served |
| `NotKept.cfg`, `NewestThere` | two exports prune with older lists, and the newest archive goes |
| `ImportTold` | a row that fails in the import's transaction rolls all of it back at COMMIT; the op says "Import complete". An import with "remap" always does while the original image rows exist |
| `BilledAsResolved` | the SDK's key is one for the process and the locks are one per key: a call is made with another's key (`services/gemini.py:225` "the price of multi-tenant safety") |
| `OfferedOrOther` | an alias leads to a category that was not offered |
| `ParentKept` | a subcategory made between the check and the deletion loses its parent |
| `SuccessMeansSaved`, `FailureMeansNone` | a task all of whose chunks were lost to exceptions says "receipts saved" with none (`tasks/worker.py:663-667`, against `backend/tests/test_batch_task_status.py:2-4`); a second run says none when the first has saved some |
| `QueuedIsComing`, `PauseHolds` | a request that dies leaves a task queued for ever; a paused task goes on |
| `NobodyWaitsInACircle`, `CountIsItems` | a deletion of a batch and a change of its item wait for one another until Postgres ends one; `receipt_count` counts ids without a receipt |
| `ExportWhole`, `GroupCounts` | an export misses a row when the list changes between two pages (`api/exports.py:44` "covers the whole dataset"); the gallery's "Ungrouped" does not count a title N/A and the list does |
| `CopyStays`, `GroupMatches` | two lists of different ages delete every copy; a group has receipts that do not match the kept one (`data_cleaning_service.py:192`) |
| `DismissedStays`, `SettingsStay` | under Postgres the settings functions ignore the name of the settings (`services/database_service.py:383-416`): a dismissed key is never stored, so the suggestion returns, and the save (`services/data_cleaning_service.py:358-360`) overwrites the account's AI settings with defaults |
| `CorrectionStays` | a merge overwrites a name corrected by hand |
| `SpentIsExpense` | the spending summary counts quotations, although such reports exclude them (`docs/non-expense-flag-plan.md:29`) |
| `ReportTold` | "Spend totals" cuts its grouping at the comma inside a function and is refused; the totals of the tax summary look for column names with capitals |
| `OnePerChunk` | each later run of a session tells of a failed chunk again (`worker.py:738` "One record per failed chunk") |

Also seen while modelling, without a configuration: a failed read of the user's settings counts
as none and falls back to the shared key, although there is "deliberately NO silent fallback"
(`services/admin_keys_service.py:15`); two settings requests at once lose one; a report with
exactly `MAX_ROWS` rows is called truncated; `mark_all_read` counts before it marks; the list's
total is 0 past its end (`database_service.py:713`); dashboard and summary read 5000 receipts at
most; an import is not among the ops the watchdog ends; two imports of accounts with the same
first eight characters share a directory; a category moved to another industry makes
`delete_industry` fail; any failure to insert into a reference table is answered as a duplicate;
`keep_id` of a cleaning request is not compared with the list; a redelivered legacy task
overwrites results with null and removes the directory under a second run; the two edits that
meet the cap of images each read the count first; a cover file `{receipt_id}.jpg` may be served
from a browser's cache after its image has changed; the summary of a period with an end and no
beginning includes receipts without a date.

## 7. Not modelled

* Tokens and trusted hosts (`core/security.py`, `core/trusted_hosts.py`): a token is checked by a
  function of the token and the clock, and the set of hosts is replaced as a whole.
* Connection pools (`core/database.py`): the cache keeps each loop with its pool, so the identity
  of a cached loop is not reused; a loop may get two pools, of which one leaks, which only Postgres
  would notice.
* Health checks, the rendering of CSV, XLSX, PDF and JSON, the registry of models and the PDF
  helpers: input and output without state.
* Firebase (`services/firebase_service.py`): another store behind the same interface, not deployed.
* The frontend: only its polling is assumed.

In the modelled parts: the text of messages and titles, progress percentages, ownership checks
where one user is modelled, the fields and line items of a receipt where no property is about
them, prompts, resizing and HEIC conversion, the proxy for external images, and of the filters of
a list all but three. Of an archive's tables only receipts, line items and images are followed;
only one removal in the reference data is under way at a time. The deletion of an account also
removes its conversations (`services/auth_service.py:236-238`), which `Inbox` does not have. An
account has no more receipts than a cleaning list is made from (5000, `CleaningAssumption`).
