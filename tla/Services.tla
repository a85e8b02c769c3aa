------------------------------- MODULE Services -------------------------------
(***************************************************************************)
(* The smaller services that something is proved of (ServicesProofs), each *)
(* an instance with constants and variables of its own.  MCServices gives   *)
(* the constants their values and adds the error log (ScanErrorsProofs).    *)
(***************************************************************************)
EXTENDS SdkCalls, Sequences

CONSTANTS Loads, Sizes, MaxCount, MaxBytes, MaxFaults               \* Archives
CONSTANTS Accounts, Owner, Papers, FirstPapers, Photos, FirstPhotos, Contents, Trips  \* BackupData
CONSTANTS MaxFiles, Values, Trailers                                \* BatchReply
CONSTANTS RowIds, Titles, FirstRows, Cats, CatNames, Canonical, Alias, Proposals, Slips, Seed, Edits  \* Taxonomy
CONSTANTS Portions, Workers, Deliveries                               \* TaskRecords
CONSTANTS Candidates, Unknown, Statuses, Notes, MaxCalls                \* ReviewBatches
CONSTANTS Entries, EntryRows, FirstEntries, Absent, Queries, Holds(_), MaxChanges  \* Listing
CONSTANTS Shelf, FirstShelf, Removed, Similar(_, _), Bare(_), Corrections, Means   \* Cleaning
CONSTANTS Bills, Ledgers, NoBill, Questions, MaxBills, MaxRows, Slices, Hints, ThisYear  \* Figures

VARIABLES rows, files, size, temp, exporter, coming, deleted, faults
VARIABLES receipt, picture, file, arch, upload, importer, dirty, bound, drift, died
VARIABLES sent, answer, outcome
VARIABLES named, category, booked, scan, removal, doomed, edits
VARIABLES task, staging, dir, broker, thread, extracted, again
VARIABLES existing, batch, items, count, reviewer, calls
VARIABLES stored, query, skip, read, tally, phase, came, went, changes, steady
VARIABLES cleaned, dismissed, settings, cleaner, shown, given, byHand, lost, chances
VARIABLES books, answered

Archive == INSTANCE Archives WITH
  Scenarios <- Loads, req <- exporter, left <- coming

Backup == INSTANCE BackupData WITH
  Users <- Accounts, Receipts <- Papers, Start <- FirstPapers, Images <- Photos,
  Atfirst <- FirstPhotos, Content <- Contents, Bounds <- Trips,
  image <- picture, req <- importer, faults <- died

Reply == INSTANCE BatchReply WITH files <- sent

Books == INSTANCE Taxonomy WITH
  Ids <- RowIds, Names <- Titles, Answers <- Proposals, Start <- FirstRows, Receipts <- Slips, receipt <- booked

Tasks == INSTANCE TaskRecords WITH
  Chunks <- Portions, Bounds <- Deliveries,
  row <- task, upload <- staging, messages <- broker, run <- thread, receipts <- extracted, left <- again

(* A batch is a finite number of images, each chunk a sequence of them. *)
ASSUME PortionsAssumption == Tasks!IsFiniteSet(Tasks!Pictures) /\ Portions \subseteq Seq(Tasks!Pictures)

Review == INSTANCE ReviewBatches WITH
  Reviewers <- Requests, Receipts <- Candidates, told <- count, req <- reviewer, left <- calls

Lists == INSTANCE Listing WITH
  Receipts <- Entries, Rows <- EntryRows, Start <- FirstEntries, None <- Absent, Found <- Holds, total <- tally

Clean == INSTANCE Cleaning WITH
  Clients <- Requests, Ids <- Shelf, Start <- FirstShelf, Gone <- Removed, Alike <- Similar, Norm <- Bare,
  NameEdits <- Corrections, Bounds <- Means,
  receipt <- cleaned, req <- cleaner, mine <- byHand, left <- chances

Cards == INSTANCE Figures WITH
  Receipts <- Bills, Most <- MaxBills, Accounts <- Ledgers, None <- NoBill, Asked <- Questions, answer <- answered

-----------------------------------------------------------------------------
(* Archives: rows and files agree once the requests are over; both limits hold. *)
RowsHaveFiles == Archive!RowsHaveFiles
LimitsHold    == Archive!LimitsHold

(* BackupData: the archive hangs together; a completed import has given back   *)
(* what it was asked for; no attached image lacks its file but for a reason.   *)
ArchiveWhole   == Backup!ArchiveWhole
CompleteImport == Backup!CompleteImport
RowsReadable   == Backup!RowsReadable

(* BatchReply: a result is about the image it is given to. *)
ResultsInPlace == Reply!ResultsInPlace

(* Taxonomy: no receipt loses its industry but to its removal. *)
IndustryKept == Books!IndustryKept

(* TaskRecords: the verdict of a run is true of the receipts it has made. *)
VerdictTrue == Tasks!VerdictTrue

(* ReviewBatches: a reviewer is told of the item he has changed. *)
AnswerIsOwn == Review!AnswerIsOwn

(* Listing: pages miss and repeat no more than what others have moved. *)
PagesMissFew == Lists!PagesMissFew

(* Cleaning: the receipt to keep is kept by the client that asked for it. *)
KeptStays == Clean!KeptStays

(* Figures: what one card tells is what the others tell. *)
FiguresAgree == Cards!FiguresAgree

===============================================================================
