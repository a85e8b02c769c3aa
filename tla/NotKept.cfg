\* One property that the code does not keep: put another of them in the place of
\* BilledAsResolved.  As INVARIANT: NewestThere, ImportTold, BilledAsResolved,
\* OfferedOrOther, SuccessMeansSaved, FailureMeansNone, QueuedIsComing,
\* NobodyWaitsInACircle, ExportWhole, GroupCounts, CopyStays, GroupMatches,
\* SettingsStay, CorrectionStays, SpentIsExpense, ReportTold, OnePerChunk.  As PROPERTY:
\* ParentKept, PauseHolds, CountIsItems, DismissedStays.
SPECIFICATION Spec
CONSTANTS
  p1 = p1
  p2 = p2
  u1 = u1
  u2 = u2
  R1 = R1
  R2 = R2
  i1 = i1
  i2 = i2
  n1 = n1
  n2 = n2
  s1 = s1
  s2 = s2
  w1 = w1
  w2 = w2
  Requests = {p1, p2}
  Procs = {p1, p2}
  Images = {0, 1, 2}
  Loads <- Mix
  Sizes = {1, 2}
  MaxCount = 2
  MaxBytes = 3
  MaxFaults = 1
  Accounts = {u1, u2}
  Owner = u1
  Papers = {R1, R2}
  FirstPapers = {R1}
  Photos = {i1, i2, n1, n2}
  FirstPhotos <- FirstImages
  Contents <- ImageBytes
  Trips <- Short
  MaxFiles = 3
  Values <- JsonTexts
  Trailers <- Remarks
  RowIds = {"general", "farm"}
  Titles = {"A", "B"}
  FirstRows <- Tables
  Cats = {"c1", "c2", "c3"}
  CatNames = {"PAINT", "SEEDS"}
  Seed <- FirstCategories
  Canonical = {"PAINT", "OTHER"}
  Alias <- Aliases
  Proposals = {"N/A", "PAINT", "SEEDS", "colours", "junk"}
  Slips = {s1, s2}
  Edits = 2
  Portions <- Parts
  Workers = {w1, w2}
  Deliveries <- Luck
  Candidates = {"r1", "r2"}
  Unknown = {"x"}
  Statuses = {"reviewed", "flagged"}
  Notes = {"none", "note"}
  MaxCalls = 3
  Entries = {1, 2, 3, 4}
  EntryRows <- ListRows
  FirstEntries <- ListStart
  Absent <- NoEntry
  Queries <- ListQueries
  Holds <- FoundRow
  MaxChanges = 2
  Shelf <- CleanOrder
  FirstShelf <- Cleanable
  Removed <- NoReceipt
  Similar <- AlikeNames
  Bare <- BareName
  Corrections = {"Naivas", "Quickmart"}
  Means <- FewChances
  Bills <- Numbered
  Ledgers <- AnyLedgers
  NoBill <- NoPaper
  Questions <- AnyQuestions
  MaxBills = 3
  MaxRows = 3
  Slices = 1
  Hints <- Thresholds
  ThisYear = 2026
INVARIANT BilledAsResolved
SYMMETRY Symmetry
CHECK_DEADLOCK FALSE
