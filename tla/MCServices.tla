------------------------------ MODULE MCServices ------------------------------
(***************************************************************************)
(* The smaller services, each on its own: which one a behaviour is about   *)
(* is chosen at the start, and the others stay as they are.                *)
(***************************************************************************)
EXTENDS Services, FailedImages, Integers, FiniteSets, TLC

CONSTANTS p1, p2,                  \* requests
          u1, u2,                  \* accounts
          R1, R2, i1, i2, n1, n2,  \* receipts and images
          s1, s2,                  \* scans of receipts
          w1, w2                   \* threads of a worker

VARIABLE focus
VARIABLES row, shared, sdk, current, lockOf, budget
VARIABLES chunk, records, marking, happens

archives == <<rows, files, size, temp, exporter, coming, deleted, faults>>
content  == <<receipt, picture, file, arch, upload, importer, dirty, bound, drift, died>>
keys     == <<row, shared, req, sdk, current, lockOf, budget>>
reply    == <<sent, answer, outcome>>
taxonomy == <<named, category, booked, scan, removal, doomed, edits>>
tasks    == <<task, staging, dir, broker, thread, extracted, again>>
review   == <<existing, batch, items, count, reviewer, calls>>
listing  == <<stored, query, skip, read, tally, phase, came, went, changes, steady>>
cleaning == <<cleaned, dismissed, settings, cleaner, shown, given, byHand, lost, chances>>
figures  == <<books, answered>>
errors   == <<image, chunk, proc, records, told, excused, marking, happens>>

-----------------------------------------------------------------------------
Mix == {[atonce |-> 2, exports |-> 4, deletes |-> 0],
        [atonce |-> 2, exports |-> 3, deletes |-> 1],
        [atonce |-> 1, exports |-> 5, deletes |-> 1]}

Short == {[imports |-> 1, drift |-> 2, faults |-> 1], [imports |-> 2, drift |-> 1, faults |-> 0]}

FirstImages == {[id |-> i1, rcp |-> R1, ord |-> 0], [id |-> i2, rcp |-> R1, ord |-> 1]}
ImageBytes == i1 :> 1 @@ i2 :> 2 @@ n1 :> 1 @@ n2 :> 3

Put(provider, model, key, think) == [provider |-> provider, model |-> model, key |-> key, think |-> think]

Keys == INSTANCE ProviderKeys WITH
  Users <- {u1}, Keys <- {"k1", "k2"}, NoKey <- "none",
  Models <- [gemini |-> {"g1", "g2"}, qwen |-> {"q1"}], DefaultModel <- [gemini |-> "g1", qwen |-> "q1"], RowModel <- "g2",
  Start <- [gemini |-> [key |-> "k2", enabled |-> TRUE, model |-> "g1", think |-> FALSE],
            qwen |-> [key |-> "none", enabled |-> FALSE, model |-> "q1", think |-> FALSE]],
  UserBodies <- {Put("qwen", "same", "k1", "same"), Put("gemini", "g2", "k1", "on"), Put("same", "g2", "same", "same")},
  AdminBodies <- {[provider |-> "qwen", key |-> "k2", enabled |-> TRUE, model |-> "g1", think |-> TRUE],
                  [provider |-> "gemini", key |-> "same", enabled |-> FALSE, model |-> "none", think |-> FALSE]},
  Budget <- [puts |-> 1, adminputs |-> 1, calls |-> 3, failures |-> 1], left <- budget

(* Texts with an object in an object, a bracket and an escaped quote in a string, *)
(* lists; and what may follow them.                                             *)
JsonTexts == {<<"{", "}">>, <<"{", "x", "}">>, <<"{", "q", "}", "q", "}">>, <<"{", "q", "e", "q", "}", "q", "x", "}">>,
              <<"{", "[", "x", "]", "}">>, <<"{", "{", "x", "}", "x", "}">>, <<"[", "{", "q", "]", "q", "}", "]">>}
Remarks == {<<>>, <<"x">>, <<"{", "x", "}">>, <<"q", "{">>, <<"}">>}

Table(name, system) == [name |-> name, active |-> TRUE, system |-> system]
NoRow == [name |-> "none"]
Category(industry, name, system) ==
  [industry |-> industry, name |-> name, parent |-> "none", active |-> TRUE, system |-> system]

Tables == [industries  |-> [general |-> Table("A", TRUE), farm |-> Table("B", FALSE)],
           locations   |-> [general |-> NoRow, farm |-> NoRow],
           entry_types |-> [general |-> Table("A", TRUE), farm |-> NoRow]]
FirstCategories == [c1 |-> Category("general", "PAINT", TRUE), c2 |-> Category("farm", "SEEDS", FALSE)]
Aliases == [colours |-> "PAINT"]

Parts == {<<"i1", "i2">>, <<"i3">>}
Luck == {[again |-> 0, crashes |-> 0, touches |-> 1], [again |-> 1, crashes |-> 1, touches |-> 0]}

Entry(made, key, type, verdict, title) ==
  [made |-> made, key |-> key, type |-> type, verdict |-> verdict, title |-> title]
NoEntry == Entry(0, 0, "none", "none", "none")
Query(by, filter, sort, way, most) ==
  [by |-> by, filter |-> filter, sort |-> sort, dir |-> way, size |-> most, all |-> by # "export"]

FoundRow(r) == r.type # "quotation"
ListRows == {Entry(1, 1, "expense", "none", ""), Entry(2, 1, "expense", "none", "b"),
             Entry(1, 2, "quotation", "none", ""), Entry(2, 1, "expense", "rejected", "N/A")}
ListStart == [i \in 1..4 |-> IF i = 4 THEN NoEntry ELSE Entry(1, 1, "expense", "none", "")]
ListQueries == {Query("export", "any", "made", "desc", 2), Query("list", "expense", "key", "asc", 1),
                Query("list", "rejected", "other", "desc", 1), Query("list", "non_expense", "key", "desc", 2),
                Query("list", "ungrouped", "made", "asc", 2), Query("search", "any", "rank", "desc", 2)}

Paper(name, invoice, amount, sum, pin) ==
  [name |-> name, invoice |-> invoice, amount |-> amount, sum |-> sum, pin |-> pin]
AlikeNames(m, n) == {m, n} \subseteq {"Naivas", "Naivass"}
BareName(m) == IF m = "Naivas Ltd" THEN "Naivas" ELSE m
Chances(lists, picks, corrections, deletes, dismissals) ==
  [lists |-> lists, picks |-> picks, edits |-> corrections, deletes |-> deletes, dismissals |-> dismissals]

(* r1 matches r2 by its invoice and r3 by its amount. *)
Cleanable == [r1 |-> Paper("Naivas", "n1", 5, 5, "none"), r2 |-> Paper("Naivas Ltd", "n1", 7, 7, "pin"),
              r3 |-> Paper("Naivass", "n3", 5, 6, "none"), r4 |-> Paper("Naivass", "n3", 9, 9, "none")]
CleanOrder == <<"r1", "r2", "r3", "r4">>
NoReceipt == Paper("none", "gone", 0, 0, "none")
FewChances == {Chances(2, 1, 0, 0, 1), Chances(1, 2, 1, 1, 0)}

Paid(type, status, date, amount, group, supplier, lines) ==
  [own |-> TRUE, type |-> type, status |-> status, date |-> date, amount |-> amount, category |-> group, supplier |-> supplier,
   industry |-> IF amount = 3 THEN "farm" ELSE "general", title |-> "", items |-> lines]
Line(price, qty, rate) == [price |-> price, qty |-> qty, tax |-> 1, rate |-> rate]
NoPaper == Paid("none", "none", 0, 0, "", "", <<>>)
At(year, month) == year * 12 + month - 1
OfAnother == [Paid("expense", "processed", At(2026, 5), 6, "FOOD", "A", <<Line(6, 1, 16)>>) EXCEPT !.own = FALSE]
Oldest == Paid("expense", "pending_approval", At(2025, 12), 3, "FOOD", "B", <<Line(3, 1, 16)>>)
Ledger ==
  {NoPaper, Paid("expense", "processed", At(2026, 5), 5, "FOOD", "A", <<Line(2, 2, 16), Line(1, 1, 0)>>),
   Oldest,
   Paid("expense", "needs_review", At(2026, 1), 4, "", "B", <<>>),
   Paid("expense", "processed", 0, -2, "FUEL", "A", <<Line(-2, 1, 0)>>),
   Paid("expense", "processed", At(2019, 7), 5, "OTHER", "", <<>>),
   Paid("expense", "processed", At(1901, 7), 0, "FUEL", "A", <<>>),
   Paid("quotation", "processed", At(2026, 5), 9, "FOOD", "A", <<Line(9, 1, 16)>>)}

Ask(low, high, industry, cat, unreviewed, key, sensitive, admin) ==
  [from |-> low, to |-> high, industry |-> industry, category |-> cat, unreviewed |-> unreviewed, months |-> 1, years |-> 2,
   key |-> key, sensitive |-> sensitive, admin |-> admin]

Numbered == 1..4
AnyLedgers == {[i \in Numbered |-> IF i = 4 THEN last ELSE b[i]] : b \in [1..3 -> Ledger], last \in {Oldest, OfAnother}}
Thresholds == [cats |-> 1, least |-> 2, high |-> 4, suppliers |-> 2]
AnyQuestions ==
  {Ask(0, 0, "any", "any", FALSE, "register", FALSE, FALSE), Ask(0, 0, "any", "FUEL", TRUE, "tax", FALSE, FALSE),
   Ask(At(2026, 1), At(2026, 12), "any", "any", TRUE, "register", TRUE, TRUE),
   Ask(0, At(2026, 1), "general", "FOOD", FALSE, "totals", FALSE, FALSE),
   Ask(At(2026, 2), 0, "any", "any", FALSE, "register", TRUE, FALSE)}

Happens(retries, deaths, raises, losses, reaps, touches) ==
  [retries |-> retries, deaths |-> deaths, raises |-> raises, losses |-> losses, reaps |-> reaps, touches |-> touches]

Errors == INSTANCE ScanErrors WITH
  ChunkSize <- 2,
  Bounds <- {Happens(1, 0, 0, 0, 0, 0), Happens(0, 0, 0, 0, 1, 0), Happens(0, 1, 1, 1, 0, 0), Happens(0, 0, 0, 0, 0, 1)},
  left <- happens

ASSUME /\ Archive!LimitsAssumption /\ Backup!ArchiveAssumption /\ Books!TablesAssumption
       /\ Lists!ListAssumption /\ Clean!CleaningAssumption
       /\ Reply!TextAssumption /\ Keys!KeysAssumption /\ Cards!FiguresAssumption

-----------------------------------------------------------------------------
Services == {"archives", "content", "keys", "reply", "taxonomy", "tasks", "review", "listing", "cleaning", "figures", "errors"}

(* A service that is not looked at has one initial state. *)
Init == /\ focus \in Services
        /\ Archive!Init /\ (focus # "archives" => coming = CHOOSE s \in Mix : TRUE)
        /\ Backup!Init  /\ (focus # "content" => bound = CHOOSE s \in Short : TRUE)
        /\ Keys!Init
        /\ IF focus = "reply" THEN Reply!Init ELSE sent = 0 /\ answer = "none" /\ outcome = Reply!Waiting
        /\ Books!Init
        /\ Tasks!Init   /\ (focus # "tasks" => again.again = 0)
        /\ Review!Init /\ Lists!Init
        /\ Clean!Init   /\ (focus # "cleaning" => chances.dismissals = 1)
        /\ IF focus = "errors" THEN Errors!Init
           ELSE /\ image = [i \in Images |-> [s |-> "new"]] /\ proc = [p \in Procs |-> Errors!Over]
                /\ told = {} /\ excused = {} /\ chunk = 0 /\ records = 0 /\ marking = 0 /\ happens = 0
        /\ Cards!Init   /\ (focus # "figures" => books = [i \in 1..4 |-> IF i = 4 THEN OfAnother ELSE NoPaper])

Next == /\ UNCHANGED focus
        /\ \/ focus = "archives" /\ Archive!Next /\ UNCHANGED <<content, keys, reply, taxonomy, tasks, review, listing, cleaning, figures, errors>>
           \/ focus = "content" /\ Backup!Next /\ UNCHANGED <<archives, keys, reply, taxonomy, tasks, review, listing, cleaning, figures, errors>>
           \/ focus = "keys" /\ Keys!Next /\ UNCHANGED <<archives, content, reply, taxonomy, tasks, review, listing, cleaning, figures, errors>>
           \/ focus = "reply" /\ Reply!Next /\ UNCHANGED <<archives, content, keys, taxonomy, tasks, review, listing, cleaning, figures, errors>>
           \/ focus = "taxonomy" /\ Books!Next /\ UNCHANGED <<archives, content, keys, reply, tasks, review, listing, cleaning, figures, errors>>
           \/ focus = "tasks" /\ Tasks!Next /\ UNCHANGED <<archives, content, keys, reply, taxonomy, review, listing, cleaning, figures, errors>>
           \/ focus = "review" /\ Review!Next /\ UNCHANGED <<archives, content, keys, reply, taxonomy, tasks, listing, cleaning, figures, errors>>
           \/ focus = "listing" /\ Lists!Next /\ UNCHANGED <<archives, content, keys, reply, taxonomy, tasks, review, cleaning, figures, errors>>
           \/ focus = "cleaning" /\ Clean!Next /\ UNCHANGED <<archives, content, keys, reply, taxonomy, tasks, review, listing, figures, errors>>
           \/ focus = "figures" /\ Cards!Next /\ UNCHANGED <<archives, content, keys, reply, taxonomy, tasks, review, listing, cleaning, errors>>
           \/ focus = "errors" /\ Errors!Next /\ UNCHANGED <<archives, content, keys, reply, taxonomy, tasks, review, listing, cleaning, figures>>

vars == <<focus, archives, content, keys, reply, taxonomy, tasks, review, listing, cleaning, figures, errors>>
Spec == Init /\ [][Next]_vars

(* Only one service moves, so that both of everything may change places at once. *)
Twins == {{p1, p2}, {s1, s2}, {w1, w2}}
Symmetry == {f \in Permutations(UNION Twins) :
               /\ \A t \in Twins : \A x \in t : f[x] \in t
               /\ (f[p1] = p1) = (f[s1] = s1) /\ (f[p1] = p1) = (f[w1] = w1)}

-----------------------------------------------------------------------------
(* What Services.cfg checks, besides the properties of Services, OneCallPerKey of *)
(* SdkCalls and NothingSilent of FailedImages.                                   *)

-----------------------------------------------------------------------------
(* What the code does not keep; NotKept.cfg checks any one of these, and TLC    *)
(* finds it violated.  The newest archive stays; an import that says complete   *)
(* has brought its receipts; a call is paid for by its own key.                 *)
NewestThere      == Archive!NewestThere
ImportTold       == Backup!ImportTold
BilledAsResolved == Keys!BilledAsResolved

(* A category is one that was offered; a child has a parent. *)
OfferedOrOther == Books!OfferedOrOther
ParentKept     == Books!ParentKept

(* A verdict tells of the receipts there are; a queued task comes; a pause holds. *)
SuccessMeansSaved == Tasks!SuccessMeansSaved
FailureMeansNone  == Tasks!FailureMeansNone
QueuedIsComing    == Tasks!QueuedIsComing
PauseHolds        == Tasks!PauseHolds

(* Reviewers do not wait for one another; the count of a batch is of its items. *)
NobodyWaitsInACircle == Review!NobodyWaitsInACircle
CountIsItems         == Review!CountIsItems

(* An export has every receipt; a group has the receipts it counts. *)
ExportWhole == Lists!ExportWhole
GroupCounts == Lists!GroupCounts

(* A copy stays; a group is of one receipt; what is dismissed stays away, and   *)
(* no setting changes by it; what was corrected stays so.                      *)
CopyStays       == Clean!CopyStays
GroupMatches    == Clean!GroupMatches
DismissedStays  == Clean!DismissedStays
SettingsStay    == Clean!SettingsStay
CorrectionStays == Clean!CorrectionStays

(* The summary counts expenses; a report tells its money. *)
SpentIsExpense == Cards!SpentIsExpense
ReportTold     == Cards!ReportTold

(* A failed chunk is told of once. *)
OnePerChunk == focus = "errors" => Errors!OnePerChunk

===============================================================================
