-------------------------------- MODULE Figures --------------------------------
(***************************************************************************)
(* The figures told about the receipts of an account: the cards of the     *)
(* dashboard (dashboard_service.py), the spending summary (api/receipts.py)*)
(* and two of the reports (reports_service.py).  Every figure is computed  *)
(* anew from the receipts by a request of its own, and they are read side  *)
(* by side.  Amounts are whole cents, which rounding leaves alone; dates   *)
(* are whole months.                                                       *)
(***************************************************************************)
EXTENDS Integers, Sequences, FiniteSets, FiniteSetsExt

CONSTANTS Receipts,   \* numbers, the newest first
          Accounts,   \* what the table may hold, each [Receipts -> rows \cup {None}]; own: of this account
          None,
          Asked,      \* what is asked: [from, to, industry, category,
              \* unreviewed, months, years, key, sensitive, admin]
          Most,       \* receipts read of an account, 5000
          MaxRows,    \* rows of a report, 50000
          Slices,     \* suppliers told, 10
          Hints,      \* the thresholds of the insights: [cats, least, high, suppliers]
          ThisYear

(* An amount may be below zero, which no check refuses.  Statuses are the three  *)
(* of VALID_STATUSES; a month at least is asked about, and years since 1970.     *)
FiguresAssumption ==
  /\ IsFiniteSet(Receipts) /\ Receipts \subseteq Nat
  /\ \A b \in Accounts, i \in Receipts : b[i] # None =>
       b[i].own \in BOOLEAN /\ b[i].amount \in Int /\ b[i].date \in Nat /\ b[i].status \in {"needs_review", "pending_approval", "processed"}
  /\ Most \in Nat /\ MaxRows \in Nat /\ Slices \in Nat /\ ThisYear \in 1970..2100
  /\ Asked \subseteq [from : Nat, to : Nat, industry : STRING, category : STRING, unreviewed : BOOLEAN, months : Nat \ {0},
                      years : 1..(ThisYear - 1969), key : {"register", "tax", "totals"}, sensitive : BOOLEAN, admin : BOOLEAN]

VARIABLES books, answer

vars == <<books, answer>>

-----------------------------------------------------------------------------
Month(y, m) == y * 12 + m - 1
YearOf(d)   == d \div 12
NoDate == 0

(* Each figure is a function of the receipts b that the request has read.      *)
(* list_receipts with a limit: the newest of the account, of one type or of all. *)
Fetched(b, type) ==
  LET S == {i \in Receipts : b[i] # None /\ b[i].own /\ type \in {"any", b[i].type}}
  IN {i \in S : Cardinality({j \in S : j < i}) < Most}

Within(q, d) == d # NoDate /\ (q.from # NoDate => d >= q.from) /\ (q.to # NoDate => d <= q.to)
Bounded(q)   == q.from # NoDate \/ q.to # NoDate

(* Mutant: a receipt without a date passes any bound. *)
CountedUndated(b, q) == {i \in Fetched(b, "expense") :
  /\ q.industry \in {"any", b[i].industry}
  /\ q.unreviewed \/ b[i].status \in {"processed", "pending_approval"}
  /\ (Bounded(q) /\ b[i].date # NoDate) => Within(q, b[i].date)}

(* The receipts that count: expenses, of the industry, verified unless asked   *)
(* otherwise, and with a date when there is a bound.                           *)
Counted(b, q) == {i \in Fetched(b, "expense") :
  /\ q.industry \in {"any", b[i].industry}
  /\ q.unreviewed \/ b[i].status \in {"processed", "pending_approval"}
  /\ Bounded(q) => Within(q, b[i].date)}

(* The sum of what a function gives: the cents there are less those owed. *)
Total(f) == Cardinality(UNION {{k} \X (1..f[k]) : k \in DOMAIN f})
              - Cardinality(UNION {{k} \X (1..(-f[k])) : k \in DOMAIN f})
Money(b, S) == Total([i \in S |-> b[i].amount])

(* The line items of receipts. *)
Lines(b, S) == UNION {{i} \X DOMAIN b[i].items : i \in S}
Line(b, l)  == b[l[1]].items[l[2]]

(* Receipts put together by a key: what each group comes to. *)
Sums(b, S, key) ==
  [k \in {key[i] : i \in S} |->
     LET G == {i \in S : key[i] = k} IN [total |-> Money(b, G), count |-> Cardinality(G), first |-> Min(G)]]

DateOf(b)     == [i \in Receipts |-> b[i].date]
OfYear(b)     == [i \in Receipts |-> YearOf(b[i].date)]
CategoryOf(b) == [i \in Receipts |-> IF b[i].category = "" THEN "Uncategorized" ELSE b[i].category]
SupplierOf(b) == [i \in Receipts |-> IF b[i].supplier = "" THEN "UNKNOWN" ELSE b[i].supplier]

(* The sort is by total, the largest first, and stable; the first n are told. *)
Ahead(f, k, l) == f[k].total > f[l].total \/ (f[k].total = f[l].total /\ f[k].first < f[l].first)
Largest(f, n)  == [k \in {k \in DOMAIN f : Cardinality({l \in DOMAIN f : Ahead(f, l, k)}) < n} |-> f[k]]
Together(f)    == Total([k \in DOMAIN f |-> f[k].total])

(* The latest n of a set of dates or years. *)
Latest(D, n) == {d \in D : Cardinality({e \in D : e > d}) < n}

-----------------------------------------------------------------------------
(* get_overview *)
Overview(b, q) ==
  LET S == Counted(b, q)
      Of(status) == Cardinality({i \in S : b[i].status = status})
  IN [spent |-> Money(b, S), receipts |-> Cardinality(S), items |-> Cardinality(Lines(b, S)),
      processed |-> Of("processed"), pending |-> Of("pending_approval"), review |-> Of("needs_review"),
      verified |-> Of("processed") + Of("pending_approval"),
      largest |-> Max({b[i].amount : i \in S} \cup {0}),
      subtotal |-> Total([l \in Lines(b, S) |-> Line(b, l).price * Line(b, l).qty]),
      tax |-> Total([l \in Lines(b, S) |-> Line(b, l).tax * Line(b, l).qty]),
      suppliers |-> {b[i].supplier : i \in S} \ {"", "unknown"},
      categories |-> {b[i].category : i \in S} \ {"", "uncategorized", "other"},
      batches |-> {b[i].title : i \in S} \ {""}]

(* get_trends: the latest months that have a receipt; best and worst are the     *)
(* earliest of their kind; growth needs a month with money and a month after it. *)
Trends(b, q) ==
  LET monthly == Sums(b, {i \in Counted(b, q) : b[i].date # NoDate}, DateOf(b))
      told == Latest(DOMAIN monthly, q.months)
      most == {m \in told : \A n \in told : monthly[m].total >= monthly[n].total}
      least == {m \in told : \A n \in told : monthly[m].total <= monthly[n].total}
  IN [monthly |-> [m \in told |-> monthly[m]], period |-> Total([m \in told |-> monthly[m].total]),
      best  |-> IF told = {} THEN NoDate ELSE Min(most),
      worst |-> IF told = {} THEN NoDate ELSE Min(least),
      grown |-> \E m \in told : monthly[m].total > 0 /\ \E n \in told : n > m]

(* get_breakdown *)
Breakdown(b, q) ==
  LET cats == Sums(b, Counted(b, q), CategoryOf(b))
      sups == Sums(b, Counted(b, q), SupplierOf(b))
  IN [categories |-> cats, suppliers |-> Largest(sups, Slices),
      top |-> DOMAIN Largest(cats, 1), known |-> Cardinality(DOMAIN sups)]

(* get_yearly: no bounds; the last years up to this one, or the latest that have *)
(* a receipt if none of those has.                                              *)
Anytime(q) == [q EXCEPT !.from = NoDate, !.to = NoDate]
Usual(y)   == y \in 1970..2100
InYears(b, q) == {i \in Counted(b, Anytime(q)) : b[i].date # NoDate /\ Usual(OfYear(b)[i])}
Window(q)  == (ThisYear + 1 - q.years)..ThisYear

YearsTold(b, q) == LET byYear == {OfYear(b)[i] : i \in InYears(b, q)} IN
  IF Window(q) \cap byYear = {} /\ byYear # {} THEN Latest(byYear, q.years) ELSE Window(q)

Yearly(b, q) ==
  LET byYear == Sums(b, InYears(b, q), OfYear(b))
  IN [y \in YearsTold(b, q) |-> IF y \in DOMAIN byYear THEN [total |-> byYear[y].total, count |-> byYear[y].count]
                             ELSE [total |-> 0, count |-> 0]]

(* get_insights: the share the largest has of the whole, which is 1 when there   *)
(* is no money.                                                                 *)
Insights(b, q) ==
  LET S == Counted(b, q)  n == Cardinality(S)
      cats == Sums(b, S, CategoryOf(b))  sups == Sums(b, S, SupplierOf(b))
      whole == IF Money(b, S) = 0 THEN 1 ELSE Money(b, S)
      Share(f, percent) == \E k \in DOMAIN Largest(f, 1) :
        IF whole > 0 THEN 100 * f[k].total >= percent * whole ELSE 100 * f[k].total <= percent * whole
      review == Cardinality({i \in S : b[i].status = "needs_review"})
      If(told, hint) == IF told THEN {hint} ELSE {}
  IN IF S = {} THEN {}
     ELSE If(Share(cats, 50), "category") \cup If(Share(sups, 40), "supplier")
          \cup If(100 * review > 30 * n, "review")
          \cup If(Cardinality(DOMAIN cats) <= Hints.cats /\ n >= Hints.least, "categorise")
          \cup If(whole > Hints.high * n, "average") \cup If(Cardinality(DOMAIN sups) >= Hints.suppliers, "diverse")

(* get_years *)
Years(b) == {OfYear(b)[i] : i \in {i \in Fetched(b, "expense") : b[i].date # NoDate}}

(* generate_summary: every type and status, of a category or of all; a receipt   *)
(* without a date has the empty text for a date, which is before any other, and *)
(* one without a category is put with those of OTHER.                           *)
OrOther(b) == [i \in Receipts |-> IF b[i].category = "" THEN "OTHER" ELSE b[i].category]
Summarized(b, q) == {i \in Fetched(b, "any") :
  /\ (q.from # NoDate => b[i].date >= q.from) /\ (q.to # NoDate => b[i].date <= q.to)
  /\ q.category \in {"any", b[i].category}}
Summary(b, q) ==
  LET S == Summarized(b, q) IN
  [spent |-> Money(b, S), receipts |-> Cardinality(S), items |-> Cardinality(Lines(b, S)),
   categories |-> Sums(b, S, OrOther(b)), suppliers |-> Largest(Sums(b, S, SupplierOf(b)), Slices),
   monthly |-> Sums(b, S, DateOf(b))]

-----------------------------------------------------------------------------
(* Reports.  The key of a column is made from its SQL and keeps its capitals;    *)
(* the database answers with the names in small letters.  The grouping is cut at *)
(* its commas, inside a function call too.                                      *)
Small(c) == IF c = "SUM(price)" THEN "sum(price)" ELSE IF c = "COUNT(*)" THEN "count(*)" ELSE c

Defs ==
  [register |-> [columns |-> {"status", "amount", "date"}, sensitive |-> {"kra_pin"}, group |-> {}, money |-> {"amount"}, spend |-> FALSE],
   tax      |-> [columns |-> {"rate", "COUNT(*)", "SUM(price)"}, sensitive |-> {}, group |-> {"rate"}, money |-> {"SUM(price)"}, spend |-> TRUE],
   totals   |-> [columns |-> {"to_char(date, format)", "status", "COUNT(*)", "SUM(amount)"}, sensitive |-> {},
                 group |-> {"to_char(date", "format)", "status"}, money |-> {"SUM(amount)"}, spend |-> TRUE]]

(* An administrator's report is of every account.                              *)
Selected(b, q) == {i \in Receipts : b[i] # None /\ (q.admin \/ b[i].own) /\ (Bounded(q) => Within(q, b[i].date))
                                 /\ (Defs[q.key].spend => b[i].type = "expense")}

(* The rows: one of a receipt, or of the line items with one rate. *)
Rates(b, S) == {Line(b, l).rate : l \in Lines(b, S)}
Gross(b, S, rate) == Total([l \in {l \in Lines(b, S) : Line(b, l).rate = rate} |-> Line(b, l).price])
Rows(b, q) ==
  LET S == Selected(b, q) IN
  IF q.key = "register"
  THEN [i \in S |-> [c \in {"amount", "status", "date"} |-> IF c = "amount" THEN b[i].amount ELSE 0]]
  ELSE [rate \in Rates(b, S) |->
          [c \in {Small(x) : x \in Defs[q.key].columns} |-> IF c = "sum(price)" THEN Gross(b, S, rate) ELSE 0]]

Refused == [refused |-> TRUE, rows |-> 0, truncated |-> FALSE, totals |-> <<>>]
Columns(q) == Defs[q.key].columns \cup (IF q.sensitive THEN Defs[q.key].sensitive ELSE {})
Masked(q)  == (q.sensitive /\ ~q.admin) \/ ~(Defs[q.key].group \subseteq Columns(q))

(* A total of each column of money, unless the rows were cut. *)
Totals(b, q, rows) ==
  IF Cardinality(rows) >= MaxRows THEN <<>>
  ELSE LET R == Rows(b, q)  told == {c \in Defs[q.key].money : \E i \in rows : c \in DOMAIN R[i]}
       IN [c \in told |-> Total([i \in rows |-> R[i][c]])]

RunReport(b, q, rows) ==
  [refused |-> FALSE, rows |-> Cardinality(rows), truncated |-> Cardinality(rows) >= MaxRows, totals |-> Totals(b, q, rows)]

(* A report of more rows than MaxRows has MaxRows of them. *)
Cut(b, q) == LET R == DOMAIN Rows(b, q) IN {S \in SUBSET R : Cardinality(S) = Min({MaxRows, Cardinality(R)})}

-----------------------------------------------------------------------------
Tell(of, q, value) == answer' = [of |-> of, q |-> q, value |-> value] /\ UNCHANGED books
Idle == answer.of = "none"

AskOverview  == \E q \in Asked : Idle /\ Tell("overview", q, Overview(books, q))
AskTrends    == \E q \in Asked : Idle /\ Tell("trends", q, Trends(books, q))
AskBreakdown == \E q \in Asked : Idle /\ Tell("breakdown", q, Breakdown(books, q))
AskYearly    == \E q \in Asked : Idle /\ Tell("yearly", q, Yearly(books, q))
AskInsights  == \E q \in Asked : Idle /\ Tell("insights", q, Insights(books, q))
AskYears     == \E q \in Asked : Idle /\ Tell("years", q, Years(books))
AskSummary   == \E q \in Asked : Idle /\ Tell("summary", q, Summary(books, q))
AskReport    == \E q \in Asked : /\ Idle
                                 /\ IF Masked(q) THEN Tell("report", q, Refused)
                                    ELSE \E rows \in Cut(books, q) : Tell("report", q, RunReport(books, q, rows))

Nothing == [of |-> "none", q |-> 0, value |-> 0]
Init == books \in Accounts /\ answer = Nothing
Next == \/ AskOverview \/ AskTrends \/ AskBreakdown \/ AskYearly \/ AskInsights \/ AskYears \/ AskSummary \/ AskReport
Spec == Init /\ [][Next]_vars

-----------------------------------------------------------------------------
(* The cards of one page agree: what one tells is what the others tell of the    *)
(* same receipts, or leaves out what it says it leaves out.                     *)
ReviewCounted(q, o) == o.receipts = o.verified + o.review /\ (o.review > 0 => q.unreviewed)

TrendsAddUp(b, q, t) ==
  LET S == Counted(b, q) IN
  t.period + Money(b, {i \in S : b[i].date = NoDate}) + Money(b, {i \in S : b[i].date # NoDate /\ \A m \in DOMAIN t.monthly : b[i].date < m})
    = Overview(b, q).spent

SlicesAddUp(b, q, t) ==
  /\ Together(t.categories) = Overview(b, q).spent
  /\ (t.known <= Slices) => Together(t.suppliers) = Overview(b, q).spent
  /\ Cardinality(DOMAIN t.suppliers) = Min({Slices, t.known})

(* A year tells what the overview tells when that year is picked, and years are  *)
(* told that have a receipt if there is one: "ensure we show data".             *)
YearsAddUp(b, q, f) ==
  /\ \A y \in DOMAIN f :
       LET picked == Overview(b, [q EXCEPT !.from = Month(y, 1), !.to = Month(y, 12)])
       IN f[y].total = picked.spent /\ f[y].count = picked.receipts
  /\ InYears(b, q) # {} => \E y \in DOMAIN f : f[y].count > 0

(* A category is told to dominate if one has half of the money there is, and not *)
(* when there is none.                                                          *)
HintsAddUp(b, q, hints) ==
  LET t == Breakdown(b, q)  spent == Overview(b, q).spent IN
  /\ spent > 0 => ("category" \in hints <=> \E c \in DOMAIN t.categories : 2 * t.categories[c].total >= spent)
  /\ spent = 0 /\ (\A i \in Counted(b, q) : b[i].amount >= 0) => "category" \notin hints
  /\ "review" \in hints => Overview(b, q).review > 0

(* The summary's months and its categories come to what it says was spent; and   *)
(* where it read every expense the overview did, of any category, it tells what  *)
(* the overview of the same dates tells, besides the receipts that are no        *)
(* expense and the undated ones that a bound takes from the overview.            *)
SummaryAddsUp(b, q, t) ==
  LET S == Summarized(b, q)  all == [q EXCEPT !.industry = "any", !.unreviewed = TRUE] IN
  /\ Together(t.monthly) = t.spent /\ Together(t.categories) = t.spent
  /\ q.category = "any" /\ Fetched(b, "expense") \subseteq Fetched(b, "any") =>
       t.spent = Overview(b, all).spent + Money(b, {i \in S : b[i].type # "expense"})
                   + Money(b, {i \in S : b[i].type = "expense" /\ b[i].date = NoDate /\ Bounded(q)})

(* A report that is told whole has the money of every receipt in it. *)
ReportAddsUp(b, q, r) ==
  ~r.refused /\ q.key = "register" /\ ~r.truncated /\ r.rows > 0 => r.totals["amount"] = Money(b, Selected(b, q))

FiguresAgree ==
  LET q == answer.q  told == answer.value IN
  CASE answer.of = "overview"  -> ReviewCounted(q, told)
    [] answer.of = "trends"    -> TrendsAddUp(books, q, told)
    [] answer.of = "breakdown" -> SlicesAddUp(books, q, told)
    [] answer.of = "yearly"    -> YearsAddUp(books, q, told)
    [] answer.of = "insights"  -> HintsAddUp(books, q, told)
    [] answer.of = "summary"   -> SummaryAddsUp(books, q, told)
    [] answer.of = "report"    -> ReportAddsUp(books, q, told)
    [] OTHER -> TRUE

(* "excluded from totals": what the summary tells as spent is expenses. *)
SpentIsExpense ==
  answer.of = "summary" => answer.value.spent = Money(books, {i \in Summarized(books, answer.q) : books[i].type = "expense"})

(* A report that may be asked for is told, with a total of its money. *)
ReportTold ==
  answer.of = "report" /\ (answer.q.sensitive => answer.q.admin) =>
     /\ ~answer.value.refused
     /\ ~answer.value.truncated /\ answer.value.rows > 0 => DOMAIN answer.value.totals = Defs[answer.q.key].money

===============================================================================
