-------------------------------- MODULE Listing --------------------------------
(***************************************************************************)
(* Reading a list of receipts page by page (database_service.list_receipts,*)
(* search_receipts_fulltext) while receipts come, go and change.  Every    *)
(* page is a query of its own: a filter, an order and an OFFSET.  The      *)
(* export (api/exports.py) reads all pages and writes what it has read     *)
(* into one file; a table reads them as its user scrolls.                  *)
(***************************************************************************)
EXTENDS Naturals, Sequences, FiniteSets

CONSTANTS Receipts,   \* the possible ids, numbers: they break ties
          Rows,       \* what a receipt may hold: made, key, type, verdict, title
          Start,      \* the receipts there at first, [Receipts -> Rows \cup {None}]
          None,
          Queries,    \* [by: "list" | "search", filter, sort, dir, size, all]
          Found(_),   \* whether the text searched for is in a receipt
          MaxChanges

ListAssumption ==
  /\ Receipts \subseteq Nat /\ IsFiniteSet(Receipts)
  /\ \A r \in Rows : r.made \in Nat /\ r.key \in Nat
  /\ Start \in [Receipts -> Rows \cup {None}]
  /\ \A q \in Queries : q.size \in Nat \ {0}

VARIABLES stored,    \* the receipts of the account
          query,     \* the query whose pages are being read, None before the first
          skip,      \* its OFFSET
          read,      \* what its pages had, [id, row] in order
          total,     \* the total its last page told
          phase,     \* "idle", "paging", "done", "empty"
          came, went, \* receipts that have entered and left the list meanwhile, counted
          changes,   \* changes made so far
          steady     \* receipts in the list since its first page that nothing has touched

pages == <<query, skip, read, total, phase, steady>>
vars  == <<stored, pages, came, went, changes>>

-----------------------------------------------------------------------------
(* The WHERE clause: a type, any type but expense, or the receipts whose      *)
(* latest audit entry is a rejection; the other filters have the same shape.  *)
Passes(filter, r) ==
  CASE filter = "any" -> TRUE
    [] filter = "non_expense" -> r.type # "expense"
    [] filter = "rejected" -> r.verdict = "rejected"
    [] filter = "ungrouped" -> r.title \in {"", "N/A"}
    [] OTHER -> r.type = filter

(* A search asks that the text is found, and the same filters. *)
SearchPasses(filter, r) == Found(r) /\ Passes(filter, r)

InList(q, r) == IF q.by = "search" THEN SearchPasses(q.filter, r) ELSE Passes(q.filter, r)
Matching(q)  == {i \in Receipts : stored[i] # None /\ InList(q, stored[i])}

(* The sort column; one that is not allowed falls back to created_at. *)
SortValue(q, i) == IF q.sort = "key" THEN stored[i].key ELSE stored[i].made

(* The ORDER BY: the column in the direction asked for and the id in the same; *)
(* for a search the rank, the newest first, and the id.                        *)
Listed(q, i, j) ==
  LET a == SortValue(q, i)  b == SortValue(q, j)
  IN IF q.dir = "asc" THEN a < b \/ (a = b /\ i < j) ELSE a > b \/ (a = b /\ i > j)
Ranked(q, i, j) ==
  LET r == stored[i]  s == stored[j]
  IN r.key > s.key \/ (r.key = s.key /\ (r.made > s.made \/ (r.made = s.made /\ i < j)))

(* Mutant: rows that share the sort value come in any order, anew for every page. *)
BeforeByValue(q, i, j) ==
  IF q.dir = "asc" THEN SortValue(q, i) < SortValue(q, j) ELSE SortValue(q, i) > SortValue(q, j)

Before(q, i, j) == IF q.by = "search" THEN Ranked(q, i, j) ELSE Listed(q, i, j)

(* The orders a database may give the rows in. *)
Orders(q) ==
  LET S == Matching(q) IN
  {o \in [1..Cardinality(S) -> S] :
     \A x, y \in DOMAIN o : x < y => o[x] # o[y] /\ ~Before(q, o[y], o[x])}

(* LIMIT and OFFSET; the total is a column of the rows, so that past the end *)
(* there is none and 0 is told.                                             *)
Page(q, o, n) == SubSeq(o, n + 1, IF n + q.size < Len(o) THEN n + q.size ELSE Len(o))
Total(page, o) == IF page = <<>> THEN 0 ELSE Len(o)

(* What an export writes of the rows read: the type it was asked for is picked *)
(* again, and without one only expenses stay.                                  *)
Keeps(q, r)   == q.all \/ q.filter # "any" \/ r.type = "expense"
Kept(q, rows) == {x \in DOMAIN rows : Keeps(q, rows[x].row)}

-----------------------------------------------------------------------------
(* The first page is asked for. *)
Ask == /\ phase = "idle"
       /\ \E q \in Queries : query' = q /\ steady' = Matching(q)
       /\ phase' = "paging"
       /\ UNCHANGED <<stored, skip, read, total, came, went, changes>>

(* One page: an empty or a short one is the last.  An export that has nothing *)
(* to write answers 404.                                                      *)
Fetch == /\ phase = "paging"
         /\ \E o \in Orders(query) :
              LET page == Page(query, o, skip)
                  last == Len(page) < query.size
              IN /\ read' = read \o [x \in DOMAIN page |-> [id |-> page[x], row |-> stored[page[x]]]]
                 /\ total' = Total(page, o)
                 /\ skip' = IF last THEN skip ELSE skip + query.size
                 /\ phase' = IF last THEN IF Kept(query, read') = {} THEN "empty" ELSE "done" ELSE "paging"
         /\ UNCHANGED <<stored, query, came, went, changes, steady>>

(* Meanwhile a receipt is saved, edited, reviewed or deleted. *)
Change(i, r) ==
  /\ phase \in {"idle", "paging"} /\ changes < MaxChanges /\ changes' = changes + 1
  /\ stored[i] # r
  /\ stored' = [stored EXCEPT ![i] = r]
  /\ LET in(x) == phase = "paging" /\ x # None /\ InList(query, x)
     IN /\ came' = came + (IF in(r) THEN 1 ELSE 0)
        /\ went' = went + (IF in(stored[i]) THEN 1 ELSE 0)
  /\ steady' = steady \ {i}
  /\ UNCHANGED <<query, skip, read, total, phase>>

Create(i) == stored[i] = None /\ \E r \in Rows : Change(i, r)
Edit(i)   == stored[i] # None /\ \E r \in Rows : r.made = stored[i].made /\ Change(i, r)
Delete(i) == stored[i] # None /\ Change(i, None)

Init == /\ stored = Start /\ query = None /\ skip = 0 /\ read = <<>> /\ total = 0
        /\ phase = "idle" /\ came = 0 /\ went = 0 /\ changes = 0 /\ steady = {}

Next == \/ Ask \/ Fetch
        \/ \E i \in Receipts : Create(i) \/ Edit(i) \/ Delete(i)

Spec == Init /\ [][Next]_vars

-----------------------------------------------------------------------------
Written == Kept(query, read)
Wanted  == {i \in steady : Keeps(query, stored[i])}
Missed  == {i \in Wanted : \A x \in Written : read[x].id # i}
Repeats == {x \in Written : read[x].id \in Wanted /\ \E y \in Written : y < x /\ read[y].id = read[x].id}

(* A receipt that was in the list all the time and untouched is missed only   *)
(* where others have left it, one for each, and repeated only where others    *)
(* have entered it, one for each ("a deterministic id tiebreaker keeps OFFSET *)
(* pagination stable", database_service.py:697-698).                          *)
PagesMissFew ==
  phase \in {"done", "empty"} => Cardinality(Missed) <= went /\ Cardinality(Repeats) <= came

(* An export has every matching receipt once ("covers the whole dataset       *)
(* regardless of size", api/exports.py:44): not when others change the list.  *)
ExportWhole == phase \in {"done", "empty"} => Missed = {} /\ Repeats = {}

-----------------------------------------------------------------------------
(* get_receipt_groups: a blank batch title is shown as Ungrouped.             *)
Shown == [by |-> "list", filter |-> "expense"]
GroupOf(r) == IF r.title = "" THEN "Ungrouped" ELSE r.title
Groups == [g \in {GroupOf(stored[i]) : i \in Matching(Shown)} |->
             Cardinality({i \in Matching(Shown) : GroupOf(stored[i]) = g})]

(* The gallery's count of ungrouped receipts is what the list of ungrouped    *)
(* receipts has: not when a title is N/A, which only the list takes for none. *)
GroupCounts ==
  "Ungrouped" \in DOMAIN Groups =>
    Groups["Ungrouped"] = Cardinality({i \in Matching([by |-> "list", filter |-> "ungrouped"]) : stored[i].type = "expense"})

===============================================================================
