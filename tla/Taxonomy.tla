------------------------------- MODULE Taxonomy -------------------------------
(***************************************************************************)
(* The reference data of the administrators (locations, entry types,       *)
(* industries and their categories: services/database_service.py and the   *)
(* four routers) and the extraction that files a receipt under it          *)
(* (services/gemini.py): the names of an industry are read, the provider   *)
(* answers, the answer is normalised, the id of the category is looked up, *)
(* and the receipt is saved, all while the administrators work.            *)
(***************************************************************************)
EXTENDS Naturals, FiniteSets

CONSTANTS Ids,          \* rows of each of the three named tables
          Start,        \* the rows at the start, table by table
          Names,        \* of those rows
          Cats, CatNames,
          Canonical,    \* CATEGORIES
          Alias,        \* CATEGORY_ALIASES: what a provider may write, to a canonical name
          Answers,      \* what a provider may write
          Receipts,
          Seed,         \* the categories at the start
          Edits         \* bound: changes by the administrators and users

Other == "OTHER"
None == "none"

(* What is assumed of the constants: three tables over the same ids, none of   *)
(* which is the id of nothing.                                                 *)
TablesAssumption ==
  /\ DOMAIN Start = {"industries", "locations", "entry_types"}
  /\ \A t \in DOMAIN Start : DOMAIN Start[t] = Ids
  /\ None \notin Ids

VARIABLES named,      \* the rows of the three tables: name, active, system
          category,   \* categories: industry, name, parent, active
          receipt,    \* industry_id, category_id of each saved receipt
          scan,       \* the extraction of each receipt
          removal,    \* the transaction of delete_industry
          doomed,     \* the category a delete_category has found free
          edits       \* what is left of Edits

vars == <<named, category, receipt, scan, removal, doomed, edits>>
NoRow == [name |-> "none"]

Rows(t) == {i \in Ids : named[t][i] # NoRow}
Under(x) == {c \in Cats : category[c] # NoRow /\ category[c].industry = x}
Edit == edits > 0 /\ edits' = edits - 1

(* Rows the transaction has changed: who wants them waits for its end. *)
Cleared == IF removal.pc \in {"categories", "industry"} THEN removal.cleared ELSE {}
Dropped == IF removal.pc = "industry" THEN removal.dropped ELSE {}

Init == /\ named = Start
        /\ category = [c \in Cats |-> IF c \in DOMAIN Seed THEN Seed[c] ELSE NoRow]
        /\ receipt = [r \in Receipts |-> NoRow]
        /\ scan = [r \in Receipts |-> [pc |-> "new"]]
        /\ removal = [pc |-> "none"] /\ doomed = None
        /\ edits = Edits

-----------------------------------------------------------------------------
(* Locations, entry types, industries: a name is unique in its table.        *)
Free(t, i, n) == \A j \in Rows(t) \ {i} : named[t][j].name # n

CreateRow(t, i, n) ==
  /\ Edit /\ i \notin Rows(t) /\ Free(t, i, n)
  /\ named' = [named EXCEPT ![t][i] = [name |-> n, active |-> TRUE, system |-> FALSE]]
  /\ UNCHANGED <<category, receipt, scan, removal, doomed>>

(* The rows of the system may be renamed and deactivated like any other. *)
UpdateRow(t, i, n, active) ==
  /\ Edit /\ i \in Rows(t) /\ Free(t, i, n)
  /\ named' = [named EXCEPT ![t][i].name = n, ![t][i].active = active]
  /\ UNCHANGED <<category, receipt, scan, removal, doomed>>

DeleteRow(t, i) ==
  /\ Edit /\ i \in Rows(t)
  /\ named' = [named EXCEPT ![t][i] = NoRow]
  /\ UNCHANGED <<category, receipt, scan, removal, doomed>>

CreateLocation(i, n)  == CreateRow("locations", i, n)
CreateEntryType(i, n) == CreateRow("entry_types", i, n)
CreateIndustry(i, n)  == CreateRow("industries", i, n)
UpdateLocation(i, n, active)  == UpdateRow("locations", i, n, active)
UpdateEntryType(i, n, active) == UpdateRow("entry_types", i, n, active)
UpdateIndustry(i, n, active)  == UpdateRow("industries", i, n, active)

(* Receipts carry the name of a location and of an entry type, no reference:  *)
(* nothing but the system's own entry types is held back.                     *)
DeleteLocation(i)  == DeleteRow("locations", i)
DeleteEntryType(i) == ~named["entry_types"][i].system /\ DeleteRow("entry_types", i)

-----------------------------------------------------------------------------
(* Categories: a name is unique in its industry.  Only a create asks that the *)
(* parent is of the same industry.                                           *)
Fits(c, row) ==
  /\ row.industry \in Rows("industries") /\ row.parent \in {None} \cup {p \in Cats : category[p] # NoRow}
  /\ \A d \in Under(row.industry) \ {c} : category[d].name # row.name

CreateCategory(c, row) ==
  /\ Edit /\ category[c] = NoRow /\ Fits(c, row)
  /\ row.parent # None => row.parent \in Under(row.industry) \ Dropped
  /\ category' = [category EXCEPT ![c] = row]
  /\ UNCHANGED <<named, receipt, scan, removal, doomed>>

(* One field at a time. *)
Changes(c) ==
  LET row == category[c] IN
  {[row EXCEPT !.name = n] : n \in CatNames} \cup {[row EXCEPT !.active = a] : a \in BOOLEAN}
  \cup {[row EXCEPT !.industry = x] : x \in Ids} \cup {[row EXCEPT !.parent = p] : p \in Cats \cup {None}}

UpdateCategory(c, row) ==
  /\ Edit /\ Fits(c, row) /\ {c, row.parent} \cap Dropped = {}
  /\ category' = [category EXCEPT ![c] = row]
  /\ UNCHANGED <<named, receipt, scan, removal, doomed>>

(* delete_category: the counts, then the delete.  Receipts still hold it back *)
(* (RESTRICT); subcategories made since lose their parent (SET NULL).         *)
Referred(c) == \E r \in Receipts : receipt[r] # NoRow /\ receipt[r].category = c
Children(c) == {d \in Cats : category[d] # NoRow /\ category[d].parent = c}
Without(cs) == [d \in Cats |-> IF d \in cs THEN NoRow
                               ELSE IF category[d] # NoRow /\ category[d].parent \in cs THEN [category[d] EXCEPT !.parent = None]
                               ELSE category[d]]

CheckCategory(c) ==
  /\ Edit /\ doomed = None /\ category[c] # NoRow /\ ~category[c].system
  /\ Children(c) = {} /\ ~Referred(c)
  /\ doomed' = c
  /\ UNCHANGED <<named, category, receipt, scan, removal>>

DeleteCategory ==
  /\ doomed # None /\ doomed \notin Dropped
  /\ category' = IF Referred(doomed) THEN category ELSE Without({doomed})
  /\ doomed' = None
  /\ UNCHANGED <<named, receipt, scan, removal, edits>>

-----------------------------------------------------------------------------
(* delete_industry, one transaction: its receipts are cleared, its categories *)
(* deleted, then the industry.  What others commit meanwhile is seen by the   *)
(* next statement; one that fails takes everything back.                      *)
FiledUnder(x) == {r \in Receipts : receipt[r] # NoRow /\ receipt[r].industry = x}
ClearedReceipts(rs) == [r \in Receipts |-> IF r \in rs THEN [receipt[r] EXCEPT !.industry = None, !.category = None] ELSE receipt[r]]

(* Mutant: the statements commit one by one. *)
ClearNow(x) ==
  /\ removal' = [pc |-> "categories", industry |-> x, cleared |-> {}]
  /\ receipt' = ClearedReceipts(FiledUnder(x))

Clear(x) ==
  /\ removal' = [pc |-> "categories", industry |-> x, cleared |-> FiledUnder(x)]
  /\ UNCHANGED receipt

RemoveIndustry(x) ==
  /\ Edit /\ removal.pc = "none" /\ x \in Rows("industries") /\ ~named["industries"][x].system
  /\ Clear(x)
  /\ UNCHANGED <<named, category, scan, doomed>>

DropCategories ==
  LET cs == Under(removal.industry) IN
  /\ removal.pc = "categories"
  /\ removal' = IF \E r \in Receipts \ removal.cleared : receipt[r] # NoRow /\ receipt[r].category \in cs
                THEN [pc |-> "none"]
                ELSE [pc |-> "industry", industry |-> removal.industry, cleared |-> removal.cleared, dropped |-> cs]
  /\ UNCHANGED <<named, category, receipt, scan, doomed, edits>>

DropIndustry ==
  LET x == removal.industry IN
  /\ removal.pc = "industry" /\ removal' = [pc |-> "none"]
  /\ IF Under(x) \ removal.dropped # {} \/ FiledUnder(x) \ removal.cleared # {}
     THEN UNCHANGED <<named, category, receipt>>
     ELSE /\ named' = [named EXCEPT !["industries"][x] = NoRow]
          /\ category' = Without(removal.dropped)
          /\ receipt' = ClearedReceipts(removal.cleared)
  /\ UNCHANGED <<scan, doomed, edits>>

-----------------------------------------------------------------------------
(* The extraction.  Names are equal when they differ only in case or spaces.  *)
Missing == "N/A"

ActiveNames(x) == {category[c].name : c \in {d \in Under(x) : category[d].active}}

(* _get_category_names_for_industry: all of CATEGORIES without an industry,    *)
(* without active categories, and when the lookup fails.                      *)
Offered(x, failed) == IF x = None \/ failed \/ ActiveNames(x) = {} THEN Canonical ELSE ActiveNames(x)

normalize_category(raw, allowed) ==
  CASE raw = Missing -> Other
    [] raw \in allowed -> raw
    [] raw \in DOMAIN Alias /\ Alias[raw] \in allowed /\ raw \notin allowed -> Alias[raw]
    [] OTHER -> IF Other \in allowed \/ raw \notin DOMAIN Alias THEN Other ELSE Alias[raw]

Ask(r, x, failed) ==
  /\ scan[r].pc = "new"
  /\ scan' = [scan EXCEPT ![r] = [pc |-> "asked", industry |-> x, offered |-> Offered(x, failed)]]
  /\ UNCHANGED <<named, category, receipt, removal, doomed, edits>>

Answer(r, raw) ==
  /\ scan[r].pc = "asked"
  /\ scan' = [scan EXCEPT ![r] = [pc |-> "answered", industry |-> scan[r].industry, offered |-> scan[r].offered,
                                  name |-> normalize_category(raw, scan[r].offered)]]
  /\ UNCHANGED <<named, category, receipt, removal, doomed, edits>>

(* The id of the name, active or not; none when the lookup fails. *)
CategoryId(x, n, failed) ==
  LET cs == {c \in Under(x) : category[c].name = n}
  IN IF failed \/ cs = {} THEN None ELSE CHOOSE c \in cs : TRUE

LookUp(r, failed) ==
  LET s == scan[r] IN
  /\ s.pc = "answered"
  /\ scan' = [scan EXCEPT ![r] = [pc |-> "filed", industry |-> s.industry, category |-> CategoryId(s.industry, s.name, failed)]]
  /\ UNCHANGED <<named, category, receipt, removal, doomed, edits>>

(* The receipt is inserted, or refused because its industry or category has   *)
(* gone; one being deleted makes it wait.                                     *)
Save(r) ==
  LET s == scan[r] IN
  /\ s.pc = "filed" /\ s.category \notin Dropped
  /\ scan' = [scan EXCEPT ![r] = [pc |-> "over"]]
  /\ receipt' = IF s.industry \in Rows("industries") \cup {None} /\ (s.category # None => category[s.category] # NoRow)
                THEN [receipt EXCEPT ![r] = [industry |-> s.industry, category |-> s.category]] ELSE receipt
  /\ UNCHANGED <<named, category, removal, doomed, edits>>

(* A user files it anew: nothing asks that the category is of the industry. *)
Refile(r, x, c) ==
  /\ Edit /\ receipt[r] # NoRow /\ r \notin Cleared /\ c \notin Dropped
  /\ category[c] # NoRow /\ x \in Rows("industries")
  /\ receipt' = [receipt EXCEPT ![r] = [industry |-> x, category |-> c]]
  /\ UNCHANGED <<named, category, scan, removal, doomed>>

-----------------------------------------------------------------------------
Next ==
  \/ \E i \in Ids, n \in Names :
       \/ CreateLocation(i, n) \/ CreateEntryType(i, n) \/ CreateIndustry(i, n)
       \/ \E active \in BOOLEAN :
            UpdateLocation(i, n, active) \/ UpdateEntryType(i, n, active) \/ UpdateIndustry(i, n, active)
  \/ \E i \in Ids : DeleteLocation(i) \/ (i \in Rows("entry_types") /\ DeleteEntryType(i))
  \/ \E c \in Cats :
       \/ \E x \in Ids, n \in CatNames, p \in Cats \cup {None} :
            CreateCategory(c, [industry |-> x, name |-> n, parent |-> p, active |-> TRUE, system |-> FALSE])
       \/ category[c] # NoRow /\ \E row \in Changes(c) : UpdateCategory(c, row)
       \/ CheckCategory(c)
  \/ \E x \in Ids : RemoveIndustry(x)
  \/ DeleteCategory \/ DropCategories \/ DropIndustry
  \/ \E r \in Receipts :
       \/ \E x \in Rows("industries") \cup {None}, failed \in BOOLEAN : Ask(r, x, failed)
       \/ \E raw \in Answers : Answer(r, raw)
       \/ \E failed \in BOOLEAN : LookUp(r, failed)
       \/ Save(r)
       \/ \E x \in Ids, c \in Cats : Refile(r, x, c)

Spec == Init /\ [][Next]_vars

-----------------------------------------------------------------------------
(* A receipt loses its industry only when the industry goes: a removal that   *)
(* fails on what was saved meanwhile leaves every receipt as it was           *)
(* (delete_industry is "remove all as whole", database_service.py:1531).      *)
IndustryKept ==
  [][\A r \in Receipts : receipt[r] # NoRow /\ receipt'[r].industry # receipt[r].industry /\ receipt'[r].industry = None
       => receipt[r].industry \notin {i \in Ids : named'["industries"][i] # NoRow}]_vars

(* The name an extraction files under is one that was offered, or "OTHER"      *)
(* ("never invent or store a new category", services/gemini.py:484-485): an    *)
(* alias may lead to another canonical one.                                   *)
OfferedOrOther == \A r \in Receipts : scan[r].pc = "answered" => scan[r].name \in scan[r].offered \cup {Other}

(* A category is not deleted from above its subcategories: "still has         *)
(* subcategories or receipts" (api/categories.py:53).                         *)
ParentKept ==
  [][\A c \in Cats : category[c] # NoRow /\ category'[c] = NoRow /\ removal'.pc = removal.pc => Children(c) = {}]_vars

===============================================================================
