-------------------------------- MODULE Cleaning --------------------------------
(***************************************************************************)
(* Suggestions to clean an account's receipts                              *)
(* (services/data_cleaning_service.py, api/cleaning.py): suppliers whose   *)
(* names are alike, fields a supplier's other receipts have, duplicates,   *)
(* totals that are not the sum of the items.  Several clients (the tabs of *)
(* one account) each work from the list they have read: they apply         *)
(* suggestions of it receipt by receipt, and dismiss others for good.      *)
(***************************************************************************)
EXTENDS Naturals, Sequences, FiniteSets
LOCAL Ext == INSTANCE SequencesExt

CONSTANTS Clients,
          Ids,         \* the receipts, a sequence: the order they are listed in
          Start,       \* [id -> receipt]: name, invoice, amount, sum, pin
          Gone,        \* in place of a deleted receipt
          Alike(_, _), \* names over the similarity threshold, both ways
          Norm(_),     \* a name without its prefixes and suffixes
          NameEdits,   \* names a user writes into a receipt
          Bounds       \* what may happen: lists, picks at once, edits, deletes, dismissals

(* A receipt that is gone is told by its invoice number, which nothing here   *)
(* edits; an account has no more receipts than a list is made from.           *)
CleaningAssumption ==
  /\ Len(Ids) <= 5000
  /\ Ids \in Seq(DOMAIN Start)
  /\ \A x, y \in DOMAIN Ids : Ids[x] = Ids[y] => x = y
  /\ \A i \in DOMAIN Start : \E x \in DOMAIN Ids : Ids[x] = i
  /\ \A b \in Bounds : "picks" \in DOMAIN b /\ b.picks \in Nat
  /\ \A i \in DOMAIN Start : "invoice" \in DOMAIN Start[i] /\ Start[i].invoice # Gone.invoice

VARIABLES receipt,     \* [id -> receipt or Gone]
          dismissed,   \* history: the keys whose dismissal was answered with ok
          settings,    \* the account's AI settings: its own, or overwritten by the defaults
          req,         \* [client -> its request]
          shown,       \* [client -> the suggestions it has on screen]
          given,       \* [client -> those it has applied]
          mine,        \* [id -> name the user has given it since the last list, or none]
          lost,        \* receipts deleted by another request than the client's own, [client -> ids]
          left

vars == <<receipt, dismissed, settings, req, shown, given, mine, lost, left>>

Names  == {Start[i].name : i \in DOMAIN Start} \cup NameEdits
Idle   == [pc |-> "idle", todo |-> <<>>]

-----------------------------------------------------------------------------
There  == SelectSeq(Ids, LAMBDA i : receipt[i] # Gone)
Here   == {i \in DOMAIN receipt : receipt[i] # Gone}
Place(i) == CHOOSE x \in DOMAIN Ids : Ids[x] = i
InOrder(S) == [n \in 1..Cardinality(S) |->
                 CHOOSE i \in S : Cardinality({j \in S : Place(j) < Place(i)}) = n - 1]
Of(name) == {i \in Here : receipt[i].name = name}

(* The names of the list in the order they first appear in. *)
NameList == LET first(n) == Ext!Min({Place(i) : i \in Of(n)})
            IN Ext!SetToSortSeq({receipt[i].name : i \in Here} \ {"UNKNOWN"}, LAMBDA m, n : first(m) < first(n))

(* Names that differ by more than what Norm takes off: those that differ by   *)
(* no more are not put together at all.                                       *)
Close(m, n) == Alike(Norm(m), Norm(n)) /\ Norm(m) # Norm(n)

Most(names) ==
  CHOOSE n \in Ext!Range(names) : \A x \in DOMAIN names :
     \/ Cardinality(Of(names[x])) < Cardinality(Of(n))
     \/ Cardinality(Of(names[x])) = Cardinality(Of(n)) /\ \E y \in 1..x : names[y] = n

Merge(names, canonical) ==
  [kind |-> "merge", to |-> canonical, sum |-> 0, names |-> Ext!Range(names), ids |-> UNION {Of(n) : n \in Ext!Range(names)}]

(* suggest_supplier_merges: each name takes the later ones that are close to  *)
(* it and free; the name with the most receipts stands for them.              *)
suggest_supplier_merges ==
  LET names == NameList
      take(acc, x) ==
        LET more == SelectSeq(SubSeq(names, x + 1, Len(names)), LAMBDA n : n \notin acc.merged /\ Close(names[x], n))
            all  == <<names[x]>> \o more
        IN IF names[x] \in acc.merged \/ more = <<>> THEN acc
           ELSE [merged |-> acc.merged \cup Ext!Range(all), out |-> acc.out \cup {all}]
  IN {Merge(all, Most(all)) : all \in Ext!FoldLeft(take, [merged |-> {}, out |-> {}], [x \in DOMAIN names |-> x]).out}

(* suggest_field_propagation: the first value a supplier's receipts have is    *)
(* for those of them that have none.                                           *)
suggest_field_propagation ==
  LET same(n) == SelectSeq(There, LAMBDA i : Norm(receipt[i].name) = n)
      has(n)  == SelectSeq(same(n), LAMBDA i : receipt[i].pin # "none")
      bare(n) == {i \in Here : Norm(receipt[i].name) = n /\ receipt[i].pin = "none"}
  IN {[kind |-> "fill", to |-> receipt[has(n)[1]].pin, sum |-> 0, names |-> {n}, ids |-> bare(n)] :
        n \in {n \in {Norm(m) : m \in Names} : has(n) # <<>> /\ bare(n) # {}}}

-----------------------------------------------------------------------------
(* Two receipts are taken for one by their invoice number or by their amount. *)
Match(a, b) == \/ a.invoice = b.invoice /\ a.invoice # "none"
               \/ a.amount = b.amount /\ a.amount > 0

Filled(told) == IF told THEN 1 ELSE 0
Completeness(r) == Filled(r.name # "none") + Filled(r.invoice # "none") + Filled(r.pin # "none") + Filled(r.amount # 0)

Fullest(ids) == CHOOSE i \in ids : \A j \in ids :
                  \/ Completeness(receipt[i]) > Completeness(receipt[j])
                  \/ Completeness(receipt[i]) = Completeness(receipt[j]) /\ Place(i) <= Place(j)

Duplicate(ids) == [kind |-> "dup", to |-> Fullest(ids), sum |-> 0, names |-> {}, ids |-> ids]

(* Mutant: every receipt opens a group, those already in one too. *)
DuplicatesOfEach ==
  {Duplicate(g) : g \in {g \in {{j \in Here : j = i \/ (Place(j) > Place(i) /\ Match(receipt[i], receipt[j]))} :
                                   i \in Here} : Cardinality(g) > 1}}

(* suggest_duplicates: in the order of the list, each receipt that is not      *)
(* checked takes the later ones that are not and match it; all of them are     *)
(* checked from then on.  The most complete one is to be kept, whether the     *)
(* others match that one or not.                                               *)
Present == {x \in DOMAIN Ids : receipt[Ids[x]] # Gone}
Taken(checked, x) ==
  IF x \notin Present \ checked THEN {}
  ELSE {y \in Present \ checked : y > x /\ Match(receipt[Ids[x]], receipt[Ids[y]])}
Checked ==
  LET checked[x \in 0..Len(Ids)] ==
        IF x = 0 THEN {}
        ELSE LET taken == Taken(checked[x - 1], x)
             IN checked[x - 1] \cup taken \cup (IF taken = {} THEN {} ELSE {x})
  IN checked

suggest_duplicates ==
  LET checked == Checked
      more(x) == Taken(checked[x - 1], x)
  IN {Duplicate({Ids[y] : y \in more(x) \cup {x}}) : x \in {x \in DOMAIN Ids : more(x) # {}}}

suggest_total_mismatches ==
  {[kind |-> "total", to |-> "none", sum |-> receipt[i].sum, names |-> {}, ids |-> {i}] :
     i \in {i \in Here : receipt[i].sum # 0 /\ receipt[i].sum # receipt[i].amount}}

-----------------------------------------------------------------------------
(* The key a suggestion is dismissed under.  A posted one carries its type;   *)
(* a variant to be kept apart and a receipt are named by their value, a field *)
(* with no supplier, which the request does not have.                         *)
KeyOf(type, s) == CASE type = "dup" -> <<"dup", s.ids>>
                    [] type = "merge" -> <<"merge", s.names>>
                    [] type = "fill" -> <<"fill", {}>>
                    [] type = "total" -> <<"total", s.ids>>

(* What is listed: every suggestion there is.  The dismissed keys are asked   *)
(* for and come back empty, for the settings row that is read has no place    *)
(* for them.                                                                  *)
generate_all_suggestions ==
  suggest_supplier_merges \cup suggest_field_propagation \cup suggest_duplicates \cup suggest_total_mismatches

-----------------------------------------------------------------------------
At(c, r)  == req' = [req EXCEPT ![c] = r]
Run(todo) == IF todo = <<>> THEN Idle ELSE [Idle EXCEPT !.pc = "look", !.todo = todo]

(* A client lists the suggestions. *)
List(c) ==
  /\ req[c].pc = "idle" /\ left.lists > 0
  /\ shown' = [shown EXCEPT ![c] = generate_all_suggestions]
  /\ given' = [given EXCEPT ![c] = {}] /\ lost' = [lost EXCEPT ![c] = {}]
  /\ mine' = [i \in DOMAIN mine |-> "none"]
  /\ left' = [left EXCEPT !.lists = @ - 1]
  /\ UNCHANGED <<receipt, dismissed, settings, req>>

(* The steps a suggestion is applied in: the receipts to delete are all but   *)
(* the one to keep, which is not looked at.                                   *)
Affected(s) == s.ids \ (IF s.kind = "dup" THEN {s.to} ELSE {})
Steps(s) == [n \in 1..Cardinality(Affected(s)) |->
               [kind |-> s.kind, to |-> s.to, sum |-> s.sum, id |-> InOrder(Affected(s))[n]]]

AllSteps(picked) ==
  LET steps[n \in 0..Len(picked)] == IF n = 0 THEN <<>> ELSE steps[n - 1] \o Steps(picked[n])
  IN steps[Len(picked)]

(* It applies some of them, in any order. *)
Apply(c) ==
  /\ req[c].pc = "idle"
  /\ \E n \in 1..left.picks : \E picked \in [1..n -> shown[c]] :
       /\ \A x, y \in 1..n : picked[x] = picked[y] => x = y
       /\ At(c, Run(AllSteps(picked)))
       /\ given' = [given EXCEPT ![c] = {picked[x] : x \in 1..n}]
  /\ shown' = [shown EXCEPT ![c] = {}]
  /\ UNCHANGED <<receipt, dismissed, settings, mine, lost, left>>

(* Each receipt is read and then, where it still needs it, changed: a merge   *)
(* renames whatever the name is now, a field is filled if it is still empty.  *)
Needs(step, r) == CASE r = Gone -> FALSE
                    [] step.kind = "merge" -> r.name # step.to
                    [] step.kind = "fill" -> r.pin = "none"
                    [] OTHER -> TRUE

Look(c) ==
  /\ req[c].pc = "look"
  /\ LET step == Head(req[c].todo)
     IN At(c, IF Needs(step, receipt[step.id]) THEN [req[c] EXCEPT !.pc = "change"] ELSE Run(Tail(req[c].todo)))
  /\ UNCHANGED <<receipt, dismissed, settings, shown, given, mine, lost, left>>

(* An update of a receipt that is gone changes nothing. *)
Changed(step, r) == IF r = Gone THEN r
                    ELSE CASE step.kind = "merge" -> [r EXCEPT !.name = step.to]
                           [] step.kind = "fill" -> [r EXCEPT !.pin = step.to]
                           [] step.kind = "total" -> [r EXCEPT !.amount = step.sum]
                           [] step.kind = "dup" -> Gone

Forget(c, i) == lost' = [x \in Clients |-> IF x = c THEN lost[x] ELSE lost[x] \cup {i}]

Change(c) ==
  /\ req[c].pc = "change"
  /\ LET step == Head(req[c].todo)
     IN /\ receipt' = [receipt EXCEPT ![step.id] = Changed(step, @)]
        /\ IF step.kind = "dup" THEN Forget(c, step.id) ELSE UNCHANGED lost
        /\ At(c, Run(Tail(req[c].todo)))
  /\ UNCHANGED <<dismissed, settings, shown, given, mine, left>>

(* A suggestion, or a name of a merge, is dismissed, and the client told it   *)
(* is.  Whatever the settings are saved under, they are the account's AI      *)
(* settings: the key is lost, and the provider, model and keys of its own are *)
(* overwritten by the defaults.                                               *)
Ignore(c) ==
  /\ req[c].pc = "idle" /\ left.dismissals > 0
  /\ \E s \in shown[c] :
       \E key \in {KeyOf(s.kind, s)} \cup (IF s.kind = "merge" THEN {<<"variant", {n}>> : n \in s.names} ELSE {}) :
         dismissed' = dismissed \cup {key}
  /\ settings' = "defaults"
  /\ left' = [left EXCEPT !.dismissals = @ - 1]
  /\ UNCHANGED <<receipt, req, shown, given, mine, lost>>

(* The user corrects a name, or deletes a receipt, elsewhere. *)
Edit(i) ==
  /\ receipt[i] # Gone /\ left.edits > 0
  /\ \E n \in NameEdits : /\ receipt[i].name # n
                          /\ receipt' = [receipt EXCEPT ![i].name = n]
                          /\ mine' = [mine EXCEPT ![i] = n]
  /\ left' = [left EXCEPT !.edits = @ - 1]
  /\ UNCHANGED <<dismissed, settings, req, shown, given, lost>>

Delete(i) ==
  /\ receipt[i] # Gone /\ left.deletes > 0
  /\ receipt' = [receipt EXCEPT ![i] = Gone]
  /\ lost' = [x \in Clients |-> lost[x] \cup {i}]
  /\ left' = [left EXCEPT !.deletes = @ - 1]
  /\ UNCHANGED <<dismissed, settings, req, shown, given, mine>>

Init == /\ receipt = Start /\ dismissed = {} /\ settings = "own"
        /\ req = [c \in Clients |-> Idle]
        /\ shown = [c \in Clients |-> {}] /\ given = [c \in Clients |-> {}]
        /\ mine = [i \in DOMAIN Start |-> "none"]
        /\ lost = [c \in Clients |-> {}]
        /\ left \in Bounds

Next == \/ \E c \in Clients : List(c) \/ Apply(c) \/ Look(c) \/ Change(c) \/ Ignore(c)
        \/ \E i \in DOMAIN Start : Edit(i) \/ Delete(i)

Spec == Init /\ [][Next]_vars

-----------------------------------------------------------------------------
(* Whatever duplicates a client removes, the receipt to be kept of each of    *)
(* its groups is still there, unless another request has deleted it: no two   *)
(* groups of a list share a receipt.                                          *)
KeptStays == \A c \in Clients : \A s \in given[c] :
               s.kind = "dup" => receipt[s.to] # Gone \/ s.to \in lost[c]

(* Of receipts taken for one, one stays, while users only clean: not when two *)
(* clients work from two lists, or when a list is old.                        *)
CopyStays == \A c \in Clients : \A s \in given[c] :
               s.kind = "dup" => \E i \in s.ids : receipt[i] # Gone

(* Every receipt of a group matches the one to be kept ("high-confidence      *)
(* only, no false positives", data_cleaning_service.py:192): not always.      *)
GroupMatches == \A c \in Clients : \A s \in shown[c] :
                  s.kind = "dup" => \A i \in s.ids \ {s.to} : Match(Start[i], Start[s.to])

(* A dismissed suggestion is not listed again ("a stable ignore key for a     *)
(* suggestion so it can be dismissed", data_cleaning_service.py:329): it is.  *)
DismissedStays == [][\A c \in Clients : shown'[c] # shown[c] => \A s \in shown'[c] : KeyOf(s.kind, s) \notin dismissed]_vars

(* To dismiss a suggestion leaves the account's AI settings as they are: it   *)
(* does not.                                                                  *)
SettingsStay == settings = "own"

(* A name the user has corrected by hand is not renamed from an older list:   *)
(* it is.                                                                     *)
CorrectionStays == \A i \in DOMAIN mine : mine[i] # "none" /\ receipt[i] # Gone => receipt[i].name = mine[i]

===============================================================================
