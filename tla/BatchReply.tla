------------------------------ MODULE BatchReply ------------------------------
(***************************************************************************)
(* What extract_receipt_batch makes of the provider's answer for a chunk   *)
(* of images (services/gemini.py): the text is cleaned, cut after its first *)
(* JSON value, decoded, unwrapped, counted and put in the order of the     *)
(* images.  The worker saves result i for image i, so an answer is either   *)
(* understood image by image or refused, and then each image is sent alone. *)
(***************************************************************************)
EXTENDS Integers, Sequences, FiniteSets

CONSTANTS MaxFiles,     \* images of a chunk
          Values,       \* JSON texts, as sequences of the tokens below
          Trailers      \* what a provider may write after its answer

(* "{" "}" "[" "]", a quote, a backslash, and anything else. *)
Tokens == {"{", "}", "[", "]", "q", "e", "x"}

VARIABLES files,     \* images sent
          answer,    \* the provider's answer
          outcome    \* is: "waiting", "malformed" or "results"; of: a result for each image
vars == <<files, answer, outcome>>

-----------------------------------------------------------------------------
Waiting == [is |-> "waiting", of |-> <<>>]
Malformed == [is |-> "malformed", of |-> <<>>]
Results(es) == [is |-> "results", of |-> es]

(* The text.                                                                 *)
Openers == [t \in {"{", "["} |-> IF t = "{" THEN "}" ELSE "]"]

(* One character of _truncate_extra_data: only the brackets of the first kind *)
(* count, and none inside a string.                                          *)
Outside == [depth |-> 0, string |-> FALSE, escaped |-> FALSE]
Scan(s, t, open) ==
  CASE s.string /\ s.escaped              -> [s EXCEPT !.escaped = FALSE]
    [] s.string /\ ~s.escaped             -> [s EXCEPT !.escaped = (t = "e"), !.string = (t # "q")]
    [] ~s.string /\ t = "q"               -> [s EXCEPT !.string = TRUE]
    [] ~s.string /\ t = open              -> [s EXCEPT !.depth = @ + 1]
    [] ~s.string /\ t = Openers[open]     -> [s EXCEPT !.depth = @ - 1]
    [] OTHER -> s

(* What stands before each place of a text that begins with a bracket, and the *)
(* places where its brackets are closed.                                      *)
Scanned(text) ==
  LET at[n \in 0..Len(text)] == IF n = 0 THEN Outside ELSE Scan(at[n - 1], text[n], text[1]) IN at
Ends(text) == LET at == Scanned(text) IN {n \in 1..Len(text) : at[n].depth = 0}
First(S) == CHOOSE i \in S : \A j \in S : i <= j

Truncated(text) ==
  LET brackets == {i \in DOMAIN text : text[i] \in DOMAIN Openers}
      rest     == SubSeq(text, First(brackets), Len(text))
  IN IF brackets = {} \/ Ends(rest) = {} THEN text ELSE SubSeq(rest, 1, First(Ends(rest)))

(* A JSON text is an object or a list, which ends where its first bracket is closed. *)
TextAssumption ==
  /\ Values \subseteq Seq(Tokens) /\ Trailers \subseteq Seq(Tokens) /\ <<>> \in Trailers
  /\ MaxFiles \in Nat /\ Values # {}
  /\ \A v \in Values : v # <<>> /\ v[1] \in DOMAIN Openers /\ Ends(v) = {Len(v)}

(* json.loads: the whole text is one value, begins with one, or is neither. *)
Decodes(text) == text \in Values
ExtraData(text) == \E n \in 1..Len(text) - 1 : SubSeq(text, 1, n) \in Values

(* An unclosed fence is not stripped, and no JSON begins with it. *)
Readable(a) == a.fence # "open" /\ (Decodes(a.text) \/ (ExtraData(a.text) /\ Decodes(Truncated(a.text))))

-----------------------------------------------------------------------------
(* The entries.  One says which image it is read from (index), is read from  *)
(* one (image), and makes a receipt or not (good).                           *)
Unsaid == -1      \* no imageIndex
Word == -2        \* one that is not a number

(* {"receipts": [...]}, a bare list, or a bare object that counts as one. *)
Listed(a) ==
  CASE a.top = "receipts" -> a.entries
    [] a.top = "list"     -> a.entries
    [] a.top = "single"   -> SubSeq(a.entries, 1, 1)
    [] OTHER -> <<>>

Trusted(es, n) ==
  /\ Len(es) = n
  /\ \A i \in DOMAIN es : es[i].object
  /\ \/ \A i \in DOMAIN es : es[i].index = Unsaid
     \/ {es[i].index : i \in DOMAIN es} = 0..n - 1

(* Mutant: what the entries say of their images is checked, not used. *)
AsListed(es) == es

(* The sort by index is stable. *)
Rank(es, i) == 1 + Cardinality({j \in DOMAIN es : es[j].index < es[i].index \/ (es[j].index = es[i].index /\ j < i)})
InOrder(es) ==
  IF \A i \in DOMAIN es : es[i].index = Unsaid THEN es
  ELSE [k \in DOMAIN es |-> es[CHOOSE i \in DOMAIN es : Rank(es, i) = k]]

(* A receipt that cannot be built from its entry is null; the others stay. *)
Result(e) == IF e.good THEN e ELSE [image |-> e.image, index |-> e.index, good |-> FALSE, object |-> TRUE]

ReadBatch ==
  /\ outcome = Waiting
  /\ outcome' = IF Readable(answer) /\ answer.top # "scalar" /\ Trusted(Listed(answer), files)
                THEN Results([i \in 1..files |-> Result(InOrder(Listed(answer))[i])])
                ELSE Malformed
  /\ UNCHANGED <<files, answer>>

(* extract_receipt_data, for one image: nothing is cut, and an object is asked *)
(* for.  The fields are taken from the object as it is, so {"receipts": [...]}, *)
(* which has none of them, makes a blank receipt (UNKNOWN, 0) that is about no  *)
(* image; an entry that makes no receipt fails the call.                      *)
Blank == [image |-> Unsaid, index |-> Unsaid, good |-> TRUE, object |-> TRUE]
ReadObject(a) == CASE a.top = "single"   -> [a.entries[1] EXCEPT !.index = Unsaid]
                   [] a.top = "receipts" -> Blank
                   [] OTHER -> [Blank EXCEPT !.good = FALSE]
ReadSingle ==
  /\ outcome = Waiting /\ files = 1
  /\ outcome' = IF answer.fence # "open" /\ Decodes(answer.text) /\ ReadObject(answer).good
                THEN Results(<<ReadObject(answer)>>) ELSE Malformed
  /\ UNCHANGED <<files, answer>>

-----------------------------------------------------------------------------
(* What a provider may answer. *)
Entry(n) == [image : 0..n - 1, index : {Unsaid, Word} \cup 0..n, good : BOOLEAN, object : BOOLEAN]
Plain(n) == {e \in Entry(n) : /\ ~e.object => e.good /\ e.image = 0 /\ e.index = Unsaid
                              /\ n > 2 => e.object /\ e.good /\ e.index \in {Unsaid} \cup 0..n - 1}
Lists(n) == UNION {[1..k -> Plain(n)] : k \in {1, n - 1, n} \ {0}}

(* Every entry names the image it is read from. *)
Truthful(es) == \A i \in DOMAIN es : es[i].index = es[i].image /\ es[i].object

Trailed == UNION {{v \o t : t \in Trailers} : v \in Values}
Cut     == {SubSeq(v, 1, Len(v) - 1) : v \in Values}
Texts   == Trailed \cup Cut
SomeText == CHOOSE v \in Values : TRUE

Answers(n) ==
  {a \in [top : {"receipts", "list", "single", "scalar"}, fence : {"none"}, text : {SomeText}, entries : Lists(n)] :
     a.top = "single" => a.entries[1].object}
  \cup [top : {"receipts", "single"}, fence : {"none", "closed", "open"}, text : Texts,
        entries : {es \in Lists(n) : Truthful(es) /\ Len(es) = n}]

Init == files \in 1..MaxFiles /\ answer \in Answers(files) /\ outcome = Waiting
Next == ReadBatch \/ ReadSingle
Spec == Init /\ [][Next]_vars

-----------------------------------------------------------------------------
Understood == outcome.is = "results"

(* Result i is about image i: a result is for the image its entry names, and  *)
(* an answer in which every image is named truthfully, in whatever order and   *)
(* whatever follows it, is not refused ("a shuffled array would silently       *)
(* attach receipts to the wrong images", services/gemini.py:1049).             *)
ResultsInPlace ==
  /\ Understood => \A i \in DOMAIN outcome.of : outcome.of[i].index \in {Unsaid, i - 1}
  /\ Understood /\ files > 1 /\ Truthful(answer.entries) => \A i \in DOMAIN outcome.of : outcome.of[i].image = i - 1
  /\ (outcome = Malformed /\ files > 1 /\ Truthful(answer.entries) /\ answer.fence # "open" /\ answer.top = "receipts"
        /\ {answer.entries[i].image : i \in DOMAIN answer.entries} = 0..files - 1 /\ Len(answer.entries) = files)
     => \E v \in Values : answer.text = SubSeq(v, 1, Len(v) - 1)

===============================================================================
