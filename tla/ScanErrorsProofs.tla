--------------------------- MODULE ScanErrorsProofs ---------------------------
(***************************************************************************)
(* No failed image goes untold, for any number of images, chunks, runs,    *)
(* users' retries, losses and deaths.                                      *)
(***************************************************************************)
EXTENDS ScanErrors, TLAPS

Tags       == {NoChunk} \cup Chunks
Status     == {"new", "prepared", "pending", "processing", "saved", "failed"}
ImageType  == [s : Status, tag : Tags]
RecordType == [kind : {"batch", "chunk", "item"}, of : Tags, items : SUBSET Images]
Working    == {"prepare", "work", "settle", "read", "give up"}
Kinds      == {"none", "upload", "main", "chunk", "item", "reap"}
ProcType   == [kind : Kinds, pc : Working \cup {"log", "over", "dead"},
               todo : SUBSET Images, done : SUBSET Images, due : SUBSET RecordType]

(* The images that a process has still to tell of, should they have failed: all *)
(* that it has in hand, until it has read the session; then those of its        *)
(* records that are due.                                                       *)
OwedBy(x) == IF x.pc \in Working THEN x.done
             ELSE IF x.pc = "log" THEN x.done \cap UNION {r.items : r \in x.due}
             ELSE {}

TypeInv  == image \in [Images -> ImageType] /\ proc \in [Procs -> ProcType]
HeldInv  == \A p \in Procs : proc[p].todo \subseteq proc[p].done
OwedInv  == \A i \in Failed : i \in told \cup excused \/ \E p \in Procs : i \in OwedBy(proc[p])
ErrorInv == TypeInv /\ HeldInv /\ OwedInv

LEMMA Sets == /\ {"prepared", "saved", "failed", "pending"} \subseteq Status
              /\ {"upload", "main", "chunk", "item", "reap"} \subseteq Kinds
  BY DEF Status, Kinds

LEMMA OverType == Over \in ProcType /\ OwedBy(Over) = {} /\ Over.todo \subseteq Over.done
<1>1. Over \in ProcType /\ Over.todo \subseteq Over.done
  BY DEF Over, ProcType, Kinds
<1>2. Over.pc = "over" /\ "over" \notin Working
  BY DEF Over, Working
<1> QED
  BY <1>1, <1>2 DEF OwedBy

LEMMA ErrorInit == Init => ErrorInv
<1> SUFFICES ASSUME Init PROVE ErrorInv
  OBVIOUS
<1>1. PICK p \in Procs : proc = [q \in Procs |->
         IF q = p THEN [Over EXCEPT !.kind = "upload", !.pc = "prepare", !.todo = Images, !.done = Images] ELSE Over]
  BY DEF Init
<1>2. [Over EXCEPT !.kind = "upload", !.pc = "prepare", !.todo = Images, !.done = Images] \in ProcType
  BY DEF Over, ProcType, Working, Kinds
<1>3. TypeInv
  <2>1. image \in [Images -> ImageType]
    BY DEF Init, ImageType, Tags, Status
  <2>2. proc \in [Procs -> ProcType]
    BY <1>1, <1>2, OverType
  <2> QED
    BY <2>1, <2>2 DEF TypeInv
<1>4. HeldInv
  BY <1>1, OverType DEF HeldInv, Over
<1>5. OwedInv
  BY DEF Init, OwedInv, Failed
<1> QED
  BY <1>3, <1>4, <1>5 DEF ErrorInv

(* A step of one process: what fails it owes, and what it owed it has told, or   *)
(* owes still, or is excused.                                                   *)
LEMMA StepKeeps ==
  ASSUME ErrorInv, NEW p \in Procs, NEW x \in ProcType, Steps(p, x),
         x.todo \subseteq x.done, image' \in [Images -> ImageType],
         Failed' \subseteq Failed \cup OwedBy(x),
         told \cup excused \cup OwedBy(proc[p]) \subseteq told' \cup excused' \cup OwedBy(x)
  PROVE  ErrorInv'
<1>1. proc' = [proc EXCEPT ![p] = x] /\ proc'[p] = x /\ \A q \in Procs \ {p} : proc'[q] = proc[q]
  BY DEF Steps, ErrorInv, TypeInv
<1>2. TypeInv'
  BY <1>1 DEF ErrorInv, TypeInv
<1>3. HeldInv'
  BY <1>1 DEF ErrorInv, HeldInv
<1>4. OwedInv'
  <2> SUFFICES ASSUME NEW i \in Failed'
               PROVE  i \in told' \cup excused' \/ \E q \in Procs : i \in OwedBy(proc'[q])
    BY DEF OwedInv, OwedBy
  <2>1. CASE i \in OwedBy(x)
    BY <2>1, <1>1
  <2>2. CASE i \in Failed /\ i \in told \cup excused
    BY <2>2, <1>1
  <2>3. CASE i \in Failed /\ \E q \in Procs : i \in OwedBy(proc[q])
    <3>1. PICK q \in Procs : i \in OwedBy(proc[q])
      BY <2>3
    <3>2. CASE q = p
      BY <3>1, <3>2, <1>1
    <3>3. CASE q # p
      BY <3>1, <3>3, <1>1
    <3> QED
      BY <3>2, <3>3
  <2> QED
    BY <2>1, <2>2, <2>3 DEF ErrorInv, OwedInv
<1> QED
  BY <1>2, <1>3, <1>4 DEF ErrorInv

(* One image changes, in the hands of a process that goes on. *)
LEMMA OneChanges ==
  ASSUME ErrorInv, NEW i \in Images, NEW s \in Status, NEW t \in Tags, Becomes(i, s, t)
  PROVE  image' \in [Images -> ImageType] /\ Failed' \subseteq Failed \cup {i}
  BY DEF ErrorInv, TypeInv, Becomes, ImageType, Failed

LEMMA TagType ==
  ASSUME ErrorInv, NEW p \in Procs, NEW i \in Images
  PROVE  TagOf(p, i) \in Tags /\ image[i].tag \in Tags
  BY DEF ErrorInv, TypeInv, TagOf, Tags, Chunks, ImageType

-----------------------------------------------------------------------------
LEMMA PrepareKeeps ==
  ASSUME ErrorInv, NEW p \in Procs, Prepare(p) PROVE ErrorInv'
<1>1. PICK i \in Images, s \in {"prepared", "failed"} :
        /\ First(i, proc[p].todo) /\ Becomes(i, s, NoChunk) /\ told' = told \ {i}
        /\ Steps(p, [proc[p] EXCEPT !.todo = @ \ {i}, !.pc = IF proc[p].todo = {i} THEN "read" ELSE @])
  BY DEF Prepare
<1> DEFINE x == [proc[p] EXCEPT !.todo = @ \ {i}, !.pc = IF proc[p].todo = {i} THEN "read" ELSE @]
<1>2. proc[p] \in ProcType /\ proc[p].pc = "prepare" /\ i \in proc[p].done /\ proc[p].todo \subseteq proc[p].done
  BY <1>1 DEF ErrorInv, TypeInv, HeldInv, First, Prepare
<1>3. x \in ProcType /\ x.pc \in Working /\ x.done = proc[p].done /\ x.todo \subseteq x.done
  BY <1>2 DEF ProcType, Working
<1>4. OwedBy(x) = proc[p].done /\ OwedBy(proc[p]) = proc[p].done
  BY <1>2, <1>3 DEF OwedBy, Working
<1>5. image' \in [Images -> ImageType] /\ Failed' \subseteq Failed \cup {i}
  <2> NoChunk \in Tags
    BY DEF Tags
  <2> QED
    BY <1>1, Sets, OneChanges
<1>6. excused' = excused
  BY DEF Prepare
<1> HIDE DEF x
<1> QED
  BY <1>1, <1>2, <1>3, <1>4, <1>5, <1>6, StepKeeps DEF x

LEMMA WorkKeeps ==
  ASSUME ErrorInv, NEW p \in Procs, Work(p) PROVE ErrorInv'
<1>1. PICK i \in proc[p].todo, s \in {"saved", "failed"} :
        /\ Becomes(i, s, TagOf(p, i)) /\ told' = told \ {i}
        /\ Steps(p, [proc[p] EXCEPT !.todo = @ \ {i}, !.pc = IF proc[p].todo = {i} THEN "settle" ELSE @])
  BY DEF Work
<1> DEFINE x == [proc[p] EXCEPT !.todo = @ \ {i}, !.pc = IF proc[p].todo = {i} THEN "settle" ELSE @]
<1>2. /\ proc[p] \in ProcType /\ proc[p].pc = "work" /\ i \in proc[p].done /\ i \in Images
      /\ proc[p].todo \subseteq proc[p].done
  BY <1>1 DEF ErrorInv, TypeInv, HeldInv, Work, ProcType
<1>3. x \in ProcType /\ x.pc \in Working /\ x.done = proc[p].done /\ x.todo \subseteq x.done
  BY <1>2 DEF ProcType, Working
<1>4. OwedBy(x) = proc[p].done /\ OwedBy(proc[p]) = proc[p].done
  BY <1>2, <1>3 DEF OwedBy, Working
<1>5. image' \in [Images -> ImageType] /\ Failed' \subseteq Failed \cup {i}
  BY <1>1, <1>2, TagType, Sets, OneChanges
<1>6. excused' = excused
  BY DEF Work
<1> HIDE DEF x
<1> QED
  BY <1>1, <1>2, <1>3, <1>4, <1>5, <1>6, StepKeeps DEF x

LEMMA GiveUpKeeps ==
  ASSUME ErrorInv, NEW p \in Procs, GiveUp(p) PROVE ErrorInv'
<1>1. PICK i \in Images :
        /\ First(i, proc[p].todo) /\ Becomes(i, "failed", image[i].tag) /\ told' = told \ {i}
        /\ Steps(p, [proc[p] EXCEPT !.todo = @ \ {i}, !.pc = IF proc[p].todo = {i} THEN "log" ELSE @,
                                    !.due = {BatchRecord}])
  BY DEF GiveUp
<1> DEFINE x == [proc[p] EXCEPT !.todo = @ \ {i}, !.pc = IF proc[p].todo = {i} THEN "log" ELSE @, !.due = {BatchRecord}]
<1>2. /\ proc[p] \in ProcType /\ proc[p].pc = "give up" /\ i \in proc[p].done
      /\ proc[p].todo \subseteq proc[p].done /\ proc[p].done \subseteq Images
  BY <1>1 DEF ErrorInv, TypeInv, HeldInv, First, GiveUp, ProcType
<1>3. BatchRecord \in RecordType /\ BatchRecord.items = Images
  BY DEF BatchRecord, RecordType, Tags
<1>4. /\ x \in ProcType /\ x.pc \in {"give up", "log"} /\ x.done = proc[p].done /\ x.todo \subseteq x.done
      /\ x.due = {BatchRecord}
  BY <1>2, <1>3 DEF ProcType, Working
<1> HIDE DEF x
<1>5. OwedBy(x) = proc[p].done /\ OwedBy(proc[p]) = proc[p].done
  <2>1. UNION {r.items : r \in x.due} = Images
    BY <1>3, <1>4
  <2> QED
    BY <1>2, <1>4, <2>1 DEF OwedBy, Working
<1>6. image' \in [Images -> ImageType] /\ Failed' \subseteq Failed \cup {i}
  BY <1>1, TagType, Sets, OneChanges
<1>7. excused' = excused
  BY DEF GiveUp
<1> QED
  BY <1>1, <1>2, <1>4, <1>5, <1>6, <1>7, StepKeeps DEF x

-----------------------------------------------------------------------------
(* A process that begins has images in hand that have not failed, or that it    *)
(* gives up.                                                                   *)
LEMMA Beginner ==
  ASSUME NEW k \in Kinds, NEW pc \in Working, NEW S \in SUBSET Images
  PROVE  LET x == [Over EXCEPT !.kind = k, !.pc = pc, !.todo = S, !.done = S]
         IN x \in ProcType /\ x.todo \subseteq x.done /\ OwedBy(x) = S
<1> DEFINE x == [Over EXCEPT !.kind = k, !.pc = pc, !.todo = S, !.done = S]
<1>1. x \in ProcType /\ x.todo = S /\ x.done = S /\ x.pc = pc
  BY DEF Over, ProcType
<1> HIDE DEF x
<1>2. x.todo \subseteq x.done /\ OwedBy(x) = S
  BY <1>1 DEF OwedBy
<1> QED
  BY <1>1, <1>2 DEF x

LEMMA DispatchKeeps ==
  ASSUME ErrorInv, NEW p \in Procs, Dispatch(p) PROVE ErrorInv'
<1> DEFINE todo == {i \in Images : image[i].s = "prepared"}
           x == [Over EXCEPT !.kind = "main", !.pc = "work", !.todo = todo, !.done = todo]
<1>1. proc[p] = Over /\ Steps(p, x) /\ told' = told /\ excused' = excused
  BY DEF Dispatch, Starts, log
<1>2. x \in ProcType /\ x.todo \subseteq x.done
  BY Sets, Beginner DEF Working
<1>3. image' \in [Images -> ImageType] /\ Failed' \subseteq Failed
  <2>1. image' = [i \in Images |-> IF i \in todo THEN [s |-> "pending", tag |-> i \div ChunkSize] ELSE image[i]]
    BY DEF Dispatch
  <2>2. \A i \in Images : i \div ChunkSize \in Tags
    BY DEF Tags, Chunks
  <2> QED
    BY <2>1, <2>2, Sets DEF ErrorInv, TypeInv, ImageType, Failed
<1> QED
  BY <1>1, <1>2, <1>3, OverType, StepKeeps

LEMMA RetryChunkKeeps ==
  ASSUME ErrorInv, NEW p \in Procs, RetryChunk(p) PROVE ErrorInv'
<1>1. PICK c \in Chunks :
        LET todo == {i \in Images : i \div ChunkSize = c /\ image[i].s # "saved"} IN
        /\ Starts(p, "chunk", todo)
        /\ image' = [i \in Images |-> IF i \in todo THEN [image[i] EXCEPT !.s = "pending"] ELSE image[i]]
  BY DEF RetryChunk
<1> DEFINE todo == {i \in Images : i \div ChunkSize = c /\ image[i].s # "saved"}
           x == [Over EXCEPT !.kind = "chunk", !.pc = "work", !.todo = todo, !.done = todo]
<1>2. proc[p] = Over /\ Steps(p, x) /\ told' = told /\ excused' = excused
  BY <1>1 DEF RetryChunk, Starts, log
<1>3. x \in ProcType /\ x.todo \subseteq x.done
  BY Sets, Beginner DEF Working
<1>4. image' \in [Images -> ImageType] /\ Failed' \subseteq Failed
  BY <1>1, Sets DEF ErrorInv, TypeInv, ImageType, Failed
<1> QED
  BY <1>2, <1>3, <1>4, OverType, StepKeeps

LEMMA RetryItemKeeps ==
  ASSUME ErrorInv, NEW p \in Procs, RetryItem(p) PROVE ErrorInv'
<1>1. PICK i \in Failed : Starts(p, "item", {i}) /\ Becomes(i, "pending", image[i].tag)
  BY DEF RetryItem
<1> DEFINE x == [Over EXCEPT !.kind = "item", !.pc = "work", !.todo = {i}, !.done = {i}]
<1>2. proc[p] = Over /\ Steps(p, x) /\ told' = told /\ excused' = excused /\ i \in Images
  BY <1>1 DEF RetryItem, Starts, log, Failed
<1>3. x \in ProcType /\ x.todo \subseteq x.done /\ OwedBy(x) = {i}
  <2>1. x \in ProcType /\ x.pc = "work" /\ x.todo = {i} /\ x.done = {i}
    BY <1>2 DEF Over, ProcType, Working, Kinds
  <2> HIDE DEF x
  <2> QED
    BY <2>1 DEF OwedBy, Working
<1>4. image' \in [Images -> ImageType] /\ Failed' \subseteq Failed \cup {i}
  BY <1>1, <1>2, TagType, Sets, OneChanges
<1> QED
  BY <1>2, <1>3, <1>4, OverType, StepKeeps

LEMMA ReapKeeps ==
  ASSUME ErrorInv, NEW p \in Procs, Reap(p) PROVE ErrorInv'
<1> DEFINE stuck == {i \in Images : image[i].s \in InFlight}
           x == [Over EXCEPT !.kind = "reap", !.pc = "give up", !.todo = stuck, !.done = stuck]
<1>1. proc[p] = Over /\ Steps(p, x) /\ told' = told /\ excused' = excused /\ image' = image
  BY DEF Reap, log, session
<1>2. x \in ProcType /\ x.todo \subseteq x.done
  BY Sets, Beginner DEF Working
<1>3. image' \in [Images -> ImageType] /\ Failed' = Failed
  BY <1>1 DEF ErrorInv, TypeInv, Failed
<1> QED
  BY <1>1, <1>2, <1>3, OverType, StepKeeps

-----------------------------------------------------------------------------
(* A step that leaves the images alone. *)
LEMMA QuietKeeps ==
  ASSUME ErrorInv, NEW p \in Procs, NEW x \in ProcType, Steps(p, x), x.todo \subseteq x.done, image' = image,
         \A i \in Failed : i \in told \cup excused \cup OwedBy(proc[p]) => i \in told' \cup excused' \cup OwedBy(x)
  PROVE  ErrorInv'
<1>1. proc' = [proc EXCEPT ![p] = x] /\ proc'[p] = x /\ \A q \in Procs \ {p} : proc'[q] = proc[q]
  BY DEF Steps, ErrorInv, TypeInv
<1>2. TypeInv'
  BY <1>1 DEF ErrorInv, TypeInv
<1>3. HeldInv'
  BY <1>1 DEF ErrorInv, HeldInv
<1>4. OwedInv'
  <2> SUFFICES ASSUME NEW i \in Failed
               PROVE  i \in told' \cup excused' \/ \E q \in Procs : i \in OwedBy(proc'[q])
    BY DEF OwedInv, OwedBy, Failed
  <2>1. i \in told \cup excused \/ \E q \in Procs : i \in OwedBy(proc[q])
    BY DEF ErrorInv, OwedInv
  <2>2. CASE i \in told \cup excused \cup OwedBy(proc[p])
    BY <2>2, <1>1
  <2>3. CASE \E q \in Procs \ {p} : i \in OwedBy(proc[q])
    BY <2>3, <1>1
  <2> QED
    BY <2>1, <2>2, <2>3
<1> QED
  BY <1>2, <1>3, <1>4 DEF ErrorInv

LEMMA SettleKeeps ==
  ASSUME ErrorInv, NEW p \in Procs, Settle(p) PROVE ErrorInv'
<1> DEFINE x == [proc[p] EXCEPT !.pc = "read"]
<1>1. /\ proc[p] \in ProcType /\ proc[p].pc = "settle" /\ proc[p].todo \subseteq proc[p].done
      /\ Steps(p, x) /\ told' = told /\ excused' = excused /\ image' = image
  BY DEF Settle, log, ErrorInv, TypeInv, HeldInv
<1>2. x \in ProcType /\ x.pc = "read" /\ x.done = proc[p].done /\ x.todo = proc[p].todo
  BY <1>1 DEF ProcType, Working
<1> HIDE DEF x
<1>3. OwedBy(x) = OwedBy(proc[p])
  BY <1>1, <1>2 DEF OwedBy, Working
<1> QED
  BY <1>1, <1>2, <1>3, QuietKeeps

(* What is read to be failed is in one of the records: a failed chunk's, or the  *)
(* one for the rest.                                                           *)
LEMMA BatchCovers ==
  ASSUME TypeInv
  PROVE  /\ BatchFailures \subseteq RecordType /\ Failed \subseteq UNION {r.items : r \in BatchFailures}
         /\ UploadFailures \subseteq RecordType /\ Failed \subseteq UNION {r.items : r \in UploadFailures}
<1>1. \A S \in SUBSET Images : /\ ItemRecord(S) \subseteq RecordType
                               /\ \A i \in S : \E r \in ItemRecord(S) : i \in r.items
  <2> SUFFICES ASSUME NEW S \in SUBSET Images
               PROVE  /\ ItemRecord(S) \subseteq RecordType
                      /\ \A i \in S : \E r \in ItemRecord(S) : i \in r.items
    OBVIOUS
  <2> DEFINE r == [kind |-> "item", of |-> NoChunk, items |-> S]
  <2>1. r \in RecordType /\ r.items = S
    BY DEF RecordType, Tags
  <2>2. ItemRecord(S) = IF S = {} THEN {} ELSE {r}
    BY DEF ItemRecord
  <2> HIDE DEF r
  <2> QED
    BY <2>1, <2>2
<1>2. \A c \in Chunks : ChunkRecord(c) \in RecordType /\ ChunkRecord(c).items \subseteq Failed
  BY DEF ChunkRecord, RecordType, Tags, Failed
<1>3. Failed \in SUBSET Images /\ Uncovered \in SUBSET Images
  BY DEF Failed, Uncovered
<1>4. BatchFailures \subseteq RecordType /\ UploadFailures \subseteq RecordType
  BY <1>1, <1>2, <1>3 DEF BatchFailures, UploadFailures, FailedChunks
<1>5. Failed \subseteq UNION {r.items : r \in UploadFailures}
  BY <1>1, <1>3 DEF UploadFailures
<1>6. ASSUME NEW i \in Failed PROVE \E r \in BatchFailures : i \in r.items
  <2>1. CASE i \in Covered
    BY <2>1 DEF Covered, BatchFailures
  <2>2. CASE i \in Uncovered
    BY <2>2, <1>1, <1>3 DEF BatchFailures
  <2> QED
    BY <2>1, <2>2 DEF Uncovered
<1> QED
  BY <1>4, <1>5, <1>6

(* A process that logs owes what is in its records and its own. *)
LEMMA LogsNextKeeps ==
  ASSUME ErrorInv, NEW p \in Procs, NEW due \in SUBSET RecordType, LogsNext(p, due), image' = image,
         \A i \in Failed : i \in told \cup excused \cup OwedBy(proc[p]) =>
            i \in told' \cup excused' \/ (i \in proc[p].done /\ \E r \in due : i \in r.items)
  PROVE  ErrorInv'
<1> DEFINE x == IF due = {} THEN Over ELSE [proc[p] EXCEPT !.pc = "log", !.due = due]
<1>1. proc[p] \in ProcType /\ proc[p].todo \subseteq proc[p].done /\ Steps(p, x)
  BY DEF ErrorInv, TypeInv, HeldInv, LogsNext
<1>2. CASE due = {}
  BY <1>1, <1>2, OverType, QuietKeeps
<1>3. CASE due # {}
  <2>1. /\ x \in ProcType /\ x.pc = "log" /\ x.due = due /\ x.done = proc[p].done /\ x.todo = proc[p].todo
    BY <1>1, <1>3 DEF ProcType
  <2> HIDE DEF x
  <2>2. OwedBy(x) = proc[p].done \cap UNION {r.items : r \in due}
    BY <2>1 DEF OwedBy, Working
  <2> QED
    BY <1>1, <2>1, <2>2, QuietKeeps
<1> QED
  BY <1>2, <1>3

LEMMA ReadBatchKeeps ==
  ASSUME ErrorInv, NEW p \in Procs, ReadBatch(p) PROVE ErrorInv'
<1> DEFINE due == IF proc[p].kind = "upload" THEN UploadFailures ELSE BatchFailures
<1>1. LogsNext(p, due) /\ image' = image /\ told' = told /\ excused' = excused /\ proc[p].pc = "read"
  BY DEF ReadBatch, session, log
<1>2. due \subseteq RecordType /\ \A i \in Failed : \E r \in due : i \in r.items
  BY BatchCovers DEF ErrorInv
<1>3. OwedBy(proc[p]) = proc[p].done
  BY <1>1 DEF OwedBy, Working
<1> HIDE DEF due
<1> QED
  BY <1>1, <1>2, <1>3, LogsNextKeeps

LEMMA ReadFailsKeeps ==
  ASSUME ErrorInv, NEW p \in Procs, ReadFails(p) PROVE ErrorInv'
<1>1. /\ Steps(p, Over) /\ image' = image /\ told' = told /\ excused' = excused \cup proc[p].done
      /\ proc[p].pc = "read"
  BY DEF ReadFails, session
<1>2. OwedBy(proc[p]) = proc[p].done
  BY <1>1 DEF OwedBy, Working
<1> QED
  BY <1>1, <1>2, OverType, QuietKeeps

LEMMA RaisesKeeps ==
  ASSUME ErrorInv, NEW p \in Procs, Raises(p) PROVE ErrorInv'
<1> DEFINE x == [proc[p] EXCEPT !.pc = "log", !.todo = {}, !.due = {BatchRecord}]
<1>1. /\ Steps(p, x) /\ image' = image /\ told' = told /\ excused' = excused /\ proc[p].pc \in Working
      /\ proc[p] \in ProcType
  BY DEF Raises, session, log, ErrorInv, TypeInv, Working
<1>2. BatchRecord \in RecordType /\ BatchRecord.items = Images
  BY DEF BatchRecord, RecordType, Tags
<1>3. /\ x \in ProcType /\ x.pc = "log" /\ x.todo = {} /\ x.done = proc[p].done /\ x.due = {BatchRecord}
      /\ proc[p].done \subseteq Images
  BY <1>1, <1>2 DEF ProcType
<1> HIDE DEF x
<1>4. OwedBy(x) = proc[p].done /\ OwedBy(proc[p]) = proc[p].done
  <2>1. UNION {r.items : r \in x.due} = Images
    BY <1>2, <1>3
  <2> QED
    BY <1>1, <1>3, <2>1 DEF OwedBy, Working
<1> QED
  BY <1>1, <1>3, <1>4, QuietKeeps

LEMMA DiesKeeps ==
  ASSUME ErrorInv, NEW p \in Procs, Dies(p) PROVE ErrorInv'
<1> DEFINE x == [Over EXCEPT !.pc = "dead"]
<1>1. Steps(p, x) /\ image' = image /\ told' = told /\ excused' = excused \cup proc[p].done
  BY DEF Dies, session
<1>2. x \in ProcType /\ x.todo \subseteq x.done
  BY DEF Over, ProcType, Kinds
<1>3. OwedBy(proc[p]) \subseteq proc[p].done
  BY DEF OwedBy
<1> HIDE DEF x
<1> QED
  BY <1>1, <1>2, <1>3, QuietKeeps

LEMMA LogKeeps ==
  ASSUME ErrorInv, NEW p \in Procs, LogError(p) \/ LogFails(p) PROVE ErrorInv'
<1>1. proc[p].pc = "log" /\ image' = image /\ proc[p] \in ProcType
  BY DEF LogError, LogFails, session, ErrorInv, TypeInv
<1>2. PICK r \in proc[p].due : /\ LogsNext(p, proc[p].due \ {r})
                               /\ \/ told' = told \cup r.items /\ excused' = excused
                                  \/ told' = told /\ excused' = excused \cup (r.items \cap proc[p].done)
  BY DEF LogError, LogFails, Logged
<1>3. OwedBy(proc[p]) = proc[p].done \cap UNION {s.items : s \in proc[p].due}
  BY <1>1 DEF OwedBy, Working
<1>4. proc[p].due \ {r} \in SUBSET RecordType
  BY <1>1 DEF ProcType
<1>5. ASSUME NEW i \in Failed, i \in told \cup excused \cup OwedBy(proc[p])
      PROVE  i \in told' \cup excused' \/ (i \in proc[p].done /\ \E s \in proc[p].due \ {r} : i \in s.items)
  BY <1>2, <1>3, <1>5
<1> QED
  BY <1>1, <1>2, <1>4, <1>5, LogsNextKeeps

-----------------------------------------------------------------------------
LEMMA StutterKeeps ==
  ASSUME ErrorInv, UNCHANGED <<image, proc, told, excused>> PROVE ErrorInv'
  BY DEF ErrorInv, TypeInv, HeldInv, OwedInv, Failed

LEMMA UserKeeps ==
  ASSUME ErrorInv, mark_read \/ delete_error \/ clear_all \/ CountUnread \/ MarkUnread PROVE ErrorInv'
<1>1. UNCHANGED <<image, proc, told, excused>>
  BY DEF mark_read, delete_error, clear_all, CountUnread, MarkUnread, ByUser, session
<1> QED
  BY <1>1, StutterKeeps

LEMMA ErrorNext == ErrorInv /\ [Next]_vars => ErrorInv'
<1> SUFFICES ASSUME ErrorInv, [Next]_vars PROVE ErrorInv'
  OBVIOUS
<1>1. CASE UNCHANGED vars
  BY <1>1, StutterKeeps DEF vars, session, log
<1>2. CASE mark_read \/ delete_error \/ clear_all \/ CountUnread \/ MarkUnread
  BY <1>2, UserKeeps
<1>3. ASSUME NEW p \in Procs,
             \/ Prepare(p) \/ Dispatch(p) \/ RetryChunk(p) \/ RetryItem(p) \/ Work(p) \/ Settle(p) \/ Reap(p)
             \/ GiveUp(p) \/ ReadBatch(p) \/ ReadFails(p) \/ Raises(p) \/ Dies(p) \/ LogError(p) \/ LogFails(p)
      PROVE  ErrorInv'
  BY <1>3, PrepareKeeps, DispatchKeeps, RetryChunkKeeps, RetryItemKeeps, WorkKeeps, SettleKeeps, ReapKeeps,
     GiveUpKeeps, ReadBatchKeeps, ReadFailsKeeps, RaisesKeeps, DiesKeeps, LogKeeps
<1> QED
  BY <1>1, <1>2, <1>3 DEF Next

LEMMA ErrorTold == ErrorInv => NothingSilent
<1> SUFFICES ASSUME ErrorInv, \A p \in Procs : proc[p].pc \in {"over", "dead"}, NEW i \in Failed
             PROVE  i \in told \cup excused
  BY DEF NothingSilent
<1>1. \A p \in Procs : OwedBy(proc[p]) = {}
  BY DEF OwedBy, Working
<1> QED
  BY <1>1 DEF ErrorInv, OwedInv

(* "so nothing fails silently" (worker.py:778), however many runs of a session   *)
(* fail, retry, read and log at the same time: what one process leaves out is    *)
(* what another still owes.                                                    *)
THEOREM NoSilentFailure == Spec => []NothingSilent
<1> QED
  BY ErrorInit, ErrorNext, ErrorTold, PTL DEF Spec

===============================================================================
