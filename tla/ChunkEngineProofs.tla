------------------------- MODULE ChunkEngineProofs -------------------------
(***************************************************************************)
(* Why the engine forgets no image, and how many provider calls begin after *)
(* one was answered with an account error, for any images, messages, chunk  *)
(* size, concurrency, retries and faults; and, for a session of one chunk,  *)
(* how many of its runs reach the provider and what its record says.        *)
(***************************************************************************)
EXTENDS ChunkEngine, FiniteSetTheorems, TLAPS

(* A message that waits has no run yet, and writes nothing. *)
Begun == \A r \in Runs : r[1] \in Mains /\ main[r[1]] = "queued" => run[r] = NoRun /\ write[r] = NoWrite

(* What a loop has still to treat are images of its run; a run that fans out, and
   no other, begins several calls that no stop keeps back.                       *)
Sound(r) ==
    LET x == run[r] IN
    /\ x.left \subseteq x.entries
    /\ x.pc \in {"fan", "fancall"} => x.err = "json"
    /\ x.pc \in {"none", "reset", "wait", "skip", "mark", "call", "backoff", "save"} => x.err # "json"
    /\ x.pc \in {"none", "reset", "wait", "skip", "mark"} => x.late = 0
    /\ x.late > 0 => Stopped(r)
    /\ x.err # "json" => x.late <= 1

(* The chunks that have begun a call after the stop, or are about to. *)
Tardy(x) == x.pc = "mark" \/ (x.late > 0 /\ x.err # "json")
TardyOf(t) == {ci \in ChunkIds : Tardy(run[<<t, ci>>])}

(* The semaphore holds, and after the stop one of its places is that of the chunk
   that was refused.                                                             *)
Room ==
    \A t \in Mains : /\ Cardinality(Inside(t)) <= Concurrency
                     /\ cancel[t] => Cardinality(TardyOf(t)) < Concurrency

Inv == TypeOK /\ Begun /\ (\A r \in Runs : Sound(r)) /\ NoneForgotten /\ Room

-----------------------------------------------------------------------------
(* Sets of chunks. *)

LEMMA SizeIsNat == Cardinality(Items) \in Nat /\ Cardinality(Items) >= 1
<1>1. Cardinality(Items) \in Nat /\ Cardinality(Items) # 0
  BY ItemsAssumption, FS_CardinalityType, FS_EmptySet
<1> QED
  BY <1>1

LEMMA ChunkIdsFinite == IsFiniteSet(ChunkIds) /\ ChunkIds \subseteq Nat /\ 0 \in ChunkIds
<1>1. IsFiniteSet(0 .. (Cardinality(Items) - 1))
  BY SizeIsNat, FS_Interval
<1> QED
  BY <1>1, SizeIsNat DEF ChunkIds

LEMMA FewerChunks ==
  ASSUME NEW S \in SUBSET ChunkIds, NEW T \in SUBSET S
  PROVE  /\ IsFiniteSet(S) /\ Cardinality(S) \in Nat /\ Cardinality(T) \in Nat
         /\ Cardinality(T) <= Cardinality(S)
<1>1. IsFiniteSet(S) /\ IsFiniteSet(T)
  BY ChunkIdsFinite, FS_Subset
<1> QED
  BY <1>1, FS_Subset, FS_CardinalityType

LEMMA OneFewer ==
  ASSUME NEW S, IsFiniteSet(S), NEW c \in S
  PROVE  Cardinality(S \ {c}) = Cardinality(S) - 1
  BY FS_RemoveElement

LEMMA OneMore ==
  ASSUME NEW S \in SUBSET ChunkIds, NEW c \in ChunkIds
  PROVE  Cardinality(S \cup {c}) <= Cardinality(S) + 1
<1>1. IsFiniteSet(S) /\ Cardinality(S) \in Nat
  BY FewerChunks
<1>2. CASE c \in S
  <2>1. S \cup {c} = S
    BY <1>2
  <2>2. Cardinality(S \cup {c}) = Cardinality(S)
    BY <2>1
  <2> QED
    BY <1>1, <2>2
<1>3. CASE c \notin S
  <2>1. Cardinality(S \cup {c}) = Cardinality(S) + 1
    BY <1>1, <1>3, FS_AddElement
  <2> QED
    BY <1>1, <2>1
<1> QED
  BY <1>2, <1>3

(* The chunk of an image is one of those that are cut. *)
LEMMA ChunkOfImage ==
  ASSUME NEW E \in SUBSET Items, NEW i \in E
  PROVE  /\ Rank(i, E) \div ChunkSize \in ChunkIds
         /\ i \in Chunk(E, Rank(i, E) \div ChunkSize)
<1> DEFINE B == {j \in E : j < i}
<1>1. IsFiniteSet(E) /\ Cardinality(E) \in Nat /\ Cardinality(E) <= Cardinality(Items)
  BY ItemsAssumption, FS_Subset, FS_CardinalityType
<1>2. i \notin B /\ B \in SUBSET (E \ {i})
  BY ItemsAssumption
<1>3. IsFiniteSet(E \ {i}) /\ Cardinality(E \ {i}) = Cardinality(E) - 1
  BY <1>1, FS_RemoveElement
<1>4. Cardinality(B) \in Nat /\ Cardinality(B) <= Cardinality(E) - 1
  BY <1>2, <1>3, FS_Subset, FS_CardinalityType
<1>5. Rank(i, E) = Cardinality(B)
  BY DEF Rank
<1> HIDE DEF B
<1>6. Cardinality(B) \div ChunkSize \in 0..Cardinality(B)
  BY <1>4, SizeAssumption
<1>7. Cardinality(B) \div ChunkSize \in ChunkIds
  BY <1>1, <1>4, <1>6, SizeIsNat DEF ChunkIds
<1> QED
  BY <1>5, <1>7 DEF Chunk
-----------------------------------------------------------------------------
(* One run moves. *)

LEMMA RunIsPair == ASSUME NEW r \in Runs PROVE r = <<r[1], r[2]>> /\ r[2] \in ChunkIds
<1>1. CASE r \in Mains \X ChunkIds
  BY <1>1
<1>2. CASE r \in Retries \X {0}
  BY <1>2, ChunkIdsFinite
<1> QED
  BY <1>1, <1>2 DEF Runs

LEMMA RunOf ==
  ASSUME TypeOK, NEW r \in Runs
  PROVE  run[r] \in RunType /\ write[r] \in WriteType
  BY DEF TypeOK

LEMMA Moved ==
  ASSUME TypeOK, NEW r \in Runs, NEW y \in RunType, Moves(r, y)
  PROVE  /\ run' \in [Runs -> RunType] /\ run'[r] = y
         /\ \A o \in Runs : o # r => run'[o] = run[o]
  BY DEF Moves, TypeOK

LEMMA Wrote ==
  ASSUME TypeOK, NEW r \in Runs, NEW w \in WriteType, write' = [write EXCEPT ![r] = w]
  PROVE  /\ write' \in [Runs -> WriteType] /\ write'[r] = w
         /\ \A o \in Runs : o # r => write'[o] = write[o]
  BY DEF TypeOK

LEMMA NoChunkType == NoChunk \in ChunkType
  BY DEF NoChunk, ChunkType

LEMMA NoWriteType == NoWrite \in WriteType /\ NoWrite.stage = "none"
  BY NoChunkType DEF NoWrite, WriteType, ChunkStatus

LEMMA ReportType ==
  ASSUME NEW kind, NEW s \in ChunkStatus, NEW e \in Errors \cup {"none"}, NEW n \in {0, 1}
  PROVE  Report(kind, s, e, n) \in WriteType
<1>1. NoWrite \in WriteType
  BY NoWriteType
<1> DEFINE a == [NoWrite EXCEPT !.stage = "read"]
           b == [a EXCEPT !.status = s]
           c == [b EXCEPT !.err = e]
           d == [c EXCEPT !.inc = n]
<1>2. Report(kind, s, e, n) \in {NoWrite, d}
  BY DEF Report
<1> HIDE DEF a, b, c, d
<1>3. a \in WriteType
  BY <1>1 DEF a, WriteType
<1>4. b \in WriteType
  BY <1>3 DEF b, WriteType
<1>5. c \in WriteType
  BY <1>4 DEF c, WriteType
<1>6. d \in WriteType
  BY <1>5 DEF d, WriteType
<1> QED
  BY <1>1, <1>2, <1>6

LEMMA NoRunType == NoRun \in RunType /\ NoRun.pc = "none" /\ NoRun.left = {} /\ NoRun.entries = {}
                     /\ NoRun.late = 0 /\ NoRun.err = "none" /\ NoRun.kind = "none"
  BY ChunkIdsFinite DEF NoRun, RunType, MAX_CHUNK_BACKOFF_ATTEMPTS, Errors

(* Where a run is, and what it has to do. *)
LEMMA RunFields ==
  ASSUME NEW x \in RunType
  PROVE  /\ x.entries \subseteq Items /\ x.left \subseteq Items /\ x.late \in Nat /\ x.calls \in Nat
         /\ x.err \in Errors \cup {"none"} /\ x.ci \in ChunkIds \cup {-1} /\ x.attempt \in 0..2
  BY DEF RunType, MAX_CHUNK_BACKOFF_ATTEMPTS

PCs == {"none", "reset", "wait", "skip", "mark", "call", "backoff", "save", "fan", "fancall", "fail", "over", "died"}

LEMMA ToPc ==
  ASSUME NEW x \in RunType, NEW pc \in PCs, NEW y, y = [x EXCEPT !.pc = pc]
  PROVE  /\ y \in RunType /\ y.pc = pc /\ y.left = x.left /\ y.entries = x.entries
         /\ y.late = x.late /\ y.err = x.err
  BY DEF RunType, PCs

LEMMA ToLeft ==
  ASSUME NEW x \in RunType, NEW i, NEW y, y = [x EXCEPT !.left = x.left \ {i}]
  PROVE  /\ y \in RunType /\ y.pc = x.pc /\ y.left = x.left \ {i} /\ y.entries = x.entries
         /\ y.late = x.late /\ y.err = x.err
  BY DEF RunType

LEMMA ToPcLeft ==
  ASSUME NEW x \in RunType, NEW pc \in PCs, NEW S \in SUBSET Items, NEW y,
         y = [x EXCEPT !.pc = pc, !.left = S]
  PROVE  /\ y \in RunType /\ y.pc = pc /\ y.left = S /\ y.entries = x.entries
         /\ y.late = x.late /\ y.err = x.err
  BY DEF RunType, PCs

LEMMA AnswerType ==
  ASSUME TypeOK, NEW i \in Items, NEW s \in Saved \cup InFlight \cup {"failed"}, NEW e \in Errors \cup {"none"},
         NEW ci \in ChunkIds \cup {-1, Untagged}, Answer(i, s, e, ci)
  PROVE  /\ status' \in [Items -> Saved \cup InFlight \cup {"failed"}]
         /\ code' \in [Items -> Errors \cup {"none"}]
         /\ tag' \in [Items -> ChunkIds \cup {-1, Untagged}]
         /\ status'[i] = s /\ \A j \in Items : j # i => status'[j] = status[j]
  BY DEF TypeOK, Answer

(* What a run owes, where it is. *)
OwedBy(x) ==
    IF x.pc \in {"reset", "wait", "mark", "call", "backoff", "died"} THEN x.entries
    ELSE IF x.pc \in {"skip", "save", "fan", "fancall", "fail"} THEN x.left ELSE {}

LEMMA OwedIs == \A r : Owed(r) = OwedBy(run[r])
  BY DEF Owed, OwedBy

(* What the types, the runs and the images in flight ask of a step of one run. *)
LEMMA OneRun ==
  ASSUME Inv, NEW r \in Runs, NEW y \in RunType, Moves(r, y),
         status' \in [Items -> Saved \cup InFlight \cup {"failed"}],
         code' \in [Items -> Errors \cup {"none"}],
         tag' \in [Items -> ChunkIds \cup {-1, Untagged}],
         receipts' \subseteq Items, stored' \in [ChunkIds -> ChunkType],
         cancel' \in [Mains -> BOOLEAN], \A t \in Mains : cancel[t] => cancel'[t],
         write' \in [Runs -> WriteType], faults' \in Nat, UNCHANGED main,
         \A o \in Runs : o # r => write'[o] = write[o],
         r[1] \in Mains => main[r[1]] # "queued",
         y.left \subseteq y.entries,
         y.pc \in {"fan", "fancall"} => y.err = "json",
         y.pc \in {"none", "reset", "wait", "skip", "mark", "call", "backoff", "save"} => y.err # "json",
         y.pc \in {"none", "reset", "wait", "skip", "mark"} => y.late = 0,
         y.late > 0 => (run[r].late > 0 \/ Stopped(r)'),
         y.err # "json" => y.late <= 1,
         \A i \in Items : status'[i] \in InFlight =>
            i \in OwedBy(y) \/ (status[i] \in InFlight /\ i \notin OwedBy(run[r]))
  PROVE  TypeOK' /\ Begun' /\ (\A o \in Runs : Sound(o)') /\ NoneForgotten'
<1>0. TypeOK /\ Begun /\ (\A o \in Runs : Sound(o)) /\ NoneForgotten
  BY DEF Inv
<1>1. /\ run' \in [Runs -> RunType] /\ run'[r] = y
      /\ \A o \in Runs : o # r => run'[o] = run[o]
  BY <1>0, Moved
<1>2. TypeOK'
  BY <1>0, <1>1 DEF TypeOK
<1>3. Begun'
  BY <1>0, <1>1 DEF Begun
<1>4. Sound(r)'
  <2>1. run[r].late > 0 => Stopped(r)'
    BY <1>0 DEF Sound, Stopped
  <2> QED
    BY <1>1, <2>1 DEF Sound
<1>5. ASSUME NEW o \in Runs, o # r PROVE Sound(o)'
  <2>1. Sound(o) /\ run'[o] = run[o] /\ (Stopped(o) => Stopped(o)')
    BY <1>0, <1>1, <1>5 DEF Stopped
  <2> QED
    BY <2>1 DEF Sound
<1>6. NoneForgotten'
  <2> SUFFICES ASSUME NEW i \in Items, status'[i] \in InFlight
               PROVE  \/ \E t \in Mains : main'[t] = "queued" /\ i \in Group[t]
                      \/ \E o \in Runs : i \in Owed(o)'
    BY DEF NoneForgotten
  <2>1. CASE i \in OwedBy(y)
    <3>1. Owed(r)' = OwedBy(y)
      BY <1>1 DEF Owed, OwedBy
    <3> QED
      BY <2>1, <3>1
  <2>2. CASE status[i] \in InFlight /\ i \notin OwedBy(run[r])
    <3>1. \A o \in Runs : o # r => Owed(o)' = Owed(o)
      BY <1>1 DEF Owed
    <3>2. i \notin Owed(r)
      BY <2>2, OwedIs
    <3> QED
      BY <1>0, <2>2, <3>1, <3>2 DEF NoneForgotten
  <2> QED
    BY <2>1, <2>2
<1> QED
  BY <1>2, <1>3, <1>4, <1>5, <1>6

(* The message of a run that is at work has started. *)
LEMMA AtWork ==
  ASSUME Inv, NEW r \in Runs, r[1] \in Mains, ~Outside(r) \/ run[r].pc # "none"
  PROVE  main[r[1]] # "queued"
  BY NoRunType, NoWriteType DEF Inv, Begun, Outside

(* The semaphore: a step by which no run gets in, and none gets late. *)
LEMMA RoomStays ==
  ASSUME Inv, NEW r \in Runs, NEW y \in RunType, Moves(r, y), UNCHANGED cancel,
         \A o \in Runs : o # r => write'[o] = write[o],
         r[1] \in Mains => (~Outside(r) \/ Outside(r)'),
         r[1] \in Mains => (Tardy(y) => Tardy(run[r]))
  PROVE  Room'
<1>1. /\ run'[r] = y /\ \A o \in Runs : o # r => run'[o] = run[o]
  BY Moved DEF Inv
<1>2. ASSUME NEW t \in Mains PROVE Inside(t)' \subseteq Inside(t) /\ TardyOf(t)' \subseteq TardyOf(t)
  <2> SUFFICES ASSUME NEW ci \in ChunkIds
               PROVE  /\ ~Outside(<<t, ci>>)' => ~Outside(<<t, ci>>)
                      /\ Tardy(run'[<<t, ci>>]) => Tardy(run[<<t, ci>>])
    BY DEF Inside, TardyOf, Tardy
  <2>1. <<t, ci>> \in Runs /\ <<t, ci>>[1] = t
    BY DEF Runs
  <2>2. CASE <<t, ci>> = r
    BY <1>1, <2>1, <2>2
  <2>3. CASE <<t, ci>> # r
    BY <1>1, <2>1, <2>3 DEF Outside
  <2> QED
    BY <2>2, <2>3
<1>3. ASSUME NEW t \in Mains
      PROVE  Cardinality(Inside(t)') <= Cardinality(Inside(t)) /\ Cardinality(TardyOf(t)') <= Cardinality(TardyOf(t))
             /\ Cardinality(Inside(t)') \in Nat /\ Cardinality(Inside(t)) \in Nat
             /\ Cardinality(TardyOf(t)') \in Nat /\ Cardinality(TardyOf(t)) \in Nat
  <2>1. Inside(t) \in SUBSET ChunkIds /\ TardyOf(t) \in SUBSET ChunkIds
    BY DEF Inside, TardyOf
  <2> QED
    BY <1>2, <2>1, FewerChunks
<1> QED
  BY <1>3, SizeAssumption DEF Inv, Room

LEMMA OneRunKeeps ==
  ASSUME Inv, NEW r \in Runs, NEW y \in RunType, Moves(r, y),
         status' \in [Items -> Saved \cup InFlight \cup {"failed"}],
         code' \in [Items -> Errors \cup {"none"}],
         tag' \in [Items -> ChunkIds \cup {-1, Untagged}],
         receipts' \subseteq Items, stored' \in [ChunkIds -> ChunkType],
         UNCHANGED <<main, cancel>>, faults' \in Nat,
         NEW w \in WriteType, write' = [write EXCEPT ![r] = w],
         r[1] \in Mains => ~Outside(r) /\ (Tardy(y) => Tardy(run[r])),
         y.left \subseteq y.entries,
         y.pc \in {"fan", "fancall"} => y.err = "json",
         y.pc \in {"none", "reset", "wait", "skip", "mark", "call", "backoff", "save"} => y.err # "json",
         y.pc \in {"none", "reset", "wait", "skip", "mark"} => y.late = 0,
         y.late > 0 => (run[r].late > 0 \/ Stopped(r)),
         y.err # "json" => y.late <= 1,
         \A i \in Items : status'[i] \in InFlight =>
            i \in OwedBy(y) \/ (status[i] \in InFlight /\ i \notin OwedBy(run[r]))
  PROVE  Inv'
<1>1. /\ write' \in [Runs -> WriteType] /\ \A o \in Runs : o # r => write'[o] = write[o]
  BY Wrote DEF Inv
<1>2. cancel' \in [Mains -> BOOLEAN] /\ (Stopped(r)' <=> Stopped(r))
  BY DEF Inv, TypeOK, Stopped
<1>5. r[1] \in Mains => main[r[1]] # "queued"
  BY AtWork
<1>3. TypeOK' /\ Begun' /\ (\A o \in Runs : Sound(o)') /\ NoneForgotten'
  BY <1>1, <1>2, <1>5, OneRun
<1>4. Room'
  BY <1>1, RoomStays
<1> QED
  BY <1>3, <1>4 DEF Inv

(* A step that answers nothing. *)
LEMMA QuietRunKeeps ==
  ASSUME Inv, NEW r \in Runs, NEW y \in RunType, Moves(r, y),
         UNCHANGED <<items, stored, main, cancel>>, faults' \in Nat,
         NEW w \in WriteType, write' = [write EXCEPT ![r] = w],
         r[1] \in Mains => ~Outside(r) /\ (Tardy(y) => Tardy(run[r])),
         y.left \subseteq y.entries,
         y.pc \in {"fan", "fancall"} => y.err = "json",
         y.pc \in {"none", "reset", "wait", "skip", "mark", "call", "backoff", "save"} => y.err # "json",
         y.pc \in {"none", "reset", "wait", "skip", "mark"} => y.late = 0,
         y.late > 0 => (run[r].late > 0 \/ Stopped(r)),
         y.err # "json" => y.late <= 1,
         OwedBy(run[r]) \subseteq OwedBy(y)
  PROVE  Inv'
<1>1. /\ status' \in [Items -> Saved \cup InFlight \cup {"failed"}]
      /\ code' \in [Items -> Errors \cup {"none"}]
      /\ tag' \in [Items -> ChunkIds \cup {-1, Untagged}]
      /\ receipts' \subseteq Items /\ stored' \in [ChunkIds -> ChunkType] /\ status' = status
  BY DEF Inv, TypeOK, items
<1> QED
  BY <1>1, OneRunKeeps

(* A step that answers one image. *)
LEMMA AnswerKeeps ==
  ASSUME Inv, NEW r \in Runs, NEW y \in RunType, Moves(r, y),
         UNCHANGED <<stored, main, cancel, faults, write>>,
         NEW i \in Items, NEW s \in Saved \cup InFlight \cup {"failed"}, NEW e \in Errors \cup {"none"},
         NEW ci \in ChunkIds \cup {-1, Untagged}, Answer(i, s, e, ci), receipts' \subseteq Items,
         r[1] \in Mains => ~Outside(r) /\ (Tardy(y) => Tardy(run[r])),
         y.left \subseteq y.entries,
         y.pc \in {"fan", "fancall"} => y.err = "json",
         y.pc \in {"none", "reset", "wait", "skip", "mark", "call", "backoff", "save"} => y.err # "json",
         y.pc \in {"none", "reset", "wait", "skip", "mark"} => y.late = 0,
         y.late = run[r].late,
         y.err # "json" => y.late <= 1,
         s \in InFlight => i \in OwedBy(y),
         OwedBy(run[r]) \subseteq OwedBy(y) \cup {i}
  PROVE  Inv'
<1>1. TypeOK
  BY DEF Inv
<1>2. /\ status' \in [Items -> Saved \cup InFlight \cup {"failed"}]
      /\ code' \in [Items -> Errors \cup {"none"}]
      /\ tag' \in [Items -> ChunkIds \cup {-1, Untagged}]
      /\ status'[i] = s /\ \A j \in Items : j # i => status'[j] = status[j]
  BY <1>1, AnswerType
<1>3. stored' \in [ChunkIds -> ChunkType] /\ faults' \in Nat
  BY <1>1 DEF TypeOK
<1>4. PICK w \in WriteType : write' = [write EXCEPT ![r] = w]
  BY <1>1 DEF TypeOK
<1>5. \A j \in Items : status'[j] \in InFlight =>
            j \in OwedBy(y) \/ (status[j] \in InFlight /\ j \notin OwedBy(run[r]))
  BY <1>2
<1> QED
  BY <1>2, <1>3, <1>4, <1>5, OneRunKeeps
-----------------------------------------------------------------------------
(* update_chunk: a run reads the chunks, and writes them back. *)
LEMMA WriteOnly ==
  ASSUME Inv, NEW r \in Runs, UNCHANGED <<items, main, cancel, run, faults>>,
         stored' \in [ChunkIds -> ChunkType], write[r].stage # "none",
         NEW w \in WriteType, write' = [write EXCEPT ![r] = w]
  PROVE  Inv'
<1>1. /\ write' \in [Runs -> WriteType] /\ \A o \in Runs : o # r => write'[o] = write[o]
  BY Wrote DEF Inv
<1>2. UNCHANGED <<status, code, tag, receipts, main, cancel, run, faults>>
  BY DEF items
<1>3. TypeOK'
  BY <1>1, <1>2 DEF Inv, TypeOK
<1>4. (\A o \in Runs : Sound(o)') /\ NoneForgotten'
  BY <1>2 DEF Inv, Sound, Stopped, NoneForgotten, Owed
<1>8. Begun'
  BY <1>1, <1>2, NoWriteType DEF Inv, Begun
<1>5. ASSUME NEW t \in Mains PROVE Inside(t)' \subseteq Inside(t) /\ TardyOf(t)' = TardyOf(t)
  <2>1. TardyOf(t)' = TardyOf(t)
    BY <1>2 DEF TardyOf, Tardy
  <2>2. ASSUME NEW ci \in ChunkIds, ~Outside(<<t, ci>>)' PROVE ~Outside(<<t, ci>>)
    <3>1. <<t, ci>> \in Runs
      BY DEF Runs
    <3> QED
      BY <1>1, <1>2, <2>2, <3>1 DEF Outside
  <2> QED
    BY <2>1, <2>2 DEF Inside
<1>6. ASSUME NEW t \in Mains
      PROVE  /\ Cardinality(Inside(t)') <= Cardinality(Inside(t))
             /\ Cardinality(Inside(t)') \in Nat /\ Cardinality(Inside(t)) \in Nat
  <2>1. Inside(t) \in SUBSET ChunkIds
    BY DEF Inside
  <2> QED
    BY <1>5, <2>1, FewerChunks
<1>7. Room'
  BY <1>2, <1>5, <1>6, SizeAssumption DEF Inv, Room
<1> QED
  BY <1>3, <1>4, <1>7, <1>8 DEF Inv

LEMMA UpdatedType ==
  ASSUME NEW c \in ChunkType, NEW w \in WriteType
  PROVE  Updated(c, w) \in ChunkType
<1> DEFINE e == IF w.status = "done" THEN "none" ELSE IF w.err = "none" THEN c.err ELSE w.err
           a == [c EXCEPT !.status = w.status]
           b == [a EXCEPT !.attempts = c.attempts + w.inc]
           d == [b EXCEPT !.err = e]
<1>1. e \in Errors \cup {"none"} /\ w.status \in ChunkStatus /\ c.attempts + w.inc \in Nat
  BY DEF ChunkType, WriteType
<1>2. Updated(c, w) = d
  BY DEF Updated
<1> HIDE DEF e
<1>3. a \in ChunkType
  BY <1>1 DEF ChunkType
<1> HIDE DEF a
<1>4. b \in ChunkType
  BY <1>1, <1>3 DEF ChunkType
<1> HIDE DEF b
<1>5. d \in ChunkType
  BY <1>1, <1>4 DEF ChunkType
<1> QED
  BY <1>2, <1>5

LEMMA ReadChunksKeeps == ASSUME Inv, NEW r \in Runs, ReadChunks(r) PROVE Inv'
<1> DEFINE a == [write[r] EXCEPT !.stage = "write"]
           b == [a EXCEPT !.snap = stored]
<1>1. write[r] \in WriteType /\ stored \in [ChunkIds -> ChunkType]
  BY RunOf DEF Inv, TypeOK
<1>2. a \in WriteType
  BY <1>1 DEF WriteType
<1>3. PICK w \in {NoWrite, b} : write' = [write EXCEPT ![r] = w]
  BY DEF ReadChunks
<1> HIDE DEF a
<1>4. b \in WriteType
  BY <1>1, <1>2 DEF WriteType
<1>5. w \in WriteType
  BY <1>3, <1>4, NoWriteType
<1>6. /\ UNCHANGED <<items, main, cancel, run, faults>> /\ stored' \in [ChunkIds -> ChunkType]
      /\ write[r].stage # "none"
  BY <1>1 DEF ReadChunks
<1> QED
  BY <1>3, <1>5, <1>6, WriteOnly

LEMMA WriteChunksKeeps == ASSUME Inv, NEW r \in Runs, WriteChunks(r) PROVE Inv'
<1> DEFINE s == write[r].snap
           ci == run[r].ci
<1>1. write[r] \in WriteType /\ s \in [ChunkIds -> ChunkType]
  BY RunOf DEF Inv, WriteType
<1>2. stored' = [s EXCEPT ![ci] = Updated(s[ci], write[r])]
  BY DEF WriteChunks
<1> HIDE DEF s, ci
<1>3. stored' \in [ChunkIds -> ChunkType]
  BY <1>1, <1>2, UpdatedType
<1>4. /\ UNCHANGED <<items, main, cancel, run, faults>> /\ write[r].stage # "none"
      /\ write' = [write EXCEPT ![r] = NoWrite]
  BY DEF WriteChunks
<1> QED
  BY <1>3, <1>4, NoWriteType, WriteOnly

-----------------------------------------------------------------------------
(* The steps of a run. *)

LEMMA ReportsType ==
  ASSUME NEW r, NEW s \in ChunkStatus, NEW e \in Errors \cup {"none"}, NEW n \in {0, 1}, Reports(r, s, e, n)
  PROVE  \E w \in WriteType : write' = [write EXCEPT ![r] = w]
  BY ReportType DEF Reports

LEMMA SameWrite ==
  ASSUME Inv, NEW r \in Runs, UNCHANGED write
  PROVE  \E w \in WriteType : write' = [write EXCEPT ![r] = w]
  BY DEF Inv, TypeOK

LEMMA FirstIsLeft == ASSUME NEW i, NEW S, First(i, S) PROVE i \in S
  BY DEF First

(* An image is treated: it leaves what the loop has still to do. *)
LEMMA Treated ==
  ASSUME Inv, NEW r \in Runs, r[1] \in Mains => ~Outside(r),
         run[r].pc \in {"skip", "mark", "save", "fail", "reset"}, NEW i \in Items, First(i, run[r].left),
         Moves(r, [run[r] EXCEPT !.left = @ \ {i}]),
         UNCHANGED <<stored, main, cancel, faults, write>>,
         NEW s \in Saved \cup InFlight \cup {"failed"}, NEW e \in Errors \cup {"none"},
         NEW ci \in ChunkIds \cup {-1, Untagged}, Answer(i, s, e, ci), receipts' \subseteq Items,
         s \in InFlight => run[r].pc \in {"mark", "reset"}
  PROVE  Inv'
<1>1. run[r] \in RunType /\ Sound(r) /\ i \in run[r].left
  BY RunOf, FirstIsLeft DEF Inv
<1>2. PICK y : y = [run[r] EXCEPT !.left = run[r].left \ {i}] /\ Moves(r, y)
  OBVIOUS
<1>3. /\ y \in RunType /\ y.pc = run[r].pc /\ y.left = run[r].left \ {i} /\ y.entries = run[r].entries
      /\ y.late = run[r].late /\ y.err = run[r].err
  BY <1>1, <1>2, ToLeft
<1>4. OwedBy(run[r]) \subseteq OwedBy(y) \cup {i} /\ (s \in InFlight => i \in OwedBy(y))
  BY <1>1, <1>3 DEF OwedBy, Sound
<1>5. Tardy(y) => Tardy(run[r])
  BY <1>3 DEF Tardy
<1>6. /\ y.left \subseteq y.entries
      /\ y.pc \in {"fan", "fancall"} => y.err = "json"
      /\ y.pc \in {"none", "reset", "wait", "skip", "mark", "call", "backoff", "save"} => y.err # "json"
      /\ y.pc \in {"none", "reset", "wait", "skip", "mark"} => y.late = 0
      /\ y.err # "json" => y.late <= 1
  BY <1>1, <1>3 DEF Sound
<1>7. r[1] \in Mains => ~Outside(r) /\ (Tardy(y) => Tardy(run[r]))
  BY <1>5
<1>8. y \in RunType /\ Moves(r, y) /\ y.late = run[r].late
  BY <1>2, <1>3
<1> QED
  BY <1>4, <1>6, <1>7, <1>8, AnswerKeeps

(* A run goes on to its next loop, or ends, and has the same to answer. *)
LEMMA GoesOn ==
  ASSUME Inv, NEW r \in Runs, ~Outside(r), UNCHANGED <<items, stored, main, cancel>>, faults' \in Nat,
         NEW y \in RunType, Moves(r, y), \E w \in WriteType : write' = [write EXCEPT ![r] = w],
         y.left \subseteq y.entries,
         y.pc \in {"fan", "fancall"} => y.err = "json",
         y.pc \in {"none", "reset", "wait", "skip", "mark", "call", "backoff", "save"} => y.err # "json",
         y.pc \in {"none", "reset", "wait", "skip", "mark"} => y.late = 0,
         y.late > 0 => (run[r].late > 0 \/ Stopped(r)),
         y.err # "json" => y.late <= 1,
         OwedBy(run[r]) \subseteq OwedBy(y),
         Tardy(y) => Tardy(run[r])
  PROVE  Inv'
  BY QuietRunKeeps

LEMMA AnswerCodes ==
  /\ "failed" \in Saved \cup InFlight \cup {"failed"} /\ "failed" \notin InFlight
  /\ "processing" \in Saved \cup InFlight \cup {"failed"} /\ "pending" \in Saved \cup InFlight \cup {"failed"}
  /\ "account" \in Errors \cup {"none"} /\ "none" \in Errors \cup {"none"} /\ "other" \in Errors \cup {"none"}
  BY DEF Saved, InFlight, Errors

LEMMA SkipKeeps == ASSUME Inv, NEW r \in Runs, Skip(r) PROVE Inv'
<1>1. /\ run[r] \in RunType /\ run[r].pc = "skip" /\ Sound(r) /\ ~Outside(r) /\ faults \in Nat
      /\ UNCHANGED <<stored, main, cancel, write, faults>>
  BY RunOf DEF Inv, TypeOK, Skip, At, Outside
<1>2. CASE run[r].left = {}
  <2>1. PICK y : y = [run[r] EXCEPT !.pc = "over"] /\ Moves(r, y)
    BY <1>2 DEF Skip
  <2>2. /\ y \in RunType /\ y.pc = "over" /\ y.left = run[r].left /\ y.entries = run[r].entries
        /\ y.late = run[r].late /\ y.err = run[r].err
    BY <1>1, <2>1, ToPc DEF PCs
  <2>3. OwedBy(run[r]) \subseteq OwedBy(y) /\ ~Tardy(y)
    BY <1>1, <1>2, <2>2 DEF OwedBy, Sound, Tardy
  <2>4. UNCHANGED items
    BY <1>2 DEF Skip
  <2> QED
    BY <1>1, <2>1, <2>2, <2>3, <2>4, SameWrite, GoesOn DEF Sound
<1>3. CASE run[r].left # {}
  <2>1. PICK i \in Items :
          /\ First(i, run[r].left) /\ Answer(i, "failed", "account", run[r].ci)
          /\ Moves(r, [run[r] EXCEPT !.left = @ \ {i}]) /\ UNCHANGED receipts
    BY <1>3 DEF Skip
  <2>2. run[r].ci \in ChunkIds \cup {-1, Untagged} /\ receipts' \subseteq Items
    BY <1>1, <2>1, RunFields DEF Inv, TypeOK
  <2> QED
    BY <1>1, <2>1, <2>2, AnswerCodes, Treated
<1> QED
  BY <1>2, <1>3

(* A provider call, counted. *)
LEMMA MoreCalls ==
  ASSUME NEW x \in RunType, NEW y, y = [x EXCEPT !.calls = x.calls + 1]
  PROVE  /\ y \in RunType /\ y.pc = x.pc /\ y.left = x.left /\ y.entries = x.entries
         /\ y.err = x.err /\ y.late = x.late
  BY DEF RunType

LEMMA LateCall ==
  ASSUME NEW x \in RunType, NEW n \in Nat, NEW y, y = [x EXCEPT !.late = n]
  PROVE  /\ y \in RunType /\ y.pc = x.pc /\ y.left = x.left /\ y.entries = x.entries
         /\ y.err = x.err /\ y.late = n
  BY DEF RunType

LEMMA CallBegins ==
  ASSUME NEW r, NEW x \in RunType, NEW y, y = Called(r, x)
  PROVE  /\ y \in RunType /\ y.pc = x.pc /\ y.left = x.left /\ y.entries = x.entries /\ y.err = x.err
         /\ Stopped(r) => y.late = x.late + 1
         /\ ~Stopped(r) => y.late = x.late
<1>1. PICK n : n = IF Stopped(r) THEN x.late + 1 ELSE x.late
  OBVIOUS
<1>2. n \in Nat
  BY <1>1, RunFields
<1>3. PICK b : b = [x EXCEPT !.calls = x.calls + 1]
  OBVIOUS
<1>4. /\ b \in RunType /\ b.pc = x.pc /\ b.left = x.left /\ b.entries = x.entries
      /\ b.err = x.err /\ b.late = x.late
  BY <1>3, MoreCalls
<1>5. y = [b EXCEPT !.late = n]
  BY <1>1, <1>3 DEF Called
<1>6. /\ y \in RunType /\ y.pc = b.pc /\ y.left = b.left /\ y.entries = b.entries
      /\ y.err = b.err /\ y.late = n
  BY <1>2, <1>4, <1>5, LateCall
<1> QED
  BY <1>1, <1>4, <1>6

LEMMA MarkProcessingKeeps == ASSUME Inv, NEW r \in Runs, MarkProcessing(r) PROVE Inv'
<1>1. /\ run[r] \in RunType /\ run[r].pc = "mark" /\ Sound(r) /\ ~Outside(r) /\ faults \in Nat
      /\ UNCHANGED <<stored, main, cancel, write, faults>>
  BY RunOf DEF Inv, TypeOK, MarkProcessing, At, Outside
<1>2. CASE run[r].left = {}
  <2>0. PICK a : a = [run[r] EXCEPT !.pc = "call"]
    OBVIOUS
  <2>1. PICK y : y = Called(r, a) /\ Moves(r, y)
    BY <1>2, <2>0 DEF MarkProcessing
  <2>9. /\ a \in RunType /\ a.pc = "call" /\ a.left = run[r].left /\ a.entries = run[r].entries
        /\ a.late = run[r].late /\ a.err = run[r].err
    BY <1>1, <2>0, ToPc DEF PCs
  <2>2. /\ y \in RunType /\ y.pc = "call" /\ y.left = run[r].left /\ y.entries = run[r].entries
        /\ y.err = run[r].err
        /\ Stopped(r) => y.late = run[r].late + 1
        /\ ~Stopped(r) => y.late = run[r].late
    BY <2>1, <2>9, CallBegins
  <2>3. OwedBy(run[r]) \subseteq OwedBy(y) /\ Tardy(run[r])
    BY <1>1, <2>2 DEF OwedBy, Tardy
  <2>4. y.late <= 1 /\ (y.late > 0 => Stopped(r))
    BY <1>1, <2>2 DEF Sound
  <2>5. UNCHANGED items
    BY <1>2 DEF MarkProcessing
  <2> QED
    BY <1>1, <2>1, <2>2, <2>3, <2>4, <2>5, SameWrite, GoesOn DEF Sound
<1>3. CASE run[r].left # {}
  <2>1. PICK i \in Items :
          /\ First(i, run[r].left) /\ Answer(i, "processing", "none", run[r].ci)
          /\ Moves(r, [run[r] EXCEPT !.left = @ \ {i}]) /\ UNCHANGED receipts
    BY <1>3 DEF MarkProcessing
  <2>2. run[r].ci \in ChunkIds \cup {-1, Untagged} /\ receipts' \subseteq Items
    BY <1>1, <2>1, RunFields DEF Inv, TypeOK
  <2> QED
    BY <1>1, <2>1, <2>2, AnswerCodes, Treated
<1> QED
  BY <1>2, <1>3

LEMMA MarkFailedKeeps == ASSUME Inv, NEW r \in Runs, MarkFailed(r) PROVE Inv'
<1>1. /\ run[r] \in RunType /\ run[r].pc = "fail" /\ Sound(r) /\ ~Outside(r) /\ faults \in Nat
      /\ UNCHANGED <<stored, main, cancel, faults>> /\ run[r].err \in Errors \cup {"none"}
  BY RunOf, RunFields DEF Inv, TypeOK, MarkFailed, At, Outside
<1>2. CASE run[r].left = {}
  <2>1. PICK y : y = [run[r] EXCEPT !.pc = "over"] /\ Moves(r, y)
    BY <1>2 DEF MarkFailed
  <2>2. /\ y \in RunType /\ y.pc = "over" /\ y.left = run[r].left /\ y.entries = run[r].entries
        /\ y.late = run[r].late /\ y.err = run[r].err
    BY <1>1, <2>1, ToPc DEF PCs
  <2>3. OwedBy(run[r]) \subseteq OwedBy(y) /\ (Tardy(y) => Tardy(run[r]))
    BY <1>1, <1>2, <2>2 DEF OwedBy, Sound, Tardy
  <2>4. UNCHANGED items /\ \E w \in WriteType : write' = [write EXCEPT ![r] = w]
    BY <1>1, <1>2, ReportsType DEF MarkFailed, ChunkStatus
  <2> QED
    BY <1>1, <2>1, <2>2, <2>3, <2>4, GoesOn DEF Sound
<1>3. CASE run[r].left # {}
  <2>1. PICK i \in Items :
          /\ First(i, run[r].left) /\ Answer(i, "failed", run[r].err, run[r].ci)
          /\ Moves(r, [run[r] EXCEPT !.left = @ \ {i}]) /\ UNCHANGED <<receipts, write>>
    BY <1>3 DEF MarkFailed
  <2>2. run[r].ci \in ChunkIds \cup {-1, Untagged} /\ receipts' \subseteq Items
    BY <1>1, <2>1, RunFields DEF Inv, TypeOK
  <2> QED
    BY <1>1, <2>1, <2>2, AnswerCodes, Treated
<1> QED
  BY <1>2, <1>3

(* Saving an image fails or not. *)
LEMMA PersistAnswers ==
  ASSUME Inv, NEW i \in Items, NEW ok, Persist(i, ok)
  PROVE  \E s \in Saved \cup {"failed"}, e \in {"none", "other"} :
           Answer(i, s, e, Untagged) /\ receipts' \subseteq Items
<1>1. receipts \subseteq Items
  BY DEF Inv, TypeOK
<1>2. CASE Answer(i, IF i \in receipts THEN "duplicate" ELSE "needs_review", "none", Untagged)
           /\ receipts' = receipts \cup {i}
  BY <1>1, <1>2 DEF Saved
<1>3. CASE Answer(i, "failed", "other", Untagged) /\ UNCHANGED receipts
  BY <1>1, <1>3
<1> QED
  BY <1>2, <1>3 DEF Persist

LEMMA SaveKeeps == ASSUME Inv, NEW r \in Runs, Save(r) PROVE Inv'
<1>1. /\ run[r].pc = "save" /\ ~Outside(r) /\ UNCHANGED <<stored, main, cancel, write, faults>>
  BY DEF Save, At, Outside
<1>2. PICK i \in Items : /\ First(i, run[r].left) /\ Persist(i, i \in run[r].got)
                         /\ Moves(r, [run[r] EXCEPT !.left = @ \ {i}])
  BY DEF Save
<1>3. PICK s \in Saved \cup {"failed"}, e \in {"none", "other"} :
           Answer(i, s, e, Untagged) /\ receipts' \subseteq Items
  BY <1>2, PersistAnswers
<1>4. /\ s \in Saved \cup InFlight \cup {"failed"} /\ s \notin InFlight /\ e \in Errors \cup {"none"}
      /\ Untagged \in ChunkIds \cup {-1, Untagged}
  BY DEF Saved, InFlight, Errors
<1> QED
  BY <1>1, <1>2, <1>3, <1>4, Treated

(* The record of a run after each of its moves. *)
SavedRun(x, got)   == [x EXCEPT !.pc = "save", !.err = "none", !.got = got, !.left = x.entries]
LaterRun(x, e, n)  == [x EXCEPT !.pc = "backoff", !.err = e, !.attempt = n]
EnteredRun(x, pc)  == [x EXCEPT !.pc = pc, !.left = x.entries]
LoopRun(x, S)      == [x EXCEPT !.pc = "fan", !.left = S]
FanRun(x, S, good) == [x EXCEPT !.pc = "fan", !.left = S, !.good = good]

LEMMA ToSaved ==
  ASSUME NEW x \in RunType, NEW got \in SUBSET Items, NEW y,
         y = SavedRun(x, got)
  PROVE  /\ y \in RunType /\ y.pc = "save" /\ y.left = x.entries /\ y.entries = x.entries
         /\ y.late = x.late /\ y.err = "none"
<1>1. PICK a : a = [x EXCEPT !.pc = "save"]
  OBVIOUS
<1>2. a \in RunType /\ a.pc = "save" /\ a.entries = x.entries /\ a.late = x.late
  BY <1>1, ToPc DEF PCs
<1>3. PICK b : b = [a EXCEPT !.err = "none"]
  OBVIOUS
<1>4. b \in RunType /\ b.pc = "save" /\ b.entries = x.entries /\ b.late = x.late /\ b.err = "none"
  BY <1>2, <1>3 DEF RunType
<1>5. PICK c : c = [b EXCEPT !.got = got]
  OBVIOUS
<1>6. c \in RunType /\ c.pc = "save" /\ c.entries = x.entries /\ c.late = x.late /\ c.err = "none"
  BY <1>4, <1>5 DEF RunType
<1>7. y = [c EXCEPT !.left = x.entries] /\ x.entries \in SUBSET Items
  BY <1>1, <1>3, <1>5, RunFields DEF SavedRun
<1> QED
  BY <1>6, <1>7 DEF RunType

LEMMA ToBackoff ==
  ASSUME NEW x \in RunType, NEW e \in Errors, NEW n \in 0 .. 2, NEW y,
         y = LaterRun(x, e, n)
  PROVE  /\ y \in RunType /\ y.pc = "backoff" /\ y.left = x.left /\ y.entries = x.entries
         /\ y.late = x.late /\ y.err = e
<1>1. PICK a : a = [x EXCEPT !.pc = "backoff"]
  OBVIOUS
<1>2. a \in RunType /\ a.pc = "backoff" /\ a.left = x.left /\ a.entries = x.entries /\ a.late = x.late
  BY <1>1, ToPc DEF PCs
<1>3. PICK b : b = [a EXCEPT !.err = e]
  OBVIOUS
<1>4. b \in RunType /\ b.pc = "backoff" /\ b.left = x.left /\ b.entries = x.entries /\ b.late = x.late /\ b.err = e
  BY <1>2, <1>3 DEF RunType
<1>5. y = [b EXCEPT !.attempt = n]
  BY <1>1, <1>3 DEF LaterRun
<1> QED
  BY <1>4, <1>5 DEF RunType, MAX_CHUNK_BACKOFF_ATTEMPTS

LEMMA ToFailed ==
  ASSUME NEW x \in RunType, NEW e \in Errors, NEW y, y = Failed(x, e)
  PROVE  /\ y \in RunType /\ y.pc \in {"fan", "fail"} /\ (y.pc = "fan" => e = "json")
         /\ y.left = x.entries /\ y.entries = x.entries /\ y.late = x.late /\ y.err = e
<1>1. PICK pc : pc = IF should_fan_out_to_per_image(e) /\ Cardinality(x.entries) > 1 THEN "fan" ELSE "fail"
  OBVIOUS
<1>2. pc \in {"fan", "fail"} /\ (pc = "fan" => e = "json")
  BY <1>1 DEF should_fan_out_to_per_image
<1>3. PICK a : a = [x EXCEPT !.err = e]
  OBVIOUS
<1>4. a \in RunType /\ a.entries = x.entries /\ a.late = x.late /\ a.err = e
  BY <1>3 DEF RunType
<1>5. PICK b : b = [a EXCEPT !.left = x.entries]
  OBVIOUS
<1>6. b \in RunType /\ b.entries = x.entries /\ b.late = x.late /\ b.err = e /\ b.left = x.entries
  BY <1>4, <1>5, RunFields DEF RunType
<1>7. PICK c : c = [b EXCEPT !.good = FALSE]
  OBVIOUS
<1>8. c \in RunType /\ c.entries = x.entries /\ c.late = x.late /\ c.err = e /\ c.left = x.entries
  BY <1>6, <1>7 DEF RunType
<1>9. y = [c EXCEPT !.pc = pc]
  BY <1>1, <1>3, <1>5, <1>7 DEF Failed
<1> QED
  BY <1>2, <1>8, <1>9, ToPc DEF PCs

LEMMA ToEntered ==
  ASSUME NEW x \in RunType, NEW pc \in PCs, NEW y, y = EnteredRun(x, pc)
  PROVE  /\ y \in RunType /\ y.pc = pc /\ y.left = x.entries /\ y.entries = x.entries
         /\ y.late = x.late /\ y.err = x.err
<1>1. x.entries \in SUBSET Items
  BY RunFields
<1> QED
  BY <1>1 DEF EnteredRun, RunType, PCs

LEMMA ToLoop ==
  ASSUME NEW x \in RunType, NEW S \in SUBSET Items, NEW y, y = LoopRun(x, S)
  PROVE  /\ y \in RunType /\ y.pc = "fan" /\ y.left = S /\ y.entries = x.entries
         /\ y.late = x.late /\ y.err = x.err
  BY DEF PCs, LoopRun, RunType

LEMMA ToFan ==
  ASSUME NEW x \in RunType, NEW S \in SUBSET Items, NEW y, NEW good \in BOOLEAN,
         y = FanRun(x, S, good)
  PROVE  /\ y \in RunType /\ y.pc = "fan" /\ y.left = S /\ y.entries = x.entries
         /\ y.late = x.late /\ y.err = x.err
<1>1. PICK a : a = [x EXCEPT !.pc = "fan"]
  OBVIOUS
<1>2. a \in RunType /\ a.pc = "fan" /\ a.entries = x.entries /\ a.late = x.late /\ a.err = x.err
  BY <1>1, ToPc DEF PCs
<1>3. PICK b : b = [a EXCEPT !.left = S]
  OBVIOUS
<1>4. /\ b \in RunType /\ b.pc = "fan" /\ b.entries = x.entries /\ b.late = x.late /\ b.err = x.err
      /\ b.left = S
  BY <1>2, <1>3 DEF RunType
<1>5. y = [b EXCEPT !.good = good]
  BY <1>1, <1>3 DEF FanRun
<1> QED
  BY <1>4, <1>5 DEF RunType

LEMMA ExtractedKeeps == ASSUME Inv, NEW r \in Runs, Extracted(r) PROVE Inv'
<1>1. /\ run[r] \in RunType /\ run[r].pc = "call" /\ Sound(r) /\ ~Outside(r) /\ faults' \in Nat
      /\ UNCHANGED <<items, stored, main, cancel>>
  BY RunOf DEF Inv, TypeOK, Extracted, At, Outside
<1>2. PICK got \in SUBSET run[r].entries :
         Moves(r, [run[r] EXCEPT !.pc = "save", !.err = "none", !.got = got, !.left = run[r].entries])
  BY DEF Extracted, ToSave
<1>3. PICK y : y = SavedRun(run[r], got) /\ Moves(r, y)
  BY <1>2 DEF SavedRun
<1>4. got \in SUBSET Items
  BY <1>1, RunFields
<1>5. /\ y \in RunType /\ y.pc = "save" /\ y.left = run[r].entries /\ y.entries = run[r].entries
      /\ y.late = run[r].late /\ y.err = "none"
  BY <1>1, <1>3, <1>4, ToSaved
<1>6. OwedBy(run[r]) \subseteq OwedBy(y) /\ (Tardy(y) => Tardy(run[r]))
  BY <1>1, <1>5 DEF OwedBy, Sound, Tardy
<1>7. \E w \in WriteType : write' = [write EXCEPT ![r] = w]
  BY ReportsType DEF Extracted, ChunkStatus
<1>8. /\ y.late <= 1 /\ y.err # "json" /\ y.left \subseteq y.entries
      /\ y.late > 0 => run[r].late > 0
  BY <1>1, <1>5 DEF Sound
<1>9. y \in RunType /\ Moves(r, y) /\ y.pc = "save"
  BY <1>3, <1>5
<1> QED
  BY <1>1, <1>6, <1>7, <1>8, <1>9, GoesOn

LEMMA BackoffKeeps == ASSUME Inv, NEW r \in Runs, Backoff(r) PROVE Inv'
<1>1. /\ run[r] \in RunType /\ run[r].pc = "call" /\ Sound(r) /\ ~Outside(r) /\ faults' \in Nat
      /\ UNCHANGED <<items, stored, main, cancel>> /\ run[r].attempt \in 0 .. 2
  BY RunOf, RunFields DEF Inv, TypeOK, Backoff, At, Outside
<1>2. PICK e \in Errors : /\ MayRetry(r, e)
                          /\ Moves(r, [run[r] EXCEPT !.pc = "backoff", !.err = e, !.attempt = run[r].attempt + 1])
                          /\ Reports(r, "extracting", e, 0)
  BY DEF Backoff
<1>3. PICK n : n = run[r].attempt + 1
  OBVIOUS
<1>4. PICK y : y = LaterRun(run[r], e, n) /\ Moves(r, y)
  BY <1>2, <1>3 DEF LaterRun
<1>5. n \in 0 .. 2 /\ e # "json"
  BY <1>1, <1>2, <1>3 DEF MayRetry, MAX_CHUNK_BACKOFF_ATTEMPTS
<1>6. /\ y \in RunType /\ y.pc = "backoff" /\ y.left = run[r].left /\ y.entries = run[r].entries
      /\ y.late = run[r].late /\ y.err = e
  BY <1>1, <1>4, <1>5, ToBackoff
<1>7. OwedBy(run[r]) \subseteq OwedBy(y) /\ (Tardy(y) => Tardy(run[r]))
  BY <1>1, <1>5, <1>6 DEF OwedBy, Sound, Tardy
<1>8. \E w \in WriteType : write' = [write EXCEPT ![r] = w]
  BY <1>2, ReportsType DEF ChunkStatus
<1>9. /\ y.late <= 1 /\ y.err # "json" /\ y.left \subseteq y.entries
      /\ y.late > 0 => run[r].late > 0
  BY <1>1, <1>5, <1>6 DEF Sound
<1>10. y \in RunType /\ Moves(r, y) /\ y.pc = "backoff"
  BY <1>4, <1>6
<1> QED
  BY <1>1, <1>7, <1>8, <1>9, <1>10, GoesOn

LEMMA CallAgainKeeps == ASSUME Inv, NEW r \in Runs, CallAgain(r) PROVE Inv'
<1>1. /\ run[r] \in RunType /\ run[r].pc = "backoff" /\ Sound(r) /\ ~Outside(r) /\ faults' \in Nat
      /\ UNCHANGED <<items, stored, main, cancel, write>> /\ ~Stopped(r)
  BY RunOf DEF Inv, TypeOK, CallAgain, At, Outside, MayWake
<1>2. PICK a : a = [run[r] EXCEPT !.pc = "call"]
  OBVIOUS
<1>3. PICK y : y = Called(r, a) /\ Moves(r, y)
  BY <1>2 DEF CallAgain
<1>4. /\ a \in RunType /\ a.pc = "call" /\ a.left = run[r].left /\ a.entries = run[r].entries
      /\ a.late = run[r].late /\ a.err = run[r].err
  BY <1>1, <1>2, ToPc DEF PCs
<1>5. /\ y \in RunType /\ y.pc = "call" /\ y.left = run[r].left /\ y.entries = run[r].entries
      /\ y.err = run[r].err /\ y.late = run[r].late
  BY <1>1, <1>3, <1>4, CallBegins
<1>6. OwedBy(run[r]) \subseteq OwedBy(y) /\ (Tardy(y) => Tardy(run[r]))
  BY <1>1, <1>5 DEF OwedBy, Sound, Tardy
<1>7. /\ y.late <= 1 /\ y.err # "json" /\ y.left \subseteq y.entries
      /\ y.late > 0 => run[r].late > 0
  BY <1>1, <1>5 DEF Sound
<1>8. y \in RunType /\ Moves(r, y) /\ y.pc = "call"
  BY <1>3, <1>5
<1> QED
  BY <1>1, <1>6, <1>7, <1>8, SameWrite, GoesOn

LEMMA WokenKeeps == ASSUME Inv, NEW r \in Runs, Woken(r) PROVE Inv'
<1>1. /\ run[r] \in RunType /\ run[r].pc = "backoff" /\ Sound(r) /\ ~Outside(r) /\ faults' \in Nat
      /\ UNCHANGED <<items, stored, main, cancel, write>>
  BY RunOf DEF Inv, TypeOK, Woken, At, Outside
<1>2. PICK y : y = Failed(run[r], "account") /\ Moves(r, y)
  BY DEF Woken
<1>3. /\ y \in RunType /\ y.pc = "fail" /\ y.left = run[r].entries /\ y.entries = run[r].entries
      /\ y.late = run[r].late /\ y.err = "account"
  BY <1>1, <1>2, ToFailed DEF Errors
<1>4. OwedBy(run[r]) \subseteq OwedBy(y) /\ (Tardy(y) => Tardy(run[r]))
  BY <1>1, <1>3 DEF OwedBy, Sound, Tardy
<1>5. /\ y.late <= 1 /\ y.err # "json" /\ y.left \subseteq y.entries
      /\ y.late > 0 => run[r].late > 0
  BY <1>1, <1>3 DEF Sound
<1>6. y \in RunType /\ Moves(r, y) /\ y.pc = "fail"
  BY <1>2, <1>3
<1> QED
  BY <1>1, <1>4, <1>5, <1>6, SameWrite, GoesOn

(* The run of a chunk is over. *)
LEMMA OverKeeps ==
  ASSUME Inv, NEW r \in Runs, ~Outside(r), UNCHANGED <<items, stored, main, cancel, faults>>,
         OwedBy(run[r]) = {}, Moves(r, [run[r] EXCEPT !.pc = "over"]),
         \E w \in WriteType : write' = [write EXCEPT ![r] = w]
  PROVE  Inv'
<1>1. run[r] \in RunType /\ Sound(r) /\ faults' \in Nat
  BY RunOf DEF Inv, TypeOK
<1>2. PICK y : y = [run[r] EXCEPT !.pc = "over"] /\ Moves(r, y)
  OBVIOUS
<1>3. /\ y \in RunType /\ y.pc = "over" /\ y.left = run[r].left /\ y.entries = run[r].entries
      /\ y.late = run[r].late /\ y.err = run[r].err
  BY <1>1, <1>2, ToPc DEF PCs
<1>4. OwedBy(run[r]) \subseteq OwedBy(y) /\ (Tardy(y) => Tardy(run[r]))
  BY <1>3 DEF Tardy
<1>5. /\ y.left \subseteq y.entries
      /\ y.late > 0 => run[r].late > 0
      /\ y.err # "json" => y.late <= 1
  BY <1>1, <1>3 DEF Sound
<1>6. y \in RunType /\ Moves(r, y) /\ y.pc = "over"
  BY <1>2, <1>3
<1> QED
  BY <1>1, <1>4, <1>5, <1>6, GoesOn

LEMMA SaveEndsKeeps == ASSUME Inv, NEW r \in Runs, SaveEnds(r) PROVE Inv'
<1>1. /\ OwedBy(run[r]) = {} /\ ~Outside(r) /\ UNCHANGED <<items, stored, main, cancel, faults>>
      /\ Moves(r, [run[r] EXCEPT !.pc = "over"])
  BY DEF SaveEnds, At, Outside, OwedBy
<1>2. \E w \in WriteType : write' = [write EXCEPT ![r] = w]
  BY ReportsType DEF SaveEnds, ChunkStatus
<1> QED
  BY <1>1, <1>2, OverKeeps

LEMMA FanEndsKeeps == ASSUME Inv, NEW r \in Runs, FanEnds(r) PROVE Inv'
<1>1. /\ OwedBy(run[r]) = {} /\ ~Outside(r) /\ UNCHANGED <<items, stored, main, cancel, faults>>
      /\ Moves(r, [run[r] EXCEPT !.pc = "over"])
  BY DEF FanEnds, At, Outside, OwedBy
<1>2. run[r].err \in Errors \cup {"none"}
  BY RunOf, RunFields DEF Inv
<1>3. \E w \in WriteType : write' = [write EXCEPT ![r] = w]
  BY <1>2, ReportsType DEF FanEnds, ChunkStatus
<1> QED
  BY <1>1, <1>3, OverKeeps

LEMMA FanCallKeeps == ASSUME Inv, NEW r \in Runs, FanCall(r) PROVE Inv'
<1>1. /\ run[r] \in RunType /\ run[r].pc = "fan" /\ Sound(r) /\ ~Outside(r) /\ faults' \in Nat
      /\ UNCHANGED <<items, stored, main, cancel, write>> /\ run[r].late \in Nat
  BY RunOf, RunFields DEF Inv, TypeOK, FanCall, At, Outside
<1>2. PICK a : a = [run[r] EXCEPT !.pc = "fancall"]
  OBVIOUS
<1>3. PICK y : y = Called(r, a) /\ Moves(r, y)
  BY <1>2 DEF FanCall
<1>4. /\ a \in RunType /\ a.pc = "fancall" /\ a.left = run[r].left /\ a.entries = run[r].entries
      /\ a.late = run[r].late /\ a.err = run[r].err
  BY <1>1, <1>2, ToPc DEF PCs
<1>5. /\ y \in RunType /\ y.pc = "fancall" /\ y.left = run[r].left /\ y.entries = run[r].entries
      /\ y.err = run[r].err /\ (Stopped(r) \/ y.late = run[r].late)
  BY <1>3, <1>4, CallBegins
<1>6. OwedBy(run[r]) \subseteq OwedBy(y) /\ (Tardy(y) => Tardy(run[r])) /\ y.err = "json"
  BY <1>1, <1>5 DEF OwedBy, Sound, Tardy
<1>7. /\ y.left \subseteq y.entries
      /\ y.late > 0 => (run[r].late > 0 \/ Stopped(r))
  BY <1>1, <1>5 DEF Sound
<1>8. y \in RunType /\ Moves(r, y) /\ y.pc = "fancall"
  BY <1>3, <1>5
<1> QED
  BY <1>1, <1>6, <1>7, <1>8, SameWrite, GoesOn

(* The image of a call of the fan-out is answered, saved or not. *)
LEMMA FannedKeeps ==
  ASSUME Inv, NEW r \in Runs, At(r, "fancall"), NEW i \in Items, First(i, run[r].left),
         NEW y \in RunType, Moves(r, y), y.pc = "fan", y.left = run[r].left \ {i},
         y.entries = run[r].entries, y.late = run[r].late, y.err = run[r].err,
         UNCHANGED <<stored, main, cancel, write, faults>>,
         NEW s \in Saved \cup {"failed"}, NEW e \in Errors \cup {"none"},
         NEW ci \in ChunkIds \cup {-1, Untagged}, Answer(i, s, e, ci), receipts' \subseteq Items
  PROVE  Inv'
<1>1. /\ run[r] \in RunType /\ run[r].pc = "fancall" /\ Sound(r) /\ ~Outside(r) /\ i \in run[r].left
  BY RunOf, FirstIsLeft DEF Inv, At, Outside
<1>2. OwedBy(run[r]) \subseteq OwedBy(y) \cup {i} /\ (Tardy(y) => Tardy(run[r])) /\ y.err = "json"
  BY <1>1 DEF OwedBy, Sound, Tardy
<1>3. y.left \subseteq y.entries /\ ~Outside(r)
  BY <1>1 DEF Sound
<1>4. s \in Saved \cup InFlight \cup {"failed"} /\ s \notin InFlight
  BY DEF Saved, InFlight
<1> QED
  BY <1>2, <1>3, <1>4, AnswerKeeps

LEMMA FanSaveKeeps == ASSUME Inv, NEW r \in Runs, FanSave(r) PROVE Inv'
<1>1. run[r] \in RunType /\ run[r].good \in BOOLEAN /\ run[r].left \subseteq Items
  BY RunOf DEF Inv, RunType
<1>2. PICK i \in Items, ok \in BOOLEAN :
         /\ First(i, run[r].left) /\ Persist(i, ok)
         /\ Moves(r, [run[r] EXCEPT !.pc = "fan", !.left = run[r].left \ {i}, !.good = AnySuccess(run[r].good, ok)])
  BY DEF FanSave
<1>3. PICK S, good : S = run[r].left \ {i} /\ good = AnySuccess(run[r].good, ok)
  OBVIOUS
<1>4. S \in SUBSET Items /\ good \in BOOLEAN
  BY <1>1, <1>3 DEF AnySuccess
<1>5. PICK y : y = FanRun(run[r], S, good) /\ Moves(r, y)
  BY <1>2, <1>3 DEF FanRun
<1>6. /\ y \in RunType /\ y.pc = "fan" /\ y.left = S /\ y.entries = run[r].entries
      /\ y.late = run[r].late /\ y.err = run[r].err
  BY <1>1, <1>4, <1>5, ToFan
<1>7. PICK s \in Saved \cup {"failed"}, e \in {"none", "other"} :
           Answer(i, s, e, Untagged) /\ receipts' \subseteq Items
  BY <1>2, PersistAnswers
<1>8. e \in Errors \cup {"none"} /\ Untagged \in ChunkIds \cup {-1, Untagged}
  BY DEF Errors
<1>9. At(r, "fancall") /\ UNCHANGED <<stored, main, cancel, write, faults>>
  BY DEF FanSave
<1>10. y \in RunType /\ Moves(r, y) /\ y.pc = "fan" /\ y.left = run[r].left \ {i}
       /\ y.entries = run[r].entries /\ y.late = run[r].late /\ y.err = run[r].err
  BY <1>3, <1>5, <1>6
<1> QED
  BY <1>2, <1>7, <1>8, <1>9, <1>10, FannedKeeps

LEMMA FanFailsKeeps == ASSUME Inv, NEW r \in Runs, FanFails(r) PROVE Inv'
<1>1. /\ run[r] \in RunType /\ run[r].left \subseteq Items /\ run[r].ci \in ChunkIds \cup {-1, Untagged}
  BY RunOf, RunFields DEF Inv
<1>2. PICK i \in Items, e \in Errors :
         /\ First(i, run[r].left) /\ Answer(i, "failed", e, run[r].ci)
         /\ Moves(r, [run[r] EXCEPT !.pc = "fan", !.left = run[r].left \ {i}])
  BY DEF FanFails
<1>3. PICK S : S = run[r].left \ {i}
  OBVIOUS
<1>4. PICK y : y = LoopRun(run[r], S)
  OBVIOUS
<1>5. Moves(r, y)
  BY <1>2, <1>3, <1>4 DEF LoopRun
<1>6. S \in SUBSET Items
  BY <1>1, <1>3
<1>7. /\ y \in RunType /\ y.pc = "fan" /\ y.left = S /\ y.entries = run[r].entries
      /\ y.late = run[r].late /\ y.err = run[r].err
  BY <1>1, <1>4, <1>6, ToLoop
<1>8. At(r, "fancall") /\ UNCHANGED <<stored, main, cancel, write, faults>> /\ receipts' \subseteq Items
  BY DEF FanFails, Inv, TypeOK
<1>9. y \in RunType /\ y.left = run[r].left \ {i}
  BY <1>3, <1>7
<1> QED
  BY <1>1, <1>2, <1>5, <1>7, <1>8, <1>9, FannedKeeps

(* A failed call that does not stop the message. *)
LEMMA FailedKeeps ==
  ASSUME Inv, NEW r \in Runs, At(r, "call"), UNCHANGED <<items, stored, main, cancel, faults>>,
         NEW e \in Errors, Moves(r, Failed(run[r], e)), \E w \in WriteType : write' = [write EXCEPT ![r] = w]
  PROVE  Inv'
<1>1. /\ run[r] \in RunType /\ run[r].pc = "call" /\ Sound(r) /\ ~Outside(r) /\ faults' \in Nat
  BY RunOf DEF Inv, TypeOK, At, Outside
<1>2. PICK y : y = Failed(run[r], e) /\ Moves(r, y)
  OBVIOUS
<1>3. /\ y \in RunType /\ y.pc \in {"fan", "fail"} /\ (y.pc = "fan" => e = "json")
      /\ y.left = run[r].entries /\ y.entries = run[r].entries
      /\ y.late = run[r].late /\ y.err = e
  BY <1>1, <1>2, ToFailed
<1>4. OwedBy(run[r]) \subseteq OwedBy(y) /\ (Tardy(y) => Tardy(run[r]))
  BY <1>1, <1>3 DEF OwedBy, Sound, Tardy
<1>5. /\ y.late <= 1 /\ y.left \subseteq y.entries /\ (y.pc = "fan" => y.err = "json")
      /\ y.late > 0 => run[r].late > 0
  BY <1>1, <1>3 DEF Sound
<1>6. y \in RunType /\ Moves(r, y) /\ y.pc \in {"fan", "fail"}
  BY <1>2, <1>3
<1> QED
  BY <1>1, <1>4, <1>5, <1>6, GoesOn

(* An account error stops the message: the chunks that are marking their images
   are in the semaphore beside the one that was refused.                         *)
LEMMA StopKeeps ==
  ASSUME Inv, NEW r \in Runs, At(r, "call"), UNCHANGED <<items, stored, main, faults, write>>,
         Moves(r, Failed(run[r], "account")), r[1] \in Mains, ~cancel[r[1]],
         cancel' = [cancel EXCEPT ![r[1]] = TRUE]
  PROVE  Inv'
<1>1. /\ run[r] \in RunType /\ run[r].pc = "call" /\ Sound(r) /\ ~Outside(r) /\ TypeOK
      /\ UNCHANGED <<status, code, tag, receipts>>
  BY RunOf DEF Inv, At, Outside, items
<1>2. PICK y : y = Failed(run[r], "account") /\ Moves(r, y)
  OBVIOUS
<1>3. /\ y \in RunType /\ y.pc = "fail" /\ y.left = run[r].entries /\ y.entries = run[r].entries
      /\ y.late = run[r].late /\ y.err = "account"
  BY <1>1, <1>2, ToFailed DEF Errors
<1>4. /\ run' \in [Runs -> RunType] /\ run'[r] = y
      /\ \A o \in Runs : o # r => run'[o] = run[o]
  BY <1>1, <1>2, <1>3, Moved
<1>5. \A o \in Runs : o[1] = r[1] => run[o].late = 0
  <2> SUFFICES ASSUME NEW o \in Runs, o[1] = r[1] PROVE run[o].late = 0
    OBVIOUS
  <2>1. Sound(o) /\ ~Stopped(o) /\ run[o].late \in Nat
    BY RunOf, RunFields DEF Inv, Stopped
  <2> QED
    BY <2>1 DEF Sound
<1>6. /\ cancel' \in [Mains -> BOOLEAN] /\ (\A t \in Mains : cancel[t] => cancel'[t])
      /\ (\A t \in Mains : t # r[1] => cancel'[t] = cancel[t])
  BY <1>1 DEF TypeOK
<1>7. TypeOK' /\ Begun' /\ (\A o \in Runs : Sound(o)') /\ NoneForgotten'
  <2>1. /\ status' \in [Items -> Saved \cup InFlight \cup {"failed"}]
        /\ code' \in [Items -> Errors \cup {"none"}]
        /\ tag' \in [Items -> ChunkIds \cup {-1, Untagged}]
        /\ receipts' \subseteq Items /\ stored' \in [ChunkIds -> ChunkType]
        /\ write' \in [Runs -> WriteType] /\ faults' \in Nat /\ UNCHANGED main
        /\ status' = status /\ write' = write
    BY <1>1 DEF TypeOK
  <2>2. r[1] \in Mains => main[r[1]] # "queued"
    BY <1>1, AtWork
  <2>3. OwedBy(run[r]) \subseteq OwedBy(y)
    BY <1>1, <1>3 DEF OwedBy
  <2>4. y.late = 0
    BY <1>3, <1>5
  <2> QED
    BY <1>2, <1>3, <1>6, <2>1, <2>2, <2>3, <2>4, OneRun
<1>8. <<r[1], r[2]>> = r /\ r[2] \in ChunkIds
  BY RunIsPair
<1>9. ASSUME NEW t \in Mains PROVE Inside(t)' \subseteq Inside(t) /\ (t # r[1] => TardyOf(t)' = TardyOf(t))
  <2> SUFFICES ASSUME NEW ci \in ChunkIds
               PROVE  /\ ~Outside(<<t, ci>>)' => ~Outside(<<t, ci>>)
                      /\ t # r[1] => run'[<<t, ci>>] = run[<<t, ci>>]
    BY DEF Inside, TardyOf, Tardy
  <2>1. <<t, ci>> \in Runs /\ <<t, ci>>[1] = t
    BY DEF Runs
  <2> QED
    BY <1>1, <1>4, <2>1 DEF Outside
<1>10. TardyOf(r[1])' \subseteq Inside(r[1]) \ {r[2]}
  <2> SUFFICES ASSUME NEW ci \in ChunkIds, Tardy(run'[<<r[1], ci>>])
               PROVE  ~Outside(<<r[1], ci>>) /\ ci # r[2]
    BY DEF Inside, TardyOf, Tardy
  <2>1. <<r[1], ci>> \in Runs /\ <<r[1], ci>>[1] = r[1]
    BY DEF Runs
  <2>2. ci # r[2]
    BY <1>3, <1>4, <1>5, <1>8 DEF Tardy
  <2>3. run'[<<r[1], ci>>] = run[<<r[1], ci>>]
    BY <1>4, <2>1, <2>2
  <2> QED
    BY <1>5, <2>1, <2>2, <2>3 DEF Tardy, Outside
<1>11. Cardinality(TardyOf(r[1])') < Concurrency
  <2>1. r[2] \in Inside(r[1]) /\ Inside(r[1]) \in SUBSET ChunkIds
    BY <1>1, <1>8 DEF Inside
  <2>2. IsFiniteSet(Inside(r[1])) /\ Cardinality(Inside(r[1])) \in Nat
    BY <2>1, FewerChunks
  <2>3. Cardinality(Inside(r[1]) \ {r[2]}) = Cardinality(Inside(r[1])) - 1
    BY <2>1, <2>2, OneFewer
  <2>4. /\ Cardinality(TardyOf(r[1])') <= Cardinality(Inside(r[1]) \ {r[2]})
        /\ Cardinality(TardyOf(r[1])') \in Nat
    BY <1>10, <2>1, FewerChunks
  <2>5. Cardinality(Inside(r[1])) <= Concurrency
    BY DEF Inv, Room
  <2> QED
    BY <2>2, <2>3, <2>4, <2>5, SizeAssumption
<1>12. Room'
  <2> SUFFICES ASSUME NEW t \in Mains
               PROVE  Cardinality(Inside(t)') <= Concurrency /\ (cancel'[t] => Cardinality(TardyOf(t)') < Concurrency)
    BY DEF Room
  <2>1. Inside(t) \in SUBSET ChunkIds
    BY DEF Inside
  <2>2. /\ Cardinality(Inside(t)') <= Cardinality(Inside(t))
        /\ Cardinality(Inside(t)') \in Nat /\ Cardinality(Inside(t)) \in Nat
    BY <1>9, <2>1, FewerChunks
  <2>3. Cardinality(Inside(t)') <= Concurrency
    BY <2>2, SizeAssumption DEF Inv, Room
  <2>4. CASE t = r[1]
    BY <1>11, <2>3, <2>4
  <2>5. CASE t # r[1]
    BY <1>6, <1>9, <2>3, <2>5 DEF Inv, Room
  <2> QED
    BY <2>4, <2>5
<1> QED
  BY <1>7, <1>12 DEF Inv

LEMMA CallFailsKeeps == ASSUME Inv, NEW r \in Runs, CallFails(r) PROVE Inv'
<1>1. PICK e \in Errors : /\ Moves(r, Failed(run[r], e)) /\ ReportsFailure(r, e)
         /\ cancel' = IF should_stop_batch(e) /\ r[1] \in Mains THEN [cancel EXCEPT ![r[1]] = TRUE] ELSE cancel
  BY DEF CallFails
<1>2. At(r, "call") /\ UNCHANGED <<items, stored, main, faults>> /\ cancel \in [Mains -> BOOLEAN]
  BY DEF CallFails, Inv, TypeOK
<1>3. CASE e = "account" /\ r[1] \in Mains /\ ~cancel[r[1]]
  <2>1. cancel' = [cancel EXCEPT ![r[1]] = TRUE]
    BY <1>1, <1>3 DEF should_stop_batch
  <2>2. UNCHANGED write
    BY <1>1, <1>3 DEF ReportsFailure, Failed, should_fan_out_to_per_image
  <2> QED
    BY <1>1, <1>2, <1>3, <2>1, <2>2, StopKeeps
<1>4. CASE ~(e = "account" /\ r[1] \in Mains /\ ~cancel[r[1]])
  <2>1. UNCHANGED cancel
    BY <1>1, <1>2, <1>4 DEF should_stop_batch
  <2>2. \E w \in WriteType : write' = [write EXCEPT ![r] = w]
    BY <1>1, SameWrite, ReportsType DEF ReportsFailure, ChunkStatus
  <2> QED
    BY <1>1, <1>2, <2>1, <2>2, FailedKeeps
<1> QED
  BY <1>3, <1>4

(* A chunk enters the semaphore when there is a place. *)
LEMMA EnterKeeps == ASSUME Inv, NEW r \in Runs, Enter(r) PROVE Inv'
<1>1. /\ run[r] \in RunType /\ run[r].pc = "wait" /\ write[r].stage = "none" /\ Sound(r) /\ TypeOK
      /\ MayEnter(r) /\ UNCHANGED <<status, code, tag, receipts, stored, main, cancel, faults>>
      /\ run[r].entries \in SUBSET Items
  BY RunOf, RunFields DEF Inv, Enter, At, items
<1>2. PICK pc \in {"skip", "mark"} :
         /\ Moves(r, [run[r] EXCEPT !.pc = pc, !.left = run[r].entries])
         /\ pc = "mark" => ~Stopped(r)
         /\ \E w \in WriteType : write' = [write EXCEPT ![r] = w]
  <2>1. "account" \in Errors \cup {"none"} /\ "none" \in Errors \cup {"none"}
        /\ "failed" \in ChunkStatus /\ "extracting" \in ChunkStatus
    BY DEF Errors, ChunkStatus
  <2> QED
    BY <2>1, ReportsType DEF Enter
<1>3. PICK y : y = EnteredRun(run[r], pc) /\ Moves(r, y)
  BY <1>2 DEF EnteredRun
<1>4. PICK w \in WriteType : write' = [write EXCEPT ![r] = w]
  BY <1>2
<1>5. /\ y \in RunType /\ y.pc = pc /\ y.left = run[r].entries /\ y.entries = run[r].entries
      /\ y.late = run[r].late /\ y.err = run[r].err
  BY <1>1, <1>3, ToEntered DEF PCs
<1>6. /\ run' \in [Runs -> RunType] /\ run'[r] = y
      /\ \A o \in Runs : o # r => run'[o] = run[o]
  BY <1>1, <1>3, <1>5, Moved
<1>7. /\ write' \in [Runs -> WriteType] /\ \A o \in Runs : o # r => write'[o] = write[o]
  BY <1>1, <1>4, Wrote
<1>8. TypeOK' /\ Begun' /\ (\A o \in Runs : Sound(o)') /\ NoneForgotten'
  <2>1. /\ status' \in [Items -> Saved \cup InFlight \cup {"failed"}]
        /\ code' \in [Items -> Errors \cup {"none"}]
        /\ tag' \in [Items -> ChunkIds \cup {-1, Untagged}]
        /\ receipts' \subseteq Items /\ stored' \in [ChunkIds -> ChunkType]
        /\ cancel' \in [Mains -> BOOLEAN] /\ faults' \in Nat /\ UNCHANGED main
        /\ status' = status /\ cancel' = cancel
    BY <1>1 DEF TypeOK
  <2>2. r[1] \in Mains => main[r[1]] # "queued"
    BY <1>1, AtWork
  <2>3. OwedBy(run[r]) \subseteq OwedBy(y)
    BY <1>1, <1>2, <1>5 DEF OwedBy
  <2>4. y.late = 0 /\ y.err # "json"
    BY <1>1, <1>5 DEF Sound
  <2>5. y \in RunType /\ y.left = y.entries /\ y.pc \notin {"fan", "fancall"}
    BY <1>2, <1>5
  <2>6. /\ \A t \in Mains : cancel[t] => cancel'[t]
        /\ \A i \in Items : status'[i] \in InFlight =>
             i \in OwedBy(y) \/ (status[i] \in InFlight /\ i \notin OwedBy(run[r]))
    BY <2>1, <2>3
  <2>7. /\ y.left \subseteq y.entries
        /\ y.pc \in {"fan", "fancall"} => y.err = "json"
        /\ y.late > 0 => (run[r].late > 0 \/ Stopped(r)')
        /\ y.late <= 1
    BY <2>4, <2>5
  <2> QED
    BY <1>3, <1>7, <2>1, <2>2, <2>4, <2>5, <2>6, <2>7, OneRun
<1>9. ASSUME NEW t \in Mains
      PROVE  /\ t # r[1] => Inside(t)' = Inside(t) /\ TardyOf(t)' = TardyOf(t)
             /\ t = r[1] => Inside(t)' \subseteq Inside(t) \cup {r[2]}
             /\ t = r[1] /\ cancel[t] => TardyOf(t)' \subseteq TardyOf(t)
  <2>1. ASSUME NEW ci \in ChunkIds, <<t, ci>> # r
        PROVE  /\ Outside(<<t, ci>>)' <=> Outside(<<t, ci>>)
               /\ run'[<<t, ci>>] = run[<<t, ci>>]
    <3>1. <<t, ci>> \in Runs
      BY DEF Runs
    <3> QED
      BY <1>6, <1>7, <2>1, <3>1 DEF Outside
  <2>2. CASE t # r[1]
    <3>1. \A ci \in ChunkIds : <<t, ci>> # r
      BY <2>2
    <3> QED
      BY <2>1, <2>2, <3>1 DEF Inside, TardyOf, Tardy
  <2>3. CASE t = r[1]
    <3>1. r = <<t, r[2]>>
      BY <2>3, RunIsPair
    <3>2. \A ci \in ChunkIds : ci # r[2] => <<t, ci>> # r
      OBVIOUS
    <3>3. Inside(t)' \subseteq Inside(t) \cup {r[2]}
      BY <2>1, <3>2 DEF Inside
    <3>4. ASSUME cancel[t] PROVE TardyOf(t)' \subseteq TardyOf(t)
      <4>1. ~Tardy(y)
        BY <1>1, <1>2, <1>5, <2>3, <3>4 DEF Tardy, Sound, Stopped
      <4>2. ASSUME NEW ci \in ChunkIds, Tardy(run'[<<t, ci>>]) PROVE Tardy(run[<<t, ci>>])
        BY <1>6, <2>1, <3>1, <3>2, <4>1, <4>2
      <4> QED
        BY <4>2 DEF TardyOf, Tardy
    <3> QED
      BY <2>3, <3>3, <3>4
  <2> QED
    BY <2>2, <2>3
<1>10. Room'
  <2> SUFFICES ASSUME NEW t \in Mains
               PROVE  Cardinality(Inside(t)') <= Concurrency /\ (cancel[t] => Cardinality(TardyOf(t)') < Concurrency)
    BY <1>1 DEF Room
  <2>1. CASE t # r[1]
    BY <1>9, <2>1 DEF Inv, Room
  <2>2. CASE t = r[1]
    <3>1. /\ Inside(t) \in SUBSET ChunkIds /\ TardyOf(t) \in SUBSET ChunkIds /\ r[2] \in ChunkIds
          /\ Cardinality(Inside(t)) < Concurrency
      BY <1>1, <2>2, RunIsPair DEF Inside, TardyOf, MayEnter
    <3>2. Cardinality(Inside(t) \cup {r[2]}) <= Cardinality(Inside(t)) + 1
      BY <3>1, OneMore
    <3>3. /\ Inside(t) \cup {r[2]} \in SUBSET ChunkIds
          /\ Cardinality(Inside(t)) \in Nat
      BY <3>1, FewerChunks
    <3>4. /\ Cardinality(Inside(t)') <= Cardinality(Inside(t) \cup {r[2]})
          /\ Cardinality(Inside(t)') \in Nat /\ Cardinality(Inside(t) \cup {r[2]}) \in Nat
      BY <1>9, <2>2, <3>3, FewerChunks
    <3>5. Cardinality(Inside(t)') <= Concurrency
      BY <3>1, <3>2, <3>3, <3>4, SizeAssumption
    <3>6. ASSUME cancel[t] PROVE Cardinality(TardyOf(t)') < Concurrency
      <4>1. /\ Cardinality(TardyOf(t)') <= Cardinality(TardyOf(t))
            /\ Cardinality(TardyOf(t)') \in Nat /\ Cardinality(TardyOf(t)) \in Nat
        BY <1>9, <2>2, <3>1, <3>6, FewerChunks
      <4> QED
        BY <3>6, <4>1, SizeAssumption DEF Inv, Room
    <3> QED
      BY <3>5, <3>6
  <2> QED
    BY <2>1, <2>2
<1> QED
  BY <1>8, <1>10 DEF Inv

LEMMA DieKeeps == ASSUME Inv, NEW r \in Runs, Die(r) PROVE Inv'
<1>1. /\ run[r] \in RunType /\ Sound(r) /\ ~Outside(r) /\ faults' \in Nat
      /\ UNCHANGED <<items, stored, main, cancel>> /\ write' = [write EXCEPT ![r] = NoWrite]
  BY RunOf DEF Inv, TypeOK, Die
<1>2. PICK y : y = [run[r] EXCEPT !.pc = "died"] /\ Moves(r, y)
  BY DEF Die
<1>3. /\ y \in RunType /\ y.pc = "died" /\ y.left = run[r].left /\ y.entries = run[r].entries
      /\ y.late = run[r].late /\ y.err = run[r].err
  BY <1>1, <1>2, ToPc DEF PCs
<1>4. OwedBy(run[r]) \subseteq OwedBy(y) /\ (Tardy(y) => Tardy(run[r]))
  BY <1>1, <1>3 DEF OwedBy, Tardy, Sound
<1>5. /\ y.left \subseteq y.entries
      /\ y.late > 0 => run[r].late > 0
      /\ y.err # "json" => y.late <= 1
  BY <1>1, <1>3 DEF Sound
<1>6. \E w \in WriteType : write' = [write EXCEPT ![r] = w]
  BY <1>1, NoWriteType
<1>7. y \in RunType /\ Moves(r, y) /\ y.pc = "died"
  BY <1>2, <1>3
<1> QED
  BY <1>1, <1>4, <1>5, <1>6, <1>7, GoesOn
-----------------------------------------------------------------------------
(* A message starts, and ends. *)

WaitingRun(ci, E) == [NoRun EXCEPT !.kind = "main", !.pc = "wait", !.ci = ci, !.entries = E]

LEMMA ToWaiting ==
  ASSUME NEW ci \in ChunkIds, NEW E \in SUBSET Items, NEW y, y = WaitingRun(ci, E)
  PROVE  /\ y \in RunType /\ y.pc = "wait" /\ y.left = {} /\ y.entries = E
         /\ y.late = 0 /\ y.err = "none"
<1>1. PICK x : x = NoRun
  OBVIOUS
<1>2. x \in RunType /\ x.left = {} /\ x.late = 0 /\ x.err = "none"
  BY <1>1, NoRunType
<1>3. PICK a : a = [x EXCEPT !.kind = "main"]
  OBVIOUS
<1>4. a \in RunType /\ a.left = {} /\ a.late = 0 /\ a.err = "none"
  BY <1>2, <1>3 DEF RunType
<1>5. PICK b : b = [a EXCEPT !.pc = "wait"]
  OBVIOUS
<1>6. b \in RunType /\ b.pc = "wait" /\ b.left = {} /\ b.late = 0 /\ b.err = "none"
  BY <1>4, <1>5 DEF RunType
<1>7. PICK c : c = [b EXCEPT !.ci = ci]
  OBVIOUS
<1>8. c \in RunType /\ c.pc = "wait" /\ c.left = {} /\ c.late = 0 /\ c.err = "none"
  BY <1>6, <1>7 DEF RunType
<1>9. y = [c EXCEPT !.entries = E]
  BY <1>1, <1>3, <1>5, <1>7 DEF WaitingRun
<1> QED
  BY <1>8, <1>9 DEF RunType

LEMMA NewChunkType == ASSUME NEW S \in SUBSET Items PROVE NewChunk(S) \in ChunkType
<1>1. PICK x : x = NoChunk
  OBVIOUS
<1>2. x \in ChunkType
  BY <1>1, NoChunkType
<1>3. PICK a : a = [x EXCEPT !.status = "pending"]
  OBVIOUS
<1>4. a \in ChunkType
  BY <1>2, <1>3 DEF ChunkType, ChunkStatus
<1>5. PICK b : b = [a EXCEPT !.items = S]
  OBVIOUS
<1>6. b \in ChunkType
  BY <1>4, <1>5 DEF ChunkType
<1>7. NewChunk(S) \in {x, b}
  BY <1>1, <1>3, <1>5 DEF NewChunk
<1> QED
  BY <1>2, <1>6, <1>7

LEMMA MainStartKeeps == ASSUME Inv, NEW t \in Mains, MainStart(t) PROVE Inv'
<1> DEFINE Starts(r) == r[1] = t /\ Chunk(Group[t], r[2]) # {}
<1>1. /\ TypeOK /\ main[t] = "queued" /\ main' = [main EXCEPT ![t] = "running"]
      /\ UNCHANGED <<status, code, receipts, cancel, write, faults>>
      /\ Group[t] \in SUBSET Items
  BY GroupAssumption DEF Inv, MainStart
<1>2. \A E \in SUBSET Items : \A ci : Chunk(E, ci) \in SUBSET Items
  BY DEF Chunk
<1>3. /\ run' = [r \in Runs |-> IF Starts(r) THEN WaitingRun(r[2], Chunk(Group[t], r[2])) ELSE run[r]]
  BY DEF MainStart, WaitingRun
<1> HIDE DEF Starts
<1>4. ASSUME NEW r \in Runs, Starts(r)
      PROVE  /\ run'[r] \in RunType /\ run'[r].pc = "wait" /\ run'[r].left = {}
             /\ run'[r].entries = Chunk(Group[t], r[2])
             /\ run'[r].late = 0 /\ run'[r].err = "none" /\ run[r] = NoRun /\ write[r] = NoWrite
  <2>1. run'[r] = WaitingRun(r[2], Chunk(Group[t], r[2])) /\ r[2] \in ChunkIds
    BY <1>3, <1>4, RunIsPair
  <2>2. Chunk(Group[t], r[2]) \in SUBSET Items
    BY <1>1, <1>2
  <2>3. r[1] = t /\ r[1] \in Mains
    BY <1>4 DEF Starts
  <2>4. run[r] = NoRun /\ write[r] = NoWrite
    BY <1>1, <2>3 DEF Inv, Begun
  <2> QED
    BY <2>1, <2>2, <2>4, ToWaiting
<1>5. \A r \in Runs : ~Starts(r) => run'[r] = run[r]
  BY <1>3
<1>6. TypeOK'
  <2>1. run' \in [Runs -> RunType]
    BY <1>1, <1>3, <1>4, <1>5 DEF TypeOK
  <2>2. stored' \in [ChunkIds -> ChunkType]
    <3>1. stored' = [ci \in ChunkIds |-> NewChunk(Chunk(Group[t], ci))]
      BY DEF MainStart
    <3>2. \A ci \in ChunkIds : NewChunk(Chunk(Group[t], ci)) \in ChunkType
      BY <1>1, <1>2, NewChunkType
    <3> QED
      BY <3>1, <3>2
  <2>3. tag' \in [Items -> ChunkIds \cup {-1, Untagged}]
    <3>1. tag' = [i \in Items |-> IF i \in Group[t] THEN Rank(i, Group[t]) \div ChunkSize ELSE tag[i]]
      BY DEF MainStart
    <3>2. \A i \in Group[t] : Rank(i, Group[t]) \div ChunkSize \in ChunkIds
      BY <1>1, ChunkOfImage
    <3> QED
      BY <1>1, <3>1, <3>2 DEF TypeOK
  <2>4. main' \in [Mains -> {"queued", "running", "over"}]
    BY <1>1 DEF TypeOK
  <2> QED
    BY <1>1, <2>1, <2>2, <2>3, <2>4 DEF TypeOK
<1>7. Begun'
  <2> SUFFICES ASSUME NEW r \in Runs, r[1] \in Mains, main'[r[1]] = "queued"
               PROVE  run'[r] = NoRun /\ write'[r] = NoWrite
    BY DEF Begun
  <2>1. r[1] # t /\ main[r[1]] = "queued"
    BY <1>1 DEF TypeOK
  <2>2. run'[r] = run[r]
    BY <1>5, <2>1 DEF Starts
  <2> QED
    BY <1>1, <2>1, <2>2 DEF Inv, Begun
<1>8. ASSUME NEW r \in Runs PROVE Sound(r)'
  <2>1. CASE Starts(r)
    BY <1>4, <2>1 DEF Sound
  <2>2. CASE ~Starts(r)
    BY <1>1, <1>5, <2>2 DEF Inv, Sound, Stopped
  <2> QED
    BY <2>1, <2>2
<1>9. NoneForgotten'
  <2> SUFFICES ASSUME NEW i \in Items, status'[i] \in InFlight
               PROVE  \/ \E u \in Mains : main'[u] = "queued" /\ i \in Group[u]
                      \/ \E r \in Runs : i \in Owed(r)'
    BY DEF NoneForgotten
  <2>1. \/ \E u \in Mains : main[u] = "queued" /\ i \in Group[u]
        \/ \E r \in Runs : i \in Owed(r)
    BY <1>1 DEF Inv, NoneForgotten
  <2>2. CASE i \in Group[t]
    <3>1. PICK ci \in ChunkIds : i \in Chunk(Group[t], ci)
      BY <1>1, <2>2, ChunkOfImage
    <3>2. <<t, ci>> \in Runs /\ Starts(<<t, ci>>)
      BY <3>1 DEF Runs, Starts
    <3>3. i \in Owed(<<t, ci>>)'
      BY <1>4, <3>1, <3>2 DEF Owed
    <3> QED
      BY <3>2, <3>3
  <2>3. ASSUME NEW u \in Mains, main[u] = "queued", i \in Group[u], i \notin Group[t]
        PROVE  main'[u] = "queued"
    BY <1>1, <2>3 DEF TypeOK
  <2>4. ASSUME NEW r \in Runs, i \in Owed(r) PROVE i \in Owed(r)'
    <3>1. ~Starts(r)
      BY <1>4, <2>4, NoRunType DEF Owed
    <3> QED
      BY <1>5, <2>4, <3>1 DEF Owed
  <2> QED
    BY <2>1, <2>2, <2>3, <2>4
<1>10. ASSUME NEW u \in Mains PROVE Inside(u)' = Inside(u) /\ TardyOf(u)' = TardyOf(u)
  <2>1. ASSUME NEW r \in Runs PROVE /\ Outside(r)' <=> Outside(r)
                                    /\ Tardy(run'[r]) <=> Tardy(run[r])
    <3>1. CASE Starts(r)
      BY <1>1, <1>4, <3>1, NoRunType DEF Outside, Tardy
    <3>2. CASE ~Starts(r)
      BY <1>1, <1>5, <3>2 DEF Outside
    <3> QED
      BY <3>1, <3>2
  <2>2. \A ci \in ChunkIds : <<u, ci>> \in Runs
    BY DEF Runs
  <2> QED
    BY <2>1, <2>2 DEF Inside, TardyOf, Tardy
<1> QED
  BY <1>1, <1>6, <1>7, <1>8, <1>9, <1>10 DEF Inv, Room

LEMMA MainEndsKeeps == ASSUME Inv, NEW t \in Mains, MainEnds(t) PROVE Inv'
<1>1. /\ TypeOK /\ main[t] = "running" /\ main' = [main EXCEPT ![t] = "over"]
      /\ UNCHANGED <<status, code, tag, receipts, stored, cancel, run, write, faults>>
  BY DEF Inv, MainEnds, items
<1>2. TypeOK'
  BY <1>1 DEF TypeOK
<1>3. \A u \in Mains : main'[u] = "queued" <=> main[u] = "queued"
  BY <1>1 DEF TypeOK
<1>4. Begun' /\ NoneForgotten'
  BY <1>1, <1>3 DEF Inv, Begun, NoneForgotten, Owed
<1>5. (\A r \in Runs : Sound(r)') /\ Room'
  BY <1>1 DEF Inv, Sound, Stopped, Room, Inside, Outside, TardyOf, Tardy
<1> QED
  BY <1>2, <1>4, <1>5 DEF Inv
-----------------------------------------------------------------------------
(* Users retry. *)

RetryRun(kind, ci, E) == [NoRun EXCEPT !.kind = kind, !.pc = "reset", !.ci = ci, !.entries = E, !.left = E]

LEMMA ToRetry ==
  ASSUME NEW kind \in {"chunk", "item"}, NEW ci \in ChunkIds \cup {-1}, NEW E \in SUBSET Items,
         NEW y, y = RetryRun(kind, ci, E)
  PROVE  /\ y \in RunType /\ y.pc = "reset" /\ y.left = E /\ y.entries = E
         /\ y.late = 0 /\ y.err = "none"
<1>1. PICK x : x = NoRun
  OBVIOUS
<1>2. x \in RunType /\ x.late = 0 /\ x.err = "none"
  BY <1>1, NoRunType
<1>3. PICK a : a = [x EXCEPT !.kind = kind]
  OBVIOUS
<1>4. a \in RunType /\ a.late = 0 /\ a.err = "none"
  BY <1>2, <1>3 DEF RunType
<1>5. PICK b : b = [a EXCEPT !.pc = "reset"]
  OBVIOUS
<1>6. b \in RunType /\ b.pc = "reset" /\ b.late = 0 /\ b.err = "none"
  BY <1>4, <1>5 DEF RunType
<1>7. PICK c : c = [b EXCEPT !.ci = ci]
  OBVIOUS
<1>8. c \in RunType /\ c.pc = "reset" /\ c.late = 0 /\ c.err = "none"
  BY <1>6, <1>7 DEF RunType
<1>9. PICK d : d = [c EXCEPT !.entries = E]
  OBVIOUS
<1>10. d \in RunType /\ d.pc = "reset" /\ d.entries = E /\ d.late = 0 /\ d.err = "none"
  BY <1>8, <1>9 DEF RunType
<1>11. y = [d EXCEPT !.left = E]
  BY <1>1, <1>3, <1>5, <1>7, <1>9 DEF RetryRun
<1> QED
  BY <1>10, <1>11 DEF RunType

(* A retry begins: its run was not there. *)
LEMMA RetryBegins ==
  ASSUME Inv, NEW r \in Runs, r[1] \notin Mains, UNCHANGED <<items, stored, main, cancel>>, faults' \in Nat,
         NEW y \in RunType, Moves(r, y), y.pc = "reset", y.left \subseteq y.entries, y.late = 0, y.err = "none",
         OwedBy(run[r]) \subseteq OwedBy(y), NEW w \in WriteType, write' = [write EXCEPT ![r] = w]
  PROVE  Inv'
<1>1. /\ r[1] \in Mains => ~Outside(r) /\ (Tardy(y) => Tardy(run[r]))
      /\ y.pc \in {"fan", "fancall"} => y.err = "json"
      /\ y.pc \in {"none", "reset", "wait", "skip", "mark", "call", "backoff", "save"} => y.err # "json"
      /\ y.pc \in {"none", "reset", "wait", "skip", "mark"} => y.late = 0
      /\ y.late > 0 => (run[r].late > 0 \/ Stopped(r))
      /\ y.err # "json" => y.late <= 1
  OBVIOUS
<1> QED
  BY <1>1, QuietRunKeeps

LEMMA RetryKeeps ==
  ASSUME Inv, NEW t \in Retries, run[<<t, 0>>] = NoRun, UNCHANGED <<items, stored, main, cancel, faults>>,
         NEW kind \in {"chunk", "item"}, NEW ci \in ChunkIds \cup {-1}, NEW E \in SUBSET Items,
         Moves(<<t, 0>>, RetryRun(kind, ci, E)),
         NEW w \in WriteType, write' = [write EXCEPT ![<<t, 0>>] = w]
  PROVE  Inv'
<1>1. PICK r \in Runs : r = <<t, 0>>
  BY DEF Runs
<1>2. r[1] \notin Mains /\ faults' \in Nat
  BY <1>1, GroupAssumption DEF Inv, TypeOK
<1>3. PICK y : y = RetryRun(kind, ci, E) /\ Moves(r, y)
  BY <1>1
<1>4. /\ y \in RunType /\ y.pc = "reset" /\ y.left = E /\ y.entries = E
      /\ y.late = 0 /\ y.err = "none"
  BY <1>3, ToRetry
<1>5. OwedBy(run[r]) = {}
  BY <1>1, NoRunType DEF OwedBy
<1>6. y \in RunType /\ Moves(r, y) /\ y.left \subseteq y.entries /\ y.pc = "reset" /\ y.late = 0 /\ y.err = "none"
  BY <1>3, <1>4
<1>7. write' = [write EXCEPT ![r] = w] /\ UNCHANGED <<items, stored, main, cancel>>
  BY <1>1
<1>8. /\ r[1] \in Mains => ~Outside(r) /\ (Tardy(y) => Tardy(run[r]))
      /\ OwedBy(run[r]) \subseteq OwedBy(y)
  BY <1>2, <1>5
<1> QED
  BY <1>2, <1>6, <1>7, <1>8, RetryBegins

LEMMA RetryChunkKeeps == ASSUME Inv, NEW t \in Retries, RetryChunk(t) PROVE Inv'
<1>1. PICK ci \in ChunkIds : Moves(<<t, 0>>, RetryRun("chunk", ci, Eligible(stored[ci])))
  BY DEF RetryChunk, RetryRun
<1>2. /\ run[<<t, 0>>] = NoRun /\ UNCHANGED <<items, stored, main, cancel, faults>>
      /\ write' = [write EXCEPT ![<<t, 0>>] = Report("chunk", "pending", "none", 0)]
  BY DEF RetryChunk, Fresh
<1>3. Eligible(stored[ci]) \in SUBSET Items
  BY DEF Inv, TypeOK, ChunkType, Eligible
<1>4. Report("chunk", "pending", "none", 0) \in WriteType
  BY ReportType DEF ChunkStatus
<1>5. PICK E, w : E = Eligible(stored[ci]) /\ w = Report("chunk", "pending", "none", 0)
  OBVIOUS
<1> QED
  BY <1>1, <1>2, <1>3, <1>4, <1>5, RetryKeeps

LEMMA RetryItemKeeps == ASSUME Inv, NEW t \in Retries, RetryItem(t) PROVE Inv'
<1>1. PICK i \in Items : Moves(<<t, 0>>, RetryRun("item", RetryTag(tag[i]), {i}))
  BY DEF RetryItem, RetryRun
<1>2. run[<<t, 0>>] = NoRun /\ UNCHANGED <<items, stored, main, cancel, write, faults>>
  BY DEF RetryItem, Fresh
<1>3. RetryTag(tag[i]) \in ChunkIds \cup {-1}
  BY DEF Inv, TypeOK, RetryTag
<1>4. <<t, 0>> \in Runs
  BY DEF Runs
<1>5. PICK w \in WriteType : write' = [write EXCEPT ![<<t, 0>>] = w]
  BY <1>2, <1>4, SameWrite
<1>6. PICK E, ci : E = {i} /\ ci = RetryTag(tag[i])
  OBVIOUS
<1>7. E \in SUBSET Items /\ ci \in ChunkIds \cup {-1} /\ Moves(<<t, 0>>, RetryRun("item", ci, E))
  BY <1>1, <1>3, <1>6
<1> QED
  BY <1>2, <1>5, <1>7, RetryKeeps

LEMMA ResetKeeps == ASSUME Inv, NEW t \in Retries, Reset(t) PROVE Inv'
<1>1. PICK r \in Runs : r = <<t, 0>>
  BY DEF Runs
<1>2. /\ run[r] \in RunType /\ run[r].pc = "reset" /\ Sound(r) /\ ~Outside(r) /\ faults' \in Nat
      /\ UNCHANGED <<stored, main, cancel, write, faults>> /\ r[1] \notin Mains
  BY <1>1, RunOf, GroupAssumption DEF Inv, TypeOK, Reset, At, Outside
<1>3. CASE run[r].left = {}
  <2>1. PICK y : y = [run[r] EXCEPT !.pc = "wait"] /\ Moves(r, y)
    BY <1>1, <1>3 DEF Reset
  <2>2. /\ y \in RunType /\ y.pc = "wait" /\ y.left = run[r].left /\ y.entries = run[r].entries
        /\ y.late = run[r].late /\ y.err = run[r].err
    BY <1>2, <2>1, ToPc DEF PCs
  <2>3. OwedBy(run[r]) \subseteq OwedBy(y) /\ (Tardy(y) => Tardy(run[r]))
    BY <1>2, <2>2 DEF OwedBy, Tardy
  <2>4. UNCHANGED items
    BY <1>1, <1>3 DEF Reset
  <2>5. y.late = 0 /\ y.err # "json" /\ y.left \subseteq y.entries
    BY <1>2, <2>2 DEF Sound
  <2>6. y \in RunType /\ Moves(r, y) /\ y.pc = "wait"
    BY <2>1, <2>2
  <2> QED
    BY <1>2, <2>3, <2>4, <2>5, <2>6, SameWrite, GoesOn
<1>4. CASE run[r].left # {}
  <2>1. PICK i \in Items :
          /\ First(i, run[r].left) /\ Answer(i, "pending", "none", Untagged)
          /\ Moves(r, [run[r] EXCEPT !.left = @ \ {i}]) /\ UNCHANGED receipts
    BY <1>1, <1>4 DEF Reset
  <2>2. Untagged \in ChunkIds \cup {-1, Untagged} /\ receipts' \subseteq Items
    BY <2>1 DEF Inv, TypeOK
  <2> QED
    BY <1>2, <2>1, <2>2, AnswerCodes, Treated
<1> QED
  BY <1>3, <1>4

-----------------------------------------------------------------------------

LEMMA InitInv == Init => Inv
<1> SUFFICES ASSUME Init PROVE Inv
  OBVIOUS
<1>1. /\ \A r \in Runs : run[r] = NoRun /\ write[r] = NoWrite
      /\ \A t \in Mains : main[t] = "queued" /\ ~cancel[t]
  BY DEF Init
<1>2. TypeOK
  <2>1. /\ status \in [Items -> Saved \cup InFlight \cup {"failed"}]
        /\ code \in [Items -> Errors \cup {"none"}]
        /\ tag \in [Items -> ChunkIds \cup {-1, Untagged}]
    BY DEF Init, InFlight
  <2>2. receipts \subseteq Items /\ stored \in [ChunkIds -> ChunkType] /\ faults \in Nat
    BY KnownAssumption, NoChunkType DEF Init
  <2>3. main \in [Mains -> {"queued", "running", "over"}] /\ cancel \in [Mains -> BOOLEAN]
    BY DEF Init
  <2>4. run \in [Runs -> RunType] /\ write \in [Runs -> WriteType]
    BY NoRunType, NoWriteType DEF Init
  <2> QED
    BY <2>1, <2>2, <2>3, <2>4 DEF TypeOK
<1>3. Begun /\ \A r \in Runs : Sound(r)
  BY <1>1, NoRunType DEF Begun, Sound
<1>4. Room
  <2>1. \A t \in Mains, ci \in ChunkIds : Outside(<<t, ci>>)
    BY <1>1, NoRunType, NoWriteType DEF Outside, Runs
  <2>2. \A t \in Mains : Inside(t) = {}
    BY <2>1 DEF Inside
  <2> QED
    BY <1>1, <2>2, FS_EmptySet, SizeAssumption DEF Room
<1>5. NoneForgotten
  BY <1>1, DispatchAssumption DEF NoneForgotten
<1> QED
  BY <1>2, <1>3, <1>4, <1>5 DEF Inv

LEMMA NextInv == Inv /\ [Next]_vars => Inv'
<1> SUFFICES ASSUME Inv, [Next]_vars PROVE Inv'
  OBVIOUS
<1>1. ASSUME NEW t \in Mains, MainStart(t) \/ MainEnds(t) PROVE Inv'
  BY <1>1, MainStartKeeps, MainEndsKeeps
<1>2. ASSUME NEW t \in Retries, RetryChunk(t) \/ RetryItem(t) \/ Reset(t) PROVE Inv'
  BY <1>2, RetryChunkKeeps, RetryItemKeeps, ResetKeeps
<1>3. ASSUME NEW r \in Runs, Step(r) \/ Die(r) PROVE Inv'
  <2>1. CASE ReadChunks(r) \/ WriteChunks(r) \/ Die(r)
    BY <2>1, ReadChunksKeeps, WriteChunksKeeps, DieKeeps
  <2>2. CASE Extract(r)
    BY <2>2, EnterKeeps, SkipKeeps, MarkProcessingKeeps, ExtractedKeeps, CallFailsKeeps,
       BackoffKeeps, CallAgainKeeps, WokenKeeps DEF Extract
  <2>3. CASE Settle(r)
    BY <2>3, SaveKeeps, SaveEndsKeeps, FanCallKeeps, FanSaveKeeps, FanFailsKeeps,
       FanEndsKeeps, MarkFailedKeeps DEF Settle
  <2> QED
    BY <1>3, <2>1, <2>2, <2>3 DEF Step
<1>4. CASE UNCHANGED vars
  <2>1. UNCHANGED <<status, code, tag, receipts, stored, main, cancel, run, write, faults>>
    BY <1>4 DEF vars, items
  <2>2. TypeOK' /\ Begun' /\ (\A r \in Runs : Sound(r)')
    BY <2>1 DEF Inv, TypeOK, Begun, Sound, Stopped
  <2>3. NoneForgotten' /\ Room'
    BY <2>1 DEF Inv, NoneForgotten, Owed, Room, Inside, Outside, TardyOf, Tardy
  <2> QED
    BY <2>2, <2>3 DEF Inv
<1> QED
  BY <1>1, <1>2, <1>3, <1>4 DEF Next

(* What is true of the runs, the messages and the semaphore at every moment, and
   from which the two results below are read off.                                *)
THEOREM InvHolds == Spec => []Inv
  BY InitInv, NextInv, PTL DEF Spec

-----------------------------------------------------------------------------

(* An image in flight always has somebody who answers it: the message that waits
   with it or a run that has still to treat it, unless that run has died.  It holds
   through every loop of a task, the fan-out and the skip, whatever the provider
   answers, and while users retry chunks and images.                              *)
THEOREM NoImageForgotten == Spec => []NoneForgotten
<1>1. Inv => NoneForgotten
  BY DEF Inv
<1> QED
  BY <1>1, InvHolds, PTL

(* After an account error, chunks that do not fan out begin at most one call each,
   and they are fewer than the semaphore lets in: its place of the chunk that was
   refused is not theirs.                                                         *)
THEOREM FewLateCalls == Spec => []LateCalls
<1>1. Inv => LateCalls
  <2> SUFFICES ASSUME Inv, NEW t \in Mains, \A ci \in ChunkIds : run[<<t, ci>>].err # "json"
               PROVE  LET late == {ci \in ChunkIds : run[<<t, ci>>].late > 0} IN
                      /\ \A ci \in late : run[<<t, ci>>].late = 1
                      /\ Cardinality(late) < Concurrency
    BY DEF LateCalls
  <2> DEFINE late == {ci \in ChunkIds : run[<<t, ci>>].late > 0}
  <2>1. ASSUME NEW ci \in late
        PROVE  run[<<t, ci>>].late = 1 /\ cancel[t] /\ ci \in TardyOf(t)
    <3>1. PICK r \in Runs : r = <<t, ci>>
      BY DEF Runs
    <3>2. Sound(r) /\ run[r].late \in Nat /\ run[r].late > 0 /\ run[r].err # "json" /\ r[1] = t
      BY <3>1, RunOf, RunFields DEF Inv
    <3>3. run[r].late = 1 /\ cancel[t]
      BY <3>2 DEF Sound, Stopped
    <3> QED
      BY <3>1, <3>2, <3>3 DEF TardyOf, Tardy
  <2>2. Cardinality(late) < Concurrency
    <3>1. CASE late = {}
      <4> HIDE DEF late
      <4>1. Cardinality(late) = 0
        BY <3>1, FS_EmptySet
      <4> QED
        BY <4>1, SizeAssumption
    <3>2. CASE late # {}
      <4>1. cancel[t] /\ late \in SUBSET TardyOf(t) /\ TardyOf(t) \in SUBSET ChunkIds
        BY <2>1, <3>2 DEF TardyOf
      <4> HIDE DEF late
      <4>2. /\ Cardinality(late) <= Cardinality(TardyOf(t)) /\ Cardinality(late) \in Nat
            /\ Cardinality(TardyOf(t)) \in Nat
        BY <4>1, FewerChunks
      <4>3. Cardinality(TardyOf(t)) < Concurrency
        BY <4>1 DEF Inv, Room
      <4> QED
        BY <4>2, <4>3, SizeAssumption
    <3> QED
      BY <3>1, <3>2
  <2> QED
    BY <2>1, <2>2
<1> QED
  BY <1>1, InvHolds, PTL

-----------------------------------------------------------------------------

(* A session that fits in one chunk, and whose retries are posted one at a time. *)
OneChunk == (\A t, u \in Mains : t = u) /\ Cardinality(Items) <= ChunkSize /\ MaxPosts <= 1

(* A run that reports what becomes of its chunk; the others retry one image. *)
Reporter(x) == x.kind \in {"main", "chunk"}
Busy(x, w)  == Reporter(x) /\ ~(x.pc \in {"over", "died"} /\ w.stage = "none")

(* Where a run is tells what it has called and what it is about to write. *)
Placed(x, w) ==
    /\ x.kind = "none" => x.pc = "none"
    /\ ~Reporter(x) => w.stage = "none"
    /\ Reporter(x) =>
        /\ x.ci = 0 /\ x.pc \notin {"none", "skip"}
        /\ x.pc \in {"reset", "wait", "mark"} => x.calls = 0
        /\ x.pc \in {"call", "backoff", "save", "fan", "fancall", "fail"} => x.calls > 0
        /\ x.pc = "died" => w.stage = "none"
        /\ w.stage # "none" => /\ w.inc = 1 <=> x.pc = "mark"
                               /\ w.status \in {"done", "failed"} <=> x.pc = "over"

Posted == {t \in Retries : run[<<t, 0>>].pc = "reset"}

(* Only the first chunk is in use, and what a run has read of it is what is stored. *)
OneInUse ==
    /\ \A ci \in ChunkIds \ {0} : stored[ci] = NoChunk
    /\ \A r \in Runs : Placed(run[r], write[r]) /\ (write[r].stage = "write" => write[r].snap = stored)
    /\ \A t \in Mains :
         IF main[t] = "queued" THEN /\ ~cancel[t] /\ stored[0] = NoChunk
                                    /\ \A r \in Runs : ~Reporter(run[r])
         ELSE stored[0].status # "absent" /\ stored[0].items = Items
    /\ \A r \in Runs : Reporter(run[r]) /\ run[r].pc = "wait" => ~Stopped(r)
    /\ \A r \in Runs : r[1] \in Mains => run[r].kind \in {"none", "main"} /\ run[r].pc # "reset"
    /\ IsFiniteSet(Posted)

(* One run at a time works on it, and while it does its record does not say failed,
   but for what the request that retries it is about to write.                     *)
OneAtWork ==
    /\ \A r, q \in Runs : Busy(run[r], write[r]) /\ Busy(run[q], write[q]) => r = q
    /\ \A r \in Runs : Busy(run[r], write[r]) /\ stored[0].status = "failed"
                         => run[r].pc = "reset" /\ write[r].stage # "none"
    /\ \/ stored[0].status \in {"absent", "done", "failed"}
       \/ \E r \in Runs : Reporter(run[r]) /\ (run[r].pc = "died" \/ Busy(run[r], write[r]))

(* A run is counted before it calls, and begins only while fewer than three were. *)
Counts(x, w)   == Reporter(x) /\ (x.calls > 0 \/ (x.pc = "mark" /\ w.stage = "none"))
Counted        == {r \in Runs : Counts(run[r], write[r])}
ToCount(x, w)  == Reporter(x) /\ (x.pc \in {"reset", "wait"} \/ (x.pc = "mark" /\ w.stage # "none"))
Nobody         == \A r \in Runs : Reporter(run[r]) => run[r].pc # "died"
AttemptsCount ==
    /\ IsFiniteSet(Counted) /\ Cardinality(Counted) <= stored[0].attempts /\ stored[0].attempts <= 3
    /\ \A r \in Runs : ToCount(run[r], write[r]) => stored[0].attempts <= 2
    /\ Nobody => Cardinality(Counted) = stored[0].attempts

(* What a run that has failed leaves behind. *)
FailedLeft(x, w) ==
    Reporter(x) =>
        /\ x.entries = Items
        /\ x.pc = "fail" \/ (x.pc \in {"fan", "fancall"} /\ ~x.good) =>
              \A i \in Items \ x.left : status[i] = "failed"
        /\ w.stage # "none" /\ w.status = "failed" => \A i \in Items : status[i] = "failed"
AllFailed ==
    /\ \A r \in Runs : run[r].kind # "item" /\ FailedLeft(run[r], write[r])
    /\ stored[0].status = "failed" => \A i \in Items : status[i] = "failed"

OneInv == Inv /\ OneInUse /\ OneAtWork /\ AttemptsCount
OneKept == OneInUse' /\ OneAtWork' /\ AttemptsCount' /\ (AllFailed => AllFailed')

-----------------------------------------------------------------------------
LEMMA OthersStay ==
  ASSUME Inv, NEW r \in Runs, NEW y \in RunType, Moves(r, y),
         NEW w \in WriteType, write' = [write EXCEPT ![r] = w]
  PROVE  /\ run'[r] = y /\ write'[r] = w
         /\ \A o \in Runs : o # r => run'[o] = run[o] /\ write'[o] = write[o]
  BY Moved, Wrote DEF Inv

(* A run moves and stores nothing. *)
LEMMA RunMoves ==
  ASSUME OneInv, NEW r \in Runs, NEW y \in RunType, Moves(r, y),
         NEW w \in WriteType, write' = [write EXCEPT ![r] = w],
         UNCHANGED <<stored, main>>, cancel' = cancel \/ Busy(run[r], write[r]),
         y.kind = run[r].kind, Placed(y, w), w.stage = "write" => w.snap = stored,
         y.pc = "reset" => run[r].pc = "reset",
         Reporter(y) /\ y.pc = "wait" => ~Stopped(r)',
         Busy(y, w) => Busy(run[r], write[r]),
         Busy(run[r], write[r]) => Busy(y, w) \/ y.pc = "died",
         Reporter(y) => run[r].pc # "died",
         Busy(y, w) /\ stored[0].status = "failed" => y.pc = "reset" /\ w.stage # "none",
         Counts(y, w) => Counts(run[r], write[r]),
         Counts(run[r], write[r]) => Counts(y, w) \/ y.pc = "died",
         ToCount(y, w) => ToCount(run[r], write[r])
  PROVE  OneInUse' /\ OneAtWork' /\ AttemptsCount'
<1>1. /\ run'[r] = y /\ write'[r] = w
      /\ \A o \in Runs : o # r => run'[o] = run[o] /\ write'[o] = write[o]
  BY OthersStay DEF OneInv
<1>2. Inv /\ OneInUse /\ OneAtWork /\ AttemptsCount /\ stored' = stored /\ main' = main
  BY DEF OneInv
<1>3. \A o \in Runs : Reporter(run'[o]) <=> Reporter(run[o])
  BY <1>1 DEF Reporter
<1>4. OneInUse'
  <2>1. \A o \in Runs : Placed(run[o], write[o])' /\ (write'[o].stage = "write" => write'[o].snap = stored')
    <3>1. ASSUME NEW o \in Runs, o # r
          PROVE  Placed(run'[o], write'[o]) /\ (write'[o].stage = "write" => write'[o].snap = stored)
      BY <1>1, <1>2, <3>1 DEF OneInUse
    <3> QED
      BY <1>1, <1>2, <3>1
  <2>2. ASSUME NEW t \in Mains
        PROVE  IF main'[t] = "queued" THEN /\ ~cancel'[t] /\ stored'[0] = NoChunk
                                           /\ \A o \in Runs : ~Reporter(run'[o])
               ELSE stored'[0].status # "absent" /\ stored'[0].items = Items
    <3>1. main[t] = "queued" => cancel' = cancel
      BY <1>2 DEF OneInUse, Busy
    <3> QED
      BY <1>2, <1>3, <3>1 DEF OneInUse
  <2>3. ASSUME NEW o \in Runs, Reporter(run'[o]), run'[o].pc = "wait" PROVE ~Stopped(o)'
    <3>1. CASE o = r
      BY <1>1, <2>3, <3>1
    <3>2. CASE o # r
      <4>1. Busy(run[o], write[o]) /\ ~Stopped(o)
        BY <1>1, <1>2, <2>3, <3>2 DEF Busy, OneInUse
      <4>2. cancel' = cancel
        BY <1>2, <3>2, <4>1 DEF OneAtWork
      <4> QED
        BY <4>1, <4>2 DEF Stopped
    <3> QED
      BY <3>1, <3>2
  <2>4. \A o \in Runs : o[1] \in Mains => run'[o].kind \in {"none", "main"} /\ run'[o].pc # "reset"
    BY <1>1, <1>2 DEF OneInUse
  <2>5. IsFiniteSet(Posted')
    <3>1. ASSUME NEW t \in Retries, run'[<<t, 0>>].pc = "reset" PROVE run[<<t, 0>>].pc = "reset"
      <4>1. <<t, 0>> \in Runs
        BY DEF Runs
      <4> QED
        BY <1>1, <3>1, <4>1
    <3>2. Posted' \in SUBSET Posted /\ IsFiniteSet(Posted)
      BY <1>2, <3>1 DEF Posted, OneInUse
    <3> QED
      BY <3>2, FS_Subset
  <2> QED
    BY <1>2, <2>1, <2>2, <2>3, <2>4, <2>5 DEF OneInUse
<1>5. OneAtWork'
  <2>1. \A o \in Runs : Busy(run'[o], write'[o]) => Busy(run[o], write[o])
    BY <1>1
  <2>2. \A o \in Runs : Busy(run'[o], write'[o]) /\ stored'[0].status = "failed"
                         => run'[o].pc = "reset" /\ write'[o].stage # "none"
    BY <1>1, <1>2 DEF OneAtWork
  <2>3. \/ stored'[0].status \in {"absent", "done", "failed"}
        \/ \E o \in Runs : Reporter(run'[o]) /\ (run'[o].pc = "died" \/ Busy(run'[o], write'[o]))
    <3>1. ASSUME NEW o \in Runs, Reporter(run[o]), run[o].pc = "died" \/ Busy(run[o], write[o])
          PROVE  Reporter(run'[o]) /\ (run'[o].pc = "died" \/ Busy(run'[o], write'[o]))
      BY <1>1, <1>3, <3>1
    <3> QED
      BY <1>2, <3>1 DEF OneAtWork
  <2>4. \A o, q \in Runs : Busy(run'[o], write'[o]) /\ Busy(run'[q], write'[q]) => o = q
    BY <1>2, <2>1 DEF OneAtWork
  <2> QED
    BY <2>2, <2>3, <2>4 DEF OneAtWork
<1>6. AttemptsCount'
  <2>1. Counted' \in SUBSET Counted /\ IsFiniteSet(Counted)
    BY <1>1, <1>2 DEF Counted, AttemptsCount
  <2>2. /\ IsFiniteSet(Counted') /\ Cardinality(Counted') <= Cardinality(Counted)
        /\ Cardinality(Counted') \in Nat /\ Cardinality(Counted) \in Nat
    BY <2>1, FS_Subset, FS_CardinalityType
  <2>3. stored[0].attempts \in Nat
    BY <1>2, ChunkIdsFinite DEF Inv, TypeOK, ChunkType
  <2>4. ASSUME Nobody' PROVE Cardinality(Counted') = stored[0].attempts
    <3>1. Nobody
      BY <1>1, <1>3, <2>4 DEF Nobody
    <3>2. Reporter(y) => y.pc # "died"
      BY <1>1, <2>4 DEF Nobody
    <3>3. Counts(run[r], write[r]) => Counts(y, w)
      BY <3>2 DEF Counts, Reporter
    <3>4. Counted' = Counted
      BY <1>1, <2>1, <3>3 DEF Counted
    <3> QED
      BY <1>2, <3>1, <3>4 DEF AttemptsCount
  <2>5. \A o \in Runs : ToCount(run'[o], write'[o]) => stored[0].attempts <= 2
    BY <1>1, <1>2 DEF AttemptsCount
  <2> QED
    BY <1>2, <2>2, <2>3, <2>4, <2>5 DEF AttemptsCount
<1> QED
  BY <1>4, <1>5, <1>6

(* A run that is at work moves, and says what it leaves behind when it fails. *)
LEMMA RunWorks ==
  ASSUME OneInv, NEW r \in Runs, run[r].pc \notin {"none", "over", "died"}, write[r].stage = "none",
         NEW y \in RunType, Moves(r, y),
         NEW w \in WriteType, write' = [write EXCEPT ![r] = w], w.stage \in {"none", "read"},
         UNCHANGED <<stored, main>>, cancel' = cancel \/ Reporter(run[r]),
         y.kind = run[r].kind, y.pc = "reset" => run[r].pc = "reset",
         ~Reporter(run[r]) => w.stage = "none",
         Reporter(run[r]) =>
            /\ Placed(y, w) /\ (y.pc = "wait" => ~Stopped(r)')
            /\ y.pc = "over" => w.stage # "none"
            /\ y.pc # "died"
            /\ Counts(y, w) <=> Counts(run[r], write[r])
            /\ ToCount(y, w) => ToCount(run[r], write[r])
            /\ AllFailed => FailedLeft(y, w)'
  PROVE  OneKept
<1>1. Inv /\ OneInUse /\ OneAtWork /\ AttemptsCount
  BY DEF OneInv
<1>2. Placed(y, w)
  <2>1. Placed(run[r], write[r])
    BY <1>1 DEF OneInUse
  <2> QED
    BY <2>1 DEF Placed, Reporter
<1>3. Busy(run[r], write[r]) <=> Reporter(run[r])
  BY DEF Busy
<1>4. Reporter(y) <=> Reporter(run[r])
  BY DEF Reporter
<1>5. Reporter(run[r]) => stored[0].status # "failed"
  BY <1>1, <1>3 DEF OneAtWork
<1>6. /\ Busy(y, w) => Busy(run[r], write[r])
      /\ Busy(run[r], write[r]) => Busy(y, w)
      /\ Busy(y, w) /\ stored[0].status = "failed" => y.pc = "reset" /\ w.stage # "none"
  BY <1>3, <1>4, <1>5 DEF Busy
<1>7. /\ Counts(y, w) => Counts(run[r], write[r])
      /\ Counts(run[r], write[r]) => Counts(y, w)
      /\ ToCount(y, w) => ToCount(run[r], write[r])
  BY <1>4 DEF Counts, ToCount
<1>8. OneInUse' /\ OneAtWork' /\ AttemptsCount'
  BY <1>2, <1>3, <1>4, <1>6, <1>7, RunMoves
<1>9. ASSUME AllFailed PROVE AllFailed'
  <2>1. /\ run'[r] = y /\ write'[r] = w
        /\ \A o \in Runs : o # r => run'[o] = run[o] /\ write'[o] = write[o]
    BY <1>1, OthersStay
  <2>2. Reporter(run[r]) /\ run[r].kind # "item"
    BY <1>1, <1>9 DEF AllFailed, OneInUse, Placed, Reporter, Inv, TypeOK, RunType
  <2>3. ASSUME NEW o \in Runs, o # r PROVE run'[o].kind # "item" /\ FailedLeft(run[o], write[o])'
    <3>1. ~Busy(run[o], write[o])
      BY <1>1, <1>3, <2>2, <2>3 DEF OneAtWork
    <3>2. FailedLeft(run[o], write[o]) /\ run[o].kind # "item"
      BY <1>9 DEF AllFailed
    <3> QED
      BY <2>1, <2>3, <3>1, <3>2 DEF FailedLeft, Busy
  <2>4. FailedLeft(run[r], write[r])' /\ run'[r].kind # "item"
    BY <1>9, <2>1, <2>2 DEF FailedLeft
  <2> QED
    BY <1>5, <2>2, <2>3, <2>4 DEF AllFailed
<1> QED
  BY <1>8, <1>9 DEF OneKept

(* What a report says, by the kind of the run. *)
LEMMA ReportIs ==
  ASSUME NEW x, NEW s, NEW e, NEW n, NEW w, w = Report(x.kind, s, e, n)
  PROVE  /\ w.stage \in {"none", "read"}
         /\ Reporter(x) => w.stage = "read" /\ w.status = s /\ w.inc = n
         /\ x.kind = "item" => w.stage = "none"
<1>1. CASE x.kind = "item"
  BY <1>1 DEF Report, NoWrite, Reporter
<1>2. CASE x.kind # "item"
  <2>1. w = [NoWrite EXCEPT !.stage = "read", !.status = s, !.err = e, !.inc = n]
    BY <1>2 DEF Report
  <2> QED
    BY <1>2, <2>1 DEF NoWrite
<1> QED
  BY <1>1, <1>2

(* What stays of a run in each of its moves. *)
Like(y, x) == y.kind = x.kind /\ y.ci = x.ci /\ y.entries = x.entries

LEMMA LikePc == ASSUME NEW x \in RunType, NEW pc, NEW y, y = [x EXCEPT !.pc = pc]
                PROVE  Like(y, x) /\ y.calls = x.calls /\ y.good = x.good
  BY DEF Like, RunType

LEMMA LikeLeft == ASSUME NEW x \in RunType, NEW S, NEW y, y = [x EXCEPT !.left = S]
                  PROVE  Like(y, x) /\ y.calls = x.calls /\ y.good = x.good
  BY DEF Like, RunType

LEMMA LikeEntered == ASSUME NEW x \in RunType, NEW pc, NEW y, y = EnteredRun(x, pc)
                     PROVE  Like(y, x) /\ y.calls = x.calls
  BY DEF Like, RunType, EnteredRun

LEMMA LikeSaved == ASSUME NEW x \in RunType, NEW got, NEW y, y = SavedRun(x, got)
                   PROVE  Like(y, x) /\ y.calls = x.calls
  BY DEF Like, RunType, SavedRun

LEMMA LikeLater == ASSUME NEW x \in RunType, NEW e, NEW n, NEW y, y = LaterRun(x, e, n)
                   PROVE  Like(y, x) /\ y.calls = x.calls
  BY DEF Like, RunType, LaterRun

LEMMA LikeFailed == ASSUME NEW x \in RunType, NEW e, NEW y, y = Failed(x, e)
                    PROVE  Like(y, x) /\ y.calls = x.calls
  BY DEF Like, RunType, Failed

LEMMA LikeLoop == ASSUME NEW x \in RunType, NEW S, NEW y, y = LoopRun(x, S)
                  PROVE  Like(y, x) /\ y.calls = x.calls /\ y.good = x.good
  BY DEF Like, RunType, LoopRun

LEMMA LikeFan == ASSUME NEW x \in RunType, NEW S, NEW good, NEW y, y = FanRun(x, S, good)
                 PROVE  Like(y, x) /\ y.calls = x.calls /\ y.good = good
  BY DEF Like, RunType, FanRun

LEMMA LikeCalled == ASSUME NEW r, NEW x \in RunType, NEW y, y = Called(r, x)
                    PROVE  Like(y, x) /\ y.calls = x.calls + 1 /\ y.good = x.good
  BY DEF Like, RunType, Called
Calls == {"call", "backoff", "save", "fan", "fancall", "fail"}

LEMMA AtRun ==
  ASSUME OneInv, NEW r \in Runs, NEW pc, At(r, pc), pc # "none"
  PROVE  /\ run[r] \in RunType /\ write[r] \in WriteType /\ write[r].stage = "none" /\ run[r].pc = pc
         /\ Placed(run[r], write[r]) /\ (Reporter(run[r]) \/ run[r].kind = "item")
         /\ run[r].calls \in Nat /\ run[r].left \subseteq Items
<1>1. run[r] \in RunType /\ write[r] \in WriteType /\ Placed(run[r], write[r])
  BY RunOf DEF OneInv, Inv, OneInUse
<1>2. run[r].kind \in {"none", "main", "chunk", "item"} /\ run[r].kind # "none"
  BY <1>1 DEF RunType, At, Placed
<1> QED
  BY <1>1, <1>2, RunFields DEF At, Reporter

(* A step between two reports. *)
LEMMA QuietStep ==
  ASSUME OneInv, NEW r \in Runs, NEW pc, At(r, pc), pc \notin {"none", "over", "died"},
         NEW y \in RunType, Moves(r, y), Like(y, run[r]), UNCHANGED <<stored, main, write>>,
         cancel' = cancel \/ Reporter(run[r]), y.pc = "reset" => pc = "reset",
         Reporter(run[r]) =>
            \/ y.pc = pc /\ y.calls = run[r].calls /\ pc # "wait"
            \/ pc = "reset" /\ y.pc = "wait" /\ y.calls = run[r].calls /\ ~Stopped(r)'
            \/ pc = "mark" /\ y.pc = "call" /\ y.calls = run[r].calls + 1
            \/ pc \in Calls /\ y.pc \in Calls /\ y.calls >= run[r].calls,
         AllFailed => FailedLeft(y, write[r])'
  PROVE  OneKept
<1>1. /\ run[r] \in RunType /\ write[r] \in WriteType /\ write[r].stage = "none" /\ run[r].pc = pc
      /\ Placed(run[r], write[r]) /\ (Reporter(run[r]) \/ run[r].kind = "item")
      /\ run[r].calls \in Nat /\ y.calls \in Nat
  BY AtRun, RunFields
<1>2. PICK w : w = write[r]
  OBVIOUS
<1>3. w \in WriteType /\ write' = [write EXCEPT ![r] = w] /\ w.stage = "none"
  BY <1>1, <1>2 DEF OneInv, Inv, TypeOK
<1>4. y.kind = run[r].kind /\ y.ci = run[r].ci
  BY DEF Like
<1>5. AllFailed => FailedLeft(y, w)'
  BY <1>1, <1>2 DEF FailedLeft
<1>6. Reporter(y) <=> Reporter(run[r])
  BY <1>4 DEF Reporter
<1>7. ASSUME Reporter(run[r])
      PROVE  /\ Placed(y, w) /\ y.pc \notin {"over", "died"}
             /\ Counts(y, w) <=> Counts(run[r], write[r])
             /\ ToCount(y, w) => ToCount(run[r], write[r])
             /\ y.pc = "wait" => ~Stopped(r)'
  BY <1>1, <1>3, <1>4, <1>6, <1>7 DEF Placed, Counts, ToCount, Calls
<1> QED
  BY <1>1, <1>3, <1>4, <1>5, <1>7, RunWorks

(* What a run leaves behind when it does not fail. *)
LEMMA LeavesNone ==
  ASSUME AllFailed, NEW r \in Runs, NEW y, Like(y, run[r]), y.pc \notin {"fail", "fan", "fancall"},
         NEW w, w.stage = "none" \/ w.status # "failed"
  PROVE  FailedLeft(y, w)'
<1>1. Reporter(y) => Reporter(run[r]) /\ y.entries = Items
  BY DEF AllFailed, FailedLeft, Like, Reporter
<1> QED
  BY <1>1 DEF FailedLeft

LEMMA ResetOne == ASSUME OneInv, NEW t \in Retries, Reset(t) PROVE OneKept
<1> DEFINE r == <<t, 0>>
<1>0. r \in Runs /\ r[1] = t
  BY DEF Runs
<1> HIDE DEF r
<1>1. At(r, "reset") /\ UNCHANGED <<stored, main, cancel, write>>
  BY DEF Reset, r
<1>2. run[r] \in RunType /\ write[r].stage = "none" /\ run[r].pc = "reset"
  BY <1>0, <1>1, AtRun
<1>3. ~Stopped(r)'
  BY <1>0, GroupAssumption DEF Stopped
<1>4. PICK y \in RunType : /\ Moves(r, y) /\ Like(y, run[r]) /\ y.calls = run[r].calls
                           /\ y.pc \in {"reset", "wait"}
  <2>1. CASE run[r].left = {}
    <3>1. PICK y : y = [run[r] EXCEPT !.pc = "wait"] /\ Moves(r, y)
      BY <2>1 DEF Reset, r
    <3>2. y \in RunType /\ y.pc = "wait"
      BY <1>2, <3>1, ToPc DEF PCs
    <3>3. Like(y, run[r]) /\ y.calls = run[r].calls
      BY <1>2, <3>1, LikePc
    <3> QED
      BY <3>1, <3>2, <3>3
  <2>2. CASE run[r].left # {}
    <3>1. PICK i \in Items : Moves(r, [run[r] EXCEPT !.left = run[r].left \ {i}])
      BY <2>2 DEF Reset, r
    <3>2. PICK y : y = [run[r] EXCEPT !.left = run[r].left \ {i}] /\ Moves(r, y)
      BY <3>1
    <3> QED
      BY <1>2, <3>2, ToLeft, LikeLeft
  <2> QED
    BY <2>1, <2>2
<1>5. AllFailed => FailedLeft(y, write[r])'
  BY <1>0, <1>1, <1>2, <1>4, LeavesNone
<1> QED
  BY <1>0, <1>1, <1>2, <1>3, <1>4, <1>5, QuietStep

LEMMA EnterOne == ASSUME OneInv, NEW r \in Runs, Enter(r) PROVE OneKept
<1>1. /\ At(r, "wait") /\ UNCHANGED <<stored, main, cancel>>
      /\ Reporter(run[r]) => ~Stopped(r)
  BY DEF Enter, At, OneInv, OneInUse
<1>2. /\ run[r] \in RunType /\ write[r].stage = "none" /\ run[r].pc = "wait"
      /\ Placed(run[r], write[r]) /\ (Reporter(run[r]) \/ run[r].kind = "item")
  BY <1>1, AtRun
<1>3. PICK pc \in {"skip", "mark"}, s \in ChunkStatus, e \in Errors \cup {"none"}, n \in {0, 1} :
        /\ Moves(r, [run[r] EXCEPT !.pc = pc, !.left = run[r].entries])
        /\ Reports(r, s, e, n)
        /\ ~Stopped(r) => pc = "mark" /\ s = "extracting" /\ n = 1
  <2>1. "account" \in Errors /\ {"failed", "extracting"} \subseteq ChunkStatus
    BY DEF Errors, ChunkStatus
  <2> QED
    BY <2>1 DEF Enter
<1>4. PICK y : y = EnteredRun(run[r], pc) /\ Moves(r, y)
  BY <1>3 DEF EnteredRun
<1>5. y \in RunType /\ y.pc = pc /\ Like(y, run[r]) /\ y.calls = run[r].calls
  BY <1>2, <1>4, ToEntered, LikeEntered DEF PCs
<1>6. PICK w : w = Report(run[r].kind, s, e, n) /\ write' = [write EXCEPT ![r] = w]
  BY <1>3 DEF Reports
<1>7. /\ w \in WriteType /\ w.stage \in {"none", "read"} /\ (~Reporter(run[r]) => w.stage = "none")
      /\ Reporter(run[r]) => pc = "mark" /\ w.stage = "read" /\ w.status = "extracting" /\ w.inc = 1
  BY <1>1, <1>2, <1>3, <1>6, ReportType, ReportIs
<1>8. y.kind = run[r].kind /\ y.ci = run[r].ci /\ (Reporter(y) <=> Reporter(run[r]))
  BY <1>5 DEF Like, Reporter
<1>9. ASSUME Reporter(run[r])
      PROVE  /\ Placed(y, w)
             /\ Counts(y, w) <=> Counts(run[r], write[r])
             /\ ToCount(y, w) => ToCount(run[r], write[r])
             /\ AllFailed => FailedLeft(y, w)'
  <2>1. AllFailed => FailedLeft(y, w)'
    BY <1>5, <1>7, <1>9, LeavesNone
  <2> QED
    BY <1>2, <1>5, <1>7, <1>8, <1>9, <2>1 DEF Placed, Counts, ToCount
<1> QED
  BY <1>1, <1>2, <1>4, <1>5, <1>6, <1>7, <1>8, <1>9, RunWorks

(* A run of the only chunk is not skipped. *)
LEMMA SkipOne == ASSUME OneInv, NEW r \in Runs, Skip(r) PROVE OneKept
<1>1. At(r, "skip") /\ UNCHANGED <<stored, main, cancel, write>>
  BY DEF Skip
<1>2. /\ run[r] \in RunType /\ write[r] \in WriteType /\ write[r].stage = "none" /\ run[r].pc = "skip"
      /\ ~Reporter(run[r])
  BY <1>1, AtRun DEF Placed
<1>3. PICK y \in RunType : Moves(r, y) /\ Like(y, run[r]) /\ y.pc \in {"skip", "over"}
  <2>1. CASE run[r].left = {}
    <3>1. PICK y : y = [run[r] EXCEPT !.pc = "over"] /\ Moves(r, y)
      BY <2>1 DEF Skip
    <3>2. y \in RunType /\ y.pc = "over"
      BY <1>2, <3>1, ToPc DEF PCs
    <3>3. Like(y, run[r])
      BY <1>2, <3>1, LikePc
    <3> QED
      BY <3>1, <3>2, <3>3
  <2>2. CASE run[r].left # {}
    <3>1. PICK i \in Items : Moves(r, [run[r] EXCEPT !.left = run[r].left \ {i}])
      BY <2>2 DEF Skip
    <3>2. PICK y : y = [run[r] EXCEPT !.left = run[r].left \ {i}] /\ Moves(r, y)
      BY <3>1
    <3> QED
      BY <1>2, <3>2, ToLeft, LikeLeft
  <2> QED
    BY <2>1, <2>2
<1>4. PICK w \in WriteType : write' = [write EXCEPT ![r] = w] /\ w.stage = "none"
  BY <1>1, <1>2 DEF OneInv, Inv, TypeOK
<1> QED
  BY <1>1, <1>2, <1>3, <1>4, RunWorks DEF Like

LEMMA MarkProcessingOne == ASSUME OneInv, NEW r \in Runs, MarkProcessing(r) PROVE OneKept
<1>1. At(r, "mark") /\ UNCHANGED <<stored, main, cancel, write>>
  BY DEF MarkProcessing
<1>2. run[r] \in RunType /\ write[r].stage = "none" /\ run[r].pc = "mark"
  BY <1>1, AtRun
<1>3. PICK y \in RunType : /\ Moves(r, y) /\ Like(y, run[r])
                           /\ \/ y.pc = "mark" /\ y.calls = run[r].calls
                              \/ y.pc = "call" /\ y.calls = run[r].calls + 1
  <2>1. CASE run[r].left = {}
    <3>1. PICK a : a = [run[r] EXCEPT !.pc = "call"]
      OBVIOUS
    <3>2. PICK y : y = Called(r, a) /\ Moves(r, y)
      BY <2>1, <3>1 DEF MarkProcessing
    <3>3. a \in RunType /\ a.pc = "call"
      BY <1>2, <3>1, ToPc DEF PCs
    <3>4. Like(a, run[r]) /\ a.calls = run[r].calls
      BY <1>2, <3>1, LikePc
    <3>5. y \in RunType /\ y.pc = "call"
      BY <3>2, <3>3, CallBegins
    <3>6. Like(y, a) /\ y.calls = a.calls + 1
      BY <3>2, <3>3, LikeCalled
    <3> QED
      BY <3>2, <3>4, <3>5, <3>6 DEF Like
  <2>2. CASE run[r].left # {}
    <3>1. PICK i \in Items : Moves(r, [run[r] EXCEPT !.left = run[r].left \ {i}])
      BY <2>2 DEF MarkProcessing
    <3>2. PICK y : y = [run[r] EXCEPT !.left = run[r].left \ {i}] /\ Moves(r, y)
      BY <3>1
    <3> QED
      BY <1>2, <3>2, ToLeft, LikeLeft
  <2> QED
    BY <2>1, <2>2
<1>4. AllFailed => FailedLeft(y, write[r])'
  BY <1>1, <1>2, <1>3, LeavesNone
<1> QED
  BY <1>1, <1>2, <1>3, <1>4, QuietStep

LEMMA CallAgainOne == ASSUME OneInv, NEW r \in Runs, CallAgain(r) PROVE OneKept
<1>1. At(r, "backoff") /\ UNCHANGED <<stored, main, cancel, write>>
  BY DEF CallAgain
<1>2. run[r] \in RunType /\ write[r].stage = "none" /\ run[r].calls \in Nat
  BY <1>1, AtRun
<1>3. PICK a : a = [run[r] EXCEPT !.pc = "call"]
  OBVIOUS
<1>4. PICK y : y = Called(r, a) /\ Moves(r, y)
  BY <1>3 DEF CallAgain
<1>5. a \in RunType /\ a.pc = "call"
  BY <1>2, <1>3, ToPc DEF PCs
<1>6. Like(a, run[r]) /\ a.calls = run[r].calls
  BY <1>2, <1>3, LikePc
<1>7. y \in RunType /\ y.pc = "call"
  BY <1>4, <1>5, CallBegins
<1>8. Like(y, run[r]) /\ y.calls = run[r].calls + 1
  BY <1>4, <1>5, <1>6, LikeCalled DEF Like
<1>9. AllFailed => FailedLeft(y, write[r])'
  BY <1>1, <1>2, <1>7, <1>8, LeavesNone
<1> QED
  BY <1>1, <1>2, <1>4, <1>7, <1>8, <1>9, QuietStep DEF Calls

LEMMA SaveOne == ASSUME OneInv, NEW r \in Runs, Save(r) PROVE OneKept
<1>1. At(r, "save") /\ UNCHANGED <<stored, main, cancel, write>>
  BY DEF Save
<1>2. run[r] \in RunType /\ write[r].stage = "none" /\ run[r].pc = "save"
  BY <1>1, AtRun
<1>3. PICK i \in Items : Moves(r, [run[r] EXCEPT !.left = run[r].left \ {i}])
  BY DEF Save
<1>4. PICK y : y = [run[r] EXCEPT !.left = run[r].left \ {i}] /\ Moves(r, y)
  BY <1>3
<1>5. y \in RunType /\ y.pc = "save" /\ Like(y, run[r]) /\ y.calls = run[r].calls
  BY <1>2, <1>4, ToLeft, LikeLeft
<1>6. AllFailed => FailedLeft(y, write[r])'
  BY <1>1, <1>2, <1>5, LeavesNone
<1> QED
  BY <1>1, <1>2, <1>4, <1>5, <1>6, QuietStep

(* A step that ends with a report. *)
LEMMA ReportStep ==
  ASSUME OneInv, NEW r \in Runs, NEW pc \in Calls, At(r, pc),
         NEW y \in RunType, Moves(r, y), Like(y, run[r]), y.calls = run[r].calls,
         UNCHANGED <<stored, main>>, cancel' = cancel \/ Reporter(run[r]),
         NEW s \in ChunkStatus, NEW e \in Errors \cup {"none"}, Reports(r, s, e, 0),
         y.pc \in Calls \cup {"over"}, s \in {"done", "failed"} <=> y.pc = "over",
         AllFailed /\ Reporter(run[r]) =>
            /\ y.pc = "fail" \/ (y.pc \in {"fan", "fancall"} /\ ~y.good) =>
                 \A i \in Items \ y.left : status'[i] = "failed"
            /\ s = "failed" => \A i \in Items : status'[i] = "failed"
  PROVE  OneKept
<1>1. /\ run[r] \in RunType /\ write[r].stage = "none" /\ run[r].pc = pc /\ run[r].calls \in Nat
      /\ Placed(run[r], write[r]) /\ (Reporter(run[r]) \/ run[r].kind = "item")
  BY AtRun DEF Calls
<1>2. PICK w : w = Report(run[r].kind, s, e, 0) /\ write' = [write EXCEPT ![r] = w]
  BY DEF Reports
<1>3. /\ w \in WriteType /\ w.stage \in {"none", "read"} /\ (~Reporter(run[r]) => w.stage = "none")
      /\ Reporter(run[r]) => w.stage = "read" /\ w.status = s /\ w.inc = 0
  <2>1. w \in WriteType
    BY <1>2, ReportType
  <2>2. /\ w.stage \in {"none", "read"} /\ (run[r].kind = "item" => w.stage = "none")
        /\ Reporter(run[r]) => w.stage = "read" /\ w.status = s /\ w.inc = 0
    BY <1>2, ReportIs
  <2> QED
    BY <1>1, <2>1, <2>2
<1>4. y.kind = run[r].kind /\ y.ci = run[r].ci /\ (Reporter(y) <=> Reporter(run[r]))
  BY DEF Like, Reporter
<1>5. ASSUME Reporter(run[r])
      PROVE  /\ Placed(y, w) /\ y.pc # "died"
             /\ Counts(y, w) <=> Counts(run[r], write[r])
             /\ ToCount(y, w) => ToCount(run[r], write[r])
             /\ y.pc \notin {"wait", "reset"}
             /\ AllFailed => FailedLeft(y, w)'
  <2>1. ASSUME AllFailed PROVE FailedLeft(y, w)'
    <3>1. y.entries = Items
      BY <1>5, <2>1 DEF Like, AllFailed, FailedLeft
    <3> QED
      BY <1>3, <1>5, <2>1, <3>1 DEF FailedLeft
  <2> QED
    BY <1>1, <1>3, <1>4, <1>5, <2>1 DEF Placed, Counts, ToCount, Calls
<1>6. y.pc # "reset" /\ pc \notin {"none", "over", "died"}
  BY DEF Calls
<1> QED
  BY <1>1, <1>2, <1>3, <1>4, <1>5, <1>6, RunWorks

LEMMA ExtractedOne == ASSUME OneInv, NEW r \in Runs, Extracted(r) PROVE OneKept
<1>1. At(r, "call") /\ UNCHANGED <<stored, main, cancel>> /\ Reports(r, "saving", "none", 0)
  BY DEF Extracted
<1>2. run[r] \in RunType
  BY <1>1, AtRun
<1>3. PICK got \in SUBSET run[r].entries :
         Moves(r, [run[r] EXCEPT !.pc = "save", !.err = "none", !.got = got, !.left = run[r].entries])
  BY DEF Extracted, ToSave
<1>4. PICK y : y = SavedRun(run[r], got) /\ Moves(r, y)
  BY <1>3 DEF SavedRun
<1>5. got \in SUBSET Items
  BY <1>2, RunFields
<1>6. y \in RunType /\ y.pc = "save" /\ Like(y, run[r]) /\ y.calls = run[r].calls
  BY <1>2, <1>4, <1>5, ToSaved, LikeSaved
<1> QED
  BY <1>1, <1>4, <1>6, ReportStep DEF Calls, ChunkStatus

LEMMA BackoffOne == ASSUME OneInv, NEW r \in Runs, Backoff(r) PROVE OneKept
<1>1. At(r, "call") /\ UNCHANGED <<stored, main, cancel>>
  BY DEF Backoff
<1>2. run[r] \in RunType /\ run[r].attempt \in 0 .. 2
  BY <1>1, AtRun, RunFields
<1>3. PICK e \in Errors : /\ MayRetry(r, e)
                          /\ Moves(r, [run[r] EXCEPT !.pc = "backoff", !.err = e, !.attempt = run[r].attempt + 1])
                          /\ Reports(r, "extracting", e, 0)
  BY DEF Backoff
<1>4. PICK n : n = run[r].attempt + 1
  OBVIOUS
<1>5. PICK y : y = LaterRun(run[r], e, n) /\ Moves(r, y)
  BY <1>3, <1>4 DEF LaterRun
<1>6. n \in 0 .. 2
  BY <1>2, <1>3, <1>4 DEF MayRetry, MAX_CHUNK_BACKOFF_ATTEMPTS
<1>7. y \in RunType /\ y.pc = "backoff" /\ Like(y, run[r]) /\ y.calls = run[r].calls
  BY <1>2, <1>5, <1>6, ToBackoff, LikeLater
<1> QED
  BY <1>1, <1>3, <1>5, <1>7, ReportStep DEF Calls, ChunkStatus

LEMMA SaveEndsOne == ASSUME OneInv, NEW r \in Runs, SaveEnds(r) PROVE OneKept
<1>1. At(r, "save") /\ UNCHANGED <<stored, main, cancel>> /\ Reports(r, "done", "none", 0)
  BY DEF SaveEnds
<1>2. run[r] \in RunType
  BY <1>1, AtRun
<1>3. PICK y : y = [run[r] EXCEPT !.pc = "over"] /\ Moves(r, y)
  BY DEF SaveEnds
<1>4. y \in RunType /\ y.pc = "over"
  BY <1>2, <1>3, ToPc DEF PCs
<1>5. Like(y, run[r]) /\ y.calls = run[r].calls
  BY <1>2, <1>3, LikePc
<1> QED
  BY <1>1, <1>3, <1>4, <1>5, ReportStep DEF Calls, ChunkStatus

(* A failure of the whole chunk: nothing is left behind yet. *)
LEMMA FailsOne ==
  ASSUME OneInv, NEW r \in Runs, NEW pc \in Calls, At(r, pc), NEW e \in Errors,
         Moves(r, Failed(run[r], e)), UNCHANGED <<stored, main>>, cancel' = cancel \/ Reporter(run[r]),
         write' = write \/ Reports(r, "extracting", "none", 0)
  PROVE  OneKept
<1>1. run[r] \in RunType /\ run[r].pc = pc /\ write[r].stage = "none" /\ run[r].calls \in Nat
  BY AtRun DEF Calls
<1>2. PICK y : y = Failed(run[r], e) /\ Moves(r, y)
  OBVIOUS
<1>3. y \in RunType /\ y.pc \in {"fan", "fail"} /\ y.left = run[r].entries
  BY <1>1, <1>2, ToFailed
<1>4. Like(y, run[r]) /\ y.calls = run[r].calls
  BY <1>1, <1>2, LikeFailed
<1>5. AllFailed /\ Reporter(run[r]) => y.left = Items
  BY <1>3 DEF AllFailed, FailedLeft
<1>6. CASE write' = write
  <2>1. AllFailed => FailedLeft(y, write[r])'
    <3>1. ASSUME AllFailed PROVE FailedLeft(y, write[r])'
      <4>1. Reporter(y) => Reporter(run[r]) /\ y.entries = Items
        BY <1>4, <3>1 DEF Like, Reporter, AllFailed, FailedLeft
      <4> QED
        BY <1>1, <1>5, <1>6, <3>1, <4>1 DEF FailedLeft
    <3> QED
      BY <3>1
  <2> QED
    BY <1>1, <1>2, <1>3, <1>4, <1>6, <2>1, QuietStep DEF Calls
<1>7. CASE Reports(r, "extracting", "none", 0)
  BY <1>1, <1>2, <1>3, <1>4, <1>5, <1>7, ReportStep DEF Calls, ChunkStatus
<1> QED
  BY <1>6, <1>7

LEMMA CallFailsOne == ASSUME OneInv, NEW r \in Runs, CallFails(r) PROVE OneKept
<1>1. At(r, "call") /\ UNCHANGED <<stored, main>>
  BY DEF CallFails
<1>2. PICK e \in Errors : Moves(r, Failed(run[r], e)) /\ ReportsFailure(r, e)
  BY DEF CallFails
<1>3. run[r].kind \in {"none", "main", "chunk", "item"} /\ (run[r].kind = "item" => r[1] \notin Mains)
      /\ (Reporter(run[r]) \/ run[r].kind = "item")
  BY <1>1, AtRun DEF OneInv, OneInUse, RunType
<1>4. cancel' = cancel \/ Reporter(run[r])
  BY <1>3 DEF CallFails
<1>5. write' = write \/ Reports(r, "extracting", "none", 0)
  BY <1>2 DEF ReportsFailure
<1> QED
  BY <1>1, <1>2, <1>4, <1>5, FailsOne DEF Calls

LEMMA WokenOne == ASSUME OneInv, NEW r \in Runs, Woken(r) PROVE OneKept
<1>1. At(r, "backoff") /\ UNCHANGED <<stored, main, cancel, write>> /\ Moves(r, Failed(run[r], "account"))
  BY DEF Woken
<1> QED
  BY <1>1, FailsOne DEF Calls, Errors

LEMMA AnswersOne ==
  ASSUME Inv, NEW i \in Items, NEW s, NEW e, NEW ci, Answer(i, s, e, ci)
  PROVE  status'[i] = s /\ \A j \in Items : j # i => status'[j] = status[j]
  BY DEF Inv, TypeOK, Answer

(* One image of a run that fails is answered failed. *)
LEMMA FailedGrows ==
  ASSUME AllFailed, NEW r \in Runs, NEW y, Like(y, run[r]), write[r].stage = "none", write' = write,
         \/ y.pc = "fail" /\ run[r].pc = "fail"
         \/ y.pc = "fan" /\ run[r].pc = "fancall" /\ (~y.good => ~run[r].good),
         NEW i \in Items, y.left = run[r].left \ {i}, y.good \/ (status'[i] = "failed" /\ y.pc \in {"fail", "fan"}),
         y.pc = "fail" => status'[i] = "failed",
         \A j \in Items : j # i => status'[j] = status[j]
  PROVE  FailedLeft(y, write[r])'
<1> SUFFICES ASSUME Reporter(y) PROVE FailedLeft(y, write[r])'
  BY DEF FailedLeft
<1>1. Reporter(run[r]) /\ y.entries = Items /\ FailedLeft(run[r], write[r])
  BY DEF Like, Reporter, AllFailed, FailedLeft
<1>2. ASSUME y.pc = "fail" \/ ~y.good PROVE \A j \in Items \ y.left : status'[j] = "failed"
  BY <1>1, <1>2 DEF FailedLeft
<1> QED
  BY <1>1, <1>2 DEF FailedLeft

LEMMA MarkFailedOne == ASSUME OneInv, NEW r \in Runs, MarkFailed(r) PROVE OneKept
<1>1. At(r, "fail") /\ UNCHANGED <<stored, main, cancel>>
  BY DEF MarkFailed
<1>2. /\ run[r] \in RunType /\ write[r].stage = "none" /\ run[r].pc = "fail" /\ run[r].calls \in Nat
      /\ run[r].err \in Errors \cup {"none"} /\ Inv
  BY <1>1, AtRun, RunFields DEF OneInv
<1>3. CASE run[r].left = {}
  <2>1. PICK y : y = [run[r] EXCEPT !.pc = "over"] /\ Moves(r, y)
    BY <1>3 DEF MarkFailed
  <2>2. y \in RunType /\ y.pc = "over"
    BY <1>2, <2>1, ToPc DEF PCs
  <2>3. Like(y, run[r]) /\ y.calls = run[r].calls
    BY <1>2, <2>1, LikePc
  <2>4. Reports(r, "failed", run[r].err, 0) /\ status' = status
    BY <1>3 DEF MarkFailed, items
  <2>5. AllFailed /\ Reporter(run[r]) => \A i \in Items : status[i] = "failed"
    BY <1>2, <1>3 DEF AllFailed, FailedLeft
  <2> QED
    BY <1>1, <1>2, <2>1, <2>2, <2>3, <2>4, <2>5, ReportStep DEF Calls, ChunkStatus
<1>4. CASE run[r].left # {}
  <2>1. PICK i \in Items :
          /\ Answer(i, "failed", run[r].err, run[r].ci)
          /\ Moves(r, [run[r] EXCEPT !.left = run[r].left \ {i}]) /\ UNCHANGED write
    BY <1>4 DEF MarkFailed
  <2>2. PICK y : y = [run[r] EXCEPT !.left = run[r].left \ {i}] /\ Moves(r, y)
    BY <2>1
  <2>3. y \in RunType /\ y.pc = "fail" /\ y.left = run[r].left \ {i} /\ Like(y, run[r]) /\ y.calls = run[r].calls
    BY <1>2, <2>2, ToLeft, LikeLeft
  <2>4. status'[i] = "failed" /\ \A j \in Items : j # i => status'[j] = status[j]
    BY <1>2, <2>1, AnswersOne
  <2>5. AllFailed => FailedLeft(y, write[r])'
    BY <1>2, <2>1, <2>3, <2>4, FailedGrows
  <2> QED
    BY <1>1, <1>2, <2>1, <2>2, <2>3, <2>5, QuietStep
<1> QED
  BY <1>3, <1>4

LEMMA FanCallOne == ASSUME OneInv, NEW r \in Runs, FanCall(r) PROVE OneKept
<1>1. At(r, "fan") /\ UNCHANGED <<items, stored, main, cancel, write>>
  BY DEF FanCall
<1>2. run[r] \in RunType /\ write[r].stage = "none" /\ run[r].calls \in Nat /\ run[r].pc = "fan"
  BY <1>1, AtRun
<1>3. PICK a : a = [run[r] EXCEPT !.pc = "fancall"]
  OBVIOUS
<1>4. PICK y : y = Called(r, a) /\ Moves(r, y)
  BY <1>3 DEF FanCall
<1>5. a \in RunType /\ a.pc = "fancall" /\ a.left = run[r].left
  BY <1>2, <1>3, ToPc DEF PCs
<1>6. Like(a, run[r]) /\ a.calls = run[r].calls /\ a.good = run[r].good
  BY <1>2, <1>3, LikePc
<1>7. y \in RunType /\ y.pc = "fancall" /\ y.left = run[r].left
  BY <1>4, <1>5, CallBegins
<1>8. Like(y, run[r]) /\ y.calls = run[r].calls + 1 /\ y.good = run[r].good
  BY <1>4, <1>5, <1>6, LikeCalled DEF Like
<1>9. ASSUME AllFailed PROVE FailedLeft(y, write[r])'
  <2>1. FailedLeft(run[r], write[r]) /\ (Reporter(y) <=> Reporter(run[r])) /\ y.entries = run[r].entries
    BY <1>8, <1>9 DEF AllFailed, Like, Reporter
  <2> QED
    BY <1>1, <1>2, <1>7, <1>8, <2>1 DEF FailedLeft, items
<1> QED
  BY <1>1, <1>2, <1>4, <1>7, <1>8, <1>9, QuietStep DEF Calls

LEMMA FanSaveOne == ASSUME OneInv, NEW r \in Runs, FanSave(r) PROVE OneKept
<1>1. At(r, "fancall") /\ UNCHANGED <<stored, main, cancel, write>>
  BY DEF FanSave
<1>2. /\ run[r] \in RunType /\ write[r].stage = "none" /\ run[r].calls \in Nat /\ run[r].pc = "fancall"
      /\ run[r].good \in BOOLEAN /\ Inv
  BY <1>1, AtRun DEF OneInv, RunType
<1>3. PICK i \in Items, ok \in BOOLEAN :
        /\ Persist(i, ok)
        /\ Moves(r, [run[r] EXCEPT !.pc = "fan", !.left = run[r].left \ {i}, !.good = AnySuccess(run[r].good, ok)])
  BY DEF FanSave
<1>4. PICK good, S : good = AnySuccess(run[r].good, ok) /\ S = run[r].left \ {i}
  OBVIOUS
<1>5. PICK y : y = FanRun(run[r], S, good) /\ Moves(r, y)
  BY <1>3, <1>4 DEF FanRun
<1>6. good \in BOOLEAN /\ S \in SUBSET Items /\ (~good => ~run[r].good /\ ~ok)
  BY <1>2, <1>4, RunFields DEF AnySuccess
<1>7. y \in RunType /\ y.pc = "fan" /\ y.left = S /\ Like(y, run[r]) /\ y.calls = run[r].calls /\ y.good = good
  BY <1>2, <1>5, <1>6, ToFan, LikeFan
<1>8. PICK s, e : Answer(i, s, e, Untagged) /\ (~ok => s = "failed")
  BY <1>3 DEF Persist
<1>9. status'[i] = s /\ \A j \in Items : j # i => status'[j] = status[j]
  BY <1>2, <1>8, AnswersOne
<1>10. AllFailed => FailedLeft(y, write[r])'
  BY <1>1, <1>2, <1>4, <1>6, <1>7, <1>8, <1>9, FailedGrows
<1> QED
  BY <1>1, <1>2, <1>5, <1>7, <1>10, QuietStep DEF Calls

LEMMA FanFailsOne == ASSUME OneInv, NEW r \in Runs, FanFails(r) PROVE OneKept
<1>1. At(r, "fancall") /\ UNCHANGED <<stored, main, cancel, write>>
  BY DEF FanFails
<1>2. /\ run[r] \in RunType /\ write[r].stage = "none" /\ run[r].calls \in Nat /\ run[r].pc = "fancall" /\ Inv
  BY <1>1, AtRun DEF OneInv
<1>3. PICK i \in Items, e \in Errors :
        /\ Answer(i, "failed", e, run[r].ci)
        /\ Moves(r, [run[r] EXCEPT !.pc = "fan", !.left = run[r].left \ {i}])
  BY DEF FanFails
<1>4. PICK S : S = run[r].left \ {i}
  OBVIOUS
<1>5. PICK y : y = LoopRun(run[r], S) /\ Moves(r, y)
  BY <1>3, <1>4 DEF LoopRun
<1>6. S \in SUBSET Items
  BY <1>2, <1>4, RunFields
<1>7. /\ y \in RunType /\ y.pc = "fan" /\ y.left = S /\ Like(y, run[r])
      /\ y.calls = run[r].calls /\ y.good = run[r].good
  BY <1>2, <1>5, <1>6, ToLoop, LikeLoop
<1>8. status'[i] = "failed" /\ \A j \in Items : j # i => status'[j] = status[j]
  BY <1>2, <1>3, AnswersOne
<1>9. AllFailed => FailedLeft(y, write[r])'
  BY <1>1, <1>2, <1>4, <1>7, <1>8, FailedGrows
<1> QED
  BY <1>1, <1>2, <1>5, <1>7, <1>9, QuietStep DEF Calls

LEMMA FanEndsOne == ASSUME OneInv, NEW r \in Runs, FanEnds(r) PROVE OneKept
<1>1. At(r, "fan") /\ UNCHANGED <<stored, main, cancel>> /\ status' = status /\ run[r].left = {}
  BY DEF FanEnds, items
<1>2. run[r] \in RunType /\ run[r].err \in Errors \cup {"none"} /\ run[r].pc = "fan"
  BY <1>1, AtRun, RunFields
<1>3. PICK y : y = [run[r] EXCEPT !.pc = "over"] /\ Moves(r, y)
  BY DEF FanEnds
<1>4. y \in RunType /\ y.pc = "over"
  BY <1>2, <1>3, ToPc DEF PCs
<1>5. Like(y, run[r]) /\ y.calls = run[r].calls
  BY <1>2, <1>3, LikePc
<1>6. CASE run[r].good
  <2>1. Reports(r, "done", "none", 0)
    BY <1>6 DEF FanEnds
  <2> QED
    BY <1>1, <1>3, <1>4, <1>5, <2>1, ReportStep DEF Calls, ChunkStatus
<1>7. CASE ~run[r].good
  <2>1. Reports(r, "failed", run[r].err, 0)
    BY <1>7 DEF FanEnds
  <2>2. AllFailed /\ Reporter(run[r]) => \A i \in Items : status[i] = "failed"
    BY <1>1, <1>2, <1>7 DEF AllFailed, FailedLeft
  <2> QED
    BY <1>1, <1>2, <1>3, <1>4, <1>5, <2>1, <2>2, ReportStep DEF Calls, ChunkStatus
<1> QED
  BY <1>6, <1>7
-----------------------------------------------------------------------------
(* The only chunk. *)

LEMMA OneStored ==
  ASSUME OneInv
  PROVE  /\ stored \in [ChunkIds -> ChunkType] /\ stored[0] \in ChunkType /\ stored[0].attempts \in Nat
         /\ (\E r \in Runs : Reporter(run[r])) \/ stored[0].status = "failed" =>
               /\ stored[0].status # "absent" /\ stored[0] # NoChunk /\ stored[0].items = Items
               /\ \A t \in Mains : main[t] # "queued"
<1>1. stored \in [ChunkIds -> ChunkType] /\ stored[0] \in ChunkType
  BY ChunkIdsFinite DEF OneInv, Inv, TypeOK
<1>2. PICK t \in Mains : TRUE
  BY DispatchAssumption, ItemsAssumption
<1>3. NoChunk.status = "absent"
  BY DEF NoChunk
<1>4. ASSUME (\E r \in Runs : Reporter(run[r])) \/ stored[0].status = "failed", NEW u \in Mains
      PROVE  main[u] # "queued" /\ stored[0].status # "absent" /\ stored[0].items = Items
  BY <1>3, <1>4 DEF OneInv, OneInUse
<1> QED
  BY <1>1, <1>2, <1>3, <1>4 DEF ChunkType

LEMMA UpdatedIs ==
  ASSUME NEW c \in ChunkType, NEW w \in WriteType, NEW u, u = Updated(c, w)
  PROVE  u.status = w.status /\ u.status # "absent" /\ u.items = c.items /\ u.attempts = c.attempts + w.inc
<1>1. w.status \in ChunkStatus /\ "absent" \notin ChunkStatus
  BY DEF WriteType, ChunkStatus
<1> QED
  BY <1>1 DEF Updated, ChunkType

LEMMA DieOne == ASSUME OneInv, NEW r \in Runs, Die(r) PROVE OneKept
<1>1. /\ run[r] \in RunType /\ ~Outside(r) /\ UNCHANGED <<items, stored, main, cancel>>
      /\ write' = [write EXCEPT ![r] = NoWrite] /\ Placed(run[r], write[r])
  BY RunOf DEF OneInv, Inv, OneInUse, Die
<1>2. PICK y : y = [run[r] EXCEPT !.pc = "died"] /\ Moves(r, y)
  BY DEF Die
<1>3. y \in RunType /\ y.pc = "died"
  BY <1>1, <1>2, ToPc DEF PCs
<1>4. Like(y, run[r]) /\ y.calls = run[r].calls
  BY <1>1, <1>2, LikePc
<1>5. PICK w \in WriteType : write' = [write EXCEPT ![r] = w] /\ w.stage = "none"
  BY <1>1, NoWriteType
<1>6. /\ y.kind = run[r].kind /\ y.ci = run[r].ci /\ (Reporter(y) <=> Reporter(run[r]))
      /\ y.kind # "none" /\ (Reporter(y) => run[r].pc # "died")
  BY <1>1, <1>4 DEF Like, Reporter, Placed, Outside
<1>7. /\ Placed(y, w) /\ ~Busy(y, w) /\ ~ToCount(y, w)
      /\ Counts(y, w) => Counts(run[r], write[r])
  BY <1>1, <1>3, <1>4, <1>5, <1>6 DEF Placed, Busy, ToCount, Counts
<1>8. OneInUse' /\ OneAtWork' /\ AttemptsCount'
  BY <1>1, <1>2, <1>3, <1>5, <1>6, <1>7, RunMoves
<1>9. ASSUME AllFailed PROVE AllFailed'
  <2>1. /\ run'[r] = y /\ write'[r] = w
        /\ \A o \in Runs : o # r => run'[o] = run[o] /\ write'[o] = write[o]
    BY <1>2, <1>3, <1>5, OthersStay DEF OneInv
  <2>2. FailedLeft(y, w)' /\ y.kind # "item"
    BY <1>3, <1>4, <1>5, <1>6, <1>9, LeavesNone DEF AllFailed
  <2>3. status' = status /\ stored' = stored
    BY <1>1 DEF items
  <2>4. FailedLeft(run[r], write[r])' /\ run'[r].kind # "item"
    BY <2>1, <2>2 DEF FailedLeft
  <2> QED
    BY <1>9, <2>1, <2>2, <2>3 DEF AllFailed, FailedLeft
<1> QED
  BY <1>8, <1>9 DEF OneKept

LEMMA ReadChunksOne == ASSUME OneInv, NEW r \in Runs, ReadChunks(r) PROVE OneKept
<1>1. /\ run[r] \in RunType /\ write[r] \in WriteType /\ write[r].stage = "read"
      /\ UNCHANGED <<items, stored, main, cancel, run>> /\ Placed(run[r], write[r])
      /\ run \in [Runs -> RunType]
  BY RunOf DEF OneInv, Inv, TypeOK, OneInUse, ReadChunks
<1>2. Reporter(run[r]) /\ run[r].ci = 0 /\ run[r].pc # "died" /\ run[r].kind # "none"
  BY <1>1 DEF Placed, Reporter
<1>3. /\ run[r].ci \in ChunkIds /\ stored[run[r].ci] # NoChunk
      /\ stored \in [ChunkIds -> ChunkType]
  BY <1>2, ChunkIdsFinite, OneStored
<1>4. write' = [write EXCEPT ![r] = [write[r] EXCEPT !.stage = "write", !.snap = stored]]
  BY <1>3 DEF ReadChunks
<1>5. PICK a : a = [write[r] EXCEPT !.stage = "write"]
  OBVIOUS
<1>6. a \in WriteType /\ a.stage = "write" /\ a.status = write[r].status /\ a.inc = write[r].inc
  BY <1>1, <1>5 DEF WriteType
<1>7. PICK w : w = [a EXCEPT !.snap = stored] /\ write' = [write EXCEPT ![r] = w]
  BY <1>4, <1>5
<1>8. /\ w \in WriteType /\ w.stage = "write" /\ w.status = write[r].status /\ w.inc = write[r].inc
      /\ w.snap = stored
  BY <1>3, <1>6, <1>7 DEF WriteType
<1>9. PICK y \in RunType : y = run[r]
  BY <1>1
<1>10. Moves(r, y)
  BY <1>1, <1>9 DEF Moves
<1>11. /\ Placed(y, w) /\ (Busy(y, w) <=> Busy(run[r], write[r])) /\ (Counts(y, w) <=> Counts(run[r], write[r]))
       /\ ToCount(y, w) <=> ToCount(run[r], write[r])
  BY <1>1, <1>8, <1>9 DEF Placed, Busy, Counts, ToCount
<1>12. /\ Reporter(y) /\ y.pc = "wait" => ~Stopped(r)'
       /\ Busy(run[r], write[r]) /\ stored[0].status = "failed" => y.pc = "reset"
  BY <1>1, <1>9 DEF OneInv, OneInUse, OneAtWork, Stopped
<1>13. OneInUse' /\ OneAtWork' /\ AttemptsCount'
  BY <1>1, <1>2, <1>7, <1>8, <1>9, <1>10, <1>11, <1>12, RunMoves
<1>14. ASSUME AllFailed PROVE AllFailed'
  <2>1. /\ write'[r] = w /\ \A o \in Runs : o # r => write'[o] = write[o]
    BY <1>7, <1>8, Wrote DEF OneInv, Inv
  <2>2. status' = status /\ stored' = stored /\ run' = run
    BY <1>1 DEF items
  <2> QED
    BY <1>1, <1>8, <1>14, <2>1, <2>2 DEF AllFailed, FailedLeft
<1> QED
  BY <1>13, <1>14 DEF OneKept

LEMMA WriteChunksOne == ASSUME OneInv, NEW r \in Runs, WriteChunks(r) PROVE OneKept
<1> DEFINE w == write[r]
           c == stored[0]
<1>1. /\ run[r] \in RunType /\ w \in WriteType /\ w.stage = "write" /\ w.snap = stored
      /\ UNCHANGED <<items, main, cancel, run>> /\ Placed(run[r], w) /\ w.inc \in {0, 1}
  BY RunOf DEF OneInv, Inv, OneInUse, WriteChunks, WriteType
<1>2. /\ Reporter(run[r]) /\ run[r].ci = 0 /\ Busy(run[r], w) /\ run[r].calls \in Nat
      /\ w.inc = 1 <=> run[r].pc = "mark"
      /\ w.status \in {"done", "failed"} <=> run[r].pc = "over"
      /\ run[r].pc # "died" /\ (run[r].pc = "mark" => run[r].calls = 0)
  BY <1>1, RunFields DEF Placed, Busy, Reporter
<1>3. /\ stored \in [ChunkIds -> ChunkType] /\ c \in ChunkType /\ c.items = Items
      /\ c.attempts \in Nat /\ \A t \in Mains : main[t] # "queued"
  BY <1>2, OneStored
<1>4. PICK u : u = Updated(c, w)
  OBVIOUS
<1>5. u.status = w.status /\ u.status # "absent" /\ u.items = Items /\ u.attempts = c.attempts + w.inc
  BY <1>1, <1>3, <1>4, UpdatedIs
<1>6. stored' = [stored EXCEPT ![0] = u]
  BY <1>1, <1>2, <1>4 DEF WriteChunks
<1>7. stored'[0] = u /\ \A ci \in ChunkIds \ {0} : stored'[ci] = stored[ci]
  BY <1>3, <1>6, ChunkIdsFinite
<1>8. /\ write'[r] = NoWrite /\ NoWrite.stage = "none"
      /\ \A o \in Runs : o # r => write'[o] = write[o]
  BY NoWriteType, Wrote DEF WriteChunks, OneInv, Inv
<1>9. run' = run /\ main' = main /\ cancel' = cancel /\ status' = status
  BY <1>1 DEF items
<1>10. /\ \A o \in Runs : o # r => ~Busy(run[o], write[o])
       /\ \A o \in Runs : Placed(run[o], write[o])
  BY <1>2 DEF OneInv, OneAtWork, OneInUse
<1> HIDE DEF w, c
<1>11. Placed(run[r], write'[r])
  BY <1>1, <1>8 DEF Placed
<1>12. OneInUse'
  <2>1. \A o \in Runs : Placed(run[o], write[o])'
    <3>1. \A o \in Runs : Placed(run[o], write'[o])
      BY <1>8, <1>10, <1>11
    <3> QED
      BY <1>9, <3>1 DEF Placed, Reporter
  <2>2. ASSUME NEW o \in Runs, write'[o].stage = "write" PROVE write'[o].snap = stored'
    <3>1. o # r /\ write[o].stage = "write"
      BY <1>8, <2>2
    <3>2. Busy(run[o], write[o])
      BY <1>10, <3>1 DEF Placed, Busy
    <3> QED
      BY <1>10, <3>1, <3>2
  <2>3. Posted' = Posted
    BY <1>9 DEF Posted
  <2>4. \A o \in Runs : Reporter(run[o])' /\ run'[o].pc = "wait" => ~Stopped(o)'
    BY <1>9 DEF OneInv, OneInUse, Stopped, Reporter
  <2>5. \A ci \in ChunkIds \ {0} : stored'[ci] = NoChunk
    BY <1>7 DEF OneInv, OneInUse
  <2> QED
    BY <1>3, <1>5, <1>7, <1>9, <2>1, <2>2, <2>3, <2>4, <2>5 DEF OneInv, OneInUse
<1>13. OneAtWork'
  <2>1. \A o \in Runs : o # r => ~Busy(run'[o], write'[o])
    BY <1>8, <1>9, <1>10
  <2>2. Busy(run'[r], write'[r]) <=> run[r].pc \notin {"over", "died"}
    BY <1>2, <1>8, <1>9 DEF Busy, Reporter
  <2>3. ASSUME NEW o \in Runs, Busy(run'[o], write'[o]) PROVE stored'[0].status # "failed"
    BY <1>2, <1>5, <1>7, <2>1, <2>2, <2>3
  <2>4. \/ stored'[0].status \in {"absent", "done", "failed"}
        \/ Reporter(run'[r]) /\ Busy(run'[r], write'[r])
    BY <1>2, <1>5, <1>7, <1>9, <2>2
  <2>5. \A o, q \in Runs : Busy(run'[o], write'[o]) /\ Busy(run'[q], write'[q]) => o = q
    BY <2>1
  <2> QED
    BY <2>3, <2>4, <2>5 DEF OneAtWork
<1>14. AttemptsCount'
  <2>1. /\ IsFiniteSet(Counted) /\ Cardinality(Counted) <= c.attempts /\ c.attempts <= 3
        /\ ToCount(run[r], w) => c.attempts <= 2
        /\ Nobody => Cardinality(Counted) = c.attempts
        /\ Cardinality(Counted) \in Nat
    BY FS_CardinalityType DEF OneInv, AttemptsCount, c, w
  <2>2. Nobody' <=> Nobody
    BY <1>9 DEF Nobody, Reporter
  <2>3. ASSUME NEW o \in Runs, ToCount(run'[o], write'[o])
        PROVE  o = r /\ run[r].pc \in {"reset", "wait"}
    <3>1. CASE o = r
      BY <1>8, <1>9, <2>3, <3>1 DEF ToCount
    <3>2. CASE o # r
      <4>1. ToCount(run[o], write[o])
        BY <1>8, <1>9, <2>3, <3>2
      <4> QED
        BY <1>10, <3>2, <4>1 DEF ToCount, Busy
    <3> QED
      BY <3>1, <3>2
  <2>4. \A o \in Runs : o # r => (Counts(run'[o], write'[o]) <=> Counts(run[o], write[o]))
    BY <1>8, <1>9
  <2>5. CASE run[r].pc = "mark"
    <3>1. ~Counts(run[r], write[r]) /\ Counts(run'[r], write'[r]) /\ ToCount(run[r], w) /\ w.inc = 1
      BY <1>1, <1>2, <1>8, <1>9, <2>5 DEF Counts, ToCount, w, Reporter
    <3>2. r \notin Counted /\ Counted' = Counted \cup {r}
      BY <2>4, <3>1 DEF Counted
    <3>3. IsFiniteSet(Counted') /\ Cardinality(Counted') = Cardinality(Counted) + 1
      BY <2>1, <3>2, FS_AddElement
    <3>4. u.attempts = c.attempts + 1 /\ c.attempts <= 2
      BY <1>5, <2>1, <3>1
    <3>5. \A o \in Runs : ~ToCount(run'[o], write'[o])
      BY <2>3, <2>5
    <3> QED
      BY <1>3, <1>7, <2>1, <2>2, <3>3, <3>4, <3>5 DEF AttemptsCount
  <2>6. CASE run[r].pc # "mark"
    <3>1. Counts(run'[r], write'[r]) <=> Counts(run[r], write[r])
      BY <1>8, <1>9, <2>6 DEF Counts
    <3>2. Counted' = Counted
      BY <2>4, <3>1 DEF Counted
    <3>3. w.inc = 0 /\ u.attempts = c.attempts
      BY <1>1, <1>2, <1>3, <1>5, <2>6
    <3>4. ASSUME NEW o \in Runs, ToCount(run'[o], write'[o]) PROVE c.attempts <= 2
      BY <1>2, <2>1, <2>3, <3>4 DEF ToCount
    <3> QED
      BY <1>7, <2>1, <2>2, <3>2, <3>3, <3>4 DEF AttemptsCount
  <2> QED
    BY <2>5, <2>6
<1>15. ASSUME AllFailed PROVE AllFailed'
  <2>1. w.status = "failed" => \A i \in Items : status[i] = "failed"
    BY <1>1, <1>2, <1>15 DEF AllFailed, FailedLeft, w
  <2>2. ASSUME NEW o \in Runs PROVE FailedLeft(run[o], write[o])' /\ run'[o].kind # "item"
    BY <1>8, <1>9, <1>15 DEF AllFailed, FailedLeft, Reporter
  <2> QED
    BY <1>5, <1>7, <1>9, <2>1, <2>2 DEF AllFailed
<1> QED
  BY <1>12, <1>13, <1>14, <1>15 DEF OneKept
-----------------------------------------------------------------------------
(* The message, and the requests to retry. *)

LEMMA OneGroup ==
  ASSUME OneChunk, NEW t \in Mains
  PROVE  /\ Group[t] = Items /\ Chunk(Items, 0) = Items
         /\ \A ci \in ChunkIds \ {0} : Chunk(Items, ci) = {}
<1>1. Group[t] = Items
  BY DispatchAssumption DEF OneChunk
<1>2. ASSUME NEW i \in Items PROVE Rank(i, Items) \div ChunkSize = 0
  <2> DEFINE B == {j \in Items : j < i}
  <2>1. i \notin B /\ B \in SUBSET (Items \ {i})
    BY ItemsAssumption
  <2>2. IsFiniteSet(Items \ {i}) /\ Cardinality(Items \ {i}) = Cardinality(Items) - 1
    BY ItemsAssumption, FS_RemoveElement
  <2>3. Cardinality(B) \in Nat /\ Cardinality(B) <= Cardinality(Items) - 1
    BY <2>1, <2>2, FS_Subset, FS_CardinalityType
  <2>4. Rank(i, Items) = Cardinality(B)
    BY DEF Rank
  <2> HIDE DEF B
  <2>5. Cardinality(B) < ChunkSize
    BY <2>3, SizeIsNat, SizeAssumption DEF OneChunk
  <2>6. Cardinality(B) \div ChunkSize = 0
    BY <2>3, <2>5, SizeAssumption
  <2> QED
    BY <2>4, <2>6
<1> QED
  BY <1>1, <1>2 DEF Chunk

LEMMA WaitingIs ==
  ASSUME NEW y, y = WaitingRun(0, Items)
  PROVE  y.kind = "main" /\ y.pc = "wait" /\ y.ci = 0 /\ y.entries = Items /\ y.calls = 0
  BY DEF WaitingRun, NoRun

LEMMA NoChunkIs == NoChunk.status = "absent" /\ NoChunk.attempts = 0
  BY DEF NoChunk

LEMMA NewChunkIs ==
  ASSUME NEW c, c = NewChunk(Items)
  PROVE  c.status = "pending" /\ c.items = Items /\ c.attempts = 0
  BY ItemsAssumption DEF NewChunk, NoChunk

LEMMA MainStartOne == ASSUME OneInv, OneChunk, NEW t \in Mains, MainStart(t) PROVE OneKept
<1> DEFINE r == <<t, 0>>
<1>1. /\ r \in Runs /\ r[1] = t /\ main[t] = "queued" /\ main' = [main EXCEPT ![t] = "running"]
      /\ UNCHANGED <<status, cancel, write>> /\ main \in [Mains -> {"queued", "running", "over"}]
  BY ChunkIdsFinite DEF Runs, MainStart, OneInv, Inv, TypeOK
<1>2. /\ ~cancel[t] /\ stored[0] = NoChunk /\ (\A o \in Runs : ~Reporter(run[o]))
      /\ write[r] = NoWrite /\ write[r].stage = "none" /\ \A u \in Mains : u = t
      /\ \A o \in Runs : Placed(run[o], write[o])
  BY <1>1, NoWriteType DEF OneInv, OneInUse, Inv, Begun, OneChunk
<1>3. /\ Group[t] = Items /\ Chunk(Items, 0) = Items
      /\ \A ci \in ChunkIds \ {0} : Chunk(Items, ci) = {}
  BY OneGroup
<1>4. \A o \in Runs : o[1] = t => (Chunk(Items, o[2]) # {} <=> o = r)
  BY <1>3, RunIsPair, ItemsAssumption
<1>5. PICK y : y = WaitingRun(0, Items)
  OBVIOUS
<1>6. run' = [o \in Runs |-> IF o = r THEN y ELSE run[o]]
  <2>1. run' = [o \in Runs |-> IF o[1] = t /\ Chunk(Items, o[2]) # {}
                                 THEN WaitingRun(o[2], Chunk(Items, o[2])) ELSE run[o]]
    BY <1>3 DEF MainStart, WaitingRun
  <2>2. \A o \in Runs : o[1] = t /\ Chunk(Items, o[2]) # {} <=> o = r
    BY <1>1, <1>4
  <2> QED
    BY <1>3, <1>5, <2>1, <2>2
<1> HIDE DEF r
<1>7. run'[r] = y /\ \A o \in Runs : o # r => run'[o] = run[o]
  BY <1>1, <1>6
<1>8. /\ y.kind = "main" /\ y.pc = "wait" /\ y.ci = 0 /\ y.entries = Items /\ y.calls = 0 /\ Reporter(y)
  BY <1>5, WaitingIs DEF Reporter
<1>9. PICK c : c = NewChunk(Items)
  OBVIOUS
<1>10. c.status = "pending" /\ c.items = Items /\ c.attempts = 0
  BY <1>9, NewChunkIs
<1>11. stored'[0] = c /\ \A ci \in ChunkIds \ {0} : stored'[ci] = NoChunk
  <2>1. stored' = [ci \in ChunkIds |-> NewChunk(Chunk(Items, ci))]
    BY <1>3 DEF MainStart
  <2> QED
    BY <1>3, <1>9, <2>1, ChunkIdsFinite DEF NewChunk
<1>12. \A o \in Runs : o # r => ~Reporter(run'[o]) /\ ~Busy(run'[o], write'[o])
  BY <1>2, <1>7 DEF Busy
<1>13. \A o \in Runs : write'[o] = write[o]
  BY <1>1
<1>14. OneInUse'
  <2>1. ASSUME NEW o \in Runs
        PROVE  Placed(run[o], write[o])' /\ write'[o].stage # "write"
               /\ (o[1] \in Mains => run'[o].kind \in {"none", "main"} /\ run'[o].pc # "reset")
    <3>1. CASE o = r
      <4>1. Placed(y, write[r])
        BY <1>2, <1>8 DEF Placed
      <4> QED
        BY <1>2, <1>7, <1>8, <1>13, <3>1, <4>1 DEF Placed, Reporter
    <3>2. CASE o # r
      <4>1. Placed(run[o], write[o]) /\ ~Reporter(run[o])
            /\ (o[1] \in Mains => run[o].kind \in {"none", "main"} /\ run[o].pc # "reset")
        BY <1>2 DEF OneInv, OneInUse
      <4>2. write[o].stage = "none"
        BY <4>1 DEF Placed
      <4> QED
        BY <1>7, <1>13, <3>2, <4>1, <4>2 DEF Placed, Reporter
    <3> QED
      BY <3>1, <3>2
  <2>2. \A u \in Mains : main'[u] # "queued"
    BY <1>1, <1>2
  <2>3. ASSUME NEW o \in Runs, Reporter(run'[o]) PROVE ~Stopped(o)'
    BY <1>1, <1>2, <1>12, <2>3 DEF Stopped
  <2>4. Posted' = Posted
    <3>1. ASSUME NEW u \in Retries PROVE <<u, 0>> \in Runs /\ <<u, 0>> # r
      BY GroupAssumption DEF Runs, r
    <3> QED
      BY <1>7, <3>1 DEF Posted
  <2> QED
    BY <1>10, <1>11, <2>1, <2>2, <2>3, <2>4 DEF OneInv, OneInUse, Reporter
<1>15. OneAtWork'
  <2>1. Reporter(run'[r]) /\ Busy(run'[r], write'[r])
    BY <1>7, <1>8 DEF Busy
  <2>2. \A o, q \in Runs : Busy(run'[o], write'[o]) /\ Busy(run'[q], write'[q]) => o = q
    BY <1>12
  <2> QED
    BY <1>1, <1>10, <1>11, <2>1, <2>2 DEF OneAtWork
<1>16. AttemptsCount'
  <2>1. \A o \in Runs : ~Counts(run'[o], write'[o])
    BY <1>7, <1>8, <1>12 DEF Counts
  <2>2. Counted' = {}
    BY <2>1 DEF Counted
  <2>3. IsFiniteSet(Counted') /\ Cardinality(Counted') = 0
    BY <2>2, FS_EmptySet
  <2> QED
    BY <1>10, <1>11, <2>3 DEF AttemptsCount
<1>17. ASSUME AllFailed PROVE AllFailed'
  <2>1. ASSUME NEW o \in Runs PROVE run'[o].kind # "item" /\ FailedLeft(run[o], write[o])'
    <3>1. CASE o = r
      BY <1>2, <1>7, <1>8, <1>13, <3>1 DEF FailedLeft
    <3>2. CASE o # r
      BY <1>7, <1>12, <1>17, <3>2 DEF AllFailed, FailedLeft
    <3> QED
      BY <3>1, <3>2
  <2> QED
    BY <1>10, <1>11, <2>1 DEF AllFailed
<1> QED
  BY <1>14, <1>15, <1>16, <1>17 DEF OneKept

LEMMA MainEndsOne == ASSUME OneInv, NEW t \in Mains, MainEnds(t) PROVE OneKept
<1>1. /\ main[t] = "running" /\ main' = [main EXCEPT ![t] = "over"]
      /\ UNCHANGED <<status, stored, cancel, run, write>>
      /\ main \in [Mains -> {"queued", "running", "over"}]
  BY DEF MainEnds, items, OneInv, Inv, TypeOK
<1>2. \A u \in Mains : main'[u] = "queued" <=> main[u] = "queued"
  BY <1>1
<1>3. OneInUse'
  BY <1>1, <1>2 DEF OneInv, OneInUse, Placed, Reporter, Stopped, Posted
<1>4. OneAtWork' /\ AttemptsCount'
  BY <1>1 DEF OneInv, OneAtWork, AttemptsCount, Busy, Reporter, Counted, Counts, ToCount, Nobody
<1>5. AllFailed => AllFailed'
  BY <1>1 DEF AllFailed, FailedLeft, Reporter
<1> QED
  BY <1>3, <1>4, <1>5 DEF OneKept

LEMMA RetryIs ==
  ASSUME NEW kind, NEW ci, NEW E, NEW y, y = RetryRun(kind, ci, E)
  PROVE  y.kind = kind /\ y.pc = "reset" /\ y.ci = ci /\ y.entries = E /\ y.calls = 0
  BY DEF RetryRun, NoRun

(* A request is posted; one that reports finds nobody at work. *)
LEMMA PostOne ==
  ASSUME OneInv, NEW t \in Retries, NEW r \in Runs, r = <<t, 0>>, run[r] = NoRun,
         UNCHANGED <<stored, main, cancel>>,
         NEW y \in RunType, Moves(r, y), y.pc = "reset", y.calls = 0,
         NEW w \in WriteType, write' = [write EXCEPT ![r] = w], Placed(y, w), w.stage # "write",
         Reporter(y) => /\ stored[0].status = "failed" /\ stored[0].attempts <= 2 /\ w.stage # "none"
                        /\ \A q \in Runs : ~Busy(run[q], write[q])
  PROVE  OneInUse' /\ OneAtWork' /\ AttemptsCount'
<1>1. /\ run'[r] = y /\ write'[r] = w
      /\ \A o \in Runs : o # r => run'[o] = run[o] /\ write'[o] = write[o]
  BY OthersStay DEF OneInv
<1>2. Inv /\ OneInUse /\ OneAtWork /\ AttemptsCount /\ stored' = stored /\ main' = main /\ cancel' = cancel
  BY DEF OneInv
<1>3. ~Reporter(run[r]) /\ r[1] = t /\ r[1] \notin Mains /\ y.kind # "none"
  BY NoRunType, GroupAssumption DEF Reporter, Placed
<1>4. Reporter(y) => \A u \in Mains : main[u] # "queued"
  BY OneStored
<1>5. OneInUse'
  <2>1. ASSUME NEW o \in Runs
        PROVE  Placed(run[o], write[o])' /\ (write'[o].stage = "write" => write'[o].snap = stored')
               /\ (o[1] \in Mains => run'[o].kind \in {"none", "main"} /\ run'[o].pc # "reset")
    <3>1. CASE o = r
      BY <1>1, <1>3, <3>1 DEF Placed, Reporter
    <3>2. CASE o # r
      <4>1. /\ Placed(run[o], write[o]) /\ (write[o].stage = "write" => write[o].snap = stored)
            /\ (o[1] \in Mains => run[o].kind \in {"none", "main"} /\ run[o].pc # "reset")
        BY <1>2 DEF OneInUse
      <4> QED
        BY <1>1, <1>2, <3>2, <4>1 DEF Placed, Reporter
    <3> QED
      BY <3>1, <3>2
  <2>2. ASSUME NEW u \in Mains
        PROVE  IF main[u] = "queued" THEN /\ ~cancel[u] /\ stored[0] = NoChunk
                                          /\ \A o \in Runs : ~Reporter(run'[o])
               ELSE stored[0].status # "absent" /\ stored[0].items = Items
    <3>1. ASSUME main[u] = "queued", NEW o \in Runs PROVE ~Reporter(run'[o])
      BY <1>1, <1>2, <1>4, <3>1 DEF OneInUse
    <3> QED
      BY <1>2, <3>1 DEF OneInUse
  <2>3. ASSUME NEW o \in Runs, Reporter(run'[o]), run'[o].pc = "wait" PROVE ~Stopped(o)'
    <3>1. o # r
      BY <1>1, <2>3
    <3> QED
      BY <1>1, <1>2, <2>3, <3>1 DEF OneInUse, Stopped
  <2>4. IsFiniteSet(Posted')
    <3>1. ASSUME NEW u \in Retries, u # t PROVE run'[<<u, 0>>] = run[<<u, 0>>]
      <4>1. <<u, 0>> \in Runs /\ <<u, 0>> # r
        BY <3>1 DEF Runs
      <4> QED
        BY <1>1, <4>1
    <3>2. Posted' \in SUBSET (Posted \cup {t})
      BY <3>1 DEF Posted
    <3>3. IsFiniteSet(Posted \cup {t})
      BY <1>2, FS_AddElement DEF OneInUse
    <3> QED
      BY <3>2, <3>3, FS_Subset
  <2> QED
    BY <1>2, <2>1, <2>2, <2>3, <2>4 DEF OneInUse, Reporter
<1>6. OneAtWork'
  <2>1. Busy(run'[r], write'[r]) => Reporter(y)
    BY <1>1 DEF Busy
  <2>2. \A o, q \in Runs : Busy(run'[o], write'[o]) /\ Busy(run'[q], write'[q]) => o = q
    BY <1>1, <1>2, <2>1 DEF OneAtWork
  <2>3. ASSUME NEW o \in Runs, Busy(run'[o], write'[o]), stored[0].status = "failed"
        PROVE  run'[o].pc = "reset" /\ write'[o].stage # "none"
    BY <1>1, <1>2, <2>1, <2>3 DEF OneAtWork
  <2>4. \/ stored[0].status \in {"absent", "done", "failed"}
        \/ \E o \in Runs : Reporter(run'[o]) /\ (run'[o].pc = "died" \/ Busy(run'[o], write'[o]))
    <3>1. ASSUME NEW o \in Runs, Reporter(run[o]), run[o].pc = "died" \/ Busy(run[o], write[o])
          PROVE  Reporter(run'[o]) /\ (run'[o].pc = "died" \/ Busy(run'[o], write'[o]))
      BY <1>1, <1>3, <3>1
    <3> QED
      BY <1>2, <3>1 DEF OneAtWork
  <2> QED
    BY <1>2, <2>2, <2>3, <2>4 DEF OneAtWork
<1>7. AttemptsCount'
  <2>1. ASSUME NEW o \in Runs PROVE Counts(run'[o], write'[o]) <=> Counts(run[o], write[o])
    <3>1. CASE o = r
      BY <1>1, <1>3, <3>1 DEF Counts
    <3>2. CASE o # r
      BY <1>1, <3>2
    <3> QED
      BY <3>1, <3>2
  <2>2. Counted' = Counted
    BY <2>1 DEF Counted
  <2>3. ASSUME NEW o \in Runs, ToCount(run'[o], write'[o]) PROVE stored[0].attempts <= 2
    <3>1. CASE o = r
      BY <1>1, <2>3, <3>1 DEF ToCount
    <3>2. CASE o # r
      BY <1>1, <1>2, <2>3, <3>2 DEF AttemptsCount
    <3> QED
      BY <3>1, <3>2
  <2>4. Nobody' => Nobody
    <3> SUFFICES ASSUME Nobody', NEW o \in Runs, Reporter(run[o]) PROVE run[o].pc # "died"
      BY DEF Nobody
    <3>1. o # r
      BY <1>3
    <3> QED
      BY <1>1, <3>1 DEF Nobody, Reporter
  <2> QED
    BY <1>2, <2>2, <2>3, <2>4 DEF AttemptsCount
<1> QED
  BY <1>5, <1>6, <1>7

(* With one request at a time, nobody works on a chunk whose record says failed and
   which a request is about to retry.                                              *)
LEMMA NobodyAtWork ==
  ASSUME OneInv, OneChunk, NEW t \in Retries, Fresh(t), stored[0].status = "failed"
  PROVE  \A q \in Runs : ~Busy(run[q], write[q])
<1>1. IsFiniteSet(Posted) /\ Cardinality(Posted) < MaxPosts /\ MaxPosts <= 1
  BY DEF OneInv, OneInUse, Fresh, Posted, OneChunk
<1>2. Cardinality(Posted) \in Nat
  BY <1>1, FS_CardinalityType
<1>3. Cardinality(Posted) = 0
  BY <1>1, <1>2, BoundAssumption
<1>4. Posted = {}
  BY <1>1, <1>3, FS_EmptySet
<1> SUFFICES ASSUME NEW q \in Runs, Busy(run[q], write[q]) PROVE FALSE
  OBVIOUS
<1>5. run[q].pc = "reset"
  BY DEF OneInv, OneAtWork
<1>6. q[1] \notin Mains
  BY <1>5 DEF OneInv, OneInUse
<1>7. PICK u \in Retries : q = <<u, 0>>
  BY <1>6 DEF Runs
<1> QED
  BY <1>4, <1>5, <1>7 DEF Posted

LEMMA RetryChunkOne == ASSUME OneInv, OneChunk, NEW t \in Retries, RetryChunk(t) PROVE OneKept
<1>1. PICK r \in Runs : r = <<t, 0>>
  BY DEF Runs
<1>2. PICK ci \in ChunkIds :
        /\ stored[ci].status = "failed" /\ ~Exhausted(stored[ci])
        /\ Moves(r, RetryRun("chunk", ci, Eligible(stored[ci])))
  BY <1>1 DEF RetryChunk, RetryRun
<1>3. ci = 0
  BY <1>2, NoChunkIs DEF OneInv, OneInUse
<1>4. /\ Fresh(t) /\ run[r] = NoRun /\ UNCHANGED <<items, stored, main, cancel>>
      /\ write' = [write EXCEPT ![r] = Report("chunk", "pending", "none", 0)]
  BY <1>1 DEF RetryChunk, Fresh
<1>5. stored[0].items = Items /\ stored[0].attempts <= 2 /\ stored[0].attempts \in Nat
  BY <1>2, <1>3, OneStored DEF Exhausted
<1>6. PICK E, y : E = Eligible(stored[0]) /\ y = RetryRun("chunk", ci, E) /\ Moves(r, y)
  BY <1>2, <1>3
<1>7. E \in SUBSET Items
  BY <1>5, <1>6 DEF Eligible
<1>8. /\ y \in RunType /\ y.pc = "reset" /\ y.kind = "chunk" /\ y.ci = 0 /\ y.entries = E /\ y.calls = 0
      /\ Reporter(y)
  BY <1>3, <1>6, <1>7, ToRetry, RetryIs DEF Reporter
<1>9. PICK w : w = Report(y.kind, "pending", "none", 0) /\ write' = [write EXCEPT ![r] = w]
  BY <1>4, <1>8
<1>10. w \in WriteType /\ w.stage = "read" /\ w.status = "pending" /\ w.inc = 0
  <2>1. w \in WriteType
    BY <1>9, ReportType DEF ChunkStatus
  <2>2. w.stage = "read" /\ w.status = "pending" /\ w.inc = 0
    BY <1>8, <1>9, ReportIs
  <2> QED
    BY <2>1, <2>2
<1>11. Placed(y, w)
  BY <1>8, <1>10 DEF Placed
<1>12. \A q \in Runs : ~Busy(run[q], write[q])
  BY <1>2, <1>3, <1>4, NobodyAtWork
<1>13. OneInUse' /\ OneAtWork' /\ AttemptsCount'
  BY <1>1, <1>2, <1>3, <1>4, <1>5, <1>6, <1>8, <1>9, <1>10, <1>11, <1>12, PostOne
<1>14. ASSUME AllFailed PROVE AllFailed'
  <2>1. /\ run'[r] = y /\ write'[r] = w
        /\ \A o \in Runs : o # r => run'[o] = run[o] /\ write'[o] = write[o]
    BY <1>6, <1>8, <1>9, <1>10, OthersStay DEF OneInv
  <2>2. status' = status /\ stored' = stored
    BY <1>4 DEF items
  <2>3. E = Items
    BY <1>2, <1>3, <1>5, <1>6, <1>14 DEF AllFailed, Eligible, Saved
  <2>4. FailedLeft(run[r], write[r])' /\ run'[r].kind # "item"
    BY <1>8, <1>10, <2>1, <2>3 DEF FailedLeft
  <2>5. ASSUME NEW o \in Runs, o # r PROVE FailedLeft(run[o], write[o])' /\ run'[o].kind # "item"
    BY <1>14, <2>1, <2>2, <2>5 DEF AllFailed, FailedLeft
  <2> QED
    BY <1>14, <2>2, <2>4, <2>5 DEF AllFailed
<1> QED
  BY <1>13, <1>14 DEF OneKept

LEMMA RetryItemOne ==
  ASSUME OneInv, NEW t \in Retries, RetryItem(t) PROVE OneInUse' /\ OneAtWork' /\ AttemptsCount'
<1>1. PICK r \in Runs : r = <<t, 0>>
  BY DEF Runs
<1>2. PICK i \in Items : Moves(r, RetryRun("item", RetryTag(tag[i]), {i}))
  BY <1>1 DEF RetryItem, RetryRun
<1>3. run[r] = NoRun /\ UNCHANGED <<items, stored, main, cancel, write>> /\ write[r] \in WriteType
  BY <1>1, RunOf DEF RetryItem, Fresh, OneInv, Inv
<1>4. PICK ci, E : ci = RetryTag(tag[i]) /\ E = {i}
  OBVIOUS
<1>5. ci \in ChunkIds \cup {-1} /\ E \in SUBSET Items
  BY <1>4 DEF OneInv, Inv, TypeOK, RetryTag
<1>6. PICK y : y = RetryRun("item", ci, E) /\ Moves(r, y)
  BY <1>2, <1>4
<1>7. y \in RunType /\ y.pc = "reset" /\ y.kind = "item" /\ y.calls = 0 /\ ~Reporter(y)
  BY <1>5, <1>6, ToRetry, RetryIs DEF Reporter
<1>8. write[r].stage = "none"
  BY <1>3, NoRunType DEF OneInv, OneInUse, Placed, Reporter
<1>9. PICK w \in WriteType : write' = [write EXCEPT ![r] = w] /\ w.stage = "none"
  BY <1>3, <1>8 DEF OneInv, Inv, TypeOK
<1>10. Placed(y, w)
  BY <1>7, <1>9 DEF Placed
<1> QED
  BY <1>1, <1>3, <1>6, <1>7, <1>9, <1>10, PostOne

-----------------------------------------------------------------------------

LEMMA InitOne == Init => OneInv /\ AllFailed
<1> SUFFICES ASSUME Init PROVE OneInv /\ AllFailed
  OBVIOUS
<1>1. /\ \A r \in Runs : run[r] = NoRun /\ write[r] = NoWrite
      /\ \A t \in Mains : main[t] = "queued" /\ ~cancel[t]
      /\ \A ci \in ChunkIds : stored[ci] = NoChunk
  BY DEF Init
<1>2. \A r \in Runs : /\ run[r].kind = "none" /\ run[r].pc = "none" /\ write[r].stage = "none"
                      /\ ~Reporter(run[r])
  BY <1>1, NoRunType, NoWriteType DEF Reporter
<1>3. stored[0] = NoChunk /\ stored[0].status = "absent" /\ stored[0].attempts = 0
  BY <1>1, NoChunkIs, ChunkIdsFinite
<1>4. Posted = {}
  BY <1>2 DEF Posted, Runs
<1>5. OneInUse
  BY <1>1, <1>2, <1>3, <1>4, FS_EmptySet DEF OneInUse, Placed
<1>6. OneAtWork
  BY <1>2, <1>3 DEF OneAtWork, Busy
<1>7. AttemptsCount
  <2>1. Counted = {}
    BY <1>2 DEF Counted, Counts
  <2>2. IsFiniteSet(Counted) /\ Cardinality(Counted) = 0
    BY <2>1, FS_EmptySet
  <2> QED
    BY <1>2, <1>3, <2>2 DEF AttemptsCount, ToCount
<1>8. AllFailed
  BY <1>2, <1>3 DEF AllFailed, FailedLeft
<1> QED
  BY <1>5, <1>6, <1>7, <1>8, InitInv DEF OneInv

LEMMA NextOne ==
  ASSUME OneChunk, OneInv, [Next]_vars
  PROVE  OneInv' /\ ("item" \notin Kinds /\ AllFailed => AllFailed')
<1>1. ASSUME NEW t \in Mains, MainStart(t) \/ MainEnds(t) PROVE OneKept
  BY <1>1, MainStartOne, MainEndsOne
<1>2. ASSUME NEW t \in Retries, RetryChunk(t) \/ RetryItem(t) \/ Reset(t)
      PROVE  OneKept \/ ("item" \in Kinds /\ OneInUse' /\ OneAtWork' /\ AttemptsCount')
  BY <1>2, RetryChunkOne, RetryItemOne, ResetOne DEF RetryItem
<1>3. ASSUME NEW r \in Runs, Step(r) \/ Die(r) PROVE OneKept
  <2>1. CASE ReadChunks(r) \/ WriteChunks(r) \/ Die(r)
    BY <2>1, ReadChunksOne, WriteChunksOne, DieOne
  <2>2. CASE Extract(r)
    BY <2>2, EnterOne, SkipOne, MarkProcessingOne, ExtractedOne, CallFailsOne,
       BackoffOne, CallAgainOne, WokenOne DEF Extract
  <2>3. CASE Settle(r)
    BY <2>3, SaveOne, SaveEndsOne, FanCallOne, FanSaveOne, FanFailsOne,
       FanEndsOne, MarkFailedOne DEF Settle
  <2> QED
    BY <1>3, <2>1, <2>2, <2>3 DEF Step
<1>4. ASSUME UNCHANGED vars PROVE OneKept
  <2>1. UNCHANGED <<status, stored, main, cancel, run, write>>
    BY <1>4 DEF vars, items
  <2>2. OneInUse'
    BY <2>1 DEF OneInv, OneInUse, Placed, Reporter, Stopped, Posted
  <2>3. OneAtWork' /\ AttemptsCount'
    BY <2>1 DEF OneInv, OneAtWork, AttemptsCount, Busy, Reporter, Counted, Counts, ToCount, Nobody
  <2>4. AllFailed => AllFailed'
    BY <2>1 DEF AllFailed, FailedLeft, Reporter
  <2> QED
    BY <2>2, <2>3, <2>4 DEF OneKept
<1>5. Inv'
  BY NextInv DEF OneInv
<1> QED
  BY <1>1, <1>2, <1>3, <1>4, <1>5 DEF Next, OneKept, OneInv

(* In a session of one chunk that is retried by one request at a time, at most three
   runs of the chunk ever call the provider: each is counted before its first call,
   one works at a time, and a retry is refused once three were counted.             *)
THEOREM ThreeRunsAtMost == ASSUME OneChunk PROVE Spec => []RetryCap
<1>1. OneInv /\ [Next]_vars => OneInv'
  BY NextOne
<1>2. Init => OneInv
  BY InitOne
<1>3. OneInv => RetryCap
  <2> SUFFICES ASSUME OneInv, NEW ci \in ChunkIds PROVE Cardinality(Calling(ci)) <= 3
    BY DEF RetryCap
  <2>1. \A r \in Calling(ci) : r \in Counted /\ ci = 0
    BY DEF Calling, RunsOf, Counted, Counts, Reporter, OneInv, OneInUse, Placed
  <2>2. Calling(ci) \in SUBSET Counted /\ IsFiniteSet(Counted)
    BY <2>1 DEF OneInv, AttemptsCount
  <2>3. /\ Cardinality(Calling(ci)) <= Cardinality(Counted)
        /\ Cardinality(Calling(ci)) \in Nat /\ Cardinality(Counted) \in Nat
    BY <2>2, FS_Subset, FS_CardinalityType
  <2>4. Cardinality(Counted) <= stored[0].attempts /\ stored[0].attempts <= 3 /\ stored[0].attempts \in Nat
    BY OneStored DEF OneInv, AttemptsCount
  <2> QED
    BY <2>3, <2>4
<1> QED
  BY <1>1, <1>2, <1>3, PTL DEF Spec

(* In such a session, if images are not retried one by one, the record of the chunk
   tells what happened once its runs are over: it is final, it counts every run that
   called the provider, and it says failed only if every image failed.              *)
THEOREM ChunkTold == ASSUME OneChunk, "item" \notin Kinds PROVE Spec => []ChunkReported
<1>1. (OneInv /\ AllFailed) /\ [Next]_vars => (OneInv /\ AllFailed)'
  BY NextOne
<1>2. Init => OneInv /\ AllFailed
  BY InitOne
<1>3. OneInv /\ AllFailed => ChunkReported
  <2> SUFFICES ASSUME OneInv, AllFailed, NEW ci \in ChunkIds, RunsOf(ci) # {},
                      \A r \in RunsOf(ci) : At(r, "over")
               PROVE  /\ stored[ci].status \in {"done", "failed"}
                      /\ stored[ci].attempts = Cardinality(Calling(ci))
                      /\ stored[ci].status = "failed" => \A i \in stored[ci].items : status[i] = "failed"
    BY DEF ChunkReported
  <2>1. \A r \in Runs : Reporter(run[r]) => run[r].ci = 0
    BY DEF OneInv, OneInUse, Placed
  <2>2. ci = 0 /\ \E r \in Runs : Reporter(run[r])
    BY <2>1 DEF RunsOf, Reporter
  <2>3. \A r \in Runs : Reporter(run[r]) => r \in RunsOf(ci)
    BY <2>1, <2>2 DEF RunsOf, Reporter
  <2>4. \A r \in Runs : Reporter(run[r]) => run[r].pc = "over" /\ write[r].stage = "none"
    BY <2>3 DEF At
  <2>5. Nobody /\ \A r \in Runs : ~Busy(run[r], write[r])
    BY <2>4 DEF Nobody, Busy
  <2>6. stored[0].status # "absent" /\ stored[0].items = Items
    BY <2>2, OneStored
  <2>7. stored[0].status \in {"done", "failed"}
    BY <2>4, <2>5, <2>6 DEF OneInv, OneAtWork
  <2>8. Calling(0) = Counted
    BY <2>1, <2>4 DEF Calling, RunsOf, Counted, Counts, Reporter
  <2>9. stored[0].attempts = Cardinality(Calling(0))
    BY <2>5, <2>8 DEF OneInv, AttemptsCount
  <2> QED
    BY <2>2, <2>6, <2>7, <2>9 DEF AllFailed
<1> QED
  BY <1>1, <1>2, <1>3, PTL DEF Spec
=============================================================================
