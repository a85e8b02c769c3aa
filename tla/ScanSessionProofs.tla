------------------------- MODULE ScanSessionProofs -------------------------
(***************************************************************************)
(* What holds of a scan session for every number of images, requests and   *)
(* messages.                                                               *)
(***************************************************************************)
EXTENDS ScanSession, TLAPS

(* derive_session_status returns a session status whatever it is given. *)
LEMMA DeriveType == \A st : derive_session_status(st) \in SessStatus
  BY DEF derive_session_status, SessStatus

LEMMA ReconciledType == TypeOK => Reconciled \in SessStatus \cup {"absent"}
  BY DeriveType DEF Reconciled, TypeOK, SessStatus

(* The two statements that write the rows of a session keep their types. *)
LEMMA SetStatusType ==
  ASSUME TypeOK, NEW s \in SessStatus \cup {"absent"}, SetStatus(s)
  PROVE  sess' \in SessStatus \cup {"absent"} /\ idle' \in BOOLEAN
  BY DEF TypeOK, SetStatus

LEMMA WriteItemsType ==
  ASSUME TypeOK, NEW S, NEW s \in ItemStatus, NEW c \in ErrorCodes, WriteItems(S, s, c)
  PROVE  /\ status' \in [Items -> ItemStatus]
         /\ code' \in [Items -> ErrorCodes]
         /\ idle' \in BOOLEAN
  BY DEF TypeOK, WriteItems

LEMMA Statuses ==
  /\ {"pending", "optimizing", "processing", "needs_review", "duplicate", "prepared", "failed"}
        \subseteq ItemStatus
  /\ {"none", "account", "other"} \subseteq ErrorCodes
  /\ {"prepared", "failed", "processing"} \subseteq SessStatus
  BY DEF ItemStatus, Transient, Saved, ErrorCodes, SessStatus

(* Records of the two kinds of actors. *)
LEMMA NoProcType == NoProc \in ProcType
  BY DEF NoProc, ProcType

LEMMA NewTaskType ==
  ASSUME NEW k \in {"none", "dispatch", "retry"}, NEW S \in SUBSET Items
  PROVE  NewTask(k, S) \in TaskType
  BY DEF NewTask, TaskType, Phases

LEMMA FreeTaskType == FreeTask \in TaskType
  BY DEF FreeTask, NewTask, TaskType, Phases

LEMMA TypeInit == Init => TypeOK
<1> SUFFICES ASSUME Init PROVE TypeOK
  OBVIOUS
<1>1. proc \in [Procs -> ProcType] /\ task \in [Tasks -> TaskType]
  BY NoProcType, FreeTaskType DEF Init
<1>2. status \in [Items -> ItemStatus] /\ code \in [Items -> ErrorCodes]
  BY Statuses DEF Init
<1> QED
  BY <1>1, <1>2 DEF Init, TypeOK, SessStatus

-----------------------------------------------------------------------------
(* Each group of actions keeps the types. *)

LEMMA TypeBegin ==
  ASSUME TypeOK, NEW p \in Procs, NEW k \in ReqKinds \cup {"reap"}, Begin(p, k)
  PROVE  TypeOK'
<1>1. [NoProc EXCEPT !.kind = k, !.pc = "load"] \in ProcType
  BY DEF NoProc, ProcType
<1> QED
  BY <1>1 DEF Begin, TypeOK, rows, disk

LEMMA LoadedType ==
  ASSUME TypeOK, NEW k \in ReqKinds \cup {"none", "reap"}, NEW S \in SUBSET Items
  PROVE  Loaded(k, S) \in ProcType
  BY ReconciledType DEF Loaded, NoProc, ProcType

LEMMA TypeLoad == ASSUME TypeOK, NEW p \in Procs, Load(p) PROVE TypeOK'
<1>1. PICK S \in SUBSET Items : proc' = [proc EXCEPT ![p] = Loaded(proc[p].kind, S)]
  BY DEF Load
<1>2. Loaded(proc[p].kind, S) \in ProcType
  BY LoadedType DEF TypeOK, ProcType
<1>3. proc' \in [Procs -> ProcType]
  BY <1>1, <1>2 DEF TypeOK
<1>4. UNCHANGED <<sess, status, code, idle, files, receipts, task, faults>>
  BY DEF Load, rows
<1>5. dir' \in BOOLEAN /\ uploads' \in Nat
  BY DEF Load, TypeOK
<1> QED
  BY <1>3, <1>4, <1>5 DEF TypeOK

LEMMA TypeRefuse == ASSUME TypeOK, NEW p \in Procs, Refuse(p) PROVE TypeOK'
<1>1. [proc[p] EXCEPT !.pc = "rmtree"] \in ProcType
  BY DEF TypeOK, ProcType
<1>2. [proc[p] EXCEPT !.pc = "last", !.seen = Reconciled] \in ProcType
  BY ReconciledType DEF TypeOK, ProcType
<1>3. proc' \in [Procs -> ProcType]
  BY <1>1, <1>2, NoProcType DEF Refuse, TypeOK
<1> QED
  BY <1>3 DEF Refuse, TypeOK, rows, disk

LEMMA TypeReconcile == ASSUME TypeOK, NEW p \in Procs, Reconcile(p) PROVE TypeOK'
<1>1. proc[p] \in ProcType
  BY DEF TypeOK
<1>2. \A v \in SessStatus \cup {"absent"} : [proc[p] EXCEPT !.pc = "act", !.seen = v] \in ProcType
  BY <1>1 DEF ProcType
<1>3. proc[p].seen \in SessStatus \cup {"absent"}
  BY <1>1 DEF ProcType
<1> DEFINE v == IF proc[p].kind = "retry" THEN proc[p].seen ELSE "absent"
           next == IF proc[p].pc = "last" THEN NoProc ELSE [proc[p] EXCEPT !.pc = "act", !.seen = v]
<1>a. proc' = [proc EXCEPT ![p] = next]
  BY DEF Reconcile
<1>b. next \in ProcType
  BY <1>2, <1>3, NoProcType
<1> HIDE DEF next
<1>4. proc' \in [Procs -> ProcType]
  BY <1>a, <1>b DEF TypeOK
<1>5. sess' \in SessStatus \cup {"absent"} /\ idle' \in BOOLEAN
  BY <1>3, SetStatusType DEF Reconcile
<1> QED
  BY <1>4, <1>5 DEF Reconcile, TypeOK, disk

LEMMA TypeLoadAgain == ASSUME TypeOK, NEW p \in Procs, LoadAgain(p) PROVE TypeOK'
  BY ReconciledType, NoProcType DEF LoadAgain, TypeOK, ProcType, rows, disk

LEMMA TypeRequestDies == ASSUME TypeOK, NEW p \in Procs, RequestDies(p) PROVE TypeOK'
  BY NoProcType DEF RequestDies, Fault, TypeOK, rows, disk
(* An update of one handler, or of one message, keeps the type of all. *)
LEMMA ProcUpdate ==
  ASSUME TypeOK, NEW p \in Procs, NEW r, proc[p] \in ProcType => r \in ProcType,
         proc' = [proc EXCEPT ![p] = r]
  PROVE  proc' \in [Procs -> ProcType]
  BY DEF TypeOK

LEMMA TaskUpdate ==
  ASSUME TypeOK, NEW t \in Tasks, NEW r, task[t] \in TaskType => r \in TaskType,
         task' = [task EXCEPT ![t] = r]
  PROVE  task' \in [Tasks -> TaskType]
  BY DEF TypeOK

LEMMA TypeUpload == ASSUME TypeOK, NEW p \in Procs, Upload(p) PROVE TypeOK'
<1> USE DEF TypeOK
<1>0. proc[p] \in ProcType
  OBVIOUS
<1>1. CASE OptimizeStart(p)
  <2>1. PICK i \in Items : update_item(i, "optimizing", "none")
    BY <1>1 DEF OptimizeStart
  <2>2. status' \in [Items -> ItemStatus] /\ code' \in [Items -> ErrorCodes] /\ idle' \in BOOLEAN
    BY <2>1, WriteItemsType, Statuses DEF update_item
  <2>3. [proc[p] EXCEPT !.pc = "prep"] \in ProcType
    BY <1>0 DEF ProcType
  <2> QED
    BY <1>1, <2>2, <2>3 DEF OptimizeStart, Goes, disk
<1>2. CASE OptimizeOk(p)
  <2>1. PICK i \in Items :
          /\ files' = files \cup {i}
          /\ proc' = [proc EXCEPT ![p] = [proc[p] EXCEPT !.pc = "act", !.todo = proc[p].todo \ {i},
                                                        !.staged = proc[p].staged \cup {i}]]
    BY <1>2 DEF OptimizeOk
  <2>2. [proc[p] EXCEPT !.pc = "act", !.todo = proc[p].todo \ {i},
                        !.staged = proc[p].staged \cup {i}] \in ProcType
    BY <1>0 DEF ProcType
  <2> QED
    BY <1>2, <2>1, <2>2 DEF OptimizeOk, rows
<1>3. CASE OptimizeFails(p)
  <2>1. PICK i \in Items :
          /\ update_item(i, "failed", "other")
          /\ proc' = [proc EXCEPT ![p] = [proc[p] EXCEPT !.pc = "act", !.todo = proc[p].todo \ {i}]]
    BY <1>3 DEF OptimizeFails
  <2>2. status' \in [Items -> ItemStatus] /\ code' \in [Items -> ErrorCodes] /\ idle' \in BOOLEAN
    BY <2>1, WriteItemsType, Statuses DEF update_item
  <2>3. [proc[p] EXCEPT !.pc = "act", !.todo = proc[p].todo \ {i}] \in ProcType
    BY <1>0 DEF ProcType
  <2> QED
    BY <1>3, <2>1, <2>2, <2>3 DEF OptimizeFails, disk
<1>4. CASE LookupHashes(p)
  <2>1. [proc[p] EXCEPT !.pc = "resolve", !.dups = proc[p].staged \cap receipts] \in ProcType
    BY <1>0 DEF ProcType
  <2> QED
    BY <1>4, <2>1 DEF LookupHashes, rows, disk
<1>5. CASE Resolve(p)
  <2>1. PICK U \in SUBSET proc[p].staged, count \in BOOLEAN :
          proc' = [proc EXCEPT ![p] = [proc[p] EXCEPT !.staged = proc[p].staged \ U, !.count = count]]
    BY <1>0, <1>5 DEF Resolve, ProcType
  <2>2. [proc[p] EXCEPT !.staged = proc[p].staged \ U, !.count = count] \in ProcType
    BY <1>0 DEF ProcType
  <2>3. status' \in [Items -> ItemStatus] /\ code' \in [Items -> ErrorCodes] /\ idle' \in BOOLEAN
    BY <1>5, Statuses DEF Resolve
  <2>4. files' \subseteq Items
    BY <1>5 DEF Resolve
  <2> QED
    BY <1>5, <2>1, <2>2, <2>3, <2>4 DEF Resolve
<1>6. CASE finalize_prepared(p)
  <2>1. sess' \in SessStatus \cup {"absent"} /\ idle' \in BOOLEAN
    BY <1>6, SetStatusType, Statuses DEF finalize_prepared, AfterUpload
  <2>2. [proc[p] EXCEPT !.pc = "again"] \in ProcType
    BY <1>0 DEF ProcType
  <2> QED
    BY <1>6, <2>1, <2>2 DEF finalize_prepared, Goes, disk
<1> QED
  BY <1>1, <1>2, <1>3, <1>4, <1>5, <1>6 DEF Upload

LEMMA TypeSendOff == ASSUME TypeOK, NEW p \in Procs, SendOff(p) PROVE TypeOK'
<1> USE DEF TypeOK
<1>0. proc[p] \in ProcType
  OBVIOUS
<1>1. CASE mark_queued(p)
  <2>1. \A S \in SUBSET Items : [proc[p] EXCEPT !.pc = "status", !.todo = S] \in ProcType
    BY <1>0 DEF ProcType
  <2>2. StillPrepared(proc[p].todo) \in SUBSET Items
    BY <1>0 DEF StillPrepared, ProcType
  <2>3. proc' \in [Procs -> ProcType]
    BY <1>1, <2>1, <2>2, NoProcType DEF mark_queued
  <2>4. status' \in [Items -> ItemStatus] /\ code' \in [Items -> ErrorCodes] /\ idle' \in BOOLEAN
    BY <1>1, WriteItemsType, Statuses DEF mark_queued
  <2> QED
    BY <1>1, <2>3, <2>4 DEF mark_queued, disk
<1>2. CASE ResetForRetry(p)
  <2>1. \A pc \in {"status", "enqueue"} : [proc[p] EXCEPT !.pc = pc] \in ProcType
    BY <1>0 DEF ProcType
  <2>2. status' \in [Items -> ItemStatus] /\ code' \in [Items -> ErrorCodes] /\ idle' \in BOOLEAN
    BY <1>2, WriteItemsType, Statuses DEF ResetForRetry
  <2> QED
    BY <1>2, <2>1, <2>2 DEF ResetForRetry, Goes, disk
<1>3. CASE MarkProcessing(p)
  <2>1. sess' \in SessStatus \cup {"absent"} /\ idle' \in BOOLEAN
    BY <1>3, SetStatusType, Statuses DEF MarkProcessing
  <2>2. [proc[p] EXCEPT !.pc = "enqueue"] \in ProcType
    BY <1>0 DEF ProcType
  <2> QED
    BY <1>3, <2>1, <2>2 DEF MarkProcessing, Goes, disk
<1>4. CASE Enqueue(p)
  <2>1. proc[p].kind \in {"dispatch", "retry"} => NewTask(proc[p].kind, proc[p].todo) \in TaskType
    BY <1>0, NewTaskType DEF ProcType
  <2> QED
    BY <1>4, <2>1, NoProcType DEF Enqueue, FreeTasks, rows, disk
<1> QED
  BY <1>1, <1>2, <1>3, <1>4 DEF SendOff

LEMMA TypeSweep == ASSUME TypeOK, NEW p \in Procs, Sweep(p) \/ SweepEnds(p) PROVE TypeOK'
<1> USE DEF TypeOK
<1>0. proc[p] \in ProcType
  OBVIOUS
<1>1. CASE Sweep(p)
  <2>1. PICK i \in Items :
          /\ update_item(i, "failed", "other")
          /\ proc' = [proc EXCEPT ![p] = [proc[p] EXCEPT !.todo = proc[p].todo \ {i}]]
    BY <1>1 DEF Sweep
  <2>2. status' \in [Items -> ItemStatus] /\ code' \in [Items -> ErrorCodes] /\ idle' \in BOOLEAN
    BY <2>1, WriteItemsType, Statuses DEF update_item
  <2>3. [proc[p] EXCEPT !.todo = proc[p].todo \ {i}] \in ProcType
    BY <1>0 DEF ProcType
  <2> QED
    BY <1>1, <2>1, <2>2, <2>3 DEF Sweep, disk
<1>2. CASE SweepEnds(p)
  <2>1. [proc[p] EXCEPT !.pc = "again"] \in ProcType
    BY <1>0 DEF ProcType
  <2> QED
    BY <1>2, <2>1, NoProcType DEF SweepEnds, Goes, rows, disk
<1> QED
  BY <1>1, <1>2

LEMMA TypeDelete == ASSUME TypeOK, NEW p \in Procs, DropSession(p) \/ RemoveDir(p) PROVE TypeOK'
<1> USE DEF TypeOK
<1>1. CASE DropSession(p)
  <2>1. [proc[p] EXCEPT !.pc = "rmtree"] \in ProcType
    BY DEF ProcType
  <2> QED
    BY <1>1, <2>1, Statuses DEF DropSession, Goes, disk
<1>2. CASE RemoveDir(p)
  BY <1>2, NoProcType DEF RemoveDir, rows
<1> QED
  BY <1>1, <1>2

LEMMA TypeHandle == ASSUME TypeOK, NEW p \in Procs, Handle(p) PROVE TypeOK'
  BY TypeLoad, TypeRefuse, TypeReconcile, TypeLoadAgain, TypeUpload, TypeSendOff, TypeSweep, TypeDelete
     DEF Handle

-----------------------------------------------------------------------------
(* The worker. *)

LEMMA PhaseType ==
  ASSUME TypeOK, NEW t \in Tasks, NEW i \in Items, NEW ph \in Phases, Phase(t, i, ph)
  PROVE  task' \in [Tasks -> TaskType]
<1>1. task[t] \in TaskType
  BY DEF TypeOK
<1>2. [task[t] EXCEPT !.phase[i] = ph] \in TaskType
  BY <1>1 DEF TaskType
<1> QED
  BY <1>2 DEF Phase, TypeOK

LEMMA TypeExtract == ASSUME TypeOK, NEW t \in Tasks, Extract(t) PROVE TypeOK'
<1> USE DEF TypeOK
<1>0. {"todo", "ai", "save", "saved", "dup", "over"} \subseteq Phases
  BY DEF Phases
<1>1. PICK i \in Items : \/ SendToAI(t, i) \/ ExtractOk(t, i) \/ ExtractFails(t, i)
                        \/ SaveReceipt(t, i) \/ SaveFails(t, i) \/ ReportSaved(t, i)
  BY DEF Extract
<1>2. CASE SaveReceipt(t, i)
  <2>1. task' \in [Tasks -> TaskType]
    BY <1>0, <1>2, PhaseType DEF SaveReceipt
  <2> QED
    BY <1>2, <2>1 DEF SaveReceipt, rows, disk
<1>3. CASE ~SaveReceipt(t, i)
  <2>1. PICK s \in ItemStatus, c \in ErrorCodes, ph \in Phases : update_item(i, s, c) /\ Phase(t, i, ph)
    BY <1>0, <1>1, <1>3, Statuses
       DEF SendToAI, ExtractOk, ExtractFails, SaveFails, ReportSaved, WhileSaving
  <2>2. task' \in [Tasks -> TaskType]
    BY <2>1, PhaseType
  <2>3. status' \in [Items -> ItemStatus] /\ code' \in [Items -> ErrorCodes] /\ idle' \in BOOLEAN
    BY <2>1, WriteItemsType DEF update_item
  <2>4. UNCHANGED <<sess, files, dir, receipts, proc, uploads, faults>>
    BY <1>1, <1>3 DEF SendToAI, ExtractOk, ExtractFails, SaveFails, ReportSaved, disk
  <2> QED
    BY <2>2, <2>3, <2>4
<1> QED
  BY <1>2, <1>3

LEMMA TypeWork == ASSUME TypeOK, NEW t \in Tasks, Work(t) PROVE TypeOK'
<1> USE DEF TypeOK
<1>0. task[t] \in TaskType
  OBVIOUS
<1>1. CASE TaskStart(t)
  <2>1. [task[t] EXCEPT !.st = "running"] \in TaskType
    BY <1>0 DEF TaskType
  <2>2. sess' \in SessStatus \cup {"absent"} /\ idle' \in BOOLEAN
    BY <1>1, SetStatusType, Statuses DEF TaskStart
  <2> QED
    BY <1>1, <2>1, <2>2 DEF TaskStart, disk
<1>2. CASE TaskLoad(t)
  <2>1. /\ [task[t] EXCEPT !.st = "acked"] \in TaskType
        /\ [task[t] EXCEPT !.st = "settle", !.final = derive_session_status(status)] \in TaskType
    BY <1>0, DeriveType DEF TaskType
  <2> QED
    BY <1>2, <2>1 DEF TaskLoad, rows, disk
<1>3. CASE TaskSettle(t)
  <2>1. [task[t] EXCEPT !.st = "acked"] \in TaskType /\ task[t].final \in SessStatus \cup {"absent"}
    BY <1>0 DEF TaskType
  <2>2. sess' \in SessStatus \cup {"absent"} /\ idle' \in BOOLEAN
    BY <1>3, <2>1, SetStatusType DEF TaskSettle
  <2> QED
    BY <1>3, <2>1, <2>2 DEF TaskSettle, disk
<1> QED
  BY <1>1, <1>2, <1>3, TypeExtract DEF Work

LEMMA TypeAccident == ASSUME TypeOK, NEW t \in Tasks, Accident(t) PROVE TypeOK'
<1> USE DEF TypeOK
<1>0. task[t] \in TaskType /\ (Fault => faults' \in Nat)
  BY DEF Fault
<1>1. CASE TaskRaises(t)
  <2>1. [task[t] EXCEPT !.st = "acked"] \in TaskType
    BY <1>0 DEF TaskType
  <2>2. sess' \in SessStatus \cup {"absent"} /\ idle' \in BOOLEAN
    BY <1>1, SetStatusType, Statuses DEF TaskRaises
  <2> QED
    BY <1>0, <1>1, <2>1, <2>2 DEF TaskRaises, disk
<1>2. CASE Redeliver(t)
  <2>1. NewTask(task[t].kind, task[t].entries) \in TaskType
    BY <1>0, NewTaskType DEF TaskType
  <2> QED
    BY <1>0, <1>2, <2>1 DEF Redeliver, FreeTasks, rows, disk
<1>3. ASSUME NEW i \in Items, ChunkDies(t, i) PROVE TypeOK'
  <2>1. task' \in [Tasks -> TaskType]
    BY <1>3, PhaseType DEF ChunkDies, Phases
  <2> QED
    BY <1>0, <1>3, <2>1 DEF ChunkDies, rows, disk
<1> QED
  BY <1>1, <1>2, <1>3 DEF Accident

LEMMA TypeCrash == ASSUME TypeOK, WorkerCrash PROVE TypeOK'
<1>1. \A t \in Tasks : NewTask(task[t].kind, task[t].entries) \in TaskType
  BY NewTaskType DEF TypeOK, TaskType
<1> QED
  BY <1>1 DEF WorkerCrash, Fault, TypeOK, rows, disk

LEMMA TypeNext == TypeOK /\ [Next]_vars => TypeOK'
<1> SUFFICES ASSUME TypeOK, [Next]_vars PROVE TypeOK'
  OBVIOUS
<1>1. ASSUME NEW p \in Requests, StartRequest(p) PROVE TypeOK'
  BY <1>1, TypeBegin DEF StartRequest, Procs
<1>2. CASE StartReap
  BY <1>2, TypeBegin DEF StartReap, Procs
<1>3. CASE TimePasses
  BY <1>3 DEF TimePasses, TypeOK, disk
<1>4. CASE UNCHANGED vars
  BY <1>4 DEF vars, rows, disk, TypeOK
<1> QED
  BY <1>1, <1>2, <1>3, <1>4, TypeHandle, TypeRequestDies, TypeWork, TypeAccident, TypeCrash DEF Next

(* Every variable of the module keeps the type the code gives it: the four rows
   and columns of the session, its files, its handlers and its messages.        *)
THEOREM TypeCorrect == Spec => []TypeOK
  BY TypeInit, TypeNext, PTL DEF Spec

-----------------------------------------------------------------------------

(* A step of one handler leaves the others what they have. *)
LEMMA OtherHandlers ==
  ASSUME TypeOK, NEW p \in Procs, NEW r, proc' = [proc EXCEPT ![p] = r]
  PROVE  /\ proc'[p] = r
         /\ \A q \in Procs : q # p => /\ proc'[q] = proc[q]
                                      /\ Flipped(q)' = Flipped(q)
                                      /\ InHand(q)' = InHand(q)
                                      /\ Uploading(q)' <=> Uploading(q)
  BY DEF TypeOK, Flipped, InHand, Uploading

(* The invariant is kept by a step that puts nothing in a message, takes nothing
   more in hand and prepares nothing.                                          *)
Recedes ==
    /\ uploads' = uploads
    /\ \A t \in Tasks : Sent(t)' \subseteq Sent(t)
    /\ \A p \in Procs : /\ Flipped(p)' \subseteq Flipped(p)
                        /\ InHand(p)' \subseteq InHand(p)
                        /\ Uploading(p)' => /\ Uploading(p)
                                            /\ proc'[p].todo \cap proc'[p].staged = {}
    /\ \A i \in Items : status'[i] = "prepared" => status[i] = "prepared"

LEMMA InHandItems == TypeOK => \A p \in Procs : InHand(p) \subseteq Items
  BY DEF TypeOK, InHand, ProcType

(* What a step keeps: who has which image in hand, and that it is dispatched once. *)
Kept == HandInv' /\ (DispatchedOnce => DispatchedOnce')

LEMMA RecedesKeeps == ASSUME TypeOK, HandInv, Recedes PROVE Kept
<1>1. \A i \in Items : Taken(i)' => Taken(i)
  BY DEF Recedes, Taken
<1>2. OneUpload'
  BY DEF HandInv, OneUpload, Recedes
<1>3. TakenNotHeld'
  BY <1>1 DEF HandInv, TakenNotHeld, Recedes
<1>4. InHandIsNew'
  <2>1. (uploads = 0 => \A i \in Items : status[i] # "prepared" /\ ~Taken(i))'
    BY <1>1 DEF HandInv, InHandIsNew, Recedes
  <2>2. ASSUME NEW p \in Procs, NEW i \in InHand(p)' PROVE status'[i] # "prepared" /\ ~Taken(i)'
    <3>1. i \in InHand(p) /\ i \in Items
      BY InHandItems DEF Recedes
    <3> QED
      BY <1>1, <3>1 DEF HandInv, InHandIsNew, Recedes
  <2> QED
    BY <2>1, <2>2 DEF InHandIsNew, Recedes
<1>5. DispatchedOnce => DispatchedOnce'
  BY DEF DispatchedOnce, Recedes
<1> QED
  BY <1>2, <1>3, <1>4, <1>5 DEF Kept, HandInv

(* The two ways a step of a handler recedes. *)
LEMMA HandlerRecedes ==
  ASSUME TypeOK, HandInv, NEW p \in Procs, NEW r, proc' = [proc EXCEPT ![p] = r],
         UNCHANGED <<task, uploads>>,
         \A i \in Items : status'[i] = "prepared" => status[i] = "prepared",
         Flipped(p)' \subseteq Flipped(p),
         \/ ~Uploading(p)'
         \/ /\ Uploading(p) /\ InHand(p)' \subseteq InHand(p)
            /\ r.todo \cap r.staged = {}
  PROVE  Kept
<1>1. \A t \in Tasks : Sent(t)' = Sent(t)
  BY DEF Sent
<1>2. InHand(p)' \subseteq InHand(p)
  BY DEF InHand
<1>3. \A q \in Procs : Uploading(q)' => Uploading(q) /\ proc'[q].todo \cap proc'[q].staged = {}
  BY OtherHandlers DEF HandInv, InHandIsNew
<1>4. Recedes
  BY <1>1, <1>2, <1>3, OtherHandlers DEF Recedes
<1> QED
  BY <1>4, RecedesKeeps

(* None of the writes but that of Resolve prepares an item. *)
LEMMA WritesPrepareNothing ==
  ASSUME TypeOK, NEW S, NEW s, s # "prepared", NEW c, WriteItems(S, s, c)
  PROVE  \A i \in Items : status'[i] = "prepared" => status[i] = "prepared"
  BY DEF TypeOK, WriteItems

-----------------------------------------------------------------------------
(* Loads, refusals, repairs, and a handler that dies. *)

LEMMA DispatchInit == Init => HandInv /\ DispatchedOnce
<1> SUFFICES ASSUME Init PROVE HandInv /\ DispatchedOnce
  OBVIOUS
<1>1. \A p \in Procs : ~Uploading(p) /\ Flipped(p) = {}
  BY DEF Init, NoProc, Uploading, Flipped
<1>2. \A t \in Tasks : Sent(t) = {}
  BY DEF Init, FreeTask, NewTask, Sent
<1> QED
  BY <1>1, <1>2, BoundsAssumption
     DEF Init, HandInv, OneUpload, TakenNotHeld, InHandIsNew, InHand, DispatchedOnce, Taken

LEMMA DispatchBegin ==
  ASSUME TypeOK, HandInv, NEW p \in Procs, NEW k \in ReqKinds \cup {"reap"}, Begin(p, k)
  PROVE  Kept
<1> DEFINE r == [NoProc EXCEPT !.kind = k, !.pc = "load"]
<1>1. r.pc = "load"
  BY DEF NoProc
<1>2. /\ proc' = [proc EXCEPT ![p] = r]
      /\ UNCHANGED <<task, uploads, status>>
  BY DEF Begin, rows
<1> HIDE DEF r
<1>3. proc'[p] = r
  BY <1>2, OtherHandlers
<1>4. ~Uploading(p)' /\ Flipped(p)' = {}
  BY <1>1, <1>3 DEF Uploading, Flipped
<1> QED
  BY <1>2, <1>4, HandlerRecedes

LEMMA DispatchEnds ==
  ASSUME TypeOK, HandInv, NEW p \in Procs, proc' = [proc EXCEPT ![p] = NoProc],
         UNCHANGED <<task, uploads>>,
         \A i \in Items : status'[i] = "prepared" => status[i] = "prepared"
  PROVE  Kept
<1>1. proc'[p] = NoProc
  BY OtherHandlers
<1>2. ~Uploading(p)' /\ Flipped(p)' = {}
  BY <1>1 DEF Uploading, Flipped, NoProc
<1> QED
  BY <1>2, HandlerRecedes

LEMMA DispatchLoad ==
  ASSUME MaxUploads <= 1, TypeOK, HandInv, NEW p \in Procs, Load(p)
  PROVE  Kept
<1>1. PICK S \in SUBSET Items : proc' = [proc EXCEPT ![p] = Loaded(proc[p].kind, S)]
  BY DEF Load
<1> DEFINE r == Loaded(proc[p].kind, S)
<1>2. r.kind = proc[p].kind /\ r.pc \in {"reconcile", "act"} /\ r.staged = {}
  BY DEF Loaded, NoProc
<1>3. proc' = [proc EXCEPT ![p] = r]
  BY <1>1
<1> HIDE DEF r
<1>4. Flipped(p)' = {}
  BY <1>2, <1>3, OtherHandlers DEF Flipped
<1>5. UNCHANGED <<task, status>> /\ (proc[p].kind # "process" => uploads' = uploads)
  BY DEF Load, rows
<1>6. CASE proc[p].kind # "process"
  <2>1. ~Uploading(p)'
    BY <1>2, <1>3, <1>6, OtherHandlers DEF Uploading
  <2> QED
    BY <1>3, <1>4, <1>5, <1>6, <2>1, HandlerRecedes
<1>7. CASE proc[p].kind = "process"
  <2>1. uploads = 0 /\ uploads' = 1 /\ MaxUploads = 1
    BY <1>7, BoundsAssumption DEF Load, TypeOK
  <2>2. \A q \in Procs : Uploading(q)' => q = p
    BY <1>3, <2>1, OtherHandlers DEF HandInv, OneUpload
  <2>3. /\ \A t \in Tasks : Sent(t)' = Sent(t)
        /\ \A q \in Procs : Flipped(q)' \subseteq Flipped(q)
    BY <1>3, <1>4, <1>5, OtherHandlers DEF Sent
  <2>4. \A i \in Items : status[i] # "prepared" /\ ~Taken(i) /\ ~Taken(i)'
    BY <2>1, <2>3 DEF HandInv, InHandIsNew, Taken
  <2>5. OneUpload'
    BY <2>1, <2>2 DEF OneUpload
  <2>6. TakenNotHeld' /\ (DispatchedOnce => DispatchedOnce')
    BY <1>5, <2>3, <2>4 DEF TakenNotHeld, HandInv, DispatchedOnce
  <2>7. \A q \in Procs : InHand(q)' \subseteq Items
    BY TypeLoad DEF TypeOK, InHand, ProcType
  <2>8. proc'[p].staged = {}
    BY <1>2, <1>3, OtherHandlers
  <2> QED
    BY <1>5, <2>1, <2>2, <2>4, <2>5, <2>6, <2>7, <2>8 DEF Kept, HandInv, InHandIsNew
<1> QED
  BY <1>6, <1>7

LEMMA DispatchAfterLoad ==
  ASSUME TypeOK, HandInv, NEW p \in Procs, Refuse(p) \/ Reconcile(p) \/ LoadAgain(p)
  PROVE  Kept
<1>1. UNCHANGED <<task, uploads, status>>
  BY DEF Refuse, Reconcile, LoadAgain, rows
<1>2. CASE proc' = [proc EXCEPT ![p] = NoProc]
  BY <1>1, <1>2, DispatchEnds
<1>3. CASE proc' # [proc EXCEPT ![p] = NoProc]
  <2>1. PICK r : /\ proc' = [proc EXCEPT ![p] = r]
                 /\ r.pc \in {"rmtree", "last"}
                        \/ /\ proc[p].pc = "reconcile" /\ r.pc = "act"
                           /\ r.kind = proc[p].kind /\ r.todo = proc[p].todo
                           /\ r.staged = proc[p].staged
    <3>1. CASE Refuse(p)
      <4> DEFINE a == [proc[p] EXCEPT !.pc = "rmtree"]
                 b == [proc[p] EXCEPT !.pc = "last", !.seen = Reconciled]
      <4>1. a.pc = "rmtree" /\ b.pc = "last"
        BY DEF TypeOK, ProcType
      <4>2. proc' = [proc EXCEPT ![p] = a] \/ proc' = [proc EXCEPT ![p] = b]
        BY <1>3, <3>1 DEF Refuse
      <4> QED
        BY <4>1, <4>2
    <3>2. CASE LoadAgain(p)
      <4> DEFINE b == [proc[p] EXCEPT !.pc = "last", !.seen = Reconciled]
      <4>1. b.pc = "last"
        BY DEF TypeOK, ProcType
      <4>2. proc' = [proc EXCEPT ![p] = b]
        BY <1>3, <3>2 DEF LoadAgain
      <4> QED
        BY <4>1, <4>2
    <3>3. CASE Reconcile(p)
      <4> DEFINE kept == IF proc[p].kind = "retry" THEN proc[p].seen ELSE "absent"
                 b == [proc[p] EXCEPT !.pc = "act", !.seen = kept]
      <4>1. b.pc = "act" /\ b.kind = proc[p].kind /\ b.todo = proc[p].todo /\ b.staged = proc[p].staged
        BY DEF TypeOK, ProcType
      <4>2. proc' = [proc EXCEPT ![p] = b] /\ proc[p].pc = "reconcile"
        BY <1>3, <3>3 DEF Reconcile
      <4> QED
        BY <4>1, <4>2
    <3> QED
      BY <3>1, <3>2, <3>3
  <2>2. proc'[p] = r
    BY <2>1, OtherHandlers
  <2>3. Flipped(p)' = {}
    BY <2>1, <2>2 DEF Flipped
  <2>4. \/ ~Uploading(p)'
        \/ /\ Uploading(p) /\ InHand(p)' \subseteq InHand(p)
           /\ r.todo \cap r.staged = {}
    BY <2>1, <2>2 DEF Uploading, InHand, HandInv, InHandIsNew
  <2> QED
    BY <1>1, <2>1, <2>3, <2>4, HandlerRecedes
<1> QED
  BY <1>2, <1>3

-----------------------------------------------------------------------------
(* The upload: only Resolve prepares an image, one it had in hand. *)

LEMMA DispatchResolve ==
  ASSUME TypeOK, HandInv, NEW p \in Procs, Resolve(p)
  PROVE  Kept
<1>0. proc[p] \in ProcType /\ status \in [Items -> ItemStatus]
  BY DEF TypeOK
<1> DEFINE dup(U, first) == U = {first} /\ first \in proc[p].dups
<1>a. PICK U \in SUBSET proc[p].staged, first \in proc[p].staged :
        /\ first \in U
        /\ IF sess = "absent" THEN UNCHANGED <<status, code, idle>>
           ELSE status' = [i \in Items |-> IF i = first /\ ~dup(U, first) THEN "prepared"
                                          ELSE IF i \in U THEN "duplicate" ELSE status[i]]
        /\ proc' = [proc EXCEPT ![p].staged = @ \ U, ![p].count = @ \/ ~dup(U, first)]
  BY DEF Resolve
<1> DEFINE count == proc[p].count \/ ~dup(U, first)
<1>b. proc' = [proc EXCEPT ![p].staged = @ \ U, ![p].count = count]
  BY <1>a
<1> HIDE DEF count, dup
<1>c. first \in Items /\ \A i \in Items : status'[i] = "prepared" => i = first \/ status[i] = "prepared"
  BY <1>0, <1>a DEF ProcType
<1>d. proc' = [proc EXCEPT ![p] = [proc[p] EXCEPT !.staged = proc[p].staged \ U, !.count = count]]
  BY <1>b
<1>1. /\ first \in Items /\ first \in U
      /\ proc' = [proc EXCEPT ![p] = [proc[p] EXCEPT !.staged = proc[p].staged \ U, !.count = count]]
      /\ \A i \in Items : status'[i] = "prepared" => i = first \/ status[i] = "prepared"
  BY <1>a, <1>c, <1>d
<1> DEFINE r == [proc[p] EXCEPT !.staged = proc[p].staged \ U, !.count = count]
<1>2. /\ r.kind = "process" /\ r.pc = "resolve" /\ r.todo = proc[p].todo
      /\ r.staged = proc[p].staged \ U
  BY DEF TypeOK, ProcType, Resolve, At
<1>3. proc' = [proc EXCEPT ![p] = r] /\ UNCHANGED <<task, uploads>> /\ Uploading(p)
  BY <1>1 DEF Resolve, At, Uploading
<1> HIDE DEF r
<1>4. proc'[p] = r
  BY <1>3, OtherHandlers
<1>5. Uploading(p)' /\ Flipped(p)' = {}
  BY <1>2, <1>4 DEF Uploading, Flipped
<1>6. first \in InHand(p) /\ first \notin proc[p].todo
  BY <1>1, <1>3 DEF InHand, HandInv, InHandIsNew
<1>7. InHand(p)' \subseteq InHand(p) /\ first \notin InHand(p)'
  BY <1>1, <1>2, <1>3, <1>4, <1>5, <1>6 DEF InHand
<1>8. /\ \A t \in Tasks : Sent(t)' = Sent(t)
      /\ \A q \in Procs : Flipped(q)' \subseteq Flipped(q) /\ (Uploading(q)' <=> Uploading(q))
  BY <1>3, <1>5, OtherHandlers DEF Sent
<1>9. (\A i : Taken(i)' => Taken(i)) /\ ~Taken(first)
  BY <1>6, <1>8 DEF Taken, HandInv, InHandIsNew
<1>10. \A q \in Procs : q # p => InHand(q)' = {}
  BY <1>3, <1>8, OtherHandlers DEF InHand, HandInv, OneUpload
<1>11. OneUpload' /\ (DispatchedOnce => DispatchedOnce') /\ uploads # 0
  BY <1>3, <1>8 DEF HandInv, OneUpload, DispatchedOnce
<1>12. TakenNotHeld'
  BY <1>1, <1>9 DEF HandInv, TakenNotHeld
<1>13. InHandIsNew'
  <2>1. \A q \in Procs : \A i \in InHand(q)' : status'[i] # "prepared" /\ ~Taken(i)'
    BY <1>1, <1>7, <1>9, <1>10, InHandItems DEF HandInv, InHandIsNew
  <2>2. \A q \in Procs : Uploading(q)' => proc'[q].todo \cap proc'[q].staged = {}
    BY <1>2, <1>3, <1>4, <1>8, OtherHandlers DEF HandInv, InHandIsNew
  <2> QED
    BY <1>3, <1>11, <2>1, <2>2 DEF InHandIsNew
<1> QED
  BY <1>11, <1>12, <1>13 DEF Kept, HandInv

LEMMA DispatchUpload ==
  ASSUME TypeOK, HandInv, NEW p \in Procs, Upload(p)
  PROVE  Kept
<1>0. proc[p] \in ProcType
  BY DEF TypeOK
<1>1. CASE OptimizeStart(p)
  <2> DEFINE r == [proc[p] EXCEPT !.pc = "prep"]
  <2>1. r.kind = "process" /\ r.pc = "prep" /\ r.todo = proc[p].todo /\ r.staged = proc[p].staged
    BY <1>0, <1>1 DEF ProcType, OptimizeStart, At
  <2>2. proc' = [proc EXCEPT ![p] = r] /\ UNCHANGED <<task, uploads>> /\ Uploading(p)
    BY <1>1 DEF OptimizeStart, Goes, At, Uploading
  <2>3. \A i \in Items : status'[i] = "prepared" => status[i] = "prepared"
    BY <1>1, WritesPrepareNothing DEF OptimizeStart, update_item
  <2> HIDE DEF r
  <2>4. proc'[p] = r
    BY <2>2, OtherHandlers
  <2>5. Flipped(p)' = {} /\ InHand(p)' \subseteq InHand(p) /\ r.todo \cap r.staged = {}
    BY <2>1, <2>2, <2>4 DEF Flipped, InHand, Uploading, HandInv, InHandIsNew
  <2> QED
    BY <2>2, <2>3, <2>5, HandlerRecedes
<1>2. CASE OptimizeOk(p) \/ OptimizeFails(p)
  <2>1. PICK i \in Items, kept \in SUBSET Items :
          /\ kept \subseteq {i}
          /\ i \in proc[p].todo
          /\ proc' = [proc EXCEPT ![p] = [proc[p] EXCEPT !.pc = "act", !.todo = proc[p].todo \ {i},
                                                        !.staged = proc[p].staged \cup kept]]
    <3>1. CASE OptimizeOk(p)
      <4>1. PICK i \in Items :
              /\ i \in proc[p].todo
              /\ proc' = [proc EXCEPT ![p] = [proc[p] EXCEPT !.pc = "act", !.todo = proc[p].todo \ {i},
                                                            !.staged = proc[p].staged \cup {i}]]
        BY <3>1 DEF OptimizeOk, First
      <4>2. {i} \in SUBSET Items /\ {i} \subseteq {i}
        OBVIOUS
      <4> QED
        BY <4>1, <4>2
    <3>2. CASE OptimizeFails(p)
      <4>1. PICK i \in Items :
              /\ i \in proc[p].todo
              /\ proc' = [proc EXCEPT ![p] = [proc[p] EXCEPT !.pc = "act", !.todo = proc[p].todo \ {i}]]
        BY <3>2 DEF OptimizeFails, First
      <4>2. [proc[p] EXCEPT !.pc = "act", !.todo = proc[p].todo \ {i}]
              = [proc[p] EXCEPT !.pc = "act", !.todo = proc[p].todo \ {i},
                                !.staged = proc[p].staged \cup {}]
        BY <1>0 DEF ProcType
      <4> QED
        BY <4>1, <4>2
    <3> QED
      BY <1>2, <3>1, <3>2
  <2> DEFINE r == [proc[p] EXCEPT !.pc = "act", !.todo = proc[p].todo \ {i},
                                  !.staged = proc[p].staged \cup kept]
  <2>2. /\ r.kind = "process" /\ r.pc = "act" /\ r.todo = proc[p].todo \ {i}
        /\ r.staged = proc[p].staged \cup kept
    BY <1>0, <1>2 DEF ProcType, OptimizeOk, OptimizeFails, At
  <2>3. proc' = [proc EXCEPT ![p] = r] /\ UNCHANGED <<task, uploads>> /\ Uploading(p)
    BY <1>2, <2>1 DEF OptimizeOk, OptimizeFails, At, Uploading
  <2>4. \A j \in Items : status'[j] = "prepared" => status[j] = "prepared"
    BY <1>2, WritesPrepareNothing DEF OptimizeOk, OptimizeFails, update_item, rows
  <2> HIDE DEF r
  <2>5. proc'[p] = r
    BY <2>3, OtherHandlers
  <2>6. Flipped(p)' = {} /\ InHand(p)' \subseteq InHand(p)
    BY <2>1, <2>2, <2>3, <2>5 DEF Flipped, InHand, Uploading
  <2>7. r.todo \cap r.staged = {}
    BY <2>1, <2>2, <2>3 DEF HandInv, InHandIsNew
  <2> QED
    BY <2>3, <2>4, <2>6, <2>7, HandlerRecedes
<1>3. CASE LookupHashes(p)
  <2> DEFINE r == [proc[p] EXCEPT !.pc = "resolve", !.dups = proc[p].staged \cap receipts]
  <2>1. r.kind = "process" /\ r.pc = "resolve" /\ r.todo = proc[p].todo /\ r.staged = proc[p].staged
    BY <1>0, <1>3 DEF ProcType, LookupHashes, At
  <2>2. proc' = [proc EXCEPT ![p] = r] /\ UNCHANGED <<task, uploads, status>> /\ Uploading(p)
    BY <1>3 DEF LookupHashes, At, Uploading, rows
  <2> HIDE DEF r
  <2>3. proc'[p] = r
    BY <2>2, OtherHandlers
  <2>4. Flipped(p)' = {} /\ InHand(p)' \subseteq InHand(p) /\ r.todo \cap r.staged = {}
    BY <2>1, <2>2, <2>3 DEF Flipped, InHand, Uploading, HandInv, InHandIsNew
  <2> QED
    BY <2>2, <2>4, HandlerRecedes
<1>4. CASE finalize_prepared(p)
  <2> DEFINE r == [proc[p] EXCEPT !.pc = "again"]
  <2>1. r.pc = "again"
    BY <1>0 DEF ProcType
  <2>2. proc' = [proc EXCEPT ![p] = r] /\ UNCHANGED <<task, uploads, status>>
    BY <1>4 DEF finalize_prepared, Goes
  <2> HIDE DEF r
  <2>3. proc'[p] = r
    BY <2>2, OtherHandlers
  <2>4. Flipped(p)' = {} /\ ~Uploading(p)'
    BY <2>1, <2>3 DEF Flipped, Uploading
  <2> QED
    BY <2>2, <2>4, HandlerRecedes
<1> QED
  BY <1>1, <1>2, <1>3, <1>4, DispatchResolve DEF Upload

-----------------------------------------------------------------------------
(* Dispatch: mark_queued takes images that are prepared, hence neither in a
   message, nor taken by another dispatch, nor in the hands of an upload.   *)

LEMMA DispatchFlips ==
  ASSUME TypeOK, HandInv, NEW p \in Procs, mark_queued(p)
  PROVE  Kept
<1>0. proc[p] \in ProcType /\ status \in [Items -> ItemStatus]
  BY DEF TypeOK
<1>1. CASE proc' = [proc EXCEPT ![p] = NoProc] /\ UNCHANGED <<status, code, idle>>
  BY <1>1, DispatchEnds DEF mark_queued
<1>2. CASE ~(proc' = [proc EXCEPT ![p] = NoProc] /\ UNCHANGED <<status, code, idle>>)
  <2> DEFINE F == StillPrepared(proc[p].todo)
             r == [proc[p] EXCEPT !.pc = "status", !.todo = F]
  <2>1. /\ sess # "absent" /\ F # {} /\ proc[p].kind = "dispatch"
        /\ WriteItems(F, "pending", "none")
        /\ proc' = [proc EXCEPT ![p] = r]
        /\ UNCHANGED <<task, uploads>>
    BY <1>2 DEF mark_queued, At
  <2>2. \A i \in F : i \in Items /\ status[i] = "prepared" /\ status'[i] = "pending"
    BY <1>0, <2>1 DEF StillPrepared, ProcType, WriteItems
  <2>3. r.kind = "dispatch" /\ r.pc = "status" /\ r.todo = F
    BY <1>0, <2>1 DEF ProcType
  <2>4. \A i \in Items : status'[i] = "prepared" => status[i] = "prepared"
    BY <2>1, WritesPrepareNothing
  <2> HIDE DEF F, r
  <2>5. proc'[p] = r
    BY <2>1, OtherHandlers
  <2>6. Flipped(p)' = F /\ ~Uploading(p)' /\ InHand(p)' = {}
    BY <2>3, <2>5 DEF Flipped, Uploading, InHand
  <2>7. \A q \in Procs : /\ q # p => Flipped(q)' = Flipped(q)
                         /\ InHand(q)' \subseteq InHand(q)
                         /\ Uploading(q)' => Uploading(q) /\ proc'[q] = proc[q]
    BY <2>1, <2>6, OtherHandlers
  <2>8. \A t \in Tasks : Sent(t)' = Sent(t)
    BY <2>1 DEF Sent
  <2>9. \A i \in F : ~Taken(i) /\ \A q \in Procs : i \notin InHand(q)
    BY <2>2 DEF HandInv, TakenNotHeld, InHandIsNew
  <2>10. uploads # 0
    BY <2>1, <2>2 DEF HandInv, InHandIsNew, F
  <2>11. \A i : Taken(i)' => Taken(i) \/ i \in F
    BY <2>6, <2>7, <2>8 DEF Taken
  <2>12. OneUpload'
    BY <2>1, <2>7 DEF HandInv, OneUpload
  <2>13. TakenNotHeld'
    BY <2>2, <2>4, <2>11 DEF HandInv, TakenNotHeld
  <2>14. InHandIsNew'
    <3>1. ASSUME NEW q \in Procs, NEW i \in InHand(q)' PROVE status'[i] # "prepared" /\ ~Taken(i)'
      <4>1. i \in InHand(q) /\ i \in Items
        BY <2>7, InHandItems
      <4> QED
        BY <2>4, <2>9, <2>11, <4>1 DEF HandInv, InHandIsNew
    <3> QED
      BY <2>1, <2>7, <2>10, <3>1 DEF HandInv, InHandIsNew
  <2>15. DispatchedOnce => DispatchedOnce'
    BY <2>6, <2>7, <2>8, <2>9 DEF DispatchedOnce, Taken
  <2> QED
    BY <2>12, <2>13, <2>14, <2>15 DEF Kept, HandInv
<1> QED
  BY <1>1, <1>2

LEMMA DispatchEnqueues ==
  ASSUME TypeOK, HandInv, NEW p \in Procs, Enqueue(p)
  PROVE  Kept
<1>1. PICK t \in Tasks : task' = [task EXCEPT ![t] = NewTask(proc[p].kind, proc[p].todo)]
  BY DEF Enqueue, FreeTasks
<1>2. /\ proc' = [proc EXCEPT ![p] = NoProc] /\ UNCHANGED <<uploads, status>>
      /\ proc[p].pc = "enqueue"
  BY DEF Enqueue, rows
<1>3. proc'[p] = NoProc
  BY <1>2, OtherHandlers
<1>4. Flipped(p)' = {} /\ InHand(p)' = {} /\ ~Uploading(p)'
  BY <1>3 DEF Flipped, InHand, Uploading, NoProc
<1>5. /\ Sent(t)' \subseteq Flipped(p)
      /\ \A u \in Tasks : u # t => Sent(u)' = Sent(u)
  BY <1>1, <1>2 DEF Sent, Flipped, NewTask, TypeOK
<1>6. \A q \in Procs : /\ q # p => Flipped(q)' = Flipped(q)
                       /\ InHand(q)' \subseteq InHand(q)
                       /\ Uploading(q)' => Uploading(q) /\ proc'[q] = proc[q]
  BY <1>2, <1>4, OtherHandlers
<1>7. \A i : Taken(i)' => Taken(i)
  BY <1>4, <1>5, <1>6 DEF Taken
<1>8. OneUpload'
  BY <1>2, <1>6 DEF HandInv, OneUpload
<1>9. TakenNotHeld'
  BY <1>2, <1>7 DEF HandInv, TakenNotHeld
<1>10. InHandIsNew'
  BY <1>2, <1>6, <1>7 DEF HandInv, InHandIsNew
<1>11. ASSUME DispatchedOnce PROVE DispatchedOnce'
  <2>1. \A u \in Tasks : u # t => Sent(t)' \cap Sent(u)' = {}
    BY <1>5, <1>11 DEF DispatchedOnce
  <2>2. \A q \in Procs : Flipped(q)' \cap Sent(t)' = {}
    BY <1>4, <1>5, <1>6, <1>11 DEF DispatchedOnce
  <2>3. \A q \in Procs, u \in Tasks : u # t => Flipped(q)' \cap Sent(u)' = {}
    BY <1>4, <1>5, <1>6, <1>11 DEF DispatchedOnce
  <2>4. \A q, o \in Procs : q # o => Flipped(q)' \cap Flipped(o)' = {}
    BY <1>4, <1>6, <1>11 DEF DispatchedOnce
  <2> QED
    BY <1>5, <1>11, <2>1, <2>2, <2>3, <2>4 DEF DispatchedOnce
<1> QED
  BY <1>8, <1>9, <1>10, <1>11 DEF Kept, HandInv

(* Every other step of a handler only changes where it is and what is left to do. *)
LEMMA DispatchElsewhere ==
  ASSUME TypeOK, HandInv, NEW p \in Procs,
         \/ ResetForRetry(p) \/ MarkProcessing(p)
         \/ Sweep(p) \/ SweepEnds(p) \/ DropSession(p) \/ RemoveDir(p)
  PROVE  Kept
<1>0. proc[p] \in ProcType
  BY DEF TypeOK
<1>1. UNCHANGED <<task, uploads>>
  BY DEF ResetForRetry, MarkProcessing, Sweep, SweepEnds, DropSession, RemoveDir
<1>2. \A i \in Items : status'[i] = "prepared" => status[i] = "prepared"
  BY WritesPrepareNothing
     DEF ResetForRetry, MarkProcessing, Sweep, SweepEnds, DropSession, RemoveDir, update_item, rows
<1>3. CASE proc' = [proc EXCEPT ![p] = NoProc]
  BY <1>1, <1>2, <1>3, DispatchEnds
<1>4. CASE /\ ResetForRetry(p) \/ Sweep(p) \/ SweepEnds(p) \/ DropSession(p)
           /\ proc' # [proc EXCEPT ![p] = NoProc]
  <2>1. PICK r : proc' = [proc EXCEPT ![p] = r] /\ r.kind \in {"retry", "poll", "reap", "delete"}
    <3>1. CASE ResetForRetry(p)
      <4>1. \A pc : [proc[p] EXCEPT !.pc = pc].kind = "retry"
        BY <1>0, <3>1 DEF ProcType, ResetForRetry, At
      <4> QED
        BY <3>1, <4>1 DEF ResetForRetry, Goes
    <3>2. CASE Sweep(p)
      <4>1. \A S : [proc[p] EXCEPT !.todo = S].kind = proc[p].kind
        BY <1>0 DEF ProcType
      <4> QED
        BY <3>2, <4>1 DEF Sweep
    <3>3. CASE SweepEnds(p)
      <4>1. [proc[p] EXCEPT !.pc = "again"].kind = proc[p].kind
        BY <1>0 DEF ProcType
      <4> QED
        BY <1>4, <3>3, <4>1 DEF SweepEnds, Goes
    <3>4. CASE DropSession(p)
      <4>1. [proc[p] EXCEPT !.pc = "rmtree"].kind = "delete"
        BY <1>0, <3>4 DEF ProcType, DropSession, At
      <4> QED
        BY <3>4, <4>1 DEF DropSession, Goes
    <3> QED
      BY <1>4, <3>1, <3>2, <3>3, <3>4
  <2>2. proc'[p] = r
    BY <2>1, OtherHandlers
  <2>3. Flipped(p)' = {} /\ ~Uploading(p)'
    BY <2>1, <2>2 DEF Flipped, Uploading
  <2> QED
    BY <1>1, <1>2, <2>1, <2>3, HandlerRecedes
<1>5. CASE MarkProcessing(p)
  <2> DEFINE r == [proc[p] EXCEPT !.pc = "enqueue"]
  <2>1. r.kind = proc[p].kind /\ r.pc = "enqueue" /\ r.todo = proc[p].todo
    BY <1>0 DEF ProcType
  <2>2. proc' = [proc EXCEPT ![p] = r] /\ proc[p].pc = "status"
    BY <1>5 DEF MarkProcessing, Goes
  <2> HIDE DEF r
  <2>3. proc'[p] = r
    BY <2>2, OtherHandlers
  <2>4. Flipped(p)' \subseteq Flipped(p) /\ ~Uploading(p)'
    BY <2>1, <2>2, <2>3 DEF Flipped, Uploading
  <2> QED
    BY <1>1, <1>2, <2>2, <2>4, HandlerRecedes
<1> QED
  BY <1>3, <1>4, <1>5 DEF RemoveDir

LEMMA DispatchHandle ==
  ASSUME MaxUploads <= 1, TypeOK, HandInv, NEW p \in Procs, Handle(p)
  PROVE  Kept
  BY DispatchLoad, DispatchAfterLoad, DispatchUpload, DispatchFlips, DispatchEnqueues, DispatchElsewhere
     DEF Handle, SendOff

-----------------------------------------------------------------------------
(* The worker moves its messages; it neither makes one nor prepares an image. *)

LEMMA WorkerRecedes ==
  ASSUME TypeOK, HandInv, UNCHANGED <<proc, uploads>>,
         \A t \in Tasks : Sent(t)' = Sent(t),
         \A i \in Items : status'[i] = "prepared" => status[i] = "prepared"
  PROVE  Kept
<1>1. \A p \in Procs : /\ Flipped(p)' = Flipped(p) /\ InHand(p)' = InHand(p)
                       /\ Uploading(p)' <=> Uploading(p)
  BY DEF Flipped, InHand, Uploading
<1>2. Recedes
  BY <1>1 DEF Recedes, HandInv, InHandIsNew
<1> QED
  BY <1>2, RecedesKeeps

LEMMA SameMessage ==
  ASSUME TypeOK, NEW t \in Tasks, NEW r, r.kind = task[t].kind, r.entries = task[t].entries,
         task' = [task EXCEPT ![t] = r]
  PROVE  \A u \in Tasks : Sent(u)' = Sent(u)
  BY DEF TypeOK, Sent

LEMMA SamePhase ==
  ASSUME TypeOK, NEW t \in Tasks, NEW i, NEW ph, Phase(t, i, ph)
  PROVE  \A u \in Tasks : Sent(u)' = Sent(u)
<1> DEFINE r == [task[t] EXCEPT !.phase[i] = ph]
<1>1. r.kind = task[t].kind /\ r.entries = task[t].entries
  BY DEF TypeOK, TaskType
<1>2. task' = [task EXCEPT ![t] = r]
  BY DEF Phase
<1> HIDE DEF r
<1> QED
  BY <1>1, <1>2, SameMessage

LEMMA DispatchWork ==
  ASSUME TypeOK, HandInv, NEW t \in Tasks, Work(t)
  PROVE  Kept
<1>0. task[t] \in TaskType
  BY DEF TypeOK
<1>1. CASE Extract(t)
  <2>1. PICK i \in Items : \/ SendToAI(t, i) \/ ExtractOk(t, i) \/ ExtractFails(t, i)
                          \/ SaveReceipt(t, i) \/ SaveFails(t, i) \/ ReportSaved(t, i)
    BY <1>1 DEF Extract
  <2>2. \E ph : Phase(t, i, ph)
    BY <2>1 DEF SendToAI, ExtractOk, ExtractFails, SaveReceipt, SaveFails, ReportSaved
  <2>3. \A j \in Items : status'[j] = "prepared" => status[j] = "prepared"
    BY <2>1, WritesPrepareNothing
       DEF SendToAI, ExtractOk, ExtractFails, SaveReceipt, SaveFails, ReportSaved, update_item,
           WhileSaving, rows
  <2>4. UNCHANGED <<proc, uploads>>
    BY <2>1 DEF SendToAI, ExtractOk, ExtractFails, SaveReceipt, SaveFails, ReportSaved
  <2> QED
    BY <2>2, <2>3, <2>4, SamePhase, WorkerRecedes
<1>2. CASE TaskStart(t) \/ TaskLoad(t) \/ TaskSettle(t)
  <2>1. PICK r : /\ task' = [task EXCEPT ![t] = r]
                 /\ r.kind = task[t].kind /\ r.entries = task[t].entries
    <3> DEFINE a(st)  == [task[t] EXCEPT !.st = st]
               b(st, f) == [task[t] EXCEPT !.st = st, !.final = f]
    <3>1. \A st, f : /\ a(st).kind = task[t].kind /\ a(st).entries = task[t].entries
                     /\ b(st, f).kind = task[t].kind /\ b(st, f).entries = task[t].entries
      BY <1>0 DEF TaskType
    <3>2. \/ \E st : task' = [task EXCEPT ![t] = a(st)]
          \/ \E st, f : task' = [task EXCEPT ![t] = b(st, f)]
      <4>1. CASE TaskStart(t)
        <5>1. task' = [task EXCEPT ![t] = a("running")]
          BY <4>1 DEF TaskStart
        <5> QED
          BY <5>1
      <4>2. CASE TaskLoad(t)
        <5>1. \/ task' = [task EXCEPT ![t] = a("acked")]
              \/ task' = [task EXCEPT ![t] = b("settle", derive_session_status(status))]
          BY <4>2 DEF TaskLoad
        <5> HIDE DEF a, b
        <5> QED
          BY <5>1
      <4>3. CASE TaskSettle(t)
        <5>1. task' = [task EXCEPT ![t] = a("acked")]
          BY <4>3 DEF TaskSettle
        <5> QED
          BY <5>1
      <4> QED
        BY <1>2, <4>1, <4>2, <4>3
    <3> HIDE DEF a, b
    <3> QED
      BY <3>1, <3>2
  <2>2. UNCHANGED <<proc, uploads, status>>
    BY <1>2 DEF TaskStart, TaskLoad, TaskSettle, rows
  <2> QED
    BY <2>1, <2>2, SameMessage, WorkerRecedes
<1> QED
  BY <1>1, <1>2 DEF Work

(* A second delivery repeats what was sent. *)
LEMMA HandRedeliver ==
  ASSUME TypeOK, HandInv, NEW t \in Tasks, Redeliver(t)
  PROVE  HandInv'
<1>1. PICK u \in Tasks : task' = [task EXCEPT ![u] = NewTask(task[t].kind, task[t].entries)]
  BY DEF Redeliver, FreeTasks
<1>2. Sent(u)' = Sent(t) /\ \A w \in Tasks : w # u => Sent(w)' = Sent(w)
  BY <1>1 DEF Sent, NewTask, TypeOK
<1>3. UNCHANGED <<proc, uploads, status>>
  BY DEF Redeliver, rows
<1>4. \A p \in Procs : /\ Flipped(p)' = Flipped(p) /\ InHand(p)' = InHand(p)
                       /\ Uploading(p)' <=> Uploading(p)
  BY <1>3 DEF Flipped, InHand, Uploading
<1>5. \A i : Taken(i)' => Taken(i)
  BY <1>2, <1>4 DEF Taken
<1>6. OneUpload' /\ TakenNotHeld'
  BY <1>3, <1>4, <1>5 DEF HandInv, OneUpload, TakenNotHeld
<1>7. InHandIsNew'
  BY <1>3, <1>4, <1>5 DEF HandInv, InHandIsNew
<1> QED
  BY <1>6, <1>7 DEF HandInv

LEMMA DispatchAccident ==
  ASSUME TypeOK, HandInv, NEW t \in Tasks, Accident(t)
  PROVE  Kept \/ (HandInv' /\ "redeliver" \in Ops)
<1>1. CASE TaskRaises(t)
  <2> DEFINE r == [task[t] EXCEPT !.st = "acked"]
  <2>1. r.kind = task[t].kind /\ r.entries = task[t].entries
    BY DEF TypeOK, TaskType
  <2>2. task' = [task EXCEPT ![t] = r] /\ UNCHANGED <<proc, uploads, status>>
    BY <1>1 DEF TaskRaises
  <2> HIDE DEF r
  <2> QED
    BY <2>1, <2>2, SameMessage, WorkerRecedes
<1>2. CASE \E i \in Items : ChunkDies(t, i)
  BY <1>2, SamePhase, WorkerRecedes DEF ChunkDies, rows
<1>3. CASE Redeliver(t)
  BY <1>3, HandRedeliver DEF Redeliver
<1> QED
  BY <1>1, <1>2, <1>3 DEF Accident

LEMMA DispatchCrash ==
  ASSUME TypeOK, HandInv, WorkerCrash
  PROVE  Kept
<1>1. \A t \in Tasks : Sent(t)' = Sent(t)
  BY DEF WorkerCrash, NewTask, Sent
<1> QED
  BY <1>1, WorkerRecedes DEF WorkerCrash, rows

LEMMA DispatchNext ==
  ASSUME MaxUploads <= 1, TypeOK, HandInv, [Next]_vars
  PROVE  Kept \/ (HandInv' /\ "redeliver" \in Ops)
<1>1. ASSUME NEW p \in Requests, StartRequest(p) PROVE Kept
  BY <1>1, DispatchBegin DEF StartRequest, Procs
<1>2. CASE StartReap
  BY <1>2, DispatchBegin DEF StartReap, Procs
<1>3. ASSUME NEW p \in Procs, RequestDies(p) PROVE Kept
  BY <1>3, DispatchEnds DEF RequestDies, rows
<1>4. CASE TimePasses \/ UNCHANGED vars
  <2>1. \A t \in Tasks : Sent(t)' = Sent(t)
    BY <1>4 DEF TimePasses, vars, Sent
  <2> QED
    BY <1>4, <2>1, WorkerRecedes DEF TimePasses, vars, rows
<1> QED
  BY <1>1, <1>2, <1>3, <1>4, DispatchHandle, DispatchWork, DispatchAccident, DispatchCrash DEF Next

(* A held image is put in at most one message, however many requests dispatch,
   retry, poll or delete at the same time and whatever dies, provided that the
   session is uploaded once and no message is delivered a second time while its
   task runs (mark_queued, batch_service.py).                                   *)
THEOREM HeldIsDispatchedOnce ==
  ASSUME MaxUploads <= 1, "redeliver" \notin Ops
  PROVE  Spec => []DispatchedOnce
<1>1. Init => TypeOK /\ DispatchInv
  BY TypeInit, DispatchInit DEF DispatchInv
<1>2. TypeOK /\ DispatchInv /\ [Next]_vars => (TypeOK /\ DispatchInv)'
  BY TypeNext, DispatchNext DEF DispatchInv, Kept
<1>3. TypeOK /\ DispatchInv => DispatchedOnce
  BY DEF DispatchInv
<1> QED
  BY <1>1, <1>2, <1>3, PTL DEF Spec

-----------------------------------------------------------------------------
(* The file of a held image: what a step of a handler does to the images in its
   hands and to the directory.                                                  *)

LEMMA Own ==
  ASSUME TypeOK, NEW p \in Procs,
         \/ Refuse(p) \/ Reconcile(p) \/ LoadAgain(p) \/ OptimizeStart(p) \/ OptimizeFails(p)
         \/ LookupHashes(p) \/ finalize_prepared(p) \/ SendOff(p) \/ Sweep(p) \/ SweepEnds(p)
         \/ RequestDies(p)
  PROVE  /\ Uploading(p)' => Uploading(p) /\ proc'[p].staged = proc[p].staged
         /\ At(p, "delete", "rmtree")' => sess' = "absent"
<1>0. proc[p] \in ProcType /\ proc \in [Procs -> ProcType]
  BY DEF TypeOK
<1>1. CASE Refuse(p)
  BY <1>0, <1>1 DEF Refuse, Uploading, At, NoProc, ProcType, rows
<1>2. CASE Reconcile(p)
  BY <1>0, <1>2 DEF Reconcile, Uploading, At, NoProc, ProcType, rows
<1>3. CASE LoadAgain(p)
  BY <1>0, <1>3 DEF LoadAgain, Uploading, At, NoProc, ProcType, rows
<1>4. CASE OptimizeStart(p) \/ LookupHashes(p) \/ finalize_prepared(p)
  BY <1>0, <1>4 DEF OptimizeStart, LookupHashes, finalize_prepared, Goes, Uploading, At, NoProc, ProcType, rows
<1>5. CASE OptimizeFails(p)
  <2>1. PICK i \in Items :
          proc' = [proc EXCEPT ![p] = [proc[p] EXCEPT !.pc = "act", !.todo = proc[p].todo \ {i}]]
    BY <1>5 DEF OptimizeFails
  <2> QED
    BY <1>0, <1>5, <2>1 DEF OptimizeFails, Uploading, At, ProcType
<1>6. CASE SendOff(p)
  BY <1>0, <1>6 DEF SendOff, mark_queued, ResetForRetry, MarkProcessing, Enqueue, Goes, Uploading, At, NoProc, ProcType, rows
<1>7. CASE Sweep(p) \/ SweepEnds(p)
  BY <1>0, <1>7 DEF Sweep, SweepEnds, Goes, Uploading, At, NoProc, ProcType, rows
<1>8. CASE RequestDies(p)
  BY <1>0, <1>8 DEF RequestDies, Uploading, At, NoProc, ProcType, rows
<1> QED
  BY <1>1, <1>2, <1>3, <1>4, <1>5, <1>6, <1>7, <1>8

(* The images in the scratch directory are those that are held or in hand. *)
HasFiles == StagedHasFile /\ RemovalAfterDrop /\ HeldHasFile

(* The steps that take no file away, put nothing in hand and prepare nothing. *)
FilesStay ==
    /\ files \subseteq files' /\ (dir => dir')
    /\ sess = "absent" => sess' = "absent"
    /\ \A p \in Procs : /\ Uploading(p)' => Uploading(p) /\ proc'[p].staged = proc[p].staged
                        /\ At(p, "delete", "rmtree")' => At(p, "delete", "rmtree") \/ sess' = "absent"
    /\ \A i \in Items : status'[i] = "prepared" => status[i] = "prepared"

LEMMA FilesStayKeeps == ASSUME HasFiles, FilesStay PROVE HasFiles'
<1>1. StagedHasFile'
  BY DEF HasFiles, StagedHasFile, FilesStay
<1>2. RemovalAfterDrop'
  BY DEF HasFiles, RemovalAfterDrop, FilesStay
<1>3. HeldHasFile'
  BY DEF HasFiles, HeldHasFile, FilesStay
<1> QED
  BY <1>1, <1>2, <1>3 DEF HasFiles

LEMMA WritesKeepSession ==
  \A s : SetStatus(s) => (sess = "absent" => sess' = "absent")
  BY DEF SetStatus

(* The other handlers keep what they have. *)
LEMMA OneHandlerMoves ==
  ASSUME TypeOK, NEW p \in Procs, Handle(p) \/ RequestDies(p)
  PROVE  \A q \in Procs : q # p => proc'[q] = proc[q]
<1>1. PICK r : proc' = [proc EXCEPT ![p] = r]
  <2>1. CASE Upload(p)
    BY <2>1 DEF Upload, OptimizeStart, OptimizeOk, OptimizeFails, LookupHashes, Resolve,
                finalize_prepared, Goes
  <2>2. CASE SendOff(p)
    BY <2>2 DEF SendOff, mark_queued, ResetForRetry, MarkProcessing, Enqueue, Goes
  <2>3. CASE Sweep(p) \/ SweepEnds(p) \/ DropSession(p) \/ RemoveDir(p) \/ RequestDies(p)
    BY <2>3 DEF Sweep, SweepEnds, DropSession, RemoveDir, RequestDies, Goes
  <2>4. CASE Load(p) \/ Refuse(p) \/ Reconcile(p) \/ LoadAgain(p)
    BY <2>4 DEF Load, Refuse, Reconcile, LoadAgain
  <2> QED
    BY <2>1, <2>2, <2>3, <2>4 DEF Handle
<1> QED
  BY <1>1, OtherHandlers

LEMMA FilesMostSteps ==
  ASSUME TypeOK, HasFiles, NEW p \in Procs,
         \/ Refuse(p) \/ Reconcile(p) \/ LoadAgain(p) \/ OptimizeStart(p) \/ OptimizeFails(p)
         \/ LookupHashes(p) \/ finalize_prepared(p) \/ SendOff(p) \/ Sweep(p) \/ SweepEnds(p)
         \/ RequestDies(p)
  PROVE  HasFiles'
<1>1. UNCHANGED disk
  BY DEF Refuse, Reconcile, LoadAgain, OptimizeStart, OptimizeFails, LookupHashes,
         finalize_prepared, SendOff, mark_queued, ResetForRetry, MarkProcessing, Enqueue,
         Sweep, SweepEnds, RequestDies
<1>2. sess = "absent" => sess' = "absent"
  BY WritesKeepSession
     DEF Refuse, Reconcile, LoadAgain, OptimizeStart, OptimizeFails, LookupHashes,
         finalize_prepared, SendOff, mark_queued, ResetForRetry, MarkProcessing, Enqueue,
         Sweep, SweepEnds, RequestDies, rows
<1>3. \A i \in Items : status'[i] = "prepared" => status[i] = "prepared"
  BY WritesPrepareNothing
     DEF Refuse, Reconcile, LoadAgain, OptimizeStart, OptimizeFails, LookupHashes,
         finalize_prepared, SendOff, mark_queued, ResetForRetry, MarkProcessing, Enqueue,
         Sweep, SweepEnds, RequestDies, update_item, rows
<1>4. \A q \in Procs : /\ Uploading(q)' => Uploading(q) /\ proc'[q].staged = proc[q].staged
                       /\ At(q, "delete", "rmtree")' => At(q, "delete", "rmtree") \/ sess' = "absent"
  <2>1. \A q \in Procs : q # p => proc'[q] = proc[q]
    BY OneHandlerMoves DEF Handle, Upload
  <2> QED
    BY <2>1, Own DEF Uploading, At
<1> QED
  BY <1>1, <1>2, <1>3, <1>4, FilesStayKeeps DEF FilesStay, disk

LEMMA FilesLoad ==
  ASSUME TypeOK, HasFiles, NEW p \in Procs, Load(p)
  PROVE  HasFiles'
<1>1. PICK S \in SUBSET Items : proc' = [proc EXCEPT ![p] = Loaded(proc[p].kind, S)]
  BY DEF Load
<1>2. /\ proc'[p].kind = proc[p].kind /\ proc'[p].staged = {} /\ proc'[p].pc # "rmtree"
      /\ \A q \in Procs : q # p => proc'[q] = proc[q]
  <2> DEFINE r == Loaded(proc[p].kind, S)
  <2>1. r.kind = proc[p].kind /\ r.staged = {} /\ r.pc # "rmtree"
    BY DEF Loaded, NoProc
  <2>2. proc' = [proc EXCEPT ![p] = r]
    BY <1>1
  <2> HIDE DEF r
  <2> QED
    BY <2>1, <2>2, OtherHandlers DEF TypeOK
<1>3. /\ UNCHANGED <<sess, status, files>> /\ (dir => dir')
      /\ proc[p].kind = "process" => dir'
  BY DEF Load, rows
<1>4. StagedHasFile'
  BY <1>2, <1>3 DEF HasFiles, StagedHasFile, Uploading
<1>5. RemovalAfterDrop' /\ HeldHasFile'
  BY <1>2, <1>3 DEF HasFiles, RemovalAfterDrop, At, HeldHasFile
<1> QED
  BY <1>4, <1>5 DEF HasFiles

LEMMA FilesOptimizeOk ==
  ASSUME TypeOK, HasFiles, NEW p \in Procs, OptimizeOk(p)
  PROVE  HasFiles'
<1>1. PICK i \in Items :
        /\ files' = files \cup {i}
        /\ proc' = [proc EXCEPT ![p] = [proc[p] EXCEPT !.pc = "act", !.todo = proc[p].todo \ {i},
                                                      !.staged = proc[p].staged \cup {i}]]
  BY DEF OptimizeOk
<1>2. /\ proc'[p].kind = "process" /\ proc'[p].staged = proc[p].staged \cup {i}
      /\ proc'[p].pc = "act" /\ Uploading(p)
      /\ \A q \in Procs : q # p => proc'[q] = proc[q]
  <2>1. \A q \in Procs : q # p => proc'[q] = proc[q]
    BY OneHandlerMoves DEF Handle, Upload
  <2> QED
    BY <1>1, <2>1 DEF TypeOK, ProcType, OptimizeOk, At, Uploading
<1>3. UNCHANGED <<sess, status, dir>>
  BY DEF OptimizeOk, rows
<1>4. StagedHasFile'
  BY <1>1, <1>2, <1>3 DEF HasFiles, StagedHasFile, Uploading
<1>5. RemovalAfterDrop' /\ HeldHasFile'
  BY <1>1, <1>2, <1>3 DEF HasFiles, RemovalAfterDrop, At, HeldHasFile
<1> QED
  BY <1>4, <1>5 DEF HasFiles

(* A unit takes away the files of the images it is merged from or linked to; none
   of them is held yet, and no other upload has staged them.                      *)
LEMMA FilesResolve ==
  ASSUME TypeOK, HandInv, HasFiles, NEW p \in Procs, Resolve(p)
  PROVE  HasFiles'
<1> DEFINE dup(U, first) == U = {first} /\ first \in proc[p].dups
<1>1. PICK U \in SUBSET proc[p].staged, first \in proc[p].staged :
        /\ first \in U
        /\ files' = files \ Discarded(U, first, dup(U, first))
        /\ IF sess = "absent" THEN UNCHANGED <<status, code, idle>>
           ELSE status' = [i \in Items |-> IF i = first /\ ~dup(U, first) THEN "prepared"
                                          ELSE IF i \in U THEN "duplicate" ELSE status[i]]
        /\ proc' = [proc EXCEPT ![p].staged = @ \ U, ![p].count = @ \/ ~dup(U, first)]
  BY DEF Resolve
<1> DEFINE d == dup(U, first)
           count == proc[p].count \/ ~d
<1>2. /\ files' = files \ Discarded(U, first, d)
      /\ IF sess = "absent" THEN UNCHANGED <<status, code, idle>>
         ELSE status' = [i \in Items |-> IF i = first /\ ~d THEN "prepared"
                                        ELSE IF i \in U THEN "duplicate" ELSE status[i]]
      /\ proc' = [proc EXCEPT ![p] = [proc[p] EXCEPT !.staged = proc[p].staged \ U, !.count = count]]
  BY <1>1
<1> HIDE DEF d, count, dup
<1>3. /\ proc'[p].kind = "process" /\ proc'[p].staged = proc[p].staged \ U
      /\ proc'[p].pc = "resolve" /\ Uploading(p)
      /\ \A q \in Procs : q # p => proc'[q] = proc[q]
  <2>1. \A q \in Procs : q # p => proc'[q] = proc[q]
    BY OneHandlerMoves DEF Handle, Upload
  <2> QED
    BY <1>2, <2>1 DEF TypeOK, ProcType, Resolve, At, Uploading
<1>4. UNCHANGED <<sess, dir>> /\ files \ U \subseteq files'
  BY <1>2 DEF Resolve, Discarded
<1>5. \A q \in Procs : Uploading(q) => q = p
  BY <1>3 DEF HandInv, OneUpload
<1>6. StagedHasFile'
  BY <1>3, <1>4, <1>5 DEF HasFiles, StagedHasFile, Uploading
<1>7. RemovalAfterDrop'
  BY <1>3, <1>4 DEF HasFiles, RemovalAfterDrop, At
<1>8. HeldHasFile'
  <2> SUFFICES ASSUME sess # "absent", NEW i \in Items, status'[i] = "prepared"
               PROVE  i \in files' /\ dir'
    BY <1>4 DEF HeldHasFile
  <2>1. dir' /\ first \in files
    BY <1>3, <1>4 DEF HasFiles, StagedHasFile
  <2>2. CASE i = first /\ ~d
    BY <1>2, <2>1, <2>2 DEF Discarded
  <2>3. CASE ~(i = first /\ ~d)
    <3>1. i \notin U /\ status[i] = "prepared"
      BY <1>2, <2>3 DEF TypeOK
    <3> QED
      BY <1>4, <2>1, <3>1 DEF HasFiles, HeldHasFile
  <2> QED
    BY <2>2, <2>3
<1> QED
  BY <1>6, <1>7, <1>8 DEF HasFiles

(* The directory goes after its session. *)
LEMMA FilesDelete ==
  ASSUME TypeOK, HasFiles, NEW p \in Procs, DropSession(p) \/ RemoveDir(p)
  PROVE  HasFiles'
<1>1. sess' = "absent"
  BY DEF DropSession, RemoveDir, HasFiles, RemovalAfterDrop, rows
<1> QED
  BY <1>1 DEF HasFiles, StagedHasFile, RemovalAfterDrop, HeldHasFile

LEMMA FilesWorker ==
  ASSUME TypeOK, HasFiles, UNCHANGED <<proc, disk>>, sess = "absent" => sess' = "absent",
         \A i \in Items : status'[i] = "prepared" => status[i] = "prepared"
  PROVE  HasFiles'
  BY FilesStayKeeps DEF FilesStay, Uploading, At, disk

LEMMA FilesNext ==
  ASSUME TypeOK, HandInv, HasFiles, [Next]_vars
  PROVE  HasFiles'
<1>1. ASSUME NEW p \in Procs, Handle(p) \/ RequestDies(p) PROVE HasFiles'
  BY <1>1, FilesMostSteps, FilesLoad, FilesOptimizeOk, FilesResolve, FilesDelete DEF Handle, Upload
<1>2. ASSUME NEW p \in Procs, NEW k \in ReqKinds \cup {"reap"}, Begin(p, k) PROVE HasFiles'
  <2>1. /\ proc'[p].pc = "load" /\ \A q \in Procs : q # p => proc'[q] = proc[q]
        /\ UNCHANGED <<sess, status, files, dir>>
    <3> DEFINE r == [NoProc EXCEPT !.kind = k, !.pc = "load"]
    <3>1. r.pc = "load"
      BY DEF NoProc
    <3>2. proc' = [proc EXCEPT ![p] = r] /\ UNCHANGED <<sess, status, files, dir>>
      BY <1>2 DEF Begin, rows, disk
    <3> HIDE DEF r
    <3> QED
      BY <3>1, <3>2, OtherHandlers DEF TypeOK
  <2> QED
    BY <2>1, FilesStayKeeps DEF FilesStay, Uploading, At
<1>3. ASSUME NEW t \in Tasks, Work(t) \/ Accident(t) PROVE HasFiles'
  <2>1. UNCHANGED <<proc, disk>> /\ (sess = "absent" => sess' = "absent")
    BY <1>3, WritesKeepSession
       DEF Work, Extract, TaskStart, SendToAI, ExtractOk, ExtractFails, SaveReceipt, SaveFails,
           ReportSaved, TaskLoad, TaskSettle, Accident, TaskRaises, Redeliver, ChunkDies, rows
  <2>2. \A i \in Items : status'[i] = "prepared" => status[i] = "prepared"
    BY <1>3, WritesPrepareNothing
       DEF Work, Extract, TaskStart, SendToAI, ExtractOk, ExtractFails, SaveReceipt, SaveFails,
           ReportSaved, TaskLoad, TaskSettle, Accident, TaskRaises, Redeliver, ChunkDies, rows,
           update_item, WhileSaving
  <2> QED
    BY <2>1, <2>2, FilesWorker
<1>4. CASE WorkerCrash \/ TimePasses \/ UNCHANGED vars
  BY <1>4, FilesWorker DEF WorkerCrash, TimePasses, vars, rows
<1> QED
  BY <1>1, <1>2, <1>3, <1>4 DEF Next, StartRequest, StartReap, Procs

(* A held image can be dispatched without a new upload, whatever is merged, swept,
   retried, deleted, delivered twice or lost: its file is in the scratch directory.  *)
THEOREM HeldKeepsItsFile ==
  ASSUME MaxUploads <= 1
  PROVE  Spec => []HeldHasFile
<1>1. Init => TypeOK /\ HeldInv
  <2>1. Init => HasFiles
    BY DEF Init, HasFiles, StagedHasFile, RemovalAfterDrop, HeldHasFile, NoProc, Uploading, At
  <2> QED
    BY <2>1, TypeInit, DispatchInit DEF HeldInv, HasFiles
<1>2. TypeOK /\ HeldInv /\ [Next]_vars => (TypeOK /\ HeldInv)'
  BY TypeNext, DispatchNext, FilesNext DEF HeldInv, HasFiles, Kept
<1>3. TypeOK /\ HeldInv => HeldHasFile
  BY DEF HeldInv
<1> QED
  BY <1>1, <1>2, <1>3, PTL DEF Spec

-----------------------------------------------------------------------------
(* When a session is reported done.  A quiet step takes no image in hand and
   prepares none; what it fails is already with the worker, or it is a sweep and
   no upload is under way; who says "done" after it has derived it from the
   images.                                                                      *)
NewlyTouched(i) == status[i] = "prepared" \/ (status[i] = "failed" /\ i \in files)

Quiet ==
    /\ uploads' = uploads /\ files' \subseteq files
    /\ \A q \in Procs : Uploading(q)' =>
         /\ Uploading(q) /\ proc'[q].todo = proc[q].todo /\ proc'[q].staged = proc[q].staged
         /\ proc'[q].pc \in {proc[q].pc, "act"}
    /\ \A i \in Items : Touched(i)' => Touched(i) \/ NewlyTouched(i)
    /\ \A i \in Items : \/ status'[i] \in {status[i], "pending"}
                        \/ Touched(i) /\ status'[i] # "prepared"
                        \/ status'[i] = "failed" /\ \A q \in Procs : ~Uploading(q)
    /\ sess' = "absent" => \A i \in Items : status'[i] \in {status[i], "pending"}
    /\ sess' = "absent" => sess = "absent" \/ \A i \in Items : status'[i] = "pending"
    /\ ToSay("absent")' => ToSay("absent")
    /\ SaysDone' => SaysDone \/ derive_session_status(status) = "done"

(* Who derives "done" from the images finds them settled. *)
LEMMA DerivedDone ==
  ASSUME TypeOK, DoneInv, derive_session_status(status) = "done"
  PROVE  Settled
<1>1. /\ \E i \in Items : status[i] \in Saved
      /\ \A i \in Items : status[i] \notin Transient /\ status[i] # "prepared"
  <2> DEFINE S == {status[i] : i \in Items}
  <2>1. S \cap Transient = {} /\ "prepared" \notin S /\ S \cap Saved # {}
    BY DEF derive_session_status
  <2> QED
    BY <2>1
<1>2. uploads # 0
  BY <1>1 DEF DoneInv, BeforeUpload, Saved
<1>3. ASSUME NEW p \in Procs, Uploading(p) PROVE proc[p].todo = {} /\ proc[p].staged = {}
  <2>1. WhileOptimizing(p) /\ StagedIsNew(p)
    BY DEF DoneInv
  <2>2. proc[p].todo = {}
    BY <1>1, <1>3, <2>1 DEF WhileOptimizing, New, Saved
  <2>3. proc[p].staged = {}
    BY <1>1, <1>3, <2>1 DEF StagedIsNew, New, Transient, TypeOK, ProcType
  <2> QED
    BY <2>2, <2>3
<1> QED
  BY <1>1, <1>2, <1>3 DEF Settled, InHand

LEMMA QuietKeeps ==
  ASSUME TypeOK, DoneInv, Quiet
  PROVE  DoneInv'
<1>0. uploads \in Nat
  BY DEF TypeOK
<1>1. OneUpload'
  BY DEF DoneInv, OneUpload, Quiet
<1>2. BeforeUpload'
  BY DEF DoneInv, OneUpload, BeforeUpload, Quiet, NewlyTouched
<1>3. ~ToSay("absent")' /\ (sess' = "absent" => \A i \in Items : status'[i] = "pending")
  BY DEF DoneInv, Quiet
<1>4. ASSUME NEW p \in Procs PROVE StagedIsNew(p)'
  <2> SUFFICES ASSUME Uploading(p)', NEW i \in proc[p].staged
               PROVE  status'[i] \in New /\ ~Touched(i)'
    BY DEF StagedIsNew, Quiet
  <2>1. i \in Items /\ Uploading(p) /\ status[i] \in New /\ ~Touched(i)
    BY DEF DoneInv, StagedIsNew, Quiet, TypeOK, ProcType
  <2> QED
    BY <2>1 DEF Quiet, New, NewlyTouched
<1>5. ASSUME NEW p \in Procs PROVE WhileOptimizing(p)'
  <2> SUFFICES ASSUME Uploading(p)', proc[p].todo # {}
               PROVE  WhileOptimizing(p)'
    BY DEF WhileOptimizing, Quiet
  <2>1. /\ Uploading(p) /\ WhileOptimizing(p) /\ StagedIsNew(p)
        /\ proc'[p].todo = proc[p].todo /\ proc'[p].staged = proc[p].staged
        /\ proc'[p].pc \in {proc[p].pc, "act"} /\ files' \subseteq files
    BY DEF DoneInv, Quiet
  <2>2. \A i \in Items : status[i] \in New \cup {"failed"} /\ ~Touched(i) /\ ~NewlyTouched(i)
    BY <2>1 DEF WhileOptimizing, StagedIsNew, NewlyTouched, New
  <2>3. \A i \in Items : status'[i] \in {status[i], "pending"} /\ ~Touched(i)'
    BY <2>1, <2>2 DEF Quiet
  <2> QED
    BY <2>1, <2>2, <2>3 DEF WhileOptimizing, New, First
<1>6. SaysDone' => Settled'
  <2>1. SaysDone' => Settled
    BY DerivedDone DEF Quiet, DoneInv
  <2>2. Settled => Settled'
    BY DEF Settled, Quiet, InHand
  <2> QED
    BY <2>1, <2>2
<1> QED
  BY <1>1, <1>2, <1>3, <1>4, <1>5, <1>6 DEF DoneInv

(* What one handler's step does to what is touched and to who says "done". *)
LEMMA TouchedByOne ==
  ASSUME TypeOK, NEW p \in Procs, \A q \in Procs : q # p => proc'[q] = proc[q], task' = task,
         NEW i \in Items, Touched(i)'
  PROVE  Touched(i) \/ (proc'[p].kind \in {"dispatch", "retry"} /\ i \in proc'[p].todo)
  BY DEF Touched

LEMMA SaidByOne ==
  ASSUME TypeOK, NEW p \in Procs, \A q \in Procs : q # p => proc'[q] = proc[q], task' = task,
         NEW s, ToSay(s)'
  PROVE  ToSay(s) \/ (proc'[p].pc \in {"reconcile", "last"} /\ proc'[p].seen = s)
  BY DEF ToSay

LEMMA DerivedIsReconciled ==
  /\ Reconciled # "absent"
  /\ Reconciled = "done" => derive_session_status(status) = "done"
  BY DEF Reconciled, derive_session_status

(* A handler's step is quiet if what it does to its own record and to the rows is. *)
LEMMA HandlerIsQuiet ==
  ASSUME TypeOK, NEW p \in Procs, \A q \in Procs : q # p => proc'[q] = proc[q], task' = task,
         uploads' = uploads, files' \subseteq files,
         Uploading(p)' => /\ Uploading(p) /\ proc'[p].todo = proc[p].todo
                          /\ proc'[p].staged = proc[p].staged /\ proc'[p].pc \in {proc[p].pc, "act"},
         proc'[p].kind \in {"dispatch", "retry"} =>
           \A i \in proc'[p].todo : NewlyTouched(i) \/ (proc[p].kind = proc'[p].kind /\ i \in proc[p].todo),
         \A i \in Items : \/ status'[i] \in {status[i], "pending"}
                          \/ status'[i] = "failed" /\ \A q \in Procs : ~Uploading(q),
         sess' = "absent" => \A i \in Items : status'[i] \in {status[i], "pending"},
         sess' = "absent" => sess = "absent" \/ \A i \in Items : status'[i] = "pending",
         sess' = "done" => SaysDone,
         proc'[p].pc \in {"reconcile", "last"} => proc'[p].seen # "absent",
         proc'[p].pc \in {"reconcile", "last"} /\ proc'[p].seen = "done" =>
            SaysDone \/ derive_session_status(status) = "done"
  PROVE  Quiet
<1>1. \A q \in Procs : Uploading(q)' =>
         /\ Uploading(q) /\ proc'[q].todo = proc[q].todo /\ proc'[q].staged = proc[q].staged
         /\ proc'[q].pc \in {proc[q].pc, "act"}
  BY DEF Uploading
<1>2. ASSUME NEW i \in Items, Touched(i)' PROVE Touched(i) \/ NewlyTouched(i)
  <2>1. CASE proc'[p].kind \in {"dispatch", "retry"} /\ i \in proc'[p].todo
    BY <2>1 DEF Touched
  <2> QED
    BY <1>2, <2>1, TouchedByOne
<1>3. /\ SaysDone' => SaysDone \/ derive_session_status(status) = "done"
      /\ ToSay("absent")' => ToSay("absent")
  BY SaidByOne DEF SaysDone
<1> QED
  BY <1>1, <1>2, <1>3 DEF Quiet

LEMMA QuietBegin ==
  ASSUME TypeOK, NEW p \in Procs, NEW k \in ReqKinds \cup {"reap"}, Begin(p, k)
  PROVE  Quiet
<1> DEFINE r == [NoProc EXCEPT !.kind = k, !.pc = "load"]
<1>1. r.pc = "load" /\ r.todo = {}
  BY DEF NoProc
<1>2. proc' = [proc EXCEPT ![p] = r] /\ UNCHANGED <<rows, files, task, uploads>>
  BY DEF Begin, disk
<1> HIDE DEF r
<1>3. proc'[p] = r /\ \A q \in Procs : q # p => proc'[q] = proc[q]
  BY <1>2, OtherHandlers DEF TypeOK
<1> QED
  BY <1>1, <1>2, <1>3, HandlerIsQuiet DEF Uploading, rows, SaysDone

LEMMA QuietLoad ==
  ASSUME TypeOK, NEW p \in Procs, Load(p) \/ LoadAgain(p) \/ Refuse(p), proc[p].kind # "process" \/ ~Load(p)
  PROVE  Quiet
<1>0. proc[p] \in ProcType
  BY DEF TypeOK
<1>1. \A q \in Procs : q # p => proc'[q] = proc[q]
  BY OneHandlerMoves DEF Handle
<1>2. UNCHANGED <<rows, files, task, uploads>>
  BY DEF Load, LoadAgain, Refuse, disk
<1>3. CASE Load(p)
  <2>1. PICK S \in SUBSET Items : /\ Selection(proc[p].kind, S)
                                  /\ proc' = [proc EXCEPT ![p] = Loaded(proc[p].kind, S)]
    BY <1>3 DEF Load
  <2>2. proc'[p] = Loaded(proc[p].kind, S)
    BY <2>1 DEF TypeOK
  <2>3. /\ proc'[p].kind = proc[p].kind /\ proc'[p].todo = S
        /\ proc'[p].pc \in {"reconcile", "act"} /\ (proc'[p].pc = "reconcile" => Drifted)
        /\ proc'[p].pc = "reconcile" => proc'[p].seen = Reconciled
    BY <2>2 DEF Loaded, NoProc
  <2>5. proc[p].kind \in {"dispatch", "retry"} => \A i \in S : NewlyTouched(i)
    BY <2>1 DEF Selection, NewlyTouched
  <2>6. proc'[p].pc \in {"reconcile", "last"} =>
          /\ proc'[p].seen # "absent"
          /\ proc'[p].seen = "done" => derive_session_status(status) = "done"
    BY <2>3, DerivedIsReconciled
  <2>7. ~Uploading(p)'
    BY <1>3, <2>3 DEF Uploading
  <2> QED
    BY <1>1, <1>2, <2>3, <2>5, <2>6, <2>7, HandlerIsQuiet DEF rows, SaysDone
<1>4. CASE LoadAgain(p) \/ Refuse(p)
  <2>1. /\ proc'[p].pc \in {"idle", "last", "rmtree"} /\ proc'[p].todo \in {{}, proc[p].todo}
        /\ proc'[p].kind \in {"none", proc[p].kind}
        /\ proc'[p].pc = "last" => sess # "absent" /\ proc'[p].seen = Reconciled
    <3>1. CASE LoadAgain(p)
      BY <1>0, <3>1 DEF LoadAgain, NoProc, ProcType, TypeOK
    <3>2. CASE Refuse(p)
      <4>1. PICK r : proc' = [proc EXCEPT ![p] = r] /\
              \/ r = NoProc \/ r = [proc[p] EXCEPT !.pc = "rmtree"]
              \/ sess # "absent" /\ r = [proc[p] EXCEPT !.pc = "last", !.seen = Reconciled]
        BY <3>2 DEF Refuse
      <4>2. proc'[p] = r
        BY <4>1 DEF TypeOK
      <4>3. CASE r = NoProc
        BY <4>2, <4>3 DEF NoProc
      <4>4. CASE r # NoProc
        BY <1>0, <4>1, <4>2, <4>4 DEF ProcType
      <4> QED
        BY <4>3, <4>4
    <3> QED
      BY <1>4, <3>1, <3>2
  <2>2. ~Uploading(p)'
    BY <2>1 DEF Uploading
  <2>3. proc'[p].pc \in {"reconcile", "last"} =>
          /\ proc'[p].seen # "absent"
          /\ proc'[p].seen = "done" => derive_session_status(status) = "done"
    BY <2>1, DerivedIsReconciled
  <2> QED
    BY <1>1, <1>2, <2>1, <2>2, <2>3, HandlerIsQuiet DEF rows, SaysDone
<1> QED
  BY <1>3, <1>4

LEMMA QuietHandle ==
  ASSUME TypeOK, DoneInv, NEW p \in Procs,
         \/ Reconcile(p) \/ SendOff(p) \/ Sweep(p) \/ SweepEnds(p) \/ DropSession(p) \/ RemoveDir(p)
         \/ RequestDies(p) \/ finalize_prepared(p),
         Sweep(p) => \A q \in Procs : ~Uploading(q)
  PROVE  Quiet
<1>0. proc[p] \in ProcType /\ proc \in [Procs -> ProcType]
  BY DEF TypeOK
<1>1. \A q \in Procs : q # p => proc'[q] = proc[q]
  BY OneHandlerMoves DEF Handle, Upload
<1>2. CASE Reconcile(p)
  <2>1. CASE proc[p].pc = "last"
    <3>1. proc'[p] = NoProc
      BY <1>0, <1>2, <2>1 DEF Reconcile
    <3> QED
      BY <1>1, <1>2, <2>1, <3>1, HandlerIsQuiet
         DEF Reconcile, SetStatus, disk, SaysDone, ToSay, NoProc, Uploading, DoneInv
  <2>2. CASE proc[p].pc = "reconcile"
    <3>1. PICK s \in SessStatus \cup {"absent"} : proc' = [proc EXCEPT ![p] = [proc[p] EXCEPT !.pc = "act", !.seen = s]]
      BY <1>0, <1>2, <2>2 DEF Reconcile, ProcType
    <3>2. /\ proc'[p].pc = "act" /\ proc'[p].kind = proc[p].kind
          /\ proc'[p].todo = proc[p].todo /\ proc'[p].staged = proc[p].staged
      BY <1>0, <3>1 DEF ProcType
    <3> QED
      BY <1>1, <1>2, <2>2, <3>2, HandlerIsQuiet
         DEF Reconcile, SetStatus, disk, SaysDone, ToSay, Uploading, DoneInv
  <2> QED
    BY <1>2, <2>1, <2>2 DEF Reconcile
<1>3. CASE mark_queued(p)
  <2>1. \/ proc'[p] = NoProc
        \/ proc'[p].kind = "dispatch" /\ proc'[p].pc = "status" /\ proc'[p].todo \subseteq proc[p].todo
    BY <1>0, <1>3 DEF mark_queued, At, StillPrepared, ProcType
  <2>2. /\ UNCHANGED <<sess, files, task, uploads>> /\ proc[p].kind = "dispatch"
        /\ \A i \in Items : status'[i] \in {status[i], "pending"}
        /\ sess' = "absent" => UNCHANGED status
    BY <1>3 DEF mark_queued, At, disk, WriteItems, TypeOK
  <2> QED
    BY <1>1, <2>1, <2>2, HandlerIsQuiet DEF NoProc, Uploading, SaysDone
<1>4. CASE ResetForRetry(p) \/ MarkProcessing(p)
  <2>1. /\ proc'[p].kind = proc[p].kind /\ proc'[p].todo = proc[p].todo
        /\ proc'[p].pc \in {"status", "enqueue"}
    BY <1>0, <1>4 DEF ResetForRetry, MarkProcessing, Goes, ProcType
  <2>2. /\ UNCHANGED <<files, task, uploads>> /\ sess' \in {sess, "processing"}
        /\ sess' = "absent" => sess = "absent"
        /\ \A i \in Items : status'[i] \in {status[i], "pending"}
    BY <1>4 DEF ResetForRetry, MarkProcessing, SetStatus, WriteItems, disk, TypeOK
  <2> QED
    BY <1>1, <2>1, <2>2, HandlerIsQuiet DEF Uploading, SaysDone
<1>6. CASE Sweep(p)
  <2>1. PICK i \in Items : proc' = [proc EXCEPT ![p] = [proc[p] EXCEPT !.todo = proc[p].todo \ {i}]]
                           /\ update_item(i, "failed", "other")
    BY <1>6 DEF Sweep
  <2>2. proc'[p].kind = proc[p].kind /\ proc'[p].pc = "act" /\ proc[p].kind \in {"poll", "reap"}
    BY <1>0, <1>6, <2>1 DEF ProcType, Sweep
  <2>3. /\ UNCHANGED <<sess, files, task, uploads>>
        /\ \A j \in Items : status'[j] \in {status[j], "failed"}
        /\ sess' = "absent" => UNCHANGED status
    BY <1>6, <2>1 DEF Sweep, disk, update_item, WriteItems, TypeOK
  <2>4. ~Uploading(p)'
    BY <2>2 DEF Uploading
  <2> QED
    BY <1>1, <1>6, <2>2, <2>3, <2>4, HandlerIsQuiet DEF SaysDone
<1>7. CASE Enqueue(p)
  <2>1. proc'[p] = NoProc /\ \A q \in Procs : q # p => proc'[q] = proc[q]
    BY <1>0, <1>1, <1>7 DEF Enqueue
  <2>2. PICK u \in FreeTasks : task' = [task EXCEPT ![u] = NewTask(proc[p].kind, proc[p].todo)]
    BY <1>7 DEF Enqueue
  <2>3. /\ task'[u].entries = proc[p].todo /\ task'[u].st = "queued"
        /\ \A t \in Tasks : t # u => task'[t] = task[t]
    BY <2>2 DEF NewTask, TypeOK, FreeTasks
  <2>4. UNCHANGED <<rows, files, uploads>> /\ proc[p].kind \in {"dispatch", "retry"}
    BY <1>7 DEF Enqueue, disk
  <2>5. \A i \in Items : Touched(i)' => Touched(i)
    BY <2>1, <2>3, <2>4 DEF Touched, NoProc
  <2>6. \A s : ToSay(s)' => ToSay(s)
    BY <2>1, <2>3 DEF ToSay, NoProc
  <2>7. \A q \in Procs : Uploading(q)' => Uploading(q) /\ proc'[q] = proc[q]
    BY <2>1 DEF Uploading, NoProc
  <2> QED
    BY <2>4, <2>5, <2>6, <2>7 DEF Quiet, rows, SaysDone
<1>8. CASE \/ SweepEnds(p) \/ DropSession(p) \/ RemoveDir(p) \/ RequestDies(p) \/ finalize_prepared(p)
  <2>1. proc'[p].pc \in {"again", "idle", "rmtree"} /\ (proc'[p] = NoProc \/ proc'[p].kind \in {"poll", "delete", "process"})
    <3>1. CASE RemoveDir(p) \/ RequestDies(p)
      <4>1. proc'[p] = NoProc
        BY <1>0, <3>1 DEF RemoveDir, RequestDies
      <4> QED
        BY <4>1 DEF NoProc
    <3>2. CASE SweepEnds(p)
      <4>1. CASE proc[p].kind = "poll"
        BY <1>0, <3>2, <4>1 DEF SweepEnds, Goes, ProcType
      <4>2. CASE proc[p].kind # "poll"
        <5>1. proc'[p] = NoProc
          BY <1>0, <3>2, <4>2 DEF SweepEnds
        <5> QED
          BY <5>1 DEF NoProc
      <4> QED
        BY <4>1, <4>2
    <3>3. CASE DropSession(p) \/ finalize_prepared(p)
      BY <1>0, <3>3 DEF DropSession, finalize_prepared, Goes, At, ProcType
    <3> QED
      BY <1>8, <3>1, <3>2, <3>3
  <2>2. /\ files' \subseteq files /\ UNCHANGED <<task, uploads>>
        /\ \A i \in Items : status'[i] \in {status[i], "pending"}
        /\ sess' = "absent" => sess = "absent" \/ \A i \in Items : status'[i] = "pending"
        /\ sess' = "done" => sess = "done"
    BY <1>8 DEF SweepEnds, DropSession, RemoveDir, RequestDies, finalize_prepared, rows, disk,
                SetStatus, AfterUpload
  <2> QED
    BY <1>1, <2>1, <2>2, HandlerIsQuiet DEF NoProc, Uploading, SaysDone
<1> QED
  BY <1>2, <1>3, <1>4, <1>6, <1>7, <1>8 DEF SendOff

(* The worker: its writes are to images it has been handed, and prepare nothing. *)
LEMMA WorkerIsQuiet ==
  ASSUME TypeOK, DoneInv, NEW t \in Tasks, Work(t) \/ Accident(t) \/ WorkerCrash
  PROVE  Quiet
<1>0. task[t] \in TaskType /\ task \in [Tasks -> TaskType]
  BY DEF TypeOK
<1>1. UNCHANGED <<proc, files, uploads>>
  BY DEF Work, Extract, TaskStart, SendToAI, ExtractOk, ExtractFails, SaveReceipt, SaveFails,
         ReportSaved, TaskLoad, TaskSettle, Accident, TaskRaises, Redeliver, ChunkDies,
         WorkerCrash, disk
<1>2. /\ \A i \in Items : status'[i] = status[i] \/ (Touched(i) /\ status'[i] # "prepared")
      /\ sess = "absent" => UNCHANGED status
  <2>1. CASE WorkerCrash \/ TaskStart(t) \/ TaskLoad(t) \/ TaskSettle(t) \/ TaskRaises(t) \/ Redeliver(t)
    BY <2>1 DEF WorkerCrash, TaskStart, TaskLoad, TaskSettle, TaskRaises, Redeliver, rows
  <2>2. CASE \E i \in Items : \/ SendToAI(t, i) \/ ExtractOk(t, i) \/ ExtractFails(t, i)
                              \/ SaveReceipt(t, i) \/ SaveFails(t, i) \/ ReportSaved(t, i)
                              \/ ChunkDies(t, i)
    <3>1. PICK i \in Items : /\ i \in task[t].entries
                             /\ \/ UNCHANGED status
                                \/ \E s \in ItemStatus \ {"prepared"}, c \in ErrorCodes : update_item(i, s, c)
      BY <2>2 DEF SendToAI, ExtractOk, ExtractFails, SaveReceipt, SaveFails, ReportSaved, ChunkDies,
                  Doing, WhileSaving, ItemStatus, Transient, Saved, ErrorCodes, rows
    <3>2. Touched(i)
      BY <3>1 DEF Touched
    <3> QED
      BY <3>1, <3>2 DEF update_item, WriteItems, TypeOK
  <2> QED
    BY <2>1, <2>2 DEF Work, Extract, Accident
<1>3. /\ \A i \in Items : Touched(i)' => Touched(i)
      /\ \A s : ToSay(s)' => ToSay(s) \/ s = derive_session_status(status)
  <2>1. CASE WorkerCrash
    <3>1. \A u \in Tasks : task'[u].entries = task[u].entries /\ task'[u].st = "settle" => task'[u] = task[u]
      BY <1>0, <2>1 DEF WorkerCrash, NewTask
    <3>2. \A u \in Tasks : task'[u].entries = task[u].entries
      BY <1>0, <2>1 DEF WorkerCrash, NewTask
    <3> QED
      BY <1>1, <3>1, <3>2 DEF Touched, ToSay
  <2>2. CASE Redeliver(t)
    <3>1. PICK u \in FreeTasks : task' = [task EXCEPT ![u] = NewTask(task[t].kind, task[t].entries)]
      BY <2>2 DEF Redeliver
    <3>2. /\ task'[u].entries = task[t].entries /\ task'[u].st = "queued"
          /\ \A v \in Tasks : v # u => task'[v] = task[v]
      BY <3>1 DEF NewTask, TypeOK, FreeTasks
    <3> QED
      BY <1>1, <3>2 DEF Touched, ToSay
  <2>3. CASE ~WorkerCrash /\ ~Redeliver(t)
    <3>1. /\ task'[t].entries = task[t].entries
          /\ task'[t].st = "settle" => \/ task[t].st = "settle" /\ task'[t].final = task[t].final
                                       \/ task'[t].final = derive_session_status(status)
          /\ \A u \in Tasks : u # t => task'[u] = task[u]
      <4>1. CASE TaskStart(t) \/ TaskSettle(t) \/ TaskRaises(t)
        BY <1>0, <4>1 DEF TaskStart, TaskSettle, TaskRaises, TaskType
      <4>2. CASE TaskLoad(t)
        BY <1>0, <4>2 DEF TaskLoad, TaskType
      <4>3. CASE \E i \in Items, ph \in Phases : Phase(t, i, ph)
        BY <1>0, <4>3 DEF Phase, TaskType
      <4> QED
        BY <2>3, <4>1, <4>2, <4>3
           DEF Work, Extract, SendToAI, ExtractOk, ExtractFails, SaveReceipt, SaveFails,
               ReportSaved, Accident, ChunkDies, Phases
    <3> QED
      BY <1>1, <3>1 DEF Touched, ToSay
  <2> QED
    BY <2>1, <2>2, <2>3
<1>4. sess' \in {sess, "processing", "failed"} \/ (task[t].st = "settle" /\ sess' = task[t].final)
  BY DEF Work, Extract, TaskStart, SendToAI, ExtractOk, ExtractFails, SaveReceipt, SaveFails,
         ReportSaved, TaskLoad, TaskSettle, Accident, TaskRaises, Redeliver, ChunkDies,
         WorkerCrash, SetStatus, rows
<1>5. sess' = "absent" => sess = "absent"
  BY <1>4 DEF DoneInv, ToSay
<1>6. sess' = "done" => SaysDone
  BY <1>4 DEF SaysDone, ToSay
<1>7. derive_session_status(status) # "absent"
  BY DEF derive_session_status
<1> QED
  BY <1>1, <1>2, <1>3, <1>5, <1>6, <1>7 DEF Quiet, SaysDone, Uploading

(* An upload is accepted when nothing has been done to the images yet, and takes
   them all in hand.                                                            *)
LEMMA DoneAccept ==
  ASSUME MaxUploads <= 1, TypeOK, HandInv, DoneInv,
         NEW p \in Procs, Load(p), proc[p].kind = "process"
  PROVE  DoneInv'
<1>1. PICK S \in SUBSET Items : proc' = [proc EXCEPT ![p] = Loaded("process", S)]
  BY DEF Load
<1>2. proc'[p] = Loaded("process", S)
  BY <1>1 DEF TypeOK
<1>3. /\ proc'[p].kind = "process" /\ proc'[p].staged = {}
      /\ proc'[p].pc \in {"reconcile", "act"}
      /\ proc'[p].pc = "reconcile" => proc'[p].seen = Reconciled
  BY <1>2 DEF Loaded, NoProc
<1>4. \A q \in Procs : q # p => proc'[q] = proc[q]
  BY OneHandlerMoves DEF Handle
<1>5. /\ UNCHANGED <<sess, status, files, task>> /\ uploads = 0 /\ uploads' = 1
  BY BoundsAssumption DEF Load, rows, TypeOK
<1>6. \A i \in Items : Touched(i)' => Touched(i)
  BY <1>3, <1>4, <1>5 DEF Touched
<1>7. \A q \in Procs : Uploading(q)' => q = p
  BY <1>3, <1>4, <1>5 DEF Uploading, DoneInv, OneUpload
<1>8. files = {} /\ \A i \in Items : status[i] \in {"pending", "failed"} /\ ~Touched(i)'
  BY <1>5, <1>6 DEF DoneInv, BeforeUpload
<1>9. ASSUME NEW q \in Procs PROVE WhileOptimizing(q)' /\ StagedIsNew(q)'
  BY <1>3, <1>5, <1>7, <1>8 DEF WhileOptimizing, StagedIsNew, New
<1>10. OneUpload'
  <2>1. HandInv'
    BY DispatchNext DEF Next, Handle, Kept
  <2> QED
    BY <2>1 DEF HandInv
<1>11. ~SaysDone' /\ ~ToSay("absent")'
  <2>1. derive_session_status(status) # "done"
    BY DerivedDone, <1>5 DEF Settled
  <2>2. ~SaysDone
    BY <1>5 DEF DoneInv, Settled
  <2> QED
    BY <1>3, <1>4, <1>5, <2>1, <2>2, SaidByOne, DerivedIsReconciled DEF SaysDone, DoneInv
<1> QED
  BY <1>5, <1>9, <1>10, <1>11 DEF DoneInv, BeforeUpload

LEMMA ResolveMoves ==
  ASSUME TypeOK, NEW p \in Procs, Resolve(p)
  PROVE  \E U \in SUBSET proc[p].staged, count \in BOOLEAN :
           /\ proc' = [proc EXCEPT ![p] = [proc[p] EXCEPT !.staged = proc[p].staged \ U, !.count = count]]
           /\ \A i \in Items : status'[i] = status[i] \/ (sess # "absent" /\ i \in U)
<1> DEFINE dup(U, first) == U = {first} /\ first \in proc[p].dups
<1>1. PICK U \in SUBSET proc[p].staged, first \in proc[p].staged :
        /\ first \in U
        /\ IF sess = "absent" THEN UNCHANGED <<status, code, idle>>
           ELSE status' = [i \in Items |-> IF i = first /\ ~dup(U, first) THEN "prepared"
                                          ELSE IF i \in U THEN "duplicate" ELSE status[i]]
        /\ proc' = [proc EXCEPT ![p].staged = @ \ U, ![p].count = @ \/ ~dup(U, first)]
  BY DEF Resolve
<1> DEFINE d == dup(U, first)
           count == proc[p].count \/ ~d
<1>2. /\ first \in U
      /\ IF sess = "absent" THEN UNCHANGED <<status, code, idle>>
         ELSE status' = [i \in Items |-> IF i = first /\ ~d THEN "prepared"
                                        ELSE IF i \in U THEN "duplicate" ELSE status[i]]
      /\ proc' = [proc EXCEPT ![p] = [proc[p] EXCEPT !.staged = proc[p].staged \ U, !.count = count]]
  BY <1>1
<1>3. count \in BOOLEAN
  BY DEF TypeOK, ProcType
<1> HIDE DEF d, count, dup
<1>4. \A i \in Items : status'[i] = status[i] \/ (sess # "absent" /\ i \in U)
  BY <1>2
<1>5. proc' = [proc EXCEPT ![p] = [proc[p] EXCEPT !.staged = proc[p].staged \ U, !.count = count]]
  BY <1>2
<1> QED
  BY <1>3, <1>4, <1>5

(* A step of an upload moves the images in its hands and nothing else. *)
LEMMA UploadTouches ==
  ASSUME TypeOK, HandInv, NEW p \in Procs, Upload(p), ~finalize_prepared(p)
  PROVE  /\ Uploading(p) /\ Uploading(p)' /\ proc[p].pc # "reconcile"
         /\ proc'[p].kind = "process" /\ proc'[p].pc \in {"act", "prep", "resolve"}
         /\ \A q \in Procs : q # p => proc'[q] = proc[q] /\ ~Uploading(q)'
         /\ UNCHANGED <<sess, task, uploads>>
         /\ \A i \in Items : Touched(i)' => Touched(i)
<1>0. proc[p] \in ProcType
  BY DEF TypeOK
<1>1. \A q \in Procs : q # p => proc'[q] = proc[q]
  BY OneHandlerMoves DEF Handle
<1>2. /\ proc[p].kind = "process" /\ proc[p].pc \in {"act", "prep", "resolve"}
      /\ UNCHANGED <<sess, task, uploads>>
  BY DEF Upload, OptimizeStart, OptimizeOk, OptimizeFails, LookupHashes, Resolve, At, rows
<1>3. proc'[p].kind = "process" /\ proc'[p].pc \in {"act", "prep", "resolve"}
  <2>1. CASE OptimizeStart(p) \/ LookupHashes(p)
    BY <1>2, <2>1 DEF OptimizeStart, LookupHashes, Goes, ProcType, TypeOK
  <2>2. CASE OptimizeOk(p)
    <3>1. PICK i \in Items :
            proc' = [proc EXCEPT ![p] = [proc[p] EXCEPT !.pc = "act", !.todo = proc[p].todo \ {i},
                                                        !.staged = proc[p].staged \cup {i}]]
      BY <2>2 DEF OptimizeOk
    <3> QED
      BY <1>0, <1>2, <3>1 DEF ProcType, TypeOK
  <2>3. CASE OptimizeFails(p)
    <3>1. PICK i \in Items :
            proc' = [proc EXCEPT ![p] = [proc[p] EXCEPT !.pc = "act", !.todo = proc[p].todo \ {i}]]
      BY <2>3 DEF OptimizeFails
    <3> QED
      BY <1>0, <1>2, <3>1 DEF ProcType, TypeOK
  <2>4. CASE Resolve(p)
    <3>1. PICK U \in SUBSET proc[p].staged, count \in BOOLEAN :
            proc' = [proc EXCEPT ![p] = [proc[p] EXCEPT !.staged = proc[p].staged \ U, !.count = count]]
      BY <2>4, ResolveMoves
    <3> QED
      BY <1>0, <1>2, <3>1 DEF ProcType, TypeOK
  <2> QED
    BY <2>1, <2>2, <2>3, <2>4 DEF Upload
<1>4. Uploading(p) /\ Uploading(p)'
  BY <1>2, <1>3 DEF Uploading
<1>5. \A q \in Procs : q # p => ~Uploading(q)'
  BY <1>1, <1>4 DEF HandInv, OneUpload, Uploading
<1>6. \A i \in Items : Touched(i)' => Touched(i)
  BY <1>1, <1>2, <1>3, TouchedByOne
<1> QED
  BY <1>1, <1>2, <1>3, <1>4, <1>5, <1>6

LEMMA DoneAfterUpload ==
  ASSUME MaxUploads <= 1, TypeOK, HandInv, DoneInv, NEW p \in Procs,
         Upload(p), ~finalize_prepared(p),
         proc'[p].todo \cup proc'[p].staged \subseteq proc[p].todo \cup proc[p].staged,
         \A i \in Items : status'[i] = status[i] \/ (sess # "absent" /\ i \in InHand(p)),
         WhileOptimizing(p)', StagedIsNew(p)'
  PROVE  DoneInv'
<1>1. \A q \in Procs : WhileOptimizing(q)' /\ StagedIsNew(q)'
  BY UploadTouches DEF WhileOptimizing, StagedIsNew
<1>2. OneUpload'
  <2>1. HandInv'
    BY DispatchNext DEF Next, Handle, Kept
  <2> QED
    BY <2>1 DEF HandInv
<1>3. BeforeUpload'
  BY UploadTouches DEF BeforeUpload, HandInv, OneUpload
<1>4. /\ ~ToSay("absent")'
      /\ sess' = "absent" => \A i \in Items : status'[i] = "pending"
  BY UploadTouches, SaidByOne DEF DoneInv
<1>5. SaysDone' => SaysDone
  BY UploadTouches, SaidByOne DEF SaysDone
<1>6. Settled => Settled'
  <2>1. \A q \in Procs : InHand(q)' \subseteq InHand(q)
    BY UploadTouches DEF InHand
  <2> QED
    BY <2>1, UploadTouches DEF Settled
<1> QED
  BY <1>1, <1>2, <1>3, <1>4, <1>5, <1>6 DEF DoneInv

LEMMA DoneUpload ==
  ASSUME MaxUploads <= 1, TypeOK, HandInv, DoneInv, NEW p \in Procs,
         Upload(p), ~finalize_prepared(p)
  PROVE  DoneInv'
<1>0. /\ proc[p] \in ProcType /\ proc \in [Procs -> ProcType] /\ status \in [Items -> ItemStatus]
      /\ Uploading(p) /\ Uploading(p)' /\ WhileOptimizing(p) /\ StagedIsNew(p)
      /\ \A i \in Items : Touched(i)' => Touched(i)
      /\ sess = "absent" => \A i \in Items : status[i] = "pending"
      /\ proc[p].todo \cap proc[p].staged = {}
      /\ proc[p].todo \subseteq Items /\ proc[p].staged \subseteq Items
  BY UploadTouches DEF TypeOK, DoneInv, HandInv, InHandIsNew, ProcType
<1>1. CASE OptimizeStart(p)
  <2>1. PICK i \in Items : /\ First(i, proc[p].todo) /\ update_item(i, "optimizing", "none")
                           /\ proc' = [proc EXCEPT ![p] = [proc[p] EXCEPT !.pc = "prep"]]
    BY <1>1 DEF OptimizeStart, Goes
  <2>2. /\ proc'[p].todo = proc[p].todo /\ proc'[p].staged = proc[p].staged /\ proc'[p].pc = "prep"
        /\ UNCHANGED files
    BY <1>0, <1>1, <2>1 DEF ProcType, OptimizeStart, disk
  <2>3. /\ \A j \in Items : status'[j] = status[j] \/ (j = i /\ sess # "absent" /\ status'[j] = "optimizing")
        /\ status'[i] \in New /\ i \in proc[p].todo
        /\ \A j \in Items : First(j, proc[p].todo) => j = i
    BY <1>0, <2>1, ItemsAssumption DEF update_item, WriteItems, New, First
  <2>4. WhileOptimizing(p)'
    BY <1>0, <2>2, <2>3 DEF WhileOptimizing, New
  <2>5. StagedIsNew(p)'
    BY <1>0, <2>2, <2>3 DEF StagedIsNew, New
  <2> QED
    BY <1>0, <2>2, <2>3, <2>4, <2>5, DoneAfterUpload DEF InHand
<1>2. CASE OptimizeOk(p)
  <2>1. PICK i \in Items :
          /\ First(i, proc[p].todo) /\ files' = files \cup {i}
          /\ proc' = [proc EXCEPT ![p] = [proc[p] EXCEPT !.pc = "act", !.todo = proc[p].todo \ {i},
                                                        !.staged = proc[p].staged \cup {i}]]
    BY <1>2 DEF OptimizeOk
  <2>2. /\ proc'[p].todo = proc[p].todo \ {i} /\ proc'[p].staged = proc[p].staged \cup {i}
        /\ proc'[p].pc = "act" /\ proc[p].pc = "prep" /\ UNCHANGED status
    BY <1>0, <1>2, <2>1 DEF ProcType, OptimizeOk, At, rows
  <2>3. i \in proc[p].todo /\ status[i] \in New /\ ~Touched(i)
    BY <1>0, <2>1, <2>2 DEF First, WhileOptimizing
  <2>4. WhileOptimizing(p)'
    BY <1>0, <2>1, <2>2 DEF WhileOptimizing
  <2>5. StagedIsNew(p)'
    BY <1>0, <2>2, <2>3 DEF StagedIsNew
  <2> QED
    BY <1>0, <2>2, <2>3, <2>4, <2>5, DoneAfterUpload DEF InHand
<1>3. CASE OptimizeFails(p)
  <2>1. PICK i \in Items :
          /\ First(i, proc[p].todo) /\ update_item(i, "failed", "other")
          /\ proc' = [proc EXCEPT ![p] = [proc[p] EXCEPT !.pc = "act", !.todo = proc[p].todo \ {i}]]
    BY <1>3 DEF OptimizeFails
  <2>2. /\ proc'[p].todo = proc[p].todo \ {i} /\ proc'[p].staged = proc[p].staged
        /\ proc'[p].pc = "act" /\ UNCHANGED files
    BY <1>0, <1>3, <2>1 DEF ProcType, OptimizeFails, disk
  <2>3. /\ \A j \in Items : status'[j] = status[j] \/ (j = i /\ sess # "absent" /\ status'[j] = "failed")
        /\ i \in proc[p].todo
    BY <1>0, <2>1 DEF update_item, WriteItems, First
  <2>4. WhileOptimizing(p)'
    BY <1>0, <2>2, <2>3 DEF WhileOptimizing, New
  <2>5. StagedIsNew(p)'
    BY <1>0, <2>2, <2>3 DEF StagedIsNew
  <2> QED
    BY <1>0, <2>2, <2>3, <2>4, <2>5, DoneAfterUpload DEF InHand
<1>4. CASE LookupHashes(p)
  <2>1. proc[p].todo = {} /\ UNCHANGED status
    BY <1>4 DEF LookupHashes, rows
  <2>2. proc'[p].todo = {} /\ proc'[p].staged = proc[p].staged
    BY <1>0, <1>4 DEF LookupHashes, ProcType
  <2> QED
    BY <1>0, <2>1, <2>2, DoneAfterUpload DEF WhileOptimizing, StagedIsNew
<1>5. CASE Resolve(p)
  <2>1. PICK U \in SUBSET proc[p].staged, count \in BOOLEAN :
          /\ proc' = [proc EXCEPT ![p] = [proc[p] EXCEPT !.staged = proc[p].staged \ U, !.count = count]]
          /\ \A i \in Items : status'[i] = status[i] \/ (sess # "absent" /\ i \in U)
    BY <1>5, ResolveMoves
  <2>2. /\ proc'[p].todo = proc[p].todo /\ proc'[p].staged = proc[p].staged \ U
        /\ proc[p].todo = {}
    BY <1>0, <1>5, <2>1 DEF ProcType, Resolve, At, WhileOptimizing
  <2> QED
    BY <1>0, <2>1, <2>2, DoneAfterUpload DEF WhileOptimizing, StagedIsNew, InHand
<1> QED
  BY <1>1, <1>2, <1>3, <1>4, <1>5 DEF Upload

LEMMA DoneNext ==
  ASSUME MaxUploads <= 1, TypeOK, HandInv, DoneInv, [Next]_vars, [SweepsSpareUploads]_vars
  PROVE  DoneInv'
<1>1. ASSUME NEW p \in Procs, Handle(p), ~UNCHANGED vars PROVE DoneInv'
  <2>1. CASE Load(p) \/ LoadAgain(p) \/ Refuse(p)
    BY <2>1, DoneAccept, QuietLoad, QuietKeeps
  <2>2. CASE Upload(p) /\ ~finalize_prepared(p)
    BY <2>2, DoneUpload
  <2>3. Sweep(p) => \A q \in Procs : ~Uploading(q)
    BY <1>1 DEF SweepsSpareUploads
  <2> QED
    BY <1>1, <2>1, <2>2, <2>3, QuietHandle, QuietKeeps DEF Handle, Upload
<1>2. ASSUME NEW p \in Procs, RequestDies(p) PROVE DoneInv'
  <2>1. CASE UNCHANGED vars \/ ~Sweep(p)
    <3>1. Sweep(p) => UNCHANGED vars
      BY <2>1
    <3>2. CASE ~Sweep(p)
      BY <1>2, <3>2, QuietHandle, QuietKeeps
    <3>3. CASE Sweep(p)
      BY <1>2, <3>1, <3>3 DEF RequestDies, Fault, vars, TypeOK
    <3> QED
      BY <3>2, <3>3
  <2>2. CASE Sweep(p) /\ ~UNCHANGED vars
    BY <2>2, QuietHandle, QuietKeeps DEF SweepsSpareUploads
  <2> QED
    BY <2>1, <2>2
<1>3. ASSUME NEW p \in Procs, NEW k \in ReqKinds \cup {"reap"}, Begin(p, k) PROVE DoneInv'
  BY <1>3, QuietBegin, QuietKeeps
<1>4. ASSUME NEW t \in Tasks, Work(t) \/ Accident(t) \/ WorkerCrash PROVE DoneInv'
  BY <1>4, WorkerIsQuiet, QuietKeeps
<1>5. WorkerCrash => \E t \in Tasks : WorkerCrash
  BY DEF WorkerCrash
<1>6. CASE TimePasses \/ UNCHANGED vars
  <2>1. UNCHANGED <<sess, status, files, proc, task, uploads>>
    BY <1>6 DEF TimePasses, vars, rows, disk
  <2>2. Quiet
    BY <2>1 DEF Quiet, Uploading, Touched, ToSay, SaysDone, DoneInv
  <2> QED
    BY <2>2, QuietKeeps
<1> QED
  BY <1>1, <1>2, <1>3, <1>4, <1>5, <1>6 DEF Next, StartRequest, StartReap, Procs

LEMMA DoneInit == Init => DoneInv
<1> SUFFICES ASSUME Init PROVE DoneInv
  OBVIOUS
<1>1. /\ \A p \in Procs : proc[p].pc = "idle" /\ proc[p].todo = {}
      /\ \A t \in Tasks : task[t].st = "free" /\ task[t].entries = {}
      /\ uploads = 0 /\ sess = "uploading" /\ files = {} /\ \A i \in Items : status[i] = "pending"
  BY DEF Init, NoProc, FreeTask, NewTask
<1> QED
  BY <1>1, BoundsAssumption DEF DoneInv, OneUpload, BeforeUpload, WhileOptimizing, StagedIsNew,
     Uploading, Touched, ToSay, SaysDone

(* A session is reported done only when none of its images is held and none is in
   the hands of an upload, if no sweep acts in the middle of an upload: whoever
   writes "done" has derived it from the images, and that is final.              *)
THEOREM DoneHoldsNothing ==
  ASSUME MaxUploads <= 1
  PROVE  CalmSpec => []HeldNotDone
<1> DEFINE Inv == TypeOK /\ HandInv /\ DoneInv
<1>1. Init => Inv
  BY TypeInit, DispatchInit, DoneInit DEF DispatchInv
<1>2. Inv /\ [Next]_vars /\ [SweepsSpareUploads]_vars => Inv'
  BY TypeNext, DispatchNext, DoneNext DEF Kept
<1>3. Inv => HeldNotDone
  BY DEF DoneInv, SaysDone, Settled, HeldNotDone
<1> QED
  BY <1>1, <1>2, <1>3, PTL DEF CalmSpec, Spec

-----------------------------------------------------------------------------
(* Only the report of a chunk that has inserted the receipt says needs_review. *)
LEMMA ReviewByHandler ==
  ASSUME TypeOK, ReviewInv, NEW p \in Procs, Handle(p) \/ RequestDies(p)
  PROVE  ReviewInv'
<1>1. UNCHANGED receipts
  BY DEF Handle, Load, Refuse, Reconcile, LoadAgain, Upload, OptimizeStart, OptimizeOk,
         OptimizeFails, LookupHashes, Resolve, finalize_prepared, SendOff, mark_queued,
         ResetForRetry, MarkProcessing, Enqueue, Sweep, SweepEnds, DropSession, RemoveDir,
         RequestDies
<1>2. \A i \in Items : status'[i] = "needs_review" => status[i] = "needs_review"
  <2>1. CASE Upload(p)
    BY <2>1 DEF Upload, OptimizeStart, OptimizeOk, OptimizeFails, LookupHashes, Resolve,
                finalize_prepared, update_item, WriteItems, rows
  <2>2. CASE ~Upload(p)
    BY <2>2 DEF Handle, Load, Refuse, Reconcile, LoadAgain, SendOff, mark_queued,
         ResetForRetry, MarkProcessing, Enqueue, Sweep, SweepEnds, DropSession, RemoveDir,
         RequestDies, update_item, WriteItems, rows
  <2> QED
    BY <2>1, <2>2
<1>3. \A t \in Tasks, i \in Items : task'[t].phase[i] = "saved" => task[t].phase[i] = "saved"
  <2>1. CASE Enqueue(p)
    <3>1. PICK t \in FreeTasks : task' = [task EXCEPT ![t] = NewTask(proc[p].kind, proc[p].todo)]
      BY <2>1 DEF Enqueue
    <3> QED
      BY <3>1 DEF NewTask, TypeOK, FreeTasks
  <2>2. CASE ~Enqueue(p)
    BY <2>2 DEF Handle, Load, Refuse, Reconcile, LoadAgain, Upload, OptimizeStart, OptimizeOk,
         OptimizeFails, LookupHashes, Resolve, finalize_prepared, SendOff, mark_queued,
         ResetForRetry, MarkProcessing, Sweep, SweepEnds, DropSession, RemoveDir, RequestDies
  <2> QED
    BY <2>1, <2>2
<1> QED
  BY <1>1, <1>2, <1>3 DEF ReviewInv

LEMMA ReviewByWorker ==
  ASSUME TypeOK, ReviewInv, NEW t \in Tasks, Work(t) \/ Accident(t) \/ WorkerCrash
  PROVE  ReviewInv'
<1>0. task[t] \in TaskType /\ task \in [Tasks -> TaskType]
  BY DEF TypeOK
<1>1. CASE TaskStart(t) \/ TaskLoad(t) \/ TaskSettle(t) \/ TaskRaises(t)
  <2>1. UNCHANGED <<status, receipts>>
    BY <1>1 DEF TaskStart, TaskLoad, TaskSettle, TaskRaises, rows
  <2>2. \A u \in Tasks : task'[u].phase = task[u].phase
    <3>1. CASE TaskStart(t) \/ TaskSettle(t) \/ TaskRaises(t)
      BY <1>0, <3>1 DEF TaskStart, TaskSettle, TaskRaises, TaskType
    <3>2. CASE TaskLoad(t)
      BY <1>0, <3>2 DEF TaskLoad, TaskType
    <3> QED
      BY <1>1, <3>1, <3>2
  <2> QED
    BY <2>1, <2>2 DEF ReviewInv
<1>2. CASE WorkerCrash \/ Redeliver(t)
  <2>1. UNCHANGED <<status, receipts>>
    BY <1>2 DEF WorkerCrash, Redeliver, rows
  <2>2. \A u \in Tasks, i \in Items : task'[u].phase[i] = "saved" => task[u].phase[i] = "saved"
    <3>1. CASE WorkerCrash
      BY <3>1 DEF WorkerCrash, NewTask
    <3>2. CASE Redeliver(t)
      <4>1. PICK u \in FreeTasks : task' = [task EXCEPT ![u] = NewTask(task[t].kind, task[t].entries)]
        BY <3>2 DEF Redeliver
      <4> QED
        BY <1>0, <4>1 DEF NewTask, FreeTasks
    <3> QED
      BY <1>2, <3>1, <3>2
  <2> QED
    BY <2>1, <2>2 DEF ReviewInv
<1>3. ASSUME NEW i \in Items, NEW ph \in Phases, Phase(t, i, ph)
      PROVE  \A u \in Tasks, j \in Items : task'[u].phase[j] = IF u = t /\ j = i THEN ph ELSE task[u].phase[j]
  BY <1>0, <1>3 DEF Phase, TaskType
<1>4. ASSUME NEW i \in Items, SaveReceipt(t, i) PROVE ReviewInv'
  <2>1. /\ receipts' = receipts \cup {i} /\ UNCHANGED status
        /\ \E ph \in Phases : Phase(t, i, ph)
    BY <1>4 DEF SaveReceipt, rows, Phases
  <2> QED
    BY <1>3, <2>1 DEF ReviewInv
<1>5. ASSUME NEW i \in Items, ReportSaved(t, i) PROVE ReviewInv'
  <2>1. /\ UNCHANGED receipts /\ Phase(t, i, "over")
        /\ task[t].phase[i] # "dup" => i \in receipts
        /\ update_item(i, IF task[t].phase[i] = "dup" THEN "duplicate" ELSE "needs_review", "none")
    BY <1>5 DEF ReportSaved, Doing, ReviewInv
  <2>2. \A u \in Tasks, j \in Items : task'[u].phase[j] = "saved" => j \in receipts
    BY <1>3, <2>1 DEF ReviewInv, Phases
  <2>3. \A j \in Items : status'[j] = "needs_review" => j \in receipts
    BY <2>1 DEF update_item, WriteItems, ReviewInv
  <2> QED
    BY <2>1, <2>2, <2>3 DEF ReviewInv
<1>6. ASSUME NEW i \in Items,
             SendToAI(t, i) \/ ExtractOk(t, i) \/ ExtractFails(t, i) \/ SaveFails(t, i) \/ ChunkDies(t, i)
      PROVE  ReviewInv'
  <2>1. UNCHANGED receipts /\ \E ph \in Phases \ {"saved"} : Phase(t, i, ph)
    BY <1>6 DEF SendToAI, ExtractOk, ExtractFails, SaveFails, ChunkDies, Phases
  <2>2. \A j \in Items : status'[j] = "needs_review" => status[j] = "needs_review"
    BY <1>6 DEF SendToAI, ExtractOk, ExtractFails, SaveFails, ChunkDies, update_item, WriteItems,
                WhileSaving, rows
  <2> QED
    BY <1>3, <2>1, <2>2 DEF ReviewInv
<1> QED
  BY <1>1, <1>2, <1>4, <1>5, <1>6 DEF Work, Extract, Accident

(* An item shown for review has its receipt, whatever is swept, retried, deleted,
   delivered twice or lost on the way: nothing is assumed of the constants.     *)
THEOREM ShownForReviewIsSaved == Spec => []ReviewHasReceipt
<1>1. Init => TypeOK /\ ReviewInv
  BY TypeInit DEF Init, ReviewInv, FreeTask, NewTask
<1>2. TypeOK /\ ReviewInv /\ [Next]_vars => (TypeOK /\ ReviewInv)'
  <2> SUFFICES ASSUME TypeOK, ReviewInv, [Next]_vars PROVE ReviewInv'
    BY TypeNext
  <2>1. ASSUME NEW p \in Procs, NEW k, Begin(p, k) PROVE ReviewInv'
    BY <2>1 DEF Begin, ReviewInv, rows
  <2>2. CASE TimePasses \/ UNCHANGED vars
    BY <2>2 DEF TimePasses, vars, rows, ReviewInv
  <2>3. WorkerCrash => \E t \in Tasks : WorkerCrash
    BY DEF WorkerCrash
  <2> QED
    BY <2>1, <2>2, <2>3, ReviewByHandler, ReviewByWorker DEF Next, StartRequest, StartReap, Procs
<1>3. ReviewInv => ReviewHasReceipt
  BY DEF ReviewInv, ReviewHasReceipt
<1> QED
  BY <1>1, <1>2, <1>3, PTL DEF Spec
=============================================================================
