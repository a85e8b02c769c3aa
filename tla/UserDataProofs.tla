--------------------------- MODULE UserDataProofs ---------------------------
(***************************************************************************)
(* Why no purge and no sweep takes what an account there is has saved, and  *)
(* what an op that says `completed` has done, for any accounts, requests,   *)
(* scenarios and faults.                                                    *)
(***************************************************************************)
EXTENDS UserData, TLAPS

RequestPcs == {"new", "update", "capture", "delete", "done"}
TaskPcs    == {"off", "read", "readStaged", "purge", "files", "captured", "backups", "temp", "finish"}
LoopPcs    == {"list", "read", "readStaged", "purge", "files", "backups", "refs", "attached", "staging", "images",
               "temp", "staged", "unlink", "unstage", "watch"}

ReqType  == [pc : RequestPcs, kind : {"none", "delete", "promote", "demote", "rename"}, by : Users, who : Users,
             ids : SUBSET Kinds]
TaskType == [pc : TaskPcs, names : SUBSET Kinds, ids : SUBSET Kinds, error : BOOLEAN]
LoopType == [pc : LoopPcs, names : SUBSET Kinds, refs : SUBSET Kinds, first : BOOLEAN]

Types ==
  /\ users \in SUBSET Users /\ admins \subseteq users /\ gone \subseteq Users /\ root \subseteq users
  /\ users \cap gone = {} /\ Owner \in users \cup gone
  /\ req \in [Requests -> ReqType] /\ task \in [Requests -> TaskType]
  /\ op \in [Requests -> {"none", "running", "completed", "failed"}]
  /\ loop \in LoopType /\ scenario \in Scenario
  /\ promoted \in {"no", "asked", "yes"} /\ fate \in SUBSET {"crossed", "listed"}
  /\ faults \in 0 .. MaxFaults

(* Deletions: a purge is of an account that is gone, and is done once the row of
   the account has been deleted.                                                 *)
Purged == {"files", "captured", "backups", "temp", "finish"}

Deletion(r) ==
  /\ req[r].pc # "done" => task[r].pc = "off" /\ op[r] # "completed"
  /\ req[r].ids # {} => req[r].who = Owner
  /\ task[r].pc # "off" => req[r].who \in gone
  /\ task[r].names \cup task[r].ids # {} => Owner \in gone
  /\ op[r] = "completed" => req[r].who \in gone
  /\ /\ req[r].who = Owner /\ ~task[r].error
     /\ op[r] = "completed" \/ task[r].pc \in Purged
     => rows \subseteq belated

(* The loop only purges an account that is gone.  Of an account there is, an image
   whose row came after the sweep has read its table is still too young to be swept,
   but for one attached between two reads; and what the sweep of staged images has
   listed is still there.                                                          *)
Purging   == {"read", "readStaged", "purge", "files"}
Expiring  == {"unlink", "unstage"}
Unseen(k) == k \notin loop.refs /\ k \in old /\ ~(k = "staged" /\ "crossed" \in fate)

LoopSound ==
  /\ loop.pc \in Purging \/ (loop.names # {} /\ loop.pc \notin Expiring) => Owner \in gone
  /\ Owner \in users =>
       /\ loop.pc \in Expiring => loop.names \subseteq {"staged"} \cap rows /\ (loop.names # {} => "listed" \in fate)
       /\ loop.pc = "staging" => \A k \in Attached : ~Unseen(k)
       /\ loop.pc = "images" => \A k \in rows \cap Images : ~Unseen(k)

(* What a save has written is too young to be swept, and has no row yet. *)
FilesSound ==
  /\ rows \cup files \cup writing \cup belated \subseteq Kinds /\ old \subseteq files
  /\ writing \cap old = {} /\ "session" \notin writing /\ writing \cap rows = {}
  /\ Owner \in users => writing \subseteq files

(* The exceptions of LiveKept. *)
Excused(k) == \/ k = "session" /\ (~live \/ faults > 0)
              \/ k = "staged" /\ ("listed" \in fate \/ ("crossed" \in fate /\ OrphanDelete))

Inv == Types /\ (\A r \in Requests : Deletion(r)) /\ LoopSound /\ FilesSound /\ LiveKept

-----------------------------------------------------------------------------

LEMMA InvImplies == Inv => TypeOK /\ LiveKept /\ CompletedIsGone
<1> SUFFICES ASSUME Inv PROVE TypeOK /\ LiveKept /\ CompletedIsGone
  OBVIOUS
<1>1. TypeOK
  <2>1. /\ loop.pc \in LoopPcs /\ promoted \in {"no", "asked", "yes"} /\ fate \subseteq {"crossed", "listed"}
        /\ faults \in 0 .. MaxFaults
    BY DEF Inv, Types, LoopType
  <2>2. ASSUME NEW r \in Requests
        PROVE  /\ req[r].pc \in RequestPcs /\ req[r].ids \subseteq Kinds
               /\ task[r].pc \in TaskPcs /\ task[r].names \cup task[r].ids \subseteq Kinds
               /\ op[r] \in {"none", "running", "completed", "failed"}
    BY DEF Inv, Types, ReqType, TaskType
  <2> QED
    BY <2>1, <2>2 DEF Inv, Types, FilesSound, TypeOK, RequestPcs, TaskPcs, LoopPcs
<1>2. CompletedIsGone
  BY DEF Inv, Deletion, CompletedIsGone
<1> QED
  BY <1>1, <1>2 DEF Inv

LEMMA NoReqType == NoReq \in ReqType /\ NoReq.pc = "new" /\ NoReq.ids = {}
  BY AccountsAssumption DEF NoReq, ReqType, RequestPcs

LEMMA NoTaskType == NoTask \in TaskType /\ NoTask.pc = "off" /\ NoTask.names = {} /\ NoTask.ids = {} /\ ~NoTask.error
  BY DEF NoTask, TaskType, TaskPcs

LEMMA LoopIs ==
  ASSUME NEW pc \in LoopPcs, NEW first \in BOOLEAN
  PROVE  /\ Loop(pc, first) \in LoopType /\ Loop(pc, first).pc = pc
         /\ Loop(pc, first).names = {} /\ Loop(pc, first).refs = {}
  BY DEF Loop, LoopType

LEMMA InitInv == Init => Inv
<1> SUFFICES ASSUME Init PROVE Inv
  OBVIOUS
<1>1. Types
  <2>1. loop \in LoopType
    BY LoopIs DEF Init, LoopPcs
  <2>2. req \in [Requests -> ReqType] /\ task \in [Requests -> TaskType]
        /\ op \in [Requests -> {"none", "running", "completed", "failed"}]
    BY NoReqType, NoTaskType DEF Init
  <2>3. scenario \in Scenario /\ faults \in 0 .. MaxFaults /\ promoted = "no" /\ fate = {}
    BY ScenarioAssumption, SweepAssumption DEF Init
  <2>4. /\ users \in SUBSET Users /\ admins \subseteq users /\ gone \subseteq Users /\ root \subseteq users
        /\ users \cap gone = {} /\ Owner \in users \cup gone
    BY AccountsAssumption DEF Init
  <2> QED
    BY <2>1, <2>2, <2>3, <2>4 DEF Types
<1>2. \A r \in Requests : Deletion(r)
  BY NoReqType, NoTaskType DEF Init, Deletion, Purged
<1>3. LoopSound /\ FilesSound
  <2>1. loop.pc = "list" /\ loop.names = {}
    BY LoopIs DEF Init, LoopPcs
  <2> QED
    BY <2>1 DEF Init, LoopSound, FilesSound, Kinds, Purging, Expiring
<1>4. LiveKept
  BY DEF Init, LiveKept
<1> QED
  BY <1>1, <1>2, <1>3, <1>4 DEF Inv

-----------------------------------------------------------------------------
(* The requests of the administrators. *)

(* A deletion that has not moved is as sound as before if what rows come to an
   account that is gone are counted as belated.                                *)
LEMMA DeletionStays ==
  ASSUME NEW r \in Requests, Deletion(r), req'[r] = req[r], task'[r] = task[r], op'[r] = op[r],
         gone \subseteq gone', Owner \in gone /\ rows \subseteq belated => rows' \subseteq belated'
  PROVE  Deletion(r)'
<1>1. Purged \subseteq {pc \in TaskPcs : pc # "off"}
  BY DEF Purged, TaskPcs
<1> QED
  BY <1>1 DEF Deletion

LEMMA CreateKeeps ==
  ASSUME Inv, NEW by \in Users, NEW u \in Users, NEW admin \in BOOLEAN, CreateUser(by, u, admin)
  PROVE  Inv'
<1>1. /\ users' = users \cup {u} /\ u \notin gone /\ admins' \subseteq users'
      /\ UNCHANGED <<gone, root, req, op, late, task, loop, rows, files, old, others, faults>>
      /\ u # Owner
  BY DEF CreateUser, Inv, Types, data
<1>2. Types'
  BY <1>1 DEF Inv, Types, others
<1>3. \A r \in Requests : Deletion(r)'
  BY <1>1, DeletionStays DEF Inv, others
<1>4. LoopSound' /\ FilesSound' /\ LiveKept'
  BY <1>1 DEF Inv, LoopSound, Unseen, Attached, Staging, others, FilesSound, LiveKept
<1> QED
  BY <1>2, <1>3, <1>4 DEF Inv

(* The record of a request. *)
LEMMA ReqDone ==
  ASSUME NEW x \in ReqType, NEW y, y = [x EXCEPT !.pc = "done"]
  PROVE  y \in ReqType /\ y.pc = "done" /\ y.who = x.who /\ y.ids = x.ids
  BY DEF ReqType, RequestPcs

WithIds(x, pc, S) == [x EXCEPT !.pc = pc, !.ids = S]

LEMMA ReqIds ==
  ASSUME NEW x \in ReqType, NEW pc \in RequestPcs, NEW S \in SUBSET Kinds, NEW y, y = WithIds(x, pc, S)
  PROVE  y \in ReqType /\ y.pc = pc /\ y.who = x.who /\ y.ids = S
  BY DEF ReqType, WithIds

(* A request moves on without a purge. *)
LEMMA RequestKeeps ==
  ASSUME Inv, NEW r \in Requests, NEW x \in ReqType, req' = [req EXCEPT ![r] = x],
         UNCHANGED <<users, gone, task, loop, data, faults>>,
         admins' \subseteq users, root' \subseteq users,
         NEW s \in {"none", "running", "completed", "failed"}, op' = [op EXCEPT ![r] = s],
         req[r].pc # "done", s # "completed",
         x.ids # {} => x.who = Owner
  PROVE  Inv'
<1>1. /\ req' \in [Requests -> ReqType] /\ req'[r] = x /\ \A o \in Requests : o # r => req'[o] = req[o]
      /\ op' \in [Requests -> {"none", "running", "completed", "failed"}]
      /\ op'[r] = s /\ \A o \in Requests : o # r => op'[o] = op[o]
      /\ UNCHANGED <<rows, files, old, others>>
  BY DEF Inv, Types, data
<1>2. Types'
  BY <1>1 DEF Inv, Types, others
<1>3. Deletion(r)'
  BY <1>1 DEF Inv, Deletion, Purged, others
<1>4. ASSUME NEW o \in Requests, o # r PROVE Deletion(o)'
  BY <1>1, <1>4, DeletionStays DEF Inv, others
<1>5. LoopSound' /\ FilesSound' /\ LiveKept'
  BY <1>1 DEF Inv, LoopSound, Unseen, Attached, Staging, others, FilesSound, LiveKept
<1> QED
  BY <1>2, <1>3, <1>4, <1>5 DEF Inv

LEMMA AskUpdateKeeps ==
  ASSUME Inv, NEW r \in Requests, NEW by \in Users, NEW who \in Users, NEW kind \in scenario.asked,
         AskUpdate(r, by, who, kind)
  PROVE  Inv'
<1>1. PICK x : x = [pc |-> "update", kind |-> kind, by |-> by, who |-> who, ids |-> {}]
  OBVIOUS
<1>2. kind \in {"none", "delete", "promote", "demote", "rename"}
  BY DEF AskUpdate, Inv, Types, Scenario
<1>3. x \in ReqType /\ x.ids = {}
  BY <1>1, <1>2 DEF ReqType, RequestPcs
<1>4. /\ req' = [req EXCEPT ![r] = x] /\ req[r].pc = "new" /\ UNCHANGED <<accounts, op, task, loop, data, faults>>
  BY <1>1 DEF AskUpdate
<1>5. /\ UNCHANGED <<users, gone, task, loop, data, faults>> /\ admins' \subseteq users /\ root' \subseteq users
      /\ op[r] \in {"none", "running", "completed", "failed"} /\ op' = [op EXCEPT ![r] = op[r]]
      /\ op[r] # "completed"
  BY <1>4 DEF Inv, Types, Deletion, accounts
<1> QED
  BY <1>3, <1>4, <1>5, RequestKeeps

LEMMA DoUpdateKeeps == ASSUME Inv, NEW r \in Requests, DoUpdate(r) PROVE Inv'
<1>1. PICK x : x = [req[r] EXCEPT !.pc = "done"]
  OBVIOUS
<1>2. x \in ReqType /\ x.ids = req[r].ids /\ x.who = req[r].who
  BY <1>1, ReqDone DEF Inv, Types
<1>3. req' = [req EXCEPT ![r] = x] /\ req[r].pc = "update" /\ UNCHANGED <<users, gone, op, task, loop, data, faults>>
  BY <1>1 DEF DoUpdate
<1>4. /\ admins' \subseteq users /\ root' \subseteq users
      /\ op[r] \in {"none", "running", "completed", "failed"} /\ op' = [op EXCEPT ![r] = op[r]]
      /\ op[r] # "completed" /\ (req[r].ids # {} => req[r].who = Owner)
  BY <1>3 DEF Inv, Types, Deletion, DoUpdate
<1> QED
  BY <1>2, <1>3, <1>4, RequestKeeps

LEMMA AskDeleteKeeps ==
  ASSUME Inv, NEW r \in Requests, NEW by \in Users, NEW who \in Users, AskDelete(r, by, who)
  PROVE  Inv'
<1>1. PICK x : x = [pc |-> "capture", kind |-> "delete", by |-> by, who |-> who, ids |-> {}]
  OBVIOUS
<1>2. x \in ReqType /\ x.ids = {}
  BY <1>1 DEF ReqType, RequestPcs
<1>3. /\ req' = [req EXCEPT ![r] = x] /\ req[r].pc = "new" /\ UNCHANGED <<accounts, task, loop, data, faults>>
      /\ op' = [op EXCEPT ![r] = "running"]
  BY <1>1 DEF AskDelete
<1>4. UNCHANGED <<users, gone, task, loop, data, faults>> /\ admins' \subseteq users /\ root' \subseteq users
  BY <1>3 DEF Inv, Types, accounts
<1> QED
  BY <1>2, <1>3, <1>4, RequestKeeps

LEMMA CaptureKeeps == ASSUME Inv, NEW r \in Requests, CaptureBackups(r) PROVE Inv'
<1>1. PICK S : S = Owned(r, rows \cap {"backup"})
  OBVIOUS
<1>6. PICK x : x = WithIds(req[r], "delete", S)
  OBVIOUS
<1>7. req[r] \in ReqType
  BY DEF Inv, Types
<1>2. S \in SUBSET Kinds /\ (S # {} => req[r].who = Owner)
  BY <1>1 DEF Owned, Inv, FilesSound
<1>3. x \in ReqType /\ x.ids = S /\ x.who = req[r].who
  BY <1>2, <1>6, <1>7, ReqIds DEF RequestPcs
<1>4. req' = [req EXCEPT ![r] = x] /\ req[r].pc = "capture" /\ UNCHANGED <<accounts, op, task, loop, data, faults>>
  BY <1>1, <1>6 DEF CaptureBackups, WithIds
<1>5. /\ UNCHANGED <<users, gone, task, loop, data, faults>> /\ admins' \subseteq users /\ root' \subseteq users
      /\ op[r] \in {"none", "running", "completed", "failed"} /\ op' = [op EXCEPT ![r] = op[r]]
      /\ op[r] # "completed"
  BY <1>4 DEF Inv, Types, Deletion, accounts
<1> QED
  BY <1>2, <1>3, <1>4, <1>5, RequestKeeps

LEMMA DeleteKeeps == ASSUME Inv, NEW r \in Requests, DeleteUser(r) PROVE Inv'
<1>1. PICK who, x : who = req[r].who /\ x = WithIds(req[r], "done", {})
  OBVIOUS
<1>2. req[r] \in ReqType /\ task[r] \in TaskType
  BY DEF Inv, Types
<1>3. who \in Users
  BY <1>1, <1>2 DEF ReqType
<1>4. x \in ReqType /\ x.pc = "done" /\ x.who = who /\ x.ids = {}
  BY <1>1, <1>2, ReqIds DEF RequestPcs
<1>5. PICK t : t = IF who \in users THEN [NoTask EXCEPT !.pc = "read", !.ids = req[r].ids] ELSE task[r]
  OBVIOUS
<1>6. /\ t \in TaskType /\ t.names \cup t.ids \subseteq task[r].names \cup task[r].ids \cup req[r].ids
      /\ t.pc \notin Purged /\ t.pc \in {"read", "off"}
  <2>1. task[r].pc = "off"
    BY DEF DeleteUser, Inv, Deletion
  <2>2. req[r].ids \in SUBSET Kinds
    BY <1>2 DEF ReqType
  <2> QED
    BY <1>2, <1>5, <2>1, <2>2, NoTaskType DEF TaskType, TaskPcs, Purged
<1>7. /\ req' = [req EXCEPT ![r] = x] /\ task' = [task EXCEPT ![r] = t] /\ req[r].pc = "delete"
      /\ users' = users \ {who} /\ admins' = admins \ {who} /\ gone' = gone \cup {who}
      /\ root' = root \ {who} /\ rows' \subseteq rows /\ rows \ {"backup"} \subseteq rows'
      /\ UNCHANGED <<op, loop, files, old, others, faults>>
  BY <1>1, <1>5 DEF DeleteUser, WithIds, Inv, Types, Owned
<1>8. /\ req' \in [Requests -> ReqType] /\ req'[r] = x /\ \A o \in Requests : o # r => req'[o] = req[o]
      /\ task' \in [Requests -> TaskType] /\ task'[r] = t /\ \A o \in Requests : o # r => task'[o] = task[o]
  BY <1>4, <1>6, <1>7 DEF Inv, Types
<1>9. Types'
  BY <1>3, <1>7, <1>8 DEF Inv, Types, others
<1>10. Deletion(r)'
  <2>1. op[r] # "completed" /\ (req[r].ids # {} => who = Owner)
        /\ (task[r].names \cup task[r].ids # {} => Owner \in gone)
    BY <1>1, <1>7 DEF Inv, Deletion
  <2> QED
    BY <1>4, <1>6, <1>7, <1>8, <2>1 DEF Deletion, Purged
<1>11. ASSUME NEW o \in Requests, o # r PROVE Deletion(o)'
  BY <1>7, <1>8, <1>11, DeletionStays DEF Inv, others
<1>12. LoopSound'
  <2>1. Attached' \subseteq Attached
    BY <1>7 DEF Attached, Staging, others
  <2>2. loop.names \subseteq {"staged"} \cap rows => loop.names \subseteq {"staged"} \cap rows'
    BY <1>7
  <2> QED
    BY <1>7, <2>1, <2>2 DEF Inv, LoopSound, Unseen, others
<1>13. FilesSound' /\ LiveKept'
  BY <1>7 DEF Inv, FilesSound, LiveKept, others
<1> QED
  BY <1>9, <1>10, <1>11, <1>12, <1>13 DEF Inv

-----------------------------------------------------------------------------
(* The task of a deletion. *)

(* A purge removes files: of an account there is, nothing that is being saved, and
   of what has a row only what LiveKept excepts.                                  *)
Harmless(S) == Owner \in users => S \cap writing = {} /\ \A k \in S \cap rows' : Excused(k)'

LEMMA FilesKeep ==
  ASSUME Inv, NEW S, Remove(S), Harmless(S), rows' \subseteq rows, belated' \in SUBSET Kinds,
         UNCHANGED <<users, writing, live>>, fate \subseteq fate', faults' \in Nat, faults' >= faults
  PROVE  FilesSound' /\ LiveKept'
<1>1. faults \in Nat
  BY SweepAssumption DEF Inv, Types
<1>2. FilesSound'
  BY DEF Inv, FilesSound, Remove, Harmless
<1>3. \A k : Excused(k) => Excused(k)'
  BY <1>1 DEF Excused
<1>4. LiveKept'
  BY <1>3 DEF Inv, LiveKept, Remove, Harmless, Excused
<1> QED
  BY <1>2, <1>4

LEMMA TaskKeeps ==
  ASSUME Inv, NEW r \in Requests, NEW t \in TaskType, task' = [task EXCEPT ![r] = t],
         UNCHANGED <<accounts, req, loop, live, writing, fate, scenario>>,
         promoted' \in {"no", "asked", "yes"}, belated' \in SUBSET Kinds,
         Owner \in users => UNCHANGED <<rows, promoted>>,
         rows' \subseteq rows, rows \subseteq belated => rows' \subseteq belated',
         NEW s \in {"none", "running", "completed", "failed"}, op' = [op EXCEPT ![r] = s],
         faults' \in 0 .. MaxFaults, faults' >= faults,
         task[r].pc # "off", NEW S, Remove(S), Harmless(S),
         t.names \cup t.ids # {} => Owner \in gone,
         req[r].who = Owner /\ ~t.error /\ (s = "completed" \/ t.pc \in Purged) => rows' \subseteq belated'
  PROVE  Inv'
<1>1. /\ task' \in [Requests -> TaskType] /\ task'[r] = t /\ \A o \in Requests : o # r => task'[o] = task[o]
      /\ op' \in [Requests -> {"none", "running", "completed", "failed"}]
      /\ op'[r] = s /\ \A o \in Requests : o # r => op'[o] = op[o]
      /\ UNCHANGED <<users, admins, gone, root>>
  BY DEF Inv, Types, accounts
<1>2. Types'
  BY <1>1 DEF Inv, Types
<1>3. Deletion(r)'
  BY <1>1 DEF Inv, Deletion
<1>4. ASSUME NEW o \in Requests, o # r PROVE Deletion(o)'
  BY <1>1, <1>4, DeletionStays DEF Inv
<1>5. LoopSound'
  <2>1. old' \subseteq old
    BY DEF Remove
  <2>2. Owner \in users => Attached' = Attached
    BY DEF Attached, Staging
  <2> QED
    BY <1>1, <2>1, <2>2 DEF Inv, LoopSound, Unseen
<1>6. FilesSound' /\ LiveKept'
  BY <1>1, SweepAssumption, FilesKeep
<1> QED
  BY <1>2, <1>3, <1>4, <1>5, <1>6 DEF Inv

LEMMA TaskPc ==
  ASSUME NEW x \in TaskType, NEW pc \in TaskPcs, NEW y, y = [x EXCEPT !.pc = pc]
  PROVE  y \in TaskType /\ y.pc = pc /\ y.names = x.names /\ y.ids = x.ids /\ y.error = x.error
  BY DEF TaskType

LEMMA TaskNames ==
  ASSUME NEW x \in TaskType, NEW S \in SUBSET Kinds, NEW y, y = [x EXCEPT !.names = S]
  PROVE  y \in TaskType /\ y.pc = x.pc /\ y.names = S /\ y.ids = x.ids /\ y.error = x.error
  BY DEF TaskType

LEMMA TaskIds ==
  ASSUME NEW x \in TaskType, NEW S \in SUBSET Kinds, NEW y, y = [x EXCEPT !.ids = S]
  PROVE  y \in TaskType /\ y.pc = x.pc /\ y.names = x.names /\ y.ids = S /\ y.error = x.error
  BY DEF TaskType

(* Everything of a task whose next step keeps the op and the faults. *)
LEMMA TaskFacts ==
  ASSUME Inv, NEW r \in Requests
  PROVE  /\ task[r] \in TaskType /\ Deletion(r) /\ faults \in 0 .. MaxFaults /\ faults \in Nat
         /\ op[r] \in {"none", "running", "completed", "failed"} /\ op = [op EXCEPT ![r] = op[r]]
         /\ task[r].names \in SUBSET Kinds /\ task[r].ids \in SUBSET Kinds
  BY SweepAssumption DEF Inv, Types, TaskType

(* What most steps keep. *)
LEMMA OthersStay ==
  ASSUME Inv, UNCHANGED others
  PROVE  /\ UNCHANGED <<live, writing, fate, scenario>> /\ UNCHANGED <<promoted, belated>>
         /\ promoted' \in {"no", "asked", "yes"} /\ belated' \in SUBSET Kinds
         /\ fate' \in SUBSET {"crossed", "listed"}
  BY DEF others, Inv, Types, FilesSound

(* A step that keeps the op, the faults and the rows. *)
LEMMA TaskMoves ==
  ASSUME Inv, NEW r \in Requests, NEW t \in TaskType, task' = [task EXCEPT ![r] = t],
         UNCHANGED <<accounts, req, op, loop, rows, others, faults>>,
         task[r].pc # "off", NEW S, Remove(S), Harmless(S), t.error = task[r].error,
         t.names \cup t.ids # {} => Owner \in gone,
         t.pc \in Purged => task[r].pc \in Purged
  PROVE  Inv'
<1>1. /\ op[r] \in {"none", "running", "completed", "failed"} /\ op' = [op EXCEPT ![r] = op[r]]
      /\ faults' \in 0 .. MaxFaults /\ faults' >= faults
  BY TaskFacts
<1>2. /\ UNCHANGED <<accounts, req, loop, live, writing, fate, scenario, rows, promoted, belated>>
      /\ promoted' \in {"no", "asked", "yes"} /\ belated' \in SUBSET Kinds
  BY OthersStay
<1>3. req[r].who = Owner /\ ~t.error /\ (op[r] = "completed" \/ t.pc \in Purged) => rows' \subseteq belated'
  BY <1>2, TaskFacts DEF Deletion
<1> QED
  BY <1>1, <1>2, <1>3, TaskKeeps

LEMMA PurgeReadKeeps == ASSUME Inv, NEW r \in Requests, PurgeRead(r) PROVE Inv'
<1>1. task[r] \in TaskType /\ Deletion(r) /\ task[r].pc = "read"
  BY TaskFacts DEF PurgeRead
<1>2. PICK S : S = Owned(r, rows \ Staging)
  OBVIOUS
<1>3. PICK x : x = [task[r] EXCEPT !.names = S]
  OBVIOUS
<1>4. PICK t : t = [x EXCEPT !.pc = "readStaged"]
  OBVIOUS
<1>5. S \in SUBSET Kinds /\ (S # {} => Owner \in gone)
  BY <1>1, <1>2 DEF Owned, Deletion, Inv, FilesSound
<1>6. x \in TaskType /\ x.names = S /\ x.ids = task[r].ids /\ x.error = task[r].error
  BY <1>1, <1>3, <1>5, TaskNames
<1>7. t \in TaskType /\ t.pc = "readStaged" /\ t.names = S /\ t.ids = task[r].ids /\ t.error = task[r].error
  BY <1>4, <1>6, TaskPc DEF TaskPcs
<1>8. task' = [task EXCEPT ![r] = t] /\ UNCHANGED <<accounts, req, op, loop, data, faults>>
  BY <1>2, <1>3, <1>4 DEF PurgeRead, ToTask
<1>9. /\ UNCHANGED <<accounts, req, op, loop, rows, others, faults>>
      /\ Remove({}) /\ Harmless({})
  BY <1>8 DEF data, Remove, Harmless
<1>10. (t.names \cup t.ids # {} => Owner \in gone) /\ t.pc \notin Purged /\ task[r].pc # "off"
  BY <1>1, <1>5, <1>7 DEF Deletion, Purged
<1> QED
  BY <1>7, <1>8, <1>9, <1>10, TaskMoves

LEMMA PurgeReadStagedKeeps == ASSUME Inv, NEW r \in Requests, PurgeReadStaged(r) PROVE Inv'
<1>1. task[r] \in TaskType /\ Deletion(r) /\ task[r].pc = "readStaged"
  BY TaskFacts DEF PurgeReadStaged
<1>2. PICK S : S = task[r].names \cup Owned(r, Staging)
  OBVIOUS
<1>3. PICK x : x = [task[r] EXCEPT !.names = S]
  OBVIOUS
<1>4. PICK t : t = [x EXCEPT !.pc = "purge"]
  OBVIOUS
<1>5. S \in SUBSET Kinds /\ (S # {} => Owner \in gone)
  BY <1>1, <1>2 DEF Owned, Staging, Deletion, Inv, FilesSound, TaskType
<1>6. x \in TaskType /\ x.names = S /\ x.ids = task[r].ids /\ x.error = task[r].error
  BY <1>1, <1>3, <1>5, TaskNames
<1>7. t \in TaskType /\ t.pc = "purge" /\ t.names = S /\ t.ids = task[r].ids /\ t.error = task[r].error
  BY <1>4, <1>6, TaskPc DEF TaskPcs
<1>8. task' = [task EXCEPT ![r] = t] /\ UNCHANGED <<accounts, req, op, loop, data, faults>>
  BY <1>2, <1>3, <1>4 DEF PurgeReadStaged, ToTask
<1>9. /\ UNCHANGED <<accounts, req, op, loop, rows, others, faults>>
      /\ Remove({}) /\ Harmless({})
  BY <1>8 DEF data, Remove, Harmless
<1>10. (t.names \cup t.ids # {} => Owner \in gone) /\ t.pc \notin Purged /\ task[r].pc # "off"
  BY <1>1, <1>5, <1>7 DEF Deletion, Purged
<1> QED
  BY <1>7, <1>8, <1>9, <1>10, TaskMoves

LEMMA PurgeRowsKeeps == ASSUME Inv, NEW r \in Requests, PurgeRows(r) PROVE Inv'
<1>1. task[r] \in TaskType /\ Deletion(r) /\ task[r].pc = "purge"
  BY TaskFacts DEF PurgeRows
<1>2. PICK t : t = [task[r] EXCEPT !.pc = "files"]
  OBVIOUS
<1>3. t \in TaskType /\ t.pc = "files" /\ t.names = task[r].names /\ t.ids = task[r].ids /\ t.error = task[r].error
  BY <1>1, <1>2, TaskPc DEF TaskPcs
<1>4. PICK S, kept : S = Owned(r, Kinds) /\ kept \in Escapes(S) /\ DeleteRows(S, kept)
  BY DEF PurgeRows
<1>5. /\ task' = [task EXCEPT ![r] = t]
      /\ UNCHANGED <<accounts, req, op, loop, faults, files, old, live, writing, fate, scenario>>
  BY <1>2, <1>4 DEF PurgeRows, ToTask, DeleteRows
<1>6. Remove({}) /\ Harmless({})
  BY <1>5 DEF Remove, Harmless
<1>7. kept \subseteq S /\ kept \subseteq rows
  BY <1>4 DEF Escapes, Staging
<1>8. /\ rows' \subseteq rows /\ belated' \in SUBSET Kinds /\ promoted' \in {"no", "asked", "yes"}
      /\ rows \subseteq belated => rows' \subseteq belated'
  BY <1>4, <1>7 DEF DeleteRows, Inv, Types, FilesSound
<1>9. Owner \in users => UNCHANGED <<rows, promoted>>
  <2>1. Owner \in users => S = {}
    BY <1>1, <1>4 DEF Owned, Deletion, Inv, Types
  <2> QED
    BY <1>4, <1>7, <2>1 DEF DeleteRows
<1>10. req[r].who = Owner => rows' \subseteq belated'
  BY <1>4 DEF Owned, DeleteRows, Inv, FilesSound
<1>11. (t.names \cup t.ids # {} => Owner \in gone) /\ task[r].pc # "off"
  BY <1>1, <1>3 DEF Deletion
<1>12. /\ op[r] \in {"none", "running", "completed", "failed"} /\ op' = [op EXCEPT ![r] = op[r]]
       /\ faults' \in 0 .. MaxFaults /\ faults' >= faults
  BY <1>5, TaskFacts
<1> QED
  BY <1>3, <1>5, <1>6, <1>8, <1>9, <1>10, <1>11, <1>12, TaskKeeps

LEMMA PurgeFilesKeeps == ASSUME Inv, NEW r \in Requests, PurgeFiles(r) PROVE Inv'
<1>1. task[r] \in TaskType /\ Deletion(r) /\ task[r].pc = "files"
  BY TaskFacts DEF PurgeFiles
<1>9. PICK N \in SUBSET Kinds : N = {}
  OBVIOUS
<1>2. PICK x : x = [task[r] EXCEPT !.names = N]
  OBVIOUS
<1>3. PICK t : t = [x EXCEPT !.pc = "captured"]
  OBVIOUS
<1>4. x \in TaskType /\ x.names = {} /\ x.ids = task[r].ids /\ x.error = task[r].error
  BY <1>1, <1>2, <1>9, TaskNames
<1>5. t \in TaskType /\ t.pc = "captured" /\ t.names = {} /\ t.ids = task[r].ids /\ t.error = task[r].error
  BY <1>3, <1>4, TaskPc DEF TaskPcs
<1>6. /\ task' = [task EXCEPT ![r] = t]
      /\ UNCHANGED <<accounts, req, op, loop, rows, others, faults>>
      /\ Remove(task[r].names)
  BY <1>2, <1>3, <1>9 DEF PurgeFiles, ToTask, Remove
<1>7. Harmless(task[r].names)
  BY <1>1 DEF Deletion, Harmless, Inv, Types
<1>8. /\ (t.names \cup t.ids # {} => Owner \in gone) /\ task[r].pc # "off" /\ task[r].pc \in Purged
  BY <1>1, <1>5 DEF Deletion, Purged
<1> QED
  BY <1>5, <1>6, <1>7, <1>8, TaskMoves

LEMMA RemoveCapturedKeeps == ASSUME Inv, NEW r \in Requests, RemoveCaptured(r) PROVE Inv'
<1>1. task[r] \in TaskType /\ Deletion(r) /\ task[r].pc = "captured"
  BY TaskFacts DEF RemoveCaptured
<1>9. PICK N \in SUBSET Kinds : N = {}
  OBVIOUS
<1>2. PICK x : x = [task[r] EXCEPT !.ids = N]
  OBVIOUS
<1>3. PICK t : t = [x EXCEPT !.pc = "backups"]
  OBVIOUS
<1>4. x \in TaskType /\ x.names = task[r].names /\ x.ids = N /\ x.error = task[r].error
  BY <1>1, <1>2, TaskIds
<1>5. t \in TaskType /\ t.pc = "backups" /\ t.names = task[r].names /\ t.ids = {} /\ t.error = task[r].error
  BY <1>3, <1>4, <1>9, TaskPc DEF TaskPcs
<1>6. /\ task' = [task EXCEPT ![r] = t]
      /\ UNCHANGED <<accounts, req, op, loop, rows, others, faults>>
      /\ Remove(task[r].ids)
  BY <1>2, <1>3, <1>9 DEF RemoveCaptured, ToTask, Remove
<1>7. Harmless(task[r].ids)
  BY <1>1 DEF Deletion, Harmless, Inv, Types
<1>8. /\ (t.names \cup t.ids # {} => Owner \in gone) /\ task[r].pc # "off" /\ task[r].pc \in Purged
  BY <1>1, <1>5 DEF Deletion, Purged
<1> QED
  BY <1>5, <1>6, <1>7, <1>8, TaskMoves

(* What the sweeps of archives and directories remove. *)
LEMMA SweptBackups == Inv /\ rows' \subseteq rows => Harmless(OrphanBackups)
  BY DEF Inv, FilesSound, OrphanBackups, Harmless

LEMMA SweptDirs ==
  ASSUME Inv, rows' \subseteq rows, UNCHANGED live, NEW blind \in BOOLEAN, faults' \in Nat, blind => faults' > 0
  PROVE  Harmless(StaleDirs(blind))
  BY DEF Inv, FilesSound, StaleDirs, Harmless, Excused

LEMMA TaskSweepBackupsKeeps == ASSUME Inv, NEW r \in Requests, TaskSweepBackups(r) PROVE Inv'
<1>1. task[r] \in TaskType /\ Deletion(r) /\ task[r].pc = "backups"
  BY TaskFacts DEF TaskSweepBackups
<1>2. PICK t : t = [task[r] EXCEPT !.pc = "temp"]
  OBVIOUS
<1>3. t \in TaskType /\ t.pc = "temp" /\ t.names = task[r].names /\ t.ids = task[r].ids /\ t.error = task[r].error
  BY <1>1, <1>2, TaskPc DEF TaskPcs
<1>4. /\ task' = [task EXCEPT ![r] = t]
      /\ UNCHANGED <<accounts, req, op, loop, rows, others, faults>>
      /\ Remove(OrphanBackups)
  BY <1>2 DEF TaskSweepBackups, ToTask
<1>5. /\ (t.names \cup t.ids # {} => Owner \in gone) /\ task[r].pc # "off" /\ task[r].pc \in Purged
  BY <1>1, <1>3 DEF Deletion, Purged
<1> QED
  BY <1>3, <1>4, <1>5, SweptBackups, TaskMoves

LEMMA TaskSweepDirsKeeps ==
  ASSUME Inv, NEW r \in Requests, NEW blind \in BOOLEAN, TaskSweepDirs(r, blind)
  PROVE  Inv'
<1>1. task[r] \in TaskType /\ Deletion(r) /\ task[r].pc = "temp" /\ faults \in Nat /\ faults \in 0 .. MaxFaults
  BY TaskFacts DEF TaskSweepDirs
<1>2. PICK t : t = [task[r] EXCEPT !.pc = "finish"]
  OBVIOUS
<1>3. t \in TaskType /\ t.pc = "finish" /\ t.names = task[r].names /\ t.ids = task[r].ids /\ t.error = task[r].error
  BY <1>1, <1>2, TaskPc DEF TaskPcs
<1>4. /\ task' = [task EXCEPT ![r] = t]
      /\ UNCHANGED <<accounts, req, op, loop, rows, others>>
      /\ Remove(StaleDirs(blind)) /\ op' = [op EXCEPT ![r] = op[r]]
      /\ op[r] \in {"none", "running", "completed", "failed"}
  BY <1>2, TaskFacts DEF TaskSweepDirs, ToTask
<1>5. faults' \in 0 .. MaxFaults /\ faults' >= faults /\ faults' \in Nat /\ (blind => faults' > 0)
  BY <1>1, SweepAssumption DEF TaskSweepDirs
<1>6. /\ (t.names \cup t.ids # {} => Owner \in gone) /\ task[r].pc # "off" /\ task[r].pc \in Purged
      /\ req[r].who = Owner /\ ~t.error => rows \subseteq belated
  BY <1>1, <1>3 DEF Deletion, Purged
<1>7. Harmless(StaleDirs(blind))
  BY <1>4, <1>5, OthersStay, SweptDirs
<1> QED
  BY <1>3, <1>4, <1>5, <1>6, <1>7, OthersStay, TaskKeeps

LEMMA TaskFinishKeeps == ASSUME Inv, NEW r \in Requests, TaskFinish(r) PROVE Inv'
<1>1. task[r] \in TaskType /\ Deletion(r) /\ task[r].pc = "finish"
  BY TaskFacts DEF TaskFinish
<1>2. PICK t : t = [task[r] EXCEPT !.pc = "off"]
  OBVIOUS
<1>3. t \in TaskType /\ t.pc = "off" /\ t.names = task[r].names /\ t.ids = task[r].ids /\ t.error = task[r].error
  BY <1>1, <1>2, TaskPc DEF TaskPcs
<1>4. /\ task' = [task EXCEPT ![r] = t]
      /\ UNCHANGED <<accounts, req, loop, rows, others, faults>>
      /\ op' = [op EXCEPT ![r] = "completed"] /\ Remove({}) /\ Harmless({})
  BY <1>2 DEF TaskFinish, ToTask, data, Remove, Harmless
<1>5. /\ (t.names \cup t.ids # {} => Owner \in gone) /\ task[r].pc # "off"
      /\ req[r].who = Owner /\ ~t.error => rows \subseteq belated
  BY <1>1, <1>3 DEF Deletion, Purged
<1>6. faults' \in 0 .. MaxFaults /\ faults' >= faults
  BY <1>4, TaskFacts
<1>7. req[r].who = Owner /\ ~t.error => rows' \subseteq belated'
  BY <1>4, <1>5, OthersStay
<1> QED
  BY <1>3, <1>4, <1>5, <1>6, <1>7, OthersStay, TaskKeeps

FailedTask(x) == [x EXCEPT !.names = {}, !.error = TRUE]

LEMMA TaskFailed ==
  ASSUME NEW x \in TaskType, NEW y, y = FailedTask(x)
  PROVE  y \in TaskType /\ y.pc = x.pc /\ y.names = {} /\ y.ids = x.ids /\ y.error
  BY DEF TaskType, FailedTask

LEMMA PurgeFailsKeeps == ASSUME Inv, NEW r \in Requests, PurgeFails(r) PROVE Inv'
<1>1. task[r] \in TaskType /\ Deletion(r) /\ task[r].pc # "off" /\ faults \in Nat /\ faults \in 0 .. MaxFaults
  BY TaskFacts DEF PurgeFails
<1>2. PICK x : x = FailedTask(task[r])
  OBVIOUS
<1>3. PICK t : t = [x EXCEPT !.pc = "captured"]
  OBVIOUS
<1>4. x \in TaskType /\ x.names = {} /\ x.ids = task[r].ids /\ x.error
  BY <1>1, <1>2, TaskFailed
<1>5. t \in TaskType /\ t.names = {} /\ t.ids = task[r].ids /\ t.error
  BY <1>3, <1>4, TaskPc DEF TaskPcs
<1>6. /\ task' = [task EXCEPT ![r] = t]
      /\ UNCHANGED <<accounts, req, loop, rows, others>>
      /\ op' = [op EXCEPT ![r] = "failed"] /\ Remove({}) /\ Harmless({})
  BY <1>2, <1>3 DEF PurgeFails, ToTask, FailedTask, data, Remove, Harmless
<1>7. faults' \in 0 .. MaxFaults /\ faults' >= faults
  BY <1>1, SweepAssumption DEF PurgeFails
<1>8. t.names \cup t.ids # {} => Owner \in gone
  BY <1>1, <1>5 DEF Deletion
<1>9. t.pc \notin Purged \/ t.error
  BY <1>5
<1> QED
  BY <1>1, <1>5, <1>6, <1>7, <1>8, <1>9, OthersStay, TaskKeeps

LEMMA OpAgeKeeps == ASSUME Inv, NEW r \in Requests, OpAge(r) PROVE Inv'
<1>1. UNCHANGED <<users, admins, gone, root, req, op, task, loop, rows, files, old, others, faults>>
  BY DEF OpAge, accounts, data
<1>2. Types' /\ (\A o \in Requests : Deletion(o)')
  BY <1>1 DEF Inv, Types, Deletion, others
<1>3. LoopSound' /\ FilesSound' /\ LiveKept'
  BY <1>1 DEF Inv, LoopSound, Unseen, Attached, Staging, others, FilesSound, LiveKept
<1> QED
  BY <1>2, <1>3 DEF Inv
-----------------------------------------------------------------------------
(* The cleanup loop. *)

WithNames(x, pc, S) == [x EXCEPT !.pc = pc, !.names = S]
WithRefs(x, pc, S)  == [x EXCEPT !.pc = pc, !.refs = S]

LEMMA LoopPc ==
  ASSUME NEW x \in LoopType, NEW pc \in LoopPcs, NEW y, y = [x EXCEPT !.pc = pc]
  PROVE  y \in LoopType /\ y.pc = pc /\ y.names = x.names /\ y.refs = x.refs
  BY DEF LoopType

LEMMA LoopNames ==
  ASSUME NEW x \in LoopType, NEW pc \in LoopPcs, NEW S \in SUBSET Kinds, NEW y, y = WithNames(x, pc, S)
  PROVE  y \in LoopType /\ y.pc = pc /\ y.names = S /\ y.refs = x.refs
  BY DEF LoopType, WithNames

LEMMA LoopWithRefs ==
  ASSUME NEW x \in LoopType, NEW pc \in LoopPcs, NEW S \in SUBSET Kinds, NEW y, y = WithRefs(x, pc, S)
  PROVE  y \in LoopType /\ y.pc = pc /\ y.names = x.names /\ y.refs = S
  BY DEF LoopType, WithRefs

(* The loop moves and removes the files of S. *)
LEMMA LoopKeeps ==
  ASSUME Inv, loop' \in LoopType, UNCHANGED <<accounts, req, op, task, live, writing, scenario>>,
         promoted' \in {"no", "asked", "yes"}, belated' \in SUBSET Kinds,
         fate' \in SUBSET {"crossed", "listed"}, fate \subseteq fate',
         faults' \in 0 .. MaxFaults, faults' >= faults,
         NEW S, Remove(S), Harmless(S), rows' \subseteq rows, rows \subseteq belated => rows' \subseteq belated',
         LoopSound'
  PROVE  Inv'
<1>1. UNCHANGED <<users, admins, gone, root, req, op, task, live, writing, scenario>>
  BY DEF accounts
<1>2. Types'
  BY <1>1 DEF Inv, Types
<1>3. \A r \in Requests : Deletion(r)'
  BY <1>1, DeletionStays DEF Inv
<1>4. FilesSound' /\ LiveKept'
  BY <1>1, SweepAssumption, FilesKeep
<1> QED
  BY <1>2, <1>3, <1>4 DEF Inv

(* A step of the loop without a fault that keeps the rows, to a place where nothing
   is asked of it.                                                                 *)
LEMMA LoopMoves ==
  ASSUME Inv, NEW y \in LoopType, loop' = y,
         UNCHANGED <<accounts, req, op, task, rows, others, faults>>,
         NEW S, Remove(S), Harmless(S),
         y.pc \notin Purging \cup Expiring \cup {"staging", "images"}, y.names # {} => Owner \in gone
  PROVE  Inv'
<1>1. faults' \in 0 .. MaxFaults /\ faults' >= faults
  BY SweepAssumption DEF Inv, Types
<1>2. UNCHANGED gone /\ LoopSound'
  BY DEF LoopSound, accounts
<1> QED
  BY <1>1, <1>2, OthersStay, LoopKeeps

LEMMA LoopFacts ==
  ASSUME Inv
  PROVE  /\ loop \in LoopType /\ LoopSound /\ faults \in 0 .. MaxFaults /\ faults \in Nat
         /\ rows \in SUBSET Kinds /\ Staging \in SUBSET Kinds /\ Attached \in SUBSET Kinds
         /\ loop.names \in SUBSET Kinds /\ loop.refs \in SUBSET Kinds
  BY SweepAssumption DEF Inv, Types, FilesSound, LoopType, Staging, Attached

(* A purge by the loop is of an account that is gone. *)
LEMMA LoopPurges ==
  ASSUME Inv, NEW y \in LoopType, loop' = y, y.pc \in Purging, Owner \in gone,
         UNCHANGED <<accounts, req, op, task, rows, others, faults>>,
         UNCHANGED <<files, old>>
  PROVE  Inv'
<1>1. UNCHANGED <<users, gone>> /\ Remove({}) /\ Harmless({}) /\ Owner \notin users
  BY DEF accounts, Remove, Harmless, Inv, Types
<1>2. LoopSound'
  BY <1>1 DEF LoopSound
<1>3. faults' \in 0 .. MaxFaults /\ faults' >= faults
  BY LoopFacts
<1> QED
  BY <1>1, <1>2, <1>3, OthersStay, LoopKeeps

LEMMA LoopListKeeps == ASSUME Inv, LoopList PROVE Inv'
<1>1. PICK pc : pc = IF OwnerIsOrphan THEN "read" ELSE "backups"
  OBVIOUS
<1>2. PICK y : y = [loop EXCEPT !.pc = pc]
  OBVIOUS
<1>3. pc \in LoopPcs /\ (pc = "backups" \/ (pc \in Purging /\ Owner \in gone))
  BY <1>1 DEF LoopPcs, Purging, OwnerIsOrphan, Inv, Types
<1>4. y \in LoopType /\ y.pc = pc /\ y.names = loop.names
  BY <1>2, <1>3, LoopPc, LoopFacts
<1>5. /\ loop' = y /\ UNCHANGED <<accounts, req, op, task, rows, others, faults>>
      /\ UNCHANGED <<files, old>> /\ Remove({}) /\ Harmless({})
  BY <1>1, <1>2 DEF LoopList, ToLoop, data, Remove, Harmless
<1>6. loop.names # {} => Owner \in gone
  BY LoopFacts DEF LoopSound, LoopList, Expiring
<1>7. "backups" \notin Purging \cup Expiring \cup {"staging", "images"}
  BY DEF Purging, Expiring
<1> QED
  BY <1>3, <1>4, <1>5, <1>6, <1>7, LoopMoves, LoopPurges

LEMMA LoopReadKeeps == ASSUME Inv, LoopRead PROVE Inv'
<1>1. PICK y : y = WithNames(loop, "readStaged", rows \ Staging)
  OBVIOUS
<1>2. y \in LoopType /\ y.pc = "readStaged"
  BY <1>1, LoopNames, LoopFacts DEF LoopPcs
<1>3. /\ loop' = y /\ UNCHANGED <<accounts, req, op, task, rows, others, faults>>
      /\ UNCHANGED <<files, old>>
  BY <1>1 DEF LoopRead, WithNames, data
<1>4. Owner \in gone /\ y.pc \in Purging
  BY <1>2, LoopFacts DEF LoopSound, LoopRead, Purging
<1> QED
  BY <1>2, <1>3, <1>4, LoopPurges

LEMMA LoopReadStagedKeeps == ASSUME Inv, LoopReadStaged PROVE Inv'
<1>1. PICK S : S = loop.names \cup Staging
  OBVIOUS
<1>2. PICK y : y = WithNames(loop, "purge", S)
  OBVIOUS
<1>3. y \in LoopType /\ y.pc = "purge"
  BY <1>1, <1>2, LoopNames, LoopFacts DEF LoopPcs
<1>4. /\ loop' = y /\ UNCHANGED <<accounts, req, op, task, rows, others, faults>>
      /\ UNCHANGED <<files, old>>
  BY <1>1, <1>2 DEF LoopReadStaged, WithNames, data
<1>5. Owner \in gone /\ y.pc \in Purging
  BY <1>3, LoopFacts DEF LoopSound, LoopReadStaged, Purging
<1> QED
  BY <1>3, <1>4, <1>5, LoopPurges

LEMMA LoopPurgeKeeps == ASSUME Inv, LoopPurge PROVE Inv'
<1>1. PICK y : y = [loop EXCEPT !.pc = "files"]
  OBVIOUS
<1>2. y \in LoopType /\ y.pc = "files"
  BY <1>1, LoopPc, LoopFacts DEF LoopPcs
<1>3. PICK kept : kept \in Escapes(Kinds) /\ DeleteRows(Kinds, kept)
  BY DEF LoopPurge
<1>4. /\ loop' = y /\ UNCHANGED <<accounts, req, op, task, live, writing, scenario, fate, faults>>
      /\ Remove({}) /\ Harmless({})
  BY <1>1, <1>3 DEF LoopPurge, ToLoop, DeleteRows, Remove, Harmless
<1>5. kept \subseteq rows
  BY <1>3 DEF Escapes, Staging
<1>6. /\ rows' \subseteq rows /\ belated' \in SUBSET Kinds /\ promoted' \in {"no", "asked", "yes"}
      /\ rows \subseteq belated => rows' \subseteq belated'
      /\ fate' \in SUBSET {"crossed", "listed"} /\ fate \subseteq fate'
  BY <1>3, <1>4, <1>5 DEF DeleteRows, Inv, Types, FilesSound
<1>7. Owner \in gone /\ Owner \notin users /\ UNCHANGED <<users, gone>>
  BY <1>4, LoopFacts DEF LoopSound, LoopPurge, Purging, Inv, Types, accounts
<1>8. LoopSound'
  BY <1>7 DEF LoopSound
<1>9. faults' \in 0 .. MaxFaults /\ faults' >= faults
  BY <1>4, LoopFacts
<1> QED
  BY <1>2, <1>4, <1>6, <1>8, <1>9, LoopKeeps

LEMMA LoopFilesKeeps == ASSUME Inv, LoopFiles PROVE Inv'
<1>1. PICK y : y = WithNames(loop, "backups", {})
  OBVIOUS
<1>2. y \in LoopType /\ y.pc = "backups" /\ y.names = {}
  BY <1>1, LoopNames, LoopFacts DEF LoopPcs
<1>3. /\ loop' = y /\ UNCHANGED <<accounts, req, op, task, rows, others, faults>>
      /\ Remove(loop.names)
  BY <1>1 DEF LoopFiles, WithNames
<1>4. Harmless(loop.names)
  BY LoopFacts DEF LoopSound, LoopFiles, Purging, Harmless, Inv, Types
<1>5. y.pc \notin Purging \cup Expiring \cup {"staging", "images"}
  BY <1>2 DEF Purging, Expiring
<1> QED
  BY <1>2, <1>3, <1>4, <1>5, LoopMoves

LEMMA LoopSweepBackupsKeeps == ASSUME Inv, LoopSweepBackups PROVE Inv'
<1>1. PICK y : y = [loop EXCEPT !.pc = "refs"]
  OBVIOUS
<1>2. y \in LoopType /\ y.pc = "refs" /\ y.names = loop.names
  BY <1>1, LoopPc, LoopFacts DEF LoopPcs
<1>3. /\ loop' = y /\ UNCHANGED <<accounts, req, op, task, rows, others, faults>>
      /\ Remove(OrphanBackups)
  BY <1>1 DEF LoopSweepBackups, ToLoop
<1>4. loop.names # {} => Owner \in gone
  BY LoopFacts DEF LoopSound, LoopSweepBackups, Expiring
<1>5. y.pc \notin Purging \cup Expiring \cup {"staging", "images"}
  BY <1>2 DEF Purging, Expiring
<1> QED
  BY <1>2, <1>3, <1>4, <1>5, SweptBackups, LoopMoves

(* The reads of the references: once the images of receipts are read, those that are
   attached are known, young, or were staged before; once the staged ones are read,
   all are.                                                                         *)
LEMMA LoopRefsKeeps == ASSUME Inv, LoopRefs PROVE Inv'
<1>1. PICK pc, found : pc = Reads[loop.pc].next /\ found = Reads[loop.pc].found
  OBVIOUS
<1>2. PICK R : R = loop.refs \cup found
  OBVIOUS
<1>3. PICK y : y = WithRefs(loop, pc, R)
  OBVIOUS
<1>4. \/ loop.pc = "refs" /\ pc = "attached" /\ found \subseteq rows
      \/ loop.pc = "attached" /\ pc = "staging" /\ found = Attached
      \/ loop.pc = "staging" /\ pc = "images" /\ found = Staging
  BY <1>1 DEF LoopRefs, Reads
<1>5. pc \in LoopPcs /\ R \in SUBSET Kinds
  BY <1>2, <1>4, LoopFacts DEF LoopPcs
<1>6. y \in LoopType /\ y.pc = pc /\ y.names = loop.names /\ y.refs = R
  BY <1>3, <1>5, LoopWithRefs, LoopFacts
<1>7. /\ loop' = y /\ UNCHANGED <<accounts, req, op, task, rows, others, faults>>
      /\ UNCHANGED <<files, old>> /\ Remove({}) /\ Harmless({})
  BY <1>1, <1>2, <1>3 DEF LoopRefs, WithRefs, data, Remove, Harmless
<1>8. faults' \in 0 .. MaxFaults /\ faults' >= faults /\ UNCHANGED <<users, gone>>
  BY <1>7, LoopFacts DEF accounts
<1>9. UNCHANGED <<Attached, fate>>
  BY <1>7, OthersStay DEF Attached, Staging
<1>10. ASSUME Owner \in users, pc = "staging" PROVE \A k \in Attached : k \in R
  BY <1>2, <1>4, <1>10
<1>11. ASSUME Owner \in users, pc = "images", NEW k \in rows \cap Images
       PROVE  k \in R \/ k \notin old \/ (k = "staged" /\ "crossed" \in fate)
  <2>1. loop.pc = "staging" /\ found = Staging
    BY <1>4, <1>11
  <2>2. k \in Attached \/ k \in Staging
    BY <1>11 DEF Attached
  <2> QED
    BY <1>2, <1>11, <2>1, <2>2, LoopFacts DEF LoopSound, Unseen
<1>12. /\ pc \notin Purging \cup Expiring /\ (loop.names # {} => Owner \in gone)
  BY <1>4, LoopFacts DEF LoopSound, Purging, Expiring
<1>13. LoopSound'
  BY <1>6, <1>7, <1>8, <1>9, <1>10, <1>11, <1>12 DEF LoopSound, Unseen
<1> QED
  BY <1>6, <1>7, <1>8, <1>13, OthersStay, LoopKeeps

LEMMA LoopSweepImagesKeeps == ASSUME Inv, LoopSweepImages PROVE Inv'
<1>1. PICK y : y = WithRefs(loop, "temp", {})
  OBVIOUS
<1>2. y \in LoopType /\ y.pc = "temp" /\ y.names = loop.names
  BY <1>1, LoopWithRefs, LoopFacts DEF LoopPcs
<1>3. PICK S : S = IF OrphanDelete /\ Trusted(Candidates) THEN Candidates ELSE {}
  OBVIOUS
<1>4. /\ loop' = y /\ UNCHANGED <<accounts, req, op, task, rows, others, faults>>
      /\ Remove(S) /\ loop.pc = "images"
  BY <1>1, <1>3 DEF LoopSweepImages, WithRefs
<1>5. loop.names # {} => Owner \in gone
  BY <1>4, LoopFacts DEF LoopSound, Expiring
<1>6. Harmless(S)
  <2>1. ASSUME Owner \in users, NEW k \in Candidates, k \in rows PROVE k = "staged" /\ "crossed" \in fate
    BY <1>4, <2>1, LoopFacts DEF Candidates, Unseen, LoopSound
  <2>2. ASSUME Owner \in users, NEW k \in S PROVE k \notin writing /\ (k \in rows' => Excused(k)')
    <3>1. OrphanDelete /\ k \in Candidates /\ UNCHANGED <<rows, fate>>
      BY <1>3, <1>4, <2>2, OthersStay
    <3> QED
      BY <2>1, <2>2, <3>1 DEF Candidates, Excused, Inv, FilesSound
  <2> QED
    BY <2>2 DEF Harmless
<1>7. y.pc \notin Purging \cup Expiring \cup {"staging", "images"}
  BY <1>2 DEF Purging, Expiring
<1> QED
  BY <1>2, <1>4, <1>5, <1>6, <1>7, LoopMoves

LEMMA LoopSweepDirsKeeps == ASSUME Inv, NEW blind \in BOOLEAN, LoopSweepDirs(blind) PROVE Inv'
<1>1. PICK y : y = [loop EXCEPT !.pc = "staged"]
  OBVIOUS
<1>2. y \in LoopType /\ y.pc = "staged" /\ y.names = loop.names
  BY <1>1, LoopPc, LoopFacts DEF LoopPcs
<1>3. /\ loop' = y /\ UNCHANGED <<accounts, req, op, task, rows, others>> /\ Remove(StaleDirs(blind))
  BY <1>1 DEF LoopSweepDirs, ToLoop
<1>4. faults' \in 0 .. MaxFaults /\ faults' >= faults /\ faults' \in Nat /\ (blind => faults' > 0)
  BY LoopFacts, SweepAssumption DEF LoopSweepDirs
<1>5. UNCHANGED gone /\ LoopSound'
  BY <1>2, <1>3, LoopFacts DEF LoopSound, LoopSweepDirs, Purging, Expiring, accounts
<1>6. Harmless(StaleDirs(blind))
  BY <1>3, <1>4, OthersStay, SweptDirs
<1> QED
  BY <1>2, <1>3, <1>4, <1>5, <1>6, OthersStay, LoopKeeps

LEMMA LoopListStagedKeeps == ASSUME Inv, LoopListStaged PROVE Inv'
<1>1. PICK S : S = {k \in Staging : k \in old \/ k \notin files}
  OBVIOUS
<1>2. PICK y : y = WithNames(loop, "unlink", S)
  OBVIOUS
<1>3. S \subseteq {"staged"} \cap rows /\ S \in SUBSET Kinds
  BY <1>1, LoopFacts DEF Staging
<1>4. y \in LoopType /\ y.pc = "unlink" /\ y.names = S
  BY <1>2, <1>3, LoopNames, LoopFacts DEF LoopPcs
<1>5. /\ loop' = y /\ UNCHANGED <<accounts, req, op, task, live, writing, promoted, belated, scenario>>
      /\ UNCHANGED <<rows, faults>> /\ Remove({}) /\ Harmless({})
      /\ fate' = IF S = {} THEN fate ELSE fate \cup {"listed"}
  BY <1>1, <1>2 DEF LoopListStaged, WithNames, Remove, Harmless
<1>6. LoopSound'
  BY <1>3, <1>4, <1>5 DEF LoopSound, Purging, Expiring
<1>7. faults' \in 0 .. MaxFaults /\ faults' >= faults
  BY <1>5, LoopFacts
<1>8. /\ promoted' \in {"no", "asked", "yes"} /\ belated' \in SUBSET Kinds
      /\ fate' \in SUBSET {"crossed", "listed"} /\ fate \subseteq fate'
  BY <1>5 DEF Inv, Types, FilesSound
<1> QED
  BY <1>4, <1>5, <1>6, <1>7, <1>8, LoopKeeps

LEMMA LoopUnlinkStagedKeeps == ASSUME Inv, LoopUnlinkStaged PROVE Inv'
<1>1. PICK y : y = [loop EXCEPT !.pc = "unstage"]
  OBVIOUS
<1>2. y \in LoopType /\ y.pc = "unstage" /\ y.names = loop.names
  BY <1>1, LoopPc, LoopFacts DEF LoopPcs
<1>3. /\ loop' = y /\ UNCHANGED <<accounts, req, op, task, rows, others, faults>>
      /\ Remove(loop.names) /\ loop.pc = "unlink"
  BY <1>1 DEF LoopUnlinkStaged, ToLoop
<1>4. UNCHANGED <<users, gone, fate>>
  BY <1>3, OthersStay DEF accounts
<1>5. LoopSound'
  BY <1>2, <1>3, <1>4, LoopFacts DEF LoopSound, Purging, Expiring
<1>6. Harmless(loop.names)
  BY <1>3, <1>4, LoopFacts DEF LoopSound, Expiring, Harmless, Excused, Inv, FilesSound
<1>7. faults' \in 0 .. MaxFaults /\ faults' >= faults
  BY <1>3, LoopFacts
<1> QED
  BY <1>2, <1>3, <1>5, <1>6, <1>7, OthersStay, LoopKeeps

(* The end of a pass. *)
LEMMA PassEnded ==
  ASSUME Inv, PassEnds
  PROVE  loop' \in LoopType /\ loop'.names = {} /\ loop'.pc \in {"list", "watch"}
  BY LoopIs DEF PassEnds, LoopPcs

LEMMA LoopDropStagedKeeps == ASSUME Inv, LoopDropStaged PROVE Inv'
<1>1. /\ UNCHANGED <<accounts, req, op, task, others, faults>> /\ rows' \subseteq rows
      /\ Remove({}) /\ Harmless({})
  BY DEF LoopDropStaged, Remove, Harmless
<1>2. LoopSound'
  BY PassEnded DEF LoopDropStaged, LoopSound, Purging, Expiring
<1>3. faults' \in 0 .. MaxFaults /\ faults' >= faults
  BY <1>1, LoopFacts
<1> QED
  BY <1>1, <1>2, <1>3, PassEnded, OthersStay, LoopKeeps DEF LoopDropStaged

LEMMA LoopFailsKeeps == ASSUME Inv, LoopFails PROVE Inv'
<1>1. loop' \in LoopType /\ loop'.names = {} /\ loop'.pc \in {"backups", "list", "watch"}
  <2>1. PICK y : y = WithNames(loop, "backups", {})
    OBVIOUS
  <2>2. y \in LoopType /\ y.pc = "backups" /\ y.names = {}
    BY <2>1, LoopNames, LoopFacts DEF LoopPcs
  <2>3. loop' = y \/ PassEnds
    BY <2>1 DEF LoopFails, WithNames
  <2> QED
    BY <2>2, <2>3, PassEnded
<1>2. /\ UNCHANGED <<accounts, req, op, task, others, rows>> /\ Remove({}) /\ Harmless({})
  BY DEF LoopFails, data, Remove, Harmless
<1>3. faults' \in 0 .. MaxFaults /\ faults' >= faults
  BY LoopFacts, SweepAssumption DEF LoopFails
<1>4. LoopSound'
  BY <1>1 DEF LoopSound, Purging, Expiring
<1> QED
  BY <1>1, <1>2, <1>3, <1>4, OthersStay, LoopKeeps

LEMMA WatchdogKeeps == ASSUME Inv, Watchdog PROVE Inv'
<1>1. PICK y : y = [loop EXCEPT !.pc = "list"]
  OBVIOUS
<1>2. y \in LoopType /\ y.pc = "list" /\ y.names = loop.names
  BY <1>1, LoopPc, LoopFacts DEF LoopPcs
<1>3. /\ loop' = y
      /\ UNCHANGED <<users, admins, gone, root, req, task, rows, files, old, others, faults>>
      /\ op' = [r \in Requests |-> IF op[r] = "running" /\ r \in late THEN "failed" ELSE op[r]]
  BY <1>1 DEF Watchdog, ToLoop, accounts, data
<1>4. Types'
  BY <1>2, <1>3 DEF Inv, Types, others
<1>5. ASSUME NEW r \in Requests PROVE Deletion(r)'
  <2>1. op'[r] = "completed" => op[r] = "completed"
    BY <1>3
  <2> QED
    BY <1>3, <2>1 DEF Inv, Deletion, others
<1>6. LoopSound'
  BY <1>2, <1>3, LoopFacts DEF LoopSound, Watchdog, Purging, Expiring
<1>7. FilesSound' /\ LiveKept'
  BY <1>3 DEF Inv, FilesSound, LiveKept, others
<1> QED
  BY <1>4, <1>5, <1>6, <1>7 DEF Inv

-----------------------------------------------------------------------------
(* What the owner does meanwhile, and a restart. *)

(* Steps that leave accounts, deletions and the loop alone. *)
LEMMA OwnerKeeps ==
  ASSUME Inv, UNCHANGED <<accounts, req, op, task, loop, scenario, faults>>,
         promoted' \in {"no", "asked", "yes"}, fate' \in SUBSET {"crossed", "listed"},
         Owner \in gone /\ rows \subseteq belated => rows' \subseteq belated',
         LoopSound', FilesSound', LiveKept'
  PROVE  Inv'
<1>1. UNCHANGED <<users, admins, gone, root, req, op, task, loop, scenario, faults>>
  BY DEF accounts
<1>2. Types'
  BY <1>1 DEF Inv, Types
<1>3. \A r \in Requests : Deletion(r)'
  BY <1>1, DeletionStays DEF Inv
<1> QED
  BY <1>2, <1>3 DEF Inv

LEMMA WriteFileKeeps == ASSUME Inv, NEW k \in Kinds, WriteFile(k) PROVE Inv'
<1>1. /\ k # "session" /\ k \notin files /\ k \notin rows
      /\ files' = files \cup {k} /\ writing' = writing \cup {k}
      /\ UNCHANGED <<users, gone, rows, old, live, loop, promoted, fate, belated, faults>>
      /\ UNCHANGED <<accounts, req, op, task, loop, scenario, faults>>
  BY DEF WriteFile, Inv, Types, Scenario, accounts
<1>2. LoopSound'
  BY <1>1 DEF Inv, LoopSound, Unseen, Attached, Staging
<1>3. FilesSound' /\ LiveKept'
  BY <1>1 DEF Inv, FilesSound, LiveKept
<1>4. promoted' \in {"no", "asked", "yes"} /\ fate' \in SUBSET {"crossed", "listed"}
  BY <1>1 DEF Inv, Types
<1> QED
  BY <1>1, <1>2, <1>3, <1>4, OwnerKeeps

(* A row comes when its file is there and young. *)
LEMMA WriteRowKeeps == ASSUME Inv, NEW k \in Kinds, WriteRow(k) PROVE Inv'
<1>1. /\ k \in writing /\ writing' = writing \ {k} /\ rows' \subseteq rows \cup {k} /\ rows \subseteq rows'
      /\ UNCHANGED <<users, gone, files, old, live, loop, promoted, fate, faults>>
      /\ UNCHANGED <<accounts, req, op, task, loop, scenario, faults>>
      /\ belated' = IF Owner \in users THEN belated ELSE belated \cup {k}
  BY DEF WriteRow, accounts
<1>2. k # "session" /\ k \notin old /\ (Owner \in users => k \in files)
  BY <1>1 DEF Inv, FilesSound
<1>3. LoopSound'
  <2>1. Attached' \subseteq Attached \cup {k}
    BY <1>1 DEF Attached, Staging
  <2> QED
    BY <1>1, <1>2, <2>1 DEF Inv, LoopSound, Unseen
<1>4. FilesSound' /\ LiveKept'
  BY <1>1, <1>2 DEF Inv, FilesSound, LiveKept
<1>5. /\ promoted' \in {"no", "asked", "yes"} /\ fate' \in SUBSET {"crossed", "listed"}
      /\ Owner \in gone /\ rows \subseteq belated => rows' \subseteq belated'
  BY <1>1 DEF Inv, Types
<1> QED
  BY <1>1, <1>3, <1>4, <1>5, OwnerKeeps

LEMMA AskPromoteKeeps == ASSUME Inv, AskPromote PROVE Inv'
<1>1. /\ UNCHANGED <<users, gone, rows, files, old, live, writing, loop, fate, belated, faults>>
      /\ UNCHANGED <<accounts, req, op, task, loop, scenario, faults>>
      /\ promoted = "no" /\ promoted' = "asked"
  BY DEF AskPromote, accounts
<1>2. LoopSound'
  BY <1>1 DEF Inv, LoopSound, Unseen, Attached, Staging
<1>3. FilesSound' /\ LiveKept'
  BY <1>1 DEF Inv, FilesSound, LiveKept
<1>4. fate' \in SUBSET {"crossed", "listed"}
  BY <1>1 DEF Inv, Types
<1> QED
  BY <1>1, <1>2, <1>3, <1>4, OwnerKeeps

(* A promotion puts nothing into the images of receipts but the staged image. *)
LEMMA PromoteKeeps == ASSUME Inv, Promote PROVE Inv'
<1>1. /\ UNCHANGED <<users, gone, rows, files, old, live, writing, loop, faults>>
      /\ UNCHANGED <<accounts, req, op, task, loop, scenario, faults>>
      /\ promoted' = "yes" /\ fate' = IF loop.pc = "staging" THEN fate \cup {"crossed"} ELSE fate
      /\ belated' = IF Owner \in users THEN belated ELSE belated \cup {"staged"}
      /\ promoted # "yes"
  BY DEF Promote, accounts
<1>2. LoopSound'
  <2>1. Attached' \subseteq Attached \cup {"staged"}
    BY <1>1 DEF Attached, Staging
  <2> QED
    BY <1>1, <2>1 DEF Inv, LoopSound, Unseen
<1>3. FilesSound' /\ LiveKept'
  BY <1>1 DEF Inv, FilesSound, LiveKept, Kinds
<1>4. /\ fate' \in SUBSET {"crossed", "listed"}
      /\ Owner \in gone /\ rows \subseteq belated => rows' \subseteq belated'
  BY <1>1 DEF Inv, Types
<1> QED
  BY <1>1, <1>2, <1>3, <1>4, OwnerKeeps

LEMMA SessionEndsKeeps == ASSUME Inv, SessionEnds PROVE Inv'
<1>1. /\ UNCHANGED <<users, gone, rows, files, old, writing, loop, promoted, fate, belated, faults>> /\ ~live'
      /\ UNCHANGED <<accounts, req, op, task, loop, scenario, faults>>
  BY DEF SessionEnds, accounts
<1>2. LoopSound'
  BY <1>1 DEF Inv, LoopSound, Unseen, Attached, Staging
<1>3. FilesSound' /\ LiveKept'
  BY <1>1 DEF Inv, FilesSound, LiveKept
<1>4. promoted' \in {"no", "asked", "yes"} /\ fate' \in SUBSET {"crossed", "listed"}
  BY <1>1 DEF Inv, Types
<1> QED
  BY <1>1, <1>2, <1>3, <1>4, OwnerKeeps

LEMMA AgeKeeps == ASSUME Inv, NEW k \in Kinds, Age(k) PROVE Inv'
<1>1. /\ k \in files /\ k \notin writing /\ loop.pc \notin {"attached", "staging", "images"} /\ old' = old \cup {k}
      /\ UNCHANGED <<users, gone, rows, files, writing, live, loop, promoted, fate, belated, faults>>
      /\ UNCHANGED <<accounts, req, op, task, loop, scenario, faults>>
  BY DEF Age, accounts, others
<1>2. LoopSound'
  BY <1>1 DEF Inv, LoopSound
<1>3. FilesSound' /\ LiveKept'
  BY <1>1 DEF Inv, FilesSound, LiveKept
<1>4. promoted' \in {"no", "asked", "yes"} /\ fate' \in SUBSET {"crossed", "listed"}
  BY <1>1 DEF Inv, Types
<1> QED
  BY <1>1, <1>2, <1>3, <1>4, OwnerKeeps

LEMMA RestartKeeps == ASSUME Inv, NEW u \in Users, Restart(u) PROVE Inv'
<1> DEFINE x(r) == IF req[r].pc = "new" THEN req[r] ELSE [req[r] EXCEPT !.pc = "done", !.ids = {}]
           t(r) == [NoTask EXCEPT !.error = task[r].error]
<1>1. /\ req' = [r \in Requests |-> x(r)] /\ task' = [r \in Requests |-> t(r)]
      /\ UNCHANGED <<gone, op, rows, files, old, live, fate, belated, scenario>> /\ writing' = {}
      /\ promoted' = IF promoted = "asked" THEN "no" ELSE promoted
      /\ loop' = Loop("list", TRUE) /\ faults' = faults + 1 /\ faults < MaxFaults
  BY DEF Restart
<1>2. ASSUME NEW r \in Requests
      PROVE  /\ x(r) \in ReqType /\ x(r).pc \in {"new", "done"} /\ x(r).who = req[r].who
             /\ x(r).ids \subseteq req[r].ids /\ (x(r).pc = "new" => req[r].pc = "new")
  <2>1. req[r] \in ReqType
    BY DEF Inv, Types
  <2>2. PICK v : v = WithIds(req[r], "done", {})
    OBVIOUS
  <2>3. v \in ReqType /\ v.pc = "done" /\ v.who = req[r].who /\ v.ids = {}
    BY <2>1, <2>2, ReqIds DEF RequestPcs
  <2>4. x(r) = IF req[r].pc = "new" THEN req[r] ELSE v
    BY <2>2 DEF WithIds
  <2> QED
    BY <2>1, <2>3, <2>4
<1>3. ASSUME NEW r \in Requests
      PROVE  /\ t(r) \in TaskType /\ t(r).pc = "off" /\ t(r).names = {} /\ t(r).ids = {}
             /\ t(r).error = task[r].error
  <2>1. PICK n, e : n = NoTask /\ e = task[r].error
    OBVIOUS
  <2>2. n \in TaskType /\ n.pc = "off" /\ n.names = {} /\ n.ids = {} /\ e \in BOOLEAN
    BY <2>1, NoTaskType DEF Inv, Types, TaskType
  <2>3. PICK v : v = [n EXCEPT !.error = e]
    OBVIOUS
  <2>4. v \in TaskType /\ v.pc = "off" /\ v.names = {} /\ v.ids = {} /\ v.error = e
    BY <2>2, <2>3 DEF TaskType
  <2>5. t(r) = v
    BY <2>1, <2>3
  <2> QED
    BY <2>1, <2>4, <2>5
<1>4. /\ users \subseteq users' /\ users' \in SUBSET Users /\ users' \cap gone = {}
      /\ admins' \subseteq users' /\ root' \subseteq users' /\ (Owner \in users' => Owner \in users)
  BY DEF Restart, Inv, Types
<1>5. /\ \A r \in Requests : req'[r] = x(r) /\ task'[r] = t(r)
  BY <1>1
<1>6. req' \in [Requests -> ReqType] /\ task' \in [Requests -> TaskType]
  BY <1>1, <1>2, <1>3
<1> HIDE DEF x, t
<1>7. loop' \in LoopType /\ loop'.pc = "list" /\ loop'.names = {}
  BY <1>1, LoopIs DEF LoopPcs
<1>8. Types'
  <2>1. faults' \in 0 .. MaxFaults
    BY <1>1, SweepAssumption DEF Inv, Types
  <2> QED
    BY <1>1, <1>4, <1>6, <1>7, <2>1 DEF Inv, Types
<1>9. ASSUME NEW r \in Requests PROVE Deletion(r)'
  BY <1>1, <1>2, <1>3, <1>5 DEF Inv, Deletion, Purged
<1>10. LoopSound' /\ FilesSound'
  BY <1>1, <1>4, <1>7 DEF Inv, LoopSound, FilesSound, Purging, Expiring
<1>11. LiveKept'
  BY <1>1, <1>4, SweepAssumption DEF Inv, Types, LiveKept
<1> QED
  BY <1>8, <1>9, <1>10, <1>11 DEF Inv

-----------------------------------------------------------------------------

LEMMA NextInv == Inv /\ [Next]_vars => Inv'
<1> SUFFICES ASSUME Inv, [Next]_vars PROVE Inv'
  OBVIOUS
<1>1. ASSUME NEW by \in Users, NEW u \in Users, NEW admin \in BOOLEAN, CreateUser(by, u, admin) PROVE Inv'
  BY <1>1, CreateKeeps
<1>2. ASSUME NEW r \in scenario.reqs, NEW by \in Users, NEW who \in Users,
             \/ AskDelete(r, by, who)
             \/ \E kind \in scenario.asked : AskUpdate(r, by, who, kind)
      PROVE  Inv'
  <2>1. r \in Requests
    BY DEF Inv, Types, Scenario
  <2> QED
    BY <1>2, <2>1, AskDeleteKeeps, AskUpdateKeeps
<1>3. ASSUME NEW r \in Requests,
             DoUpdate(r) \/ CaptureBackups(r) \/ DeleteUser(r) \/ PurgeFails(r) \/ TaskSweepDirs(r, TRUE) \/ OpAge(r)
      PROVE  Inv'
  BY <1>3, DoUpdateKeeps, CaptureKeeps, DeleteKeeps, PurgeFailsKeeps, TaskSweepDirsKeeps, OpAgeKeeps
<1>4. ASSUME NEW r \in Requests, TaskStep(r) PROVE Inv'
  BY <1>4, PurgeReadKeeps, PurgeReadStagedKeeps, PurgeRowsKeeps, PurgeFilesKeeps, RemoveCapturedKeeps, TaskSweepBackupsKeeps,
     TaskSweepDirsKeeps, TaskFinishKeeps DEF TaskStep
<1>5. CASE LoopStep \/ LoopFails \/ LoopSweepDirs(TRUE)
  BY <1>5, LoopListKeeps, LoopReadKeeps, LoopReadStagedKeeps, LoopPurgeKeeps, LoopFilesKeeps, LoopSweepBackupsKeeps,
     LoopRefsKeeps, LoopSweepImagesKeeps, LoopSweepDirsKeeps, LoopListStagedKeeps, LoopUnlinkStagedKeeps,
     LoopDropStagedKeeps, WatchdogKeeps, LoopFailsKeeps DEF LoopStep
<1>6. ASSUME NEW k \in Kinds, WriteFile(k) \/ WriteRow(k) \/ Age(k) PROVE Inv'
  BY <1>6, WriteFileKeeps, WriteRowKeeps, AgeKeeps
<1>7. CASE AskPromote \/ Promote \/ SessionEnds
  BY <1>7, AskPromoteKeeps, PromoteKeeps, SessionEndsKeeps
<1>8. ASSUME NEW u \in Users, Restart(u) PROVE Inv'
  BY <1>8, RestartKeeps
<1>9. CASE UNCHANGED vars
  <2>1. UNCHANGED <<users, admins, gone, root, req, op, task, loop, rows, files, old, others, faults>>
    BY <1>9 DEF vars, accounts, data
  <2>2. Types' /\ (\A r \in Requests : Deletion(r)')
    BY <2>1 DEF Inv, Types, Deletion, others
  <2>3. LoopSound' /\ FilesSound' /\ LiveKept'
    BY <2>1 DEF Inv, LoopSound, Unseen, Attached, Staging, others, FilesSound, LiveKept
  <2> QED
    BY <2>2, <2>3 DEF Inv
<1> QED
  BY <1>1, <1>2, <1>3, <1>4, <1>5, <1>6, <1>7, <1>8, <1>9 DEF Next

(* What is true of requests, purges, the cleanup loop and files at every moment,
   and from which the results below are read off.                                *)
THEOREM InvHolds == Spec => []Inv
  BY InitInv, NextInv, PTL DEF Spec

(* Everything keeps its type, and no account is both there and deleted. *)
THEOREM TypeCorrect == Spec => []TypeOK
  BY InvHolds, InvImplies, PTL

(* "Files of live users that are being written right now are never mistaken for
   orphans": whatever deletions, purges, sweeps, saves, faults and restarts do
   meanwhile, what an account there is has a row of keeps its file, but for the
   three exceptions: the directory of a session once a statement has failed, a staged
   image listed as a day old, and one attached between two reads of a sweep.       *)
THEOREM LiveFilesKept == Spec => []LiveKept
  BY InvHolds, InvImplies, PTL

(* An op that says completed is about an account that is gone, and if its result
   carries no error, every row there is of the account was put there by a save that
   ended after the account was gone.                                               *)
THEOREM CompletedMeansGone == Spec => []CompletedIsGone
  BY InvHolds, InvImplies, PTL
=============================================================================
