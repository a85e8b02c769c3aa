------------------------------- MODULE UserData -------------------------------
(***************************************************************************)
(* Accounts, the deletion of an account and the removal of what it owned:  *)
(* the admin handlers of api/auth.py over services/auth_service.py, the    *)
(* background purge and the periodic sweeps of                             *)
(* services/data_cleanup_service.py with the loop of main.py that runs     *)
(* them, and the records of services/ops_service.py that report a deletion.*)
(*                                                                         *)
(* The data of one account, Owner, is followed: one thing of every kind,   *)
(* each with a row in Postgres and a file on the volume.  The receipt and  *)
(* staged kinds are images in the image directory, "session" is the        *)
(* directory _scan_{id}, "backup" the archive.  They differ in who finds   *)
(* them: the query for orphans names seven tables, not the staged images   *)
(* and not the backups; a backup's row goes with the account (FK CASCADE). *)
(* A save that names the staged image promotes it: the row moves from the   *)
(* staged images to the images of a receipt, and the file stays as it is.   *)
(*                                                                         *)
(* Names are fresh: an account that was deleted never comes back.          *)
(***************************************************************************)
EXTENDS Naturals, FiniteSets

CONSTANTS Users,          \* the uids, those of accounts not yet created included
          FirstUsers,     \* the accounts there are at the start
          FirstAdmins,    \* those that are administrators
          Owner,          \* the account whose data is followed
          Root,           \* the account with ADMIN_EMAIL
          Requests,       \* requests of administrators, each made at most once
          Scenarios,      \* bound: what happens in one behaviour, see Scenario
          OrphanDelete,   \* ENABLE_ORPHAN_IMAGE_FILE_DELETE
          OtherRefs,      \* image files that rows of other accounts refer to
          MassFloor,      \* 50: a sweep of at most this many files is never refused
          MaxFaults       \* bound: failed statements and restarts

ASSUME AccountsAssumption ==
  /\ FirstAdmins \subseteq FirstUsers /\ FirstUsers \subseteq Users
  /\ Owner \in FirstUsers /\ Root \in FirstUsers
(* The requests made, what they ask, and what the owner does: things that are *)
(* saved, the staged image attached to a receipt, the session ended.          *)
Scenario == [reqs : SUBSET Requests,
             asked : SUBSET {"create", "delete", "promote", "demote", "rename"},
             does : SUBSET {"receipt", "staged", "backup", "attach", "end"}]
ASSUME ScenarioAssumption == Scenarios \subseteq Scenario
ASSUME SweepAssumption ==
  /\ OrphanDelete \in BOOLEAN
  /\ OtherRefs \in Nat /\ MassFloor \in Nat /\ MaxFaults \in Nat

VARIABLES users, admins, gone, root,  \* the users table; uids deleted so far; who has ADMIN_EMAIL
          req, op, late,              \* handlers; their op records; the ops past OP_STALE_AFTER_SECONDS
          task, loop,                 \* the purge of each deletion; the cleanup loop
          rows, files, old, live,     \* Owner's data; files past their age guard; whether its session is live
          writing,                    \* saves that have written their file and not yet their row
          promoted,                   \* the staged image: "no", "asked" while a save is to promote it, "yes"
          fate, belated,              \* histories, see Promote, LoopListStaged and WriteRow
          scenario,                   \* the bound of this behaviour
          faults

accounts == <<users, admins, gone, root>>
others   == <<live, writing, promoted, fate, belated, scenario>>
data     == <<rows, files, old, others>>
vars == <<accounts, req, op, late, task, loop, data, faults>>

Kinds   == {"receipt", "staged", "session", "backup"}
Images  == {"receipt", "staged"}

Staging  == IF promoted = "yes" THEN {} ELSE rows \cap {"staged"}   \* staged_receipt_images
Attached == (rows \cap Images) \ Staging                          \* receipt_images
Indexed  == Attached \cup (rows \cap {"session"})   \* of the tables that the query for orphans names

NoReq  == [pc |-> "new", kind |-> "none", by |-> Owner, who |-> Owner, ids |-> {}]
NoTask == [pc |-> "off", names |-> {}, ids |-> {}, error |-> FALSE]
Loop(pc, first) == [pc |-> pc, names |-> {}, refs |-> {}, first |-> first]

Init == /\ users = FirstUsers /\ admins = FirstAdmins /\ gone = {} /\ root = {Root}
        /\ req = [r \in Requests |-> NoReq]
        /\ op = [r \in Requests |-> "none"] /\ late = {}
        /\ task = [r \in Requests |-> NoTask]
        /\ loop = Loop("list", TRUE)
        /\ rows = {"session"} /\ files = {"session"} /\ old = {} /\ live = TRUE
        /\ writing = {} /\ promoted = "no" /\ fate = {} /\ belated = {}
        /\ scenario \in Scenarios /\ faults = 0

-----------------------------------------------------------------------------
(* The administrators' handlers.  require_admin and the reads of the target *)
(* come first, then the writes; other handlers run between the two.         *)

Owned(r, S) == IF req[r].who = Owner THEN S ELSE {}

LastOne(who) == who \in admins /\ Cardinality(admins) <= 1

(* admin_create_user: one INSERT under a fresh uid. *)
CreateUser(by, u, admin) ==
  /\ by \in admins /\ u \notin users \cup gone
  /\ users' = users \cup {u}
  /\ admins' = IF admin THEN admins \cup {u} ELSE admins
  /\ UNCHANGED <<gone, root, req, op, late, task, loop, data, faults>>

(* admin_update_user up to its write: the target is read, and the guard on  *)
(* the last administrator is decided.                                       *)
AskUpdate(r, by, who, kind) ==
  /\ req[r].pc = "new" /\ by \in admins /\ who \in users
  /\ kind \notin {"create", "delete"}
  /\ kind = "demote" => ~LastOne(who)
  /\ req' = [req EXCEPT ![r] = [pc |-> "update", kind |-> kind, by |-> by, who |-> who, ids |-> {}]]
  /\ UNCHANGED <<accounts, op, late, task, loop, data, faults>>

(* update_user: one UPDATE; none when the account has gone meanwhile (409). *)
(* "rename" stands for a change of the address the bootstrap looks for.     *)
DoUpdate(r) ==
  LET who == req[r].who  kind == req[r].kind IN
  /\ req[r].pc = "update"
  /\ req' = [req EXCEPT ![r] = [@ EXCEPT !.pc = "done"]]
  /\ admins' = IF who \notin users THEN admins
               ELSE IF kind = "promote" THEN admins \cup {who}
               ELSE IF kind = "demote" THEN admins \ {who} ELSE admins
  /\ root' = IF kind = "rename" THEN root \ {who} ELSE root
  /\ UNCHANGED <<users, gone, op, late, task, loop, data, faults>>

(* admin_delete_user up to start_op. *)
AskDelete(r, by, who) ==
  /\ req[r].pc = "new" /\ by \in admins /\ by # who /\ who \in users
  /\ ~LastOne(who)
  /\ req' = [req EXCEPT ![r] = [pc |-> "capture", kind |-> "delete", by |-> by, who |-> who, ids |-> {}]]
  /\ op' = [op EXCEPT ![r] = "running"]
  /\ UNCHANGED <<accounts, late, task, loop, data, faults>>

(* delete_user reads the ids of the backups before the cascade takes them. *)
CaptureBackups(r) ==
  /\ req[r].pc = "capture"
  /\ req' = [req EXCEPT ![r] = [@ EXCEPT !.pc = "delete", !.ids = Owned(r, rows \cap {"backup"})]]
  /\ UNCHANGED <<accounts, op, late, task, loop, data, faults>>

(* delete_user's DELETE of the row, and the purge scheduled after it.  When  *)
(* the row has gone already the handler answers 404 and leaves its op.       *)
DeleteUser(r) ==
  LET who == req[r].who IN
  /\ req[r].pc = "delete"
  /\ users' = users \ {who} /\ admins' = admins \ {who} /\ gone' = gone \cup {who}
  /\ root' = root \ {who}
  /\ rows' = rows \ Owned(r, {"backup"})
  /\ task' = IF who \in users THEN [task EXCEPT ![r] = [NoTask EXCEPT !.pc = "read", !.ids = req[r].ids]]
             ELSE task
  /\ req' = [req EXCEPT ![r] = [@ EXCEPT !.pc = "done", !.ids = {}]]
  /\ UNCHANGED <<op, late, loop, files, old, others, faults>>

-----------------------------------------------------------------------------
(* force_user_cleanup, one task per deletion. *)

ToTask(r, pc, t) == task' = [task EXCEPT ![r] = [t EXCEPT !.pc = pc]]

(* purge_user_data: the SELECTs of what the user owns, the staged images last. *)
PurgeRead(r) ==
  /\ task[r].pc = "read"
  /\ ToTask(r, "readStaged", [task[r] EXCEPT !.names = Owned(r, rows \ Staging)])
  /\ UNCHANGED <<accounts, req, op, late, loop, data, faults>>

PurgeReadStaged(r) ==
  /\ task[r].pc = "readStaged"
  /\ ToTask(r, "purge", [task[r] EXCEPT !.names = @ \cup Owned(r, Staging)])
  /\ UNCHANGED <<accounts, req, op, late, loop, data, faults>>

(* The DELETEs of one transaction, from the receipts to the staged images: a *)
(* promotion that commits between the two keeps its image.                   *)
Escapes(S) == IF promoted = "asked" THEN SUBSET (S \cap Staging) ELSE {{}}

DeleteRows(S, kept) ==
  /\ rows' = rows \ (S \ kept) /\ belated' = belated \cup kept
  /\ promoted' = IF kept = {} THEN promoted ELSE "yes"
  /\ UNCHANGED <<files, old, live, writing, fate, scenario>>

(* Mutant: a table is missing from _USER_TABLES. *)
PurgeRowsButSessions(r) ==
  /\ task[r].pc = "purge"
  /\ DeleteRows(Owned(r, Kinds \ {"session"}), {})
  /\ ToTask(r, "files", task[r])
  /\ UNCHANGED <<accounts, req, op, late, loop, faults>>

(* purge_user_data: one transaction over _USER_TABLES. *)
PurgeRows(r) ==
  /\ task[r].pc = "purge"
  /\ \E kept \in Escapes(Owned(r, Kinds)) : DeleteRows(Owned(r, Kinds), kept)
  /\ ToTask(r, "files", task[r])
  /\ UNCHANGED <<accounts, req, op, late, loop, faults>>

(* purge_user_data: the files of what it has read. *)
PurgeFiles(r) ==
  /\ task[r].pc = "files"
  /\ files' = files \ task[r].names /\ old' = old \ task[r].names
  /\ ToTask(r, "captured", [task[r] EXCEPT !.names = {}])
  /\ UNCHANGED <<accounts, req, op, late, loop, rows, others, faults>>

(* The purge raises: the op is marked failed and the cleanup goes on. *)
PurgeFails(r) ==
  /\ task[r].pc \in {"read", "readStaged", "purge"} /\ faults < MaxFaults
  /\ faults' = faults + 1
  /\ op' = [op EXCEPT ![r] = "failed"]
  /\ ToTask(r, "captured", [task[r] EXCEPT !.names = {}, !.error = TRUE])
  /\ UNCHANGED <<accounts, req, late, loop, data>>

(* The archives captured before the cascade. *)
RemoveCaptured(r) ==
  /\ task[r].pc = "captured"
  /\ files' = files \ task[r].ids /\ old' = old \ task[r].ids
  /\ ToTask(r, "backups", [task[r] EXCEPT !.ids = {}])
  /\ UNCHANGED <<accounts, req, op, late, loop, rows, others, faults>>

(* _sweep_orphan_backup_files: archives without a row, past the age guard. *)
OrphanBackups == {k \in {"backup"} : k \notin rows /\ k \in old}

(* _sweep_stale_temp_dirs: directories past their age, those of live sessions *)
(* excepted; when the query for the live ones fails, none is excepted.        *)
StaleDirs(blind) ==
  {k \in {"session"} : k \in old /\ (blind \/ ~(k \in rows /\ live))}

Remove(S) == files' = files \ S /\ old' = old \ S

TaskSweepBackups(r) ==
  /\ task[r].pc = "backups" /\ Remove(OrphanBackups)
  /\ ToTask(r, "temp", task[r])
  /\ UNCHANGED <<accounts, req, op, late, loop, rows, others, faults>>

TaskSweepDirs(r, blind) ==
  /\ task[r].pc = "temp" /\ Remove(StaleDirs(blind))
  /\ blind => faults < MaxFaults
  /\ faults' = IF blind THEN faults + 1 ELSE faults
  /\ ToTask(r, "finish", task[r])
  /\ UNCHANGED <<accounts, req, op, late, loop, rows, others>>

(* The last update of the op, whatever became of the purge. *)
TaskFinish(r) ==
  /\ task[r].pc = "finish"
  /\ op' = [op EXCEPT ![r] = "completed"]
  /\ ToTask(r, "off", task[r])
  /\ UNCHANGED <<accounts, req, late, loop, data, faults>>

TaskStep(r) ==
  \/ PurgeRead(r) \/ PurgeReadStaged(r) \/ PurgeRows(r) \/ PurgeFiles(r) \/ RemoveCaptured(r)
  \/ TaskSweepBackups(r) \/ TaskSweepDirs(r, FALSE) \/ TaskFinish(r)

-----------------------------------------------------------------------------
(* _cleanup_loop of main.py: cleanup_orphaned_data, then the watchdog.  The  *)
(* first pass after a start has no watchdog.                                 *)

ToLoop(pc) == loop' = [loop EXCEPT !.pc = pc]

(* Mutant: receipts are missing from the query. *)
OwnerOfSessionIsOrphan == Owner \notin users /\ "session" \in rows

OwnerIsOrphan == Owner \notin users /\ Indexed # {}

(* The query for orphans. *)
LoopList ==
  /\ loop.pc = "list" /\ ToLoop(IF OwnerIsOrphan THEN "read" ELSE "backups")
  /\ UNCHANGED <<accounts, req, op, late, task, data, faults>>

LoopRead ==
  /\ loop.pc = "read" /\ loop' = [loop EXCEPT !.pc = "readStaged", !.names = rows \ Staging]
  /\ UNCHANGED <<accounts, req, op, late, task, data, faults>>

LoopReadStaged ==
  /\ loop.pc = "readStaged" /\ loop' = [loop EXCEPT !.pc = "purge", !.names = @ \cup Staging]
  /\ UNCHANGED <<accounts, req, op, late, task, data, faults>>

LoopPurge ==
  /\ loop.pc = "purge" /\ ToLoop("files")
  /\ \E kept \in Escapes(Kinds) : DeleteRows(Kinds, kept)
  /\ UNCHANGED <<accounts, req, op, late, task, faults>>

LoopFiles ==
  /\ loop.pc = "files" /\ Remove(loop.names)
  /\ loop' = [loop EXCEPT !.pc = "backups", !.names = {}]
  /\ UNCHANGED <<accounts, req, op, late, task, rows, others, faults>>

LoopSweepBackups ==
  /\ loop.pc = "backups" /\ Remove(OrphanBackups) /\ ToLoop("refs")
  /\ UNCHANGED <<accounts, req, op, late, task, rows, others, faults>>

(* _sweep_orphan_image_files: the references, a query for each table: the    *)
(* covers of the receipts, then their images, then the staged images and the *)
(* items of the sessions, which name none of ours.                           *)
Reads == [refs     |-> [next |-> "attached", found |-> rows \cap {"receipt"}],
          attached |-> [next |-> "staging",  found |-> Attached],
          staging  |-> [next |-> "images",   found |-> Staging]]

(* Mutant: the staged images are missing from the references. *)
LoopRefsButStaged ==
  /\ loop.pc \in DOMAIN Reads
  /\ loop' = [loop EXCEPT !.pc = Reads[@].next,
                         !.refs = @ \cup (Reads[loop.pc].found \ Staging)]
  /\ UNCHANGED <<accounts, req, op, late, task, data, faults>>

LoopRefs ==
  /\ loop.pc \in DOMAIN Reads
  /\ loop' = [loop EXCEPT !.pc = Reads[@].next, !.refs = @ \cup Reads[loop.pc].found]
  /\ UNCHANGED <<accounts, req, op, late, task, data, faults>>

Candidates == {k \in files \cap Images : k \notin loop.refs /\ k \in old}

Trusted(S) == LET known == OtherRefs + Cardinality(loop.refs) IN
  /\ known > 0
  /\ Cardinality(S) <= IF known > MassFloor THEN known ELSE MassFloor

LoopSweepImages ==
  /\ loop.pc = "images"
  /\ Remove(IF OrphanDelete /\ Trusted(Candidates) THEN Candidates ELSE {})
  /\ loop' = [loop EXCEPT !.pc = "temp", !.refs = {}]
  /\ UNCHANGED <<accounts, req, op, late, task, rows, others, faults>>

LoopSweepDirs(blind) ==
  /\ loop.pc = "temp" /\ Remove(StaleDirs(blind)) /\ ToLoop("staged")
  /\ blind => faults < MaxFaults
  /\ faults' = IF blind THEN faults + 1 ELSE faults
  /\ UNCHANGED <<accounts, req, op, late, task, rows, others>>

(* sweep_stale_staged_images: staged rows of a day (their files may have gone *)
(* already) are listed, then their files go, then the rows.                   *)
LoopListStaged ==
  LET S == {k \in Staging : k \in old \/ k \notin files} IN
  /\ loop.pc = "staged" /\ loop' = [loop EXCEPT !.pc = "unlink", !.names = S]
  /\ fate' = IF S = {} THEN fate ELSE fate \cup {"listed"}
  /\ UNCHANGED <<accounts, req, op, late, task, rows, files, old, live, writing, promoted, belated, scenario,
                 faults>>

LoopUnlinkStaged ==
  /\ loop.pc = "unlink" /\ Remove(loop.names) /\ ToLoop("unstage")
  /\ UNCHANGED <<accounts, req, op, late, task, rows, others, faults>>

PassEnds == loop' = IF loop.first THEN Loop("list", FALSE) ELSE Loop("watch", FALSE)

LoopDropStaged ==
  /\ loop.pc = "unstage" /\ rows' = rows \ (loop.names \cap Staging) /\ PassEnds
  /\ UNCHANGED <<accounts, req, op, late, task, files, old, others, faults>>

(* Mutant: the watchdog looks for ops in an index that has none of them. *)
WatchdogFindsNone ==
  /\ loop.pc = "watch" /\ ToLoop("list")
  /\ UNCHANGED <<accounts, req, op, late, task, data, faults>>

(* finalize_stale_ops: what has run too long has failed. *)
Watchdog ==
  /\ loop.pc = "watch" /\ ToLoop("list")
  /\ op' = [r \in Requests |-> IF op[r] = "running" /\ r \in late THEN "failed" ELSE op[r]]
  /\ UNCHANGED <<accounts, req, late, task, data, faults>>

(* A statement of the sweep fails: purges are tried one by one, anything else *)
(* ends the pass.                                                             *)
LoopFails ==
  /\ loop.pc \in {"list", "read", "readStaged", "purge", "backups", "refs", "attached", "staging", "staged", "unstage"}
  /\ faults < MaxFaults /\ faults' = faults + 1
  /\ IF loop.pc \in {"read", "readStaged", "purge"} THEN loop' = [loop EXCEPT !.pc = "backups", !.names = {}]
     ELSE PassEnds
  /\ UNCHANGED <<accounts, req, op, late, task, data>>

LoopStep ==
  \/ LoopList \/ LoopRead \/ LoopReadStaged \/ LoopPurge \/ LoopFiles \/ LoopSweepBackups \/ LoopRefs
  \/ LoopSweepImages \/ LoopSweepDirs(FALSE) \/ LoopListStaged \/ LoopUnlinkStaged \/ LoopDropStaged
  \/ Watchdog

-----------------------------------------------------------------------------
(* What the owner's own requests and scans do meanwhile: a file, then its row. *)

WriteFile(k) ==
  /\ k \in scenario.does /\ Owner \in users /\ k \notin rows \cup files \cup writing
  /\ files' = files \cup {k} /\ writing' = writing \cup {k}
  /\ UNCHANGED <<accounts, req, op, late, task, loop, rows, old, live, promoted, fate, belated, scenario, faults>>

(* The account may have gone: only the backups have a foreign key to it.     *)
(* belated: kinds a save has put into a table since the account is gone.     *)
WriteRow(k) ==
  /\ k \in writing
  /\ writing' = writing \ {k}
  /\ rows' = IF k # "backup" \/ Owner \in users THEN rows \cup {k} ELSE rows
  /\ belated' = IF Owner \in users THEN belated ELSE belated \cup {k}
  /\ UNCHANGED <<accounts, req, op, late, task, loop, files, old, live, promoted, fate, scenario, faults>>

(* A receipt is saved with the staged image: the request, and the transaction *)
(* of promote_staged_images.                                                  *)
AskPromote ==
  /\ "attach" \in scenario.does /\ Owner \in users /\ Staging # {} /\ promoted = "no"
  /\ promoted' = "asked"
  /\ UNCHANGED <<accounts, req, op, late, task, loop, rows, files, old, live, writing, fate, belated, scenario,
                 faults>>

(* fate: "crossed" when this falls between the reads of a sweep's references  *)
(* from the images of receipts and from the staged ones.                      *)
Promote ==
  /\ promoted = "asked" /\ Staging # {}
  /\ promoted' = "yes"
  /\ fate' = IF loop.pc = "staging" THEN fate \cup {"crossed"} ELSE fate
  /\ belated' = IF Owner \in users THEN belated ELSE belated \cup {"staged"}
  /\ UNCHANGED <<accounts, req, op, late, task, loop, rows, files, old, live, writing, scenario, faults>>

SessionEnds ==
  /\ "end" \in scenario.does /\ live /\ live' = FALSE
  /\ UNCHANGED <<accounts, req, op, late, task, loop, rows, files, old, writing, promoted, fate, belated, scenario,
                 faults>>

(* Time passes.  The guards are ten minutes and more, longer than a save takes *)
(* from its file to its row and a sweep from its references to its directory.  *)
Age(k) ==
  /\ k \in files \ (old \cup writing) /\ loop.pc \notin {"attached", "staging", "images"}
  /\ old' = old \cup {k}
  /\ UNCHANGED <<accounts, req, op, late, task, loop, rows, files, others, faults>>

OpAge(r) ==
  /\ op[r] = "running" /\ r \notin late /\ late' = late \cup {r}
  /\ UNCHANGED <<accounts, req, op, task, loop, data, faults>>

(* The server stops and starts: handlers, purges and saves are lost, and      *)
(* bootstrap_admin creates an administrator when no account has ADMIN_EMAIL.  *)
Restart(u) ==
  /\ faults < MaxFaults /\ faults' = faults + 1
  /\ IF root = {} THEN /\ u \in Users \ (users \cup gone)
                       /\ users' = users \cup {u} /\ admins' = admins \cup {u} /\ root' = {u}
                  ELSE u = Root /\ UNCHANGED <<users, admins, root>>
  /\ req' = [r \in Requests |-> IF req[r].pc = "new" THEN req[r] ELSE [req[r] EXCEPT !.pc = "done", !.ids = {}]]
  /\ task' = [r \in Requests |-> [NoTask EXCEPT !.error = task[r].error]]
  /\ loop' = Loop("list", TRUE) /\ writing' = {}
  /\ promoted' = IF promoted = "asked" THEN "no" ELSE promoted
  /\ UNCHANGED <<gone, op, late, rows, files, old, live, fate, belated, scenario>>

-----------------------------------------------------------------------------
Next == \/ /\ "create" \in scenario.asked
           /\ \E by, u \in Users, admin \in BOOLEAN : CreateUser(by, u, admin)
        \/ \E r \in scenario.reqs, by, who \in Users :
             \/ "delete" \in scenario.asked /\ AskDelete(r, by, who)
             \/ \E kind \in scenario.asked : AskUpdate(r, by, who, kind)
        \/ \E r \in Requests : \/ DoUpdate(r) \/ CaptureBackups(r) \/ DeleteUser(r)
                               \/ TaskStep(r) \/ PurgeFails(r) \/ TaskSweepDirs(r, TRUE)
                               \/ OpAge(r)
        \/ LoopStep \/ LoopFails \/ LoopSweepDirs(TRUE)
        \/ \E k \in Kinds : WriteFile(k) \/ WriteRow(k) \/ Age(k)
        \/ AskPromote \/ Promote \/ SessionEnds
        \/ \E u \in Users : Restart(u)

Spec == Init /\ [][Next]_vars

(* The loop and the background tasks run as long as the server does, a save *)
(* that is under way ends, and time passes.  Requests come when they come.  *)
FairSpec == /\ Spec
            /\ WF_vars(LoopStep)
            /\ WF_vars(\E r \in Requests : TaskStep(r))
            /\ WF_vars(\E r \in Requests : DoUpdate(r) \/ CaptureBackups(r) \/ DeleteUser(r))
            /\ WF_vars(\E k \in Kinds : WriteRow(k))
            /\ WF_vars(\E r \in Requests : OpAge(r))
            /\ SF_vars(\E k \in Kinds : Age(k))

-----------------------------------------------------------------------------
(* Everything has its type; an administrator has an account. *)
TypeOK ==
  /\ users \subseteq Users /\ admins \subseteq users /\ gone \subseteq Users /\ root \subseteq users
  /\ users \cap gone = {}
  /\ \A r \in Requests :
       /\ req[r].pc \in {"new", "update", "capture", "delete", "done"} /\ req[r].ids \subseteq Kinds
       /\ task[r].pc \in {"off", "read", "readStaged", "purge", "files", "captured", "backups", "temp", "finish"}
       /\ task[r].names \cup task[r].ids \subseteq Kinds
       /\ op[r] \in {"none", "running", "completed", "failed"}
  /\ loop.pc \in {"list", "read", "readStaged", "purge", "files", "backups", "refs", "attached", "staging", "images",
                  "temp", "staged", "unlink", "unstage", "watch"}
  /\ rows \cup files \cup writing \cup belated \subseteq Kinds /\ old \subseteq files
  /\ promoted \in {"no", "asked", "yes"} /\ fate \subseteq {"crossed", "listed"}
  /\ faults \in 0..MaxFaults

(* "Files of live users that are being written right now are never mistaken *)
(* for orphans" (data_cleanup_service.py:22-23), and no purge or sweep takes *)
(* the file of a row of an account there is, whatever deletions are under    *)
(* way, but in three cases: the directory of a session when a statement has  *)
(* failed; a staged image that was listed as a day old, attached since or    *)
(* not; and one attached between two reads of a sweep, if sweeps delete.     *)
LiveKept == Owner \in users => \A k \in rows :
  \/ k \in files
  \/ k = "session" /\ (~live \/ faults > 0)
  \/ k = "staged" /\ ("listed" \in fate \/ ("crossed" \in fate /\ OrphanDelete))

(* "Files referenced by any live receipt or session item are never touched"  *)
(* (data_cleanup_service.py:228-229): without the exceptions.                *)
ReferencedKept == Owner \in users => Attached \subseteq files

(* "Protect live prepared/processing sessions - they are durable for weeks" *)
(* (data_cleanup_service.py:330).                                           *)
LiveDirKept == (Owner \in users /\ live) => "session" \in files

(* An op that says completed, and whose result carries no error, is about an *)
(* account of which every row has been deleted: what rows there are a save   *)
(* has put there since the account went.  With an error in its result, or    *)
(* without, the account is gone.                                             *)
CompletedIsGone == \A r \in Requests : op[r] = "completed" =>
  /\ req[r].who \in gone
  /\ (req[r].who = Owner /\ ~task[r].error) => rows \subseteq belated

(* An op that says completed has purged: its purge has not raised. *)
CompletedIsPurged == \A r \in Requests : op[r] = "completed" => ~task[r].error

(* "Guarded against deleting yourself or the last admin" (api/auth.py): there *)
(* is always an administrator.                                                *)
AdminRemains == admins # {}

(* The data of a deleted account is gone in the end, rows and files, also when *)
(* its purge fails or dies, and when saves under way end after it.             *)
DataGoes == (Owner \in gone) ~> [](rows = {} /\ files = {})

(* "Without it the admin UI would poll a phantom row forever" (ops_service.py): *)
(* every op ends.                                                               *)
OpsEnd == \A r \in Requests : (op[r] = "running") ~> (op[r] \in {"completed", "failed"})

=============================================================================
