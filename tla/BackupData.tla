------------------------------ MODULE BackupData ------------------------------
(***************************************************************************)
(* The content of a backup: export_user_data and import_user_data of       *)
(* services/backup_service.py, the latter called by import_backup of       *)
(* api/backup_api.py.  Owner's account is exported with one SELECT after    *)
(* the other, each seeing what is committed by then, and the files that    *)
(* exist are packed.  Owner goes on working meanwhile and afterwards        *)
(* (edits, removes and adds images, deletes).  The archive is imported     *)
(* into Owner's account or another one, with any of the options, by        *)
(* several requests at once, some of which die.                            *)
(*                                                                         *)
(* The import is one transaction over the tables and then, outside of it,  *)
(* one write per packed file.  The inserts of the child rows are each      *)
(* wrapped in try/except inside the transaction: when one fails, Postgres  *)
(* refuses every later statement and turns the COMMIT into a rollback,     *)
(* without telling the client, so nothing of the import is stored.         *)
(***************************************************************************)
EXTENDS Naturals, FiniteSets

CONSTANTS Users, Owner,   \* accounts; the one the archive was made from
          Receipts,       \* Owner's receipts
          Images,         \* image ids: those at the start and later ones
          Start,          \* those that are there at the start
          Atfirst,        \* the images at the start: records [id, rcp, ord]
          Content,        \* the image (sha256) behind each image id
          Requests,       \* imports, each made once
          Bounds          \* bounds of a behaviour: [imports, drift, faults], how many
                          \* imports, changes by Owner, and deaths of imports

Copy(r) == [copy |-> r]                      \* the fresh id a remap gives
Orders  == 0..1

(* What is assumed of the constants: fresh ids are fresh; the images at the    *)
(* start have an id and a place each, and no place before them is free.        *)
ArchiveAssumption ==
  /\ Owner \in Users /\ Bounds \subseteq [imports : Nat, drift : Nat, faults : Nat]
  /\ \A r \in Receipts : Copy(r) \notin Receipts
  /\ Start \subseteq Receipts /\ Atfirst \subseteq [id : Images, rcp : Start, ord : Orders]
  /\ \A c, d \in Atfirst : c.id = d.id \/ (c.rcp = d.rcp /\ c.ord = d.ord) => c = d
  /\ \A c \in Atfirst : c.ord = 1 => \E d \in Atfirst : d.rcp = c.rcp /\ d.ord = 0
  /\ IsFiniteSet(Images) /\ DOMAIN Content = Images

VARIABLES receipt,   \* the receipts table: a record, or NoRow
          image,     \* receipt_images: [rcp, ord], or NoRow
          file,      \* the file of each image: "none", "cut" or "ok"
          arch,      \* the archive as far as it is made
          upload,    \* per account, whether _import_{user}.tar.gz is there
          req,       \* the imports
          dirty,     \* imports since whose transaction something else has changed
          bound,     \* the bounds of this behaviour
          drift, faults

store == <<receipt, image, file>>
vars  == <<store, arch, upload, req, dirty, bound, drift, faults>>

NoRow   == [none |-> TRUE]
Rids    == Receipts \cup {Copy(r) : r \in Receipts}

(* ver is the version of the receipt's own fields; items are its line items,  *)
(* each a position and the version it was written with.                       *)
Row(u, ver, items) == [owner |-> u, ver |-> ver, items |-> items]
Original == {<<0, 0>>, <<1, 0>>}

NewReq == [pc |-> "new", by |-> Owner, conflict |-> "skip", external |-> "reject", sel |-> {},
           mapped |-> {}, aborted |-> FALSE, todo |-> {}]

RowIn(S, i) == IF \E c \in S : c.id = i
               THEN LET c == CHOOSE c \in S : c.id = i IN [rcp |-> c.rcp, ord |-> c.ord]
               ELSE NoRow

Init ==
  /\ receipt = [r \in Rids |-> IF r \in Start THEN Row(Owner, 0, Original) ELSE NoRow]
  /\ image = [i \in Images |-> RowIn(Atfirst, i)]
  /\ file = [i \in Images |-> IF RowIn(Atfirst, i) # NoRow THEN "ok" ELSE "none"]
  /\ arch = [pc |-> "receipts", ver |-> <<>>, items |-> <<>>, rows |-> {}, files |-> {}]
  /\ upload = [u \in Users |-> FALSE]
  /\ req = [p \in Requests |-> NewReq]
  /\ dirty = {} /\ bound \in Bounds /\ drift = 0 /\ faults = 0

Exists(r)   == receipt[r] # NoRow
Attached(i) == image[i] # NoRow
Of(r)       == {i \in Images : Attached(i) /\ image[i].rcp = r}
Holder(i)   == receipt[image[i].rcp].owner

-----------------------------------------------------------------------------
(* What Owner does to the receipts after the backup; ReceiptImages and        *)
(* ReceiptWorkflow have these steps in detail.                                *)

Drift ==
  /\ drift < bound.drift /\ drift' = drift + 1 /\ dirty' = Requests
  /\ UNCHANGED <<arch, upload, req, bound, faults>>

Create(r) ==
  /\ Drift /\ ~Exists(r) /\ r \notin Start
  /\ receipt' = [receipt EXCEPT ![r] = Row(Owner, 0, Original)]
  /\ UNCHANGED <<image, file>>

(* An edit replaces the line items. *)
Edit(r) ==
  /\ Drift /\ Exists(r)
  /\ receipt' = [receipt EXCEPT ![r] = Row(@.owner, 1, {<<0, 1>>})]
  /\ UNCHANGED <<image, file>>

(* Removing the first image renumbers the others. *)
RemoveFirst(r) ==
  /\ Drift /\ Of(r) # {}
  /\ image' = [i \in Images |-> IF i \notin Of(r) THEN image[i]
                                ELSE IF image[i].ord = 0 THEN NoRow ELSE [image[i] EXCEPT !.ord = @ - 1]]
  /\ file' = [i \in Images |-> IF i \in Of(r) /\ image[i].ord = 0 THEN "none" ELSE file[i]]
  /\ UNCHANGED receipt

Delete(r) ==
  /\ Drift /\ Exists(r)
  /\ receipt' = [receipt EXCEPT ![r] = NoRow]
  /\ image' = [i \in Images |-> IF i \in Of(r) THEN NoRow ELSE image[i]]
  /\ file' = [i \in Images |-> IF i \in Of(r) THEN "none" ELSE file[i]]

(* An image is uploaded again, under an id that is new, also to the archive; an *)
(* account has it only once.                                                  *)
Upload(i, r) ==
  LET n == Cardinality(Of(r)) IN
  /\ Drift /\ Exists(r) /\ n \in Orders
  /\ ~Attached(i) /\ file[i] = "none" /\ \A c \in Atfirst \cup arch.rows : c.id # i
  /\ \A j \in Images : Attached(j) /\ Holder(j) = receipt[r].owner => Content[j] # Content[i]
  /\ image' = [image EXCEPT ![i] = [rcp |-> r, ord |-> n]]
  /\ file' = [file EXCEPT ![i] = "ok"]
  /\ UNCHANGED receipt

-----------------------------------------------------------------------------
(* The export: the receipts; then the line items and the image rows of those  *)
(* receipts; then the files of the rows that exist.  One step for each await.  *)

ExportRest == UNCHANGED <<store, upload, req, dirty, bound, drift, faults>>

ReadReceipts ==
  /\ arch.pc = "receipts"
  /\ LET mine == {r \in Receipts : Exists(r) /\ receipt[r].owner = Owner} IN
     arch' = [arch EXCEPT !.pc = "items", !.ver = [r \in mine |-> receipt[r].ver]]
  /\ ExportRest

ReadItems ==
  /\ arch.pc = "items"
  /\ arch' = [arch EXCEPT !.pc = "images",
                 !.items = [r \in DOMAIN arch.ver |-> IF Exists(r) THEN receipt[r].items ELSE {}]]
  /\ ExportRest

(* Mutant: the image rows of the account, whatever receipts were read. *)
ReadAllImages ==
  /\ arch.pc = "images"
  /\ arch' = [arch EXCEPT !.pc = "pack",
                 !.rows = {[id |-> i, rcp |-> image[i].rcp, ord |-> image[i].ord] : i \in {j \in Images : Attached(j)}}]
  /\ ExportRest

ReadImages ==
  /\ arch.pc = "images"
  /\ arch' = [arch EXCEPT !.pc = "pack",
                 !.rows = {[id |-> i, rcp |-> image[i].rcp, ord |-> image[i].ord] :
                              i \in {j \in Images : Attached(j) /\ image[j].rcp \in DOMAIN arch.ver}}]
  /\ ExportRest

Pack ==
  /\ arch.pc = "pack"
  /\ arch' = [arch EXCEPT !.pc = "made", !.files = {c.id : c \in {d \in arch.rows : file[d.id] # "none"}}]
  /\ ExportRest

-----------------------------------------------------------------------------
(* The import. *)

Others(p) == dirty' = dirty \cup (Requests \ {p})

(* import_backup: the archive is copied to a path that depends on the account *)
(* only, and read from there before anything else runs.                       *)
Receive(p, u, conflict, external, sel) ==
  /\ arch.pc = "made" /\ sel # {} /\ sel \subseteq DOMAIN arch.ver
  /\ req[p].pc = "new" /\ Cardinality({o \in Requests : req[o].pc # "new"}) < bound.imports
  /\ req' = [req EXCEPT ![p] = [NewReq EXCEPT !.pc = "import", !.by = u, !.conflict = conflict,
                                              !.external = external, !.sel = sel]]
  /\ upload' = [upload EXCEPT ![u] = TRUE]
  /\ UNCHANGED <<store, arch, dirty, bound, drift, faults>>

(* Receipts of the selection that another account owns. *)
External(q) == {r \in q.sel : Exists(r) /\ receipt[r].owner # q.by}

(* The id a receipt of the archive is imported under. *)
Target(q, r) == IF r \in External(q) THEN Copy(r) ELSE r
Places(q) == {Target(q, r) : r \in q.sel}

Archived(t) == CHOOSE r \in Receipts : t \in {r, Copy(r)}
Version(t)  == arch.ver[Archived(t)]

(* Mutant: an overwrite keeps the line items. *)
OverwriteFields(q) == [r \in Rids |->
  IF r \notin Places(q) THEN receipt[r]
  ELSE IF ~Exists(r) THEN Row(q.by, Version(r), {})
  ELSE IF q.conflict = "skip" THEN receipt[r]
  ELSE [receipt[r] EXCEPT !.ver = Version(r)]]

(* The receipts after the loop over them: those that exist are skipped,       *)
(* deleted and inserted anew, or updated in place; only a deletion takes the  *)
(* line items and images with it.                                             *)
Receipts1(q) == [r \in Rids |->
  IF r \notin Places(q) THEN receipt[r]
  ELSE IF ~Exists(r) \/ q.conflict = "overwrite" THEN Row(q.by, Version(r), {})
  ELSE IF q.conflict = "skip" THEN receipt[r]
  ELSE [receipt[r] EXCEPT !.ver = Version(r)]]
Images1(q) == [i \in Images |->
  IF Attached(i) /\ image[i].rcp \in Places(q) /\ q.conflict = "overwrite" THEN NoRow ELSE image[i]]

Children(q) == {c \in arch.rows : c.rcp \in q.sel}

(* ON CONFLICT (receipt_id, sort_order) DO NOTHING: only a free place is tried. *)
Tried(q) == {c \in Children(q) :
  ~\E i \in Images : Images1(q)[i] = [rcp |-> Target(q, c.rcp), ord |-> c.ord]}

(* An insert fails on the primary key, or on the index on (user, sha256). *)
Fails(q, c) ==
  \/ Images1(q)[c.id] # NoRow
  \/ \E i \in Images : /\ Images1(q)[i] # NoRow /\ Content[i] = Content[c.id]
                       /\ Receipts1(q)[Images1(q)[i].rcp].owner = q.by
Aborted(q) == \E c \in Tried(q) : Fails(q, c)

Receipts2(q) == [r \in Rids |->
  IF r \in Places(q) /\ Receipts1(q)[r] # NoRow
  THEN [Receipts1(q)[r] EXCEPT !.items = @ \cup {x \in arch.items[Archived(r)] : \A y \in @ : x[1] # y[1]}]
  ELSE Receipts1(q)[r]]
Images2(q) == [i \in Images |->
  IF \E c \in Tried(q) : c.id = i
  THEN LET c == CHOOSE c \in Tried(q) : c.id = i IN [rcp |-> Target(q, c.rcp), ord |-> c.ord]
  ELSE Images1(q)[i]]

(* Only of a completed import is the rest remembered. *)
Ended(p, pc) == req' = [req EXCEPT ![p] = IF pc = "completed" THEN [@ EXCEPT !.pc = pc]
                                          ELSE [NewReq EXCEPT !.pc = pc]]

(* Receipts of others are rejected: 409, and nothing is imported. *)
Refuse(p) ==
  LET q == req[p] IN
  /\ q.pc = "import" /\ q.external = "reject" /\ External(q) # {}
  /\ Ended(p, "failed") /\ upload' = [upload EXCEPT ![q.by] = FALSE]
  /\ UNCHANGED <<store, arch, dirty, bound, drift, faults>>

(* The transaction.  The ids of a remap are fresh. *)
Import(p) ==
  LET q == req[p] IN
  /\ q.pc = "import"
  /\ External(q) # {} => q.external = "remap" /\ \A r \in External(q) : ~Exists(Copy(r))
  /\ req' = [req EXCEPT ![p] = [q EXCEPT !.pc = "open", !.mapped = External(q), !.aborted = Aborted(q)]]
  /\ IF Aborted(q) THEN UNCHANGED <<receipt, image>>
                   ELSE receipt' = Receipts2(q) /\ image' = Images2(q)
  /\ dirty' = (dirty \cup Requests) \ {p}
  /\ UNCHANGED <<file, arch, upload, bound, drift, faults>>

(* Mutant: the files of the cover only. *)
WantedCovers(q) == arch.files \cap {c.id : c \in {d \in Children(q) : d.ord = 0}}

(* The packed files that belong to the selection, named by their image ids. *)
Wanted(q) == arch.files \cap {c.id : c \in Children(q)}

(* The archive is opened a second time for the files; another import into the *)
(* account may have removed it (500, after the commit).                       *)
Open(p) ==
  LET q == req[p] IN
  /\ q.pc = "open"
  /\ IF upload[q.by] THEN req' = [req EXCEPT ![p] = [q EXCEPT !.pc = "files", !.todo = Wanted(q)]]
                     ELSE Ended(p, "failed")
  /\ UNCHANGED <<store, arch, upload, dirty, bound, drift, faults>>

(* One file: skipped when it exists and the conflict option says so, else     *)
(* opened for writing, which empties it, and written.                         *)
Skip(p, i) ==
  LET q == req[p] IN
  /\ q.pc = "files" /\ i \in q.todo /\ q.conflict = "skip" /\ file[i] # "none"
  /\ req' = [req EXCEPT ![p] = [q EXCEPT !.todo = @ \ {i}]]
  /\ UNCHANGED <<store, arch, upload, dirty, bound, drift, faults>>

Truncate(p, i) ==
  LET q == req[p] IN
  /\ q.pc = "files" /\ i \in q.todo /\ ~(q.conflict = "skip" /\ file[i] # "none")
  /\ req' = [req EXCEPT ![p] = [q EXCEPT !.pc = "write"]]
  /\ file' = [file EXCEPT ![i] = "cut"] /\ Others(p)
  /\ UNCHANGED <<receipt, image, arch, upload, bound, drift, faults>>

Write(p, i) ==
  LET q == req[p] IN
  /\ q.pc = "write" /\ i \in q.todo /\ file[i] = "cut"
  /\ req' = [req EXCEPT ![p] = [q EXCEPT !.pc = "files", !.todo = @ \ {i}]]
  /\ file' = [file EXCEPT ![i] = "ok"] /\ Others(p)
  /\ UNCHANGED <<receipt, image, arch, upload, bound, drift, faults>>

(* "Import complete", and the uploaded archive goes. *)
Finish(p) ==
  LET q == req[p] IN
  /\ q.pc = "files" /\ q.todo = {}
  /\ Ended(p, "completed") /\ upload' = [upload EXCEPT ![q.by] = FALSE]
  /\ UNCHANGED <<store, arch, dirty, bound, drift, faults>>

Die(p) ==
  /\ req[p].pc \in {"import", "open", "files", "write"} /\ faults < bound.faults
  /\ faults' = faults + 1 /\ Ended(p, "died")
  /\ UNCHANGED <<store, arch, upload, dirty, bound, drift>>

Next ==
  \/ ReadReceipts \/ ReadItems \/ ReadImages \/ Pack
  \/ \E r \in Receipts : Create(r) \/ Edit(r) \/ RemoveFirst(r) \/ Delete(r) \/ \E i \in Images : Upload(i, r)
  \/ \E p \in Requests :
       \/ \E u \in Users, conflict \in {"skip", "overwrite", "merge"},
             external \in {"reject", "remap"}, sel \in SUBSET Receipts :
             Receive(p, u, conflict, external, sel)
       \/ Refuse(p) \/ Import(p) \/ Open(p) \/ Finish(p) \/ Die(p)
       \/ \E i \in Images : Skip(p, i) \/ Truncate(p, i) \/ Write(p, i)

Spec == Init /\ [][Next]_vars

-----------------------------------------------------------------------------
(* Image rows belong to a receipt, and to one place in it each. *)
Hangs == \A i, j \in Images : Attached(i) =>
  Exists(image[i].rcp) /\ image[i].ord \in Orders /\ (image[i] = image[j] => i = j)

Under(q, r) == IF r \in q.mapped THEN Copy(r) ELSE r

(* "Import complete": the receipts that were selected are in the account. *)
ImportTold == \A p \in Requests \ dirty :
  req[p].pc = "completed" => \A r \in req[p].sel : LET t == Under(req[p], r) IN Exists(t) /\ receipt[t].owner = req[p].by

(* The same of an import whose transaction was not rolled back behind its     *)
(* back; every image of the archive then has its place in the receipt taken   *)
(* by an image with a file, and an overwrite has given the receipt back as it *)
(* was.                                                                       *)
CompleteImport == \A p \in Requests \ dirty :
  req[p].pc = "completed" /\ ~req[p].aborted =>
    \A r \in req[p].sel : LET t == Under(req[p], r) IN
      /\ Exists(t) /\ receipt[t].owner = req[p].by
      /\ \A c \in arch.rows : c.rcp = r =>
           \E i \in Images : image[i] = [rcp |-> t, ord |-> c.ord] /\ (c.id \in arch.files => file[i] # "none")
      /\ req[p].conflict = "overwrite" => receipt[t] = Row(req[p].by, arch.ver[r], arch.items[r])

(* The archive hangs together however Owner works during the export: every     *)
(* image row in it has its receipt in it, and every packed file its row.       *)
ArchiveWhole == arch.pc = "made" =>
  /\ \A c \in arch.rows : c.rcp \in DOMAIN arch.items
  /\ arch.files \subseteq {c.id : c \in arch.rows}

(* Image rows belong to a receipt, each to a place of its own; and an attached *)
(* image without a file is one the archive says it has not packed,             *)
(* or is left by an import that died or failed after its transaction, or that  *)
(* is still at it.                                                             *)
RowsReadable ==
  /\ Hangs
  /\ (\A p \in Requests : req[p].pc \in {"new", "completed"}) =>
       \A i \in Images : Attached(i) => file[i] # "none" \/ (arch.pc = "made" /\ i \notin arch.files)

===============================================================================
