--------------------------- MODULE ReceiptImages ---------------------------
(* Receipts, their images, and the three places an image lives in: a file  *)
(* on the volume, a mirror of its bytes in its row, and the cover columns  *)
(* of the receipt (database_service, api/receipts, worker).                *)
(*                                                                         *)
(* An image is known by its content (its sha256).  The thumbnail shares    *)
(* the fate of the file and is not told apart from it, nor is a PDF from a *)
(* JPEG.  One user: the unique index is per user.                          *)
EXTENDS Integers, Sequences, FiniteSetsExt

CONSTANTS
    Receipts,    \* receipt ids that may be issued
    Contents,    \* image contents a user may send
    Uploads,     \* sequences of contents one request may carry
    Requests,    \* handlers and worker items in flight
    Ops,         \* kinds of requests that may arrive
    None,
    MAX_RECEIPT_IMAGES,
    MaxImages,   \* bound: image ids ever issued
    MaxFaults    \* bound: failed statements, crashes and lost volumes

ASSUME ContentsAssumption == None \notin Contents \cup Receipts \cup (1..MaxImages)
ASSUME NamesAssumption == Receipts \cap (1..MaxImages) = {} /\ MaxImages \in Nat
ASSUME UploadsAssumption == Uploads \subseteq Seq(Contents)
ASSUME OpsAssumption == Ops \subseteq {"create", "update", "scan", "delete", "stage", "discard", "view"}

VARIABLES
    files,    \* the image volume: file name -> content
    rcpt,     \* receipt rows: id -> cover columns
    kids,     \* receipt_images rows
    staged,   \* staged_receipt_images rows
    used,     \* receipt ids issued
    issued,   \* image ids issued so far
    req,      \* what each handler is doing
    boot,     \* "up", or the pass of the self-heal that runs before serving
    faults
vars == <<files, rcpt, kids, staged, used, issued, req, boot, faults>>

Ids   == 1..MaxImages
Names == Ids \cup Receipts     \* {image_id}.jpg, or {receipt_id}.jpg
Content == Contents \cup {None}

Child == [id : Ids, receipt : Receipts, sort : 0..(MaxImages - 1), name : Names, sha : Contents, bytes : Content]
Cover == [name : Names \cup {None}, sha : Content, bytes : Content]
Staged == [id : Ids, sha : Contents, bytes : Content]
Idle  == [pc |-> "idle", op |-> "none"]

TypeOK ==
    /\ DOMAIN files \subseteq Names /\ \A n \in DOMAIN files : files[n] \in Contents
    /\ DOMAIN rcpt \subseteq used /\ \A r \in DOMAIN rcpt : rcpt[r] \in Cover
    /\ kids \subseteq Child /\ staged \subseteq Staged
    /\ used \subseteq Receipts /\ issued \in 0..MaxImages
    /\ \A p \in Requests : req[p].pc \in
         {"idle", "lock", "promote", "commit", "report", "row", "select", "unstage"}
    /\ boot \in {"up", "receipts", "images"} /\ faults \in 0..MaxFaults

Init ==
    /\ files = << >> /\ rcpt = << >> /\ kids = {} /\ staged = {}
    /\ used = {} /\ issued = 0
    /\ req = [p \in Requests |-> Idle]
    /\ boot = "up" /\ faults = 0

-----------------------------------------------------------------------------
(* The volume.                                                             *)

Without(f, S)  == [n \in DOMAIN f \ S |-> f[n]]
disk(n)        == IF n \in DOMAIN files THEN files[n] ELSE None
Rewrite(n, c)  == files' = [m \in DOMAIN files \cup {n} |-> IF m = n THEN c ELSE files[m]]
Unlink(S)      == files' = Without(files, S)

(* Files are found under the image id and under the recorded name.         *)
FilesOf(rows) == {k.id : k \in rows} \cup {k.name : k \in rows}

-----------------------------------------------------------------------------
(* Rows.                                                                   *)

Of(S, r)   == {k \in S : k.receipt = r}
NextSort(S, r) == IF Of(S, r) = {} THEN 0 ELSE 1 + Max({k.sort : k \in Of(S, r)})

renumber(S, r) ==
    {IF k.receipt # r THEN k
     ELSE [k EXCEPT !.sort = Cardinality({j \in Of(S, r) : j.sort < k.sort})] : k \in S}

Remove(S, r, drop) ==
    IF \E k \in Of(S, r) : k.id \in drop
    THEN renumber({k \in S : ~(k.receipt = r /\ k.id \in drop)}, r) ELSE S

(* imgs: images whose files were written before, as <<id, name, content>>. *)
insert_receipt_images(S, r, imgs) ==
    S \cup {[id |-> imgs[i].id, receipt |-> r, sort |-> NextSort(S, r) + i - 1, name |-> imgs[i].name,
             sha |-> imgs[i].sha, bytes |-> disk(imgs[i].name)] : i \in DOMAIN imgs}

(* Mutant: the mirror of the staged row is not carried over. *)
PromoteBare(S, r, rows) ==
    S \cup {[id |-> s.id, receipt |-> r, sort |-> NextSort(S, r) + Cardinality({t \in rows : t.id < s.id}),
             name |-> s.id, sha |-> s.sha, bytes |-> None] : s \in {t \in rows : \A k \in S : k.id # t.id}}
(* rows: staged rows as the request read them.  An id that another receipt *)
(* has taken meanwhile is skipped (ON CONFLICT DO NOTHING).                *)
promote_staged_images(S, r, rows) ==
    S \cup {[id |-> s.id, receipt |-> r, sort |-> NextSort(S, r) + Cardinality({t \in rows : t.id < s.id}),
             name |-> s.id, sha |-> s.sha, bytes |-> s.bytes] : s \in {t \in rows : \A k \in S : k.id # t.id}}

(* Mutant: no unique index, the check before the save has to do. *)
NeverTaken(S) == FALSE
(* uq_receipt_images_user_sha256. *)
Taken(S) == \E k \in S, j \in S : k.id # j.id /\ k.sha = j.sha

First(S, r) == CHOOSE k \in Of(S, r) : \A j \in Of(S, r) : k.sort <= j.sort
NoCover == [name |-> None, sha |-> None, bytes |-> None]
sync_receipt_cover(S, r, old) ==
    IF Of(S, r) = {} THEN NoCover
    ELSE LET k == First(S, r)
         IN [name |-> k.name, sha |-> k.sha, bytes |-> IF disk(k.name) # None THEN disk(k.name) ELSE old.bytes]

(* Receipts that have one of these images already.                         *)
find_receipts_by_image_hashes(shas) == {k.receipt : k \in {j \in kids : j.sha \in shas}}

-----------------------------------------------------------------------------
Go(p, r)  == req' = [req EXCEPT ![p] = r]
To(p, pc) == Go(p, [req[p] EXCEPT !.pc = pc])
End(p)    == Go(p, Idle)
At(p, pc) == req[p].pc = pc
Shas(s)   == {s[i] : i \in DOMAIN s}
Fails     == faults < MaxFaults /\ faults' = faults + 1
Works     == UNCHANGED faults
rowsUnchanged == UNCHANGED <<rcpt, kids, staged, used>>

Request(op, pc, r, imgs, drop, take) ==
    [pc |-> pc, op |-> op, r |-> r, imgs |-> imgs, drop |-> drop, take |-> take, got |-> {}]
Arrives(p, op) == At(p, "idle") /\ op \in Ops /\ (op # "scan" => boot = "up")
Fresh(r) == r \notin used /\ used' = used \cup {r}

(* Uploads that belong to no receipt other than these get an id each, and  *)
(* their files.                                                            *)
NoDuplicate(add, ours) == find_receipts_by_image_hashes(Shas(add)) \subseteq ours
persist_prepared_images(add) == [i \in DOMAIN add |-> [id |-> issued + i, name |-> issued + i, sha |-> add[i]]]
Persist(add) ==
    /\ issued + Len(add) <= MaxImages /\ issued' = issued + Len(add)
    /\ files' = [n \in DOMAIN files \cup {issued + i : i \in DOMAIN add} |->
                    IF n \in DOMAIN files THEN files[n] ELSE add[n - issued]]
WithinCap(held, add, take) == held + Len(add) + Cardinality(take) <= MAX_RECEIPT_IMAGES

(* POST receipts: files, staged images, or both.  The cap is checked after *)
(* the files are written.                                                  *)
Create(p, r, add, take) ==
    /\ Arrives(p, "create") /\ Fresh(r) /\ Len(add) + Cardinality(take) > 0
    /\ NoDuplicate(add, {}) /\ Persist(add)
    /\ IF WithinCap(0, add, take)
       THEN Go(p, Request("create", "promote", r, persist_prepared_images(add), {}, take)) ELSE UNCHANGED req
    /\ UNCHANGED <<rcpt, kids, staged, boot, faults>>

(* PUT receipt: the cap is checked on the images read with the receipt.    *)
Update(p, r, add, drop, take) ==
    /\ Arrives(p, "update") /\ r \in DOMAIN rcpt /\ Len(add) + Cardinality(take) + Cardinality(drop) > 0
    /\ NoDuplicate(add, {r})
    /\ WithinCap(Cardinality(Of(kids, r)) - Cardinality(drop), add, take) /\ Persist(add)
    /\ Go(p, Request("update", "lock", r, persist_prepared_images(add), drop, take))
    /\ UNCHANGED <<rcpt, kids, staged, used, boot, faults>>

(* One extracted image of a scan, unless it is linked to a saved receipt:  *)
(* its file is {receipt_id}.jpg.                                           *)
Scan(p, r, c) ==
    /\ Arrives(p, "scan") /\ Fresh(r) /\ NoDuplicate(<<c>>, {})
    /\ issued < MaxImages /\ issued' = issued + 1
    /\ Rewrite(r, c)
    /\ Go(p, Request("scan", "commit", r, <<[id |-> issued + 1, name |-> r, sha |-> c]>>, {}, {}))
    /\ UNCHANGED <<rcpt, kids, staged, boot, faults>>

(* The UPDATE of the receipt row holds its lock until the end of the       *)
(* transaction.  The files of removed images go before their rows, and     *)
(* before the transaction is known to commit.                              *)
Locked(r) == \E p \in Requests : req[p].op = "update" /\ req[p].r = r /\ req[p].pc \in {"promote", "commit"}
Lock(p) ==
    /\ At(p, "lock") /\ ~Locked(req[p].r)
    /\ IF req[p].r \in DOMAIN rcpt THEN To(p, "promote") ELSE End(p)
    /\ Unlink(FilesOf({k \in Of(kids, req[p].r) : k.id \in req[p].drop}))
    /\ rowsUnchanged /\ UNCHANGED <<issued, boot, faults>>

ReadStaged(p) ==
    /\ At(p, "promote")
    /\ Go(p, [req[p] EXCEPT !.got = {s \in staged : s.id \in req[p].take}, !.pc = "commit"])
    /\ rowsUnchanged /\ UNCHANGED <<files, issued, boot, faults>>

After(q) == promote_staged_images(insert_receipt_images(Remove(kids, q.r, q.drop), q.r, q.imgs), q.r, q.got)
NewCover(q) == sync_receipt_cover(After(q), q.r, IF q.r \in DOMAIN rcpt THEN rcpt[q.r] ELSE NoCover)

StagedAfter(q) == {s \in staged : \A t \in q.got : t.id # s.id}

Commit(p) ==
    LET q == req[p] IN
    /\ At(p, "commit") /\ ~Taken(After(q))
    /\ kids' = After(q) /\ staged' = StagedAfter(q)
    /\ rcpt' = [r \in DOMAIN rcpt \cup {q.r} |-> IF r = q.r THEN NewCover(q) ELSE rcpt[r]]
    /\ IF q.op = "scan" THEN To(p, "report") ELSE End(p)
    /\ UNCHANGED <<files, used, issued, boot, faults>>

(* The transaction is rolled back: an image is taken, or a statement       *)
(* failed.  A scan removes the file it wrote, and names the receipt that   *)
(* has the image; a request of the API leaves its files behind.            *)
Abort(p) ==
    LET q == req[p] IN
    /\ At(p, "commit")
    /\ \/ Taken(After(q)) /\ Works
       \/ ~Taken(After(q)) /\ Fails
    /\ IF q.op = "scan" THEN Unlink({q.r}) ELSE UNCHANGED files
    /\ End(p) /\ rowsUnchanged /\ UNCHANGED <<issued, boot>>

(* The item is reported saved.  If that fails the files of the receipt,    *)
(* which is saved, are removed.                                            *)
Report(p) ==
    /\ At(p, "report") /\ End(p)
    /\ \/ Works /\ UNCHANGED files
       \/ Fails /\ Unlink({req[p].r})
    /\ rowsUnchanged /\ UNCHANGED <<issued, boot>>

-----------------------------------------------------------------------------
(* DELETE receipt: the file of the receipt, the files of its images, and   *)
(* then the row, whose images cascade.                                     *)
Delete(p, r) ==
    /\ Arrives(p, "delete") /\ r \in DOMAIN rcpt
    /\ Unlink({r} \cup FilesOf(Of(kids, r)))
    /\ Go(p, Request("delete", "row", r, << >>, {}, {}))
    /\ rowsUnchanged /\ UNCHANGED <<issued, boot, faults>>

DeleteRow(p) ==
    /\ At(p, "row") /\ ~Locked(req[p].r) /\ End(p)
    /\ rcpt' = Without(rcpt, {req[p].r}) /\ kids' = kids \ Of(kids, req[p].r)
    /\ UNCHANGED <<files, staged, used, issued, boot, faults>>

-----------------------------------------------------------------------------
(* Staging: the file, its row, and the mirror.  The client learns the id   *)
(* when all three are in.                                                  *)
Stage(p, c) ==
    /\ Arrives(p, "stage") /\ NoDuplicate(<<c>>, {}) /\ Persist(<<c>>)
    /\ staged' = staged \cup {[id |-> issued + 1, sha |-> c, bytes |-> c]}
    /\ UNCHANGED <<rcpt, kids, used, req, boot, faults>>

(* A discarded image, or the sweep of those a day old: the rows are read,  *)
(* their files removed, and then whatever rows are left.                   *)
Discard(p, ids) ==
    /\ Arrives(p, "discard") /\ ids # {} /\ ids \subseteq {s.id : s \in staged}
    /\ Go(p, Request("discard", "select", None, << >>, {}, ids))
    /\ rowsUnchanged /\ UNCHANGED <<files, issued, boot, faults>>

UnlinkStaged(p) ==
    /\ At(p, "select")
    /\ Unlink(req[p].take) /\ To(p, "unstage")
    /\ rowsUnchanged /\ UNCHANGED <<issued, boot, faults>>

DeleteStaged(p) ==
    /\ At(p, "unstage") /\ End(p)
    /\ staged' = {s \in staged : s.id \notin req[p].take}
    /\ UNCHANGED <<files, rcpt, kids, used, issued, boot, faults>>

-----------------------------------------------------------------------------
(* Serving.  An image whose file is gone is served from the mirror and     *)
(* written back; the address without an index serves {receipt_id}.jpg,     *)
(* and fills it from the cover's mirror.                                   *)
read_receipt_file(r) == IF disk(r) # None THEN disk(r) ELSE rcpt[r].bytes
read_child_full(k)   == IF disk(k.name) # None THEN disk(k.name) ELSE k.bytes
read_receipt_image(r, index) ==
    LET rows == {k \in Of(kids, r) : k.sort = index}
    IN IF rows # {} THEN read_child_full(CHOOSE k \in rows : TRUE)
       ELSE IF index = 0 THEN read_receipt_file(r) ELSE None

ReadImage(p, k) ==
    /\ Arrives(p, "view") /\ k \in kids /\ disk(k.name) = None
    /\ read_receipt_image(k.receipt, k.sort) # None
    /\ Rewrite(k.name, read_receipt_image(k.receipt, k.sort))
    /\ rowsUnchanged /\ UNCHANGED <<issued, req, boot, faults>>

ReadCover(p, r) ==
    /\ Arrives(p, "view") /\ r \in DOMAIN rcpt /\ disk(r) = None
    /\ read_receipt_file(r) # None /\ Rewrite(r, read_receipt_file(r))
    /\ rowsUnchanged /\ UNCHANGED <<issued, req, boot, faults>>

-----------------------------------------------------------------------------
(* A restart drops the handlers, and may find an empty volume.  Worker     *)
(* items run in another process; they die only with the volume's host.     *)
Restart ==
    /\ boot = "up" /\ Fails /\ boot' = "receipts"
    /\ \/ files' = << >> /\ req' = [p \in Requests |-> Idle]
       \/ UNCHANGED files /\ req' = [p \in Requests |-> IF req[p].op = "scan" THEN req[p] ELSE Idle]
    /\ rowsUnchanged /\ UNCHANGED issued

(* self_heal_image_files, first the receipts and then their images: a file *)
(* without a mirror is mirrored, a mirror without a file is written out.   *)
Missing(rows) == {k \in rows : k.name # None /\ disk(k.name) = None /\ k.bytes # None}
WriteOut(rows) ==
    files' = [n \in DOMAIN files \cup {k.name : k \in Missing(rows)} |->
                IF n \in DOMAIN files THEN files[n] ELSE (CHOOSE k \in Missing(rows) : k.name = n).bytes]
Backfilled(k) == IF k.name # None /\ k.bytes = None THEN [k EXCEPT !.bytes = disk(k.name)] ELSE k

HealReceipts ==
    /\ boot = "receipts" /\ boot' = "images"
    /\ WriteOut({rcpt[r] : r \in DOMAIN rcpt})
    /\ rcpt' = [r \in DOMAIN rcpt |-> Backfilled(rcpt[r])]
    /\ UNCHANGED <<kids, staged, used, issued, req, faults>>

(* The boot-time count of images without a file.                           *)
count_missing_image_files == Cardinality({k \in kids : disk(k.name) = None})

(* Mutant: only covers are healed. *)
CoversOnly == {}
Healed == kids
HealImages ==
    /\ boot = "images" /\ boot' = "up"
    /\ WriteOut(Healed)
    /\ kids' = {Backfilled(k) : k \in kids}
    /\ UNCHANGED <<rcpt, staged, used, issued, req, faults>>

-----------------------------------------------------------------------------
Known == {s.id : s \in staged}
Step(p) ==
    \/ Lock(p) \/ ReadStaged(p) \/ Commit(p) \/ Abort(p) \/ Report(p)
    \/ DeleteRow(p) \/ UnlinkStaged(p) \/ DeleteStaged(p)
Arrival(p) ==
    \/ \E r \in Receipts, add \in Uploads, take \in SUBSET Known : Create(p, r, add, take)
    \/ \E r \in DOMAIN rcpt, add \in Uploads, take \in SUBSET Known :
          \E drop \in SUBSET {k.id : k \in Of(kids, r)} : Update(p, r, add, drop, take)
    \/ \E r \in Receipts, c \in Contents : Scan(p, r, c)
    \/ \E r \in DOMAIN rcpt : Delete(p, r) \/ ReadCover(p, r)
    \/ \E c \in Contents : Stage(p, c)
    \/ \E ids \in SUBSET Known : Discard(p, ids)
    \/ \E k \in kids : ReadImage(p, k)
Next == Restart \/ HealReceipts \/ HealImages \/ \E p \in Requests : Step(p) \/ Arrival(p)
Spec == Init /\ [][Next]_vars

-----------------------------------------------------------------------------
(* Whatever was discarded, rolled back, swept or lost with the volume: an  *)
(* image attached to a receipt is served at its address, and its content   *)
(* is still there, as its file or as its mirror.                           *)
Readable ==
    \A k \in kids : /\ read_receipt_image(k.receipt, k.sort) # None
                    /\ k.sha \in {disk(k.name), k.bytes}

(* An image belongs to one receipt, even when a scan and two uploads of it *)
(* passed the duplicate check at the same time.                            *)
OneReceiptPerImage == \A k \in kids, j \in kids : k.sha = j.sha => k.receipt = j.receipt

(* The restart repairs the volume: every attached image has its file again *)
(* when requests are served.                                               *)
HealConverges == [][boot = "images" /\ boot' = "up" => count_missing_image_files' = 0]_vars

(* The file of an image holds that image.  self_heal_image_files rewrites  *)
(* a missing file from the mirror of the receipt's cover, which may still  *)
(* be that of an image removed before.                                     *)
RightImage == \A k \in kids : disk(k.name) \in {k.sha, None}
=============================================================================
