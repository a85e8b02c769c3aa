------------------------ MODULE ReceiptImagesProofs ------------------------
(***************************************************************************)
(* Why no image of a receipt is lost, whatever is staged, uploaded,        *)
(* scanned, removed, rolled back, discarded or healed at the same time,    *)
(* and whenever the volume is lost.                                        *)
(***************************************************************************)
EXTENDS ReceiptImages, FiniteSetTheorems, WellFoundedInduction, TLAPS

(* The requests that have written the files of images they may still attach. *)
Pending(p) == req[p].pc \in {"lock", "promote", "commit"}

(* Names and ids in use: an image that is to be attached has its own, which no
   row, no other request and no discard knows.                               *)
Mine(p)    == IF Pending(p) THEN {req[p].imgs[i].id : i \in DOMAIN req[p].imgs}
                                   \cup {req[p].imgs[i].name : i \in DOMAIN req[p].imgs}
                            ELSE {}
Asked(p)   == IF req[p].pc = "idle" THEN {} ELSE req[p].take \cup {s.id : s \in req[p].got}
Receipt(p) == IF req[p].pc = "idle" THEN {} ELSE {req[p].r} \ {None}
Attached   == {k.id : k \in kids} \cup {k.name : k \in kids} \cup {s.id : s \in staged} \cup DOMAIN rcpt
Covers     == {rcpt[r].name : r \in DOMAIN rcpt} \ {None}
Issued     == (1..issued) \cup used

Image == [id : Ids, name : Names, sha : Contents]

Kid == [id : Ids, receipt : Receipts, sort : Nat, name : Names, sha : Contents, bytes : Content]
RequestShape(q) ==
    \/ q = Idle
    \/ /\ q \in [pc : {"lock", "promote", "commit", "report", "row", "select", "unstage"},
                 op : Ops, r : Receipts \cup {None}, imgs : Seq(Image), drop : {q.drop},
                 take : SUBSET Ids, got : SUBSET Staged]
       /\ IsFiniteSet(q.got)
       /\ q.pc \notin {"select", "unstage"} => q.r \in Receipts

Shapes ==
    /\ issued \in 0..MaxImages /\ used \subseteq Receipts
    /\ \A n \in DOMAIN files : files[n] \in Contents
    /\ kids \subseteq Kid /\ IsFiniteSet(kids)
    /\ staged \subseteq Staged /\ IsFiniteSet(staged)
    /\ DOMAIN rcpt \subseteq used /\ \A r \in DOMAIN rcpt : rcpt[r] \in Cover
    /\ DOMAIN req = Requests /\ \A p \in Requests : RequestShape(req[p])

(* What has a name has been given one. *)
Known1 ==
    /\ DOMAIN files \subseteq Issued /\ Attached \subseteq Issued /\ Covers \subseteq Issued
    /\ \A p \in Requests : Mine(p) \cup Asked(p) \cup Receipt(p) \subseteq Issued

Apart ==
    /\ \A p \in Requests : Mine(p) \cap (Attached \cup Asked(p)) = {}
    /\ \A p, q \in Requests : p # q => Mine(p) \cap (Mine(q) \cup Asked(q) \cup Receipt(q)) = {}

(* A scan names its file after its receipt. *)
ScanNames ==
    \A p \in Requests : Pending(p) /\ req[p].op = "scan" => req[p].r \in Mine(p)

(* The files of the images that are to be attached are on the volume, and every
   mirror, staged or attached, holds its image.                              *)
OnVolume(p) ==
    Pending(p) => \A i \in DOMAIN req[p].imgs : disk(req[p].imgs[i].name) = req[p].imgs[i].sha
Carries(p)  == req[p].pc # "idle" => \A s \in req[p].got : s.bytes = s.sha
Written ==
    /\ \A p \in Requests : OnVolume(p) /\ Carries(p)
    /\ \A s \in staged : s.bytes = s.sha
    /\ \A k \in kids : k.bytes = k.sha

(* An id is attached to one receipt only. *)
OneReceiptPerId == \A k, j \in kids : k.id = j.id => k.receipt = j.receipt

ImageInv == Shapes /\ Known1 /\ Apart /\ ScanNames /\ Written /\ OneReceiptPerId /\ OneReceiptPerImage

-----------------------------------------------------------------------------
(* Names, ids and files: how a step moves them. *)

(* New names go to one request, or to a row; a name that becomes attached was the
   request's that attaches it, or is new; nothing else passes from hand to hand.  *)
LEMMA TokensMove ==
  ASSUME Known1, Apart, NEW p, NEW new, NEW to,
         new \cap Issued = {}, new \subseteq Issued', Issued \subseteq Issued',
         DOMAIN files' \subseteq Issued', Covers' \subseteq Issued',
         to \subseteq Issued', \A q \in Requests : to \cap Mine(q)' = {},
         Attached' \subseteq Attached \cup to,
         \A q \in Requests : q # p => /\ Mine(q)' \subseteq Mine(q) /\ Asked(q)' \subseteq Asked(q)
                                      /\ Receipt(q)' \subseteq Receipt(q),
         p \in Requests => /\ Mine(p)' \subseteq Mine(p) \cup new
                           /\ Asked(p)' \subseteq Asked(p) \cup Attached
                           /\ Receipt(p)' \subseteq Receipt(p) \cup DOMAIN rcpt \cup new
  PROVE  Known1' /\ Apart'
<1>1. DOMAIN rcpt \subseteq Attached /\ Attached \subseteq Issued
  BY DEF Attached, Known1
<1>2. \A q \in Requests : /\ Mine(q)' \subseteq Mine(q) \cup new
                          /\ Asked(q)' \subseteq Asked(q) \cup Attached
                          /\ Receipt(q)' \subseteq Receipt(q) \cup Attached \cup new
                          /\ Mine(q) \cup Asked(q) \cup Receipt(q) \subseteq Issued
  BY <1>1 DEF Known1
<1>3. Known1'
  <2>1. \A q \in Requests : Mine(q)' \cup Asked(q)' \cup Receipt(q)' \subseteq Issued'
    BY <1>1, <1>2
  <2>2. Attached' \subseteq Issued'
    BY <1>1
  <2> QED
    BY <2>1, <2>2 DEF Known1
<1>4. ASSUME NEW q \in Requests PROVE Mine(q)' \cap (Attached' \cup Asked(q)') = {}
  <2>1. Mine(q) \cap (Attached \cup Asked(q)) = {} /\ new \cap (Attached \cup Asked(q)) = {}
    BY <1>1, <1>2 DEF Apart
  <2> QED
    BY <1>2, <2>1
<1>5. ASSUME NEW q \in Requests, NEW o \in Requests, q # o
      PROVE  Mine(q)' \cap (Mine(o)' \cup Asked(o)' \cup Receipt(o)') = {}
  <2>1. /\ Mine(q) \cap (Mine(o) \cup Asked(o) \cup Receipt(o)) = {}
        /\ Mine(q) \cap Attached = {}
        /\ new \cap (Mine(o) \cup Asked(o) \cup Receipt(o) \cup Attached) = {}
        /\ new \cap Mine(q) = {}
    BY <1>1, <1>2, <1>5 DEF Apart
  <2>2. CASE q = p
    BY <1>2, <1>5, <2>1, <2>2
  <2>3. CASE q # p
    BY <1>2, <1>5, <2>1, <2>3
  <2> QED
    BY <2>2, <2>3
<1> QED
  BY <1>3, <1>4, <1>5 DEF Apart

(* Nothing new is attached. *)
LEMMA NamesStay ==
  ASSUME Known1, Apart, NEW p, NEW new,
         new \cap Issued = {}, new \subseteq Issued', Issued \subseteq Issued',
         DOMAIN files' \subseteq Issued', Covers' \subseteq Issued', Attached' \subseteq Attached,
         \A q \in Requests : q # p => /\ Mine(q)' \subseteq Mine(q) /\ Asked(q)' \subseteq Asked(q)
                                      /\ Receipt(q)' \subseteq Receipt(q),
         p \in Requests => /\ Mine(p)' \subseteq Mine(p) \cup new
                           /\ Asked(p)' \subseteq Asked(p) \cup Attached
                           /\ Receipt(p)' \subseteq Receipt(p) \cup DOMAIN rcpt \cup new
  PROVE  Known1' /\ Apart'
<1> DEFINE to == {}
<1>1. /\ to \subseteq Issued' /\ \A q \in Requests : to \cap Mine(q)' = {}
      /\ Attached' \subseteq Attached \cup to
  OBVIOUS
<1> HIDE DEF to
<1> QED
  BY <1>1, TokensMove

LEMMA OneMoves ==
  ASSUME Shapes, NEW p \in Requests, NEW r, Go(p, r)
  PROVE  /\ req'[p] = r /\ DOMAIN req' = Requests
         /\ \A q \in Requests : q # p => req'[q] = req[q]
         /\ \A q \in Requests : q # p => /\ Mine(q)' = Mine(q) /\ Asked(q)' = Asked(q)
                                         /\ Receipt(q)' = Receipt(q)
<1>1. /\ req'[p] = r /\ DOMAIN req' = Requests
      /\ \A q \in Requests : q # p => req'[q] = req[q]
  BY DEF Go, Shapes
<1> QED
  BY <1>1 DEF Mine, Pending, Asked, Receipt

(* What a request has on the volume when it is not idle, and that it has nothing
   when it is.                                                                *)
LEMMA IdleHasNothing ==
  ASSUME NEW p, req'[p] = Idle
  PROVE  Mine(p)' = {} /\ Asked(p)' = {} /\ Receipt(p)' = {}
  BY DEF Mine, Pending, Asked, Receipt, Idle

(* A file that is rewritten was not there; a file that goes was named. *)
Grow == \A n \in DOMAIN files : n \in DOMAIN files' /\ files'[n] = files[n]

LEMMA DiskGrows == ASSUME Grow, NEW n, disk(n) # None PROVE disk(n)' = disk(n)
  BY DEF Grow, disk

LEMMA DiskLoses ==
  ASSUME NEW S, Unlink(S)
  PROVE  /\ \A n : n \notin S => disk(n)' = disk(n)
         /\ DOMAIN files' \subseteq DOMAIN files
         /\ \A n \in DOMAIN files' : files'[n] = files[n]
  BY DEF Unlink, Without, disk

LEMMA NameIsMine ==
  ASSUME NEW p, Pending(p), NEW i \in DOMAIN req[p].imgs
  PROVE  req[p].imgs[i].name \in Mine(p) /\ req[p].imgs[i].id \in Mine(p)
  BY DEF Mine

(* The uploads of a request get new ids, and their files. *)
LEMMA Persists ==
  ASSUME Shapes, Known1, NEW add \in Seq(Contents), Persist(add)
  PROVE  /\ issued' \in 0..MaxImages /\ issued <= issued' /\ issued' = issued + Len(add)
         /\ ((issued + 1)..issued') \cap Issued = {}
         /\ Grow /\ DOMAIN files' \subseteq DOMAIN files \cup ((issued + 1)..issued')
         /\ \A n \in DOMAIN files' : files'[n] \in Contents
         /\ \A i \in DOMAIN add : issued + i \in (issued + 1)..issued'
         /\ \A n : \A i \in DOMAIN add : n = issued + i => disk(n)' = add[i]
<1>1. /\ DOMAIN add = 1..Len(add) /\ Len(add) \in Nat /\ \A i \in DOMAIN add : add[i] \in Contents
      /\ issued \in 0..MaxImages /\ MaxImages \in Nat
  BY NamesAssumption DEF Shapes
<1>2. issued' = issued + Len(add) /\ issued' \in 0..MaxImages /\ issued <= issued'
  BY <1>1 DEF Persist
<1>3. ((issued + 1)..issued') \cap Issued = {}
  BY <1>1, <1>2, NamesAssumption DEF Issued, Shapes
<1>4. {issued + i : i \in DOMAIN add} = (issued + 1)..issued'
  <2>1. ASSUME NEW n \in (issued + 1)..issued' PROVE n \in {issued + i : i \in DOMAIN add}
    <3>1. n - issued \in DOMAIN add /\ n = issued + (n - issued)
      BY <1>1, <1>2
    <3> QED
      BY <3>1
  <2>2. ASSUME NEW i \in DOMAIN add PROVE issued + i \in (issued + 1)..issued'
    BY <1>1, <1>2
  <2> QED
    BY <2>1, <2>2
<1>5. /\ DOMAIN files' = DOMAIN files \cup ((issued + 1)..issued')
      /\ \A n \in DOMAIN files' : files'[n] = IF n \in DOMAIN files THEN files[n] ELSE add[n - issued]
  BY <1>4 DEF Persist
<1>6. \A i \in DOMAIN add : issued + i \in (issued + 1)..issued' /\ (issued + i) - issued = i
  BY <1>1, <1>2
<1>7. \A n \in (issued + 1)..issued' : n \notin DOMAIN files /\ n - issued \in DOMAIN add
  <2>1. DOMAIN files \cap ((issued + 1)..issued') = {}
    BY <1>3 DEF Known1
  <2> QED
    BY <1>1, <1>2, <2>1
<1>8. \A n \in DOMAIN files' : files'[n] \in Contents
  BY <1>1, <1>5, <1>7 DEF Shapes
<1>9. \A n : \A i \in DOMAIN add : n = issued + i => disk(n)' = add[i]
  BY <1>5, <1>6, <1>7 DEF disk
<1> QED
  BY <1>2, <1>3, <1>5, <1>6, <1>8, <1>9 DEF Grow

(* When no image becomes attached, the invariant is about names, files
   and what is staged.                                                          *)
LEMMA RowsStay ==
  ASSUME ImageInv, kids' \subseteq kids, Shapes', Known1', Apart', ScanNames',
         \A p \in Requests : OnVolume(p)' /\ Carries(p)',
         \A s \in staged' : s.bytes = s.sha
  PROVE  ImageInv'
  BY DEF ImageInv, Written, OneReceiptPerId, OneReceiptPerImage

(* The files of the requests that stay as they are stay too. *)
LEMMA StillWritten ==
  ASSUME ImageInv, NEW p, \A q \in Requests : q # p => req'[q] = req[q] \/ req'[q] = Idle,
         \A q \in Requests : q # p => \A n \in Mine(q) : disk(n) # None => disk(n)' = disk(n)
  PROVE  \A q \in Requests : q # p => OnVolume(q)' /\ Carries(q)'
<1> SUFFICES ASSUME NEW q \in Requests, q # p PROVE OnVolume(q)' /\ Carries(q)'
  OBVIOUS
<1>1. CASE req'[q] = Idle
  BY <1>1 DEF OnVolume, Carries, Pending, Idle
<1>2. CASE req'[q] = req[q] /\ Pending(q)
  <2>1. ASSUME NEW i \in DOMAIN req[q].imgs, NEW n, n = req[q].imgs[i].name
        PROVE  disk(n)' = req[q].imgs[i].sha
    <3>1. req[q].imgs[i] \in Image
      BY <1>2 DEF ImageInv, Shapes, RequestShape, Pending, Idle
    <3>2. n \in Mine(q) /\ disk(n) = req[q].imgs[i].sha /\ disk(n) # None
      BY <1>2, <2>1, <3>1, NameIsMine, ContentsAssumption DEF ImageInv, Written, OnVolume, Image
    <3> QED
      BY <3>2
  <2>2. OnVolume(q)'
    BY <1>2, <2>1 DEF OnVolume, disk
  <2> QED
    BY <1>2, <2>2 DEF ImageInv, Written, Carries
<1>3. CASE req'[q] = req[q] /\ ~Pending(q)
  BY <1>3 DEF OnVolume, Pending, ImageInv, Written, Carries
<1> QED
  BY <1>1, <1>2, <1>3

-----------------------------------------------------------------------------
(* Requests that arrive with images. *)
LEMMA ArriveWithImages ==
  ASSUME ImageInv, NEW p \in Requests, NEW op \in Ops, op # "scan", NEW pc \in {"lock", "promote"},
         NEW r \in Receipts, NEW add \in Uploads, NEW take \in SUBSET Known, NEW drop,
         Persist(add), Go(p, Request(op, pc, r, persist_prepared_images(add), drop, take)),
         UNCHANGED <<rcpt, kids, staged>>,
         used' = used \cup {r}, r \in DOMAIN rcpt \/ r \notin used
  PROVE  ImageInv'
<1> DEFINE q == Request(op, pc, r, persist_prepared_images(add), drop, take)
           new == ((issued + 1)..issued') \cup ({r} \ used)
<1>0. add \in Seq(Contents) /\ Shapes /\ Known1 /\ Apart /\ Written
  BY UploadsAssumption DEF ImageInv
<1>1. /\ issued' \in 0..MaxImages /\ issued <= issued' /\ issued' = issued + Len(add)
      /\ ((issued + 1)..issued') \cap Issued = {}
      /\ Grow /\ DOMAIN files' \subseteq DOMAIN files \cup ((issued + 1)..issued')
      /\ \A n \in DOMAIN files' : files'[n] \in Contents
      /\ \A i \in DOMAIN add : issued + i \in (issued + 1)..issued'
      /\ \A n : \A i \in DOMAIN add : n = issued + i => disk(n)' = add[i]
  BY <1>0, Persists
<1>2. /\ q.pc = pc /\ q.op = op /\ q.r = r /\ q.take = take /\ q.got = {}
      /\ DOMAIN q.imgs = DOMAIN add
      /\ \A i \in DOMAIN add : /\ q.imgs[i].id = issued + i /\ q.imgs[i].name = issued + i
                               /\ q.imgs[i].sha = add[i]
  BY DEF Request, persist_prepared_images
<1>3. RequestShape(q)
  <2>1. \A i \in DOMAIN add : q.imgs[i] \in Image
    <3>1. \A i \in DOMAIN add : issued + i \in Ids /\ add[i] \in Contents
      <4>1. DOMAIN add = 1..Len(add) /\ \A i \in DOMAIN add : add[i] \in Contents
        BY <1>0
      <4>2. (issued + 1)..issued' \subseteq Ids
        BY <1>0, <1>1, NamesAssumption DEF Ids, Shapes
      <4> QED
        BY <1>1, <4>1, <4>2
    <3> QED
      BY <3>1 DEF Image, Names, Request, persist_prepared_images
  <2>2. take \in SUBSET Ids
    BY <1>0 DEF Known, Shapes, Staged
  <2>3. q.imgs \in Seq(Image)
    <3>1. q.imgs = [i \in 1..Len(add) |-> q.imgs[i]] /\ Len(add) \in Nat
      BY <1>0 DEF Request, persist_prepared_images
    <3>2. \A i \in 1..Len(add) : q.imgs[i] \in Image
      BY <1>0, <2>1
    <3> HIDE DEF q
    <3> QED
      BY <3>1, <3>2
  <2>4. q = [pc |-> pc, op |-> op, r |-> r, imgs |-> q.imgs, drop |-> drop, take |-> take, got |-> {}]
        /\ IsFiniteSet({})
    BY FS_EmptySet DEF Request
  <2> HIDE DEF q
  <2> QED
    BY <1>2, <2>2, <2>3, <2>4 DEF RequestShape
<1> HIDE DEF q
<1>4. /\ req'[p] = q /\ DOMAIN req' = Requests
      /\ \A o \in Requests : o # p => req'[o] = req[o]
      /\ \A o \in Requests : o # p => /\ Mine(o)' = Mine(o) /\ Asked(o)' = Asked(o)
                                      /\ Receipt(o)' = Receipt(o)
  BY <1>0, OneMoves DEF q
<1>5. Shapes'
  BY <1>0, <1>1, <1>3, <1>4 DEF Shapes
<1>6. /\ Mine(p)' \subseteq (issued + 1)..issued' /\ Asked(p)' \subseteq Attached
      /\ Receipt(p)' \subseteq DOMAIN rcpt \cup ({r} \ used)
  <2>1. Mine(p)' \subseteq (issued + 1)..issued'
    BY <1>1, <1>2, <1>4 DEF Mine
  <2>2. Asked(p)' \subseteq Attached
    BY <1>2, <1>4 DEF Asked, Known, Attached
  <2> QED
    BY <1>2, <1>4, <2>1, <2>2 DEF Receipt
<1>7. /\ new \cap Issued = {} /\ new \subseteq Issued' /\ Issued \subseteq Issued'
  <2>1. ({r} \ used) \cap Issued = {}
    BY <1>0, NamesAssumption DEF Issued, Shapes
  <2>2. (issued + 1)..issued' \subseteq 1..issued' /\ 1..issued \subseteq 1..issued'
    BY <1>0, <1>1 DEF Shapes
  <2> QED
    BY <1>1, <2>1, <2>2 DEF Issued
<1>8. Known1' /\ Apart'
  <2>1. Attached' = Attached /\ Covers' = Covers
    BY DEF Attached, Covers
  <2>2. DOMAIN files' \subseteq Issued' /\ Covers' \subseteq Issued'
    BY <1>0, <1>1, <1>7, <2>1 DEF Known1
  <2> HIDE DEF new
  <2>3. Mine(p)' \subseteq Mine(p) \cup new /\ Receipt(p)' \subseteq Receipt(p) \cup DOMAIN rcpt \cup new
    BY <1>6 DEF new
  <2> QED
    BY <1>0, <1>4, <1>6, <1>7, <2>1, <2>2, <2>3, NamesStay
<1>9. ScanNames'
  <2>1. ~(req'[p].op = "scan")
    BY <1>2, <1>4
  <2> QED
    BY <1>4, <2>1 DEF ScanNames, ImageInv, Pending
<1>10. \A o \in Requests : o # p => OnVolume(o)' /\ Carries(o)'
  BY <1>1, <1>4, DiskGrows, StillWritten
<1>11. OnVolume(p)'
  BY <1>1, <1>2, <1>4 DEF OnVolume, disk
<1>12. Carries(p)'
  BY <1>2, <1>4 DEF Carries
<1> QED
  BY <1>0, <1>5, <1>8, <1>9, <1>10, <1>11, <1>12, RowsStay DEF Written

LEMMA ImagesCreate ==
  ASSUME ImageInv, NEW p \in Requests, NEW r \in Receipts, NEW add \in Uploads,
         NEW take \in SUBSET Known, Create(p, r, add, take)
  PROVE  ImageInv'
<1>1. CASE WithinCap(0, add, take)
  BY <1>1, ArriveWithImages DEF Create, Arrives, Fresh
<1>2. CASE ~WithinCap(0, add, take)
  <2>0. add \in Seq(Contents) /\ Shapes /\ Known1 /\ Apart /\ Written
    BY UploadsAssumption DEF ImageInv
  <2>1. Persist(add) /\ UNCHANGED <<req, rcpt, kids, staged>> /\ used' = used \cup {r}
    BY <1>2 DEF Create, Fresh
  <2>2. /\ issued' \in 0..MaxImages /\ issued <= issued' /\ Grow
        /\ DOMAIN files' \subseteq DOMAIN files \cup ((issued + 1)..issued')
        /\ \A n \in DOMAIN files' : files'[n] \in Contents
    BY <2>0, <2>1, Persists
  <2>3. Issued \subseteq Issued' /\ (issued + 1)..issued' \subseteq Issued'
    BY <2>0, <2>1, <2>2 DEF Issued, Shapes
  <2>4. /\ UNCHANGED <<Attached, Covers>>
        /\ \A q \in Requests : UNCHANGED <<Mine(q), Asked(q), Receipt(q)>>
    BY <2>1 DEF Attached, Covers, Mine, Pending, Asked, Receipt
  <2>5. Known1' /\ Apart' /\ Shapes' /\ ScanNames'
    BY <2>0, <2>1, <2>2, <2>3, <2>4 DEF Known1, Apart, Shapes, ScanNames, ImageInv, Pending
  <2>6. \A q \in Requests : \A n \in Mine(q) : disk(n) # None => disk(n)' = disk(n)
    BY <2>2, DiskGrows
  <2> DEFINE nobody == CHOOSE x : x \notin Requests
  <2>7. nobody \notin Requests
    BY NoSetContainsEverything
  <2> HIDE DEF nobody
  <2>8. \A o \in Requests : OnVolume(o)' /\ Carries(o)'
    BY <2>1, <2>6, <2>7, StillWritten
  <2> QED
    BY <2>0, <2>1, <2>5, <2>8, RowsStay DEF Written
<1> QED
  BY <1>1, <1>2

LEMMA ImagesUpdate ==
  ASSUME ImageInv, NEW p \in Requests, NEW r \in DOMAIN rcpt, NEW add \in Uploads,
         NEW take \in SUBSET Known, NEW drop, Update(p, r, add, drop, take)
  PROVE  ImageInv'
<1>1. r \in used /\ r \in Receipts
  BY DEF ImageInv, Shapes
<1> QED
  BY <1>1, ArriveWithImages DEF Update, Arrives

-----------------------------------------------------------------------------
(* A scan: its file is named after its receipt. *)
LEMMA ImagesScan ==
  ASSUME ImageInv, NEW p \in Requests, NEW r \in Receipts, NEW c \in Contents, Scan(p, r, c)
  PROVE  ImageInv'
<1> DEFINE img == [id |-> issued + 1, name |-> r, sha |-> c]
           q == Request("scan", "commit", r, <<img>>, {}, {})
           new == {issued + 1, r}
<1>0. Shapes /\ Known1 /\ Apart /\ Written
  BY DEF ImageInv
<1>1. /\ "scan" \in Ops /\ r \notin used /\ used' = used \cup {r} /\ issued < MaxImages
      /\ issued' = issued + 1 /\ Rewrite(r, c) /\ Go(p, q) /\ UNCHANGED <<rcpt, kids, staged>>
  BY DEF Scan, Arrives, Fresh
<1>2. /\ issued + 1 \in Ids /\ issued' \in 0..MaxImages /\ r \notin 1..issued
  BY <1>0, <1>1, NamesAssumption DEF Shapes, Ids
<1>3. /\ q.pc = "commit" /\ q.op = "scan" /\ q.r = r /\ q.take = {} /\ q.got = {}
      /\ DOMAIN q.imgs = {1} /\ q.imgs[1].id = issued + 1 /\ q.imgs[1].name = r /\ q.imgs[1].sha = c
      /\ RequestShape(q)
  <2>1. img \in Image
    BY <1>2 DEF Image, Names
  <2>2. DOMAIN <<img>> = {1} /\ <<img>>[1] = img
    OBVIOUS
  <2> HIDE DEF img
  <2>3. q.imgs = <<img>> /\ q.pc = "commit" /\ q.op = "scan" /\ q.r = r /\ q.take = {} /\ q.got = {}
    BY DEF Request
  <2>4. RequestShape(q)
    <3>1. <<img>> \in Seq(Image) /\ IsFiniteSet({})
      BY <2>1, FS_EmptySet
    <3> QED
      BY <1>1, <2>2, <2>3, <3>1 DEF RequestShape, Request
  <2> QED
    BY <2>2, <2>3, <2>4 DEF img
<1> HIDE DEF q, img
<1>4. /\ req'[p] = q /\ DOMAIN req' = Requests
      /\ \A o \in Requests : o # p => req'[o] = req[o]
      /\ \A o \in Requests : o # p => /\ Mine(o)' = Mine(o) /\ Asked(o)' = Asked(o)
                                      /\ Receipt(o)' = Receipt(o)
  BY <1>0, <1>1, OneMoves
<1>5. r \notin DOMAIN files
  BY <1>0, <1>1, <1>2 DEF Known1, Issued
<1>6. /\ Grow /\ disk(r)' = c /\ DOMAIN files' = DOMAIN files \cup {r}
      /\ \A n \in DOMAIN files' : files'[n] \in Contents
  BY <1>0, <1>1, <1>5 DEF Rewrite, Grow, disk, Shapes
<1>7. Shapes'
  BY <1>0, <1>1, <1>2, <1>3, <1>4, <1>6 DEF Shapes
<1>8. /\ new \cap Issued = {} /\ new \subseteq Issued' /\ Issued \subseteq Issued'
  <2>1. issued + 1 \notin used /\ issued + 1 \notin 1..issued
    BY <1>0, <1>2, NamesAssumption DEF Shapes, Ids
  <2>2. issued + 1 \in 1..issued' /\ 1..issued \subseteq 1..issued'
    BY <1>0, <1>1 DEF Shapes
  <2> QED
    BY <1>1, <1>2, <2>1, <2>2 DEF Issued
<1>9. Mine(p)' = new /\ Asked(p)' = {} /\ Receipt(p)' \subseteq new
  <2>1. Mine(p)' = new
    BY <1>3, <1>4 DEF Mine, Pending
  <2> QED
    BY <1>3, <1>4, <2>1 DEF Asked, Receipt
<1>10. Known1' /\ Apart'
  <2>1. Attached' = Attached /\ Covers' = Covers
    BY <1>1 DEF Attached, Covers
  <2>2. DOMAIN files' \subseteq Issued' /\ Covers' \subseteq Issued'
    BY <1>0, <1>6, <1>8, <2>1 DEF Known1
  <2> HIDE DEF new
  <2> QED
    BY <1>0, <1>4, <1>8, <1>9, <2>1, <2>2, NamesStay
<1>11. ScanNames'
  <2>1. req'[p].r \in Mine(p)'
    BY <1>3, <1>4, <1>9
  <2> QED
    BY <1>4, <2>1 DEF ScanNames, ImageInv, Pending
<1>12. \A o \in Requests : o # p => OnVolume(o)' /\ Carries(o)'
  BY <1>4, <1>6, DiskGrows, StillWritten
<1>13. OnVolume(p)' /\ Carries(p)'
  BY <1>3, <1>4, <1>6 DEF OnVolume, Carries, disk
<1> QED
  BY <1>0, <1>1, <1>7, <1>10, <1>11, <1>12, <1>13, RowsStay DEF Written

LEMMA ImagesStage ==
  ASSUME ImageInv, NEW p \in Requests, NEW c \in Contents, Stage(p, c)
  PROVE  ImageInv'
<1> DEFINE s == [id |-> issued + 1, sha |-> c, bytes |-> c]
           new == {issued + 1}
<1>0. Shapes /\ Known1 /\ Apart /\ Written /\ <<c>> \in Seq(Contents) /\ Len(<<c>>) = 1
  BY DEF ImageInv
<1>1. Persist(<<c>>) /\ staged' = staged \cup {s} /\ UNCHANGED <<rcpt, kids, used, req>>
  BY DEF Stage
<1>2. /\ issued' \in 0..MaxImages /\ issued' = issued + 1
      /\ ((issued + 1)..issued') \cap Issued = {}
      /\ Grow /\ DOMAIN files' \subseteq DOMAIN files \cup ((issued + 1)..issued')
      /\ \A n \in DOMAIN files' : files'[n] \in Contents
  BY <1>0, <1>1, Persists
<1>3. /\ new \cap Issued = {} /\ new \subseteq Issued' /\ Issued \subseteq Issued' /\ issued + 1 \in Ids
      /\ DOMAIN files' \subseteq DOMAIN files \cup new
  <2>1. (issued + 1)..issued' = {issued + 1} /\ 1..issued \subseteq 1..issued' /\ issued + 1 \in 1..issued'
    BY <1>0, <1>2 DEF Shapes
  <2> QED
    BY <1>0, <1>1, <1>2, <2>1, NamesAssumption DEF Issued, Ids, Shapes
<1>4. s \in Staged /\ s.id = issued + 1 /\ s.bytes = s.sha
  BY <1>3 DEF Staged, Content
<1> HIDE DEF s
<1>5. Shapes'
  <2>1. IsFiniteSet(staged')
    BY <1>0, <1>1, FS_AddElement DEF Shapes
  <2> QED
    BY <1>0, <1>1, <1>2, <1>4, <2>1 DEF Shapes
<1>6. /\ \A q \in Requests : UNCHANGED <<Mine(q), Asked(q), Receipt(q)>>
      /\ UNCHANGED Covers /\ Attached' \subseteq Attached \cup new
  BY <1>1, <1>4 DEF Mine, Pending, Asked, Receipt, Covers, Attached
<1>7. Known1' /\ Apart'
  <2>1. \A q \in Requests : new \cap Mine(q)' = {}
    BY <1>0, <1>3, <1>6 DEF Known1
  <2>2. DOMAIN files' \subseteq Issued' /\ Covers' \subseteq Issued'
    BY <1>0, <1>3, <1>6 DEF Known1
  <2> HIDE DEF new
  <2> QED
    BY <1>0, <1>3, <1>6, <2>1, <2>2, TokensMove
<1>8. ScanNames'
  BY <1>1, <1>6 DEF ImageInv, ScanNames, Pending
<1>9. \A q \in Requests : OnVolume(q)' /\ Carries(q)'
  <2> DEFINE nobody == CHOOSE x : x \notin Requests
  <2>1. nobody \notin Requests
    BY NoSetContainsEverything
  <2> HIDE DEF nobody
  <2> QED
    BY <1>1, <1>2, <2>1, DiskGrows, StillWritten
<1> QED
  BY <1>0, <1>1, <1>4, <1>5, <1>7, <1>8, <1>9, RowsStay DEF Written

-----------------------------------------------------------------------------
(* Steps that bring no new image: one request moves on, files may go.         *)
LEMMA MovesOn ==
  ASSUME ImageInv, NEW p \in Requests, NEW q, Go(p, q), RequestShape(q),
         UNCHANGED <<used, issued>>, kids' \subseteq kids, staged' \subseteq staged,
         DOMAIN rcpt' \subseteq DOMAIN rcpt, \A r \in DOMAIN rcpt' : rcpt'[r] = rcpt[r],
         DOMAIN files' \subseteq DOMAIN files, \A n \in DOMAIN files' : files'[n] = files[n],
         \A o \in Requests : o # p => \A n \in Mine(o) : disk(n)' = disk(n),
         q.pc \in {"lock", "promote", "commit"} =>
           /\ Pending(p) /\ q.imgs = req[p].imgs /\ q.op = req[p].op /\ q.r = req[p].r
           /\ \A n \in Mine(p) : disk(n)' = disk(n),
         q.pc # "idle" => /\ q.take \cup {s.id : s \in q.got} \subseteq Asked(p) \cup Attached
                          /\ {q.r} \ {None} \subseteq Receipt(p) \cup DOMAIN rcpt
                          /\ \A s \in q.got : s.bytes = s.sha
  PROVE  ImageInv'
<1>0. Shapes /\ Known1 /\ Apart /\ Written
  BY DEF ImageInv
<1>1. /\ req'[p] = q /\ DOMAIN req' = Requests
      /\ \A o \in Requests : o # p => req'[o] = req[o]
      /\ \A o \in Requests : o # p => /\ Mine(o)' = Mine(o) /\ Asked(o)' = Asked(o)
                                      /\ Receipt(o)' = Receipt(o)
  BY <1>0, OneMoves
<1>2. Shapes'
  <2>1. IsFiniteSet(kids') /\ IsFiniteSet(staged')
    BY <1>0, FS_Subset DEF Shapes
  <2> QED
    BY <1>0, <1>1, <2>1 DEF Shapes
<1>3. Attached' \subseteq Attached /\ Covers' \subseteq Covers /\ Issued' = Issued
  BY DEF Attached, Covers, Issued
<1>4. /\ Mine(p)' \subseteq Mine(p) /\ Asked(p)' \subseteq Asked(p) \cup Attached
      /\ Receipt(p)' \subseteq Receipt(p) \cup DOMAIN rcpt
  <2>1. Mine(p)' \subseteq Mine(p)
    BY <1>1 DEF Mine, Pending
  <2> QED
    BY <1>1, <2>1 DEF Asked, Receipt
<1>5. Known1' /\ Apart'
  <2> DEFINE new == {}
  <2>1. /\ new \cap Issued = {} /\ new \subseteq Issued'
        /\ Mine(p)' \subseteq Mine(p) \cup new
        /\ Receipt(p)' \subseteq Receipt(p) \cup DOMAIN rcpt \cup new
    BY <1>4
  <2>2. /\ Issued \subseteq Issued' /\ DOMAIN files' \subseteq Issued' /\ Covers' \subseteq Issued'
    BY <1>0, <1>3 DEF Known1
  <2> HIDE DEF new
  <2> QED
    BY <1>0, <1>1, <1>3, <1>4, <2>1, <2>2, NamesStay
<1>6. ScanNames'
  <2>1. Pending(p)' => Mine(p)' = Mine(p)
    BY <1>1 DEF Mine, Pending
  <2> QED
    BY <1>1, <2>1 DEF ImageInv, ScanNames, Pending
<1>7. \A o \in Requests : o # p => OnVolume(o)' /\ Carries(o)'
  BY <1>1, StillWritten
<1>8. OnVolume(p)' /\ Carries(p)'
  <2>1. CASE Pending(p)'
    <3>1. Pending(p) /\ q.imgs = req[p].imgs /\ \A n \in Mine(p) : disk(n)' = disk(n)
      BY <1>1, <2>1 DEF Pending
    <3>2. \A i \in DOMAIN req[p].imgs : /\ req[p].imgs[i].name \in Mine(p)
                                        /\ disk(req[p].imgs[i].name) = req[p].imgs[i].sha
      BY <1>0, <3>1, NameIsMine DEF Written, OnVolume
    <3>3. \A n \in Mine(p), i \in DOMAIN req[p].imgs : n = req[p].imgs[i].name => disk(n)' = req[p].imgs[i].sha
      BY <3>1, <3>2
    <3> QED
      BY <1>1, <3>1, <3>2, <3>3 DEF OnVolume, Carries, disk
  <2>2. CASE ~Pending(p)'
    BY <1>1, <2>2 DEF OnVolume, Carries
  <2> QED
    BY <2>1, <2>2
<1> QED
  BY <1>0, <1>2, <1>5, <1>6, <1>7, <1>8, RowsStay DEF Written
(* No file is named None. *)
LEMMA NoneIsNoName ==
  ASSUME ImageInv PROVE None \notin Issued
  BY ContentsAssumption, NamesAssumption DEF ImageInv, Shapes, Issued

LEMMA UnlinkKeeps ==
  ASSUME ImageInv, NEW p \in Requests, NEW S, S \subseteq Attached \cup Asked(p) \cup Receipt(p) \cup {None},
         Unlink(S)
  PROVE  /\ \A o \in Requests : o # p => \A n \in Mine(o) : disk(n)' = disk(n)
         /\ S \subseteq Attached => \A n \in Mine(p) : disk(n)' = disk(n)
         /\ DOMAIN files' \subseteq DOMAIN files /\ \A n \in DOMAIN files' : files'[n] = files[n]
<1>1. \A o \in Requests : o # p => Mine(o) \cap (Attached \cup Asked(p) \cup Receipt(p) \cup {None}) = {}
  BY NoneIsNoName DEF ImageInv, Apart, Known1
<1>2. Mine(p) \cap Attached = {}
  BY DEF ImageInv, Apart
<1> QED
  BY <1>1, <1>2, DiskLoses

LEMMA SameFiles ==
  ASSUME UNCHANGED files
  PROVE  /\ \A n : disk(n)' = disk(n)
         /\ DOMAIN files' \subseteq DOMAIN files /\ \A n \in DOMAIN files' : files'[n] = files[n]
  BY DEF disk

LEMMA ImagesEnd ==
  ASSUME ImageInv, NEW p \in Requests, End(p), UNCHANGED <<used, issued>>,
         kids' \subseteq kids, staged' \subseteq staged,
         DOMAIN rcpt' \subseteq DOMAIN rcpt, \A r \in DOMAIN rcpt' : rcpt'[r] = rcpt[r],
         DOMAIN files' \subseteq DOMAIN files, \A n \in DOMAIN files' : files'[n] = files[n],
         \A o \in Requests : o # p => \A n \in Mine(o) : disk(n)' = disk(n)
  PROVE  ImageInv'
<1>1. Idle.pc = "idle" /\ RequestShape(Idle)
  BY DEF Idle, RequestShape
<1>2. Go(p, Idle)
  BY DEF End
<1> HIDE DEF Idle
<1> QED
  BY <1>1, <1>2, MovesOn

(* Where a request is not idle, what it is made of. *)
LEMMA Busy ==
  ASSUME ImageInv, NEW p \in Requests, req[p].pc # "idle"
  PROVE  /\ RequestShape(req[p])
         /\ req[p] \in [pc : {"lock", "promote", "commit", "report", "row", "select", "unstage"},
                         op : Ops, r : Receipts \cup {None}, imgs : Seq(Image), drop : {req[p].drop},
                         take : SUBSET Ids, got : SUBSET Staged]
         /\ IsFiniteSet(req[p].got) /\ (Pending(p) => req[p].r \in Receipts)
         /\ \A s \in req[p].got : s.bytes = s.sha
         /\ Asked(p) = req[p].take \cup {s.id : s \in req[p].got} /\ Receipt(p) = {req[p].r} \ {None}
  BY DEF ImageInv, Shapes, RequestShape, Idle, Written, Carries, Asked, Receipt, Pending

(* A request goes from one step to the next. *)
LEMMA ImagesTo ==
  ASSUME ImageInv, NEW p \in Requests, NEW pc \in {"promote", "commit", "unstage"}, To(p, pc),
         req[p].pc # "idle", pc # "unstage" => Pending(p),
         UNCHANGED <<rcpt, kids, staged, used, issued>>,
         DOMAIN files' \subseteq DOMAIN files, \A n \in DOMAIN files' : files'[n] = files[n],
         \A o \in Requests : o # p => \A n \in Mine(o) : disk(n)' = disk(n),
         pc # "unstage" => \A n \in Mine(p) : disk(n)' = disk(n)
  PROVE  ImageInv'
<1> DEFINE q == [req[p] EXCEPT !.pc = pc]
<1>1. /\ q.pc = pc /\ q.op = req[p].op /\ q.r = req[p].r /\ q.imgs = req[p].imgs
      /\ q.take = req[p].take /\ q.got = req[p].got /\ RequestShape(q)
  BY Busy DEF RequestShape
<1>2. Go(p, q)
  BY DEF To
<1> HIDE DEF q
<1>3. /\ q.take \cup {s.id : s \in q.got} \subseteq Asked(p) /\ {q.r} \ {None} \subseteq Receipt(p)
      /\ \A s \in q.got : s.bytes = s.sha
  BY <1>1, Busy
<1> QED
  BY <1>1, <1>2, <1>3, MovesOn

LEMMA ImagesLock ==
  ASSUME ImageInv, NEW p \in Requests, Lock(p)
  PROVE  ImageInv'
<1> DEFINE S == FilesOf({k \in Of(kids, req[p].r) : k.id \in req[p].drop})
<1>1. S \subseteq Attached
  BY DEF FilesOf, Of, Attached
<1>2. Unlink(S) /\ UNCHANGED <<rcpt, kids, staged, used, issued>> /\ req[p].pc = "lock"
  BY DEF Lock, At, rowsUnchanged
<1> HIDE DEF S
<1>3. /\ \A o \in Requests : \A n \in Mine(o) : disk(n)' = disk(n)
      /\ DOMAIN files' \subseteq DOMAIN files /\ \A n \in DOMAIN files' : files'[n] = files[n]
  BY <1>1, <1>2, UnlinkKeeps
<1>4. CASE To(p, "promote")
  BY <1>2, <1>3, <1>4, ImagesTo DEF Pending
<1>5. CASE End(p)
  BY <1>2, <1>3, <1>5, ImagesEnd
<1> QED
  BY <1>4, <1>5 DEF Lock

LEMMA ImagesReadStaged ==
  ASSUME ImageInv, NEW p \in Requests, ReadStaged(p)
  PROVE  ImageInv'
<1> DEFINE got == {s \in staged : s.id \in req[p].take}
           m == [req[p] EXCEPT !.got = got]
           q == [m EXCEPT !.pc = "commit"]
<1>1. /\ req[p].pc = "promote" /\ UNCHANGED <<rcpt, kids, staged, used, issued, files>>
      /\ Go(p, [req[p] EXCEPT !.got = got, !.pc = "commit"])
  BY DEF ReadStaged, At, rowsUnchanged
<1>2. got \subseteq Staged /\ IsFiniteSet(got) /\ {s.id : s \in got} \subseteq Attached /\ \A s \in got : s.bytes = s.sha
  BY FS_Subset DEF ImageInv, Shapes, Attached, Written
<1> HIDE DEF got
<1>3. /\ m.pc = "promote" /\ m.op = req[p].op /\ m.r = req[p].r /\ m.imgs = req[p].imgs
      /\ m.take = req[p].take /\ m.got = got /\ RequestShape(m) /\ m # Idle
      /\ m = [pc |-> m.pc, op |-> m.op, r |-> m.r, imgs |-> m.imgs, drop |-> m.drop, take |-> m.take, got |-> m.got]
  BY <1>1, <1>2, Busy DEF RequestShape, Idle
<1>4. Go(p, q)
  BY <1>1
<1> HIDE DEF m
<1>5. /\ q.pc = "commit" /\ q.op = req[p].op /\ q.r = req[p].r /\ q.imgs = req[p].imgs
      /\ q.take = req[p].take /\ q.got = got /\ RequestShape(q)
  BY <1>3 DEF RequestShape
<1> HIDE DEF q
<1>6. /\ q.take \cup {s.id : s \in q.got} \subseteq Asked(p) \cup Attached /\ {q.r} \ {None} \subseteq Receipt(p)
      /\ \A s \in q.got : s.bytes = s.sha
  BY <1>1, <1>2, <1>5, Busy
<1> QED
  BY <1>1, <1>4, <1>5, <1>6, SameFiles, MovesOn DEF Pending

LEMMA ImagesAbort ==
  ASSUME ImageInv, NEW p \in Requests, Abort(p)
  PROVE  ImageInv'
<1>1. req[p].pc = "commit" /\ End(p) /\ UNCHANGED <<rcpt, kids, staged, used, issued>>
  BY DEF Abort, At, rowsUnchanged
<1>2. CASE Unlink({req[p].r})
  <2>1. {req[p].r} \subseteq Attached \cup Asked(p) \cup Receipt(p) \cup {None}
    BY <1>1, Busy
  <2> QED
    BY <1>1, <1>2, <2>1, UnlinkKeeps, ImagesEnd
<1>3. CASE UNCHANGED files
  BY <1>1, <1>3, SameFiles, ImagesEnd
<1> QED
  BY <1>2, <1>3 DEF Abort

LEMMA ImagesReport ==
  ASSUME ImageInv, NEW p \in Requests, Report(p)
  PROVE  ImageInv'
<1>1. req[p].pc = "report" /\ End(p) /\ UNCHANGED <<rcpt, kids, staged, used, issued>>
  BY DEF Report, At, rowsUnchanged
<1>2. CASE Unlink({req[p].r})
  <2>1. {req[p].r} \subseteq Attached \cup Asked(p) \cup Receipt(p) \cup {None}
    BY <1>1, Busy
  <2> QED
    BY <1>1, <1>2, <2>1, UnlinkKeeps, ImagesEnd
<1>3. CASE UNCHANGED files
  BY <1>1, <1>3, SameFiles, ImagesEnd
<1> QED
  BY <1>2, <1>3 DEF Report

LEMMA ImagesDelete ==
  ASSUME ImageInv, NEW p \in Requests, NEW r \in DOMAIN rcpt, Delete(p, r)
  PROVE  ImageInv'
<1> DEFINE S == {r} \cup FilesOf(Of(kids, r))
           q == Request("delete", "row", r, << >>, {}, {})
<1>1. S \subseteq Attached
  BY DEF FilesOf, Of, Attached
<1>2. Unlink(S) /\ UNCHANGED <<rcpt, kids, staged, used, issued>> /\ Go(p, q) /\ "delete" \in Ops
  BY DEF Delete, Arrives, rowsUnchanged
<1> HIDE DEF S
<1>3. r \in Receipts
  BY DEF ImageInv, Shapes
<1>4. q.pc = "row" /\ q.take = {} /\ q.got = {} /\ q.r = r /\ RequestShape(q)
  BY <1>2, <1>3, FS_EmptySet DEF Request, RequestShape
<1> HIDE DEF q
<1> QED
  BY <1>1, <1>2, <1>4, UnlinkKeeps, MovesOn

LEMMA ImagesDeleteRow ==
  ASSUME ImageInv, NEW p \in Requests, DeleteRow(p)
  PROVE  ImageInv'
  BY SameFiles, ImagesEnd DEF DeleteRow, Without, Of

LEMMA ImagesDiscard ==
  ASSUME ImageInv, NEW p \in Requests, NEW ids \in SUBSET Known, Discard(p, ids)
  PROVE  ImageInv'
<1> DEFINE q == Request("discard", "select", None, << >>, {}, ids)
<1>1. UNCHANGED <<rcpt, kids, staged, used, issued, files>> /\ Go(p, q) /\ "discard" \in Ops
  BY DEF Discard, Arrives, rowsUnchanged
<1>2. ids \subseteq Ids /\ ids \subseteq Attached
  BY DEF ImageInv, Shapes, Staged, Known, Attached
<1>3. q.pc = "select" /\ q.take = ids /\ q.got = {} /\ q.r = None /\ RequestShape(q)
  BY <1>1, <1>2, FS_EmptySet DEF Request, RequestShape
<1> HIDE DEF q
<1> QED
  BY <1>1, <1>2, <1>3, SameFiles, MovesOn

LEMMA ImagesUnlinkStaged ==
  ASSUME ImageInv, NEW p \in Requests, UnlinkStaged(p)
  PROVE  ImageInv'
<1>1. req[p].pc = "select" /\ Unlink(req[p].take) /\ To(p, "unstage")
      /\ UNCHANGED <<rcpt, kids, staged, used, issued>>
  BY DEF UnlinkStaged, At, rowsUnchanged
<1>2. req[p].take \subseteq Asked(p)
  BY <1>1 DEF Asked
<1> QED
  BY <1>1, <1>2, UnlinkKeeps, ImagesTo

LEMMA ImagesDeleteStaged ==
  ASSUME ImageInv, NEW p \in Requests, DeleteStaged(p)
  PROVE  ImageInv'
  BY SameFiles, ImagesEnd DEF DeleteStaged
-----------------------------------------------------------------------------
(* Finite sets: what the numbering of the images rests on.                    *)

(* The images of a finite set under a function are finitely many. *)
LEMMA FiniteImage ==
  ASSUME NEW S, IsFiniteSet(S), NEW f, DOMAIN f = S
  PROVE  IsFiniteSet({f[x] : x \in S})
<1> DEFINE T == {f[x] : x \in S}
           g == [x \in S |-> f[x]]
<1>1. g \in Surjection(S, T)
  BY DEF Surjection
<1> HIDE DEF g, T
<1>2. IsFiniteSet(T)
  BY <1>1, FS_Surjection
<1> QED
  BY <1>2 DEF T

(* A set of numbers that is not empty has a smallest one. *)
LEMMA HasLeast ==
  ASSUME NEW S \in SUBSET Nat, S # {}
  PROVE  \E x \in S : \A y \in S : x <= y
<1>1. PICK x \in S : \A y \in S : ~(<<y, x>> \in OpToRel(<, Nat))
  BY NatLessThanWellFounded, WFMin
<1>2. \A y \in S : ~(y < x)
  BY <1>1 DEF OpToRel
<1> QED
  BY <1>2

(* A finite set of numbers that is not empty has a largest one, so Max is it. *)
LEMMA MaxIsLargest ==
  ASSUME NEW S \in SUBSET Nat, S # {}, IsFiniteSet(S)
  PROVE  Max(S) \in S /\ \A y \in S : Max(S) >= y
<1> DEFINE Top(T) == \E x \in T : \A y \in T : x >= y
           Bad == {Cardinality(T) : T \in {U \in SUBSET S : U # {} /\ ~Top(U)}}
<1>1. Bad = {}
  <2> SUFFICES ASSUME Bad # {} PROVE FALSE
    OBVIOUS
  <2>1. \A T \in SUBSET S : IsFiniteSet(T) /\ Cardinality(T) \in Nat
    BY FS_Subset, FS_CardinalityType
  <2>2. Bad \in SUBSET Nat
    BY <2>1
  <2>3. PICK n \in Bad : \A m \in Bad : n <= m
    BY <2>2, HasLeast
  <2>4. PICK T \in SUBSET S : T # {} /\ ~Top(T) /\ Cardinality(T) = n
    BY <2>3
  <2>5. PICK x \in T : TRUE
    BY <2>4
  <2> DEFINE U == T \ {x}
  <2>6. U \in SUBSET S /\ Cardinality(U) = n - 1 /\ n \in Nat
    BY <2>1, <2>4, <2>5, FS_RemoveElement
  <2>7. CASE U = {}
    <3>1. T = {x} /\ x \in Nat
      BY <2>5, <2>7
    <3> QED
      BY <2>4, <3>1
  <2>8. CASE U # {}
    <3>1. n - 1 \notin Bad
      <4>1. ~(n <= n - 1)
        BY <2>6
      <4> HIDE DEF Bad
      <4> QED
        BY <2>3, <4>1
    <3>2. Top(U)
      BY <2>6, <2>8, <3>1
    <3>3. PICK y \in U : \A z \in U : y >= z
      BY <3>2
    <3>4. x \in Nat /\ y \in Nat /\ x \in T /\ y \in T /\ \A z \in T : z \in Nat /\ (z = x \/ z \in U)
      BY <2>5, <2>6, <3>3
    <3>5. CASE x >= y
      BY <2>4, <3>3, <3>4, <3>5
    <3>6. CASE y >= x
      BY <2>4, <3>3, <3>4, <3>6
    <3> QED
      BY <3>4, <3>5, <3>6
  <2> QED
    BY <2>7, <2>8
<1>2. Top(S)
  BY <1>1
<1> QED
  BY <1>2 DEF Max
-----------------------------------------------------------------------------
(* What saving a receipt does to the rows of images.                          *)

(* Two rows that differ in their place alone. *)
Same(k, j) == k.id = j.id /\ k.receipt = j.receipt /\ k.name = j.name /\ k.sha = j.sha /\ k.bytes = j.bytes

LEMMA RenumberKeeps ==
  ASSUME NEW S \in SUBSET Kid, IsFiniteSet(S), NEW r
  PROVE  /\ renumber(S, r) \subseteq Kid /\ IsFiniteSet(renumber(S, r))
         /\ \A k \in renumber(S, r) : \E j \in S : Same(k, j)
<1> DEFINE place(k) == Cardinality({j \in Of(S, r) : j.sort < k.sort})
           f == [k \in S |-> IF k.receipt # r THEN k ELSE [k EXCEPT !.sort = place(k)]]
<1>1. renumber(S, r) = {f[k] : k \in S} /\ DOMAIN f = S
  BY DEF renumber
<1>2. \A k \in S : place(k) \in Nat
  BY FS_Subset, FS_CardinalityType DEF Of
<1> HIDE DEF place
<1>3. \A k \in S : f[k] \in Kid /\ Same(f[k], k)
  BY <1>2 DEF Kid, Same
<1> HIDE DEF f
<1> QED
  BY <1>1, <1>3, FiniteImage

LEMMA RemoveKeeps ==
  ASSUME NEW S \in SUBSET Kid, IsFiniteSet(S), NEW r, NEW drop
  PROVE  /\ Remove(S, r, drop) \subseteq Kid /\ IsFiniteSet(Remove(S, r, drop))
         /\ \A k \in Remove(S, r, drop) : \E j \in S : Same(k, j)
<1> DEFINE T == {k \in S : ~(k.receipt = r /\ k.id \in drop)}
<1>1. T \in SUBSET S /\ IsFiniteSet(T) /\ T \in SUBSET Kid
  BY FS_Subset
<1>2. Remove(S, r, drop) = renumber(T, r) \/ Remove(S, r, drop) = S
  BY DEF Remove
<1> HIDE DEF T
<1>3. CASE Remove(S, r, drop) = renumber(T, r)
  BY <1>1, <1>3, RenumberKeeps
<1>4. CASE Remove(S, r, drop) = S
  BY <1>4 DEF Same
<1> QED
  BY <1>2, <1>3, <1>4

LEMMA NextSortIsNat ==
  ASSUME NEW S \in SUBSET Kid, IsFiniteSet(S), NEW r
  PROVE  NextSort(S, r) \in Nat
<1> DEFINE U == Of(S, r)
           f == [k \in U |-> k.sort]
           sorts == {k.sort : k \in U}
<1>1. U \in SUBSET S /\ IsFiniteSet(U) /\ U \in SUBSET Kid
  BY FS_Subset DEF Of
<1>2. NextSort(S, r) = IF U = {} THEN 0 ELSE 1 + Max(sorts)
  BY DEF NextSort
<1> HIDE DEF U
<1>3. sorts = {f[k] : k \in U} /\ DOMAIN f = U
  OBVIOUS
<1> HIDE DEF f
<1>4. IsFiniteSet({f[k] : k \in U})
  BY <1>1, <1>3, FiniteImage
<1>5. sorts \in SUBSET Nat /\ (U # {} => sorts # {})
  BY <1>1 DEF Kid
<1> HIDE DEF sorts
<1>6. U # {} => Max(sorts) \in Nat
  BY <1>3, <1>4, <1>5, MaxIsLargest
<1> QED
  BY <1>2, <1>6

LEMMA InsertKeeps ==
  ASSUME NEW S \in SUBSET Kid, IsFiniteSet(S), NEW r \in Receipts, NEW imgs \in Seq(Image),
         \A n : disk(n) \in Content
  PROVE  /\ insert_receipt_images(S, r, imgs) \subseteq Kid
         /\ IsFiniteSet(insert_receipt_images(S, r, imgs))
         /\ \A k \in insert_receipt_images(S, r, imgs) :
              \/ k \in S
              \/ \E i \in DOMAIN imgs : /\ k.id = imgs[i].id /\ k.receipt = r /\ k.name = imgs[i].name
                                       /\ k.sha = imgs[i].sha /\ k.bytes = disk(imgs[i].name)
<1> DEFINE g == NextSort(S, r)
           f == [i \in DOMAIN imgs |->
                   [id |-> imgs[i].id, receipt |-> r, sort |-> g + i - 1, name |-> imgs[i].name,
                    sha |-> imgs[i].sha, bytes |-> disk(imgs[i].name)]]
           T == {f[i] : i \in DOMAIN imgs}
<1>1. insert_receipt_images(S, r, imgs) = S \cup T
  BY DEF insert_receipt_images
<1>2. g \in Nat
  BY NextSortIsNat
<1> HIDE DEF g
<1>3. DOMAIN imgs = 1..Len(imgs) /\ Len(imgs) \in Nat /\ \A i \in DOMAIN imgs : imgs[i] \in Image
  OBVIOUS
<1>4. \A i \in DOMAIN imgs : g + i - 1 \in Nat
  BY <1>2, <1>3
<1>5. \A i \in DOMAIN imgs : f[i] \in Kid
  BY <1>3, <1>4 DEF Image, Kid
<1>6. \A i \in DOMAIN imgs : /\ f[i].id = imgs[i].id /\ f[i].receipt = r /\ f[i].name = imgs[i].name
                             /\ f[i].sha = imgs[i].sha /\ f[i].bytes = disk(imgs[i].name)
  OBVIOUS
<1>7. DOMAIN f = DOMAIN imgs
  OBVIOUS
<1> HIDE DEF f
<1>8. IsFiniteSet(T)
  <2>1. IsFiniteSet(DOMAIN imgs)
    BY <1>3, FS_Interval
  <2> QED
    BY <1>7, <2>1, FiniteImage
<1>9. IsFiniteSet(S \cup T)
  BY <1>8, FS_Union
<1> QED
  BY <1>1, <1>5, <1>6, <1>9

LEMMA PromoteKeeps ==
  ASSUME NEW S \in SUBSET Kid, IsFiniteSet(S), NEW r \in Receipts,
         NEW rows \in SUBSET Staged, IsFiniteSet(rows)
  PROVE  /\ promote_staged_images(S, r, rows) \subseteq Kid
         /\ IsFiniteSet(promote_staged_images(S, r, rows))
         /\ \A k \in promote_staged_images(S, r, rows) :
              \/ k \in S
              \/ \E s \in rows : /\ k.id = s.id /\ k.receipt = r /\ k.name = s.id
                                /\ k.sha = s.sha /\ k.bytes = s.bytes /\ \A j \in S : j.id # s.id
<1> DEFINE g == NextSort(S, r)
           before(s) == Cardinality({t \in rows : t.id < s.id})
           left == {t \in rows : \A k \in S : k.id # t.id}
           f == [s \in left |->
                   [id |-> s.id, receipt |-> r, sort |-> g + before(s), name |-> s.id,
                    sha |-> s.sha, bytes |-> s.bytes]]
           T == {f[s] : s \in left}
<1>1. promote_staged_images(S, r, rows) = S \cup T
  BY DEF promote_staged_images
<1>2. g \in Nat
  BY NextSortIsNat
<1>3. \A s \in left : before(s) \in Nat
  BY FS_Subset, FS_CardinalityType
<1> HIDE DEF g, before
<1>4. \A s \in left : f[s] \in Kid
  BY <1>2, <1>3 DEF Staged, Kid, Names
<1>5. \A s \in left : /\ f[s].id = s.id /\ f[s].receipt = r /\ f[s].name = s.id
                      /\ f[s].sha = s.sha /\ f[s].bytes = s.bytes
  OBVIOUS
<1>6. DOMAIN f = left
  OBVIOUS
<1> HIDE DEF f
<1>7. IsFiniteSet(T)
  <2>1. IsFiniteSet(left)
    BY FS_Subset
  <2> QED
    BY <1>6, <2>1, FiniteImage
<1>8. IsFiniteSet(S \cup T)
  BY <1>7, FS_Union
<1> QED
  BY <1>1, <1>4, <1>5, <1>8

(* The cover of a receipt is that of one of its images. *)
LEMMA CoverIsImage ==
  ASSUME NEW S \in SUBSET Kid, NEW r, NEW old, old.bytes \in Content, \A n : disk(n) \in Content
  PROVE  /\ sync_receipt_cover(S, r, old) \in Cover
         /\ sync_receipt_cover(S, r, old).name \in {k.name : k \in S} \cup {None}
<1>1. CASE Of(S, r) = {}
  BY <1>1 DEF sync_receipt_cover, NoCover, Cover, Content
<1>2. CASE Of(S, r) # {}
  <2> DEFINE U == Of(S, r)
             sorts == {j.sort : j \in U}
  <2>1. U \subseteq Kid /\ U \subseteq S
    BY DEF Of
  <2>2. sorts \in SUBSET Nat /\ sorts # {}
    BY <1>2, <2>1 DEF Kid
  <2>3. PICK m \in sorts : \A n \in sorts : m <= n
    BY <2>2, HasLeast
  <2>4. PICK k \in U : k.sort = m
    BY <2>3
  <2>5. \A j \in U : k.sort <= j.sort
    BY <2>3, <2>4
  <2>6. First(S, r) \in U
    BY <2>4, <2>5 DEF First
  <2>7. First(S, r) \in S /\ First(S, r) \in Kid
    BY <2>1, <2>6
  <2> DEFINE c == First(S, r)
  <2>8. sync_receipt_cover(S, r, old)
          = [name |-> c.name, sha |-> c.sha, bytes |-> IF disk(c.name) # None THEN disk(c.name) ELSE old.bytes]
    BY <1>2 DEF sync_receipt_cover
  <2> HIDE DEF c, U, sorts
  <2>9. c \in S /\ c \in Kid
    BY <2>7 DEF c
  <2>10. c.name \in Names /\ c.sha \in Contents
    BY <2>9 DEF Kid
  <2> QED
    BY <2>8, <2>9, <2>10 DEF Cover, Content
<1> QED
  BY <1>1, <1>2
(* The rows a receipt is saved with hold their images, and no id is in two receipts. *)
LEMMA AfterRows ==
  ASSUME ImageInv, NEW p \in Requests, req[p].pc = "commit", NEW q, q = req[p]
  PROVE  /\ After(q) \subseteq Kid /\ IsFiniteSet(After(q))
         /\ \A k \in After(q) : k.bytes = k.sha
         /\ \A k \in After(q) : {k.id, k.name} \subseteq Attached \cup Mine(p) \cup Asked(p)
         /\ \A k \in After(q), j \in After(q) : k.id = j.id => k.receipt = j.receipt
<1> DEFINE R == Remove(kids, q.r, q.drop)
           S == insert_receipt_images(R, q.r, q.imgs)
           A == promote_staged_images(S, q.r, q.got)
<1>1. /\ Pending(p) /\ q.r \in Receipts /\ q.imgs \in Seq(Image) /\ q.got \in SUBSET Staged
      /\ IsFiniteSet(q.got) /\ \A s \in q.got : s.bytes = s.sha /\ s.id \in Asked(p)
  BY Busy DEF Pending
<1>2. \A n : disk(n) \in Content
  BY DEF ImageInv, Shapes, disk, Content
<1>3. kids \in SUBSET Kid /\ IsFiniteSet(kids) /\ \A k \in kids : k.bytes = k.sha
  BY DEF ImageInv, Shapes, Written
<1>4. /\ R \in SUBSET Kid /\ IsFiniteSet(R) /\ \A k \in R : \E j \in kids : Same(k, j)
  BY <1>3, RemoveKeeps
<1> HIDE DEF R
<1>5. /\ S \in SUBSET Kid /\ IsFiniteSet(S)
      /\ \A k \in S : \/ k \in R
                      \/ \E i \in DOMAIN q.imgs : /\ k.id = q.imgs[i].id /\ k.receipt = q.r
                                                  /\ k.name = q.imgs[i].name /\ k.sha = q.imgs[i].sha
                                                  /\ k.bytes = disk(q.imgs[i].name)
  BY <1>1, <1>2, <1>4, InsertKeeps
<1> HIDE DEF S
<1>6. /\ A \subseteq Kid /\ IsFiniteSet(A)
      /\ \A k \in A : \/ k \in S
                      \/ \E s \in q.got : /\ k.id = s.id /\ k.receipt = q.r /\ k.name = s.id
                                          /\ k.sha = s.sha /\ k.bytes = s.bytes /\ \A j \in S : j.id # s.id
  BY <1>1, <1>5, PromoteKeeps
<1>7. After(q) = A
  BY DEF After, R, S
<1> HIDE DEF A
<1>8. \A k \in R : /\ k.bytes = k.sha /\ k.id \in Attached /\ k.name \in Attached
                   /\ \E j \in kids : k.id = j.id /\ k.receipt = j.receipt
  BY <1>3, <1>4 DEF Same, Attached
<1>9. \A i \in DOMAIN q.imgs : /\ q.imgs[i].id \in Mine(p) /\ q.imgs[i].name \in Mine(p)
                              /\ disk(q.imgs[i].name) = q.imgs[i].sha
  BY <1>1, NameIsMine DEF ImageInv, Written, OnVolume
<1>10. \A k \in S : \/ k \in R
                    \/ k.id \in Mine(p) /\ k.name \in Mine(p) /\ k.receipt = q.r /\ k.bytes = k.sha
  BY <1>5, <1>9
<1>11. \A k \in A : \/ k \in S
                    \/ /\ k.id \in Asked(p) /\ k.name \in Asked(p) /\ k.receipt = q.r /\ k.bytes = k.sha
                       /\ \A j \in S : j.id # k.id
  BY <1>1, <1>6
<1>12. Mine(p) \cap Attached = {} /\ OneReceiptPerId
  BY DEF ImageInv, Apart
<1>13. ASSUME NEW k \in S, NEW j \in S, k.id = j.id PROVE k.receipt = j.receipt
  <2>1. CASE k \in R /\ j \in R
    BY <1>8, <1>12, <1>13, <2>1 DEF OneReceiptPerId
  <2>2. CASE k \notin R /\ j \notin R
    BY <1>10, <2>2
  <2>3. CASE k \in R /\ j \notin R
    BY <1>8, <1>10, <1>12, <1>13, <2>3
  <2>4. CASE k \notin R /\ j \in R
    BY <1>8, <1>10, <1>12, <1>13, <2>4
  <2> QED
    BY <2>1, <2>2, <2>3, <2>4
<1>14. ASSUME NEW k \in A, NEW j \in A, k.id = j.id PROVE k.receipt = j.receipt
  BY <1>11, <1>13, <1>14
<1> QED
  BY <1>6, <1>7, <1>8, <1>10, <1>11, <1>14

LEMMA ImagesCommit ==
  ASSUME ImageInv, NEW p \in Requests, Commit(p)
  PROVE  ImageInv'
<1> DEFINE q == req[p]
           to == Mine(p) \cup Asked(p) \cup Receipt(p)
<1>0. Shapes /\ Known1 /\ Apart /\ Written /\ ScanNames
  BY DEF ImageInv
<1>1. /\ q.pc = "commit" /\ ~Taken(After(q)) /\ kids' = After(q) /\ staged' = StagedAfter(q)
      /\ rcpt' = [r \in DOMAIN rcpt \cup {q.r} |-> IF r = q.r THEN NewCover(q) ELSE rcpt[r]]
      /\ UNCHANGED <<files, used, issued>>
      /\ (q.op = "scan" /\ Go(p, [q EXCEPT !.pc = "report"])) \/ Go(p, Idle)
  BY DEF Commit, At, To, End
<1>2. /\ After(q) \subseteq Kid /\ IsFiniteSet(After(q))
      /\ \A k \in After(q) : k.bytes = k.sha
      /\ \A k \in After(q) : {k.id, k.name} \subseteq Attached \cup Mine(p) \cup Asked(p)
      /\ \A k \in After(q), j \in After(q) : k.id = j.id => k.receipt = j.receipt
  BY <1>1, AfterRows
<1>3. /\ Pending(p) /\ q.r \in Receipts /\ Receipt(p) = {q.r} \ {None} /\ RequestShape(q)
  BY <1>1, Busy DEF Pending
<1>4. q.r \in used
  <2>1. q.r # None
    BY <1>3, ContentsAssumption
  <2>2. q.r \in Issued
    BY <1>0, <1>3, <2>1 DEF Known1
  <2>3. q.r \notin 1..issued
    BY <1>0, <1>3, NamesAssumption DEF Shapes
  <2> QED
    BY <2>2, <2>3 DEF Issued
<1>5. NewCover(q) \in Cover /\ NewCover(q).name \in {k.name : k \in After(q)} \cup {None}
  <2> DEFINE old == IF q.r \in DOMAIN rcpt THEN rcpt[q.r] ELSE NoCover
  <2>1. old.bytes \in Content
    BY <1>0 DEF Shapes, Cover, NoCover, Content
  <2>2. \A n : disk(n) \in Content
    BY <1>0 DEF Shapes, disk, Content
  <2>3. NewCover(q) = sync_receipt_cover(After(q), q.r, old)
    BY DEF NewCover
  <2> HIDE DEF q, old
  <2> QED
    BY <1>2, <2>1, <2>2, <2>3, CoverIsImage
<1>6. PICK m : Go(p, m) /\ RequestShape(m) /\ m.pc \in {"report", "idle"}
               /\ (m.pc = "report" => m.take = q.take /\ m.got = q.got /\ m.r = q.r)
  <2>1. CASE Go(p, Idle)
    BY <2>1 DEF RequestShape, Idle
  <2>2. CASE Go(p, [q EXCEPT !.pc = "report"])
    <3> DEFINE m == [q EXCEPT !.pc = "report"]
    <3>1. m.pc = "report" /\ RequestShape(m) /\ m.take = q.take /\ m.got = q.got /\ m.r = q.r
      BY <1>1, <1>3 DEF RequestShape, Idle
    <3> QED
      BY <2>2, <3>1
  <2> QED
    BY <1>1, <2>1, <2>2
<1> HIDE DEF q
<1>7. /\ req'[p] = m /\ DOMAIN req' = Requests
      /\ \A o \in Requests : o # p => req'[o] = req[o]
      /\ \A o \in Requests : o # p => /\ Mine(o)' = Mine(o) /\ Asked(o)' = Asked(o)
                                      /\ Receipt(o)' = Receipt(o)
  BY <1>0, <1>6, OneMoves
<1>8. Shapes'
  <2>1. IsFiniteSet(staged') /\ staged' \subseteq staged
    BY <1>0, <1>1, FS_Subset DEF Shapes, StagedAfter
  <2>2. DOMAIN rcpt' \subseteq used' /\ \A r \in DOMAIN rcpt' : rcpt'[r] \in Cover
    BY <1>0, <1>1, <1>4, <1>5 DEF Shapes
  <2> QED
    BY <1>0, <1>1, <1>2, <1>6, <1>7, <2>1, <2>2 DEF Shapes
<1>9. /\ Mine(p)' = {} /\ Asked(p)' \subseteq Asked(p) /\ Receipt(p)' \subseteq Receipt(p)
  BY <1>1, <1>6, <1>7 DEF Mine, Pending, Asked, Receipt, q
<1>10. Attached' \subseteq Attached \cup to
  <2>1. \A k \in kids' : {k.id, k.name} \subseteq Attached \cup to
    BY <1>1, <1>2
  <2>2. staged' \subseteq staged
    BY <1>1 DEF StagedAfter
  <2>3. DOMAIN rcpt' \subseteq DOMAIN rcpt \cup to
    BY <1>1, <1>3, ContentsAssumption
  <2>4. DOMAIN rcpt \subseteq Attached /\ {s.id : s \in staged} \subseteq Attached
    BY DEF Attached
  <2> HIDE DEF to
  <2> QED
    BY <2>1, <2>2, <2>3, <2>4 DEF Attached
<1>11. Issued' = Issued /\ Attached \subseteq Issued /\ to \subseteq Issued
  BY <1>0, <1>1 DEF Issued, Known1
<1>12. Covers' \subseteq Issued'
  <2>1. \A k \in After(q) : k.name \in Issued
    BY <1>2, <1>11
  <2>2. \A r \in DOMAIN rcpt' : rcpt'[r] = NewCover(q) \/ (r \in DOMAIN rcpt /\ rcpt'[r] = rcpt[r])
    BY <1>1
  <2> QED
    BY <1>0, <1>5, <1>11, <2>1, <2>2 DEF Covers, Known1
<1>13. \A o \in Requests : to \cap Mine(o)' = {}
  <2>1. ASSUME NEW o \in Requests, o # p PROVE to \cap Mine(o) = {}
    BY <1>0, <2>1 DEF Apart
  <2> HIDE DEF to
  <2> QED
    BY <1>7, <1>9, <2>1
<1>14. Known1' /\ Apart'
  <2> DEFINE new == {}
  <2>1. /\ new \cap Issued = {} /\ new \subseteq Issued' /\ Issued \subseteq Issued'
        /\ Mine(p)' \subseteq Mine(p) \cup new
        /\ Asked(p)' \subseteq Asked(p) \cup Attached
        /\ Receipt(p)' \subseteq Receipt(p) \cup DOMAIN rcpt \cup new
    BY <1>9, <1>11
  <2>2. DOMAIN files' \subseteq Issued' /\ to \subseteq Issued'
    BY <1>0, <1>1, <1>11 DEF Known1
  <2> HIDE DEF new, to
  <2> QED
    BY <1>0, <1>7, <1>10, <1>12, <1>13, <2>1, <2>2, TokensMove
<1>15. ScanNames'
  <2>1. ~Pending(p)'
    BY <1>6, <1>7 DEF Pending
  <2> QED
    BY <1>0, <1>7, <2>1 DEF ScanNames, Pending
<1>16. Written'
  <2>1. \A o \in Requests : o # p => OnVolume(o)' /\ Carries(o)'
    <3>1. \A n : disk(n)' = disk(n)
      BY <1>1 DEF disk
    <3> QED
      BY <1>7, <3>1, StillWritten
  <2>2. OnVolume(p)' /\ Carries(p)'
    BY <1>0, <1>1, <1>6, <1>7 DEF OnVolume, Carries, Pending, Written, q
  <2>3. \A s \in staged' : s.bytes = s.sha
    BY <1>0, <1>1 DEF Written, StagedAfter
  <2> QED
    BY <1>1, <1>2, <2>1, <2>2, <2>3 DEF Written
<1>17. OneReceiptPerId' /\ OneReceiptPerImage'
  <2>1. OneReceiptPerId'
    BY <1>1, <1>2 DEF OneReceiptPerId
  <2>2. OneReceiptPerImage'
    BY <1>1, <1>2 DEF OneReceiptPerImage, Taken
  <2> QED
    BY <2>1, <2>2
<1> QED
  BY <1>8, <1>14, <1>15, <1>16, <1>17 DEF ImageInv
-----------------------------------------------------------------------------
(* Reading and healing: files come back, from the mirrors.                    *)
LEMMA FilesReturn ==
  ASSUME ImageInv, Grow, UNCHANGED <<kids, staged, used, issued, req>>,
         DOMAIN files' \subseteq Issued, \A n \in DOMAIN files' : files'[n] \in Contents,
         DOMAIN rcpt' = DOMAIN rcpt,
         \A r \in DOMAIN rcpt : rcpt'[r] \in Cover /\ rcpt'[r].name = rcpt[r].name
  PROVE  ImageInv'
<1>0. Shapes /\ Known1 /\ Apart /\ Written /\ ScanNames
  BY DEF ImageInv
<1>1. Shapes'
  BY <1>0 DEF Shapes
<1>2. /\ \A q \in Requests : UNCHANGED <<Mine(q), Asked(q), Receipt(q)>>
      /\ UNCHANGED <<Covers, Attached, Issued>>
  BY DEF Mine, Pending, Asked, Receipt, Covers, Attached, Issued
<1>3. Known1' /\ Apart' /\ ScanNames'
  BY <1>0, <1>2 DEF Known1, Apart, ScanNames, Pending
<1>4. \A q \in Requests : OnVolume(q)' /\ Carries(q)'
  <2> DEFINE nobody == CHOOSE x : x \notin Requests
  <2>1. nobody \notin Requests
    BY NoSetContainsEverything
  <2> HIDE DEF nobody
  <2> QED
    BY <2>1, DiskGrows, StillWritten
<1> QED
  BY <1>0, <1>1, <1>3, <1>4, RowsStay DEF Written

LEMMA RewriteReturns ==
  ASSUME ImageInv, NEW n \in Issued, NEW c \in Contents, disk(n) = None, Rewrite(n, c)
  PROVE  Grow /\ DOMAIN files' \subseteq Issued /\ \A m \in DOMAIN files' : files'[m] \in Contents
<1>1. /\ DOMAIN files \subseteq Issued /\ \A m \in DOMAIN files : files[m] \in Contents
  BY DEF ImageInv, Shapes, Known1
<1>2. n \notin DOMAIN files
  BY <1>1, ContentsAssumption DEF disk
<1> QED
  BY <1>1, <1>2 DEF Rewrite, Grow

(* What an image is served with, and that it is. *)
LEMMA Served ==
  ASSUME ImageInv, NEW k \in kids
  PROVE  read_receipt_image(k.receipt, k.sort) \in Contents
<1> DEFINE rows == {j \in Of(kids, k.receipt) : j.sort = k.sort}
           c == CHOOSE j \in rows : TRUE
<1>1. k \in rows
  BY DEF Of
<1>2. c \in rows
  BY <1>1
<1>3. c \in kids
  BY <1>2 DEF Of
<1>4. read_receipt_image(k.receipt, k.sort) = read_child_full(c)
  BY <1>1 DEF read_receipt_image
<1> HIDE DEF c, rows
<1>5. c.bytes = c.sha /\ c.sha \in Contents
  BY <1>3 DEF ImageInv, Shapes, Kid, Written
<1>6. \A n : disk(n) # None => disk(n) \in Contents
  BY DEF ImageInv, Shapes, disk
<1> QED
  BY <1>4, <1>5, <1>6 DEF read_child_full

LEMMA ImagesReadImage ==
  ASSUME ImageInv, NEW p \in Requests, NEW k \in kids, ReadImage(p, k)
  PROVE  ImageInv'
<1>1. /\ disk(k.name) = None /\ Rewrite(k.name, read_receipt_image(k.receipt, k.sort))
      /\ UNCHANGED <<rcpt, kids, staged, used, issued, req>>
  BY DEF ReadImage, rowsUnchanged
<1>2. k.name \in Issued
  BY DEF ImageInv, Known1, Attached
<1>3. \A r \in DOMAIN rcpt : rcpt[r] \in Cover
  BY DEF ImageInv, Shapes
<1> QED
  BY <1>1, <1>2, <1>3, Served, RewriteReturns, FilesReturn

LEMMA ImagesReadCover ==
  ASSUME ImageInv, NEW p \in Requests, NEW r \in DOMAIN rcpt, ReadCover(p, r)
  PROVE  ImageInv'
<1>1. /\ disk(r) = None /\ read_receipt_file(r) # None /\ Rewrite(r, read_receipt_file(r))
      /\ UNCHANGED <<rcpt, kids, staged, used, issued, req>>
  BY DEF ReadCover, rowsUnchanged
<1>2. r \in Issued /\ \A s \in DOMAIN rcpt : rcpt[s] \in Cover
  BY DEF ImageInv, Known1, Attached, Shapes
<1>3. read_receipt_file(r) \in Contents
  BY <1>1, <1>2 DEF read_receipt_file, Cover, Content
<1> QED
  BY <1>1, <1>2, <1>3, RewriteReturns, FilesReturn

(* What is written out are mirrors, under names that are in use. *)
LEMMA WriteOutReturns ==
  ASSUME ImageInv, NEW rows, WriteOut(rows),
         \A k \in rows : k.name \in Issued \cup {None} /\ k.bytes \in Content
  PROVE  /\ Grow /\ DOMAIN files' \subseteq Issued /\ \A n \in DOMAIN files' : files'[n] \in Contents
         /\ \A k \in rows : k.name # None /\ k.bytes # None => k.name \in DOMAIN files'
<1> DEFINE M == Missing(rows)
           c(n) == CHOOSE k \in M : k.name = n
<1>1. /\ DOMAIN files \subseteq Issued /\ \A m \in DOMAIN files : files[m] \in Contents
  BY DEF ImageInv, Shapes, Known1
<1>2. \A k \in M : k \in rows /\ k.name # None /\ k.bytes # None
  BY DEF Missing
<1>3. /\ DOMAIN files' = DOMAIN files \cup {k.name : k \in M}
      /\ \A n \in DOMAIN files' : files'[n] = IF n \in DOMAIN files THEN files[n] ELSE c(n).bytes
  BY DEF WriteOut
<1>4. \A n \in {k.name : k \in M} : c(n) \in M
  OBVIOUS
<1>5. \A k \in rows : k.name # None /\ k.bytes # None => k.name \in DOMAIN files'
  <2>1. \A k \in rows : k.name # None /\ k.bytes # None => k \in M \/ disk(k.name) # None
    BY DEF Missing
  <2>2. \A n : disk(n) # None => n \in DOMAIN files
    BY DEF disk
  <2> HIDE DEF M
  <2> QED
    BY <1>3, <2>1, <2>2
<1> HIDE DEF M
<1>6. \A n \in {k.name : k \in M} : c(n).bytes \in Contents
  BY <1>2, <1>4 DEF Content
<1> HIDE DEF c
<1>7. \A n \in DOMAIN files' : files'[n] \in Contents
  BY <1>1, <1>3, <1>6
<1>8. DOMAIN files' \subseteq Issued
  BY <1>1, <1>2, <1>3
<1> QED
  BY <1>3, <1>5, <1>7, <1>8 DEF Grow

LEMMA ImagesHealReceipts ==
  ASSUME ImageInv, HealReceipts
  PROVE  ImageInv'
<1>1. /\ WriteOut({rcpt[r] : r \in DOMAIN rcpt}) /\ rcpt' = [r \in DOMAIN rcpt |-> Backfilled(rcpt[r])]
      /\ UNCHANGED <<kids, staged, used, issued, req>>
  BY DEF HealReceipts
<1>2. \A r \in DOMAIN rcpt : rcpt[r] \in Cover /\ rcpt[r].name \in Issued \cup {None}
  BY DEF ImageInv, Shapes, Known1, Covers
<1>3. \A n : disk(n) \in Content
  BY DEF ImageInv, Shapes, disk, Content
<1>4. \A r \in DOMAIN rcpt : rcpt'[r] \in Cover /\ rcpt'[r].name = rcpt[r].name
  <2> SUFFICES ASSUME NEW r \in DOMAIN rcpt
               PROVE  Backfilled(rcpt[r]) \in Cover /\ Backfilled(rcpt[r]).name = rcpt[r].name
    BY <1>1
  <2> QED
    BY <1>2, <1>3 DEF Backfilled, Cover
<1>5. \A r \in DOMAIN rcpt : rcpt[r].bytes \in Content
  BY <1>2 DEF Cover
<1> QED
  BY <1>1, <1>2, <1>4, <1>5, WriteOutReturns, FilesReturn

(* Every attached image has its mirror, so that each has its file again. *)
LEMMA ImagesHealImages ==
  ASSUME ImageInv, HealImages
  PROVE  ImageInv' /\ count_missing_image_files' = 0
<1>1. /\ WriteOut(kids) /\ kids' = {Backfilled(k) : k \in kids}
      /\ UNCHANGED <<rcpt, staged, used, issued, req>>
  BY DEF HealImages, Healed
<1>2. \A k \in kids : /\ k.bytes \in Contents /\ k.name \in Issued
                      /\ k.name # None /\ k.bytes # None
  BY NoneIsNoName, ContentsAssumption DEF ImageInv, Shapes, Kid, Known1, Attached, Written
<1>3. \A k \in kids : Backfilled(k) = k
  BY <1>2 DEF Backfilled
<1>4. kids' = kids
  BY <1>1, <1>3
<1>5. /\ Grow /\ DOMAIN files' \subseteq Issued /\ \A n \in DOMAIN files' : files'[n] \in Contents
      /\ \A k \in kids : k.name \in DOMAIN files'
  BY <1>1, <1>2, WriteOutReturns DEF Content
<1>6. ImageInv'
  <2>1. \A r \in DOMAIN rcpt : rcpt[r] \in Cover
    BY DEF ImageInv, Shapes
  <2> QED
    BY <1>1, <1>4, <1>5, <2>1, FilesReturn
<1>7. \A k \in kids' : ~(disk(k.name) = None)'
  BY <1>4, <1>5, ContentsAssumption DEF disk
<1>8. count_missing_image_files' = Cardinality({})
  <2>1. {k \in kids : disk(k.name) = None}' = {}
    BY <1>7
  <2> QED
    BY <2>1 DEF count_missing_image_files
<1> QED
  BY <1>6, <1>8, FS_EmptySet

LEMMA ImagesRestart ==
  ASSUME ImageInv, Restart
  PROVE  ImageInv'
<1>0. Shapes /\ Known1 /\ Apart /\ Written /\ ScanNames
  BY DEF ImageInv
<1>1. /\ UNCHANGED <<rcpt, kids, staged, used, issued>> /\ DOMAIN req' = Requests
      /\ \/ files' = << >> /\ \A p \in Requests : req'[p] = Idle
         \/ files' = files /\ \A p \in Requests : req'[p] = req[p] \/ req'[p] = Idle
  BY DEF Restart, rowsUnchanged
<1>2. \A p \in Requests : req'[p] = req[p] \/ req'[p] = Idle
  BY <1>1
<1>3. Shapes'
  BY <1>0, <1>1, <1>2 DEF Shapes, RequestShape
<1>4. /\ \A q \in Requests : Mine(q)' \subseteq Mine(q) /\ Asked(q)' \subseteq Asked(q) /\ Receipt(q)' \subseteq Receipt(q)
      /\ \A q \in Requests : Pending(q)' => req'[q] = req[q] /\ Mine(q)' = Mine(q)
      /\ UNCHANGED <<Covers, Attached, Issued>>
  <2>1. UNCHANGED <<Covers, Attached, Issued>>
    BY <1>1 DEF Covers, Attached, Issued
  <2>2. ASSUME NEW q \in Requests
        PROVE  /\ Mine(q)' \subseteq Mine(q) /\ Asked(q)' \subseteq Asked(q) /\ Receipt(q)' \subseteq Receipt(q)
               /\ Pending(q)' => req'[q] = req[q] /\ Mine(q)' = Mine(q)
    <3>1. CASE req'[q] = Idle
      BY <3>1, IdleHasNothing DEF Pending, Idle
    <3>2. CASE req'[q] = req[q]
      BY <3>2 DEF Mine, Pending, Asked, Receipt
    <3> QED
      BY <1>2, <3>1, <3>2
  <2> QED
    BY <2>1, <2>2
<1>5. DOMAIN files' \subseteq DOMAIN files
  BY <1>1
<1>6. Known1' /\ Apart' /\ ScanNames'
  <2>1. Known1'
    BY <1>0, <1>4, <1>5 DEF Known1
  <2>2. Apart'
    BY <1>0, <1>4 DEF Apart
  <2>3. ScanNames'
    BY <1>0, <1>4 DEF ScanNames, Pending
  <2> QED
    BY <2>1, <2>2, <2>3
<1>7. ASSUME NEW q \in Requests PROVE OnVolume(q)' /\ Carries(q)'
  <2>1. CASE req'[q] = Idle
    BY <2>1 DEF OnVolume, Carries, Pending, Idle
  <2>2. CASE req'[q] # Idle
    <3>1. req'[q] = req[q] /\ files' = files
      BY <1>1, <2>2
    <3> QED
      BY <1>0, <3>1 DEF Written, OnVolume, Carries, Pending, disk
  <2> QED
    BY <2>1, <2>2
<1> QED
  BY <1>0, <1>1, <1>3, <1>6, <1>7, RowsStay DEF Written

-----------------------------------------------------------------------------
LEMMA ImagesInit == Init => ImageInv
<1> SUFFICES ASSUME Init PROVE ImageInv
  OBVIOUS
<1>1. \A p \in Requests : req[p] = Idle /\ Mine(p) = {} /\ Asked(p) = {} /\ Receipt(p) = {} /\ ~Pending(p)
  BY DEF Init, Idle, Mine, Asked, Receipt, Pending
<1>2. Shapes
  BY <1>1, NamesAssumption, FS_EmptySet DEF Init, Shapes, RequestShape
<1>3. Known1 /\ Apart /\ ScanNames
  BY <1>1 DEF Init, Known1, Apart, ScanNames, Attached, Covers
<1>4. Written
  BY <1>1 DEF Init, Written, OnVolume, Carries, Idle
<1> QED
  BY <1>2, <1>3, <1>4 DEF Init, ImageInv, OneReceiptPerId, OneReceiptPerImage

LEMMA ImagesStep == ImageInv /\ [Next]_vars => ImageInv' /\ (boot = "images" /\ boot' = "up" => count_missing_image_files' = 0)
<1> SUFFICES ASSUME ImageInv, [Next]_vars
             PROVE  ImageInv' /\ (boot = "images" /\ boot' = "up" => count_missing_image_files' = 0)
  OBVIOUS
<1>1. CASE Restart
  BY <1>1, ImagesRestart DEF Restart
<1>2. CASE HealReceipts
  BY <1>2, ImagesHealReceipts DEF HealReceipts
<1>3. CASE HealImages
  BY <1>3, ImagesHealImages
<1>4. ASSUME NEW p \in Requests, Step(p) PROVE ImageInv' /\ UNCHANGED boot
  <2>1. UNCHANGED boot
    BY <1>4 DEF Step, Lock, ReadStaged, Commit, Abort, Report, DeleteRow, UnlinkStaged, DeleteStaged
  <2> QED
    BY <1>4, <2>1, ImagesLock, ImagesReadStaged, ImagesCommit, ImagesAbort, ImagesReport,
       ImagesDeleteRow, ImagesUnlinkStaged, ImagesDeleteStaged DEF Step
<1>5. ASSUME NEW p \in Requests, Arrival(p) PROVE ImageInv' /\ UNCHANGED boot
  <2>1. UNCHANGED boot
    BY <1>5 DEF Arrival, Create, Update, Scan, Delete, ReadCover, Stage, Discard, ReadImage
  <2> QED
    BY <1>5, <2>1, ImagesCreate, ImagesUpdate, ImagesScan, ImagesDelete, ImagesReadCover,
       ImagesStage, ImagesDiscard, ImagesReadImage DEF Arrival
<1>6. CASE UNCHANGED vars
  <2>1. ImageInv'
    <3>1. DOMAIN files \subseteq Issued /\ \A n \in DOMAIN files : files[n] \in Contents
      BY DEF ImageInv, Shapes, Known1
    <3>2. \A r \in DOMAIN rcpt : rcpt[r] \in Cover
      BY DEF ImageInv, Shapes
    <3> QED
      BY <1>6, <3>1, <3>2, FilesReturn DEF vars, Grow
  <2> QED
    BY <1>6, <2>1 DEF vars
<1> QED
  BY <1>1, <1>2, <1>3, <1>4, <1>5, <1>6 DEF Next

(* Whatever uploads, scans, edits, discards and deletions do at the same time,
   whichever of them is rolled back, and however often the volume is lost: every
   image attached to a receipt is served at its address, and its bytes are in
   its row or on the volume.                                                  *)
THEOREM AttachedImagesRead == Spec => []Readable
<1>1. ImageInv => Readable
  <2> SUFFICES ASSUME ImageInv, NEW k \in kids
               PROVE  read_receipt_image(k.receipt, k.sort) # None /\ k.sha \in {disk(k.name), k.bytes}
    BY DEF Readable
  <2>1. k.bytes = k.sha
    BY DEF ImageInv, Written
  <2> QED
    BY <2>1, Served, ContentsAssumption
<1>2. ImageInv /\ [Next]_vars => ImageInv'
  BY ImagesStep
<1> QED
  BY <1>1, <1>2, ImagesInit, PTL DEF Spec

(* The unique index keeps an image to one receipt, though a scan and two uploads
   of it may all have passed the check for duplicates before any was saved.     *)
THEOREM ImageHasOneReceipt == Spec => []OneReceiptPerImage
<1>1. ImageInv => OneReceiptPerImage
  BY DEF ImageInv
<1>2. ImageInv /\ [Next]_vars => ImageInv'
  BY ImagesStep
<1> QED
  BY <1>1, <1>2, ImagesInit, PTL DEF Spec

(* After a restart no attached image is without its file when requests are served
   again, whatever was lost: the mirror of each is in its row.                 *)
THEOREM RestartBringsFilesBack == Spec => HealConverges
<1>1. ImageInv /\ [Next]_vars => [boot = "images" /\ boot' = "up" => count_missing_image_files' = 0]_vars
  BY ImagesStep
<1>2. ImageInv /\ [Next]_vars => ImageInv'
  BY ImagesStep
<1> QED
  BY <1>1, <1>2, ImagesInit, PTL DEF Spec, HealConverges
=============================================================================
