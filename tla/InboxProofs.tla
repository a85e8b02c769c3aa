---------------------------- MODULE InboxProofs ----------------------------
(***************************************************************************)
(* Why no hand-written message is lost: every statement of every request   *)
(* commits on its own, so what holds between the statements of several     *)
(* requests is what the rows themselves keep up.                           *)
(***************************************************************************)
EXTENDS Inbox, FiniteSetTheorems, TLAPS

Sending == [pc : {"existing", "peer", "find", "create", "refind", "insert"}, from : People, to : People,
            kind : Kinds, receipt : Receipts \cup {None}, typed : BOOLEAN,
            context : Receipts \cup {None}, existing : BOOLEAN, conv : Nat]
RequestShape(q) ==
    \/ q = Idle
    \/ q \in Sending
    \/ q \in [pc : {"touch"}, id : Nat, conv : Nat]
    \/ q \in [pc : {"publish"}, id : Nat]
    \/ q \in [pc : {"sweep"}, user : People]
    \/ q \in [pc : {"unthread"}, receipt : Receipts]

(* The id of a conversation is never given twice, not even after it is gone. *)
Threads ==
    /\ opened \in Nat /\ sent \in Nat /\ live \subseteq Receipts
    /\ \A c \in convs : c.id \in 1..opened /\ c.receipt \in Receipts \cup {None}
    /\ \A c \in convs, d \in convs : c.id = d.id => c = d

(* What a request knows stays true: the thread it found is that of its two
   people as long as it exists, and a receipt whose threads go is gone.      *)
RequestKnows(p) ==
    /\ RequestShape(req[p])
    /\ At(p, "insert") => /\ req[p].conv \in 1..opened
                          /\ \A c \in convs : c.id = req[p].conv => c.pair = {req[p].from, req[p].to}
    /\ At(p, "unthread") => req[p].receipt \notin live

(* Every message lies in a conversation its recipient can open: no unread
   message is out of reach, which the badge counts on.                       *)
Reachable == \A m \in msgs : \E c \in convs : c.id = m.conv /\ m.to \in c.pair

(* The message of an answered sender is there, and says so, in a thread of
   the same receipt.                                                         *)
Stored(k) == \E m \in msgs, c \in convs :
    m.id = k.id /\ m.kind = k.kind /\ c.id = m.conv /\ c.receipt = k.receipt
Remembered == \A k \in acked :
    Stored(k) \/ k.kind \in NotificationKinds \/ k.receipt \notin live \cup {None}

Inv ==
    /\ Threads
    /\ DOMAIN req = Requests /\ \A p \in Requests : RequestKnows(p)
    /\ Reachable /\ Remembered /\ OneThreadPerReceipt

-----------------------------------------------------------------------------
LEMMA OneMoves ==
  ASSUME Inv, NEW p \in Requests, NEW q, Go(p, q)
  PROVE  /\ req'[p] = q /\ DOMAIN req' = Requests
         /\ \A o \in Requests : o # p => req'[o] = req[o]
  BY DEF Go, Inv

(* The others know what they knew while no thread appears under an id they
   know of, and no receipt comes back.                                       *)
LEMMA OthersKnow ==
  ASSUME Inv, NEW p, \A o \in Requests : o # p => req'[o] = req[o],
         opened' \in Nat, opened <= opened', live' \subseteq live,
         \A c \in convs' : c \in convs \/ c.id > opened
  PROVE  \A o \in Requests : o # p => RequestKnows(o)'
<1> SUFFICES ASSUME NEW o \in Requests, o # p PROVE RequestKnows(o)'
  OBVIOUS
<1>1. RequestKnows(o) /\ req'[o] = req[o] /\ opened \in Nat
  BY DEF Inv, Threads
<1>2. ASSUME At(o, "insert")
      PROVE  /\ req[o].conv \in 1..opened'
             /\ \A c \in convs' : c.id = req[o].conv => c.pair = {req[o].from, req[o].to}
  <2>1. req[o].conv \in 1..opened
    BY <1>1, <1>2 DEF RequestKnows
  <2>2. \A c \in convs' : c.id = req[o].conv => c \in convs
    BY <1>1, <2>1
  <2> QED
    BY <1>1, <1>2, <2>1, <2>2 DEF RequestKnows
<1> QED
  BY <1>1, <1>2 DEF RequestKnows, At

(* A step that touches no row. *)
LEMMA RowsStay ==
  ASSUME Inv, UNCHANGED rows, NEW p \in Requests, NEW q, Go(p, q), RequestShape(q),
         q.pc = "insert" => /\ q.conv \in 1..opened
                            /\ \A c \in convs : c.id = q.conv => c.pair = {q.from, q.to},
         q.pc # "unthread"
  PROVE  Inv'
<1>1. /\ req'[p] = q /\ DOMAIN req' = Requests
      /\ \A o \in Requests : o # p => req'[o] = req[o]
  BY OneMoves
<1>2. UNCHANGED <<convs, opened, msgs, sent, live, acked>> /\ opened \in Nat
  BY DEF rows, Inv, Threads
<1>3. \A o \in Requests : o # p => RequestKnows(o)'
  BY <1>1, <1>2, OthersKnow
<1>4. RequestKnows(p)'
  BY <1>1, <1>2 DEF RequestKnows, At
<1> QED
  BY <1>1, <1>2, <1>3, <1>4 DEF Inv, Threads, Reachable, Remembered, Stored, OneThreadPerReceipt

LEMMA IdleKnows ==
  /\ RequestShape(Idle) /\ Idle.pc = "idle"
  BY DEF RequestShape, Idle

(* A request that is sending goes on to its next statement. *)
SendPC == {"existing", "peer", "find", "create", "refind", "insert"}

LEMMA GoesOn ==
  ASSUME NEW q \in Sending, NEW pc \in SendPC
  PROVE  [q EXCEPT !.pc = pc] \in Sending /\ [q EXCEPT !.pc = pc].pc = pc
  BY DEF Sending, SendPC

LEMMA ExistingSends ==
  ASSUME NEW q \in Sending, NEW e \in BOOLEAN
  PROVE  /\ [q EXCEPT !.pc = "peer", !.existing = e] \in Sending
         /\ [q EXCEPT !.pc = "peer", !.existing = e].pc = "peer"
  BY DEF Sending

LEMMA PeersSend ==
  ASSUME NEW q \in Sending
  PROVE  /\ [q EXCEPT !.pc = "find", !.existing = FALSE] \in Sending
         /\ [q EXCEPT !.pc = "find", !.existing = FALSE].pc = "find"
  BY DEF Sending

Found(q, i) == [q EXCEPT !.pc = "insert", !.conv = i]
LEMMA FoundSends ==
  ASSUME NEW q \in Sending, NEW i \in Nat, NEW o, o = Found(q, i)
  PROVE  o \in Sending /\ o.pc = "insert" /\ o.conv = i /\ o.from = q.from /\ o.to = q.to
<1> DEFINE a == [q EXCEPT !.pc = "insert"]
<1>1. a \in Sending /\ a.pc = "insert" /\ a.from = q.from /\ a.to = q.to
  BY DEF Sending
<1>2. o = [a EXCEPT !.conv = i]
  BY DEF Found
<1> HIDE DEF a
<1> QED
  BY <1>1, <1>2 DEF Sending

-----------------------------------------------------------------------------
(* Sending. *)

LEMMA SendTextKeeps == ASSUME Inv, NEW p \in Requests, SendText(p) PROVE Inv'
<1>1. PICK from \in People, to \in People, x \in Receipts \cup {None} :
        /\ Go(p, [NewSend("peer", from, to, "message", x, TRUE, None)
                    EXCEPT !.existing = conversation_exists({from, to})])
        /\ UNCHANGED rows
  BY DEF SendText
<1> DEFINE e == conversation_exists({from, to})
<1>2. PICK n \in Sending : n = NewSend("peer", from, to, "message", x, TRUE, None) /\ n.pc = "peer"
  <2>1. PICK n : n = NewSend("peer", from, to, "message", x, TRUE, None)
    OBVIOUS
  <2>2. n \in Sending /\ n.pc = "peer"
    BY <2>1 DEF NewSend, Sending, Kinds
  <2> QED
    BY <2>1, <2>2
<1> DEFINE q == [n EXCEPT !.existing = e]
<1>3. e \in BOOLEAN
  BY DEF conversation_exists
<1> HIDE DEF e
<1>4. q \in Sending /\ q.pc = "peer"
  BY <1>2, <1>3 DEF Sending
<1>5. Go(p, q)
  BY <1>1, <1>2 DEF e
<1> HIDE DEF q
<1> QED
  BY <1>1, <1>4, <1>5, RowsStay DEF RequestShape

(* Of the threads of a pair one is the newest. *)
LEMMA NewestIsOne ==
  ASSUME Threads, NEW S \in SUBSET convs, S # {}
  PROVE  Newest(S) \in S
<1> DEFINE age(c) == opened - c.id
           ages == {age(c) : c \in S}
<1>1. opened \in Nat /\ \A c \in S : c.id \in 1..opened /\ age(c) \in Nat
  BY DEF Threads
<1>2. ages \subseteq Nat /\ ages # {}
  BY <1>1
<1>3. PICK a \in ages : \A b \in ages : ~(<<b, a>> \in OpToRel(<, Nat))
  BY <1>2, NatLessThanWellFounded, WFMin
<1>4. PICK c \in S : a = age(c)
  BY <1>3
<1>5. \A d \in S : ~(age(d) < age(c))
  BY <1>1, <1>3, <1>4 DEF OpToRel
<1>6. \A d \in S : d.id <= c.id
  BY <1>1, <1>5
<1> QED
  BY <1>6 DEF Newest

LEMMA SendTemplateKeeps == ASSUME Inv, NEW p \in Requests, SendTemplate(p) PROVE Inv'
<1>1. PICK from \in People, to \in People, t \in Templates, x \in Receipts \cup {None}, thread \in Receipts \cup {None} :
        Go(p, NewSend("existing", from, to, t, thread, TRUE, x)) /\ UNCHANGED rows
  <2>1. PICK from \in People, to \in People, t \in Templates, x \in Receipts \cup {None} :
          LET found == ReceiptThreads({from, to})
              thread == IF x = None /\ found # {} THEN Newest(found).receipt ELSE None
          IN Go(p, NewSend("existing", from, to, t, thread, TRUE, x)) /\ UNCHANGED rows
    BY DEF SendTemplate
  <2> DEFINE found == ReceiptThreads({from, to})
  <2>2. CASE x = None /\ found # {}
    <3>1. Newest(found) \in found
      <4>1. found \in SUBSET convs /\ Threads
        BY DEF ReceiptThreads, Inv
      <4> HIDE DEF found
      <4> QED
        BY <2>2, <4>1, NewestIsOne
    <3>2. Newest(found).receipt \in Receipts \cup {None}
      BY <3>1 DEF ReceiptThreads, Inv, Threads
    <3> QED
      BY <2>1, <2>2, <3>2
  <2>3. CASE ~(x = None /\ found # {})
    BY <2>1, <2>3
  <2> QED
    BY <2>2, <2>3
<1>2. t \in Kinds
  BY TemplatesAssumption DEF Kinds, TemplateKinds
<1>3. PICK q \in Sending : q = NewSend("existing", from, to, t, thread, TRUE, x) /\ q.pc = "existing"
  <2>1. PICK q : q = NewSend("existing", from, to, t, thread, TRUE, x)
    OBVIOUS
  <2>2. q \in Sending /\ q.pc = "existing"
    BY <1>2, <2>1 DEF NewSend, Sending
  <2> QED
    BY <2>1, <2>2
<1> QED
  BY <1>1, <1>3, RowsStay DEF RequestShape

LEMMA NotifyRejectionKeeps == ASSUME Inv, NEW p \in Requests, NotifyRejection(p) PROVE Inv'
<1>1. PICK a \in Admins, x \in live :
        Go(p, NewSend("existing", a, Owner[x], "receipt_rejection", x, FALSE, None)) /\ UNCHANGED rows
  BY DEF NotifyRejection
<1>2. x \in Receipts /\ Owner[x] \in People /\ a \in People /\ "receipt_rejection" \in Kinds
  BY OwnerAssumption DEF People, Inv, Threads, Kinds, TemplateKinds
<1>3. PICK q \in Sending : /\ q = NewSend("existing", a, Owner[x], "receipt_rejection", x, FALSE, None)
                          /\ q.pc = "existing"
  <2>1. PICK q : q = NewSend("existing", a, Owner[x], "receipt_rejection", x, FALSE, None)
    OBVIOUS
  <2>2. q \in Sending /\ q.pc = "existing"
    BY <1>2, <2>1 DEF NewSend, Sending
  <2> QED
    BY <2>1, <2>2
<1> QED
  BY <1>1, <1>3, RowsStay DEF RequestShape

(* A request between its first and its last statement. *)
LEMMA IsSending ==
  ASSUME Inv, NEW p \in Requests, req[p].pc \in {"existing", "peer", "find", "create", "refind", "insert"}
  PROVE  req[p] \in Sending
  BY DEF Inv, RequestKnows, RequestShape, Idle

LEMMA CheckExistingKeeps == ASSUME Inv, NEW p \in Requests, CheckExisting(p) PROVE Inv'
<1> DEFINE e == conversation_exists({req[p].from, req[p].to})
           q == [req[p] EXCEPT !.pc = "peer", !.existing = e]
<1>1. Go(p, q) /\ UNCHANGED rows /\ req[p] \in Sending
  BY IsSending DEF CheckExisting, At
<1>2. e \in BOOLEAN
  BY DEF conversation_exists
<1> HIDE DEF e
<1>3. q \in Sending /\ q.pc = "peer"
  BY <1>1, <1>2, ExistingSends
<1> HIDE DEF q
<1> QED
  BY <1>1, <1>3, RowsStay DEF RequestShape

LEMMA CheckPeersKeeps == ASSUME Inv, NEW p \in Requests, CheckPeers(p) PROVE Inv'
<1>1. req[p] \in Sending /\ UNCHANGED rows
  BY IsSending DEF CheckPeers, At
<1>2. CASE End(p)
  BY <1>1, <1>2, IdleKnows, RowsStay DEF End
<1>3. CASE ~End(p)
  <2> DEFINE q == [req[p] EXCEPT !.pc = "find", !.existing = FALSE]
  <2>1. Go(p, q)
    BY <1>3 DEF CheckPeers
  <2>2. q \in Sending /\ q.pc = "find"
    BY <1>1, PeersSend
  <2> HIDE DEF q
  <2> QED
    BY <1>1, <2>1, <2>2, RowsStay DEF RequestShape
<1> QED
  BY <1>2, <1>3

LEMMA FindThreadKeeps == ASSUME Inv, NEW p \in Requests, FindThread(p) PROVE Inv'
<1>1. req[p] \in Sending /\ UNCHANGED rows
  BY IsSending DEF FindThread
<1>2. ASSUME NEW c \in SameThread(req[p]), Go(p, [req[p] EXCEPT !.pc = "insert", !.conv = c.id])
      PROVE  Inv'
  <2>0. PICK q : q = Found(req[p], c.id)
    OBVIOUS
  <2>1. c \in convs /\ c.pair = {req[p].from, req[p].to} /\ c.id \in 1..opened /\ c.id \in Nat
    BY DEF SameThread, Inv, Threads
  <2>2. /\ q \in Sending /\ q.pc = "insert" /\ q.conv = c.id /\ q.from = req[p].from /\ q.to = req[p].to
    BY <1>1, <2>0, <2>1, FoundSends
  <2>3. \A d \in convs : d.id = q.conv => d.pair = {q.from, q.to}
    BY <2>1, <2>2 DEF Inv, Threads
  <2> QED
    BY <1>1, <1>2, <2>0, <2>1, <2>2, <2>3, RowsStay DEF RequestShape, Found
<1>3. CASE To(p, "create")
  <2> DEFINE q == [req[p] EXCEPT !.pc = "create"]
  <2>1. Go(p, q) /\ q \in Sending /\ q.pc = "create"
    BY <1>1, <1>3, GoesOn DEF To, SendPC
  <2> HIDE DEF q
  <2> QED
    BY <1>1, <2>1, RowsStay DEF RequestShape
<1>4. CASE End(p)
  BY <1>1, <1>4, IdleKnows, RowsStay DEF End
<1> QED
  BY <1>2, <1>3, <1>4 DEF FindThread

LEMMA CreateThreadKeeps == ASSUME Inv, NEW p \in Requests, CreateThread(p) PROVE Inv'
<1>1. req[p] \in Sending /\ UNCHANGED <<msgs, sent, live, acked>>
  BY IsSending DEF CreateThread, At
<1>2. CASE To(p, "refind") /\ UNCHANGED <<convs, opened, order>>
  <2> DEFINE q == [req[p] EXCEPT !.pc = "refind"]
  <2>1. Go(p, q) /\ q \in Sending /\ q.pc = "refind"
    BY <1>1, <1>2, GoesOn DEF To, SendPC
  <2> HIDE DEF q
  <2> QED
    BY <1>1, <1>2, <2>1, RowsStay DEF RequestShape, rows
<1>3. CASE ~Conflicts(req[p]) /\ ~(To(p, "refind") /\ UNCHANGED <<convs, opened, order>>)
  <2> DEFINE c == [id |-> opened', pair |-> {req[p].from, req[p].to},
                   receipt |-> req[p].receipt]
  <2>0. PICK q : q = Found(req[p], opened')
    OBVIOUS
  <2>1. opened' = opened + 1 /\ convs' = convs \cup {c} /\ Go(p, q) /\ opened \in Nat
    BY <1>3, <2>0 DEF CreateThread, Inv, Threads, Found
  <2>2. c.id = opened' /\ c.pair = {req[p].from, req[p].to} /\ c.receipt = req[p].receipt
    OBVIOUS
  <2>3. q \in Sending /\ q.pc = "insert" /\ q.conv = opened' /\ q.from = req[p].from /\ q.to = req[p].to
    <3>1. opened' \in Nat
      BY <2>1
    <3> QED
      BY <1>1, <2>0, <3>1, FoundSends
  <2> HIDE DEF c
  <2>4. \A d \in convs : d.id \in 1..opened /\ d.id # c.id /\ ~(d.id > opened)
    BY <2>1, <2>2 DEF Inv, Threads
  <2>5. /\ req'[p] = q /\ DOMAIN req' = Requests
        /\ \A o \in Requests : o # p => req'[o] = req[o]
    BY <2>1, OneMoves
  <2>6. Threads'
    <3>1. c.receipt \in Receipts \cup {None}
      BY <1>1, <2>2 DEF Sending
    <3>2. \A d \in convs' : d.id \in 1..opened' /\ d.receipt \in Receipts \cup {None}
      BY <2>1, <2>2, <2>4, <3>1 DEF Inv, Threads
    <3>3. \A d \in convs', e \in convs' : d.id = e.id => d = e
      BY <2>1, <2>4 DEF Inv, Threads
    <3> QED
      BY <1>1, <2>1, <3>2, <3>3 DEF Inv, Threads
  <2>7. \A o \in Requests : o # p => RequestKnows(o)'
    BY <1>1, <2>1, <2>2, <2>5, OthersKnow
  <2>8. RequestKnows(p)'
    BY <2>1, <2>2, <2>3, <2>4, <2>5 DEF RequestKnows, RequestShape, At
  <2>9. OneThreadPerReceipt'
    <3>1. \A d \in convs : d.pair = c.pair /\ d.receipt = c.receipt => c.receipt = None
      BY <1>3, <2>2 DEF Conflicts, SameThread
    <3> QED
      BY <2>1, <3>1 DEF Inv, OneThreadPerReceipt
  <2>10. Reachable'
    BY <1>1, <2>1 DEF Inv, Reachable
  <2>11. Remembered'
    BY <1>1, <2>1 DEF Inv, Remembered, Stored
  <2> QED
    BY <2>5, <2>6, <2>7, <2>8, <2>9, <2>10, <2>11 DEF Inv
<1> QED
  BY <1>2, <1>3 DEF CreateThread

LEMMA InsertMessageKeeps == ASSUME Inv, NEW p \in Requests, InsertMessage(p) PROVE Inv'
<1>1. /\ req[p] \in Sending /\ UNCHANGED <<convs, opened, order, live, acked>> /\ sent \in Nat
      /\ \A c \in convs : c.id = req[p].conv => c.pair = {req[p].from, req[p].to}
  BY IsSending DEF InsertMessage, At, Inv, RequestKnows, Threads
<1>2. CASE End(p) /\ UNCHANGED <<msgs, sent>>
  BY <1>1, <1>2, IdleKnows, RowsStay DEF End, rows
<1>3. CASE ~(End(p) /\ UNCHANGED <<msgs, sent>>)
  <2> DEFINE m == [id |-> sent', conv |-> req[p].conv, from |-> req[p].from,
                   to |-> req[p].to, kind |-> req[p].kind, typed |-> req[p].typed, read |-> FALSE]
             q == [pc |-> "touch", id |-> sent', conv |-> req[p].conv]
  <2>1. /\ \E c \in convs : c.id = req[p].conv
        /\ msgs' = msgs \cup {m} /\ sent' = sent + 1 /\ Go(p, q)
    BY <1>3 DEF InsertMessage
  <2>2. m.conv = req[p].conv /\ m.to = req[p].to
    OBVIOUS
  <2>3. RequestShape(q) /\ q.pc = "touch"
    BY <1>1, <2>1 DEF RequestShape, Sending
  <2> HIDE DEF m, q
  <2>4. /\ req'[p] = q /\ DOMAIN req' = Requests
        /\ \A o \in Requests : o # p => req'[o] = req[o]
    BY <2>1, OneMoves
  <2>5. \A o \in Requests : o # p => RequestKnows(o)'
    BY <1>1, <2>4, OthersKnow DEF Inv, Threads
  <2>6. RequestKnows(p)'
    BY <2>3, <2>4 DEF RequestKnows, At
  <2>7. Reachable'
    BY <1>1, <2>1, <2>2 DEF Inv, Reachable
  <2>8. Remembered'
    BY <1>1, <2>1 DEF Inv, Remembered, Stored
  <2>9. Threads' /\ OneThreadPerReceipt'
    BY <1>1, <2>1 DEF Inv, Threads, OneThreadPerReceipt
  <2> QED
    BY <2>4, <2>5, <2>6, <2>7, <2>8, <2>9 DEF Inv
<1> QED
  BY <1>2, <1>3

LEMMA TouchThreadKeeps == ASSUME Inv, NEW p \in Requests, TouchThread(p) PROVE Inv'
<1> DEFINE q == [pc |-> "publish", id |-> req[p].id]
<1>1. UNCHANGED <<convs, opened, msgs, sent, live, acked>> /\ Go(p, q) /\ opened \in Nat
  BY DEF TouchThread, Inv, Threads
<1>2. RequestShape(q) /\ q.pc = "publish"
  BY DEF TouchThread, At, Inv, RequestKnows, RequestShape, Idle, Sending
<1> HIDE DEF q
<1>3. /\ req'[p] = q /\ DOMAIN req' = Requests
      /\ \A o \in Requests : o # p => req'[o] = req[o]
  BY <1>1, OneMoves
<1>4. \A o \in Requests : o # p => RequestKnows(o)'
  BY <1>1, <1>3, OthersKnow
<1>5. RequestKnows(p)'
  BY <1>2, <1>3 DEF RequestKnows, At
<1> QED
  BY <1>1, <1>3, <1>4, <1>5 DEF Inv, Threads, Reachable, Remembered, Stored, OneThreadPerReceipt

LEMMA PublishKeeps == ASSUME Inv, NEW p \in Requests, Publish(p) PROVE Inv'
<1>1. UNCHANGED <<convs, opened, msgs, sent, live>> /\ Go(p, Idle)
  BY DEF Publish, End
<1>2. /\ req'[p] = Idle /\ DOMAIN req' = Requests
      /\ \A o \in Requests : o # p => req'[o] = req[o]
  BY <1>1, OneMoves
<1>3. \A o \in Requests : RequestKnows(o)'
  <2>1. \A o \in Requests : o # p => RequestKnows(o)'
    BY <1>1, <1>2, OthersKnow DEF Inv, Threads
  <2> QED
    BY <1>2, <2>1, IdleKnows DEF RequestKnows, At
<1>4. Threads' /\ OneThreadPerReceipt' /\ Reachable'
  BY <1>1 DEF Inv, Threads, OneThreadPerReceipt, Reachable
<1>5. Remembered'
  <2>1. \A k \in acked : Stored(k)' = Stored(k)
    BY <1>1 DEF Stored
  <2>2. CASE acked' = acked
    BY <1>1, <2>1, <2>2 DEF Inv, Remembered
  <2>3. CASE acked' # acked
    <3>1. PICK m \in msgs :
            acked' = acked \cup {[id |-> m.id, kind |-> m.kind, receipt |-> (CHOOSE c \in convs : c.id = m.conv).receipt]}
      BY <2>3 DEF Publish
    <3>2. PICK c \in convs : c.id = m.conv /\ c = CHOOSE d \in convs : d.id = m.conv
      BY DEF Inv, Reachable
    <3>3. PICK k : k.id = m.id /\ k.kind = m.kind /\ k.receipt = c.receipt /\ acked' = acked \cup {k}
      BY <3>1, <3>2
    <3>4. Stored(k)'
      BY <1>1, <3>2, <3>3 DEF Stored
    <3> QED
      BY <1>1, <2>1, <3>3, <3>4 DEF Inv, Remembered
  <2> QED
    BY <2>2, <2>3
<1> QED
  BY <1>2, <1>3, <1>4, <1>5 DEF Inv

-----------------------------------------------------------------------------
(* Reading, clearing, deleting. *)

(* Messages go, or are marked, and conversations go; what is lost was the
   notice of a workflow, or of a receipt that is gone.                       *)
LEMMA RowsGo ==
  ASSUME Inv, UNCHANGED <<opened, sent, acked>>, convs' \subseteq convs, live' \subseteq live,
         DOMAIN req' = Requests, \A p \in Requests : RequestKnows(p)',
         \A m \in msgs' : \E n \in msgs : n.conv = m.conv /\ n.to = m.to,
         \A m \in msgs', c \in convs : c.id = m.conv => c \in convs',
         \A m \in msgs, c \in convs : c.id = m.conv =>
            \/ \E n \in msgs' : n.id = m.id /\ n.kind = m.kind /\ n.conv = m.conv
            \/ m.kind \in NotificationKinds
            \/ c.receipt \notin live \cup {None}
  PROVE  Inv'
<1>1. Threads' /\ OneThreadPerReceipt'
  BY DEF Inv, Threads, OneThreadPerReceipt
<1>2. Reachable'
  <2> SUFFICES ASSUME NEW m \in msgs' PROVE \E c \in convs' : c.id = m.conv /\ m.to \in c.pair
    BY DEF Reachable
  <2>1. PICK n \in msgs : n.conv = m.conv /\ n.to = m.to
    OBVIOUS
  <2>2. PICK c \in convs : c.id = n.conv /\ n.to \in c.pair
    BY DEF Inv, Reachable
  <2> QED
    BY <2>1, <2>2
<1>3. Remembered'
  <2> SUFFICES ASSUME NEW k \in acked
               PROVE  Stored(k)' \/ k.kind \in NotificationKinds \/ k.receipt \notin live' \cup {None}
    BY DEF Remembered
  <2>1. CASE Stored(k)
    <3>1. PICK m \in msgs, c \in convs : m.id = k.id /\ m.kind = k.kind /\ c.id = m.conv /\ c.receipt = k.receipt
      BY <2>1 DEF Stored
    <3>2. ASSUME NEW n \in msgs', n.id = m.id, n.kind = m.kind, n.conv = m.conv PROVE Stored(k)'
      BY <3>1, <3>2 DEF Stored
    <3> QED
      BY <3>1, <3>2
  <2>2. CASE ~Stored(k)
    BY <2>2 DEF Inv, Remembered
  <2> QED
    BY <2>1, <2>2
<1> QED
  BY <1>1, <1>2, <1>3 DEF Inv

LEMMA SameRequests ==
  ASSUME Inv, UNCHANGED <<opened, live, req>>, convs' \subseteq convs
  PROVE  DOMAIN req' = Requests /\ \A p \in Requests : RequestKnows(p)'
  BY DEF Inv, RequestKnows, At

LEMMA MarksKeep ==
  ASSUME Inv, NEW u \in People, NEW i, mark_conversation_read(u, i) \/ mark_read(u, i)
  PROVE  Inv'
<1>1. PICK S \in SUBSET msgs : msgs' = {IF m \in S THEN [m EXCEPT !.read = TRUE] ELSE m : m \in msgs}
  <2>1. CASE mark_conversation_read(u, i)
    <3> DEFINE S == {m \in msgs : m.conv = i /\ m.to = u}
    <3>1. msgs' = {IF m \in S THEN [m EXCEPT !.read = TRUE] ELSE m : m \in msgs}
      BY <2>1 DEF mark_conversation_read
    <3> QED
      BY <3>1
  <2>2. CASE mark_read(u, i)
    <3> DEFINE S == {m \in msgs : m.id = i /\ m.to = u}
    <3>1. msgs' = {IF m \in S THEN [m EXCEPT !.read = TRUE] ELSE m : m \in msgs}
      BY <2>2 DEF mark_read
    <3> QED
      BY <3>1
  <2> QED
    BY <2>1, <2>2
<1> DEFINE read(m) == IF m \in S THEN [m EXCEPT !.read = TRUE] ELSE m
<1>2. UNCHANGED <<convs, req, opened, sent, live, acked>>
  BY DEF mark_conversation_read, mark_read, Quiet
<1>3. \A m \in msgs : read(m).id = m.id /\ read(m).kind = m.kind /\ read(m).conv = m.conv /\ read(m).to = m.to
  OBVIOUS
<1>4. msgs' = {read(m) : m \in msgs}
  BY <1>1
<1> HIDE DEF read
<1>5. \A m \in msgs : read(m) \in msgs'
  BY <1>4
<1>6. /\ \A m \in msgs' : \E n \in msgs : n.conv = m.conv /\ n.to = m.to
      /\ \A m \in msgs : \E n \in msgs' : n.id = m.id /\ n.kind = m.kind /\ n.conv = m.conv
  BY <1>3, <1>4, <1>5
<1> QED
  BY <1>2, <1>6, SameRequests, RowsGo

LEMMA PruneKeeps == ASSUME Inv, NEW x \in Receipts, prune_receipt_auto_messages(x) PROVE Inv'
<1>1. /\ msgs' \subseteq msgs /\ \A m \in msgs : m \in msgs' \/ m.kind = "receipt_rejection"
      /\ UNCHANGED <<convs, req, opened, sent, live, acked>>
  BY DEF prune_receipt_auto_messages, Quiet
<1> QED
  BY <1>1, SameRequests, RowsGo DEF NotificationKinds

LEMMA ClearBubblesKeeps == ASSUME Inv, NEW p \in Requests, ClearBubbles(p) PROVE Inv'
<1>1. PICK u \in People : Go(p, [pc |-> "sweep", user |-> u])
  BY DEF ClearBubbles
<1>2. /\ msgs' \subseteq msgs /\ \A m \in msgs : m \in msgs' \/ m.kind \in NotificationKinds
      /\ UNCHANGED <<convs, opened, sent, live, acked>>
  BY DEF ClearBubbles, Quiet
<1>3. /\ req'[p] = [pc |-> "sweep", user |-> u] /\ DOMAIN req' = Requests
      /\ \A o \in Requests : o # p => req'[o] = req[o]
  BY <1>1, OneMoves
<1>4. RequestKnows(p)'
  BY <1>3 DEF RequestKnows, RequestShape, At
<1>5. \A o \in Requests : RequestKnows(o)'
  BY <1>2, <1>3, <1>4, OthersKnow DEF Inv, Threads
<1> QED
  BY <1>2, <1>3, <1>5, RowsGo

(* A conversation that is deleted takes its messages along. *)
LEMMA DeleteKeeps ==
  ASSUME Inv, NEW p \in Requests, NEW gone, Delete(gone), Go(p, Idle), Quiet,
         \A m \in msgs, c \in convs : c.id = m.conv /\ c.id \in gone => c.receipt \notin live \cup {None}
  PROVE  Inv'
<1>1. /\ convs' = {c \in convs : c.id \notin gone} /\ msgs' = {m \in msgs : m.conv \notin gone}
      /\ UNCHANGED <<opened, sent, live, acked>>
  BY DEF Delete, Quiet
<1>2. /\ req'[p] = Idle /\ DOMAIN req' = Requests
      /\ \A o \in Requests : o # p => req'[o] = req[o]
  BY OneMoves
<1>3. RequestKnows(p)'
  BY <1>2, IdleKnows DEF RequestKnows, At
<1>4. \A o \in Requests : RequestKnows(o)'
  BY <1>1, <1>2, <1>3, OthersKnow DEF Inv, Threads
<1>5. /\ \A m \in msgs' : \E n \in msgs : n.conv = m.conv /\ n.to = m.to
      /\ \A m \in msgs', c \in convs : c.id = m.conv => c \in convs'
      /\ \A m \in msgs, c \in convs : c.id = m.conv =>
            \/ \E n \in msgs' : n.id = m.id /\ n.kind = m.kind /\ n.conv = m.conv
            \/ c.receipt \notin live \cup {None}
  BY <1>1
<1> QED
  BY <1>1, <1>2, <1>4, <1>5, RowsGo

LEMMA ClearThreadsKeeps == ASSUME Inv, NEW p \in Requests, ClearThreads(p) PROVE Inv'
<1> DEFINE gone == Unused(req[p].user)
<1>1. Delete(gone) /\ Go(p, Idle) /\ Quiet
  BY DEF ClearThreads, End
<1>2. \A m \in msgs : m.conv \notin gone
  BY DEF Unused
<1> QED
  BY <1>1, <1>2, DeleteKeeps

LEMMA DeleteReceiptKeeps == ASSUME Inv, NEW p \in Requests, DeleteReceipt(p) PROVE Inv'
<1>1. PICK x \in live : live' = live \ {x} /\ Go(p, [pc |-> "unthread", receipt |-> x])
  BY DEF DeleteReceipt
<1>2. UNCHANGED <<convs, opened, msgs, sent, acked>>
  BY DEF DeleteReceipt
<1>3. /\ req'[p] = [pc |-> "unthread", receipt |-> x] /\ DOMAIN req' = Requests
      /\ \A o \in Requests : o # p => req'[o] = req[o]
  BY <1>1, OneMoves
<1>4. RequestKnows(p)'
  BY <1>1, <1>3 DEF RequestKnows, RequestShape, At, Inv, Threads
<1>5. \A o \in Requests : RequestKnows(o)'
  BY <1>1, <1>2, <1>3, <1>4, OthersKnow DEF Inv, Threads
<1> QED
  BY <1>1, <1>2, <1>3, <1>5, RowsGo

LEMMA DeleteThreadsKeeps == ASSUME Inv, NEW p \in Requests, delete_conversations_for_receipt(p) PROVE Inv'
<1> DEFINE gone == {c.id : c \in {d \in convs : d.receipt = req[p].receipt}}
<1>1. Delete(gone) /\ Go(p, Idle) /\ Quiet /\ At(p, "unthread")
  BY DEF delete_conversations_for_receipt, End
<1>2. req[p].receipt \notin live /\ req[p].receipt # None
  <2>1. req[p].receipt \in Receipts
    BY <1>1 DEF At, Inv, RequestKnows, RequestShape, Idle, Sending
  <2> QED
    BY <1>1, <2>1, PeopleAssumption DEF Inv, RequestKnows
<1>3. \A c \in convs : c.id \in gone => c.receipt = req[p].receipt
  BY DEF Inv, Threads
<1> QED
  BY <1>1, <1>2, <1>3, DeleteKeeps

-----------------------------------------------------------------------------
LEMMA InvInit == Init => Inv
  BY BoundsAssumption DEF Init, Inv, Threads, RequestKnows, RequestShape, Idle, At, Reachable, Remembered, OneThreadPerReceipt

LEMMA InvStep == Inv /\ [Next]_vars => Inv'
<1> SUFFICES ASSUME Inv, [Next]_vars PROVE Inv'
  OBVIOUS
<1>1. CASE UNCHANGED vars
  BY <1>1 DEF vars, Inv, Threads, RequestKnows, RequestShape, At, Reachable, Remembered, Stored, OneThreadPerReceipt
<1>2. ASSUME NEW p \in Requests,
             \/ SendText(p) \/ SendTemplate(p) \/ NotifyRejection(p)
             \/ CheckExisting(p) \/ CheckPeers(p) \/ FindThread(p) \/ CreateThread(p)
             \/ InsertMessage(p) \/ TouchThread(p) \/ Publish(p)
             \/ ClearBubbles(p) \/ ClearThreads(p)
             \/ DeleteReceipt(p) \/ delete_conversations_for_receipt(p)
      PROVE  Inv'
  BY <1>2, SendTextKeeps, SendTemplateKeeps, NotifyRejectionKeeps, CheckExistingKeeps, CheckPeersKeeps,
     FindThreadKeeps, CreateThreadKeeps, InsertMessageKeeps, TouchThreadKeeps, PublishKeeps, ClearBubblesKeeps,
     ClearThreadsKeeps, DeleteReceiptKeeps, DeleteThreadsKeeps
<1>3. ASSUME NEW u \in People, NEW i \in 1..MaxSends, mark_conversation_read(u, i) \/ mark_read(u, i)
      PROVE  Inv'
  BY <1>3, MarksKeep
<1>4. ASSUME NEW x \in Receipts, prune_receipt_auto_messages(x) PROVE Inv'
  BY <1>4, PruneKeeps
<1> QED
  BY <1>1, <1>2, <1>3, <1>4 DEF Next

(* A hand-written message whose sender was answered 200 stays, whatever other
   requests read, clear, prune and delete between the statements of its own,
   until its receipt is deleted.                                             *)
THEOREM HandWrittenStays == Spec => []HandWrittenKept
<1>1. Inv => HandWrittenKept
  BY DEF Inv, Remembered, Stored, HandWrittenKept
<1> QED
  BY <1>1, InvInit, InvStep, PTL DEF Spec

(* Any number of requests may open the thread of a receipt at the same time:
   they share one.                                                           *)
THEOREM ThreadIsShared == Spec => []OneThreadPerReceipt
<1>1. Inv => OneThreadPerReceipt
  BY DEF Inv
<1> QED
  BY <1>1, InvInit, InvStep, PTL DEF Spec

-----------------------------------------------------------------------------
(* The badge. *)

FewMessages == IsFiniteSet(msgs)

LEMMA MessagesStayFew == FewMessages /\ [Next]_vars => FewMessages'
<1> SUFFICES ASSUME FewMessages, [Next]_vars PROVE FewMessages'
  OBVIOUS
<1>1. CASE msgs' \subseteq msgs
  BY <1>1, FS_Subset DEF FewMessages
<1>2. ASSUME NEW m, msgs' = msgs \cup {m} PROVE FewMessages'
  BY <1>2, FS_AddElement DEF FewMessages
<1>3. ASSUME NEW S, msgs' = {IF m \in S THEN [m EXCEPT !.read = TRUE] ELSE m : m \in msgs} PROVE FewMessages'
  <2> DEFINE read(m) == IF m \in S THEN [m EXCEPT !.read = TRUE] ELSE m
  <2>1. IsFiniteSet({read(m) : m \in msgs})
    <3> DEFINE f == [m \in msgs |-> read(m)]
               T == {read(m) : m \in msgs}
    <3> HIDE DEF read
    <3>1. f \in Surjection(msgs, T)
      BY DEF Surjection
    <3> HIDE DEF f, T
    <3>2. IsFiniteSet(T)
      BY <3>1, FS_Surjection DEF FewMessages
    <3> QED
      BY <3>2 DEF T
  <2> QED
    BY <1>3, <2>1 DEF FewMessages
<1>4. ASSUME NEW p \in Requests, InsertMessage(p) PROVE FewMessages'
  BY <1>1, <1>2, <1>4 DEF InsertMessage
<1>5. ASSUME NEW u \in People, NEW i, mark_conversation_read(u, i) PROVE FewMessages'
  <2> DEFINE S == {m \in msgs : m.conv = i /\ m.to = u}
  <2>1. msgs' = {IF m \in S THEN [m EXCEPT !.read = TRUE] ELSE m : m \in msgs}
    BY <1>5 DEF mark_conversation_read
  <2> HIDE DEF S
  <2> QED
    BY <1>3, <2>1
<1>6. ASSUME NEW u \in People, NEW i, mark_read(u, i) PROVE FewMessages'
  <2> DEFINE S == {m \in msgs : m.id = i /\ m.to = u}
  <2>1. msgs' = {IF m \in S THEN [m EXCEPT !.read = TRUE] ELSE m : m \in msgs}
    BY <1>6 DEF mark_read
  <2> HIDE DEF S
  <2> QED
    BY <1>3, <2>1
<1>7. ASSUME NEW p \in Requests,
             \/ SendText(p) \/ SendTemplate(p) \/ NotifyRejection(p)
             \/ CheckExisting(p) \/ CheckPeers(p) \/ FindThread(p) \/ CreateThread(p)
             \/ TouchThread(p) \/ Publish(p) \/ ClearBubbles(p) \/ ClearThreads(p)
             \/ DeleteReceipt(p) \/ delete_conversations_for_receipt(p)
      PROVE  msgs' \subseteq msgs
  BY <1>7 DEF SendText, SendTemplate, NotifyRejection, CheckExisting, CheckPeers, FindThread, CreateThread,
     TouchThread, Publish, ClearBubbles, ClearThreads, DeleteReceipt, delete_conversations_for_receipt, Delete, rows
<1>8. ASSUME NEW x \in Receipts, prune_receipt_auto_messages(x) PROVE msgs' \subseteq msgs
  BY <1>8 DEF prune_receipt_auto_messages
<1>9. CASE UNCHANGED vars
  BY <1>1, <1>9 DEF vars
<1> QED
  BY <1>1, <1>4, <1>5, <1>6, <1>7, <1>8, <1>9 DEF Next

(* A set of things counted by the blocks of its parts: as many as there are. *)
Stack(Ids, Part) == Cardinality(UNION {{i} \X (1..Cardinality(Part[i])) : i \in Ids})
LEMMA Blocks ==
  ASSUME NEW U, IsFiniteSet(U), NEW Ids, NEW Part,
         \A x \in U : \E i \in Ids : x \in Part[i],
         \A i \in Ids : Part[i] \subseteq U,
         \A i \in Ids, j \in Ids : \A x \in Part[i] \cap Part[j] : i = j
  PROVE  Stack(Ids, Part) = Cardinality(U)
<1> DEFINE n(i) == Cardinality(Part[i])
           W == UNION {{i} \X (1..n(i)) : i \in Ids}
           F == [i \in Ids |-> CHOOSE f : f \in Bijection(1..n(i), Part[i])]
           G == [w \in W |-> F[w[1]][w[2]]]
<1>1. \A i \in Ids : F[i] \in Bijection(1..n(i), Part[i])
  <2> SUFFICES ASSUME NEW i \in Ids PROVE F[i] \in Bijection(1..n(i), Part[i])
    OBVIOUS
  <2>1. IsFiniteSet(Part[i])
    BY FS_Subset
  <2>2. PICK f : f \in Bijection(1..n(i), Part[i])
    <3>1. ExistsBijection(1..n(i), Part[i])
      BY <2>1, FS_CardinalityType
    <3> QED
      BY <3>1 DEF ExistsBijection
  <2> QED
    BY <2>2
<1>2. \A w \in W : w[1] \in Ids /\ w[2] \in 1..n(w[1]) /\ w = <<w[1], w[2]>>
  OBVIOUS
<1>3. \A i \in Ids : \A k \in 1..n(i) : <<i, k>> \in W
  OBVIOUS
<1>4. \A w \in W : G[w] = F[w[1]][w[2]]
  OBVIOUS
<1>5. G = [w \in W |-> G[w]]
  OBVIOUS
<1> HIDE DEF F, W, G, n
<1>6. \A i \in Ids : \A k \in 1..n(i) : F[i][k] \in Part[i]
  <2> SUFFICES ASSUME NEW i \in Ids, NEW k \in 1..n(i) PROVE F[i][k] \in Part[i]
    OBVIOUS
  <2> DEFINE f == F[i]
             D == 1..n(i)
  <2>1. f \in [D -> Part[i]]
    BY <1>1 DEF Bijection, Injection
  <2> QED
    BY <2>1
<1>7. \A i \in Ids : \A k \in 1..n(i), l \in 1..n(i) : F[i][k] = F[i][l] => k = l
  <2> SUFFICES ASSUME NEW i \in Ids, NEW k \in 1..n(i), NEW l \in 1..n(i), F[i][k] = F[i][l] PROVE k = l
    OBVIOUS
  <2> DEFINE f == F[i]
             D == 1..n(i)
  <2>1. f \in [D -> Part[i]] /\ IsInjective(f)
    BY <1>1 DEF Bijection, Injection
  <2>2. DOMAIN f = D
    BY <2>1
  <2> QED
    BY <2>1, <2>2 DEF IsInjective
<1>8. \A i \in Ids : \A x \in Part[i] : \E k \in 1..n(i) : F[i][k] = x
  BY <1>1 DEF Bijection, Surjection
<1>9. G \in [W -> U]
  BY <1>2, <1>4, <1>5, <1>6
<1>10. G \in Injection(W, U)
  <2> SUFFICES ASSUME NEW a \in W, NEW b \in W, G[a] = G[b] PROVE a = b
    BY <1>9 DEF Injection, IsInjective
  <2>1. G[a] \in Part[a[1]] /\ G[b] \in Part[b[1]]
    BY <1>2, <1>4, <1>6
  <2>2. a[1] = b[1]
    BY <1>2, <2>1
  <2>3. a[2] = b[2]
    BY <1>2, <1>4, <1>7, <2>2
  <2> QED
    BY <1>2, <2>2, <2>3
<1>11. G \in Surjection(W, U)
  <2> SUFFICES ASSUME NEW x \in U PROVE \E w \in W : G[w] = x
    BY <1>9 DEF Surjection
  <2>1. PICK i \in Ids : x \in Part[i]
    OBVIOUS
  <2>2. PICK k \in 1..n(i) : F[i][k] = x
    BY <1>8, <2>1
  <2>3. <<i, k>> \in W /\ <<i, k>>[1] = i /\ <<i, k>>[2] = k
    BY <1>3
  <2> QED
    BY <1>4, <2>2, <2>3
<1>12. Cardinality(W) = Cardinality(U)
  BY <1>10, <1>11, FS_Injection
<1> QED
  BY <1>12 DEF W, n, Stack

(* Every conversation has an id of its own, and these are few. *)
LEMMA FewThreads == ASSUME Inv, NEW u PROVE IsFiniteSet(ThreadsOf(u))
<1>1. opened \in Nat /\ ThreadsOf(u) \subseteq 1..opened
  BY DEF Inv, Threads, ThreadsOf
<1>2. IsFiniteSet(1..opened)
  <2>1. PICK n \in Int : n = opened
    BY <1>1
  <2>2. IsFiniteSet(1..n)
    BY FS_Interval
  <2> QED
    BY <2>1, <2>2
<1> QED
  BY <1>1, <1>2, FS_Subset

(* No conversation is cut off a list that has room for all. *)
LEMMA AllListed ==
  ASSUME Inv, NEW u, Cardinality(ThreadsOf(u)) <= ListLimit
  PROVE  Listed(u) = ThreadsOf(u)
<1> SUFFICES ASSUME NEW i \in ThreadsOf(u)
             PROVE  Cardinality({j \in ThreadsOf(u) : Later(j, i)}) < ListLimit
  BY DEF Listed
<1> DEFINE T == ThreadsOf(u)
           ahead == {j \in T : Later(j, i)}
<1>1. IsFiniteSet(T) /\ Cardinality(T) \in Nat /\ Cardinality(T) <= ListLimit
  BY FewThreads, FS_CardinalityType
<1>2. ahead \subseteq T \ {i}
  BY DEF Later
<1> HIDE DEF T, ahead
<1>3. IsFiniteSet(T \ {i}) /\ Cardinality(T \ {i}) = Cardinality(T) - 1
  BY <1>1, FS_RemoveElement DEF T
<1>4. Cardinality(ahead) \in Nat /\ Cardinality(ahead) <= Cardinality(T \ {i})
  BY <1>2, <1>3, FS_Subset, FS_CardinalityType
<1> QED
  BY <1>1, <1>3, <1>4, BoundsAssumption DEF T, ahead

(* The unread messages of a user in some conversations. *)
Unread(u, Ids) == {m \in msgs : m.to = u /\ ~m.read /\ m.conv \in Ids}

LEMMA ListCounts ==
  ASSUME FewMessages, NEW u
  PROVE  Sum(list_conversations(u)) = Cardinality(Unread(u, Listed(u)))
<1> DEFINE Ids == Listed(u)
           U == Unread(u, Ids)
           Part == [i \in Ids |-> {m \in msgs : m.conv = i /\ m.to = u /\ ~m.read}]
<1>1. IsFiniteSet(U)
  BY FS_Subset DEF FewMessages, Unread
<1>2. \A m \in U : \E i \in Ids : m \in Part[i]
  BY DEF Unread
<1>3. /\ \A i \in Ids : Part[i] \subseteq U
      /\ \A i \in Ids, j \in Ids : \A m \in Part[i] \cap Part[j] : i = j
  BY DEF Unread
<1>4. UNION {{c.conv} \X (1..c.unread) : c \in list_conversations(u)}
        = UNION {{i} \X (1..Cardinality(Part[i])) : i \in Ids}
  <2> DEFINE line(i) == [conv |-> i, unread |-> Cardinality(Part[i])]
  <2>1. list_conversations(u) = {line(i) : i \in Ids}
    BY DEF list_conversations
  <2>2. \A i : line(i).conv = i /\ line(i).unread = Cardinality(Part[i])
    OBVIOUS
  <2> HIDE DEF line, Part, Ids
  <2> QED
    BY <2>1, <2>2
<1>5. Stack(Ids, Part) = Cardinality(U)
  <2> HIDE DEF U, Ids, Part
  <2> QED
    BY <1>1, <1>2, <1>3, Blocks
<1> QED
  BY <1>4, <1>5 DEF Sum, Stack

LEMMA BadgeCounts == Inv /\ FewMessages => BadgeIsReachable
<1> SUFFICES ASSUME Inv, FewMessages, NEW u \in People
             PROVE  /\ Cardinality(ThreadsOf(u)) <= ListLimit => Sum(list_conversations(u)) = unread_count(u)
                    /\ Sum(list_conversations(u)) <= unread_count(u)
                    /\ \A m \in msgs : m.to = u /\ ~m.read => m.conv \in ThreadsOf(u)
  BY DEF BadgeIsReachable
<1> DEFINE all == {m \in msgs : m.to = u /\ ~m.read}
<1>1. \A m \in msgs : m.to = u /\ ~m.read => m.conv \in ThreadsOf(u)
  BY DEF Inv, Reachable, ThreadsOf
<1>2. Sum(list_conversations(u)) = Cardinality(Unread(u, Listed(u))) /\ unread_count(u) = Cardinality(all)
  BY ListCounts DEF unread_count
<1>3. Unread(u, Listed(u)) \subseteq all /\ IsFiniteSet(all)
  BY FS_Subset DEF Unread, FewMessages
<1>4. Cardinality(Unread(u, Listed(u))) <= Cardinality(all)
  <2> HIDE DEF all
  <2> QED
    BY <1>3, FS_Subset
<1>5. ASSUME Cardinality(ThreadsOf(u)) <= ListLimit PROVE Unread(u, Listed(u)) = all
  BY <1>1, <1>5, AllListed DEF Unread
<1> QED
  BY <1>1, <1>2, <1>4, <1>5

(* Whatever was cleared, read or deleted while messages were stored, the badge
   of a user is the sum of the counts of a list that has room for all of the
   user's conversations; a shorter one falls short of it, and what it leaves
   out is in other conversations of the user.                                *)
THEOREM BadgeAddsUp == Spec => []BadgeIsReachable
<1>1. Init => FewMessages
  BY FS_EmptySet DEF Init, FewMessages
<1> QED
  BY <1>1, MessagesStayFew, BadgeCounts, InvInit, InvStep, PTL DEF Spec

(* No message is left behind without a conversation its recipient can open:
   whatever was cleared or deleted while it was stored, the badge counts
   nothing that is out of reach.                                             *)
THEOREM NoMessageOutOfReach == Spec => []Reachable
<1>1. Inv => Reachable
  BY DEF Inv
<1> QED
  BY <1>1, InvInit, InvStep, PTL DEF Spec
=============================================================================
