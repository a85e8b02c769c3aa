------------------------------- MODULE Inbox -------------------------------
(* Messages between users and admins (messages_service, api/messages).      *)
(*                                                                         *)
(* Every service call takes a connection without opening a transaction, so *)
(* each SQL statement commits on its own: one action is one statement, and *)
(* a request in flight keeps what its earlier statements read.             *)
EXTENDS Integers, Sequences, FiniteSets

CONSTANTS
    Admins, Users,      \* uids; Users are not admins
    Receipts, Owner,    \* receipts a thread may be about, and whose they are
    Templates,          \* kinds of the templates in use
    Requests,           \* handlers in flight
    None,
    ListLimit,          \* conversations in an answered list; 100 in the code
    MaxSends            \* bound: messages, and conversations, ever stored

ASSUME PeopleAssumption == Admins \cap Users = {} /\ None \notin Admins \cup Users \cup Receipts
ASSUME OwnerAssumption == Owner \in [Receipts -> Users]
ASSUME TemplatesAssumption == Templates \subseteq {"receipt_question", "receipt_rejection"}
ASSUME BoundsAssumption == MaxSends \in Nat /\ ListLimit \in Nat \ {0}

VARIABLES
    convs,     \* conversation rows; ids grow with created_at
    opened,    \* number of conversations ever inserted
    order,     \* ids of the conversations, from the oldest last_message_at to the latest
    msgs,      \* message rows
    sent,      \* number of messages ever inserted
    req,       \* the request each handler is working on
    live,      \* receipts that exist
    acked      \* history: hand-written messages whose sender was answered 200
vars == <<convs, opened, order, msgs, sent, req, live, acked>>
rows == <<convs, opened, order, msgs, sent, live, acked>>

People == Admins \cup Users
Pairs  == {{a, b} : a \in People, b \in People} \ {{a} : a \in People}

(* Kinds: typed text, the question and rejection templates of the catalog, *)
(* and the bubble of the review workflow.                                  *)
TemplateKinds == {"receipt_question", "receipt_rejection"}
Kinds == {"message"} \cup TemplateKinds
NotificationKinds == {"receipt_rejection"}

Conversation == [id : 1..MaxSends, pair : Pairs, receipt : Receipts \cup {None}]
Message == [id : 1..MaxSends, conv : 1..MaxSends, from : People, to : People, kind : Kinds,
            typed : BOOLEAN, read : BOOLEAN]
Idle == [pc |-> "idle"]
TypeOK ==
    /\ convs \subseteq Conversation
    /\ msgs \subseteq Message
    /\ \A i \in DOMAIN order : order[i] \in 1..MaxSends
    /\ opened \in 0..MaxSends /\ sent \in 0..MaxSends
    /\ \A p \in Requests : req[p].pc \in
         {"idle", "context", "existing", "peer", "find", "create", "refind", "insert", "touch", "publish",
          "sweep", "unthread"}
    /\ live \subseteq Receipts
    /\ acked \subseteq [id : 1..MaxSends, kind : Kinds, receipt : Receipts \cup {None}]

Init ==
    /\ convs = {} /\ opened = 0 /\ order = <<>> /\ msgs = {} /\ sent = 0
    /\ req = [p \in Requests |-> Idle]
    /\ live = Receipts
    /\ acked = {}

Go(p, r)  == req' = [req EXCEPT ![p] = r]
To(p, pc) == Go(p, [req[p] EXCEPT !.pc = pc])
End(p)    == Go(p, Idle)
At(p, pc) == req[p].pc = pc

-----------------------------------------------------------------------------
(* Reads.                                                                  *)

(* find_receipt_conversation: the newest thread of the pair about a receipt. *)
ReceiptThreads(pair) == {c \in convs : c.pair = pair /\ c.receipt # None}
Newest(S) == CHOOSE c \in S : \A d \in S : d.id <= c.id
Oldest(S) == CHOOSE c \in S : \A d \in S : c.id <= d.id

conversation_exists(pair) == \E c \in convs : c.pair = pair

(* The admin of the oldest conversation the user has with an admin.        *)
AdminThreads(u) == {c \in convs : u \in c.pair /\ c.pair \cap Admins # {}}
locked_admin_for(u) ==
    IF AdminThreads(u) = {} THEN None
    ELSE CHOOSE a \in Admins : a \in Oldest(AdminThreads(u)).pair

(* Between two users the setting user_messaging_enabled decides, which may *)
(* change at any time (peersOn).                                           *)
peer_rule_allowed(r, peersOn) ==
    IF {r.from, r.to} \cap Admins = {} THEN peersOn
    ELSE r.from \notin Admins /\ r.to \in Admins /\ ~r.existing
           => locked_admin_for(r.from) \in {None, r.to}

receipt_thread_has_kinds(x, kinds) ==
    \E m \in msgs, c \in convs : c.id = m.conv /\ c.receipt = x /\ m.kind \in kinds

(* Mutant: any thread of the sender. *)
SenderThread(r) == {c \in convs : r.from \in c.pair /\ c.receipt = r.receipt}
SameThread(r) == {c \in convs : c.pair = {r.from, r.to} /\ c.receipt = r.receipt}

unread_count(u) == Cardinality({m \in msgs : m.to = u /\ ~m.read})

(* The conversations of a user, the ListLimit with the latest messages.     *)
ThreadsOf(u) == {c.id : c \in {d \in convs : u \in d.pair}}
Later(i, j) == i # j /\ \E m, n \in DOMAIN order : order[m] = i /\ order[n] = j /\ m > n
Listed(u) == {i \in ThreadsOf(u) : Cardinality({j \in ThreadsOf(u) : Later(j, i)}) < ListLimit}
list_conversations(u) ==
    {[conv |-> i, unread |-> Cardinality({m \in msgs : m.conv = i /\ m.to = u /\ ~m.read})] : i \in Listed(u)}

-----------------------------------------------------------------------------
(* Sending.  A request holds its sender, recipient, kind and receipt, and  *)
(* whether a person wrote it (typed text or template) or the workflow did. *)

NewSend(pc, from, to, kind, x, typed, context) ==
    [pc |-> pc, from |-> from, to |-> to, kind |-> kind, receipt |-> x, typed |-> typed,
     context |-> context, existing |-> FALSE, conv |-> 0]
CanSend(p, from, to) == At(p, "idle") /\ sent < MaxSends /\ from # to

SendText(p) == \E from \in People, to \in People, x \in Receipts \cup {None} :
    /\ CanSend(p, from, to)
    /\ Go(p, [NewSend("peer", from, to, "message", x, TRUE, None)
                EXCEPT !.existing = conversation_exists({from, to})])
    /\ UNCHANGED rows

(* A template: the receipt_id field of the request is ignored.  The newest *)
(* receipt thread is looked up only when the variables name no receipt,    *)
(* which they do when the composer is open on a receipt thread ("context"). *)
SendTemplate(p) == \E from \in People, to \in People, t \in Templates, x \in Receipts \cup {None} :
    /\ CanSend(p, from, to)
    /\ x # None => \E c \in ReceiptThreads({from, to}) : c.receipt = x
    /\ LET found == ReceiptThreads({from, to})
           thread == IF x = None /\ found # {} THEN Newest(found).receipt ELSE None
       IN Go(p, NewSend("existing", from, to, t, thread, TRUE, x))
    /\ UNCHANGED rows

(* The rejection notice of the workflow, skipped when the receipt already   *)
(* has one.                                                                *)
NotifyRejection(p) == \E a \in Admins, x \in live :
    /\ CanSend(p, a, Owner[x])
    /\ ~receipt_thread_has_kinds(x, {"receipt_rejection"})
    /\ Go(p, NewSend("existing", a, Owner[x], "receipt_rejection", x, FALSE, None))
    /\ UNCHANGED rows

CheckExisting(p) ==
    /\ At(p, "existing")
    /\ Go(p, [req[p] EXCEPT !.pc = "peer", !.existing = conversation_exists({req[p].from, req[p].to})])
    /\ UNCHANGED rows

(* peer_rule_allowed raises 403; otherwise the conversation is looked up.  *)
CheckPeers(p) ==
    /\ At(p, "peer")
    /\ \E peersOn \in BOOLEAN :
          IF peer_rule_allowed(req[p], peersOn)
          THEN Go(p, [req[p] EXCEPT !.pc = "find", !.existing = FALSE])
          ELSE End(p)
    /\ UNCHANGED rows

(* _ensure_conversation: find, else insert; after a failed insert find again. *)
FindThread(p) ==
    /\ req[p].pc \in {"find", "refind"}
    /\ \/ \E c \in SameThread(req[p]) : Go(p, [req[p] EXCEPT !.pc = "insert", !.conv = c.id])
       \/ SameThread(req[p]) = {} /\ IF At(p, "find") THEN To(p, "create") ELSE End(p)
    /\ UNCHANGED rows

(* The order without some conversations, and with one as the latest.        *)
Without(gone) == SelectSeq(order, LAMBDA i : i \notin gone)
Touch(i) == order' = Append(Without({i}), i)

(* UNIQUE (user_a, user_b, receipt_id): a NULL receipt_id equals nothing.  *)
(* Mutant: no unique constraint. *)
NeverConflicts(r) == r.receipt # r.receipt
Conflicts(r) == r.receipt # None /\ SameThread(r) # {}
CreateThread(p) ==
    /\ At(p, "create")
    /\ \/ Conflicts(req[p]) /\ To(p, "refind") /\ UNCHANGED <<convs, opened, order>>
       \/ /\ ~Conflicts(req[p]) /\ opened < MaxSends
          /\ opened' = opened + 1 /\ order' = Append(order, opened')
          /\ convs' = convs \cup {[id |-> opened', pair |-> {req[p].from, req[p].to},
                                   receipt |-> req[p].receipt]}
          /\ Go(p, [req[p] EXCEPT !.pc = "insert", !.conv = opened'])
    /\ UNCHANGED <<msgs, sent, live, acked>>

(* The foreign key refuses a message whose conversation is gone (500).     *)
InsertMessage(p) ==
    /\ At(p, "insert") /\ sent < MaxSends
    /\ IF \E c \in convs : c.id = req[p].conv
       THEN /\ sent' = sent + 1
            /\ msgs' = msgs \cup {[id |-> sent', conv |-> req[p].conv, from |-> req[p].from,
                                   to |-> req[p].to, kind |-> req[p].kind,
                                   typed |-> req[p].typed, read |-> FALSE]}
            /\ Go(p, [pc |-> "touch", id |-> sent', conv |-> req[p].conv])
       ELSE End(p) /\ UNCHANGED <<msgs, sent>>
    /\ UNCHANGED <<convs, opened, order, live, acked>>

(* last_message_at, in a statement of its own: two sends may touch their    *)
(* conversations in another order than they stored their messages.         *)
TouchThread(p) ==
    /\ At(p, "touch")
    /\ IF \E c \in convs : c.id = req[p].conv THEN Touch(req[p].conv) ELSE UNCHANGED order
    /\ Go(p, [pc |-> "publish", id |-> req[p].id])
    /\ UNCHANGED <<convs, opened, msgs, sent, live, acked>>

(* The row is read back (500 when it is gone already), the best-effort push *)
(* of an event is left out, and the sender is answered.                    *)
Publish(p) ==
    /\ At(p, "publish") /\ End(p)
    /\ \/ \E m \in msgs :
            /\ m.id = req[p].id
            /\ acked' = IF m.typed
                        THEN acked \cup {[id |-> m.id, kind |-> m.kind,
                               receipt |-> (CHOOSE c \in convs : c.id = m.conv).receipt]}
                        ELSE acked
       \/ (\A m \in msgs : m.id # req[p].id) /\ UNCHANGED acked
    /\ UNCHANGED <<convs, opened, order, msgs, sent, live>>

-----------------------------------------------------------------------------
(* Reading, clearing, deleting.                                            *)

Delete(gone) == /\ convs' = {c \in convs : c.id \notin gone}
                /\ msgs' = {m \in msgs : m.conv \notin gone}
                /\ order' = Without(gone)
Quiet == UNCHANGED <<opened, sent, live, acked>>

(* mark_conversation_read, and mark_read with the ids a page shows.        *)
mark_conversation_read(u, c) ==
    /\ \E m \in msgs : m.conv = c /\ m.to = u /\ ~m.read
    /\ msgs' = {IF m.conv = c /\ m.to = u THEN [m EXCEPT !.read = TRUE] ELSE m : m \in msgs}
    /\ UNCHANGED <<convs, order, req>> /\ Quiet
mark_read(u, i) ==
    /\ \E m \in msgs : m.id = i /\ m.to = u /\ ~m.read
    /\ msgs' = {IF m.id = i /\ m.to = u THEN [m EXCEPT !.read = TRUE] ELSE m : m \in msgs}
    /\ UNCHANGED <<convs, order, req>> /\ Quiet

(* clear_notifications: the bubbles of every conversation of the caller,   *)
(* then the conversations of the caller that are empty by now.             *)
ClearBubbles(p) == \E u \in People :
    /\ At(p, "idle") /\ ThreadsOf(u) # {}
    /\ msgs' = {m \in msgs : ~(m.conv \in ThreadsOf(u) /\ m.kind \in NotificationKinds)}
    /\ Go(p, [pc |-> "sweep", user |-> u])
    /\ UNCHANGED <<convs, order>> /\ Quiet
(* Mutant: every conversation without an unread message. *)
ReadThrough(u) == {c \in ThreadsOf(u) : \A m \in msgs : m.conv = c => m.read}
Unused(u) == {c \in ThreadsOf(u) : \A m \in msgs : m.conv # c}
ClearThreads(p) ==
    /\ At(p, "sweep") /\ Delete(Unused(req[p].user))
    /\ End(p) /\ Quiet

(* prune_receipt_auto_messages: a resubmission or recall drops rejections. *)
prune_receipt_auto_messages(x) ==
    LET stale == {m \in msgs : m.kind = "receipt_rejection" /\
                     \E c \in convs : c.id = m.conv /\ c.receipt = x}
    IN stale # {} /\ msgs' = msgs \ stale /\ UNCHANGED <<convs, order, req>> /\ Quiet

(* A receipt is deleted; its threads go in a later statement.              *)
DeleteReceipt(p) == \E x \in live :
    /\ At(p, "idle") /\ live' = live \ {x}
    /\ Go(p, [pc |-> "unthread", receipt |-> x])
    /\ UNCHANGED <<convs, opened, order, msgs, sent, acked>>
delete_conversations_for_receipt(p) ==
    /\ At(p, "unthread") /\ Delete({c.id : c \in {d \in convs : d.receipt = req[p].receipt}})
    /\ End(p) /\ Quiet

-----------------------------------------------------------------------------
Next ==
    \/ \E p \in Requests :
         \/ SendText(p) \/ SendTemplate(p) \/ NotifyRejection(p)
         \/ CheckExisting(p) \/ CheckPeers(p) \/ FindThread(p) \/ CreateThread(p)
         \/ InsertMessage(p) \/ TouchThread(p) \/ Publish(p)
         \/ ClearBubbles(p) \/ ClearThreads(p)
         \/ DeleteReceipt(p) \/ delete_conversations_for_receipt(p)
    \/ \E u \in People, i \in 1..MaxSends : mark_conversation_read(u, i) \/ mark_read(u, i)
    \/ \E x \in Receipts : prune_receipt_auto_messages(x)
Spec == Init /\ [][Next]_vars

-----------------------------------------------------------------------------
(* A hand-written message whose sender was answered 200 stays, whatever is  *)
(* cleared or pruned at the same time, until its receipt is deleted.  The   *)
(* rejection template has the kind of a notification and goes with them.   *)
HandWrittenKept == \A k \in acked :
    \/ \E m \in msgs : m.id = k.id
    \/ k.kind \in NotificationKinds
    \/ k.receipt \notin live \cup {None}

(* The badge is every unread message of a user (Layout asks for the count,  *)
(* MessageCenter adds up the list).  A user with no more conversations than *)
(* a list holds finds in it what the badge counts; a user with more finds   *)
(* less than that, and each message that is missing is in a conversation of *)
(* the user's own that comes after ListLimit others.                       *)
(* The sum of counts is the size of that many blocks, one beside the other. *)
Sum(S) == Cardinality(UNION {{c.conv} \X (1..c.unread) : c \in S})
BadgeIsReachable == \A u \in People :
    /\ Cardinality(ThreadsOf(u)) <= ListLimit => Sum(list_conversations(u)) = unread_count(u)
    /\ Sum(list_conversations(u)) <= unread_count(u)
    /\ \A m \in msgs : m.to = u /\ ~m.read => m.conv \in ThreadsOf(u)

(* What the client takes for granted (MessageCenter sets the badge to the   *)
(* sum of the list): not so beyond ListLimit conversations.                *)
BadgeIsListed == \A u \in People : Sum(list_conversations(u)) = unread_count(u)

(* Two requests that open the thread of a receipt at once share one.       *)
OneThreadPerReceipt == \A c, d \in convs :
    c.pair = d.pair /\ c.receipt = d.receipt /\ c.receipt # None => c = d

(* "Receipt-context templates should [...] land in the pair's receipt      *)
(* thread when one exists" (api/messages): a template composed on a        *)
(* receipt thread is stored in a thread of that receipt.                   *)
TemplateLands == \A p \in Requests :
    At(p, "insert") /\ req[p].context # None
      => \A c \in convs : c.id = req[p].conv => c.receipt = req[p].context

=============================================================================
