------------------------------- MODULE Archives -------------------------------
(***************************************************************************)
(* The backup archives of one account: api/backup_api.py over              *)
(* export_user_data of services/backup_service.py and the backups table.   *)
(* An export writes the archive, then its row, then prunes: the newest     *)
(* max_backups_per_user rows stay, and the oldest go until what is on disk  *)
(* fits max_backup_bytes_per_user.  Every removal unlinks the file and then *)
(* deletes the row; other requests run at each await.                       *)
(*                                                                         *)
(* Archives are numbered in the order of their created_at, which is the    *)
(* order of their rows.                                                     *)
(***************************************************************************)
EXTENDS Integers, Sequences, FiniteSets

CONSTANTS Requests,     \* requests
          Scenarios,    \* bound: how many requests are at work at a time in one
                        \* behaviour, and its exports and deletions
          Sizes,        \* the sizes an archive may have
          MaxCount,     \* max_backups_per_user; 0 is no limit
          MaxBytes,     \* max_backup_bytes_per_user; 0 is no limit
          MaxFaults     \* bound: requests that die half-way

(* What is assumed of the constants. *)
LimitsAssumption ==
  /\ Sizes \subseteq Nat \ {0} /\ MaxCount \in Nat /\ MaxBytes \in Nat /\ MaxFaults \in Nat
  /\ Scenarios \subseteq [atonce : Nat \ {0}, exports : Nat, deletes : Nat]

VARIABLES rows,      \* archives with a row, a set of numbers
          files,     \* archives on disk
          size,      \* the size of each archive made so far, a sequence
          temp,      \* files written whose row is not: one per request, 0 or the size
          req,       \* what each request does
          left,      \* exports and deletions still to come
          deleted,   \* archives the user has asked to delete
          faults

vars == <<rows, files, size, temp, req, left, deleted, faults>>

Idle == [pc |-> "idle", todo |-> <<>>, total |-> 0]
At(pc, todo, total) == [pc |-> pc, todo |-> todo, total |-> total]
To(p, r) == req' = [req EXCEPT ![p] = r]

Init == /\ rows = {} /\ files = {} /\ size = <<>>
        /\ temp = [p \in Requests |-> 0]
        /\ req = [p \in Requests |-> Idle]
        /\ left \in Scenarios /\ deleted = {} /\ faults = 0

-----------------------------------------------------------------------------
(* list_backups and list_oldest_backups: the rows by age. *)
Ascending(S)  == [i \in 1..Cardinality(S) |-> CHOOSE b \in S : Cardinality({x \in S : x < b}) = i - 1]
Descending(S) == [i \in 1..Cardinality(S) |-> CHOOSE b \in S : Cardinality({x \in S : x > b}) = i - 1]

(* Byte by byte. *)
Bytes(S) == Cardinality(UNION {{b} \X (1..size[b]) : b \in S})

MayStart(p) == req[p].pc = "idle" /\ Cardinality({o \in Requests : req[o].pc # "idle"}) < left.atonce

(* export_user_data: the archive is on disk when it returns. *)
Export(p, n) ==
  /\ MayStart(p) /\ left.exports > 0 /\ n \in Sizes
  /\ left' = [left EXCEPT !.exports = @ - 1]
  /\ temp' = [temp EXCEPT ![p] = n]
  /\ To(p, At("record", <<>>, 0))
  /\ UNCHANGED <<rows, files, size, deleted, faults>>

(* create_backup_record. *)
Record(p) ==
  LET b == Len(size) + 1 IN
  /\ req[p].pc = "record"
  /\ rows' = rows \cup {b} /\ files' = files \cup {b} /\ size' = Append(size, temp[p])
  /\ temp' = [temp EXCEPT ![p] = 0]
  /\ To(p, At("keep", <<>>, 0))
  /\ UNCHANGED <<left, deleted, faults>>

(* _remove_backup: the file of b goes at once, the row at the next step. *)
Unlink(b) == files' = files \ {b}
DropRow(b) == rows' = rows \ {b}

(* What the retention loop does with the list it has; when it is empty the   *)
(* byte quota is next.                                                       *)
Keep(p, todo) ==
  IF todo = <<>> THEN /\ To(p, IF MaxBytes > 0 THEN At("quota", <<>>, 0) ELSE Idle) /\ UNCHANGED files
                 ELSE /\ To(p, At("keeping", todo, 0)) /\ Unlink(Head(todo))

(* Mutant: one more than the limit is kept. *)
RetainOneMore(p) ==
  /\ req[p].pc = "keep"
  /\ Keep(p, IF MaxCount = 0 THEN <<>> ELSE SubSeq(Descending(rows), MaxCount + 2, Cardinality(rows)))
  /\ UNCHANGED <<rows, size, temp, left, deleted, faults>>

(* Retention: the list of the newest, read once; what is past the limit goes. *)
Retain(p) ==
  /\ req[p].pc = "keep"
  /\ Keep(p, IF MaxCount = 0 THEN <<>> ELSE SubSeq(Descending(rows), MaxCount + 1, Cardinality(rows)))
  /\ UNCHANGED <<rows, size, temp, left, deleted, faults>>

RetainRow(p) ==
  /\ req[p].pc = "keeping"
  /\ DropRow(Head(req[p].todo)) /\ Keep(p, Tail(req[p].todo))
  /\ UNCHANGED <<size, temp, left, deleted, faults>>

(* The quota loop: while the total it has is too much and archives of its    *)
(* list are left, the oldest goes, and the size it had on disk at that moment *)
(* is taken off: nothing, when somebody else has removed it.                 *)
Shrink(p, todo, total) ==
  IF total <= MaxBytes \/ todo = <<>> THEN To(p, Idle) /\ UNCHANGED files
  ELSE LET b == Head(todo) IN
       /\ To(p, At("shrinking", todo, total - (IF b \in files THEN size[b] ELSE 0)))
       /\ Unlink(b)

(* Byte quota: the list of the oldest, and the total of those on disk. *)
Fit(p) ==
  /\ req[p].pc = "quota" /\ Shrink(p, Ascending(rows), Bytes(rows \cap files))
  /\ UNCHANGED <<rows, size, temp, left, deleted, faults>>

FitRow(p) ==
  /\ req[p].pc = "shrinking"
  /\ DropRow(Head(req[p].todo)) /\ Shrink(p, Tail(req[p].todo), req[p].total)
  /\ UNCHANGED <<size, temp, left, deleted, faults>>

(* delete_backup: the row is looked for, then the archive removed. *)
AskDelete(p, b) ==
  /\ MayStart(p) /\ left.deletes > 0 /\ b \in rows
  /\ left' = [left EXCEPT !.deletes = @ - 1]
  /\ deleted' = deleted \cup {b}
  /\ Unlink(b) /\ To(p, At("delete", <<b>>, 0))
  /\ UNCHANGED <<rows, size, temp, faults>>

(* Mutant: the row stays when somebody else has removed the file. *)
DeleteRowOfFile(p) ==
  /\ req[p].pc = "delete"
  /\ IF Head(req[p].todo) \in files THEN DropRow(Head(req[p].todo)) ELSE UNCHANGED rows
  /\ To(p, Idle)
  /\ UNCHANGED <<files, size, temp, left, deleted, faults>>

DeleteRow(p) ==
  /\ req[p].pc = "delete" /\ DropRow(Head(req[p].todo)) /\ To(p, Idle)
  /\ UNCHANGED <<files, size, temp, left, deleted, faults>>

(* The request dies.  An archive without a row is left to the sweep for      *)
(* orphans (UserData), a row without a file to the user's next deletion.     *)
Die(p) ==
  /\ req[p].pc # "idle" /\ faults < MaxFaults /\ faults' = faults + 1
  /\ To(p, Idle) /\ temp' = [temp EXCEPT ![p] = 0]
  /\ UNCHANGED <<rows, files, size, left, deleted>>

Step(p) == Record(p) \/ Retain(p) \/ RetainRow(p) \/ Fit(p) \/ FitRow(p) \/ DeleteRow(p)

Next == \E p \in Requests :
          \/ \E n \in Sizes : Export(p, n)
          \/ \E b \in rows : AskDelete(p, b)
          \/ Step(p) \/ Die(p)

Spec == Init /\ [][Next]_vars

-----------------------------------------------------------------------------
Quiet == \A p \in Requests : req[p].pc = "idle"

(* Every row has its archive and the other way round, once the requests are  *)
(* over: what two requests remove at once is removed from both places.       *)
RowsHaveFiles == Quiet /\ faults = 0 => rows = files

(* "Auto-prune the user's oldest backups until both limits hold"             *)
(* (api/backup_api.py:84): they hold after the last export, however exports  *)
(* and deletions have interleaved.                                           *)
LimitsHold == Quiet /\ faults = 0 =>
  /\ MaxCount > 0 => Cardinality(rows) <= MaxCount
  /\ MaxBytes > 0 => Bytes(rows) <= MaxBytes

(* Only the oldest go: as long as it fits, the newest archive that the user  *)
(* has not deleted is there.                                                 *)
NewestThere == LET made == 1..Len(size) IN
  Quiet /\ faults = 0 /\ made # {} /\ deleted = {} /\ size[Len(size)] <= MaxBytes => Len(size) \in rows

===============================================================================
