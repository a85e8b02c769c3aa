-------------------------- MODULE ServicesProofs --------------------------
(***************************************************************************)
(* What is proved of the smaller services, a part for each: the keys of the *)
(* AI providers, review batches, legacy tasks, reference data, what exports *)
(* and imports carry, the archives of an account, data cleaning, the pages  *)
(* of a list, the answers of the providers, the figures.  The instances are *)
(* those of Services; the parts share a few lemmas on finite sets, ranks    *)
(* and counting.                                                            *)
(***************************************************************************)
EXTENDS Services, ProviderKeys, Sequences, FiniteSetTheorems, SequenceTheorems, TLAPS

(* What settings are: a key or none for each provider. *)
IsRow(r) == r.provider \in Providers /\ r.key \in [Providers -> Pays]

CallFields  == {"pc", "provider", "model", "key", "billed", "lock", "think"}
ThinkFields == {"pc", "user", "provider", "model", "key"}
Locked      == {"acquire", "check", "configure", "mark", "generate"}

(* What a request is at each of its steps: from the moment it has a lock, that   *)
(* is the one lock of its key.                                                 *)
LockedCall(x, locks) == x.key \in Keys /\ x.lock = locks[x.key] /\ x.lock # 0
Sound(x, locks) ==
  /\ x.pc = "put" => x.user \in Users /\ IsRow(x.row)
  /\ x.pc = "share" => Shares(x.shared)
  /\ x.pc = "resolve" => x.provider \in Providers /\ x.key \in Pays
  /\ x.pc \in {"think", "think2"} => DOMAIN x = ThinkFields /\ x.provider \in Providers /\ x.key \in Keys
  /\ x.pc \in {"lock", "calling"} \cup Locked => DOMAIN x = CallFields
  /\ x.pc = "lock" => x.key \in Keys /\ x.provider = "gemini"
  /\ x.pc \in Locked => x.provider = "gemini" /\ LockedCall(x, locks)
  /\ x.pc = "calling" => IF x.provider = "gemini" THEN LockedCall(x, locks) ELSE x.lock = 0

TablesInv == /\ DOMAIN row = Users /\ \A u \in Users : row[u] = NoRow \/ IsRow(row[u])
             /\ Shares(shared) /\ lockOf \in [Keys -> Nat]
SoundInv  == DOMAIN req = Requests /\ \A p \in Requests : Sound(req[p], lockOf)
AloneInv  == \A p, q \in InFlight : req[p].lock = req[q].lock => p = q
KeyInv    == TablesInv /\ SoundInv /\ AloneInv

LEMMA IdleSound == ASSUME NEW locks PROVE Sound(Idle, locks)
  BY DEF Idle, Sound, Locked

LEMMA KeyInit == ASSUME KeysAssumption, Init PROVE KeyInv
<1>1. TablesInv
  BY DEF Init, TablesInv, KeysAssumption
<1>2. SoundInv
  BY IdleSound DEF Init, SoundInv
<1>3. AloneInv
  BY DEF Init, AloneInv, InFlight, InSdk, Idle
<1> QED
  BY <1>1, <1>2, <1>3 DEF KeyInv

(* A step of a request that makes it no call through the SDK. *)
LEMMA OutsideKeeps ==
  ASSUME KeyInv, TablesInv', NEW p \in Requests, NEW x, To(p, x), lockOf' = lockOf,
         Sound(x, lockOf), x.pc \notin InSdk \/ x.provider # "gemini"
  PROVE  KeyInv'
<1>1. req' = [req EXCEPT ![p] = x] /\ req'[p] = x /\ \A q \in Requests \ {p} : req'[q] = req[q]
  BY DEF To, KeyInv, SoundInv
<1>2. SoundInv'
  BY <1>1 DEF KeyInv, SoundInv
<1>3. AloneInv'
  BY <1>1 DEF KeyInv, AloneInv, InFlight
<1> QED
  BY <1>2, <1>3 DEF KeyInv

(* A step of a call that has the lock already. *)
LEMMA InsideKeeps ==
  ASSUME KeyInv, NEW p \in Requests, NEW x, To(p, x), UNCHANGED <<row, shared, lockOf>>,
         p \in InFlight, Sound(x, lockOf), x.lock = req[p].lock
  PROVE  KeyInv'
<1>1. req' = [req EXCEPT ![p] = x] /\ req'[p] = x /\ \A q \in Requests \ {p} : req'[q] = req[q]
  BY DEF To, KeyInv, SoundInv
<1>2. SoundInv'
  BY <1>1 DEF KeyInv, SoundInv
<1>3. AloneInv'
  BY <1>1 DEF KeyInv, AloneInv, InFlight
<1>4. TablesInv'
  BY DEF KeyInv, TablesInv
<1> QED
  BY <1>2, <1>3, <1>4 DEF KeyInv

-----------------------------------------------------------------------------
LEMMA PutReadKeeps ==
  ASSUME KeysAssumption, KeyInv, NEW p \in Requests, NEW u \in Users, NEW b \in UserBodies, PutRead(p, u, b)
  PROVE  KeyInv'
<1> DEFINE x == [pc |-> "put", user |-> u, row |-> Updated(row[u], b)]
<1>1. To(p, x) /\ UNCHANGED <<row, shared, lockOf>>
  BY DEF PutRead
<1>2. IsRow(FreshRow)
  BY DEF IsRow, FreshRow, KeysAssumption, Pays
<1>3. ASSUME NEW s, IsRow(s) PROVE
        LET o == IF b.provider = "same" THEN s.provider ELSE b.provider
        IN o \in Providers /\ (IF b.key = "same" THEN s.key ELSE [s.key EXCEPT ![o] = b.key]) \in [Providers -> Pays]
  BY <1>3 DEF IsRow, KeysAssumption
<1>4. IsRow(IF row[u] = NoRow THEN FreshRow ELSE row[u])
  BY <1>2 DEF KeyInv, TablesInv
<1>5. IsRow(Updated(row[u], b))
  BY <1>3, <1>4 DEF IsRow, Updated
<1>6. Sound(x, lockOf) /\ x.pc \notin InSdk
  BY <1>5 DEF Sound, Locked, InSdk
<1>7. TablesInv'
  BY <1>1 DEF KeyInv, TablesInv
<1> QED
  BY <1>1, <1>6, <1>7, OutsideKeeps

LEMMA PutWriteKeeps ==
  ASSUME KeyInv, NEW p \in Requests, PutWrite(p) PROVE KeyInv'
<1>1. req[p].user \in Users /\ IsRow(req[p].row)
  BY DEF KeyInv, SoundInv, Sound, PutWrite, Is
<1>2. TablesInv'
  BY <1>1 DEF KeyInv, TablesInv, PutWrite
<1>3. Idle.pc \notin InSdk
  BY DEF Idle, InSdk
<1> QED
  BY <1>2, <1>3, IdleSound, OutsideKeeps DEF PutWrite

LEMMA SharedReadKeeps ==
  ASSUME KeysAssumption, KeyInv, NEW p \in Requests, NEW b \in AdminBodies, SharedRead(p, b)
  PROVE  KeyInv'
<1> DEFINE entry == [key |-> IF b.key = "same" THEN shared[b.provider].key ELSE b.key, enabled |-> b.enabled,
                     model |-> IF b.model = "none" THEN DefaultModel[b.provider] ELSE b.model, think |-> b.think]
           x == [pc |-> "share", shared |-> [shared EXCEPT ![b.provider] = entry]]
<1>1. To(p, x) /\ UNCHANGED <<row, shared, lockOf>>
  BY DEF SharedRead
<1>2. entry.key \in Pays
  BY DEF KeysAssumption, KeyInv, TablesInv, Shares
<1> HIDE DEF entry
<1>3. Shares([shared EXCEPT ![b.provider] = entry])
  BY <1>2 DEF KeyInv, TablesInv, Shares
<1>4. Sound(x, lockOf) /\ x.pc \notin InSdk
  BY <1>3 DEF Sound, Locked, InSdk
<1>5. TablesInv'
  BY <1>1 DEF KeyInv, TablesInv
<1> QED
  BY <1>1, <1>4, <1>5, OutsideKeeps

LEMMA SharedWriteKeeps ==
  ASSUME KeyInv, NEW p \in Requests, SharedWrite(p) PROVE KeyInv'
<1>1. Shares(req[p].shared)
  BY DEF KeyInv, SoundInv, Sound, SharedWrite, Is
<1>2. TablesInv'
  BY <1>1 DEF KeyInv, TablesInv, SharedWrite, Shares
<1>3. Idle.pc \notin InSdk
  BY DEF Idle, InSdk
<1> QED
  BY <1>2, <1>3, IdleSound, OutsideKeeps DEF SharedWrite

LEMMA ExtractKeeps ==
  ASSUME KeysAssumption, KeyInv, NEW p \in Requests, NEW u \in Users, NEW failed \in BOOLEAN, Extract(p, u, failed)
  PROVE  KeyInv'
<1> DEFINE r == IF failed THEN NoRow ELSE row[u]
           provider == IF r = NoRow THEN "gemini" ELSE r.provider
           x == [pc |-> "resolve", user |-> u, provider |-> provider, model |-> OwnModel(r),
                 key |-> IF r = NoRow THEN NoKey ELSE r.key[provider]]
<1>1. To(p, x) /\ UNCHANGED <<row, shared, lockOf>>
  BY DEF Extract
<1>2. r = NoRow \/ IsRow(r)
  BY DEF KeyInv, TablesInv
<1> HIDE DEF r
<1>3. x.provider \in Providers /\ x.key \in Pays /\ x.pc = "resolve"
  BY <1>2 DEF IsRow, KeysAssumption, Pays
<1> HIDE DEF x
<1>4. Sound(x, lockOf) /\ x.pc \notin InSdk
  BY <1>3 DEF Sound, Locked, InSdk
<1>5. TablesInv'
  BY <1>1 DEF KeyInv, TablesInv
<1> QED
  BY <1>1, <1>4, <1>5, OutsideKeeps

LEMMA ResolveKeeps ==
  ASSUME KeysAssumption, KeyInv, NEW p \in Requests, Resolve(p) PROVE KeyInv'
<1> DEFINE c == req[p]
           s == shared[c.provider]
           borrowed == c.key = NoKey
           healed == IF s.model \in Models[c.provider] THEN s.model ELSE c.model
           x == [pc |-> "think", user |-> c.user, provider |-> c.provider,
                 key   |-> IF borrowed THEN s.key ELSE c.key,
                 model |-> IF borrowed /\ c.model = DefaultModel[c.provider] THEN healed ELSE c.model]
<1>1. UNCHANGED <<row, shared, lockOf>>
  BY DEF Resolve
<1>2. TablesInv'
  BY <1>1 DEF KeyInv, TablesInv
<1>3. CASE To(p, Idle)
  <2>1. Idle.pc \notin InSdk
    BY DEF Idle, InSdk
  <2> QED
    BY <1>1, <1>2, <1>3, <2>1, IdleSound, OutsideKeeps
<1>4. CASE To(p, x) /\ (borrowed => s.key # NoKey)
  <2>1. c.provider \in Providers /\ c.key \in Pays
    BY DEF KeyInv, SoundInv, Sound, Resolve, Is
  <2>2. s.key \in Pays
    BY <2>1 DEF KeyInv, TablesInv, Shares
  <2>3. /\ x.pc = "think" /\ x.provider \in Providers /\ x.key \in Keys
        /\ DOMAIN x = ThinkFields
    BY <1>4, <2>1, <2>2 DEF Pays, ThinkFields
  <2> HIDE DEF x
  <2>4. Sound(x, lockOf) /\ x.pc \notin InSdk
    BY <2>3 DEF Sound, Locked, InSdk
  <2> QED
    BY <1>1, <1>2, <1>4, <2>4, OutsideKeeps
<1> QED
  BY <1>3, <1>4 DEF Resolve

-----------------------------------------------------------------------------
(* A call whose key, model and thinking mode are settled. *)
LEMMA ReadyKeeps ==
  ASSUME KeyInv, NEW p \in Requests, NEW c, NEW think, c.provider \in Providers, c.key \in Keys,
         Ready(p, c, think), UNCHANGED <<row, shared, lockOf>>
  PROVE  KeyInv'
<1> DEFINE x == [pc |-> IF c.provider = "gemini" THEN "lock" ELSE "calling", provider |-> c.provider,
                 model |-> c.model, key |-> c.key, billed |-> c.key, lock |-> 0, think |-> think]
<1>1. To(p, x)
  BY DEF Ready
<1>2. /\ DOMAIN x = CallFields /\ x.key = c.key /\ x.lock = 0 /\ x.provider = c.provider
      /\ x.pc = IF x.provider = "gemini" THEN "lock" ELSE "calling"
  BY DEF CallFields
<1> HIDE DEF x
<1>3. Sound(x, lockOf)
  BY <1>2 DEF Sound, Locked
<1>4. x.pc \notin InSdk \/ x.provider # "gemini"
  BY <1>2 DEF InSdk
<1>5. TablesInv'
  BY DEF KeyInv, TablesInv
<1> QED
  BY <1>1, <1>3, <1>4, <1>5, OutsideKeeps

LEMMA ThinkKeeps ==
  ASSUME KeyInv, NEW p \in Requests, Think(p) PROVE KeyInv'
<1> DEFINE x == [req[p] EXCEPT !.pc = "think2"]
<1>1. UNCHANGED <<row, shared, lockOf>>
  BY DEF Think
<1>2. DOMAIN req[p] = ThinkFields /\ req[p].provider \in Providers /\ req[p].key \in Keys
  BY DEF KeyInv, SoundInv, Sound, Think, Is
<1>3. CASE \E think : Ready(p, req[p], think)
  BY <1>1, <1>2, <1>3, ReadyKeeps
<1>4. CASE To(p, x)
  <2>1. DOMAIN x = ThinkFields /\ x.pc = "think2" /\ x.provider \in Providers /\ x.key \in Keys
    BY <1>2 DEF ThinkFields
  <2> HIDE DEF x
  <2>2. Sound(x, lockOf) /\ x.pc \notin InSdk
    BY <2>1 DEF Sound, Locked, InSdk
  <2>3. TablesInv'
    BY <1>1 DEF KeyInv, TablesInv
  <2> QED
    BY <1>1, <1>4, <2>2, <2>3, OutsideKeeps
<1> QED
  BY <1>3, <1>4 DEF Think

LEMMA ThinkSharedKeeps ==
  ASSUME KeyInv, NEW p \in Requests, ThinkShared(p) PROVE KeyInv'
<1>1. req[p].provider \in Providers /\ req[p].key \in Keys
  BY DEF KeyInv, SoundInv, Sound, ThinkShared, Is
<1> QED
  BY <1>1, ReadyKeeps DEF ThinkShared

LEMMA TestKeyKeeps ==
  ASSUME KeyInv, NEW p \in Requests, NEW k \in Keys, NEW provider \in Providers, TestKey(p, k, provider)
  PROVE  KeyInv'
<1> DEFINE c == [provider |-> provider, model |-> DefaultModel[provider], key |-> k]
<1>1. c.provider \in Providers /\ c.key \in Keys
  OBVIOUS
<1>2. Ready(p, c, FALSE) /\ UNCHANGED <<row, shared, lockOf>>
  BY DEF TestKey
<1> HIDE DEF c
<1> QED
  BY <1>1, <1>2, ReadyKeeps

-----------------------------------------------------------------------------
(* A lock is a number above 0, and the lock of a key stays what it is. *)
LEMMA LockIsMade ==
  ASSUME KeysAssumption, TablesInv, NEW k \in Keys
  PROVE  /\ LockForKey(k) \in Nat /\ LockForKey(k) # 0
         /\ lockOf[k] # 0 => LockForKey(k) = lockOf[k]
<1> DEFINE T == {lockOf[i] : i \in Keys}
<1>1. IsFiniteSet(T)
  <2>1. lockOf \in Surjection(Keys, T)
    BY DEF TablesInv, Surjection
  <2> HIDE DEF T
  <2> QED
    BY <2>1, FS_Surjection DEF KeysAssumption
<1>2. IsFiniteSet(Locks)
  BY <1>1, FS_Subset DEF Locks
<1>3. Cardinality(Locks) \in Nat
  BY <1>2, FS_CardinalityType
<1> QED
  BY <1>3 DEF LockForKey, TablesInv

LEMMA LockKeeps ==
  ASSUME KeysAssumption, KeyInv, NEW p \in Requests, Lock(p) PROVE KeyInv'
<1> DEFINE k == req[p].key
           l == LockForKey(k)
           x == [req[p] EXCEPT !.pc = "acquire", !.lock = l]
<1>1. /\ req' = [req EXCEPT ![p] = x] /\ req'[p] = x /\ \A q \in Requests \ {p} : req'[q] = req[q]
      /\ lockOf' = [lockOf EXCEPT ![k] = l] /\ row' = row /\ shared' = shared
  BY DEF Lock, To, KeyInv, SoundInv
<1>2. k \in Keys /\ DOMAIN req[p] = CallFields /\ req[p].provider = "gemini"
  BY DEF KeyInv, SoundInv, Sound, Lock, Is
<1>3. l \in Nat /\ l # 0 /\ (lockOf[k] # 0 => l = lockOf[k])
  BY <1>2, LockIsMade DEF KeyInv
<1>4. x.pc = "acquire" /\ x.lock = l /\ x.key = k /\ x.provider = "gemini" /\ DOMAIN x = CallFields
  BY <1>2 DEF CallFields
<1>5. TablesInv'
  BY <1>1, <1>3 DEF KeyInv, TablesInv
<1> HIDE DEF x, l
<1>6. Sound(x, lockOf')
  BY <1>1, <1>2, <1>3, <1>4 DEF Sound, Locked, LockedCall, KeyInv, TablesInv
<1>7. ASSUME NEW q \in Requests \ {p} PROVE Sound(req[q], lockOf')
  <2>1. Sound(req[q], lockOf)
    BY DEF KeyInv, SoundInv
  <2>2. ASSUME LockedCall(req[q], lockOf) PROVE LockedCall(req[q], lockOf')
    BY <1>1, <1>3, <2>2 DEF LockedCall, KeyInv, TablesInv
  <2> QED
    BY <2>1, <2>2 DEF Sound
<1>8. SoundInv'
  BY <1>1, <1>6, <1>7 DEF KeyInv, SoundInv
<1>9. AloneInv'
  BY <1>1, <1>4 DEF KeyInv, AloneInv, InFlight, InSdk
<1> QED
  BY <1>5, <1>8, <1>9 DEF KeyInv

(* The lock is taken only when no other call holds it. *)
LEMMA AcquireKeeps ==
  ASSUME KeyInv, NEW p \in Requests, Acquire(p) PROVE KeyInv'
<1> DEFINE x == [req[p] EXCEPT !.pc = "check"]
<1>1. /\ req' = [req EXCEPT ![p] = x] /\ req'[p] = x /\ \A q \in Requests \ {p} : req'[q] = req[q]
      /\ lockOf' = lockOf /\ row' = row /\ shared' = shared /\ ~Held(req[p].lock)
  BY DEF Acquire, To, KeyInv, SoundInv
<1>2. DOMAIN req[p] = CallFields /\ req[p].provider = "gemini" /\ LockedCall(req[p], lockOf)
  BY DEF KeyInv, SoundInv, Sound, Locked, Acquire, Is
<1>3. /\ x.pc = "check" /\ x.lock = req[p].lock /\ x.key = req[p].key /\ x.provider = "gemini"
      /\ DOMAIN x = CallFields
  BY <1>2 DEF CallFields
<1>4. TablesInv'
  BY <1>1 DEF KeyInv, TablesInv
<1> HIDE DEF x
<1>5. SoundInv'
  <2>1. Sound(x, lockOf)
    BY <1>2, <1>3 DEF Sound, Locked, LockedCall
  <2> QED
    BY <1>1, <2>1 DEF KeyInv, SoundInv
<1>6. AloneInv'
  BY <1>1, <1>3 DEF KeyInv, AloneInv, InFlight, Held
<1> QED
  BY <1>4, <1>5, <1>6 DEF KeyInv

(* The steps of the call that holds its lock. *)
LEMMA CallKeeps ==
  ASSUME KeyInv, NEW p \in Requests, Check(p) \/ Configure(p) \/ Mark(p) \/ Generate(p)
  PROVE  KeyInv'
<1> DEFINE x == req'[p]
<1>1. /\ DOMAIN req[p] = CallFields /\ req[p].provider = "gemini" /\ LockedCall(req[p], lockOf)
      /\ p \in InFlight
  BY DEF KeyInv, SoundInv, Sound, Locked, Check, Configure, Mark, Generate, Is, InFlight, InSdk
<1>2. UNCHANGED <<row, shared, lockOf>> /\ DOMAIN req = Requests
  BY DEF Check, Configure, Mark, Generate, KeyInv, SoundInv
<1>3. /\ To(p, x) /\ x.pc \in {"configure", "generate", "mark", "calling"} /\ DOMAIN x = CallFields
      /\ x.lock = req[p].lock /\ x.key = req[p].key /\ x.provider = "gemini"
  <2>1. CASE Check(p)
    BY <1>1, <1>2, <2>1 DEF Check, To, CallFields
  <2>2. CASE Configure(p)
    BY <1>1, <1>2, <2>2 DEF Configure, To, CallFields
  <2>3. CASE Mark(p)
    BY <1>1, <1>2, <2>3 DEF Mark, To, CallFields
  <2>4. CASE Generate(p)
    BY <1>1, <1>2, <2>4 DEF Generate, To, CallFields
  <2> QED
    BY <2>1, <2>2, <2>3, <2>4
<1> HIDE DEF x
<1>4. Sound(x, lockOf)
  BY <1>1, <1>3 DEF Sound, Locked, LockedCall
<1> QED
  BY <1>1, <1>2, <1>3, <1>4, InsideKeeps

LEMMA AnswerKeeps ==
  ASSUME KeyInv, NEW p \in Requests, Answer(p) PROVE KeyInv'
<1>1. TablesInv'
  BY DEF KeyInv, TablesInv, Answer
<1>2. Idle.pc \notin InSdk
  BY DEF Idle, InSdk
<1> QED
  BY <1>1, <1>2, IdleSound, OutsideKeeps DEF Answer

-----------------------------------------------------------------------------
LEMMA KeyNext == ASSUME KeysAssumption, KeyInv, [Next]_vars PROVE KeyInv'
<1>1. CASE UNCHANGED vars
  BY <1>1 DEF vars, KeyInv, TablesInv, SoundInv, AloneInv, InFlight
<1>2. CASE Next
  <2>1. PICK p \in Requests :
          \/ \E u \in Users : \/ \E b \in UserBodies : PutRead(p, u, b)
                              \/ \E failed \in BOOLEAN : Extract(p, u, failed)
          \/ \E b \in AdminBodies : SharedRead(p, b)
          \/ \E k \in Keys, provider \in Providers : TestKey(p, k, provider)
          \/ PutWrite(p) \/ SharedWrite(p) \/ Resolve(p) \/ Think(p) \/ ThinkShared(p)
          \/ Lock(p) \/ Acquire(p) \/ Check(p) \/ Configure(p) \/ Mark(p) \/ Generate(p) \/ Answer(p)
    BY <1>2 DEF Next
  <2>2. CASE \E u \in Users : \E b \in UserBodies : PutRead(p, u, b)
    BY <2>2, PutReadKeeps
  <2>3. CASE \E u \in Users : \E failed \in BOOLEAN : Extract(p, u, failed)
    BY <2>3, ExtractKeeps
  <2>4. CASE \E b \in AdminBodies : SharedRead(p, b)
    BY <2>4, SharedReadKeeps
  <2>5. CASE \E k \in Keys, provider \in Providers : TestKey(p, k, provider)
    BY <2>5, TestKeyKeeps
  <2>6. CASE PutWrite(p) \/ SharedWrite(p) \/ Resolve(p) \/ Think(p) \/ ThinkShared(p)
    BY <2>6, PutWriteKeeps, SharedWriteKeeps, ResolveKeeps, ThinkKeeps, ThinkSharedKeeps
  <2>7. CASE Lock(p) \/ Acquire(p) \/ Check(p) \/ Configure(p) \/ Mark(p) \/ Generate(p) \/ Answer(p)
    BY <2>7, LockKeeps, AcquireKeeps, CallKeeps, AnswerKeeps
  <2> QED
    BY <2>1, <2>2, <2>3, <2>4, <2>5, <2>6, <2>7
<1> QED
  BY <1>1, <1>2

(* Two calls with one key have one lock. *)
LEMMA KeyAlone == ASSUME KeyInv PROVE OneCallPerKey
<1>1. ASSUME NEW p \in InFlight PROVE LockedCall(req[p], lockOf)
  BY <1>1 DEF KeyInv, SoundInv, Sound, InFlight, InSdk, Locked
<1> QED
  BY <1>1 DEF KeyInv, AloneInv, OneCallPerKey, LockedCall

(* Calls with one key go through the SDK one after the other, however many    *)
(* requests and keys there are: _lock_for_key gives a key one lock, and a call *)
(* holds it from the configuration to the answer (services/gemini.py:264).    *)
THEOREM KeysQueue == ASSUME KeysAssumption PROVE Spec => []OneCallPerKey
<1>1. Init => KeyInv
  BY KeyInit
<1>2. KeyInv /\ [Next]_vars => KeyInv'
  BY KeyNext
<1>3. KeyInv => OneCallPerKey
  BY KeyAlone
<1> QED
  BY <1>1, <1>2, <1>3, PTL DEF Spec

-----------------------------------------------------------------------------
(* Review batches. *)

(* What a reviewer does: a change that has no lock found no item, and there will *)
(* be none; an answer is about its own change.                                  *)
SoundReview(x) ==
  /\ x.pc = "create" => batch = "none"
  /\ x.pc = "cascade" => batch # "none"
  /\ x.pc \in {"touch", "read"} =>
       /\ DOMAIN x = {"pc", "item", "asked", "locked"} /\ x.item \in Review!Ids /\ batch # "none"
       /\ x.locked \in BOOLEAN /\ (~x.locked => items[x.item] = Review!NoItem)
  /\ x.pc = "answered" => x.got = Review!NoItem \/ (x.asked # Review!NoItem /\ x.got.status = x.asked.status /\ x.got.notes = x.asked.notes)

OneCreates == \A p, q \in Requests : reviewer[p].pc = "create" /\ reviewer[q].pc = "create" => p = q

ReviewInv ==
  /\ DOMAIN items = Review!Ids /\ DOMAIN reviewer = Requests
  /\ OneCreates /\ \A p \in Requests : SoundReview(reviewer[p])

(* No step but the making of the batch gives an item to a receipt that has none. *)
NoNewItems == (batch # "none" => batch' # "none") /\ \A r \in Review!Ids : items[r] = Review!NoItem => items'[r] = Review!NoItem

LEMMA ReviewStays ==
  ASSUME ReviewInv, NEW p \in Requests, NEW x, reviewer' = [reviewer EXCEPT ![p] = x],
         DOMAIN items' = Review!Ids, NoNewItems, batch' = "none" \/ \A q \in Requests \ {p} : reviewer[q].pc # "create",
         SoundReview(x)', x.pc = "create" => \A q \in Requests : reviewer[q].pc # "create"
  PROVE  ReviewInv'
<1>1. reviewer'[p] = x /\ DOMAIN reviewer' = Requests
  BY DEF ReviewInv
<1>2. ASSUME NEW q \in Requests \ {p}
      PROVE  SoundReview(reviewer[q]) /\ reviewer'[q] = reviewer[q] /\ (batch' # "none" => reviewer[q].pc # "create")
  BY DEF ReviewInv
<1>3. ASSUME NEW q \in Requests
      PROVE  SoundReview(reviewer[q])'
  <2>1. CASE q = p
    BY <1>1, <2>1 DEF SoundReview
  <2>2. CASE q # p
    BY <1>2, <2>2 DEF SoundReview, NoNewItems
  <2> QED BY <2>1, <2>2
<1>4. OneCreates'
  BY <1>1, <1>2 DEF OneCreates, ReviewInv
<1> QED BY <1>1, <1>3, <1>4 DEF ReviewInv

LEMMA ReviewInit == Review!Init => ReviewInv
BY DEF Review!Init, Review!Idle, ReviewInv, OneCreates, SoundReview

(* The steps that make nothing of an item that is none. *)
LEMMA ReviewEnds ==
  ASSUME ReviewInv, NEW p \in Requests, NEW x, reviewer' = [reviewer EXCEPT ![p] = x],
         DOMAIN items' = Review!Ids, NoNewItems, batch' = batch, SoundReview(x)', x.pc # "create"
  PROVE  ReviewInv'
<1>1. batch' = "none" \/ \A q \in Requests \ {p} : reviewer[q].pc # "create"
  BY DEF ReviewInv, SoundReview
<1> QED
  BY <1>1, ReviewStays, Zenon

LEMMA ReviewMaking ==
  ASSUME ReviewInv, NEW p \in Requests
  PROVE  /\ \A ids : Review!Choose(p, ids) => ReviewInv'
         /\ Review!Create(p) => ReviewInv'
<1>1. ASSUME NEW ids, Review!Choose(p, ids) PROVE ReviewInv'
  BY <1>1, ReviewStays DEF Review!Choose, Review!Is, Review!To, ReviewInv, NoNewItems, SoundReview
<1>2. ASSUME Review!Create(p) PROVE ReviewInv'
  <2> USE <1>2 DEF Review!Create, Review!Is, Review!To, Review!Idle
  <2>1. batch = "none" /\ batch' = "there" /\ DOMAIN items' = Review!Ids /\ DOMAIN reviewer' = Requests
    BY DEF ReviewInv, SoundReview
  <2>2. ASSUME NEW q \in Requests PROVE SoundReview(reviewer[q])' /\ reviewer'[q].pc # "create"
    BY <2>1 DEF ReviewInv, SoundReview, OneCreates
  <2> QED BY <2>1, <2>2 DEF ReviewInv, OneCreates
<1> QED BY <1>1, <1>2

LEMMA ReviewChanges ==
  ASSUME ReviewInv, NEW p \in Requests
  PROVE  /\ \A r \in Review!Ids : \A change : Review!Change(p, r, change) => ReviewInv'
         /\ Review!TouchBatch(p) => ReviewInv'
         /\ Review!ReadBack(p) => ReviewInv'
         /\ Review!Answered(p) => ReviewInv'
<1> USE DEF Review!Is, Review!To, Review!Idle
<1>1. ASSUME NEW r \in Review!Ids, NEW change, Review!Change(p, r, change) PROVE ReviewInv'
  <2>0. PICK x : x = [pc |-> "touch", item |-> r, asked |-> change, locked |-> items[r] # Review!NoItem]
    OBVIOUS
  <2>1. reviewer' = [reviewer EXCEPT ![p] = x] /\ DOMAIN items' = Review!Ids /\ batch' = batch
    BY <2>0, <1>1 DEF Review!Change, Review!ChangeItem, ReviewInv
  <2>2. NoNewItems
    BY <2>0, <1>1 DEF Review!Change, Review!ChangeItem, ReviewInv, SoundReview, NoNewItems
  <2>3. SoundReview(x)' /\ x.pc # "create"
    BY <2>0, <1>1 DEF Review!Change, Review!ChangeItem, ReviewInv, SoundReview
  <2> QED BY <2>1, <2>2, <2>3, ReviewEnds
<1>2. ASSUME Review!TouchBatch(p) PROVE ReviewInv'
  <2>0. PICK x : x = [reviewer[p] EXCEPT !.pc = "read"]
    OBVIOUS
  <2>1. reviewer' = [reviewer EXCEPT ![p] = x] /\ DOMAIN items' = Review!Ids /\ batch' = batch
    BY <2>0, <1>2 DEF Review!TouchBatch, ReviewInv
  <2>2. NoNewItems
    BY <2>0, <1>2 DEF Review!TouchBatch, ReviewInv, SoundReview, NoNewItems
  <2>3. SoundReview(x)' /\ x.pc # "create"
    BY <2>0, <1>2 DEF Review!TouchBatch, ReviewInv, SoundReview
  <2> QED BY <2>1, <2>2, <2>3, ReviewEnds
<1>3. ASSUME Review!ReadBack(p) PROVE ReviewInv'
  <2>0. PICK x : x = [pc |-> "answered", asked |-> reviewer[p].asked,
                  got |-> IF reviewer[p].locked THEN Review!After(reviewer[p].item, reviewer[p].asked) ELSE items[reviewer[p].item]]
    OBVIOUS
  <2>1. reviewer' = [reviewer EXCEPT ![p] = x] /\ DOMAIN items' = Review!Ids /\ batch' = batch
    BY <2>0, <1>3 DEF Review!ReadBack, Review!After, ReviewInv
  <2>2. NoNewItems
    BY <2>0, <1>3 DEF Review!ReadBack, Review!After, ReviewInv, SoundReview, NoNewItems
  <2>3. SoundReview(x)' /\ x.pc # "create"
    BY <2>0, <1>3 DEF Review!ReadBack, Review!After, ReviewInv, SoundReview
  <2> QED BY <2>1, <2>2, <2>3, ReviewEnds
<1>4. ASSUME Review!Answered(p) PROVE ReviewInv'
  <2>0. PICK x : x = Review!Idle
    OBVIOUS
  <2>1. reviewer' = [reviewer EXCEPT ![p] = x] /\ DOMAIN items' = Review!Ids /\ batch' = batch
    BY <2>0, <1>4 DEF Review!Answered, ReviewInv
  <2>2. NoNewItems
    BY <2>0, <1>4 DEF Review!Answered, ReviewInv, SoundReview, NoNewItems
  <2>3. SoundReview(x)' /\ x.pc # "create"
    BY <2>0, <1>4 DEF Review!Answered, ReviewInv, SoundReview
  <2> QED BY <2>1, <2>2, <2>3, ReviewEnds
<1> QED BY <1>1, <1>2, <1>3, <1>4

LEMMA ReviewRemovals ==
  ASSUME ReviewInv, NEW p \in Requests
  PROVE  /\ Review!DeleteBatch(p) => ReviewInv'
         /\ Review!Cascade(p) => ReviewInv'
         /\ Review!Abort(p) => ReviewInv'
<1> USE DEF Review!Is, Review!To, Review!Idle
<1>1. ASSUME Review!DeleteBatch(p) PROVE ReviewInv'
  <2>0. PICK x : x = [pc |-> "cascade"]
    OBVIOUS
  <2>1. reviewer' = [reviewer EXCEPT ![p] = x] /\ DOMAIN items' = Review!Ids /\ batch' = batch
    BY <2>0, <1>1 DEF Review!DeleteBatch, ReviewInv
  <2>2. NoNewItems
    BY <2>0, <1>1 DEF Review!DeleteBatch, ReviewInv, SoundReview, NoNewItems
  <2>3. SoundReview(x)' /\ x.pc # "create"
    BY <2>0, <1>1 DEF Review!DeleteBatch, ReviewInv, SoundReview
  <2> QED BY <2>1, <2>2, <2>3, ReviewEnds
<1>2. ASSUME Review!Cascade(p) PROVE ReviewInv'
  <2>0. PICK x : x = Review!Idle
    OBVIOUS
  <2>1. reviewer' = [reviewer EXCEPT ![p] = x] /\ DOMAIN items' = Review!Ids
    BY <2>0, <1>2 DEF Review!Cascade, ReviewInv
  <2>2. NoNewItems
    BY <2>0, <1>2 DEF Review!Cascade, ReviewInv, SoundReview, NoNewItems
  <2>3. SoundReview(x)' /\ x.pc # "create"
    BY <2>0, <1>2 DEF Review!Cascade, ReviewInv, SoundReview
  <2>4. \A q \in Requests : reviewer[q].pc # "create"
    BY <1>2 DEF Review!Cascade, ReviewInv, SoundReview
  <2> QED BY <2>1, <2>2, <2>3, <2>4, ReviewStays
<1>3. ASSUME Review!Abort(p) PROVE ReviewInv'
  <2>0. PICK x : x = Review!Idle
    OBVIOUS
  <2>1. reviewer' = [reviewer EXCEPT ![p] = x] /\ DOMAIN items' = Review!Ids /\ batch' = batch
    BY <2>0, <1>3 DEF Review!Abort, ReviewInv
  <2>2. NoNewItems
    BY <2>0, <1>3 DEF Review!Abort, ReviewInv, SoundReview, NoNewItems
  <2>3. SoundReview(x)' /\ x.pc # "create"
    BY <2>0, <1>3 DEF Review!Abort, ReviewInv, SoundReview
  <2> QED BY <2>1, <2>2, <2>3, ReviewEnds
<1> QED BY <1>1, <1>2, <1>3

LEMMA ReviewNext == ReviewInv /\ [Review!Next]_(Review!vars) => ReviewInv'
<1> SUFFICES ASSUME ReviewInv, [Review!Next]_(Review!vars) PROVE ReviewInv'
  OBVIOUS
<1>1. ASSUME NEW p \in Requests, NEW ids \in SUBSET Review!Ids, Review!Choose(p, ids) PROVE ReviewInv'
  BY <1>1, ReviewMaking
<1>2. ASSUME NEW p \in Requests, NEW r \in Review!Ids, NEW change, Review!DeleteItem(p, r) \/ Review!UpdateItem(p, r, change)
      PROVE  ReviewInv'
  BY <1>2, ReviewChanges DEF Review!DeleteItem, Review!UpdateItem
<1>3. ASSUME NEW p \in Requests, Review!Create(p) \/ Review!TouchBatch(p) \/ Review!ReadBack(p) \/ Review!Answered(p)
                                   \/ Review!DeleteBatch(p) \/ Review!Cascade(p) \/ Review!Abort(p)
      PROVE  ReviewInv'
  BY <1>3, ReviewMaking, ReviewChanges, ReviewRemovals
<1>4. ASSUME NEW r, Review!DeleteReceipt(r) PROVE ReviewInv'
  BY <1>4 DEF Review!DeleteReceipt, ReviewInv, OneCreates, SoundReview
<1>5. CASE UNCHANGED Review!vars
  BY <1>5 DEF Review!vars, ReviewInv, OneCreates, SoundReview
<1> QED BY <1>1, <1>2, <1>3, <1>4, <1>5 DEF Review!Next

(* The answer to a change of an item is about that change, for any number of   *)
(* reviewers, receipts and calls.                                              *)
THEOREM AnswersAreOwn == Review!Spec => []AnswerIsOwn
<1>1. ReviewInv => AnswerIsOwn
  BY DEF ReviewInv, SoundReview, AnswerIsOwn, Review!AnswerIsOwn, Review!Is
<1> QED
  BY <1>1, ReviewInit, ReviewNext, PTL DEF Review!Spec

-----------------------------------------------------------------------------
(* Task records. *)

RunFields == {"pc", "holds", "saved", "failed", "mine", "chunk"}
Progress  == [is : {"waiting", "open", "done", "failed", "lost"}, next : Nat \ {0}, readable : BOOLEAN]

(* What a run counts: one for each receipt it has made, and no receipt twice.   *)
Counts(x) == /\ x.saved \in Seq(extracted) /\ x.mine \subseteq extracted /\ x.mine \subseteq Tasks!Pictures
             /\ IsFiniteSet(x.mine) /\ Cardinality(x.mine) = Len(x.saved)

(* What it knows of its chunks: each that has told a failure, and that all are over
   once it has gathered them.                                                  *)
Knows(x) == /\ x.chunk \in [Portions -> Progress]
            /\ \A c \in Portions : x.chunk[c].is = "failed" => c \in x.failed
            /\ x.pc = "gathered" => Tasks!ChunksOver(x)

SoundRun(x) == x = Tasks!Idle \/ (DOMAIN x = RunFields /\ Counts(x) /\ Knows(x))

TasksInv == DOMAIN thread = Workers /\ dir \in BOOLEAN /\ \A w \in Workers : SoundRun(thread[w])

LEMMA CountsGrow ==
  ASSUME NEW x, Counts(x), extracted \subseteq extracted'
  PROVE  Counts(x)'
<1>1. x.saved \in Seq(extracted')
  BY SeqDef DEF Counts
<1> QED BY <1>1 DEF Counts

LEMMA TasksStay ==
  ASSUME TasksInv, NEW w \in Workers, NEW x, thread' = [thread EXCEPT ![w] = x],
         extracted \subseteq extracted', dir' \in BOOLEAN, SoundRun(x)'
  PROVE  TasksInv'
<1>1. ASSUME NEW v \in Workers PROVE SoundRun(thread[v])'
  <2>1. CASE v = w
    BY <2>1 DEF TasksInv, SoundRun, Counts, Knows
  <2>2. CASE v # w
    <3>1. PICK y : y = thread[v] /\ thread'[v] = y
      BY <2>2 DEF TasksInv
    <3>2. SoundRun(y)'
      BY <3>1, CountsGrow DEF TasksInv, SoundRun, Knows
    <3> QED BY <3>1, <3>2 DEF SoundRun, Counts, Knows
  <2> QED BY <2>1, <2>2
<1> QED BY <1>1 DEF TasksInv

LEMMA TasksSame == TasksInv /\ UNCHANGED <<thread, extracted>> /\ dir' \in BOOLEAN => TasksInv'
BY DEF TasksInv, SoundRun, Counts, Knows

(* A step of a run that is at work. *)
LEMMA TasksAtWork ==
  ASSUME TasksInv, NEW w \in Workers, thread[w] # Tasks!Idle
  PROVE  DOMAIN thread[w] = RunFields /\ Counts(thread[w]) /\ Knows(thread[w])
BY DEF TasksInv, SoundRun

(* A chunk moves on. *)
LEMMA ChunkMoves ==
  ASSUME NEW x, Knows(x), NEW c \in Portions, NEW k \in Progress, NEW y,
         y.pc # "gathered", y.chunk = [x.chunk EXCEPT ![c] = k], x.failed \subseteq y.failed, k.is = "failed" => c \in y.failed
  PROVE  Knows(y)
BY DEF Knows

LEMMA TasksStore ==
  ASSUME TasksInv, NEW w \in Workers, NEW c \in Portions, NEW made \in BOOLEAN, Tasks!Store(w, c, made)
  PROVE  TasksInv'
<1> DEFINE old == thread[w].chunk[c]
           i == c[old.next]
<1>1. /\ thread[w].pc = "working" /\ (made => i \notin extracted) /\ old.next <= Len(c)
      /\ extracted' = IF made THEN extracted \cup {i} ELSE extracted
      /\ dir' = dir
  BY DEF Tasks!Store
<1>2. DOMAIN thread[w] = RunFields /\ Counts(thread[w]) /\ Knows(thread[w])
  <2>1. thread[w] # Tasks!Idle
    BY <1>1 DEF Tasks!Idle
  <2> QED BY <2>1, TasksAtWork
<1>3. PICK j \in Tasks!Pictures : j = i
  <2>1. old.next \in 1..Len(c) /\ c \in Seq(Tasks!Pictures)
    BY <1>1, <1>2, PortionsAssumption DEF Knows, Progress
  <2> QED BY <2>1
<1>4. PICK k : k = [old EXCEPT !.next = @ + 1]
  OBVIOUS
<1>5. k \in Progress /\ k.is = old.is
  BY <1>2, <1>4 DEF Knows, Progress
<1>6. PICK chunks : chunks = [thread[w].chunk EXCEPT ![c] = k]
  OBVIOUS
<1>7. PICK x : x = [thread[w] EXCEPT !.saved = Tasks!Counted(@, j, made), !.chunk = chunks,
                                     !.mine = IF made THEN @ \cup {j} ELSE @]
  OBVIOUS
<1>8. thread' = [thread EXCEPT ![w] = x]
  BY <1>2, <1>3, <1>4, <1>6, <1>7 DEF Tasks!Store, TasksInv, RunFields
<1>9. /\ DOMAIN x = RunFields /\ x.saved = (IF made THEN Append(thread[w].saved, j) ELSE thread[w].saved)
      /\ x.mine = (IF made THEN thread[w].mine \cup {j} ELSE thread[w].mine)
      /\ x.chunk = chunks /\ x.failed = thread[w].failed /\ x.pc = "working"
  BY <1>1, <1>2, <1>7 DEF RunFields, Tasks!Counted
<1>10. Knows(x)
  <2>1. k.is = "failed" => c \in x.failed
    BY <1>2, <1>5, <1>9 DEF Knows
  <2> QED BY <1>2, <1>5, <1>6, <1>9, <2>1, ChunkMoves
<1>11. CASE made
  <2>1. x.saved \in Seq(extracted') /\ Len(x.saved) = Len(thread[w].saved) + 1
    <3>1. thread[w].saved \in Seq(extracted')
      BY <1>1, <1>2, SeqDef DEF Counts
    <3>2. j \in extracted'
      BY <1>1, <1>3, <1>11
    <3> QED BY <1>9, <1>11, <3>1, <3>2
  <2>2. IsFiniteSet(x.mine) /\ Cardinality(x.mine) = Cardinality(thread[w].mine) + 1 /\ x.mine \subseteq extracted'
    <3>1. IsFiniteSet(thread[w].mine) /\ thread[w].mine \subseteq extracted /\ j \notin thread[w].mine
      BY <1>1, <1>2, <1>3, <1>11 DEF Counts
    <3>2. x.mine = thread[w].mine \cup {j} /\ extracted' = extracted \cup {j}
      BY <1>1, <1>3, <1>9, <1>11
    <3>3. IsFiniteSet(x.mine) /\ Cardinality(x.mine) = Cardinality(thread[w].mine) + 1
      BY <3>1, <3>2, FS_AddElement
    <3> QED BY <3>1, <3>2, <3>3
  <2>3. Counts(x)'
    BY <1>2, <1>3, <1>9, <1>11, <2>1, <2>2 DEF Counts
  <2>4. SoundRun(x)'
    BY <1>9, <1>10, <2>3 DEF SoundRun, Knows
  <2> QED BY <1>1, <1>8, <2>4, TasksStay DEF TasksInv
<1>12. CASE ~made
  <2>1. Counts(x)'
    BY <1>1, <1>2, <1>9, <1>12 DEF Counts
  <2>2. SoundRun(x)'
    BY <1>9, <1>10, <2>1 DEF SoundRun, Knows
  <2> QED BY <1>1, <1>8, <1>12, <2>2, TasksStay DEF TasksInv
<1> QED BY <1>11, <1>12

LEMMA TasksBegin == ASSUME TasksInv, NEW w \in Workers, Tasks!Begin(w) PROVE TasksInv'
<1>1. PICK k : k = [is |-> "waiting", next |-> 1, readable |-> FALSE]
  OBVIOUS
<1>2. k \in Progress /\ k.is = "waiting"
  BY <1>1 DEF Progress
<1>3. PICK x : x = [pc |-> "taken", holds |-> TRUE, saved |-> <<>>, failed |-> {}, mine |-> {},
                    chunk |-> [c \in Portions |-> k]]
  OBVIOUS
<1>4. thread' = [thread EXCEPT ![w] = x] /\ extracted' = extracted /\ dir' = dir
  BY <1>1, <1>3 DEF Tasks!Begin
<1>5. Counts(x)'
  BY <1>3, <1>4, FS_EmptySet DEF Counts
<1>6. Knows(x)'
  BY <1>2, <1>3 DEF Knows
<1>7. SoundRun(x)'
  BY <1>3, <1>5, <1>6 DEF SoundRun, RunFields
<1> QED BY <1>4, <1>7, TasksStay DEF TasksInv

(* The steps that count nothing. *)
LEMMA TasksKeepCount ==
  ASSUME TasksInv, NEW w \in Workers, NEW x, thread[w] # Tasks!Idle,
         thread' = [thread EXCEPT ![w] = x], extracted' = extracted, dir' \in BOOLEAN,
         \/ x = Tasks!Idle
         \/ DOMAIN x = RunFields /\ x.saved = thread[w].saved /\ x.mine = thread[w].mine /\ Knows(x)
  PROVE  TasksInv'
<1>1. SoundRun(x)'
  BY TasksAtWork DEF SoundRun, Counts, Knows
<1> QED BY <1>1, TasksStay

LEMMA TasksOthers ==
  ASSUME TasksInv, NEW w \in Workers,
         \/ Tasks!Start(w) \/ Tasks!Gather(w) \/ Tasks!End(w) \/ Tasks!Fail(w) \/ Tasks!Clean(w) \/ Tasks!Crash(w)
         \/ Tasks!RedeliverSlow(w)
         \/ \E c \in Portions : Tasks!Open(w, c) \/ \E is \in {"done", "failed", "lost"} : Tasks!EndChunk(w, c, is)
  PROVE  TasksInv'
<1>0. thread[w] = Tasks!Idle \/ (DOMAIN thread[w] = RunFields /\ Knows(thread[w]))
  BY TasksAtWork
<1>1. ASSUME NEW pc \in {"working", "gathered", "ending"}, thread[w] # Tasks!Idle,
             thread' = [thread EXCEPT ![w].pc = pc], extracted' = extracted, dir' = dir,
             pc = "gathered" => Tasks!ChunksOver(thread[w])
      PROVE  TasksInv'
  <2>1. PICK x : x = [thread[w] EXCEPT !.pc = pc]
    OBVIOUS
  <2>2. thread' = [thread EXCEPT ![w] = x]
    BY <1>1, <2>1 DEF TasksInv
  <2>3. DOMAIN x = RunFields /\ x.saved = thread[w].saved /\ x.mine = thread[w].mine /\ Knows(x)
    BY <1>0, <1>1, <2>1 DEF RunFields, Knows, Tasks!ChunksOver
  <2> QED BY <1>1, <2>2, <2>3, TasksKeepCount DEF TasksInv
<1>2. CASE Tasks!Start(w) \/ Tasks!Gather(w) \/ Tasks!End(w) \/ Tasks!Fail(w)
  <2>1. thread[w] # Tasks!Idle
    BY <1>2 DEF Tasks!Start, Tasks!Gather, Tasks!End, Tasks!Fail, Tasks!Idle
  <2> QED
    BY <1>1, <1>2, <2>1 DEF Tasks!Start, Tasks!Gather, Tasks!End, Tasks!Fail
<1>3. CASE Tasks!Clean(w) \/ Tasks!Crash(w)
  <2>1. thread[w] # Tasks!Idle
    BY <1>3 DEF Tasks!Clean, Tasks!Crash, Tasks!Idle
  <2>2. thread' = [thread EXCEPT ![w] = Tasks!Idle] /\ extracted' = extracted /\ dir' \in BOOLEAN
    BY <1>3 DEF Tasks!Clean, Tasks!Crash, TasksInv
  <2> QED BY <2>1, <2>2, TasksKeepCount
<1>4. CASE Tasks!RedeliverSlow(w)
  <2>1. PICK x : x = [thread[w] EXCEPT !.holds = FALSE]
    OBVIOUS
  <2>2. thread' = [thread EXCEPT ![w] = x] /\ extracted' = extracted /\ thread[w] # Tasks!Idle /\ dir' = dir
    BY <1>0, <1>4, <2>1 DEF Tasks!RedeliverSlow, TasksInv
  <2>3. DOMAIN x = RunFields /\ x.saved = thread[w].saved /\ x.mine = thread[w].mine /\ Knows(x)
    BY <1>0, <2>1, <2>2 DEF RunFields, Knows, Tasks!ChunksOver
  <2> QED BY <2>2, <2>3, TasksKeepCount DEF TasksInv
<1>5. ASSUME NEW c \in Portions, NEW k \in Progress, NEW failed, thread[w].failed \subseteq failed,
             k.is = "failed" => c \in failed, thread[w] # Tasks!Idle, thread[w].pc = "working", extracted' = extracted, dir' = dir,
             NEW chunks, chunks = [thread[w].chunk EXCEPT ![c] = k],
             thread' = [thread EXCEPT ![w] = [thread[w] EXCEPT !.chunk = chunks, !.failed = failed]]
      PROVE  TasksInv'
  <2>1. PICK x : x = [thread[w] EXCEPT !.chunk = chunks, !.failed = failed]
    OBVIOUS
  <2>2. /\ DOMAIN x = RunFields /\ x.saved = thread[w].saved /\ x.mine = thread[w].mine
        /\ x.chunk = chunks /\ x.failed = failed /\ x.pc = "working"
    BY <1>0, <1>5, <2>1 DEF RunFields
  <2>3. Knows(x)
    BY <1>0, <1>5, <2>2, ChunkMoves
  <2> QED BY <1>5, <2>1, <2>2, <2>3, TasksKeepCount DEF TasksInv
<1>6. ASSUME NEW c \in Portions, Tasks!Open(w, c) PROVE TasksInv'
  <2>1. thread[w] # Tasks!Idle /\ thread[w].pc = "working" /\ extracted' = extracted /\ dir' = dir
    BY <1>6 DEF Tasks!Open, Tasks!Idle
  <2>2. PICK k : k = [is |-> "open", next |-> 1, readable |-> dir]
    OBVIOUS
  <2>3. k \in Progress /\ k.is = "open"
    BY <2>2 DEF Progress, TasksInv
  <2>4. PICK chunks : chunks = [thread[w].chunk EXCEPT ![c] = k]
    OBVIOUS
  <2>5. PICK failed : failed = thread[w].failed
    OBVIOUS
  <2>6. thread' = [thread EXCEPT ![w] = [thread[w] EXCEPT !.chunk = chunks, !.failed = failed]]
    BY <1>0, <1>6, <2>1, <2>2, <2>4, <2>5 DEF Tasks!Open, TasksInv, RunFields
  <2> QED BY <1>5, <2>1, <2>3, <2>4, <2>5, <2>6
<1>7. ASSUME NEW c \in Portions, NEW is \in {"done", "failed", "lost"}, Tasks!EndChunk(w, c, is) PROVE TasksInv'
  <2>1. thread[w] # Tasks!Idle /\ thread[w].pc = "working" /\ extracted' = extracted /\ dir' = dir
    <3>1. thread[w].pc = "working" /\ extracted' = extracted /\ dir' = dir
      BY <1>7, Zenon DEF Tasks!EndChunk
    <3> QED
      BY <3>1 DEF Tasks!Idle
  <2>2. PICK k : k = [thread[w].chunk[c] EXCEPT !.is = is]
    OBVIOUS
  <2>3. k \in Progress /\ k.is = is
    BY <1>0, <2>1, <2>2 DEF Knows, Progress
  <2>4. PICK chunks : chunks = [thread[w].chunk EXCEPT ![c] = k]
    OBVIOUS
  <2>5. PICK failed : failed = IF is = "failed" THEN thread[w].failed \cup {c} ELSE thread[w].failed
    OBVIOUS
  <2>6. thread' = [thread EXCEPT ![w] = [thread[w] EXCEPT !.chunk = chunks, !.failed = failed]]
    BY <1>0, <1>7, <2>1, <2>2, <2>4, <2>5 DEF Tasks!EndChunk, TasksInv, RunFields
  <2>7. thread[w].failed \subseteq failed /\ (k.is = "failed" => c \in failed)
    BY <2>3, <2>5
  <2> QED BY <1>5, <2>1, <2>3, <2>4, <2>6, <2>7
<1> QED BY <1>2, <1>3, <1>4, <1>6, <1>7

LEMMA TasksInit == Tasks!Init => TasksInv
BY DEF Tasks!Init, TasksInv, SoundRun

LEMMA TasksNext == TasksInv /\ [Tasks!Next]_(Tasks!vars) => TasksInv'
<1> SUFFICES ASSUME TasksInv, [Tasks!Next]_(Tasks!vars) PROVE TasksInv'
  OBVIOUS
<1>1. CASE \/ Tasks!Create \/ Tasks!StageFiles \/ Tasks!Refuse \/ Tasks!Send \/ Tasks!Delete \/ Tasks!RedeliverLost
           \/ Tasks!Pause \/ Tasks!Resume \/ UNCHANGED Tasks!vars
  <2>1. UNCHANGED <<thread, extracted>> /\ dir' \in BOOLEAN
    BY <1>1 DEF Tasks!Create, Tasks!StageFiles, Tasks!Refuse, Tasks!Send, Tasks!Delete, Tasks!RedeliverLost,
       Tasks!Pause, Tasks!Resume, Tasks!SetStatus, Tasks!vars, TasksInv
  <2> QED BY <2>1, TasksSame
<1>2. ASSUME NEW status, Tasks!Report(status) PROVE TasksInv'
  BY <1>2, TasksSame DEF Tasks!Report, TasksInv
<1>3. ASSUME NEW w \in Workers, Tasks!Begin(w) PROVE TasksInv'
  BY <1>3, TasksBegin
<1>4. ASSUME NEW w \in Workers, NEW c \in Portions, NEW made \in BOOLEAN, Tasks!Store(w, c, made) PROVE TasksInv'
  BY <1>4, TasksStore
<1> QED BY <1>1, <1>2, <1>3, <1>4, TasksOthers DEF Tasks!Next

LEMMA TasksCount == \A S : Tasks!Cardinality(S) = Cardinality(S)
BY DEF Tasks!Cardinality, Cardinality

LEMMA PicturesFew == IsFiniteSet(Tasks!Pictures)
BY PortionsAssumption DEF Tasks!IsFiniteSet, IsFiniteSet

(* The verdict of a run that has gathered its chunks. *)
LEMMA VerdictOfRun ==
  ASSUME TasksInv, NEW w \in Workers, thread[w].pc = "gathered"
  PROVE  LET r == thread[w] says == Tasks!Verdict(r).says IN
         /\ says.what = "partial" => /\ says.n = Cardinality(r.mine) /\ r.mine # {} /\ r.mine # Tasks!Pictures
                                     /\ r.mine \subseteq extracted /\ IsFiniteSet(r.mine)
         /\ says.what = "nothing" => r.mine = {}
         /\ says.what = "saved" => r.mine = Tasks!Pictures \/ (r.mine = {} /\ r.failed = {})
<1> DEFINE r == thread[w]
<1>1. Counts(r) /\ Knows(r)
  <2>1. r # Tasks!Idle
    BY DEF Tasks!Idle
  <2> QED BY <2>1, TasksAtWork
<1>2. IsFiniteSet(r.mine) /\ Cardinality(r.mine) = Len(r.saved) /\ r.saved \in Seq(extracted)
      /\ r.mine \subseteq Tasks!Pictures /\ r.mine \subseteq extracted
  BY <1>1 DEF Counts
<1> HIDE DEF r
<1>3. (r.saved = <<>> <=> Len(r.saved) = 0) /\ Len(r.saved) \in Nat
  BY <1>2
<1>4. Cardinality(r.mine) = 0 <=> r.mine = {}
  BY <1>2, FS_EmptySet
<1>5. CASE r.saved # <<>> /\ Len(r.saved) < Cardinality(Tasks!Pictures)
  <2>1. Tasks!Verdict(r).says = Tasks!Says("partial", Len(r.saved))
    BY <1>5, TasksCount DEF Tasks!Verdict
  <2>2. r.mine # Tasks!Pictures
    BY <1>2, <1>5
  <2> QED BY <1>2, <1>3, <1>4, <1>5, <2>1, <2>2 DEF Tasks!Says, r
<1>6. CASE r.saved = <<>> /\ r.failed # {}
  <2>1. Tasks!Verdict(r).says = Tasks!Says("nothing", 0)
    BY <1>6 DEF Tasks!Verdict
  <2> QED BY <1>2, <1>3, <1>4, <1>6, <2>1 DEF Tasks!Says, r
<1>7. CASE ~(r.saved # <<>> /\ Len(r.saved) < Cardinality(Tasks!Pictures)) /\ ~(r.saved = <<>> /\ r.failed # {})
  <2>1. Tasks!Verdict(r).says = Tasks!Says("saved", 0)
    BY <1>7, TasksCount DEF Tasks!Verdict
  <2>2. CASE r.saved = <<>>
    BY <1>2, <1>3, <1>4, <1>7, <2>1, <2>2 DEF Tasks!Says, r
  <2>3. CASE r.saved # <<>>
    <3>1. Cardinality(Tasks!Pictures) \in Nat /\ Cardinality(Tasks!Pictures) <= Cardinality(r.mine)
      BY <1>2, <1>3, <1>7, <2>3, PicturesFew, FS_CardinalityType
    <3>2. Cardinality(r.mine) <= Cardinality(Tasks!Pictures) /\ Cardinality(r.mine) \in Nat
      BY <1>2, PicturesFew, FS_Subset, FS_CardinalityType
    <3>3. Cardinality(r.mine) = Cardinality(Tasks!Pictures)
      BY <3>1, <3>2
    <3>4. r.mine = Tasks!Pictures
      BY <1>2, <3>3, PicturesFew, FS_Subset
    <3> QED BY <2>1, <3>4 DEF Tasks!Says, r
  <2> QED BY <2>2, <2>3
<1> QED BY <1>5, <1>6, <1>7

(* The row of a task: a number it tells is of receipts that are there. *)
RowFields == {"status", "started", "ended", "says", "results"}
TaskInv == /\ IsFiniteSet(extracted)
           /\ task = Tasks!NoTask \/ DOMAIN task = RowFields
           /\ task # Tasks!NoTask /\ task.says.what = "partial" => task.says.n \in 1..Cardinality(extracted)

LEMMA TaskProgress ==
  ASSUME TaskInv, NEW status, NEW says, Tasks!update_progress(status, says), extracted' = extracted,
         says.what = "partial" => says.n \in 1..Cardinality(extracted)
  PROVE  TaskInv'
<1>1. CASE task = Tasks!NoTask
  BY <1>1 DEF TaskInv, Tasks!update_progress
<1>2. CASE task # Tasks!NoTask
  <2>1. DOMAIN task' = RowFields /\ task'.says = says
    BY <1>2 DEF TaskInv, Tasks!update_progress, RowFields
  <2> QED BY <2>1 DEF TaskInv
<1> QED BY <1>1, <1>2

(* A result of an image, and the receipt it may come with. *)
LEMMA TaskResult ==
  ASSUME TaskInv, NEW w \in Workers, NEW c \in Portions, NEW made \in BOOLEAN, Tasks!Store(w, c, made)
  PROVE  TaskInv'
<1> DEFINE i == c[thread[w].chunk[c].next]
<1>1. /\ extracted' = IF made THEN extracted \cup {i} ELSE extracted
      /\ Tasks!add_task_result(i, IF made THEN "data" ELSE "null")
  BY DEF Tasks!Store
<1>2. IsFiniteSet(extracted') /\ Cardinality(extracted) \in Nat /\ Cardinality(extracted') \in Nat
      /\ Cardinality(extracted) <= Cardinality(extracted')
  <2>1. IsFiniteSet(extracted')
    BY <1>1, FS_AddElement DEF TaskInv
  <2>2. extracted \subseteq extracted'
    BY <1>1
  <2> QED BY <2>1, <2>2, FS_Subset, FS_CardinalityType
<1>3. CASE task = Tasks!NoTask
  BY <1>1, <1>2, <1>3 DEF TaskInv, Tasks!add_task_result
<1>4. CASE task # Tasks!NoTask
  <2>1. PICK data : task' = [task EXCEPT !.results[i] = data]
    BY <1>1, <1>4 DEF Tasks!add_task_result
  <2> HIDE DEF i
  <2>2. DOMAIN task' = RowFields /\ task'.says = task.says
    BY <1>4, <2>1 DEF TaskInv, RowFields
  <2> QED BY <1>2, <1>4, <2>2 DEF TaskInv
<1> QED BY <1>3, <1>4

LEMMA TaskStep == TasksInv /\ TaskInv /\ [Tasks!Next]_(Tasks!vars) => TaskInv'
<1> SUFFICES ASSUME TasksInv, TaskInv, [Tasks!Next]_(Tasks!vars) PROVE TaskInv'
  OBVIOUS
<1>1. CASE UNCHANGED <<task, extracted>>
  BY <1>1 DEF TaskInv
<1>2. CASE Tasks!Create \/ Tasks!Delete
  BY <1>2 DEF TaskInv, RowFields, Tasks!Create, Tasks!Delete, Tasks!Says
<1>3. ASSUME NEW status, Tasks!SetStatus(status) PROVE TaskInv'
  <2>1. task # Tasks!NoTask /\ task' = [task EXCEPT !.status = status] /\ extracted' = extracted
    BY <1>3 DEF Tasks!SetStatus, Tasks!Touch
  <2>2. DOMAIN task' = RowFields /\ task'.says = task.says
    BY <2>1 DEF TaskInv, RowFields
  <2> QED BY <2>1, <2>2 DEF TaskInv
<1>4. ASSUME NEW status, Tasks!Report(status) PROVE TaskInv'
  BY <1>4, TaskProgress DEF Tasks!Report, Tasks!Says
<1>5. ASSUME NEW w \in Workers, Tasks!Start(w) \/ Tasks!Gather(w) \/ Tasks!Fail(w) PROVE TaskInv'
  BY <1>5, TaskProgress DEF Tasks!Start, Tasks!Gather, Tasks!Fail, Tasks!Says
<1>6. ASSUME NEW w \in Workers, Tasks!End(w) PROVE TaskInv'
  <2> DEFINE v == Tasks!Verdict(thread[w])
             mine == thread[w].mine
  <2>1. thread[w].pc = "gathered" /\ Tasks!update_progress(v.status, v.says) /\ extracted' = extracted
    BY <1>6 DEF Tasks!End
  <2>2. v.says.what = "partial" => /\ v.says.n = Cardinality(mine) /\ mine # {}
                                   /\ mine \subseteq extracted /\ IsFiniteSet(mine)
    BY <2>1, VerdictOfRun
  <2> HIDE DEF v, mine
  <2>3. v.says.what = "partial" => v.says.n \in 1..Cardinality(extracted)
    BY <2>2, FS_Subset, FS_CardinalityType, FS_EmptySet DEF TaskInv
  <2> QED BY <2>1, <2>3, TaskProgress
<1>7. ASSUME NEW w \in Workers,
             \/ Tasks!Begin(w) \/ Tasks!Clean(w) \/ Tasks!Crash(w) \/ Tasks!RedeliverSlow(w)
             \/ \E c \in Portions : Tasks!Open(w, c) \/ \E is \in {"done", "failed", "lost"} : Tasks!EndChunk(w, c, is)
      PROVE  UNCHANGED <<task, extracted>>
  BY <1>7 DEF Tasks!Begin, Tasks!Clean, Tasks!Crash, Tasks!RedeliverSlow, Tasks!Open, Tasks!EndChunk
<1>8. CASE Tasks!StageFiles \/ Tasks!Refuse \/ Tasks!Send \/ Tasks!RedeliverLost \/ UNCHANGED Tasks!vars
  BY <1>1, <1>8 DEF Tasks!StageFiles, Tasks!Refuse, Tasks!Send, Tasks!RedeliverLost, Tasks!vars
<1> QED
  BY <1>1, <1>2, <1>3, <1>4, <1>5, <1>6, <1>7, <1>8, TaskResult DEF Tasks!Next, Tasks!Pause, Tasks!Resume

(* What a run says at its end is true of the receipts it has made, and the      *)
(* number a row tells is of receipts that are there; for any chunks, any number *)
(* of threads of the workers, deliveries and crashes.                           *)
THEOREM VerdictsTrue == Tasks!Spec => []VerdictTrue
<1>1. ASSUME TasksInv, TaskInv PROVE VerdictTrue
  <2>1. ASSUME NEW w \in Workers, thread[w].pc = "gathered" PROVE Tasks!TellsTrue(thread[w])
    <3>1. Knows(thread[w])
      <4>1. thread[w] # Tasks!Idle
        BY <2>1 DEF Tasks!Idle
      <4> QED BY <1>1, <4>1, TasksAtWork
    <3>2. ASSUME thread[w].failed = {}, NEW c \in Portions PROVE thread[w].chunk[c].is \in {"done", "lost"}
      BY <2>1, <3>1, <3>2 DEF Knows, Tasks!ChunksOver
    <3> QED BY <1>1, <2>1, <3>2, VerdictOfRun, TasksCount DEF Tasks!TellsTrue
  <2> QED BY <1>1, <2>1, TasksCount DEF VerdictTrue, Tasks!VerdictTrue, TaskInv
<1>2. Tasks!Init => TaskInv
  BY FS_EmptySet DEF Tasks!Init, TaskInv
<1> QED
  BY <1>1, <1>2, TasksInit, TasksNext, TaskStep, PTL DEF Tasks!Spec

-----------------------------------------------------------------------------
(* Reference data. *)

Filed(r) == booked[r] # Books!NoRow

(* A receipt that a removal has cleared is under the industry it removes; one    *)
(* that is being extracted is not there yet.                                    *)
BooksInv ==
  /\ "industries" \in DOMAIN named /\ DOMAIN named["industries"] = RowIds
  /\ DOMAIN booked = Slips /\ DOMAIN scan = Slips
  /\ \A r \in Slips : Filed(r) => DOMAIN booked[r] = {"industry", "category"} /\ scan[r].pc = "over"
  /\ removal.pc \in {"categories", "industry"} =>
       removal.industry \in RowIds /\ \A r \in removal.cleared : r \in Slips /\ Filed(r) /\ booked[r].industry = removal.industry

(* No receipt loses its industry while the industry is there. *)
KeepsIndustry ==
  \A r \in Slips : Filed(r) /\ booked'[r].industry # booked[r].industry /\ booked'[r].industry = Books!None
    => booked[r].industry \notin {i \in RowIds : named'["industries"][i] # Books!NoRow}

(* The tables of names. *)
LEMMA BooksRows ==
  ASSUME BooksInv, NEW t, NEW i \in RowIds, NEW n, NEW active,
         Books!CreateRow(t, i, n) \/ Books!UpdateRow(t, i, n, active) \/ Books!DeleteRow(t, i)
  PROVE  BooksInv' /\ KeepsIndustry
<1>1. UNCHANGED <<category, booked, scan, removal>>
  BY DEF Books!CreateRow, Books!UpdateRow, Books!DeleteRow
<1>2. "industries" \in DOMAIN named' /\ DOMAIN named'["industries"] = RowIds
  <2>1. ASSUME NEW x, named' = [named EXCEPT ![t][i] = x]
        PROVE  "industries" \in DOMAIN named' /\ DOMAIN named'["industries"] = RowIds
    BY <2>1 DEF BooksInv
  <2>2. ASSUME named' = [named EXCEPT ![t][i].name = n, ![t][i].active = active]
        PROVE  "industries" \in DOMAIN named' /\ DOMAIN named'["industries"] = RowIds
    <3>1. PICK x : x = [named[t] EXCEPT ![i].name = n, ![i].active = active]
      OBVIOUS
    <3>2. DOMAIN x = DOMAIN named[t] /\ named' = [named EXCEPT ![t] = x]
      BY <2>2, <3>1
    <3> QED BY <3>2 DEF BooksInv
  <2> QED BY <2>1, <2>2 DEF Books!CreateRow, Books!UpdateRow, Books!DeleteRow
<1> QED BY <1>1, <1>2 DEF BooksInv, KeepsIndustry, Filed

(* Steps of the categories and of the extraction, which leave the receipts. *)
LEMMA BooksSame ==
  ASSUME BooksInv, UNCHANGED <<named, booked, removal>>, DOMAIN scan' = Slips,
         \A r \in Slips : scan[r].pc = "over" => scan'[r] = scan[r]
  PROVE  BooksInv' /\ KeepsIndustry
BY DEF BooksInv, KeepsIndustry, Filed

LEMMA BooksCategories ==
  ASSUME BooksInv,
         \/ Books!DeleteCategory
         \/ \E c, w : Books!CreateCategory(c, w) \/ Books!UpdateCategory(c, w) \/ Books!CheckCategory(c)
  PROVE  BooksInv' /\ KeepsIndustry
<1>1. UNCHANGED <<named, booked, removal, scan>>
  BY DEF Books!DeleteCategory, Books!CreateCategory, Books!UpdateCategory, Books!CheckCategory
<1> QED BY <1>1, BooksSame DEF BooksInv

LEMMA BooksScan ==
  ASSUME BooksInv, NEW r \in Slips, NEW x, NEW raw, NEW failed, Books!Ask(r, x, failed) \/ Books!Answer(r, raw) \/ Books!LookUp(r, failed)
  PROVE  BooksInv' /\ KeepsIndustry
<1>1. UNCHANGED <<named, booked, removal>>
  BY DEF Books!Ask, Books!Answer, Books!LookUp
<1>2. PICK s : scan' = [scan EXCEPT ![r] = s] /\ scan[r].pc # "over"
  BY DEF Books!Ask, Books!Answer, Books!LookUp
<1> QED BY <1>1, <1>2, BooksSame DEF BooksInv

LEMMA BooksSave ==
  ASSUME BooksInv, NEW r \in Slips, Books!Save(r)
  PROVE  BooksInv' /\ KeepsIndustry
<1>1. ~Filed(r) /\ UNCHANGED <<named, removal>> /\ scan' = [scan EXCEPT ![r] = [pc |-> "over"]]
  BY DEF Books!Save, BooksInv
<1>2. CASE booked' = booked
  BY <1>1, <1>2 DEF BooksInv, KeepsIndustry, Filed
<1>3. CASE booked' # booked
  <2>0. PICK x : x = [industry |-> scan[r].industry, category |-> scan[r].category]
    OBVIOUS
  <2>1. booked' = [booked EXCEPT ![r] = x] /\ DOMAIN x = {"industry", "category"}
    BY <1>3, <2>0 DEF Books!Save
  <2>2. \A s \in Slips \ {r} : booked'[s] = booked[s] /\ scan'[s] = scan[s]
    BY <1>1, <2>1 DEF BooksInv
  <2>3. booked'[r] = x /\ scan'[r] = [pc |-> "over"] /\ DOMAIN booked' = Slips /\ DOMAIN scan' = Slips
    BY <1>1, <2>1 DEF BooksInv
  <2>4. removal.pc \in {"categories", "industry"} => r \notin removal.cleared
    BY <1>1 DEF BooksInv
  <2>5. BooksInv'
    BY <1>1, <2>1, <2>2, <2>3, <2>4 DEF BooksInv, Filed
  <2>6. KeepsIndustry
    BY <1>1, <2>2 DEF KeepsIndustry, Filed
  <2> QED BY <2>5, <2>6
<1> QED BY <1>2, <1>3

LEMMA BooksRefile ==
  ASSUME BooksInv, Books!TablesAssumption, NEW r \in Slips, NEW x \in RowIds, NEW c, Books!Refile(r, x, c)
  PROVE  BooksInv' /\ KeepsIndustry
<1>1. UNCHANGED <<named, removal, scan>> /\ Filed(r) /\ r \notin Books!Cleared
  BY DEF Books!Refile, Filed
<1>2. PICK y : y = [industry |-> x, category |-> c]
  OBVIOUS
<1>3. booked' = [booked EXCEPT ![r] = y]
  BY <1>2 DEF Books!Refile
<1>4. DOMAIN booked' = Slips /\ booked'[r] = y /\ \A s \in Slips \ {r} : booked'[s] = booked[s]
  BY <1>3 DEF BooksInv
<1>5. removal.pc \in {"categories", "industry"} => r \notin removal.cleared
  BY <1>1 DEF Books!Cleared
<1>6. BooksInv'
  BY <1>1, <1>2, <1>4, <1>5 DEF BooksInv, Filed
<1>7. y.industry # Books!None
  BY <1>2 DEF Books!TablesAssumption
<1>8. KeepsIndustry
  BY <1>4, <1>7 DEF KeepsIndustry
<1> QED BY <1>6, <1>8

LEMMA BooksRemoval ==
  ASSUME BooksInv, Books!TablesAssumption,
         Books!DropCategories \/ Books!DropIndustry \/ \E x \in RowIds : Books!RemoveIndustry(x)
  PROVE  BooksInv' /\ KeepsIndustry
<1>1. ASSUME NEW x \in RowIds, Books!RemoveIndustry(x) PROVE BooksInv' /\ KeepsIndustry
  BY <1>1 DEF Books!RemoveIndustry, Books!Clear, Books!FiledUnder, BooksInv, KeepsIndustry, Filed
<1>2. CASE Books!DropCategories
  BY <1>2 DEF Books!DropCategories, BooksInv, KeepsIndustry, Filed
<1>3. CASE Books!DropIndustry
  <2>1. removal.pc = "industry" /\ removal'.pc = "none" /\ scan' = scan
    BY <1>3 DEF Books!DropIndustry
  <2>2. CASE UNCHANGED <<named, category, booked>>
    BY <2>1, <2>2 DEF BooksInv, KeepsIndustry, Filed
  <2>3. CASE /\ named' = [named EXCEPT !["industries"][removal.industry] = Books!NoRow]
             /\ booked' = Books!ClearedReceipts(removal.cleared)
    <3>1. "industries" \in DOMAIN named' /\ DOMAIN named'["industries"] = RowIds
          /\ named'["industries"][removal.industry] = Books!NoRow
      BY <2>1, <2>3 DEF BooksInv
    <3>2. DOMAIN booked' = Slips /\ \A r \in Slips \ removal.cleared : booked'[r] = booked[r]
      BY <2>3 DEF Books!ClearedReceipts
    <3>3. ASSUME NEW r \in removal.cleared
          PROVE  Filed(r) /\ booked[r].industry = removal.industry /\ DOMAIN booked'[r] = {"industry", "category"}
      BY <2>1, <2>3, <3>3 DEF BooksInv, Books!ClearedReceipts
    <3>4. BooksInv'
      BY <2>1, <3>1, <3>2, <3>3 DEF BooksInv, Filed
    <3>5. KeepsIndustry
      BY <3>1, <3>2, <3>3 DEF KeepsIndustry
    <3> QED BY <3>4, <3>5
  <2> QED BY <1>3, <2>2, <2>3 DEF Books!DropIndustry
<1> QED BY <1>1, <1>2, <1>3

LEMMA BooksInit == Books!TablesAssumption /\ Books!Init => BooksInv
BY DEF Books!TablesAssumption, Books!Init, BooksInv, Filed, Books!NoRow

LEMMA BooksNext == Books!TablesAssumption /\ BooksInv /\ [Books!Next]_(Books!vars) => BooksInv' /\ KeepsIndustry
<1> SUFFICES ASSUME Books!TablesAssumption, BooksInv, [Books!Next]_(Books!vars) PROVE BooksInv' /\ KeepsIndustry
  OBVIOUS
<1>1. CASE \E i \in RowIds, n \in Titles :
             \/ Books!CreateLocation(i, n) \/ Books!CreateEntryType(i, n) \/ Books!CreateIndustry(i, n)
             \/ \E active \in BOOLEAN :
                  Books!UpdateLocation(i, n, active) \/ Books!UpdateEntryType(i, n, active) \/ Books!UpdateIndustry(i, n, active)
  BY <1>1, BooksRows DEF Books!CreateLocation, Books!CreateEntryType, Books!CreateIndustry,
     Books!UpdateLocation, Books!UpdateEntryType, Books!UpdateIndustry
<1>2. CASE \E i \in RowIds : Books!DeleteLocation(i) \/ (i \in Books!Rows("entry_types") /\ Books!DeleteEntryType(i))
  BY <1>2, BooksRows DEF Books!DeleteLocation, Books!DeleteEntryType
<1>3. CASE Books!DeleteCategory \/ \E c, w : Books!CreateCategory(c, w) \/ Books!UpdateCategory(c, w) \/ Books!CheckCategory(c)
  BY <1>3, BooksCategories
<1>4. CASE Books!DropCategories \/ Books!DropIndustry \/ \E x \in RowIds : Books!RemoveIndustry(x)
  BY <1>4, BooksRemoval
<1>5. ASSUME NEW r \in Slips, NEW x, NEW raw, NEW failed, Books!Ask(r, x, failed) \/ Books!Answer(r, raw) \/ Books!LookUp(r, failed)
      PROVE  BooksInv' /\ KeepsIndustry
  BY <1>5, BooksScan
<1>6. ASSUME NEW r \in Slips, Books!Save(r) PROVE BooksInv' /\ KeepsIndustry
  BY <1>6, BooksSave
<1>7. ASSUME NEW r \in Slips, NEW x \in RowIds, NEW c, Books!Refile(r, x, c) PROVE BooksInv' /\ KeepsIndustry
  BY <1>7, BooksRefile
<1>8. CASE UNCHANGED Books!vars
  BY <1>8, BooksSame DEF Books!vars, BooksInv
<1> QED BY <1>1, <1>2, <1>3, <1>4, <1>5, <1>6, <1>7, <1>8, Zenon DEF Books!Next

(* No receipt loses its industry unless the industry goes, however removals,    *)
(* extractions and corrections interleave, for any tables.                      *)
THEOREM IndustriesKept == ASSUME Books!TablesAssumption PROVE Books!Spec => IndustryKept
<1>1. Books!Init => BooksInv
  BY BooksInit
<1>2. BooksInv /\ [Books!Next]_(Books!vars) => BooksInv'
  BY BooksNext
<1>3. BooksInv /\ [Books!Next]_(Books!vars) =>
        [\A r \in Slips : booked[r] # Books!NoRow /\ booked'[r].industry # booked[r].industry /\ booked'[r].industry = Books!None
           => booked[r].industry \notin {i \in RowIds : named'["industries"][i] # Books!NoRow}]_(Books!vars)
  BY BooksNext DEF KeepsIndustry, Filed
<1> QED
  BY <1>1, <1>2, <1>3, PTL DEF Books!Spec, IndustryKept, Books!IndustryKept

-----------------------------------------------------------------------------
(* Backup and restore. *)

ArchFields  == {"pc", "ver", "items", "rows", "files"}
PaperFields == {"owner", "ver", "items"}
TripFields  == {"pc", "by", "conflict", "external", "sel", "mapped", "aborted", "todo"}
Place(r, o) == [rcp |-> r, ord |-> o]

PapersInv == DOMAIN receipt = Backup!Rids /\ \A r \in Backup!Rids : Backup!Exists(r) => DOMAIN receipt[r] = PaperFields

(* Images hang on receipts, at places of their own and without gaps. *)
PicturesInv ==
  /\ DOMAIN picture = Photos /\ DOMAIN file = Photos
  /\ \A i \in Photos : Backup!Attached(i) =>
       \E r \in Backup!Rids, o \in {0, 1} : picture[i] = Place(r, o) /\ Backup!Exists(r)
  /\ \A i, j \in Photos : Backup!Attached(i) /\ picture[i] = picture[j] => i = j
  /\ \A i \in Photos : Backup!Attached(i) /\ picture[i].ord = 1 => \E j \in Photos : picture[j] = Place(picture[i].rcp, 0)

(* So do the images of the archive. *)
RowsInv ==
  /\ \A c \in arch.rows : \E i \in Photos, r \in DOMAIN arch.ver, o \in {0, 1} : c = [id |-> i, rcp |-> r, ord |-> o]
  /\ \A c, d \in arch.rows : c.id = d.id \/ (c.rcp = d.rcp /\ c.ord = d.ord) => c = d
  /\ \A c \in arch.rows : c.ord = 1 => \E d \in arch.rows : d.rcp = c.rcp /\ d.ord = 0

(* Until the files are packed, the second image of a receipt stays while the     *)
(* first does; then it is packed when the first is.                              *)
Second(c, d) == c.rcp = d.rcp /\ c.ord = 0 /\ d.ord = 1
PackInv ==
  \A c, d \in arch.rows : Second(c, d) =>
    /\ arch.pc = "pack" /\ Backup!Attached(c.id) => picture[c.id] = Place(c.rcp, 0) /\ picture[d.id] = Place(c.rcp, 1)
    /\ arch.pc = "made" /\ c.id \in arch.files => d.id \in arch.files

ArchInv ==
  /\ DOMAIN arch = ArchFields /\ arch.pc \in {"receipts", "items", "images", "pack", "made"}
  /\ arch.pc # "receipts" => DOMAIN arch.ver \subseteq Papers
  /\ arch.pc \in {"images", "pack", "made"} => DOMAIN arch.items = DOMAIN arch.ver
  /\ arch.pc \in {"pack", "made"} => RowsInv /\ PackInv
  /\ arch.pc = "made" => arch.files \subseteq {c.id : c \in arch.rows}

(* Imports begin when the archive is made; until then files go with their rows. *)
TripInv(x) ==
  /\ DOMAIN x = TripFields /\ (x.pc # "new" => arch.pc = "made")
  /\ x.pc \in {"import", "open", "files", "write", "completed"} => x.sel \subseteq DOMAIN arch.ver

TripsInv ==
  /\ DOMAIN importer = Requests /\ \A p \in Requests : TripInv(importer[p])
  /\ arch.pc # "made" => \A i \in Photos : Backup!Attached(i) <=> file[i] # "none"

(* Who is still to write the file of i, or has died or failed on it. *)
Owes(x, i) ==
  \/ x.pc \in {"failed", "died"}
  \/ x.pc = "open" /\ i \in Backup!Wanted(x)
  \/ x.pc \in {"files", "write"} /\ i \in x.todo

(* An attached image without a file is restored from the archive. *)
Restored(i) == \E d \in arch.rows :
  d.id = i /\ picture[i].rcp \in {d.rcp, Backup!Copy(d.rcp)} /\ (picture[i].ord = 1 => d.ord = 1)

FilesInv == arch.pc = "made" =>
  \A i \in Photos : Backup!Attached(i) /\ file[i] = "none" =>
    Restored(i) /\ (i \in arch.files => \E p \in Requests : Owes(importer[p], i))

ContentInv == PapersInv /\ PicturesInv /\ ArchInv /\ TripsInv /\ FilesInv

LEMMA Places == \A r, o : Place(r, o).rcp = r /\ Place(r, o).ord = o /\ Place(r, o) # Backup!NoRow
BY DEF Place, Backup!NoRow

LEMMA SamePlace ==
  ASSUME NEW r, NEW s, NEW o, NEW q, Place(r, o) = Place(s, q)
  PROVE  r = s /\ o = q
<1>1. Place(r, o).rcp = Place(s, q).rcp /\ Place(r, o).ord = Place(s, q).ord
  BY Zenon
<1>2. Place(r, o).rcp = r /\ Place(r, o).ord = o /\ Place(s, q).rcp = s /\ Place(s, q).ord = q
  BY DEF Place
<1> QED BY <1>1, <1>2, Zenon

LEMMA ContentInit == Backup!ArchiveAssumption /\ Backup!Init => ContentInv
<1> SUFFICES ASSUME Backup!ArchiveAssumption, Backup!Init PROVE ContentInv
  OBVIOUS
<1>1. PapersInv
  BY DEF Backup!Init, PapersInv, PaperFields, Backup!Exists, Backup!Row, Backup!NoRow
<1>2. ASSUME NEW i \in Photos, picture[i] # Backup!NoRow
      PROVE  \E c \in FirstPhotos : c.id = i /\ picture[i] = Place(c.rcp, c.ord)
  BY <1>2 DEF Backup!Init, Backup!RowIn, Place
<1>3. ASSUME NEW c \in FirstPhotos
      PROVE  c.id \in Photos /\ c.rcp \in FirstPapers /\ c.ord \in {0, 1} /\ picture[c.id] = Place(c.rcp, c.ord)
  <2>1. c.id \in Photos /\ c.rcp \in FirstPapers /\ c.ord \in {0, 1}
    BY DEF Backup!ArchiveAssumption, Backup!Orders
  <2>2. \A d \in FirstPhotos : d.id = c.id => d = c
    BY DEF Backup!ArchiveAssumption
  <2> QED BY <2>1, <2>2 DEF Backup!Init, Backup!RowIn, Place
<1>4. FirstPapers \subseteq Backup!Rids /\ \A r \in FirstPapers : Backup!Exists(r)
  BY DEF Backup!Init, Backup!ArchiveAssumption, Backup!Rids, Backup!Exists, Backup!Row, Backup!NoRow
<1>5. PicturesInv
  <2>1. DOMAIN picture = Photos /\ DOMAIN file = Photos
    BY DEF Backup!Init
  <2>2. ASSUME NEW i \in Photos, Backup!Attached(i)
        PROVE  \E r \in Backup!Rids, o \in {0, 1} : picture[i] = Place(r, o) /\ Backup!Exists(r)
    BY <1>2, <1>3, <1>4, <2>2 DEF Backup!Attached
  <2>3. ASSUME NEW i \in Photos, NEW j \in Photos, Backup!Attached(i), picture[i] = picture[j]
        PROVE  i = j
    <3>1. PICK c \in FirstPhotos : c.id = i /\ picture[i] = Place(c.rcp, c.ord)
      BY <1>2, <2>3 DEF Backup!Attached
    <3>2. PICK d \in FirstPhotos : d.id = j /\ picture[j] = Place(d.rcp, d.ord)
      BY <1>2, <2>3 DEF Backup!Attached
    <3>3. Place(c.rcp, c.ord) = Place(d.rcp, d.ord)
      BY <2>3, <3>1, <3>2, Zenon
    <3>4. c.rcp = d.rcp /\ c.ord = d.ord
      BY <3>3, SamePlace
    <3> QED BY <3>1, <3>2, <3>4 DEF Backup!ArchiveAssumption
  <2>4. ASSUME NEW i \in Photos, Backup!Attached(i), picture[i].ord = 1
        PROVE  \E j \in Photos : picture[j] = Place(picture[i].rcp, 0)
    <3>1. PICK c \in FirstPhotos : c.id = i /\ picture[i] = Place(c.rcp, c.ord)
      BY <1>2, <2>4 DEF Backup!Attached
    <3>2. c.ord = 1 /\ picture[i].rcp = c.rcp
      BY <2>4, <3>1 DEF Place
    <3>3. PICK d \in FirstPhotos : d.rcp = c.rcp /\ d.ord = 0
      BY <3>2 DEF Backup!ArchiveAssumption
    <3> QED BY <1>3, <3>2, <3>3
  <2> QED BY <2>1, <2>2, <2>3, <2>4 DEF PicturesInv
<1>6. ArchInv /\ FilesInv
  BY DEF Backup!Init, ArchInv, FilesInv, ArchFields
<1>7. TripsInv
  BY DEF Backup!Init, TripsInv, TripInv, TripFields, Backup!NewReq, Backup!Attached
<1> QED BY <1>1, <1>5, <1>6, <1>7 DEF ContentInv

(* What Owner does: an image without a file is one that was there before, and   *)
(* the archive notices no more than that a first image goes.                   *)
FilesGo ==
  \A i \in Photos : Backup!Attached(i)' /\ file'[i] = "none" =>
    /\ Backup!Attached(i) /\ file[i] = "none"
    /\ picture'[i].rcp = picture[i].rcp /\ (picture'[i].ord = 1 => picture[i].ord = 1)

FirstsGo == arch.pc \in {"pack", "made"} =>
  \A c, d \in arch.rows : Second(c, d) /\ Backup!Attached(c.id)' =>
    Backup!Attached(c.id) /\ (picture[c.id] = Place(c.rcp, 0) /\ picture[d.id] = Place(c.rcp, 1)
                                => picture'[c.id] = picture[c.id] /\ picture'[d.id] = picture[d.id])

FilesWithRows == \A i \in Photos : Backup!Attached(i) <=> file[i] # "none"

LEMMA FilesStay ==
  ASSUME FilesInv, FilesGo, UNCHANGED <<arch, importer>>
  PROVE  FilesInv'
<1> SUFFICES ASSUME arch.pc = "made", NEW i \in Photos, Backup!Attached(i)', file'[i] = "none"
             PROVE  Restored(i)' /\ (i \in arch.files => \E p \in Requests : Owes(importer[p], i)')
  BY DEF FilesInv
<1>1. Backup!Attached(i) /\ file[i] = "none" /\ picture'[i].rcp = picture[i].rcp /\ (picture'[i].ord = 1 => picture[i].ord = 1)
  BY DEF FilesGo
<1>2. Restored(i) /\ (i \in arch.files => \E p \in Requests : Owes(importer[p], i))
  BY <1>1 DEF FilesInv
<1>3. Restored(i)'
  BY <1>1, <1>2 DEF Restored
<1>4. \A p \in Requests : Owes(importer[p], i) => Owes(importer[p], i)'
  BY DEF Owes, Backup!Wanted, Backup!Children
<1> QED BY <1>2, <1>3, <1>4

LEMMA ContentAfterDrift ==
  ASSUME ContentInv, UNCHANGED <<arch, importer>>, PapersInv', PicturesInv', FilesGo, FirstsGo, FilesWithRows => FilesWithRows'
  PROVE  ContentInv'
<1>1. ArchInv'
  <2>1. arch.pc \in {"pack", "made"} => PackInv'
    BY DEF PackInv, FirstsGo, ContentInv, ArchInv
  <2>2. arch.pc \in {"pack", "made"} => RowsInv'
    BY DEF RowsInv, ContentInv, ArchInv
  <2> QED BY <2>1, <2>2 DEF ContentInv, ArchInv
<1>2. TripsInv'
  <2>1. \A p \in Requests : TripInv(importer[p])'
    BY DEF ContentInv, TripsInv, TripInv
  <2> QED BY <2>1 DEF ContentInv, TripsInv, FilesWithRows
<1> QED BY <1>1, <1>2, FilesStay DEF ContentInv

LEMMA PapersEdit ==
  ASSUME ContentInv, NEW r \in Papers, Backup!Create(r) \/ Backup!Edit(r)
  PROVE  ContentInv'
<1>1. PICK x : receipt' = [receipt EXCEPT ![r] = x] /\ DOMAIN x = PaperFields
  <2>1. CASE Backup!Create(r)
    <3>1. PICK y : y = Backup!Row(Owner, 0, Backup!Original)
      OBVIOUS
    <3>2. receipt' = [receipt EXCEPT ![r] = y] /\ DOMAIN y = PaperFields
      BY <2>1, <3>1 DEF Backup!Create, Backup!Row, PaperFields
    <3> QED BY <3>2
  <2>2. CASE Backup!Edit(r)
    <3>1. PICK y : y = Backup!Row(receipt[r].owner, 1, {<<0, 1>>})
      OBVIOUS
    <3>2. receipt' = [receipt EXCEPT ![r] = y] /\ DOMAIN y = PaperFields
      BY <2>2, <3>1 DEF Backup!Edit, Backup!Row, PaperFields
    <3> QED BY <3>2
  <2> QED BY <2>1, <2>2
<1>2. UNCHANGED <<picture, file, arch, importer>>
  BY DEF Backup!Create, Backup!Edit, Backup!Drift
<1>3. r \in Backup!Rids /\ x # Backup!NoRow
  BY <1>1 DEF Backup!Rids, Backup!NoRow, PaperFields
<1>4. PapersInv' /\ \A s \in Backup!Rids : Backup!Exists(s) => Backup!Exists(s)'
  BY <1>1, <1>3 DEF PapersInv, ContentInv, Backup!Exists
<1>5. PicturesInv'
  BY <1>2, <1>4 DEF PicturesInv, ContentInv, Backup!Attached
<1>6. FilesGo /\ FirstsGo /\ (FilesWithRows => FilesWithRows')
  BY <1>2 DEF FilesGo, FirstsGo, FilesWithRows, Backup!Attached
<1> QED BY <1>2, <1>4, <1>5, <1>6, ContentAfterDrift

LEMMA PapersDelete ==
  ASSUME ContentInv, NEW r \in Papers, Backup!Delete(r)
  PROVE  ContentInv'
<1>1. UNCHANGED <<arch, importer>> /\ receipt' = [receipt EXCEPT ![r] = Backup!NoRow]
  BY DEF Backup!Delete, Backup!Drift
<1>2. /\ DOMAIN picture' = Photos /\ DOMAIN file' = Photos
      /\ \A i \in Photos : IF i \in Backup!Of(r) THEN picture'[i] = Backup!NoRow /\ file'[i] = "none"
                                                  ELSE picture'[i] = picture[i] /\ file'[i] = file[i]
  BY DEF Backup!Delete
<1>3. PapersInv' /\ \A s \in Backup!Rids \ {r} : Backup!Exists(s) => Backup!Exists(s)'
  BY <1>1 DEF PapersInv, ContentInv, Backup!Exists
<1>4. \A i \in Photos : Backup!Attached(i)' => /\ Backup!Attached(i) /\ picture[i].rcp # r
                                                 /\ picture'[i] = picture[i] /\ file'[i] = file[i]
  BY <1>2 DEF Backup!Of, Backup!Attached
<1>5. \A i \in Photos : Backup!Attached(i) /\ picture[i].rcp # r => picture'[i] = picture[i]
  BY <1>2 DEF Backup!Of
<1>6. PicturesInv'
  <2>1. ASSUME NEW i \in Photos, Backup!Attached(i)'
        PROVE  \E s \in Backup!Rids, o \in {0, 1} : picture'[i] = Place(s, o) /\ Backup!Exists(s)'
    <3>1. PICK s \in Backup!Rids, o \in {0, 1} : picture[i] = Place(s, o) /\ Backup!Exists(s)
      BY <1>4, <2>1 DEF ContentInv, PicturesInv
    <3>2. s # r
      BY <1>4, <2>1, <3>1, Places
    <3> QED BY <1>3, <1>4, <2>1, <3>1, <3>2
  <2>2. ASSUME NEW i \in Photos, NEW j \in Photos, Backup!Attached(i)', picture'[i] = picture'[j]
        PROVE  i = j
    BY <1>4, <2>2 DEF ContentInv, PicturesInv, Backup!Attached
  <2>3. ASSUME NEW i \in Photos, Backup!Attached(i)', picture'[i].ord = 1
        PROVE  \E j \in Photos : picture'[j] = Place(picture'[i].rcp, 0)
    <3>1. PICK j \in Photos : picture[j] = Place(picture[i].rcp, 0)
      BY <1>4, <2>3 DEF ContentInv, PicturesInv
    <3>2. Backup!Attached(j) /\ picture[j].rcp # r
      BY <1>4, <2>3, <3>1, Places DEF Backup!Attached
    <3> QED BY <1>4, <1>5, <2>3, <3>1, <3>2
  <2> QED BY <1>2, <2>1, <2>2, <2>3 DEF PicturesInv
<1>7. FilesGo
  BY <1>4 DEF FilesGo
<1>8. FirstsGo
  <2> SUFFICES ASSUME arch.pc \in {"pack", "made"}, NEW c \in arch.rows, NEW d \in arch.rows, Second(c, d), Backup!Attached(c.id)',
                      picture[c.id] = Place(c.rcp, 0), picture[d.id] = Place(c.rcp, 1)
               PROVE  picture'[c.id] = picture[c.id] /\ picture'[d.id] = picture[d.id]
    <3>1. arch.pc \in {"pack", "made"} => \A c \in arch.rows : c.id \in Photos
      BY DEF ContentInv, ArchInv, RowsInv
    <3> QED BY <1>4, <3>1 DEF FirstsGo
  <2>1. c.id \in Photos /\ d.id \in Photos
    BY DEF ContentInv, ArchInv, RowsInv
  <2>2. picture[d.id].rcp = picture[c.id].rcp /\ Backup!Attached(d.id)
    BY Places DEF Backup!Attached
  <2> QED BY <1>4, <1>5, <2>1, <2>2
<1>9. FilesWithRows => FilesWithRows'
  BY <1>2 DEF FilesWithRows, Backup!Attached
<1> QED BY <1>1, <1>3, <1>6, <1>7, <1>8, <1>9, ContentAfterDrift

LEMMA PapersRemoveFirst ==
  ASSUME ContentInv, NEW r \in Papers, Backup!RemoveFirst(r)
  PROVE  ContentInv'
<1>1. UNCHANGED <<arch, importer, receipt>>
  BY DEF Backup!RemoveFirst, Backup!Drift
<1>2. /\ DOMAIN picture' = Photos /\ DOMAIN file' = Photos
      /\ \A i \in Photos :
           /\ i \notin Backup!Of(r) => picture'[i] = picture[i] /\ file'[i] = file[i]
           /\ i \in Backup!Of(r) /\ picture[i].ord = 0 => picture'[i] = Backup!NoRow /\ file'[i] = "none"
           /\ i \in Backup!Of(r) /\ picture[i].ord # 0 =>
                picture'[i] = [picture[i] EXCEPT !.ord = @ - 1] /\ file'[i] = file[i]
  BY DEF Backup!RemoveFirst
<1>3. ASSUME NEW i \in Backup!Of(r), picture[i].ord # 0
      PROVE  picture[i] = Place(r, 1) /\ picture'[i] = Place(r, 0)
  <2>1. PICK s \in Backup!Rids, o \in {0, 1} : picture[i] = Place(s, o)
    BY <1>3 DEF ContentInv, PicturesInv, Backup!Of
  <2>2. s = r /\ o = 1
    BY <1>3, <2>1, Places DEF Backup!Of
  <2>3. i \in Photos
    BY DEF Backup!Of
  <2> QED BY <1>2, <1>3, <2>1, <2>2, <2>3 DEF Place
<1>4. ASSUME NEW i \in Photos, Backup!Attached(i)'
      PROVE  /\ Backup!Attached(i) /\ file'[i] = file[i]
             /\ \/ picture[i].rcp # r /\ picture'[i] = picture[i]
                \/ picture[i] = Place(r, 1) /\ picture'[i] = Place(r, 0)
  BY <1>2, <1>3, <1>4 DEF Backup!Of, Backup!Attached
<1>5. \A i \in Photos : Backup!Attached(i) /\ picture[i].rcp # r => picture'[i] = picture[i]
  BY <1>2 DEF Backup!Of
<1>6. PicturesInv'
  <2>1. ASSUME NEW i \in Photos, Backup!Attached(i)'
        PROVE  \E s \in Backup!Rids, o \in {0, 1} : picture'[i] = Place(s, o) /\ Backup!Exists(s)'
    <3>1. PICK s \in Backup!Rids, o \in {0, 1} : picture[i] = Place(s, o) /\ Backup!Exists(s)
      BY <1>4, <2>1 DEF ContentInv, PicturesInv
    <3>2. Backup!Exists(s)'
      BY <1>1, <3>1 DEF Backup!Exists
    <3>3. ASSUME picture[i] = Place(r, 1) PROVE s = r
      <4>1. Place(r, 1) = Place(s, o)
        BY <3>1, <3>3
      <4> QED BY <4>1, SamePlace
    <3>4. CASE picture'[i] = picture[i]
      BY <3>1, <3>2, <3>4
    <3>5. CASE picture[i] = Place(r, 1) /\ picture'[i] = Place(r, 0)
      BY <3>2, <3>3, <3>5
    <3> QED BY <1>4, <2>1, <3>4, <3>5
  <2>2. ASSUME NEW i \in Photos, NEW j \in Photos, Backup!Attached(i)', picture'[i] = picture'[j]
        PROVE  i = j
    <3>1. Backup!Attached(j)'
      BY <2>2 DEF Backup!Attached
    <3>2. picture[i] = picture[j]
      BY <1>4, <2>2, <3>1, Places
    <3> QED BY <1>4, <2>2, <3>2 DEF ContentInv, PicturesInv
  <2>3. ASSUME NEW i \in Photos, Backup!Attached(i)', picture'[i].ord = 1
        PROVE  \E j \in Photos : picture'[j] = Place(picture'[i].rcp, 0)
    <3>1. picture[i].rcp # r /\ picture'[i] = picture[i]
      BY <1>4, <2>3, Places
    <3>2. PICK j \in Photos : picture[j] = Place(picture[i].rcp, 0)
      BY <1>4, <2>3, <3>1 DEF ContentInv, PicturesInv
    <3>3. Backup!Attached(j) /\ picture[j].rcp # r
      BY <3>1, <3>2, Places DEF Backup!Attached
    <3> QED BY <1>5, <3>1, <3>2, <3>3
  <2> QED BY <1>2, <2>1, <2>2, <2>3 DEF PicturesInv
<1>7. FilesGo
  <2>1. \A i \in Photos : Backup!Attached(i)' => picture'[i].rcp = picture[i].rcp /\ (picture'[i].ord = 1 => picture[i].ord = 1)
    BY <1>4, Places
  <2> QED BY <1>4, <2>1 DEF FilesGo
<1>8. FirstsGo
  <2> SUFFICES ASSUME arch.pc \in {"pack", "made"}, NEW c \in arch.rows, NEW d \in arch.rows, Second(c, d), Backup!Attached(c.id)',
                      picture[c.id] = Place(c.rcp, 0), picture[d.id] = Place(c.rcp, 1)
               PROVE  picture'[c.id] = picture[c.id] /\ picture'[d.id] = picture[d.id]
    <3>1. arch.pc \in {"pack", "made"} => \A c \in arch.rows : c.id \in Photos
      BY DEF ContentInv, ArchInv, RowsInv
    <3> QED BY <1>4, <3>1 DEF FirstsGo
  <2>1. c.id \in Photos /\ d.id \in Photos
    BY DEF ContentInv, ArchInv, RowsInv
  <2>2. picture[c.id].rcp # r /\ picture'[c.id] = picture[c.id]
    BY <1>4, <2>1, Places
  <2>3. picture[d.id].rcp # r /\ Backup!Attached(d.id)
    BY <2>2, Places DEF Backup!Attached
  <2> QED BY <1>5, <2>1, <2>2, <2>3
<1>9. FilesWithRows => FilesWithRows'
  <2>1. ASSUME NEW i \in Photos, ~Backup!Attached(i)', Backup!Attached(i) PROVE file'[i] = "none"
    BY <1>2, <1>3, <2>1, Places DEF Backup!Attached, Backup!Of
  <2>2. ASSUME NEW i \in Photos, ~Backup!Attached(i) PROVE file'[i] = file[i]
    BY <1>2, <2>2 DEF Backup!Of
  <2> QED BY <1>4, <2>1, <2>2 DEF FilesWithRows
<1>10. PapersInv'
  BY <1>1 DEF ContentInv, PapersInv, Backup!Exists
<1> QED BY <1>1, <1>6, <1>7, <1>8, <1>9, <1>10, ContentAfterDrift

(* A new image gets the place after the others. *)
LEMMA NextPlace ==
  ASSUME ContentInv, IsFiniteSet(Photos), NEW r, NEW n, n = Backup!Cardinality(Backup!Of(r)), n \in {0, 1}
  PROVE  /\ \A j \in Photos : picture[j] # Place(r, n)
         /\ n = 1 => \E j \in Photos : picture[j] = Place(r, 0)
<1>1. n = Cardinality(Backup!Of(r)) /\ IsFiniteSet(Backup!Of(r))
  <2>1. Backup!Cardinality(Backup!Of(r)) = Cardinality(Backup!Of(r))
    BY DEF Backup!Cardinality, Cardinality, Backup!IsFiniteSet, IsFiniteSet
  <2> QED BY <2>1, FS_Subset DEF Backup!Of
<1>2. ASSUME NEW j \in Photos, NEW o, picture[j] = Place(r, o)
      PROVE  j \in Backup!Of(r) /\ o \in {0, 1} /\ (o = 1 => \E k \in Backup!Of(r) : picture[k] = Place(r, 0))
  <2>1. j \in Backup!Of(r)
    BY <1>2, Places DEF Backup!Of, Backup!Attached
  <2>2. PICK s \in Backup!Rids, q \in {0, 1} : picture[j] = Place(s, q)
    BY <2>1 DEF ContentInv, PicturesInv, Backup!Of
  <2>3. Place(r, o) = Place(s, q)
    BY <1>2, <2>2
  <2>6. o = q
    BY <2>3, SamePlace
  <2>4. o = 1 => \E k \in Photos : picture[k] = Place(r, 0)
    BY <1>2, <2>1, Places DEF ContentInv, PicturesInv, Backup!Of
  <2>5. \A k \in Photos : picture[k] = Place(r, 0) => k \in Backup!Of(r)
    BY Places DEF Backup!Of, Backup!Attached
  <2> QED BY <2>1, <2>2, <2>4, <2>5, <2>6
<1>3. CASE n = 0
  <2>1. Backup!Of(r) = {}
    BY <1>1, <1>3, FS_EmptySet
  <2> QED BY <1>2, <1>3, <2>1
<1>4. CASE n = 1
  <2>1. PICK k : Backup!Of(r) = {k}
    BY <1>1, <1>4, FS_Singleton
  <2>2. PICK s \in Backup!Rids, q \in {0, 1} : picture[k] = Place(s, q)
    BY <2>1 DEF ContentInv, PicturesInv, Backup!Of
  <2>3. s = r /\ k \in Photos
    BY <2>1, <2>2, Places DEF Backup!Of
  <2>4. q = 0
    <3>1. q = 1 => picture[k] = Place(r, 0)
      BY <1>2, <2>1, <2>2, <2>3
    <3> QED BY <2>2, <3>1, Places
  <2>5. \A j \in Photos : picture[j] # Place(r, 1)
    BY <1>2, <2>1, <2>2, <2>3, <2>4, Places
  <2> QED BY <1>4, <2>2, <2>3, <2>4, <2>5
<1> QED BY <1>3, <1>4

LEMMA PapersUpload ==
  ASSUME Backup!ArchiveAssumption, ContentInv, NEW r \in Papers, NEW i \in Photos, Backup!Upload(i, r)
  PROVE  ContentInv'
<1>1. UNCHANGED <<arch, importer, receipt>> /\ Backup!Exists(r) /\ ~Backup!Attached(i) /\ \A c \in arch.rows : c.id # i
  BY DEF Backup!Upload, Backup!Drift
<1>2. PICK n \in {0, 1} : n = Backup!Cardinality(Backup!Of(r)) /\ picture' = [picture EXCEPT ![i] = Place(r, n)]
  <2>1. PICK n : n = Backup!Cardinality(Backup!Of(r))
    OBVIOUS
  <2>2. n \in 0..1 /\ picture' = [picture EXCEPT ![i] = [rcp |-> r, ord |-> n]]
    BY <2>1 DEF Backup!Upload, Backup!Orders
  <2>3. n \in {0, 1}
    BY <2>2
  <2>4. picture' = [picture EXCEPT ![i] = Place(r, n)]
    BY <2>2 DEF Place
  <2> QED BY <2>1, <2>3, <2>4, Zenon
<1>3. IsFiniteSet(Photos)
  <2>1. Backup!IsFiniteSet(Photos) = IsFiniteSet(Photos)
    BY DEF Backup!IsFiniteSet, IsFiniteSet
  <2> QED BY <2>1 DEF Backup!ArchiveAssumption
<1>4. (\A j \in Photos : picture[j] # Place(r, n)) /\ (n = 1 => \E j \in Photos : picture[j] = Place(r, 0))
  BY <1>2, <1>3, NextPlace
<1>5. /\ DOMAIN picture' = Photos /\ DOMAIN file' = Photos
      /\ picture'[i] = Place(r, n) /\ file'[i] = "ok"
      /\ \A j \in Photos \ {i} : picture'[j] = picture[j] /\ file'[j] = file[j]
  BY <1>2 DEF ContentInv, PicturesInv, Backup!Upload
<1>6. Backup!Attached(i)' /\ \A j \in Photos \ {i} : Backup!Attached(j)' <=> Backup!Attached(j)
  BY <1>5, Places DEF Backup!Attached
<1>7. r \in Backup!Rids /\ \A s : Backup!Exists(s)' <=> Backup!Exists(s)
  BY <1>1 DEF Backup!Rids, Backup!Exists
<1>8. PicturesInv'
  <2>1. ASSUME NEW j \in Photos, Backup!Attached(j)'
        PROVE  \E s \in Backup!Rids, o \in {0, 1} : picture'[j] = Place(s, o) /\ Backup!Exists(s)'
    BY <1>1, <1>5, <1>6, <1>7, <2>1 DEF ContentInv, PicturesInv
  <2>2. ASSUME NEW j \in Photos, NEW k \in Photos, Backup!Attached(j)', picture'[j] = picture'[k]
        PROVE  j = k
    BY <1>4, <1>5, <1>6, <2>2 DEF ContentInv, PicturesInv
  <2>3. ASSUME NEW j \in Photos, Backup!Attached(j)', picture'[j].ord = 1
        PROVE  \E k \in Photos : picture'[k] = Place(picture'[j].rcp, 0)
    <3>1. PICK k \in Photos : picture[k] = Place(picture'[j].rcp, 0)
      BY <1>4, <1>5, <1>6, <2>3, Places DEF ContentInv, PicturesInv
    <3>2. k # i
      BY <1>1, <3>1, Places DEF Backup!Attached
    <3> QED BY <1>5, <3>1, <3>2
  <2> QED BY <1>5, <2>1, <2>2, <2>3 DEF PicturesInv
<1>9. FilesGo
  BY <1>5, <1>6 DEF FilesGo
<1>10. FirstsGo
  <2>1. arch.pc \in {"pack", "made"} => \A c \in arch.rows : c.id \in Photos \ {i}
    BY <1>1 DEF ContentInv, ArchInv, RowsInv
  <2> QED BY <1>5, <1>6, <2>1 DEF FirstsGo
<1>11. FilesWithRows => FilesWithRows'
  BY <1>5, <1>6 DEF FilesWithRows
<1>12. PapersInv'
  BY <1>1, <1>7 DEF ContentInv, PapersInv
<1> QED BY <1>1, <1>8, <1>9, <1>10, <1>11, <1>12, ContentAfterDrift

LEMMA ContentExport ==
  ASSUME ContentInv, Backup!ReadReceipts \/ Backup!ReadItems \/ Backup!ReadImages \/ Backup!Pack
  PROVE  ContentInv'
<1>1. UNCHANGED <<receipt, picture, file, importer>> /\ arch.pc # "made"
  BY DEF Backup!ReadReceipts, Backup!ReadItems, Backup!ReadImages, Backup!Pack, Backup!ExportRest, Backup!store
<1>2. PapersInv' /\ PicturesInv'
  BY <1>1 DEF ContentInv, PapersInv, PicturesInv, Backup!Exists, Backup!Attached
<1>3. FilesWithRows /\ \A p \in Requests : importer[p].pc = "new"
  BY <1>1 DEF ContentInv, TripsInv, TripInv, FilesWithRows
<1>4. TripsInv'
  BY <1>1, <1>3 DEF ContentInv, TripsInv, TripInv, FilesWithRows, Backup!Attached
<1>5. FilesInv'
  BY <1>1, <1>3 DEF FilesInv, FilesWithRows, Backup!Attached
<1>6. ArchInv'
  <2>1. CASE Backup!ReadReceipts
    <3>1. PICK mine : mine = {r \in Papers : Backup!Exists(r) /\ receipt[r].owner = Owner}
      OBVIOUS
    <3>2. PICK v : v = [r \in mine |-> receipt[r].ver]
      OBVIOUS
    <3>3. arch' = [arch EXCEPT !.pc = "items", !.ver = v] /\ DOMAIN v \subseteq Papers
      BY <2>1, <3>1, <3>2 DEF Backup!ReadReceipts
    <3> QED BY <3>3 DEF ContentInv, ArchInv, ArchFields
  <2>2. CASE Backup!ReadItems
    <3>1. PICK v : v = [r \in DOMAIN arch.ver |-> IF Backup!Exists(r) THEN receipt[r].items ELSE {}]
      OBVIOUS
    <3>2. arch' = [arch EXCEPT !.pc = "images", !.items = v] /\ DOMAIN v = DOMAIN arch.ver /\ arch.pc = "items"
      BY <2>2, <3>1 DEF Backup!ReadItems
    <3> QED BY <3>2 DEF ContentInv, ArchInv, ArchFields
  <2>3. CASE Backup!ReadImages
    <3>1. PICK S : S = {[id |-> i, rcp |-> picture[i].rcp, ord |-> picture[i].ord] :
                              i \in {j \in Photos : Backup!Attached(j) /\ picture[j].rcp \in DOMAIN arch.ver}}
      OBVIOUS
    <3>2. /\ DOMAIN arch' = ArchFields /\ arch'.pc = "pack" /\ arch'.rows = S
          /\ arch'.ver = arch.ver /\ arch'.items = arch.items /\ arch.pc = "images"
      BY <2>3, <3>1 DEF ContentInv, ArchInv, ArchFields, Backup!ReadImages
    <3>3. ASSUME NEW c \in S
          PROVE  /\ c.id \in Photos /\ Backup!Attached(c.id) /\ c.rcp \in DOMAIN arch.ver /\ c.ord \in {0, 1}
                 /\ c = [id |-> c.id, rcp |-> c.rcp, ord |-> c.ord] /\ picture[c.id] = Place(c.rcp, c.ord)
      <4>1. PICK i \in Photos : /\ Backup!Attached(i) /\ picture[i].rcp \in DOMAIN arch.ver
                                  /\ c = [id |-> i, rcp |-> picture[i].rcp, ord |-> picture[i].ord]
        BY <3>1
      <4>2. PICK r \in Backup!Rids, o \in {0, 1} : picture[i] = Place(r, o)
        BY <4>1 DEF ContentInv, PicturesInv
      <4> QED BY <4>1, <4>2, Places
    <3>4. ASSUME NEW i \in Photos, Backup!Attached(i), picture[i].rcp \in DOMAIN arch.ver
          PROVE  [id |-> i, rcp |-> picture[i].rcp, ord |-> picture[i].ord] \in S
      BY <3>1, <3>4
    <3>5. \A c \in S : \E i \in Photos, r \in DOMAIN arch.ver, o \in {0, 1} : c = [id |-> i, rcp |-> r, ord |-> o]
      BY <3>3
    <3>6. ASSUME NEW c \in S, NEW d \in S, c.id = d.id \/ (c.rcp = d.rcp /\ c.ord = d.ord) PROVE c = d
      <4>1. c.id = d.id
        BY <3>3, <3>6 DEF ContentInv, PicturesInv
      <4>2. c.rcp = d.rcp /\ c.ord = d.ord
        <5>1. Place(c.rcp, c.ord) = Place(d.rcp, d.ord)
          BY <3>3, <4>1
        <5> QED BY <5>1, SamePlace
      <4> QED BY <3>3, <4>1, <4>2
    <3>7. ASSUME NEW c \in S, c.ord = 1 PROVE \E d \in S : d.rcp = c.rcp /\ d.ord = 0
      <4>1. PICK j \in Photos : picture[j] = Place(c.rcp, 0)
        BY <3>3, <3>7, Places DEF ContentInv, PicturesInv
      <4>2. Backup!Attached(j) /\ picture[j].rcp \in DOMAIN arch.ver /\ picture[j].rcp = c.rcp /\ picture[j].ord = 0
        BY <3>3, <4>1, Places DEF Backup!Attached
      <4> QED BY <3>4, <4>2
    <3>8. RowsInv'
      BY <3>2, <3>5, <3>6, <3>7 DEF RowsInv
    <3>9. PackInv'
      <4> SUFFICES ASSUME NEW c \in S, NEW d \in S, Second(c, d)
                   PROVE  picture[c.id] = Place(c.rcp, 0) /\ picture[d.id] = Place(c.rcp, 1)
        BY <1>1, <3>2 DEF PackInv, Backup!Attached
      <4> QED BY <3>3 DEF Second
    <3> QED BY <3>2, <3>8, <3>9 DEF ContentInv, ArchInv
  <2>4. CASE Backup!Pack
    <3>1. PICK S : S = {c.id : c \in {d \in arch.rows : file[d.id] # "none"}}
      OBVIOUS
    <3>2. /\ DOMAIN arch' = ArchFields /\ arch'.pc = "made" /\ arch'.files = S /\ arch'.rows = arch.rows
          /\ arch'.ver = arch.ver /\ arch'.items = arch.items /\ arch.pc = "pack"
      BY <2>4, <3>1 DEF ContentInv, ArchInv, ArchFields, Backup!Pack
    <3>3. RowsInv' /\ \A c \in arch.rows : c.id \in Photos
      BY <3>2 DEF ContentInv, ArchInv, RowsInv
    <3>4. PackInv'
      <4> SUFFICES ASSUME NEW c \in arch.rows, NEW d \in arch.rows, Second(c, d), c.id \in S
                   PROVE  d.id \in S
        BY <3>2 DEF PackInv
      <4>1. file[c.id] # "none"
        BY <3>1, <3>2, <3>3 DEF ContentInv, ArchInv, RowsInv
      <4>2. picture[d.id] = Place(c.rcp, 1)
        BY <1>3, <3>2, <3>3, <4>1 DEF ContentInv, ArchInv, PackInv, FilesWithRows
      <4>3. file[d.id] # "none"
        BY <1>3, <3>3, <4>2, Places DEF FilesWithRows, Backup!Attached
      <4> QED BY <3>1, <4>3
    <3> QED BY <3>1, <3>2, <3>3, <3>4 DEF ContentInv, ArchInv
  <2> QED BY <2>1, <2>2, <2>3, <2>4
<1> QED BY <1>2, <1>4, <1>5, <1>6 DEF ContentInv

(* An import that touches no row: it owes a file until the file is there. *)
LEMMA TripMoves ==
  ASSUME ContentInv, arch.pc = "made", UNCHANGED <<receipt, picture, arch>>,
         NEW p \in Requests, NEW x, importer' = [importer EXCEPT ![p] = x], TripInv(x),
         DOMAIN file' = Photos,
         \A i \in Photos : (file[i] # "none" => file'[i] # "none") /\ (Owes(importer[p], i) => Owes(x, i) \/ file'[i] # "none")
  PROVE  ContentInv'
<1>1. PapersInv' /\ PicturesInv' /\ ArchInv'
  <2>1. RowsInv' /\ PackInv'
    BY DEF ContentInv, ArchInv, RowsInv, PackInv
  <2> QED BY <2>1 DEF ContentInv, PapersInv, PicturesInv, ArchInv, Backup!Exists, Backup!Attached
<1>2. TripsInv'
  BY DEF ContentInv, TripsInv, TripInv
<1>3. FilesInv'
  <2> SUFFICES ASSUME NEW i \in Photos, Backup!Attached(i)', file'[i] = "none"
               PROVE  Restored(i)' /\ (i \in arch.files => \E o \in Requests : Owes(importer[o], i)')
    BY DEF FilesInv
  <2>1. Restored(i) /\ (i \in arch.files => \E o \in Requests : Owes(importer[o], i))
    BY DEF ContentInv, FilesInv, Backup!Attached
  <2>2. Restored(i)'
    BY <2>1 DEF Restored
  <2>3. \A y : Owes(y, i) => Owes(y, i)'
    BY DEF Owes, Backup!Wanted, Backup!Children
  <2>4. importer'[p] = x /\ \A o \in Requests \ {p} : importer'[o] = importer[o]
    BY DEF ContentInv, TripsInv
  <2>5. ASSUME NEW o \in Requests, Owes(importer[o], i) PROVE Owes(importer'[o], i)
    BY <2>4, <2>5
  <2>6. ASSUME NEW o \in Requests, Owes(importer'[o], i) PROVE Owes(importer[o], i)'
    BY <2>3, <2>6 DEF Owes, Backup!Wanted, Backup!Children
  <2> QED BY <2>1, <2>2, <2>5, <2>6
<1> QED BY <1>1, <1>2, <1>3 DEF ContentInv

(* An import that ends owes nothing, or for good. *)
LEMMA TripEnds ==
  ASSUME ContentInv, UNCHANGED <<receipt, picture, arch, file>>,
         NEW p \in Requests, NEW pc \in {"completed", "failed", "died"}, importer[p].pc # "new",
         pc = "completed" => importer[p].pc = "files" /\ importer[p].todo = {},
         Backup!Ended(p, pc)
  PROVE  ContentInv'
<1>1. PICK x : x = IF pc = "completed" THEN [importer[p] EXCEPT !.pc = pc] ELSE [Backup!NewReq EXCEPT !.pc = pc]
  OBVIOUS
<1>2. importer' = [importer EXCEPT ![p] = x] /\ arch.pc = "made"
  BY <1>1 DEF Backup!Ended, ContentInv, TripsInv, TripInv
<1>3. TripInv(x) /\ x.pc = pc
  BY <1>1, <1>2 DEF ContentInv, TripsInv, TripInv, TripFields, Backup!NewReq
<1>4. \A i : Owes(importer[p], i) => Owes(x, i)
  BY <1>3 DEF Owes
<1>5. DOMAIN file' = Photos
  BY DEF ContentInv, PicturesInv
<1> QED BY <1>2, <1>3, <1>4, <1>5, TripMoves

LEMMA ContentTrips ==
  ASSUME ContentInv, NEW p \in Requests,
         \/ \E u, conflict, external, sel : Backup!Receive(p, u, conflict, external, sel)
         \/ Backup!Refuse(p) \/ Backup!Open(p) \/ Backup!Finish(p) \/ Backup!Die(p)
         \/ \E i \in Photos : Backup!Skip(p, i) \/ Backup!Truncate(p, i) \/ Backup!Write(p, i)
  PROVE  ContentInv'
<1>1. DOMAIN importer = Requests /\ DOMAIN importer[p] = TripFields /\ DOMAIN file = Photos /\ TripInv(importer[p])
  BY DEF ContentInv, TripsInv, TripInv, PicturesInv
<1>2. ASSUME NEW u, NEW conflict, NEW external, NEW sel, Backup!Receive(p, u, conflict, external, sel)
      PROVE  ContentInv'
  <2>1. PICK x : x = [Backup!NewReq EXCEPT !.pc = "import", !.by = u, !.conflict = conflict, !.external = external, !.sel = sel]
    OBVIOUS
  <2>2. importer' = [importer EXCEPT ![p] = x]
    BY <1>2, <2>1 DEF Backup!Receive
  <2>5. DOMAIN x = TripFields /\ x.pc = "import" /\ x.sel = sel
    BY <2>1 DEF Backup!NewReq, TripFields
  <2>3. arch.pc = "made" /\ importer[p].pc = "new" /\ sel \subseteq DOMAIN arch.ver /\ UNCHANGED <<receipt, picture, arch, file>>
    BY <1>2 DEF Backup!Receive, Backup!store
  <2>4. TripInv(x) /\ \A i : ~Owes(importer[p], i)
    BY <2>3, <2>5 DEF TripInv, Owes
  <2> QED BY <1>1, <2>2, <2>3, <2>4, TripMoves
<1>3. CASE Backup!Refuse(p) \/ Backup!Finish(p) \/ Backup!Die(p)
  <2>1. PICK pc \in {"completed", "failed", "died"} :
          /\ Backup!Ended(p, pc) /\ (pc = "completed" => importer[p].pc = "files" /\ importer[p].todo = {})
          /\ importer[p].pc # "new" /\ UNCHANGED <<receipt, picture, arch, file>>
    BY <1>3 DEF Backup!Refuse, Backup!Finish, Backup!Die, Backup!store
  <2> QED BY <2>1, TripEnds
<1>4. CASE Backup!Open(p)
  <2>1. importer[p].pc = "open" /\ UNCHANGED <<receipt, picture, arch, file>>
    BY <1>4 DEF Backup!Open, Backup!store
  <2>2. CASE ~upload[importer[p].by]
    <3>1. Backup!Ended(p, "failed")
      BY <1>4, <2>2 DEF Backup!Open
    <3> QED BY <2>1, <3>1, TripEnds
  <2>3. CASE upload[importer[p].by]
    <3>1. PICK x : x = [importer[p] EXCEPT !.pc = "files", !.todo = Backup!Wanted(importer[p])]
      OBVIOUS
    <3>2. importer' = [importer EXCEPT ![p] = x]
      BY <1>4, <2>3, <3>1 DEF Backup!Open
    <3>3. x.pc = "files" /\ x.todo = Backup!Wanted(importer[p]) /\ TripInv(x)
      BY <1>1, <2>1, <3>1 DEF TripInv, TripFields
    <3>4. \A i : Owes(importer[p], i) => Owes(x, i)
      BY <2>1, <3>3 DEF Owes
    <3>5. arch.pc = "made"
      BY <1>1, <2>1 DEF TripInv
    <3> QED BY <1>1, <2>1, <3>2, <3>3, <3>4, <3>5, TripMoves
  <2> QED BY <2>2, <2>3
<1>5. ASSUME NEW i \in Photos, Backup!Skip(p, i) \/ Backup!Truncate(p, i) \/ Backup!Write(p, i)
      PROVE  ContentInv'
  <2>1. UNCHANGED <<receipt, picture, arch>> /\ DOMAIN file' = Photos
        /\ \A j \in Photos : (file[j] # "none" => file'[j] # "none") /\ (j = i => file'[j] # "none" \/ Backup!Truncate(p, i))
    BY <1>1, <1>5 DEF Backup!Skip, Backup!Truncate, Backup!Write, Backup!store
  <2>2. PICK x : x = IF Backup!Truncate(p, i) THEN [importer[p] EXCEPT !.pc = "write"]
                     ELSE [importer[p] EXCEPT !.pc = "files", !.todo = @ \ {i}]
    OBVIOUS
  <2>3. CASE Backup!Truncate(p, i)
    <3>1. importer' = [importer EXCEPT ![p] = x] /\ importer[p].pc = "files"
      BY <2>2, <2>3 DEF Backup!Truncate
    <3>2. TripInv(x) /\ \A j : Owes(importer[p], j) => Owes(x, j)
      BY <1>1, <2>2, <2>3, <3>1 DEF TripInv, TripFields, Owes
    <3>3. arch.pc = "made"
      BY <1>1, <3>1 DEF TripInv
    <3> QED BY <2>1, <3>1, <3>2, <3>3, TripMoves
  <2>4. CASE ~Backup!Truncate(p, i)
    <3>1. importer' = [importer EXCEPT ![p] = x] /\ importer[p].pc \in {"files", "write"}
      <4>1. PICK y : y = [importer[p] EXCEPT !.todo = @ \ {i}]
        OBVIOUS
      <4>2. Backup!Skip(p, i) => importer' = [importer EXCEPT ![p] = y] /\ importer[p].pc = "files"
        BY <4>1 DEF Backup!Skip
      <4>3. importer[p].pc = "files" => x = y
        BY <1>1, <2>2, <2>4, <4>1 DEF TripFields
      <4> QED BY <1>5, <2>2, <2>4, <4>2, <4>3 DEF Backup!Write
    <3>2. TripInv(x) /\ \A j : Owes(importer[p], j) => Owes(x, j) \/ j = i
      BY <1>1, <2>2, <2>4, <3>1 DEF TripInv, TripFields, Owes
    <3>3. arch.pc = "made"
      BY <1>1, <3>1 DEF TripInv
    <3> QED BY <2>1, <2>4, <3>1, <3>2, <3>3, TripMoves
  <2> QED BY <2>3, <2>4
<1> QED BY <1>2, <1>3, <1>4, <1>5

(* The receipts of the archive go to places of their own. *)
LEMMA Targets ==
  ASSUME Backup!ArchiveAssumption, NEW q, q.sel \subseteq Papers
  PROVE  /\ \A r \in q.sel : Backup!Target(q, r) \in Backup!Places(q) /\ Backup!Target(q, r) \in Backup!Rids
         /\ \A r \in q.sel, s \in Papers : Backup!Target(q, r) \in {s, Backup!Copy(s)} => s = r
         /\ \A r \in q.sel : Backup!Target(q, r) \in {r, Backup!Copy(r)} /\ Backup!Archived(Backup!Target(q, r)) = r
         /\ \A t \in Backup!Places(q) : \E r \in q.sel : t = Backup!Target(q, r)
<1>1. \A r, s : Backup!Copy(r) = Backup!Copy(s) => r = s
  <2> SUFFICES ASSUME NEW r, NEW s, Backup!Copy(r) = Backup!Copy(s) PROVE r = s
    OBVIOUS
  <2>1. Backup!Copy(r).copy = r /\ Backup!Copy(s).copy = s
    BY DEF Backup!Copy
  <2> QED BY <2>1
<1>2. \A r \in Papers : Backup!Copy(r) \notin Papers /\ r \in Backup!Rids /\ Backup!Copy(r) \in Backup!Rids
  BY DEF Backup!ArchiveAssumption, Backup!Rids
<1>3. \A r \in q.sel : Backup!Target(q, r) \in Backup!Places(q) /\ Backup!Target(q, r) \in {r, Backup!Copy(r)}
  BY DEF Backup!Places, Backup!Target
<1>4. \A r \in q.sel, s \in Papers : Backup!Target(q, r) \in {s, Backup!Copy(s)} => s = r
  BY <1>1, <1>2, <1>3
<1>5. \A r \in q.sel : Backup!Archived(Backup!Target(q, r)) = r
  <2> SUFFICES ASSUME NEW r \in q.sel PROVE Backup!Archived(Backup!Target(q, r)) = r
    OBVIOUS
  <2>1. PICK t : t = Backup!Target(q, r)
    OBVIOUS
  <2>2. t \in {r, Backup!Copy(r)} /\ \A s \in Papers : t \in {s, Backup!Copy(s)} => s = r
    BY <1>3, <1>4, <2>1
  <2>3. (CHOOSE s \in Papers : t \in {s, Backup!Copy(s)}) = r
    BY <2>2
  <2> QED BY <2>1, <2>3 DEF Backup!Archived
<1>6. \A t \in Backup!Places(q) : \E r \in q.sel : t = Backup!Target(q, r)
  BY DEF Backup!Places
<1> QED BY <1>2, <1>3, <1>4, <1>5, <1>6

(* The receipts an import leaves. *)
LEMMA ImportPapers ==
  ASSUME Backup!ArchiveAssumption, ContentInv, NEW q, q.sel \subseteq Papers,
         \A r \in Backup!External(q) : ~Backup!Exists(Backup!Copy(r))
  PROVE  /\ DOMAIN Backup!Receipts2(q) = Backup!Rids
         /\ \A t \in Backup!Rids \ Backup!Places(q) : Backup!Receipts2(q)[t] = receipt[t]
         /\ \A r \in q.sel : LET t == Backup!Target(q, r) IN
              /\ DOMAIN Backup!Receipts2(q)[t] = PaperFields /\ Backup!Receipts2(q)[t].owner = q.by
              /\ q.conflict = "overwrite" => Backup!Receipts2(q)[t] = Backup!Row(q.by, arch.ver[r], arch.items[r])
<1>1. DOMAIN Backup!Receipts2(q) = Backup!Rids
      /\ \A t \in Backup!Rids \ Backup!Places(q) : Backup!Receipts2(q)[t] = receipt[t]
  BY DEF Backup!Receipts1, Backup!Receipts2
<1>2. ASSUME NEW r \in q.sel, NEW t, t = Backup!Target(q, r)
      PROVE  /\ DOMAIN Backup!Receipts2(q)[t] = PaperFields /\ Backup!Receipts2(q)[t].owner = q.by
             /\ q.conflict = "overwrite" => Backup!Receipts2(q)[t] = Backup!Row(q.by, arch.ver[r], arch.items[r])
  <2>1. t \in Backup!Places(q) /\ t \in Backup!Rids /\ Backup!Archived(t) = r /\ r \in Papers
    BY <1>2, Targets
  <2>2. PICK y : y = Backup!Receipts1(q)[t]
    OBVIOUS
  <2>3. PICK z : z = Backup!Row(q.by, arch.ver[r], {})
    OBVIOUS
  <2>4. DOMAIN z = PaperFields /\ z.owner = q.by /\ z.ver = arch.ver[r] /\ z.items = {}
    BY <2>3 DEF Backup!Row, PaperFields
  <2>5. PICK w : w = [receipt[t] EXCEPT !.ver = arch.ver[r]]
    OBVIOUS
  <2>6. y = IF ~Backup!Exists(t) \/ q.conflict = "overwrite" THEN z ELSE IF q.conflict = "skip" THEN receipt[t] ELSE w
    BY <2>1, <2>2, <2>3, <2>5 DEF Backup!Receipts1, Backup!Version
  <2>7. Backup!Exists(t) => DOMAIN receipt[t] = PaperFields /\ receipt[t].owner = q.by
    BY <1>2, <2>1 DEF Backup!Target, Backup!External, ContentInv, PapersInv
  <2>8. DOMAIN y = PaperFields /\ y.owner = q.by /\ (q.conflict = "overwrite" => y = z)
    BY <2>4, <2>5, <2>6, <2>7 DEF PaperFields
  <2>9. PICK v : v = y.items \cup {x \in arch.items[r] : \A a \in y.items : x[1] # a[1]}
    OBVIOUS
  <2>10. Backup!Receipts2(q)[t] = [y EXCEPT !.items = v]
    <3>1. y # Backup!NoRow
      BY <2>8 DEF PaperFields, Backup!NoRow
    <3> QED BY <2>1, <2>2, <2>9, <3>1 DEF Backup!Receipts2
  <2>11. q.conflict = "overwrite" => v = arch.items[r]
    BY <2>4, <2>8, <2>9
  <2>12. q.conflict = "overwrite" => [y EXCEPT !.items = v] = Backup!Row(q.by, arch.ver[r], arch.items[r])
    <3> SUFFICES ASSUME q.conflict = "overwrite" PROVE [z EXCEPT !.items = v] = Backup!Row(q.by, arch.ver[r], v)
      BY <2>8, <2>11
    <3> QED BY <2>3 DEF Backup!Row
  <2> QED BY <2>8, <2>10, <2>12 DEF PaperFields
<1> QED BY <1>1, <1>2

(* The images an import that is not rolled back leaves: those it kept, and those *)
(* of the archive whose place was free.                                         *)
Kept(q, i)  == Backup!Attached(i) /\ ~(picture[i].rcp \in Backup!Places(q) /\ q.conflict = "overwrite")
Given(q, i) == \E c \in Backup!Tried(q) : c.id = i /\ Backup!Images2(q)[i] = Place(Backup!Target(q, c.rcp), c.ord)

LEMMA ImportPictures ==
  ASSUME ContentInv, arch.pc = "made", NEW q, ~Backup!Aborted(q)
  PROVE  /\ DOMAIN Backup!Images2(q) = Photos
         /\ \A i \in Photos : Kept(q, i) => Backup!Images2(q)[i] = picture[i]
         /\ \A i \in Photos : Backup!Images2(q)[i] # Backup!NoRow => Kept(q, i) \/ Given(q, i)
         /\ \A c \in Backup!Tried(q) : Given(q, c.id) /\ ~\E i \in Photos : Kept(q, i) /\ picture[i] = Place(Backup!Target(q, c.rcp), c.ord)
         /\ \A c \in Backup!Children(q) \ Backup!Tried(q) : \E i \in Photos : Kept(q, i) /\ picture[i] = Place(Backup!Target(q, c.rcp), c.ord)
<1>1. DOMAIN Backup!Images2(q) = Photos /\ DOMAIN Backup!Images1(q) = Photos
  BY DEF Backup!Images1, Backup!Images2
<1>2. \A i \in Photos : Backup!Images1(q)[i] = IF Kept(q, i) THEN picture[i] ELSE Backup!NoRow
  BY DEF Backup!Images1, Kept, Backup!Attached
<1>3. \A c \in Backup!Tried(q) : c \in arch.rows /\ c.id \in Photos /\ Backup!Images1(q)[c.id] = Backup!NoRow
  BY DEF Backup!Tried, Backup!Children, Backup!Aborted, Backup!Fails, ContentInv, ArchInv, RowsInv
<1>4. \A c \in Backup!Tried(q) : Given(q, c.id)
  <2> SUFFICES ASSUME NEW c \in Backup!Tried(q) PROVE Given(q, c.id)
    OBVIOUS
  <2>1. c \in arch.rows /\ c.id \in Photos
    BY <1>3
  <2>2. \A d \in Backup!Tried(q) : d.id = c.id => d = c
    BY <1>3, <2>1 DEF ContentInv, ArchInv, RowsInv
  <2>3. (CHOOSE d \in Backup!Tried(q) : d.id = c.id) = c
    BY <2>2
  <2>4. Backup!Images2(q)[c.id] = Place(Backup!Target(q, c.rcp), c.ord)
    BY <2>1, <2>3 DEF Backup!Images2, Place
  <2> QED BY <2>4 DEF Given
<1>5. \A i \in Photos : (~\E c \in Backup!Tried(q) : c.id = i) => Backup!Images2(q)[i] = Backup!Images1(q)[i]
  BY DEF Backup!Images2
<1>6. \A i \in Photos : Kept(q, i) => Backup!Images2(q)[i] = picture[i]
  BY <1>2, <1>3, <1>5 DEF Kept, Backup!Attached
<1>7. \A i \in Photos : Backup!Images2(q)[i] # Backup!NoRow => Kept(q, i) \/ Given(q, i)
  BY <1>2, <1>4, <1>5
<1>8. \A c \in Backup!Children(q) : c \in Backup!Tried(q) <=>
         ~\E i \in Photos : Kept(q, i) /\ picture[i] = Place(Backup!Target(q, c.rcp), c.ord)
  BY <1>2, Places DEF Backup!Tried, Place
<1> QED BY <1>1, <1>4, <1>6, <1>7, <1>8 DEF Backup!Tried

LEMMA ContentImport ==
  ASSUME Backup!ArchiveAssumption, ContentInv, NEW p \in Requests, Backup!Import(p)
  PROVE  ContentInv'
<1> DEFINE q == importer[p]
<1>1. /\ q.pc = "import" /\ UNCHANGED <<file, arch>> /\ arch.pc = "made" /\ q.sel \subseteq Papers
      /\ \A r \in Backup!External(q) : ~Backup!Exists(Backup!Copy(r))
      /\ DOMAIN importer = Requests /\ TripInv(q) /\ DOMAIN file = Photos
  <2>1. TripInv(q) /\ DOMAIN importer = Requests /\ DOMAIN file = Photos
    BY DEF ContentInv, TripsInv, PicturesInv
  <2>2. q.pc = "import" /\ UNCHANGED <<file, arch>> /\ \A r \in Backup!External(q) : ~Backup!Exists(Backup!Copy(r))
    BY DEF Backup!Import
  <2>3. arch.pc = "made" /\ q.sel \subseteq Papers
    BY <2>1, <2>2 DEF TripInv, ContentInv, ArchInv
  <2> QED BY <2>1, <2>2, <2>3
<1>2. PICK x : x = [q EXCEPT !.pc = "open", !.mapped = Backup!External(q), !.aborted = Backup!Aborted(q)]
  OBVIOUS
<1>3. importer' = [importer EXCEPT ![p] = x] /\ x.pc = "open" /\ x.sel = q.sel /\ TripInv(x)
  BY <1>1, <1>2 DEF Backup!Import, TripInv, TripFields
<1>4. CASE Backup!Aborted(q)
  <2>1. UNCHANGED <<receipt, picture>>
    BY <1>4 DEF Backup!Import
  <2>2. \A i : ~Owes(q, i)
    BY <1>1 DEF Owes
  <2> QED BY <1>1, <1>3, <2>1, <2>2, TripMoves
<1>5. CASE ~Backup!Aborted(q)
  <2>1. receipt' = Backup!Receipts2(q) /\ picture' = Backup!Images2(q)
    BY <1>5 DEF Backup!Import
  <2>2. PapersInv' /\ \A t \in Backup!Rids : Backup!Exists(t) \/ t \in Backup!Places(q) => Backup!Exists(t)'
    <3>1. ASSUME NEW t \in Backup!Rids, t \in Backup!Places(q) PROVE DOMAIN receipt'[t] = PaperFields
      BY <1>1, <2>1, <3>1, Targets, ImportPapers
    <3>2. ASSUME NEW t \in Backup!Rids, t \notin Backup!Places(q) PROVE receipt'[t] = receipt[t]
      BY <1>1, <2>1, <3>2, ImportPapers
    <3>3. DOMAIN receipt' = Backup!Rids
      BY <1>1, <2>1, ImportPapers
    <3>4. DOMAIN Backup!NoRow # PaperFields
      BY DEF Backup!NoRow, PaperFields
    <3> QED BY <3>1, <3>2, <3>3, <3>4 DEF PapersInv, ContentInv, Backup!Exists
  <2>3. /\ DOMAIN picture' = Photos
        /\ \A i \in Photos : Kept(q, i) => picture'[i] = picture[i]
        /\ \A i \in Photos : Backup!Attached(i)' => Kept(q, i) \/ Given(q, i)
        /\ \A c \in Backup!Tried(q) : Given(q, c.id) /\ ~\E i \in Photos : Kept(q, i) /\ picture[i] = Place(Backup!Target(q, c.rcp), c.ord)
        /\ \A c \in Backup!Children(q) \ Backup!Tried(q) : \E i \in Photos : Kept(q, i) /\ picture[i] = Place(Backup!Target(q, c.rcp), c.ord)
    BY <1>1, <1>5, <2>1, ImportPictures DEF Backup!Attached
  <2>4. ASSUME NEW c \in Backup!Tried(q)
        PROVE  /\ c \in arch.rows /\ c.rcp \in q.sel /\ c.ord \in {0, 1} /\ c.id \in Photos
               /\ picture'[c.id] = Place(Backup!Target(q, c.rcp), c.ord)
    <3>1. c \in arch.rows /\ c.rcp \in q.sel /\ c.ord \in {0, 1} /\ c.id \in Photos
      BY <1>1 DEF Backup!Tried, Backup!Children, ContentInv, ArchInv, RowsInv
    <3>2. PICK d \in Backup!Tried(q) : d.id = c.id /\ picture'[c.id] = Place(Backup!Target(q, d.rcp), d.ord)
      BY <2>1, <2>3 DEF Given
    <3>3. d = c
      BY <1>1, <3>1, <3>2 DEF Backup!Tried, Backup!Children, ContentInv, ArchInv, RowsInv
    <3> QED BY <3>1, <3>2, <3>3
  <2>5. ASSUME NEW i \in Photos, Backup!Attached(i)', ~Kept(q, i)
        PROVE  \E c \in Backup!Tried(q) : c.id = i
    BY <2>3, <2>5 DEF Given
  <2>6. \A i \in Photos : Kept(q, i) => Backup!Attached(i)
    BY DEF Kept
  <2>7. PicturesInv'
    <3>1. ASSUME NEW i \in Photos, Backup!Attached(i)'
          PROVE  \E r \in Backup!Rids, o \in {0, 1} : picture'[i] = Place(r, o) /\ Backup!Exists(r)'
      <4>1. CASE Kept(q, i)
        BY <2>2, <2>3, <2>6, <4>1 DEF ContentInv, PicturesInv
      <4>2. CASE ~Kept(q, i)
        BY <1>1, <2>2, <2>4, <2>5, <3>1, <4>2, Targets
      <4> QED BY <4>1, <4>2
    <3>2. ASSUME NEW i \in Photos, NEW j \in Photos, Backup!Attached(i)', picture'[i] = picture'[j]
          PROVE  i = j
      <4>1. Backup!Attached(j)'
        BY <3>2 DEF Backup!Attached
      <4>2. CASE Kept(q, i) /\ Kept(q, j)
        BY <2>3, <2>6, <3>2, <4>2 DEF ContentInv, PicturesInv
      <4>3. CASE Kept(q, i) /\ ~Kept(q, j)
        BY <2>3, <2>4, <2>5, <3>2, <4>1, <4>3
      <4>4. CASE ~Kept(q, i) /\ Kept(q, j)
        BY <2>3, <2>4, <2>5, <3>2, <4>1, <4>4
      <4>5. CASE ~Kept(q, i) /\ ~Kept(q, j)
        <5>1. PICK c \in Backup!Tried(q), d \in Backup!Tried(q) : c.id = i /\ d.id = j
          BY <2>5, <3>2, <4>1, <4>5
        <5>2. Place(Backup!Target(q, c.rcp), c.ord) = Place(Backup!Target(q, d.rcp), d.ord)
          BY <2>4, <3>2, <5>1
        <5>3. Backup!Target(q, c.rcp) = Backup!Target(q, d.rcp) /\ c.ord = d.ord
          BY <5>2, SamePlace
        <5>4. c.rcp \in q.sel /\ d.rcp \in q.sel /\ c \in arch.rows /\ d \in arch.rows
          BY <2>4
        <5>5. Backup!Target(q, d.rcp) \in {d.rcp, Backup!Copy(d.rcp)} /\ d.rcp \in Papers
          BY <1>1, <5>4, Targets
        <5>6. c.rcp = d.rcp
          BY <1>1, <5>3, <5>4, <5>5, Targets
        <5> QED BY <1>1, <5>1, <5>3, <5>4, <5>6 DEF ContentInv, ArchInv, RowsInv
      <4> QED BY <4>2, <4>3, <4>4, <4>5
    <3>3. ASSUME NEW i \in Photos, Backup!Attached(i)', picture'[i].ord = 1
          PROVE  \E j \in Photos : picture'[j] = Place(picture'[i].rcp, 0)
      <4>1. CASE Kept(q, i)
        <5>1. picture'[i] = picture[i] /\ Backup!Attached(i)
          BY <2>3, <2>6, <4>1
        <5>2. PICK j \in Photos : picture[j] = Place(picture[i].rcp, 0)
          BY <3>3, <5>1 DEF ContentInv, PicturesInv
        <5>3. Kept(q, j)
          BY <4>1, <5>2, Places DEF Kept, Backup!Attached
        <5> QED BY <2>3, <5>1, <5>2, <5>3
      <4>2. CASE ~Kept(q, i)
        <5>1. PICK c \in Backup!Tried(q) : c.id = i
          BY <2>5, <3>3, <4>2
        <5>2. c \in arch.rows /\ c.rcp \in q.sel /\ picture'[i].rcp = Backup!Target(q, c.rcp) /\ c.ord = 1
          BY <2>4, <3>3, <5>1, Places
        <5>3. PICK d \in arch.rows : d.rcp = c.rcp /\ d.ord = 0
          BY <1>1, <5>2 DEF ContentInv, ArchInv, RowsInv
        <5>4. d \in Backup!Children(q)
          BY <5>2, <5>3 DEF Backup!Children
        <5> QED BY <2>3, <2>4, <5>2, <5>3, <5>4
      <4> QED BY <4>1, <4>2
    <3> QED BY <1>1, <2>3, <3>1, <3>2, <3>3 DEF PicturesInv
  <2>8. FilesInv'
    <3> SUFFICES ASSUME NEW i \in Photos, Backup!Attached(i)', file[i] = "none"
                 PROVE  Restored(i)' /\ (i \in arch.files => \E o \in Requests : Owes(importer[o], i)')
      BY <1>1 DEF FilesInv
    <3>1. \A o \in Requests \ {p} : importer'[o] = importer[o]
      BY <1>3
    <3>2. importer'[p] = x
      BY <1>1, <1>3
    <3>3. CASE Kept(q, i)
      <4>1. picture'[i] = picture[i] /\ Backup!Attached(i)
        BY <2>3, <2>6, <3>3
      <4>2. Restored(i) /\ (i \in arch.files => \E o \in Requests : Owes(importer[o], i))
        BY <1>1, <4>1 DEF ContentInv, FilesInv
      <4>3. Restored(i)'
        BY <1>1, <4>1, <4>2 DEF Restored
      <4>4. ~Owes(q, i)
        BY <1>1 DEF Owes
      <4>5. \A o \in Requests : Owes(importer[o], i) => Owes(importer[o], i)'
        BY <1>1, <3>1, <4>4 DEF Owes, Backup!Wanted, Backup!Children
      <4> QED BY <4>2, <4>3, <4>5
    <3>4. CASE ~Kept(q, i)
      <4>1. PICK c \in Backup!Tried(q) : c.id = i
        BY <2>5, <3>4
      <4>2. c \in arch.rows /\ c.rcp \in q.sel /\ picture'[i] = Place(Backup!Target(q, c.rcp), c.ord)
        BY <2>4, <4>1
      <4>3. Restored(i)'
        <5>1. Backup!Target(q, c.rcp) \in {c.rcp, Backup!Copy(c.rcp)}
          BY <1>1, <4>2, Targets
        <5>2. picture'[i].rcp \in {c.rcp, Backup!Copy(c.rcp)} /\ picture'[i].ord = c.ord
          BY <4>2, <5>1, Places
        <5> QED BY <1>1, <4>1, <4>2, <5>2 DEF Restored
      <4>4. i \in arch.files => Owes(x, i)
        BY <1>3, <4>1, <4>2 DEF Owes, Backup!Wanted, Backup!Children
      <4>5. Owes(x, i) => Owes(importer[p], i)'
        BY <1>1, <3>2 DEF Owes, Backup!Wanted, Backup!Children
      <4> QED BY <4>3, <4>4, <4>5
    <3> QED BY <3>3, <3>4
  <2>9. ArchInv'
    <3>1. RowsInv' /\ PackInv'
      BY <1>1 DEF ContentInv, ArchInv, RowsInv, PackInv
    <3> QED BY <1>1, <3>1 DEF ContentInv, ArchInv
  <2>10. TripsInv'
    BY <1>1, <1>3 DEF ContentInv, TripsInv, TripInv
  <2> QED BY <2>2, <2>7, <2>8, <2>9, <2>10 DEF ContentInv
<1> QED BY <1>4, <1>5

LEMMA ContentNext ==
  Backup!ArchiveAssumption /\ ContentInv /\ [Backup!Next]_(Backup!vars) => ContentInv'
<1> SUFFICES ASSUME Backup!ArchiveAssumption, ContentInv, [Backup!Next]_(Backup!vars) PROVE ContentInv'
  OBVIOUS
<1>1. CASE Backup!ReadReceipts \/ Backup!ReadItems \/ Backup!ReadImages \/ Backup!Pack
  BY <1>1, ContentExport
<1>2. ASSUME NEW r \in Papers,
             Backup!Create(r) \/ Backup!Edit(r) \/ Backup!RemoveFirst(r) \/ Backup!Delete(r) \/ \E i \in Photos : Backup!Upload(i, r)
      PROVE  ContentInv'
  BY <1>2, PapersEdit, PapersRemoveFirst, PapersDelete, PapersUpload
<1>3. ASSUME NEW p \in Requests, Backup!Import(p) PROVE ContentInv'
  BY <1>3, ContentImport
<1>4. ASSUME NEW p \in Requests,
         \/ \E u, conflict, external, sel : Backup!Receive(p, u, conflict, external, sel)
         \/ Backup!Refuse(p) \/ Backup!Open(p) \/ Backup!Finish(p) \/ Backup!Die(p)
         \/ \E i \in Photos : Backup!Skip(p, i) \/ Backup!Truncate(p, i) \/ Backup!Write(p, i)
      PROVE  ContentInv'
  BY <1>4, ContentTrips
<1>5. CASE UNCHANGED Backup!vars
  <2>1. UNCHANGED <<receipt, picture, file, arch, importer>>
    BY <1>5 DEF Backup!vars, Backup!store
  <2>2. PapersInv' /\ PicturesInv' /\ FilesGo /\ FirstsGo /\ (FilesWithRows => FilesWithRows')
    BY <2>1 DEF ContentInv, PapersInv, PicturesInv, FilesGo, FirstsGo, FilesWithRows, Backup!Exists, Backup!Attached
  <2> QED BY <2>1, <2>2, ContentAfterDrift
<1> QED BY <1>1, <1>2, <1>3, <1>4, <1>5 DEF Backup!Next

(* What an export reads hangs together, whatever is done to the account while it *)
(* reads, for any receipts and images.                                          *)
THEOREM ArchivesAreWhole == ASSUME Backup!ArchiveAssumption PROVE Backup!Spec => []ArchiveWhole
<1>1. ContentInv => ArchiveWhole
  BY DEF ContentInv, ArchInv, RowsInv, ArchiveWhole, Backup!ArchiveWhole
<1> QED
  BY <1>1, ContentInit, ContentNext, PTL DEF Backup!Spec

(* Image rows hang on receipts, at places of their own, and an attached image     *)
(* without a file is one that the archive had no file of, once every import has  *)
(* completed; for any imports, any number of them and changes in between.        *)
THEOREM RowsAreReadable == ASSUME Backup!ArchiveAssumption PROVE Backup!Spec => []RowsReadable
<1>1. ASSUME ContentInv PROVE Backup!Hangs
  <2>1. ASSUME NEW i \in Photos, Backup!Attached(i)
        PROVE  Backup!Exists(picture[i].rcp) /\ picture[i].ord \in Backup!Orders
    BY <1>1, <2>1, Places DEF ContentInv, PicturesInv, Backup!Orders
  <2> QED BY <1>1, <2>1 DEF ContentInv, PicturesInv, Backup!Hangs
<1>2. ASSUME ContentInv, \A p \in Requests : importer[p].pc \in {"new", "completed"},
             NEW i \in Photos, Backup!Attached(i), file[i] = "none"
      PROVE  arch.pc = "made" /\ i \notin arch.files
  <2>1. arch.pc = "made"
    BY <1>2 DEF ContentInv, TripsInv
  <2>2. \A p \in Requests : ~Owes(importer[p], i)
    BY <1>2 DEF Owes
  <2> QED BY <1>2, <2>1, <2>2 DEF ContentInv, FilesInv
<1>3. ContentInv => RowsReadable
  BY <1>1, <1>2 DEF RowsReadable, Backup!RowsReadable
<1> QED
  BY <1>3, ContentInit, ContentNext, PTL DEF Backup!Spec

(* What the import x has brought, and nothing has changed since: its receipts,   *)
(* and in each place of theirs an image with a file, or one x is still to write. *)
Rest(x) == IF x.pc = "open" THEN Backup!Wanted(x) ELSE IF x.pc \in {"files", "write"} THEN x.todo ELSE {}
Back(x, r, c) == \E i \in Photos :
  picture[i] = Place(Backup!Under(x, r), c.ord) /\ (c.id \in arch.files => file[i] # "none" \/ i \in Rest(x))
Brought(x, r) ==
  /\ Backup!Exists(Backup!Under(x, r)) /\ receipt[Backup!Under(x, r)].owner = x.by
  /\ \A c \in arch.rows : c.rcp = r => Back(x, r, c)
  /\ x.conflict = "overwrite" => receipt[Backup!Under(x, r)] = Backup!Row(x.by, arch.ver[r], arch.items[r])
Through(x) == x.pc \in {"open", "files", "write", "completed"} /\ ~x.aborted

BroughtInv == \A p \in Requests \ dirty : Through(importer[p]) => \A r \in importer[p].sel : Brought(importer[p], r)

(* A file that the image in a place of the archive lacks is one x will write. *)
LEMMA LackingIsWanted ==
  ASSUME Backup!ArchiveAssumption, ContentInv, arch.pc = "made", NEW q, q.sel \subseteq Papers, NEW r \in q.sel,
         NEW c \in arch.rows, c.rcp = r, c.id \in arch.files,
         NEW i \in Photos, picture[i] = Place(Backup!Target(q, r), c.ord), file[i] = "none"
  PROVE  i \in Backup!Wanted(q)
<1>1. Backup!Attached(i)
  BY Places DEF Backup!Attached
<1>2. PICK d \in arch.rows : d.id = i /\ picture[i].rcp \in {d.rcp, Backup!Copy(d.rcp)} /\ (picture[i].ord = 1 => d.ord = 1)
  BY <1>1 DEF ContentInv, FilesInv, Restored
<1>3. d.rcp \in Papers /\ c.ord \in {0, 1} /\ d.ord \in {0, 1}
  BY DEF ContentInv, ArchInv, RowsInv
<1>4. d.rcp = r
  BY <1>2, <1>3, Targets, Places
<1>5. c.ord = 1 => d.ord = 1
  BY <1>2, Places
<1>6. d.id \in arch.files
  <2>1. CASE c.ord = d.ord
    <3>1. c = d
      BY <1>4, <2>1 DEF ContentInv, ArchInv, RowsInv
    <3> QED BY <3>1
  <2>2. CASE c.ord # d.ord
    <3>1. Second(c, d)
      BY <1>3, <1>4, <1>5, <2>2 DEF Second
    <3> QED BY <3>1 DEF ContentInv, ArchInv, PackInv
  <2> QED BY <2>1, <2>2
<1> QED BY <1>2, <1>4, <1>6 DEF Backup!Wanted, Backup!Children

LEMMA BroughtImport ==
  ASSUME Backup!ArchiveAssumption, ContentInv, NEW p \in Requests, Backup!Import(p)
  PROVE  BroughtInv'
<1> DEFINE q == importer[p]
<1>1. /\ q.pc = "import" /\ UNCHANGED <<file, arch>> /\ arch.pc = "made" /\ q.sel \subseteq Papers
      /\ \A r \in Backup!External(q) : ~Backup!Exists(Backup!Copy(r))
      /\ DOMAIN importer = Requests /\ TripInv(q) /\ Requests \ dirty' \subseteq {p}
  <2>1. TripInv(q) /\ DOMAIN importer = Requests
    BY DEF ContentInv, TripsInv
  <2>2. /\ q.pc = "import" /\ UNCHANGED <<file, arch>> /\ Requests \ dirty' \subseteq {p}
        /\ \A r \in Backup!External(q) : ~Backup!Exists(Backup!Copy(r))
    BY DEF Backup!Import
  <2>3. arch.pc = "made" /\ q.sel \subseteq Papers
    BY <2>1, <2>2 DEF TripInv, ContentInv, ArchInv
  <2> QED BY <2>1, <2>2, <2>3
<1>2. PICK x : x = [q EXCEPT !.pc = "open", !.mapped = Backup!External(q), !.aborted = Backup!Aborted(q)]
  OBVIOUS
<1>3. /\ importer'[p] = x /\ x.pc = "open" /\ x.sel = q.sel /\ x.by = q.by /\ x.conflict = q.conflict
      /\ x.mapped = Backup!External(q) /\ x.aborted = Backup!Aborted(q)
  BY <1>1, <1>2 DEF Backup!Import, TripInv, TripFields
<1> SUFFICES ASSUME ~Backup!Aborted(q), NEW r \in q.sel PROVE Brought(importer[p], r)'
  BY <1>1, <1>3 DEF BroughtInv, Through
<1>4. receipt' = Backup!Receipts2(q) /\ picture' = Backup!Images2(q)
  BY DEF Backup!Import
<1>5. PICK t : t = Backup!Target(q, r)
  OBVIOUS
<1>6. Backup!Under(x, r) = t /\ Backup!Wanted(x) = Backup!Wanted(q)
  BY <1>3, <1>5 DEF Backup!Under, Backup!Target, Backup!Wanted, Backup!Children
<1>7. /\ DOMAIN receipt'[t] = PaperFields /\ receipt'[t].owner = q.by
      /\ q.conflict = "overwrite" => receipt'[t] = Backup!Row(q.by, arch.ver[r], arch.items[r])
  BY <1>1, <1>4, <1>5, ImportPapers
<1>8. receipt'[t] # Backup!NoRow
  BY <1>7 DEF PaperFields, Backup!NoRow
<1>9. ASSUME NEW c \in arch.rows, c.rcp = r
      PROVE  \E i \in Photos : picture'[i] = Place(t, c.ord) /\ (c.id \in arch.files => file[i] # "none" \/ i \in Backup!Wanted(q))
  <2>1. c \in Backup!Children(q) /\ c.id \in Photos
    BY <1>1, <1>9 DEF Backup!Children, ContentInv, ArchInv, RowsInv
  <2>2. CASE c \in Backup!Tried(q)
    <3>1. PICK d \in Backup!Tried(q) : d.id = c.id /\ picture'[c.id] = Place(Backup!Target(q, d.rcp), d.ord)
      BY <1>1, <1>4, <2>2, ImportPictures DEF Given
    <3>2. d = c
      BY <1>1, <2>1, <3>1 DEF Backup!Tried, Backup!Children, ContentInv, ArchInv, RowsInv
    <3>3. c.id \in arch.files => c.id \in Backup!Wanted(q)
      BY <2>1 DEF Backup!Wanted
    <3> QED BY <1>5, <1>9, <2>1, <3>1, <3>2, <3>3
  <2>3. CASE c \notin Backup!Tried(q)
    <3>1. PICK i \in Photos : Kept(q, i) /\ picture[i] = Place(t, c.ord)
      BY <1>1, <1>5, <1>9, <2>1, <2>3, ImportPictures
    <3>2. picture'[i] = picture[i]
      BY <1>1, <1>4, <3>1, ImportPictures
    <3>3. c.id \in arch.files => file[i] # "none" \/ i \in Backup!Wanted(q)
      BY <1>1, <1>5, <1>9, <3>1, LackingIsWanted
    <3> QED BY <3>1, <3>2, <3>3
  <2> QED BY <2>2, <2>3
<1>10. Backup!Under(x, r)' = t /\ Rest(x)' = Backup!Wanted(q)
  BY <1>1, <1>3, <1>6 DEF Rest, Backup!Under, Backup!Wanted, Backup!Children
<1>11. ASSUME NEW c \in arch.rows, c.rcp = r PROVE Back(x, r, c)'
  BY <1>1, <1>9, <1>10, <1>11 DEF Back
<1>12. Brought(x, r)'
  BY <1>1, <1>3, <1>7, <1>8, <1>10, <1>11 DEF Brought, Backup!Exists
<1> QED BY <1>3, <1>12 DEF Brought, Back, Rest, Backup!Under, Backup!Wanted, Backup!Children, Backup!Exists

(* A step of another import, or one that touches no row of this import. *)
LEMMA BroughtStays ==
  ASSUME BroughtInv, ContentInv, UNCHANGED <<receipt, picture, arch>>, NEW p \in Requests, NEW x,
         importer' = [importer EXCEPT ![p] = x], dirty \subseteq dirty',
         \A i \in Photos : file[i] # "none" => file'[i] # "none",
         Through(x) => /\ Through(importer[p]) /\ x.sel = importer[p].sel /\ x.by = importer[p].by
                       /\ x.conflict = importer[p].conflict /\ x.mapped = importer[p].mapped
                       /\ \A i \in Rest(importer[p]) : i \in Photos => i \in Rest(x) \/ file'[i] # "none"
  PROVE  BroughtInv'
<1> SUFFICES ASSUME NEW o \in Requests \ dirty', Through(importer'[o]), NEW r \in importer'[o].sel
             PROVE  Brought(importer[o], r)'
  BY DEF BroughtInv, Through
<1>1. PICK y, z : y = importer[o] /\ z = importer'[o]
  OBVIOUS
<1>2. /\ Through(y) /\ z.sel = y.sel /\ z.by = y.by /\ z.conflict = y.conflict /\ z.mapped = y.mapped
      /\ \A i \in Rest(y) : i \in Photos => i \in Rest(z) \/ file'[i] # "none"
  <2>1. CASE o = p
    BY <1>1, <2>1 DEF ContentInv, TripsInv
  <2>2. CASE o # p
    <3>1. z = y
      BY <1>1, <2>2 DEF ContentInv, TripsInv
    <3> QED BY <1>1, <3>1
  <2> QED BY <2>1, <2>2
<1>3. Brought(y, r)
  BY <1>1, <1>2 DEF BroughtInv
<1>4. PICK t : t = Backup!Under(y, r)
  OBVIOUS
<1>5. Backup!Under(z, r)' = t /\ Rest(z)' = Rest(z)
  BY <1>2, <1>4 DEF Backup!Under, Rest, Backup!Wanted, Backup!Children
<1>6. ASSUME NEW c \in arch.rows, c.rcp = r PROVE Back(z, r, c)'
  <2>1. PICK i \in Photos : picture[i] = Place(t, c.ord) /\ (c.id \in arch.files => file[i] # "none" \/ i \in Rest(y))
    BY <1>3, <1>4, <1>6 DEF Brought, Back
  <2>2. c.id \in arch.files => file'[i] # "none" \/ i \in Rest(z)
    BY <1>2, <2>1
  <2> QED BY <1>5, <2>1, <2>2 DEF Back
<1>7. Brought(z, r)'
  BY <1>2, <1>3, <1>4, <1>5, <1>6 DEF Brought, Backup!Exists
<1> QED BY <1>1, <1>7 DEF Brought, Back, Rest, Backup!Under, Backup!Exists, Backup!Wanted, Backup!Children

LEMMA BroughtTrips ==
  ASSUME BroughtInv, ContentInv, NEW p \in Requests,
         \/ \E u, conflict, external, sel : Backup!Receive(p, u, conflict, external, sel)
         \/ Backup!Refuse(p) \/ Backup!Open(p) \/ Backup!Finish(p) \/ Backup!Die(p)
         \/ \E i \in Photos : Backup!Skip(p, i) \/ Backup!Truncate(p, i) \/ Backup!Write(p, i)
  PROVE  BroughtInv'
<1>1. DOMAIN importer = Requests /\ DOMAIN importer[p] = TripFields /\ DOMAIN file = Photos
  BY DEF ContentInv, TripsInv, TripInv, PicturesInv
<1>2. UNCHANGED <<receipt, picture, arch>> /\ dirty \subseteq dirty' /\ \A i \in Photos : file[i] # "none" => file'[i] # "none"
  BY <1>1 DEF Backup!Receive, Backup!Refuse, Backup!Open, Backup!Finish, Backup!Die, Backup!Skip, Backup!Truncate, Backup!Write,
     Backup!store, Backup!Others
<1>3. ASSUME NEW pc \in {"failed", "died"}, Backup!Ended(p, pc) PROVE BroughtInv'
  <2>1. PICK x : x = [Backup!NewReq EXCEPT !.pc = pc]
    OBVIOUS
  <2>2. importer' = [importer EXCEPT ![p] = x] /\ ~Through(x)
    BY <1>3, <2>1 DEF Backup!Ended, Backup!NewReq, Through
  <2> QED BY <1>2, <2>2, BroughtStays
<1>4. ASSUME NEW u, NEW conflict, NEW external, NEW sel, Backup!Receive(p, u, conflict, external, sel)
      PROVE  BroughtInv'
  <2>1. PICK x : x = [Backup!NewReq EXCEPT !.pc = "import", !.by = u, !.conflict = conflict, !.external = external, !.sel = sel]
    OBVIOUS
  <2>2. importer' = [importer EXCEPT ![p] = x]
    BY <1>4, <2>1 DEF Backup!Receive
  <2>3. ~Through(x)
    BY <2>1 DEF Backup!NewReq, Through
  <2> QED BY <1>2, <2>2, <2>3, BroughtStays
<1>5. CASE Backup!Refuse(p) \/ Backup!Die(p)
  BY <1>3, <1>5 DEF Backup!Refuse, Backup!Die
<1>6. CASE Backup!Finish(p)
  <2>1. PICK x : x = [importer[p] EXCEPT !.pc = "completed"]
    OBVIOUS
  <2>2. importer' = [importer EXCEPT ![p] = x] /\ importer[p].pc = "files" /\ importer[p].todo = {}
    BY <1>6, <2>1 DEF Backup!Finish, Backup!Ended
  <2>3. Through(x) => /\ Through(importer[p]) /\ x.sel = importer[p].sel /\ x.by = importer[p].by
                      /\ x.conflict = importer[p].conflict /\ x.mapped = importer[p].mapped
                      /\ Rest(importer[p]) = {}
    BY <1>1, <2>1, <2>2 DEF Through, Rest, TripFields
  <2> QED BY <1>2, <2>2, <2>3, BroughtStays
<1>7. CASE Backup!Open(p)
  <2>1. CASE ~upload[importer[p].by]
    BY <1>3, <1>7, <2>1 DEF Backup!Open
  <2>2. CASE upload[importer[p].by]
    <3>1. PICK x : x = [importer[p] EXCEPT !.pc = "files", !.todo = Backup!Wanted(importer[p])]
      OBVIOUS
    <3>2. importer' = [importer EXCEPT ![p] = x] /\ importer[p].pc = "open"
      BY <1>7, <2>2, <3>1 DEF Backup!Open
    <3>3. Through(x) => /\ Through(importer[p]) /\ x.sel = importer[p].sel /\ x.by = importer[p].by
                        /\ x.conflict = importer[p].conflict /\ x.mapped = importer[p].mapped
                        /\ Rest(importer[p]) = Rest(x)
      BY <1>1, <3>1, <3>2 DEF Through, Rest, TripFields
    <3> QED BY <1>2, <3>2, <3>3, BroughtStays
  <2> QED BY <2>1, <2>2
<1>8. ASSUME NEW i \in Photos, Backup!Truncate(p, i) PROVE BroughtInv'
  <2>1. PICK x : x = [importer[p] EXCEPT !.pc = "write"]
    OBVIOUS
  <2>2. importer' = [importer EXCEPT ![p] = x] /\ importer[p].pc = "files"
    BY <1>8, <2>1 DEF Backup!Truncate
  <2>3. Through(x) => /\ Through(importer[p]) /\ x.sel = importer[p].sel /\ x.by = importer[p].by
                      /\ x.conflict = importer[p].conflict /\ x.mapped = importer[p].mapped
                      /\ Rest(importer[p]) = Rest(x)
    BY <1>1, <2>1, <2>2 DEF Through, Rest, TripFields
  <2> QED BY <1>2, <2>2, <2>3, BroughtStays
<1>9. ASSUME NEW i \in Photos, Backup!Skip(p, i) \/ Backup!Write(p, i) PROVE BroughtInv'
  <2>1. PICK x : x = [importer[p] EXCEPT !.pc = "files", !.todo = @ \ {i}]
    OBVIOUS
  <2>2. PICK y : y = [importer[p] EXCEPT !.todo = @ \ {i}]
    OBVIOUS
  <2>3. importer[p].pc = "files" => x = y
    BY <1>1, <2>1, <2>2 DEF TripFields
  <2>4. importer' = [importer EXCEPT ![p] = x] /\ importer[p].pc \in {"files", "write"} /\ file'[i] # "none"
    <3>1. CASE Backup!Skip(p, i)
      BY <2>2, <2>3, <3>1 DEF Backup!Skip, Backup!store
    <3>2. CASE Backup!Write(p, i)
      BY <1>1, <2>1, <3>2 DEF Backup!Write
    <3> QED BY <1>9, <3>1, <3>2
  <2>5. Through(x) => /\ Through(importer[p]) /\ x.sel = importer[p].sel /\ x.by = importer[p].by
                      /\ x.conflict = importer[p].conflict /\ x.mapped = importer[p].mapped
                      /\ Rest(importer[p]) \ {i} = Rest(x)
    BY <1>1, <2>1, <2>4 DEF Through, Rest, TripFields
  <2> QED BY <1>2, <2>4, <2>5, BroughtStays
<1> QED BY <1>4, <1>5, <1>6, <1>7, <1>8, <1>9

LEMMA BroughtNext ==
  Backup!ArchiveAssumption /\ ContentInv /\ BroughtInv /\ [Backup!Next]_(Backup!vars) => BroughtInv'
<1> SUFFICES ASSUME Backup!ArchiveAssumption, ContentInv, BroughtInv, [Backup!Next]_(Backup!vars) PROVE BroughtInv'
  OBVIOUS
<1>1. CASE Backup!ReadReceipts \/ Backup!ReadItems \/ Backup!ReadImages \/ Backup!Pack
  <2>1. UNCHANGED importer /\ arch.pc # "made"
    BY <1>1 DEF Backup!ReadReceipts, Backup!ReadItems, Backup!ReadImages, Backup!Pack, Backup!ExportRest
  <2> QED BY <2>1 DEF ContentInv, TripsInv, TripInv, BroughtInv, Through
<1>2. ASSUME NEW r \in Papers,
             Backup!Create(r) \/ Backup!Edit(r) \/ Backup!RemoveFirst(r) \/ Backup!Delete(r) \/ \E i \in Photos : Backup!Upload(i, r)
      PROVE  BroughtInv'
  <2>1. dirty' = Requests
    BY <1>2 DEF Backup!Create, Backup!Edit, Backup!RemoveFirst, Backup!Delete, Backup!Upload, Backup!Drift
  <2> QED BY <2>1 DEF BroughtInv
<1>3. ASSUME NEW p \in Requests, Backup!Import(p) PROVE BroughtInv'
  BY <1>3, BroughtImport
<1>4. ASSUME NEW p \in Requests,
         \/ \E u, conflict, external, sel : Backup!Receive(p, u, conflict, external, sel)
         \/ Backup!Refuse(p) \/ Backup!Open(p) \/ Backup!Finish(p) \/ Backup!Die(p)
         \/ \E i \in Photos : Backup!Skip(p, i) \/ Backup!Truncate(p, i) \/ Backup!Write(p, i)
      PROVE  BroughtInv'
  BY <1>4, BroughtTrips
<1>5. CASE UNCHANGED Backup!vars
  BY <1>5 DEF Backup!vars, Backup!store, BroughtInv, Through, Brought, Back, Rest,
     Backup!Under, Backup!Exists, Backup!Wanted, Backup!Children
<1> QED BY <1>1, <1>2, <1>3, <1>4, <1>5 DEF Backup!Next

(* An import that says complete, and was not rolled back behind its back, has     *)
(* given every receipt back: it is in the account, in each of its places is an    *)
(* image, with a file when the archive had one, and after an overwrite it is as   *)
(* it was; for any archive, any account, options and selection, and whatever the  *)
(* other imports do.                                                             *)
THEOREM ImportsAreComplete == ASSUME Backup!ArchiveAssumption PROVE Backup!Spec => []CompleteImport
<1>1. Backup!Init => BroughtInv
  BY DEF Backup!Init, BroughtInv, Through, Backup!NewReq
<1>2. ASSUME BroughtInv PROVE CompleteImport
  <2> SUFFICES ASSUME NEW p \in Requests \ dirty, importer[p].pc = "completed", ~importer[p].aborted, NEW r \in importer[p].sel
               PROVE  LET t == Backup!Under(importer[p], r) IN
                      /\ Backup!Exists(t) /\ receipt[t].owner = importer[p].by
                      /\ \A c \in arch.rows : c.rcp = r =>
                           \E i \in Photos : picture[i] = [rcp |-> t, ord |-> c.ord] /\ (c.id \in arch.files => file[i] # "none")
                      /\ importer[p].conflict = "overwrite" => receipt[t] = Backup!Row(importer[p].by, arch.ver[r], arch.items[r])
    BY DEF CompleteImport, Backup!CompleteImport
  <2>1. Brought(importer[p], r)
    BY <1>2 DEF BroughtInv, Through
  <2>2. Rest(importer[p]) = {}
    BY DEF Rest
  <2> QED BY <2>1, <2>2 DEF Brought, Back, Place
<1> QED
  BY <1>1, <1>2, ContentInit, ContentNext, BroughtNext, PTL DEF Backup!Spec

-----------------------------------------------------------------------------
(* Archives. *)

Slots       == [pc : {"idle", "record", "keep", "keeping", "quota", "shrinking", "delete"}, todo : Seq(1..Len(size)), total : Int]
Active(x)   == x.pc \in {"keeping", "shrinking", "delete"}
Listing(x)  == {x.todo[k] : k \in 1..Len(x.todo)}
Behind(x)   == {x.todo[k] : k \in 2..Len(x.todo)}
Removing(b) == \E p \in Requests : Active(exporter[p]) /\ Head(exporter[p].todo) = b

(* Files have rows; what a request has unlinked stays so until it has dropped the *)
(* row, and unless one has died there are no other rows without a file.          *)
StockInv ==
  /\ size \in Seq(Nat) /\ rows \subseteq 1..Len(size) /\ files \subseteq rows
  /\ exporter \in [Requests -> Slots] /\ DOMAIN temp = Requests
  /\ \A p \in Requests : /\ temp[p] \in Nat
                         /\ Active(exporter[p]) => exporter[p].todo # <<>> /\ Head(exporter[p].todo) \notin files
  /\ faults \in Nat /\ (faults = 0 => \A b \in rows \ files : Removing(b))

LEMMA Numbers == \A S : Archive!Cardinality(S) = Cardinality(S)
BY DEF Archive!Cardinality, Cardinality

(* In a finite set with an order every rank is taken, once. *)
Sooner(before, b, c) == b \in before[c] /\ before[b] \subseteq before[c]
Ordered(S, before) ==
  /\ before \in [S -> SUBSET S]
  /\ \A b \in S : b \notin before[b]
  /\ \A b, c \in S : b # c => Sooner(before, b, c) \/ Sooner(before, c, b)
Ranking(S, before) ==
  /\ Cardinality(S) \in Nat
  /\ \A b \in S : Cardinality(before[b]) \in 0..(Cardinality(S) - 1)
  /\ \A b, c \in S : Cardinality(before[b]) = Cardinality(before[c]) => b = c
  /\ \A i \in 1..Cardinality(S) : \E b \in S : Cardinality(before[b]) = i - 1

LEMMA Ranks ==
  ASSUME NEW S, IsFiniteSet(S), NEW before, Ordered(S, before)
  PROVE  Ranking(S, before)
<1>1. Cardinality(S) \in Nat
  BY FS_CardinalityType
<1>2. ASSUME NEW b \in S PROVE IsFiniteSet(before[b]) /\ Cardinality(before[b]) \in 0..(Cardinality(S) - 1)
  <2>1. IsFiniteSet(S \ {b}) /\ Cardinality(S \ {b}) = Cardinality(S) - 1
    BY FS_RemoveElement
  <2>2. before[b] \in SUBSET (S \ {b})
    BY DEF Ordered
  <2>3. IsFiniteSet(before[b]) /\ Cardinality(before[b]) <= Cardinality(S) - 1
    BY <2>1, <2>2, FS_Subset
  <2> QED BY <1>1, <2>3, FS_CardinalityType
<1>3. ASSUME NEW b \in S, NEW c \in S, b \in before[c], before[b] \subseteq before[c]
      PROVE  Cardinality(before[b]) < Cardinality(before[c])
  <2>1. IsFiniteSet(before[c] \ {b}) /\ Cardinality(before[c] \ {b}) = Cardinality(before[c]) - 1
    BY <1>2, <1>3, FS_RemoveElement
  <2>4. b \notin before[b]
    BY DEF Ordered
  <2>2. before[b] \in SUBSET (before[c] \ {b})
    BY <1>3, <2>4
  <2>3. Cardinality(before[b]) <= Cardinality(before[c]) - 1
    BY <2>1, <2>2, FS_Subset
  <2> QED BY <1>2, <2>3
<1>4. \A b, c \in S : Cardinality(before[b]) = Cardinality(before[c]) => b = c
  <2> SUFFICES ASSUME NEW b \in S, NEW c \in S, b # c PROVE Cardinality(before[b]) # Cardinality(before[c])
    OBVIOUS
  <2>1. Sooner(before, b, c) \/ Sooner(before, c, b)
    BY DEF Ordered
  <2>2. Cardinality(before[b]) < Cardinality(before[c]) \/ Cardinality(before[c]) < Cardinality(before[b])
    BY <1>3, <2>1 DEF Sooner
  <2> QED BY <1>2, <2>2
<1>5. ASSUME NEW i \in 1..Cardinality(S) PROVE \E b \in S : Cardinality(before[b]) = i - 1
  <2>1. PICK f : f = [b \in S |-> Cardinality(before[b]) + 1]
    OBVIOUS
  <2>2. f \in Injection(S, 1..Cardinality(S))
    <3>1. f \in [S -> 1..Cardinality(S)]
      BY <1>1, <1>2, <2>1
    <3>2. \A b, c \in S : f[b] = f[c] => b = c
      BY <1>2, <1>4, <2>1
    <3> QED BY <3>1, <3>2 DEF Injection, IsInjective
  <2>3. IsFiniteSet(1..Cardinality(S)) /\ Cardinality(1..Cardinality(S)) = Cardinality(S)
    BY <1>1, FS_Interval
  <2>4. f \in Surjection(S, 1..Cardinality(S))
    BY <2>2, <2>3, FS_Injection
  <2>5. PICK b \in S : f[b] = i
    BY <2>4 DEF Surjection
  <2> QED BY <1>2, <2>1, <2>5
<1> QED BY <1>1, <1>2, <1>4, <1>5 DEF Ranking

(* What a list of the rows by age is: each row once. *)
ListOf(s, S) ==
  /\ Cardinality(S) \in Nat /\ s \in [1..Cardinality(S) -> S] /\ s \in Seq(S) /\ Len(s) = Cardinality(S)
  /\ \A b \in S : \E k \in 1..Cardinality(S) : s[k] = b

LEMMA AgeLists ==
  ASSUME NEW n \in Nat, NEW S \in SUBSET (1..n)
  PROVE  IsFiniteSet(S) /\ ListOf(Archive!Ascending(S), S) /\ ListOf(Archive!Descending(S), S)
<1>1. IsFiniteSet(S)
  <2>1. IsFiniteSet(1..n)
    BY FS_Interval
  <2> QED BY <2>1, FS_Subset
<1>2. ListOf(Archive!Ascending(S), S)
  <2>1. PICK before : before = [b \in S |-> {x \in S : x < b}]
    OBVIOUS
  <2>2. before \in [S -> SUBSET S] /\ \A b \in S : before[b] = {x \in S : x < b}
    BY <2>1
  <2>10. before \in [S -> SUBSET S]
    BY <2>2
  <2>3. \A b \in S : b \notin before[b]
    BY <2>2
  <2>4. ASSUME NEW b \in S, NEW c \in S, b < c PROVE b \in before[c] /\ before[b] \subseteq before[c]
    <3>1. \A x : (x \in before[b] <=> x \in S /\ x < b) /\ (x \in before[c] <=> x \in S /\ x < c)
      BY <2>2
    <3>2. b \in Int /\ c \in Int /\ \A x \in S : x \in Int
      OBVIOUS
    <3>3. \A x \in S : x < b => x < c
      BY <2>4, <3>2
    <3> QED BY <2>4, <3>1, <3>3
  <2>5. ASSUME NEW b \in S, NEW c \in S, b # c PROVE Sooner(before, b, c) \/ Sooner(before, c, b)
    <3>1. b < c \/ c < b
      BY <2>5
    <3> QED BY <2>4, <3>1 DEF Sooner
  <2>14. Ordered(S, before)
    BY <2>3, <2>5, <2>10 DEF Ordered
  <2>15. Ranking(S, before)
    BY <1>1, <2>14, Ranks
  <2>6. /\ Cardinality(S) \in Nat
        /\ \A b \in S : Cardinality(before[b]) \in 0..(Cardinality(S) - 1)
        /\ \A b, c \in S : Cardinality(before[b]) = Cardinality(before[c]) => b = c
        /\ \A i \in 1..Cardinality(S) : \E b \in S : Cardinality(before[b]) = i - 1
    BY <2>15 DEF Ranking
  <2>7. PICK s : s = Archive!Ascending(S)
    OBVIOUS
  <2>8. s = [i \in 1..Cardinality(S) |-> CHOOSE b \in S : Archive!Cardinality({x \in S : x < b}) = i - 1]
    BY <2>7, Numbers, Zenon DEF Archive!Ascending
  <2>9. ASSUME NEW i \in 1..Cardinality(S) PROVE s[i] \in S /\ Cardinality(before[s[i]]) = i - 1
    <3>1. \E b \in S : Archive!Cardinality({x \in S : x < b}) = i - 1
      BY <2>2, <2>6, Numbers
    <3>2. s[i] \in S /\ Archive!Cardinality({x \in S : x < s[i]}) = i - 1
      BY <2>8, <3>1
    <3>3. before[s[i]] = {x \in S : x < s[i]}
      BY <2>2, <3>2
    <3> QED BY <3>2, <3>3, Numbers
  <2>11. s \in [1..Cardinality(S) -> S]
    BY <2>8, <2>9
  <2>12. ASSUME NEW b \in S PROVE \E k \in 1..Cardinality(S) : s[k] = b
    <3>1. PICK k : k = Cardinality(before[b]) + 1
      OBVIOUS
    <3>2. k \in 1..Cardinality(S) /\ k - 1 = Cardinality(before[b])
      BY <2>6, <3>1
    <3>3. s[k] \in S /\ Cardinality(before[s[k]]) = Cardinality(before[b])
      BY <2>9, <3>2
    <3> QED BY <2>6, <3>2, <3>3
  <2>13. s \in Seq(S) /\ Len(s) = Cardinality(S)
    BY <2>6, <2>11
  <2> QED BY <2>6, <2>7, <2>11, <2>12, <2>13 DEF ListOf
<1>3. ListOf(Archive!Descending(S), S)
  <2>1. PICK before : before = [b \in S |-> {x \in S : x > b}]
    OBVIOUS
  <2>2. before \in [S -> SUBSET S] /\ \A b \in S : before[b] = {x \in S : x > b}
    BY <2>1
  <2>10. before \in [S -> SUBSET S]
    BY <2>2
  <2>3. \A b \in S : b \notin before[b]
    BY <2>2
  <2>4. ASSUME NEW b \in S, NEW c \in S, b > c PROVE b \in before[c] /\ before[b] \subseteq before[c]
    <3>1. \A x : (x \in before[b] <=> x \in S /\ x > b) /\ (x \in before[c] <=> x \in S /\ x > c)
      BY <2>2
    <3>2. b \in Int /\ c \in Int /\ \A x \in S : x \in Int
      OBVIOUS
    <3>3. \A x \in S : x > b => x > c
      BY <2>4, <3>2
    <3> QED BY <2>4, <3>1, <3>3
  <2>5. ASSUME NEW b \in S, NEW c \in S, b # c PROVE Sooner(before, b, c) \/ Sooner(before, c, b)
    <3>1. b > c \/ c > b
      BY <2>5
    <3> QED BY <2>4, <3>1 DEF Sooner
  <2>14. Ordered(S, before)
    BY <2>3, <2>5, <2>10 DEF Ordered
  <2>15. Ranking(S, before)
    BY <1>1, <2>14, Ranks
  <2>6. /\ Cardinality(S) \in Nat
        /\ \A b \in S : Cardinality(before[b]) \in 0..(Cardinality(S) - 1)
        /\ \A b, c \in S : Cardinality(before[b]) = Cardinality(before[c]) => b = c
        /\ \A i \in 1..Cardinality(S) : \E b \in S : Cardinality(before[b]) = i - 1
    BY <2>15 DEF Ranking
  <2>7. PICK s : s = Archive!Descending(S)
    OBVIOUS
  <2>8. s = [i \in 1..Cardinality(S) |-> CHOOSE b \in S : Archive!Cardinality({x \in S : x > b}) = i - 1]
    BY <2>7, Numbers, Zenon DEF Archive!Descending
  <2>9. ASSUME NEW i \in 1..Cardinality(S) PROVE s[i] \in S /\ Cardinality(before[s[i]]) = i - 1
    <3>1. \E b \in S : Archive!Cardinality({x \in S : x > b}) = i - 1
      BY <2>2, <2>6, Numbers
    <3>2. s[i] \in S /\ Archive!Cardinality({x \in S : x > s[i]}) = i - 1
      BY <2>8, <3>1
    <3>3. before[s[i]] = {x \in S : x > s[i]}
      BY <2>2, <3>2
    <3> QED BY <3>2, <3>3, Numbers
  <2>11. s \in [1..Cardinality(S) -> S]
    BY <2>8, <2>9
  <2>12. ASSUME NEW b \in S PROVE \E k \in 1..Cardinality(S) : s[k] = b
    <3>1. PICK k : k = Cardinality(before[b]) + 1
      OBVIOUS
    <3>2. k \in 1..Cardinality(S) /\ k - 1 = Cardinality(before[b])
      BY <2>6, <3>1
    <3>3. s[k] \in S /\ Cardinality(before[s[k]]) = Cardinality(before[b])
      BY <2>9, <3>2
    <3> QED BY <2>6, <3>2, <3>3
  <2>13. s \in Seq(S) /\ Len(s) = Cardinality(S)
    BY <2>6, <2>11
  <2> QED BY <2>6, <2>7, <2>11, <2>12, <2>13 DEF ListOf
<1> QED BY <1>1, <1>2, <1>3

(* A step of one request that takes files and rows away, and with it rows without *)
(* files only those whose file it had unlinked.                                 *)
LEMMA StockStep ==
  ASSUME StockInv, NEW p \in Requests, NEW x \in Slots, exporter' = [exporter EXCEPT ![p] = x],
         UNCHANGED size, DOMAIN temp' = Requests, \A o \in Requests : temp'[o] \in Nat,
         rows' \subseteq rows, files' \subseteq files, files' \subseteq rows',
         Active(x) => x.todo # <<>> /\ Head(x.todo) \notin files',
         faults' \in Nat,
         faults' = 0 => /\ faults = 0
                        /\ \A b \in rows' \ files' : \/ Active(x) /\ Head(x.todo) = b
                                                     \/ b \notin files /\ ~(Active(exporter[p]) /\ Head(exporter[p].todo) = b)
  PROVE  StockInv'
<1>1. exporter' \in [Requests -> Slots] /\ exporter'[p] = x /\ \A o \in Requests \ {p} : exporter'[o] = exporter[o]
  BY DEF StockInv
<1>2. \A o \in Requests : Active(exporter'[o]) => exporter'[o].todo # <<>> /\ Head(exporter'[o].todo) \notin files'
  BY <1>1 DEF StockInv
<1>3. ASSUME faults' = 0, NEW b \in rows' \ files' PROVE \E o \in Requests : Active(exporter'[o]) /\ Head(exporter'[o].todo) = b
  <2>1. CASE Active(x) /\ Head(x.todo) = b
    BY <1>1, <2>1
  <2>2. CASE b \notin files /\ ~(Active(exporter[p]) /\ Head(exporter[p].todo) = b)
    <3>1. PICK o \in Requests : Active(exporter[o]) /\ Head(exporter[o].todo) = b
      BY <1>3, <2>2 DEF StockInv, Removing
    <3>2. exporter'[o] = exporter[o]
      BY <1>1, <2>2, <3>1
    <3> QED BY <3>1, <3>2
  <2> QED BY <1>3, <2>1, <2>2
<1>4. Slots' = Slots
  BY DEF Slots
<1> QED BY <1>1, <1>2, <1>3, <1>4 DEF StockInv, Removing, Active

(* The retention loop goes on with todo, after the row of the one it had removed. *)
LEMMA StockKeep ==
  ASSUME StockInv, NEW p \in Requests, NEW todo \in Seq(1..Len(size)), Archive!Keep(p, todo),
         UNCHANGED <<size, temp, faults>>, rows' \subseteq rows, files \subseteq rows',
         Active(exporter[p]) => Head(exporter[p].todo) \notin rows'
  PROVE  StockInv'
<1>1. <<>> \in Seq(1..Len(size))
  OBVIOUS
<1>2. CASE todo = <<>>
  <2>1. PICK x : x = IF MaxBytes > 0 THEN Archive!At("quota", <<>>, 0) ELSE Archive!Idle
    OBVIOUS
  <2>2. exporter' = [exporter EXCEPT ![p] = x] /\ files' = files
    BY <1>2, <2>1 DEF Archive!Keep, Archive!To
  <2>3. x \in Slots /\ ~Active(x)
    BY <1>1, <2>1 DEF Archive!At, Archive!Idle, Slots, Active
  <2> QED BY <2>2, <2>3, StockStep DEF StockInv
<1>3. CASE todo # <<>>
  <2>1. PICK x : x = Archive!At("keeping", todo, 0)
    OBVIOUS
  <2>2. exporter' = [exporter EXCEPT ![p] = x] /\ files' = files \ {Head(todo)}
    BY <1>3, <2>1 DEF Archive!Keep, Archive!To, Archive!Unlink
  <2>3. x \in Slots /\ x.todo = todo /\ Active(x)
    BY <2>1 DEF Archive!At, Slots, Active
  <2> QED BY <1>3, <2>2, <2>3, StockStep DEF StockInv
<1> QED BY <1>2, <1>3

LEMMA StockShrink ==
  ASSUME StockInv, NEW p \in Requests, NEW todo \in Seq(1..Len(size)), NEW total \in Int, Archive!Shrink(p, todo, total),
         UNCHANGED <<size, temp, faults>>, rows' \subseteq rows, files \subseteq rows',
         Active(exporter[p]) => Head(exporter[p].todo) \notin rows'
  PROVE  StockInv'
<1>1. <<>> \in Seq(1..Len(size))
  OBVIOUS
<1>2. CASE total <= MaxBytes \/ todo = <<>>
  <2>1. PICK x : x = Archive!Idle
    OBVIOUS
  <2>2. exporter' = [exporter EXCEPT ![p] = x] /\ files' = files
    BY <1>2, <2>1 DEF Archive!Shrink, Archive!To
  <2>3. x \in Slots /\ ~Active(x)
    BY <1>1, <2>1 DEF Archive!At, Archive!Idle, Slots, Active
  <2> QED BY <2>2, <2>3, StockStep DEF StockInv
<1>3. CASE ~(total <= MaxBytes \/ todo = <<>>)
  <2>1. PICK n : n = total - (IF Head(todo) \in files THEN size[Head(todo)] ELSE 0)
    OBVIOUS
  <2>2. PICK x : x = Archive!At("shrinking", todo, n)
    OBVIOUS
  <2>3. exporter' = [exporter EXCEPT ![p] = x] /\ files' = files \ {Head(todo)}
    BY <1>3, <2>1, <2>2 DEF Archive!Shrink, Archive!To, Archive!Unlink
  <2>4. n \in Int
    <3>1. Head(todo) \in 1..Len(size)
      BY <1>3
    <3>2. size[Head(todo)] \in Nat
      BY <3>1 DEF StockInv
    <3> QED BY <2>1, <3>2
  <2>5. x \in Slots /\ x.todo = todo /\ Active(x)
    BY <2>2, <2>4 DEF Archive!At, Slots, Active
  <2> QED BY <1>3, <2>3, <2>5, StockStep DEF StockInv
<1> QED BY <1>2, <1>3

(* The bytes of archives, each the pairs of it and a number up to its size. *)
Block(S) == UNION {{b} \X (1..size[b]) : b \in S}

LEMMA BlockFinite ==
  ASSUME size \in Seq(Nat), NEW S \in SUBSET (1..Len(size))
  PROVE  IsFiniteSet(Block(S)) /\ Archive!Bytes(S) = Cardinality(Block(S)) /\ Archive!Bytes(S) \in Nat
<1>1. IsFiniteSet(S)
  <2>1. IsFiniteSet(1..Len(size))
    BY FS_Interval
  <2> QED BY <2>1, FS_Subset
<1>2. PICK f : f = [b \in S |-> {b} \X (1..size[b])]
  OBVIOUS
<1>3. PICK T : T = {{b} \X (1..size[b]) : b \in S}
  OBVIOUS
<1>4. f \in Surjection(S, T)
  BY <1>2, <1>3 DEF Surjection
<1>5. IsFiniteSet(T)
  BY <1>1, <1>4, FS_Surjection
<1>6. ASSUME NEW b \in S PROVE IsFiniteSet({b} \X (1..size[b]))
  <2>1. PICK n \in Nat : n = size[b]
    OBVIOUS
  <2>2. IsFiniteSet({b})
    BY FS_Singleton
  <2>3. IsFiniteSet(1..n)
    BY FS_Interval
  <2> QED BY <2>1, <2>2, <2>3, FS_Product
<1>7. IsFiniteSet(UNION T)
  BY <1>3, <1>5, <1>6, FS_UNION
<1>8. IsFiniteSet(Block(S)) /\ Archive!Bytes(S) = Cardinality(Block(S))
  BY <1>3, <1>7, Numbers DEF Block, Archive!Bytes
<1> QED BY <1>8, FS_CardinalityType

LEMMA BytesType == ASSUME StockInv PROVE Archive!Bytes(rows \cap files) \in Nat
BY BlockFinite DEF StockInv

(* Fewer archives are no more bytes, and one archive less is its size less. *)
LEMMA BytesLess ==
  ASSUME size \in Seq(Nat), NEW S \in SUBSET (1..Len(size))
  PROVE  /\ \A T \in SUBSET S : Archive!Bytes(T) <= Archive!Bytes(S)
         /\ \A b \in S : Archive!Bytes(S \ {b}) = Archive!Bytes(S) - size[b]
         /\ Archive!Bytes({}) = 0
<1>1. ASSUME NEW T \in SUBSET S PROVE Archive!Bytes(T) <= Archive!Bytes(S)
  <2>1. Block(T) \in SUBSET Block(S)
    BY DEF Block
  <2>2. Cardinality(Block(T)) <= Cardinality(Block(S))
    BY <2>1, BlockFinite, FS_Subset
  <2> QED BY <2>2, BlockFinite
<1>2. ASSUME NEW b \in S PROVE Archive!Bytes(S \ {b}) = Archive!Bytes(S) - size[b]
  <2>1. PICK B, C : B = {b} \X (1..size[b]) /\ C = Block(S \ {b})
    OBVIOUS
  <2>2. B \cup C = Block(S) /\ B \cap C = {}
    BY <2>1 DEF Block
  <2>3. IsFiniteSet(B) /\ Cardinality(B) = size[b]
    <3>1. PICK n \in Nat : n = size[b]
      OBVIOUS
    <3>2. IsFiniteSet({b}) /\ Cardinality({b}) = 1
      BY FS_Singleton
    <3>3. IsFiniteSet(1..n) /\ Cardinality(1..n) = n
      BY FS_Interval
    <3>4. IsFiniteSet({b} \X (1..n)) /\ Cardinality({b} \X (1..n)) = Cardinality({b}) * Cardinality(1..n)
      BY <3>2, <3>3, FS_Product
    <3>5. Cardinality({b} \X (1..n)) = n
      BY <3>2, <3>3, <3>4
    <3> QED BY <2>1, <3>1, <3>4, <3>5
  <2>4. IsFiniteSet(C) /\ Archive!Bytes(S \ {b}) = Cardinality(C) /\ Archive!Bytes(S \ {b}) \in Nat
    BY <2>1, BlockFinite
  <2>5. Archive!Bytes(S) = Cardinality(B \cup C)
    BY <2>2, BlockFinite
  <2>6. Cardinality(B \cap C) = 0
    BY <2>2, FS_EmptySet
  <2>7. Cardinality(B \cup C) = Cardinality(B) + Cardinality(C) - Cardinality(B \cap C)
    BY <2>3, <2>4, FS_Union
  <2>8. size[b] \in Nat
    OBVIOUS
  <2> QED BY <2>3, <2>4, <2>5, <2>6, <2>7, <2>8
<1>3. Archive!Bytes({}) = 0
  <2>1. Block({}) = {}
    BY DEF Block
  <2>2. {} \in SUBSET (1..Len(size))
    OBVIOUS
  <2> QED BY <2>1, <2>2, BlockFinite, FS_EmptySet
<1> QED BY <1>1, <1>2, <1>3
LEMMA StockInit == Archive!LimitsAssumption /\ Archive!Init => StockInv
BY DEF Archive!LimitsAssumption, Archive!Init, StockInv, Slots, Active, Archive!Idle

(* The request p goes on to x, and takes no file. *)
LEMMA StockTurn ==
  ASSUME StockInv, NEW p \in Requests, NEW x \in Slots, exporter' = [exporter EXCEPT ![p] = x], ~Active(x),
         UNCHANGED <<size, files>>, DOMAIN temp' = Requests, \A o \in Requests : temp'[o] \in Nat,
         rows' \subseteq rows, files \subseteq rows', faults' \in Nat,
         faults' = 0 => faults = 0 /\ (Active(exporter[p]) => Head(exporter[p].todo) \notin rows')
  PROVE  StockInv'
BY StockStep DEF StockInv

LEMMA StockRecord ==
  ASSUME StockInv, NEW p \in Requests, Archive!Record(p)
  PROVE  StockInv'
<1>1. PICK n : n = Len(size) + 1
  OBVIOUS
<1>2. PICK x : x = Archive!At("keep", <<>>, 0)
  OBVIOUS
<1>3. /\ exporter[p].pc = "record" /\ rows' = rows \cup {n} /\ files' = files \cup {n} /\ size' = Append(size, temp[p])
      /\ temp' = [temp EXCEPT ![p] = 0] /\ exporter' = [exporter EXCEPT ![p] = x] /\ UNCHANGED faults
  BY <1>1, <1>2 DEF Archive!Record, Archive!To
<1>4. size' \in Seq(Nat) /\ Len(size') = n /\ Len(size) \in Nat
  BY <1>1, <1>3 DEF StockInv
<1>5. Slots \subseteq Slots' /\ x \in Slots' /\ ~Active(x)
  <2>1. Seq(1..Len(size)) \subseteq Seq(1..Len(size'))
    BY <1>1, <1>4, SeqMonotonic
  <2> QED BY <1>2, <2>1 DEF Slots, Archive!At, Active
<1>6. exporter' \in [Requests -> Slots'] /\ exporter'[p] = x /\ \A o \in Requests \ {p} : exporter'[o] = exporter[o]
  BY <1>3, <1>5 DEF StockInv
<1>7. rows' \subseteq 1..Len(size') /\ files' \subseteq rows'
  <2>1. rows \subseteq 1..Len(size) /\ files \subseteq rows
    BY DEF StockInv
  <2>2. 1..Len(size) \subseteq 1..n /\ n \in 1..n
    BY <1>1, <1>4
  <2> QED BY <1>3, <1>4, <2>1, <2>2
<1>8. \A o \in Requests : /\ temp'[o] \in Nat
                          /\ Active(exporter'[o]) => exporter'[o].todo # <<>> /\ Head(exporter'[o].todo) \notin files'
  <2>1. \A o \in Requests : temp'[o] \in Nat
    BY <1>3 DEF StockInv
  <2>2. ASSUME NEW o \in Requests, Active(exporter'[o])
        PROVE  exporter'[o].todo # <<>> /\ Head(exporter'[o].todo) \notin files'
    <3>1. exporter'[o] = exporter[o] /\ exporter[o].todo # <<>> /\ Head(exporter[o].todo) \notin files
      BY <1>5, <1>6, <2>2 DEF StockInv
    <3>2. Head(exporter[o].todo) \in 1..Len(size)
      BY <3>1 DEF StockInv, Slots
    <3> QED BY <1>1, <1>3, <1>4, <3>1, <3>2
  <2> QED BY <2>1, <2>2
<1>9. ASSUME faults' = 0, NEW b \in rows' \ files' PROVE \E o \in Requests : Active(exporter'[o]) /\ Head(exporter'[o].todo) = b
  <2>1. PICK o \in Requests : Active(exporter[o]) /\ Head(exporter[o].todo) = b
    BY <1>3, <1>9 DEF StockInv, Removing
  <2>2. o # p
    BY <1>3, <2>1 DEF Active
  <2> QED BY <1>6, <2>1, <2>2
<1> QED BY <1>3, <1>4, <1>6, <1>7, <1>8, <1>9 DEF StockInv, Removing, Active

LEMMA StockNext == Archive!LimitsAssumption /\ StockInv /\ [Archive!Next]_(Archive!vars) => StockInv'
<1> SUFFICES ASSUME Archive!LimitsAssumption, StockInv, [Archive!Next]_(Archive!vars) PROVE StockInv'
  OBVIOUS
<1>1. <<>> \in Seq(1..Len(size)) /\ Len(size) \in Nat
  BY DEF StockInv
<1>2. ASSUME NEW p \in Requests, NEW n \in Sizes, Archive!Export(p, n) PROVE StockInv'
  <2>1. PICK x : x = Archive!At("record", <<>>, 0)
    OBVIOUS
  <2>2. /\ exporter' = [exporter EXCEPT ![p] = x] /\ temp' = [temp EXCEPT ![p] = n] /\ n \in Nat
        /\ exporter[p].pc = "idle" /\ UNCHANGED <<rows, files, size, faults>>
    BY <1>2, <2>1 DEF Archive!Export, Archive!To, Archive!MayStart, Archive!LimitsAssumption
  <2>3. x \in Slots /\ ~Active(x) /\ ~Active(exporter[p])
    BY <1>1, <2>1, <2>2 DEF Archive!At, Slots, Active
  <2>4. DOMAIN temp' = Requests /\ \A o \in Requests : temp'[o] \in Nat
    BY <2>2 DEF StockInv
  <2> QED BY <2>2, <2>3, <2>4, StockTurn DEF StockInv
<1>3. ASSUME NEW p \in Requests, Archive!Record(p) PROVE StockInv'
  BY <1>3, StockRecord
<1>4. ASSUME NEW p \in Requests, Archive!Retain(p) PROVE StockInv'
  <2>1. PICK s : s = Archive!Descending(rows)
    OBVIOUS
  <2>2. PICK todo : todo = IF MaxCount = 0 THEN <<>> ELSE SubSeq(s, MaxCount + 1, Cardinality(rows))
    OBVIOUS
  <2>3. Archive!Keep(p, todo) /\ exporter[p].pc = "keep" /\ UNCHANGED <<rows, size, temp, faults>>
    BY <1>4, <2>1, <2>2, Numbers DEF Archive!Retain
  <2>4. s \in Seq(rows) /\ Len(s) = Cardinality(rows) /\ Cardinality(rows) \in Nat /\ rows \subseteq 1..Len(size)
    BY <1>1, <2>1, AgeLists DEF StockInv, ListOf
  <2>5. todo \in Seq(1..Len(size))
    <3>0. MaxCount \in Nat
      BY DEF Archive!LimitsAssumption
    <3>1. PICK m, n : m = MaxCount + 1 /\ n = Cardinality(rows)
      OBVIOUS
    <3>2. \A i \in m..n : i \in 1..Len(s)
      BY <2>4, <3>0, <3>1
    <3>3. \A i \in m..n : s[i] \in 1..Len(size)
      BY <2>4, <3>2, ElementOfSeq
    <3>4. SubSeq(s, m, n) \in Seq(1..Len(size))
      <4>1. m \in Int /\ n \in Int
        BY <2>4, <3>0, <3>1
      <4> QED BY <3>3, <4>1, SubSeqProperties
    <3> QED BY <1>1, <2>2, <3>1, <3>4
  <2>6. ~Active(exporter[p])
    BY <2>3 DEF Active
  <2> QED BY <2>3, <2>5, <2>6, StockKeep DEF StockInv
<1>5. ASSUME NEW p \in Requests, Archive!RetainRow(p) \/ Archive!FitRow(p) PROVE StockInv'
  <2>1. /\ Active(exporter[p]) /\ rows' = rows \ {Head(exporter[p].todo)} /\ UNCHANGED <<size, temp, faults>>
        /\ exporter[p] \in Slots
    BY <1>5 DEF Archive!RetainRow, Archive!FitRow, Archive!DropRow, Active, StockInv
  <2>2. exporter[p].todo \in Seq(1..Len(size)) /\ exporter[p].todo # <<>> /\ files \subseteq rows' /\ exporter[p].total \in Int
    BY <2>1 DEF StockInv, Slots
  <2>3. PICK todo \in Seq(1..Len(size)) : todo = Tail(exporter[p].todo)
    BY <2>2, HeadTailProperties
  <2>4. Archive!Keep(p, todo) \/ Archive!Shrink(p, todo, exporter[p].total)
    BY <1>5, <2>3 DEF Archive!RetainRow, Archive!FitRow
  <2> QED BY <2>1, <2>2, <2>4, StockKeep, StockShrink
<1>6. ASSUME NEW p \in Requests, Archive!Fit(p) PROVE StockInv'
  <2>1. PICK s, n : s = Archive!Ascending(rows) /\ n = Archive!Bytes(rows \cap files)
    OBVIOUS
  <2>2. Archive!Shrink(p, s, n) /\ exporter[p].pc = "quota" /\ UNCHANGED <<rows, size, temp, faults>>
    BY <1>6, <2>1 DEF Archive!Fit
  <2>3. s \in Seq(1..Len(size))
    <3>1. s \in Seq(rows) /\ rows \subseteq 1..Len(size)
      BY <1>1, <2>1, AgeLists DEF StockInv, ListOf
    <3> QED BY <3>1, SeqMonotonic
  <2>4. n \in Int
    BY <2>1, BytesType DEF StockInv
  <2>5. ~Active(exporter[p])
    BY <2>2 DEF Active
  <2> QED BY <2>2, <2>3, <2>4, <2>5, StockShrink DEF StockInv
<1>7. ASSUME NEW p \in Requests, NEW b \in rows, Archive!AskDelete(p, b) PROVE StockInv'
  <2>1. PICK x : x = Archive!At("delete", <<b>>, 0)
    OBVIOUS
  <2>2. /\ exporter' = [exporter EXCEPT ![p] = x] /\ files' = files \ {b} /\ exporter[p].pc = "idle"
        /\ UNCHANGED <<rows, size, temp, faults>>
    BY <1>7, <2>1 DEF Archive!AskDelete, Archive!To, Archive!Unlink, Archive!MayStart
  <2>3. <<b>> \in Seq(1..Len(size)) /\ <<b>> # <<>> /\ Head(<<b>>) = b
    BY DEF StockInv
  <2>4. x \in Slots /\ Active(x) /\ x.todo = <<b>> /\ ~Active(exporter[p])
    BY <2>1, <2>2, <2>3 DEF Archive!At, Slots, Active
  <2> QED BY <2>2, <2>3, <2>4, StockStep DEF StockInv
<1>8. ASSUME NEW p \in Requests, Archive!DeleteRow(p) PROVE StockInv'
  <2>1. PICK x : x = Archive!Idle
    OBVIOUS
  <2>2. /\ exporter' = [exporter EXCEPT ![p] = x] /\ rows' = rows \ {Head(exporter[p].todo)} /\ Active(exporter[p])
        /\ UNCHANGED <<files, size, temp, faults>>
    BY <1>8, <2>1 DEF Archive!DeleteRow, Archive!To, Archive!DropRow, Active
  <2>3. x \in Slots /\ ~Active(x)
    BY <1>1, <2>1 DEF Archive!Idle, Slots, Active
  <2> QED BY <2>2, <2>3, StockTurn DEF StockInv
<1>9. ASSUME NEW p \in Requests, Archive!Die(p) PROVE StockInv'
  <2>1. PICK x : x = Archive!Idle
    OBVIOUS
  <2>2. /\ exporter' = [exporter EXCEPT ![p] = x] /\ temp' = [temp EXCEPT ![p] = 0] /\ faults' = faults + 1
        /\ UNCHANGED <<rows, files, size>>
    BY <1>9, <2>1 DEF Archive!Die, Archive!To
  <2>3. x \in Slots /\ ~Active(x)
    BY <1>1, <2>1 DEF Archive!Idle, Slots, Active
  <2>4. DOMAIN temp' = Requests /\ (\A o \in Requests : temp'[o] \in Nat) /\ faults' \in Nat /\ faults' # 0
    BY <2>2 DEF StockInv
  <2> QED BY <2>2, <2>3, <2>4, StockTurn DEF StockInv
<1>10. CASE UNCHANGED Archive!vars
  BY <1>10 DEF Archive!vars, StockInv, Removing, Active, Slots
<1> QED BY <1>2, <1>3, <1>4, <1>5, <1>6, <1>7, <1>8, <1>9, <1>10 DEF Archive!Next, Archive!Step

(* The archives of an account and their rows agree when its requests are over, for *)
(* any limits, sizes and number of requests: what two of them remove at once is    *)
(* gone from both places.                                                         *)
THEOREM RowsAndFilesAgree == ASSUME Archive!LimitsAssumption PROVE Archive!Spec => []RowsHaveFiles
<1>1. StockInv => RowsHaveFiles
  BY DEF StockInv, Removing, Active, RowsHaveFiles, Archive!RowsHaveFiles, Archive!Quiet
<1> QED
  BY <1>1, StockInit, StockNext, PTL DEF Archive!Spec

(* When nobody is about to look at the count, no more rows are left than the      *)
(* limit, but for those a request has on its list to remove.                      *)
Planned  == UNION {Listing(exporter[p]) : p \in {o \in Requests : exporter[o].pc = "keeping"}}
CountInv == MaxCount > 0 /\ faults = 0 /\ (\A p \in Requests : exporter[p].pc # "keep") => Cardinality(rows \ Planned) <= MaxCount

LEMMA CountStep ==
  ASSUME MaxCount \in Nat, StockInv, CountInv, NEW p \in Requests, exporter[p].pc # "keep", faults' = 0 => faults = 0, rows' \subseteq rows,
         NEW x, exporter' = [exporter EXCEPT ![p] = x], x.pc # "keep",
         exporter[p].pc = "keeping" => \A b \in rows' : b \in Listing(exporter[p]) => x.pc = "keeping" /\ b \in Listing(x)
  PROVE  CountInv'
<1> SUFFICES ASSUME MaxCount > 0, faults' = 0, \A o \in Requests : exporter'[o].pc # "keep"
             PROVE  Cardinality(rows' \ Planned') <= MaxCount
  BY DEF CountInv
<1>1. exporter'[p] = x /\ \A o \in Requests \ {p} : exporter'[o] = exporter[o]
  BY DEF StockInv
<1>2. Cardinality(rows \ Planned) <= MaxCount
  BY <1>1 DEF CountInv
<1>3. rows' \ Planned' \in SUBSET (rows \ Planned)
  <2> SUFFICES ASSUME NEW b \in rows', NEW o \in Requests, exporter[o].pc = "keeping", b \in Listing(exporter[o])
               PROVE  \E q \in Requests : exporter'[q].pc = "keeping" /\ b \in Listing(exporter'[q])
    BY DEF Planned, Listing
  <2>1. CASE o = p
    BY <1>1, <2>1
  <2>2. CASE o # p
    <3>1. exporter'[o] = exporter[o]
      BY <1>1, <2>2
    <3> QED BY <3>1
  <2> QED BY <2>1, <2>2
<1>4. IsFiniteSet(rows \ Planned)
  <2>1. Len(size) \in Nat /\ rows \in SUBSET (1..Len(size))
    BY DEF StockInv
  <2>2. IsFiniteSet(rows)
    BY <2>1, AgeLists
  <2> QED BY <2>2, FS_Difference
<1>5. Cardinality(rows' \ Planned') <= Cardinality(rows \ Planned) /\ Cardinality(rows \ Planned) \in Nat /\ Cardinality(rows' \ Planned') \in Nat
  BY <1>3, <1>4, FS_Subset, FS_CardinalityType
<1> QED BY <1>2, <1>5

LEMMA CountNext == Archive!LimitsAssumption /\ StockInv /\ CountInv /\ [Archive!Next]_(Archive!vars) => CountInv'
<1> SUFFICES ASSUME Archive!LimitsAssumption, StockInv, CountInv, [Archive!Next]_(Archive!vars) PROVE CountInv'
  OBVIOUS
<1>1. MaxCount \in Nat /\ Len(size) \in Nat /\ rows \in SUBSET (1..Len(size)) /\ DOMAIN exporter = Requests
  BY DEF Archive!LimitsAssumption, StockInv
<1>2. ASSUME NEW p \in Requests, NEW n, Archive!Export(p, n) PROVE CountInv'
  <2>1. PICK x : x = Archive!At("record", <<>>, 0)
    OBVIOUS
  <2>2. exporter' = [exporter EXCEPT ![p] = x] /\ exporter[p].pc = "idle" /\ UNCHANGED <<rows, faults>> /\ x.pc = "record"
    BY <1>2, <2>1 DEF Archive!Export, Archive!To, Archive!MayStart, Archive!At
  <2> QED BY <1>1, <2>2, CountStep
<1>3. ASSUME NEW p \in Requests, Archive!Record(p) PROVE CountInv'
  <2>1. PICK x : x = Archive!At("keep", <<>>, 0)
    OBVIOUS
  <2>2. exporter' = [exporter EXCEPT ![p] = x] /\ x.pc = "keep"
    BY <1>3, <2>1 DEF Archive!Record, Archive!To, Archive!At
  <2>3. exporter'[p].pc = "keep"
    BY <1>1, <2>2
  <2> QED BY <2>3 DEF CountInv
<1>4. ASSUME NEW p \in Requests, Archive!Retain(p) PROVE CountInv'
  <2> SUFFICES ASSUME MaxCount > 0 PROVE Cardinality(rows' \ Planned') <= MaxCount
    BY DEF CountInv
  <2>1. PICK s : s = Archive!Descending(rows)
    OBVIOUS
  <2>2. PICK m, n : m = MaxCount + 1 /\ n = Cardinality(rows)
    OBVIOUS
  <2>3. PICK todo : todo = SubSeq(s, m, n)
    OBVIOUS
  <2>4. Archive!Keep(p, todo) /\ UNCHANGED rows
    BY <1>4, <2>1, <2>2, <2>3, Numbers DEF Archive!Retain
  <2>5. ListOf(s, rows) /\ IsFiniteSet(rows) /\ n \in Nat
    BY <1>1, <2>1, <2>2, AgeLists DEF ListOf
  <2>6. CASE n <= MaxCount
    <3>1. rows' \ Planned' \in SUBSET rows
      BY <2>4
    <3>2. Cardinality(rows' \ Planned') <= n /\ Cardinality(rows' \ Planned') \in Nat
      BY <2>2, <2>5, <3>1, FS_Subset, FS_CardinalityType
    <3> QED BY <1>1, <2>5, <2>6, <3>2
  <2>7. CASE n > MaxCount
    <3>1. m \in Int /\ n \in Int /\ m <= n /\ m \in 1..n
      BY <1>1, <2>2, <2>5, <2>7
    <3>2. \A i \in m..n : s[i] \in rows
      <4>1. s \in [1..n -> rows]
        BY <2>2, <2>5 DEF ListOf
      <4> QED BY <3>1, <4>1
    <3>3. /\ todo \in Seq(rows) /\ Len(todo) = n - m + 1
          /\ \A i \in 1..(n - m + 1) : todo[i] = s[m + i - 1]
      BY <2>3, <3>1, <3>2, SubSeqProperties
    <3>4. todo # <<>>
      BY <3>1, <3>3
    <3>5. PICK x : x = Archive!At("keeping", todo, 0)
      OBVIOUS
    <3>6. exporter' = [exporter EXCEPT ![p] = x] /\ x.pc = "keeping" /\ x.todo = todo
      BY <2>4, <3>4, <3>5 DEF Archive!Keep, Archive!To, Archive!At
    <3>7. exporter'[p] = x
      BY <1>1, <3>6
    <3>8. \A i \in 1..Len(todo) : todo[i] \in Planned'
      BY <3>6, <3>7 DEF Planned, Listing
    <3>9. PICK first : first = {s[i] : i \in 1..MaxCount}
      OBVIOUS
    <3>10. rows' \ Planned' \in SUBSET first
      <4> SUFFICES ASSUME NEW b \in rows, b \notin Planned' PROVE b \in first
        BY <2>4
      <4>1. PICK k \in 1..n : s[k] = b
        BY <2>2, <2>5 DEF ListOf
      <4>2. CASE k >= m
        <5>1. PICK i : i = k - m + 1
          OBVIOUS
        <5>2. i \in 1..(n - m + 1) /\ m + i - 1 = k
          BY <3>1, <4>1, <4>2, <5>1
        <5>3. todo[i] = b /\ i \in 1..Len(todo)
          BY <3>3, <4>1, <5>2
        <5> QED BY <3>8, <5>3
      <4>3. CASE k < m
        <5>1. k \in 1..MaxCount
          BY <1>1, <2>2, <3>1, <4>1, <4>3
        <5> QED BY <3>9, <4>1, <5>1
      <4> QED BY <3>1, <4>2, <4>3
    <3>11. PICK f : f = [i \in 1..MaxCount |-> s[i]]
      OBVIOUS
    <3>12. f \in Surjection(1..MaxCount, first)
      BY <3>9, <3>11 DEF Surjection
    <3>13. IsFiniteSet(1..MaxCount) /\ Cardinality(1..MaxCount) = MaxCount
      BY <1>1, FS_Interval
    <3>14. IsFiniteSet(first) /\ Cardinality(first) <= MaxCount
      BY <3>12, <3>13, FS_Surjection
    <3>15. Cardinality(rows' \ Planned') <= Cardinality(first) /\ Cardinality(first) \in Nat /\ Cardinality(rows' \ Planned') \in Nat
      BY <3>10, <3>14, FS_Subset, FS_CardinalityType
    <3> QED BY <1>1, <3>14, <3>15
  <2> QED BY <1>1, <2>5, <2>6, <2>7
<1>5. ASSUME NEW p \in Requests, Archive!RetainRow(p) PROVE CountInv'
  <2>1. PICK todo : todo = Tail(exporter[p].todo)
    OBVIOUS
  <2>2. PICK y : y = exporter[p].todo
    OBVIOUS
  <2>3. /\ Archive!Keep(p, todo) /\ exporter[p].pc = "keeping" /\ rows' = rows \ {Head(y)} /\ UNCHANGED faults
    BY <1>5, <2>1, <2>2 DEF Archive!RetainRow, Archive!DropRow
  <2>4. y \in Seq(1..Len(size)) /\ y # <<>>
    BY <2>2, <2>3 DEF StockInv, Slots, Active
  <2>5. Len(todo) = Len(y) - 1 /\ \A i \in 1..Len(todo) : todo[i] = y[i + 1]
    BY <2>1, <2>2, <2>4, HeadTailProperties
  <2>6. ASSUME NEW b \in rows', b \in Listing(exporter[p]) PROVE todo # <<>> /\ b \in {todo[k] : k \in 1..Len(todo)}
    <3>1. PICK k \in 1..Len(y) : y[k] = b
      BY <2>2, <2>6 DEF Listing
    <3>2. k # 1
      BY <2>3, <2>4, <2>6, <3>1
    <3>3. PICK i : i = k - 1
      OBVIOUS
    <3>4. i \in 1..Len(todo) /\ i + 1 = k
      BY <2>4, <2>5, <3>1, <3>2, <3>3
    <3>5. todo[i] = b
      BY <2>5, <3>1, <3>4
    <3>6. todo # <<>>
      BY <3>4
    <3> QED BY <3>4, <3>5, <3>6
  <2>7. PICK x : x = IF todo = <<>> THEN IF MaxBytes > 0 THEN Archive!At("quota", <<>>, 0) ELSE Archive!Idle
                     ELSE Archive!At("keeping", todo, 0)
    OBVIOUS
  <2>8. exporter' = [exporter EXCEPT ![p] = x]
    BY <2>3, <2>7 DEF Archive!Keep, Archive!To
  <2>9. x.pc # "keep" /\ (todo # <<>> => x.pc = "keeping" /\ x.todo = todo)
    BY <2>7 DEF Archive!At, Archive!Idle
  <2>10. \A b \in rows' : b \in Listing(exporter[p]) => x.pc = "keeping" /\ b \in Listing(x)
    BY <2>6, <2>9 DEF Listing
  <2> QED BY <1>1, <2>3, <2>8, <2>9, <2>10, CountStep
<1>6. ASSUME NEW p \in Requests, Archive!Fit(p) \/ Archive!FitRow(p) PROVE CountInv'
  <2>1. PICK todo, total : Archive!Shrink(p, todo, total)
    BY <1>6 DEF Archive!Fit, Archive!FitRow
  <2>2. exporter[p].pc \in {"quota", "shrinking"} /\ rows' \subseteq rows /\ UNCHANGED faults
    BY <1>6 DEF Archive!Fit, Archive!FitRow, Archive!DropRow
  <2>3. PICK x : x = IF total <= MaxBytes \/ todo = <<>> THEN Archive!Idle
                     ELSE Archive!At("shrinking", todo, total - (IF Head(todo) \in files THEN size[Head(todo)] ELSE 0))
    OBVIOUS
  <2>4. exporter' = [exporter EXCEPT ![p] = x]
    BY <2>1, <2>3 DEF Archive!Shrink, Archive!To
  <2>5. x.pc # "keep"
    BY <2>3 DEF Archive!At, Archive!Idle
  <2> QED BY <1>1, <2>2, <2>4, <2>5, CountStep
<1>7. ASSUME NEW p \in Requests, NEW b, Archive!AskDelete(p, b) PROVE CountInv'
  <2>1. PICK x : x = Archive!At("delete", <<b>>, 0)
    OBVIOUS
  <2>2. exporter' = [exporter EXCEPT ![p] = x] /\ exporter[p].pc = "idle" /\ UNCHANGED <<rows, faults>> /\ x.pc = "delete"
    BY <1>7, <2>1 DEF Archive!AskDelete, Archive!To, Archive!MayStart, Archive!At
  <2> QED BY <1>1, <2>2, CountStep
<1>8. ASSUME NEW p \in Requests, Archive!DeleteRow(p) PROVE CountInv'
  <2>1. PICK x : x = Archive!Idle
    OBVIOUS
  <2>2. exporter' = [exporter EXCEPT ![p] = x] /\ exporter[p].pc = "delete" /\ rows' \subseteq rows /\ UNCHANGED faults /\ x.pc = "idle"
    BY <1>8, <2>1 DEF Archive!DeleteRow, Archive!DropRow, Archive!To, Archive!Idle
  <2> QED BY <1>1, <2>2, CountStep
<1>9. ASSUME NEW p \in Requests, Archive!Die(p) PROVE CountInv'
  BY <1>9 DEF Archive!Die, StockInv, CountInv
<1>10. CASE UNCHANGED Archive!vars
  BY <1>10 DEF Archive!vars, CountInv, Planned, Listing
<1> QED BY <1>2, <1>3, <1>4, <1>5, <1>6, <1>7, <1>8, <1>9, <1>10 DEF Archive!Next, Archive!Step

(* When nobody is on the way to the quota, the files fit, or a request goes on     *)
(* removing: its total is at least what is there, all of it is still on its list.  *)
Fitting(x) == x.pc = "shrinking" /\ Archive!Bytes(files) <= x.total /\ files \subseteq Behind(x)
BytesInv   == MaxBytes > 0 /\ faults = 0 /\ (\A p \in Requests : exporter[p].pc \notin {"keep", "keeping", "quota"}) =>
  Archive!Bytes(files) <= MaxBytes \/ \E p \in Requests : Fitting(exporter[p])

LEMMA FilesFewer ==
  ASSUME StockInv, UNCHANGED size, files' \subseteq files
  PROVE  Archive!Bytes(files) \in Nat /\ Archive!Bytes(files)' \in Nat /\ Archive!Bytes(files)' <= Archive!Bytes(files)
<1>1. size \in Seq(Nat) /\ files \in SUBSET (1..Len(size)) /\ files' \in SUBSET files
  BY DEF StockInv
<1>2. PICK F : F = files'
  OBVIOUS
<1>3. F \in SUBSET files /\ F \in SUBSET (1..Len(size)) /\ Archive!Bytes(files)' = Archive!Bytes(F)
  BY <1>1, <1>2 DEF Archive!Bytes
<1>4. Archive!Bytes(F) <= Archive!Bytes(files)
  BY <1>1, <1>3, BytesLess
<1>5. Archive!Bytes(F) \in Nat /\ Archive!Bytes(files) \in Nat
  BY <1>1, <1>3, BlockFinite
<1> QED BY <1>3, <1>4, <1>5

(* A step of a request that is not removing for the quota. *)
LEMMA BytesStep ==
  ASSUME MaxBytes \in Nat, StockInv, BytesInv, NEW p \in Requests, exporter[p].pc \notin {"keep", "keeping", "quota", "shrinking"},
         NEW x, exporter' = [exporter EXCEPT ![p] = x], UNCHANGED <<size, faults>>, files' \subseteq files
  PROVE  BytesInv'
<1> SUFFICES ASSUME MaxBytes > 0, faults = 0, \A o \in Requests : exporter'[o].pc \notin {"keep", "keeping", "quota"}
             PROVE  Archive!Bytes(files)' <= MaxBytes \/ \E o \in Requests : Fitting(exporter[o])'
  BY DEF BytesInv
<1>1. \A o \in Requests \ {p} : exporter'[o] = exporter[o]
  BY DEF StockInv
<1>2. Archive!Bytes(files) <= MaxBytes \/ \E o \in Requests : Fitting(exporter[o])
  BY <1>1 DEF BytesInv
<1>3. Archive!Bytes(files) \in Nat /\ Archive!Bytes(files)' \in Nat /\ Archive!Bytes(files)' <= Archive!Bytes(files)
  BY FilesFewer
<1>4. ASSUME NEW o \in Requests, Fitting(exporter[o]) PROVE Fitting(exporter[o])'
  <2>1. o # p /\ exporter'[o] = exporter[o]
    BY <1>1, <1>4 DEF Fitting
  <2>2. exporter[o].total \in Int
    BY DEF StockInv, Slots
  <2>3. Archive!Bytes(files)' <= exporter[o].total
    BY <1>3, <1>4, <2>2 DEF Fitting
  <2> QED BY <1>4, <2>1, <2>3 DEF Fitting, Behind
<1> QED BY <1>2, <1>3, <1>4

(* The quota loop with a list of all files there are. *)
LEMMA BytesShrink ==
  ASSUME MaxBytes \in Nat, StockInv, NEW p \in Requests, NEW todo \in Seq(1..Len(size)), NEW total \in Int,
         Archive!Shrink(p, todo, total), UNCHANGED size,
         files \subseteq {todo[k] : k \in 1..Len(todo)}, Archive!Bytes(files) <= total
  PROVE  Archive!Bytes(files)' <= MaxBytes \/ Fitting(exporter[p])'
<1>1. size \in Seq(Nat) /\ files \in SUBSET (1..Len(size)) /\ Archive!Bytes(files) \in Nat
  BY BlockFinite DEF StockInv
<1>2. CASE total <= MaxBytes \/ todo = <<>>
  <2>1. UNCHANGED files
    BY <1>2 DEF Archive!Shrink
  <2>2. Archive!Bytes(files)' = Archive!Bytes(files)
    BY <2>1 DEF Archive!Bytes
  <2>3. todo = <<>> => files = {}
    OBVIOUS
  <2>4. Archive!Bytes({}) = 0
    BY <1>1, BytesLess
  <2>5. CASE total <= MaxBytes
    BY <1>1, <2>2, <2>5
  <2>6. CASE todo = <<>>
    <3>1. files = {}
      BY <2>3, <2>6
    <3> QED BY <2>2, <2>4, <3>1
  <2> QED BY <1>2, <2>5, <2>6
<1>3. CASE ~(total <= MaxBytes \/ todo = <<>>)
  <2>1. PICK b : b = Head(todo)
    OBVIOUS
  <2>2. PICK n : n = total - (IF b \in files THEN size[b] ELSE 0)
    OBVIOUS
  <2>3. PICK x : x = Archive!At("shrinking", todo, n)
    OBVIOUS
  <2>4. exporter' = [exporter EXCEPT ![p] = x] /\ files' = files \ {b}
    BY <1>3, <2>1, <2>2, <2>3 DEF Archive!Shrink, Archive!To, Archive!Unlink
  <2>5. exporter'[p] = x /\ x.pc = "shrinking" /\ x.todo = todo /\ x.total = n
    BY <2>3, <2>4 DEF StockInv, Archive!At
  <2>6. PICK F : F = files \ {b}
    OBVIOUS
  <2>7. Archive!Bytes(files)' = Archive!Bytes(F)
    BY <2>4, <2>6 DEF Archive!Bytes
  <2>8. Archive!Bytes(F) <= n
    <3>1. CASE b \in files
      <4>1. Archive!Bytes(F) = Archive!Bytes(files) - size[b]
        BY <1>1, <2>6, <3>1, BytesLess
      <4>2. size[b] \in Nat
        BY <1>1, <3>1
      <4> QED BY <1>1, <2>2, <3>1, <4>1, <4>2
    <3>2. CASE b \notin files
      <4>1. F = files
        BY <2>6, <3>2
      <4> QED BY <2>2, <3>2, <4>1
    <3> QED BY <3>1, <3>2
  <2>9. files' \subseteq Behind(x)
    <3> SUFFICES ASSUME NEW f \in files, f # b PROVE \E k \in 2..Len(todo) : todo[k] = f
      BY <2>4, <2>5 DEF Behind
    <3>1. PICK k \in 1..Len(todo) : todo[k] = f
      OBVIOUS
    <3>2. k # 1
      BY <1>3, <2>1, <3>1
    <3> QED BY <3>1, <3>2
  <2> QED BY <2>4, <2>5, <2>7, <2>8, <2>9 DEF Fitting, Behind
<1> QED BY <1>2, <1>3

LEMMA BytesNext == Archive!LimitsAssumption /\ StockInv /\ BytesInv /\ [Archive!Next]_(Archive!vars) => BytesInv'
<1> SUFFICES ASSUME Archive!LimitsAssumption, StockInv, BytesInv, [Archive!Next]_(Archive!vars) PROVE BytesInv'
  OBVIOUS
<1>1. MaxBytes \in Nat /\ DOMAIN exporter = Requests /\ size \in Seq(Nat) /\ Len(size) \in Nat
      /\ rows \in SUBSET (1..Len(size)) /\ files \in SUBSET rows
  BY DEF Archive!LimitsAssumption, StockInv
<1>2. ASSUME NEW p \in Requests, NEW n, Archive!Export(p, n) PROVE BytesInv'
  BY <1>1, <1>2, BytesStep DEF Archive!Export, Archive!To, Archive!MayStart
<1>3. ASSUME NEW p \in Requests, Archive!Record(p) PROVE BytesInv'
  <2>1. PICK x : x = Archive!At("keep", <<>>, 0)
    OBVIOUS
  <2>2. exporter' = [exporter EXCEPT ![p] = x] /\ x.pc = "keep"
    BY <1>3, <2>1 DEF Archive!Record, Archive!To, Archive!At
  <2>3. exporter'[p].pc = "keep"
    BY <1>1, <2>2
  <2> QED BY <2>3 DEF BytesInv
<1>4. ASSUME NEW p \in Requests, NEW todo, Archive!Keep(p, todo) PROVE BytesInv'
  <2> SUFFICES ASSUME MaxBytes > 0 PROVE exporter'[p].pc \in {"keeping", "quota"}
    BY DEF BytesInv
  <2>1. PICK x : x = IF todo = <<>> THEN Archive!At("quota", <<>>, 0) ELSE Archive!At("keeping", todo, 0)
    OBVIOUS
  <2>2. exporter' = [exporter EXCEPT ![p] = x] /\ x.pc \in {"keeping", "quota"}
    BY <1>4, <2>1 DEF Archive!Keep, Archive!To, Archive!At
  <2> QED BY <1>1, <2>2
<1>5. ASSUME NEW p \in Requests, Archive!Fit(p) PROVE BytesInv'
  <2>1. PICK s : s = Archive!Ascending(rows)
    OBVIOUS
  <2>2. PICK n : n = Archive!Bytes(rows \cap files)
    OBVIOUS
  <2>3. Archive!Shrink(p, s, n) /\ UNCHANGED size
    BY <1>5, <2>1, <2>2 DEF Archive!Fit
  <2>4. ListOf(s, rows)
    BY <1>1, <2>1, AgeLists
  <2>5. s \in Seq(1..Len(size)) /\ files \subseteq {s[k] : k \in 1..Len(s)}
    <3>1. s \in Seq(rows)
      BY <2>4 DEF ListOf
    <3>2. s \in Seq(1..Len(size))
      BY <1>1, <3>1, SeqMonotonic
    <3> QED BY <1>1, <2>4, <3>2 DEF ListOf
  <2>6. rows \cap files = files
    BY <1>1
  <2>7. n = Archive!Bytes(files) /\ n \in Nat
    BY <1>1, <2>2, <2>6, BlockFinite
  <2>8. Archive!Bytes(files)' <= MaxBytes \/ Fitting(exporter[p])'
    BY <1>1, <2>3, <2>5, <2>7, BytesShrink
  <2> QED BY <2>8 DEF BytesInv
<1>6. ASSUME NEW p \in Requests, Archive!FitRow(p) PROVE BytesInv'
  <2>1. PICK y, todo : y = exporter[p] /\ todo = Tail(y.todo)
    OBVIOUS
  <2>2. Archive!Shrink(p, todo, y.total) /\ UNCHANGED <<size, faults>> /\ y.pc = "shrinking"
    BY <1>6, <2>1 DEF Archive!FitRow
  <2>3. y.todo \in Seq(1..Len(size)) /\ y.todo # <<>> /\ y.total \in Int
    BY <2>1, <2>2 DEF StockInv, Slots, Active
  <2>4. todo \in Seq(1..Len(size)) /\ Len(todo) = Len(y.todo) - 1 /\ \A i \in 1..Len(todo) : todo[i] = y.todo[i + 1]
    BY <2>1, <2>3, HeadTailProperties
  <2> SUFFICES ASSUME MaxBytes > 0, faults = 0, \A o \in Requests : exporter'[o].pc \notin {"keep", "keeping", "quota"}
               PROVE  Archive!Bytes(files)' <= MaxBytes \/ \E o \in Requests : Fitting(exporter[o])'
    BY <2>2 DEF BytesInv
  <2>5. PICK x : exporter' = [exporter EXCEPT ![p] = x]
    BY <2>2 DEF Archive!Shrink, Archive!To
  <2>6. \A o \in Requests \ {p} : exporter'[o] = exporter[o]
    BY <1>1, <2>5
  <2>7. Archive!Bytes(files) <= MaxBytes \/ \E o \in Requests : Fitting(exporter[o])
    BY <2>1, <2>2, <2>6 DEF BytesInv
  <2>8. files' \subseteq files
    BY <2>2 DEF Archive!Shrink, Archive!Unlink
  <2>9. Archive!Bytes(files) \in Nat /\ Archive!Bytes(files)' \in Nat /\ Archive!Bytes(files)' <= Archive!Bytes(files)
    BY <2>2, <2>8, FilesFewer
  <2>10. CASE Fitting(exporter[p])
    <3>1. files \subseteq {todo[k] : k \in 1..Len(todo)}
      <4> SUFFICES ASSUME NEW f \in files PROVE \E k \in 1..Len(todo) : todo[k] = f
        OBVIOUS
      <4>1. PICK k \in 2..Len(y.todo) : y.todo[k] = f
        BY <2>1, <2>10 DEF Fitting, Behind
      <4>2. PICK i : i = k - 1
        OBVIOUS
      <4>3. Len(y.todo) \in Nat
        BY <2>3
      <4>4. i \in 1..Len(todo) /\ i + 1 = k
        BY <2>4, <4>1, <4>2, <4>3
      <4> QED BY <2>4, <4>1, <4>4
    <3>2. Archive!Bytes(files) <= y.total
      BY <2>1, <2>10 DEF Fitting
    <3> QED BY <1>1, <2>2, <2>3, <2>4, <3>1, <3>2, BytesShrink
  <2>11. ASSUME NEW o \in Requests \ {p}, Fitting(exporter[o]) PROVE Fitting(exporter[o])'
    <3>1. exporter'[o] = exporter[o] /\ exporter[o].total \in Int
      BY <2>6 DEF StockInv, Slots
    <3>2. Archive!Bytes(files)' <= exporter[o].total
      BY <2>9, <2>11, <3>1 DEF Fitting
    <3> QED BY <2>8, <2>11, <3>1, <3>2 DEF Fitting, Behind
  <2> QED BY <1>1, <2>7, <2>9, <2>10, <2>11
<1>7. ASSUME NEW p \in Requests, NEW b, Archive!AskDelete(p, b) PROVE BytesInv'
  BY <1>1, <1>7, BytesStep DEF Archive!AskDelete, Archive!To, Archive!MayStart, Archive!Unlink
<1>8. ASSUME NEW p \in Requests, Archive!DeleteRow(p) PROVE BytesInv'
  BY <1>1, <1>8, BytesStep DEF Archive!DeleteRow, Archive!To
<1>9. ASSUME NEW p \in Requests, Archive!Die(p) PROVE BytesInv'
  BY <1>9 DEF Archive!Die, StockInv, BytesInv
<1>10. CASE UNCHANGED Archive!vars
  BY <1>10 DEF Archive!vars, BytesInv, Fitting, Behind, Archive!Bytes
<1> QED BY <1>2, <1>3, <1>4, <1>5, <1>6, <1>7, <1>8, <1>9, <1>10 DEF Archive!Next, Archive!Step, Archive!Retain, Archive!RetainRow

(* Both limits hold once the requests are over, for any limits, sizes, numbers of   *)
(* exports and deletions, and however they interleave.                             *)
THEOREM BothLimitsHold == ASSUME Archive!LimitsAssumption PROVE Archive!Spec => []LimitsHold
<1>1. Archive!Init => CountInv /\ BytesInv
  <2> SUFFICES ASSUME Archive!Init PROVE CountInv /\ BytesInv
    OBVIOUS
  <2>1. rows = {} /\ files = {} /\ size = <<>>
    BY DEF Archive!Init
  <2>2. Cardinality(rows \ Planned) = 0
    BY <2>1, FS_EmptySet
  <2>3. Archive!Bytes(files) = 0
    <3>1. size \in Seq(Nat) /\ {} \in SUBSET (1..Len(size))
      BY <2>1
    <3> QED BY <2>1, <3>1, BytesLess
  <2> QED BY <2>2, <2>3 DEF CountInv, BytesInv, Archive!LimitsAssumption
<1>2. ASSUME StockInv, CountInv, BytesInv PROVE LimitsHold
  <2> SUFFICES ASSUME \A p \in Requests : exporter[p].pc = "idle", faults = 0
               PROVE  (MaxCount > 0 => Cardinality(rows) <= MaxCount) /\ (MaxBytes > 0 => Archive!Bytes(rows) <= MaxBytes)
    BY Numbers DEF LimitsHold, Archive!LimitsHold, Archive!Quiet
  <2>1. rows \ Planned = rows
    BY DEF Planned
  <2>2. rows = files
    BY <1>2 DEF StockInv, Removing, Active
  <2> QED BY <1>2, <2>1, <2>2 DEF CountInv, BytesInv, Fitting
<1> QED
  BY <1>1, <1>2, StockInit, StockNext, CountNext, BytesNext, PTL DEF Archive!Spec

-----------------------------------------------------------------------------
(* Data cleaning. *)

LEMMA CleanNumbers == \A S : Clean!Cardinality(S) = Cardinality(S)
  BY DEF Clean!Cardinality, Clean!IsFiniteSet, Cardinality, IsFiniteSet

Kinds == {"merge", "fill", "total", "dup"}

(* Two groups of a client's list have no receipt in common, and the receipt to be *)
(* kept of each is there, or another request has removed it.                      *)
SoundList(c, S) ==
  /\ \A s \in S : s.kind \in Kinds /\ s.ids \subseteq DOMAIN FirstShelf
  /\ \A s \in S : s.kind = "dup" => s.to \in s.ids /\ (cleaned[s.to] # Removed \/ s.to \in lost[c])
  /\ \A s, t \in S : s.kind = "dup" /\ t.kind = "dup" /\ s # t => s.ids \cap t.ids = {}

(* A step of a group is to remove one of its receipts that is not the one to keep. *)
OfGroup(c, step) ==
  /\ step.kind \in Kinds
  /\ step.kind = "dup" => \E s \in given[c] : s.kind = "dup" /\ step.id \in s.ids \ {s.to}

Working(c) ==
  cleaner[c].pc \in {"look", "change"} =>
    /\ shown[c] = {} /\ cleaner[c].todo # <<>>
    /\ \E T : cleaner[c].todo \in Seq(T) /\ \A step \in T : OfGroup(c, step)

ShelfInv ==
  /\ DOMAIN cleaned = DOMAIN FirstShelf
  /\ \A i \in DOMAIN FirstShelf : cleaned[i] # Removed =>
       "invoice" \in DOMAIN cleaned[i] /\ cleaned[i].invoice = FirstShelf[i].invoice
  /\ "picks" \in DOMAIN chances /\ chances.picks \in Nat
  /\ DOMAIN cleaner = Requests /\ DOMAIN shown = Requests /\ DOMAIN given = Requests /\ DOMAIN lost = Requests
  /\ \A c \in Requests : {"pc", "todo"} \subseteq DOMAIN cleaner[c]
CleanInv ==
  /\ ShelfInv
  /\ \A c \in Requests : SoundList(c, shown[c]) /\ SoundList(c, given[c]) /\ Working(c)

(* What is defined by recursion over the places of a sequence exists. *)
Recursive(N, V, b, g) == \E f \in [0..N -> V] : f[0] = b /\ \A n \in 1..N : f[n] = g[f[n - 1]][n]
LEMMA Recursion ==
  ASSUME NEW N \in Nat, NEW V, NEW b \in V, NEW g \in [V -> [1..N -> V]]
  PROVE  Recursive(N, V, b, g)
<1> DEFINE Upto(m) == \E f \in [0..m -> V] : f[0] = b /\ \A n \in 1..m : f[n] = g[f[n - 1]][n]
           Bad == {m \in 0..N : ~Upto(m)}
<1>1. ASSUME Bad # {} PROVE FALSE
  <2>1. PICK m \in Bad : \A k \in Bad : ~(<<k, m>> \in OpToRel(<, Nat))
    <3>1. Bad \subseteq Nat
      OBVIOUS
    <3> HIDE DEF Bad
    <3> QED
      BY <1>1, <3>1, NatLessThanWellFounded, WFMin
  <2>2. m \in 0..N /\ ~Upto(m)
    OBVIOUS
  <2>3. m # 0
    <3>1. [n \in 0..0 |-> b] \in [0..0 -> V] /\ [n \in 0..0 |-> b][0] = b
      OBVIOUS
    <3>3. \A n \in 1..0 : FALSE
      OBVIOUS
    <3>2. Upto(0)
      <4>1. PICK f : f = [n \in 0..0 |-> b]
        OBVIOUS
      <4>2. f \in [0..0 -> V] /\ f[0] = b
        BY <3>1, <4>1
      <4> QED
        BY <3>3, <4>2
    <3> QED
      BY <2>2, <3>2
  <2>4. Upto(m - 1)
    <3>1. m - 1 \in 0..N /\ m - 1 \in Nat /\ m - 1 < m /\ m \in Nat
      BY <2>2, <2>3
    <3>2. m - 1 \notin Bad
      BY <2>1, <3>1 DEF OpToRel
    <3> QED
      BY <3>1, <3>2
  <2>5. PICK f \in [0..(m - 1) -> V] : f[0] = b /\ \A n \in 1..(m - 1) : f[n] = g[f[n - 1]][n]
    BY <2>4
  <2>6. PICK h : h = [n \in 0..m |-> IF n = m THEN g[f[m - 1]][m] ELSE f[n]]
    OBVIOUS
  <2>7. m \in Nat /\ m > 0 /\ m \in 1..N
    BY <2>2, <2>3
  <2>8. g[f[m - 1]][m] \in V
    BY <2>5, <2>7
  <2>9. h \in [0..m -> V]
    BY <2>5, <2>6, <2>7, <2>8
  <2>10. h[0] = b
    BY <2>5, <2>6, <2>7
  <2>11. ASSUME NEW n \in 1..m PROVE h[n] = g[h[n - 1]][n]
    <3>1. h[n - 1] = f[n - 1]
      BY <2>6, <2>7
    <3>2. CASE n = m
      <4>1. h[m] = g[f[m - 1]][m]
        BY <2>6, <2>7
      <4>2. h[m - 1] = f[m - 1]
        BY <3>1, <3>2
      <4> QED
        BY <3>2, <4>1, <4>2
    <3>3. CASE n # m
      BY <2>5, <2>6, <2>7, <3>1, <3>3
    <3> QED
      BY <3>2, <3>3
  <2> QED
    BY <2>2, <2>9, <2>10, <2>11
<1>2. Upto(N)
  <2> HIDE DEF Upto
  <2>1. N \in 0..N
    OBVIOUS
  <2>2. N \notin Bad
    <3> HIDE DEF Bad
    <3> QED
      BY <1>1
  <2> QED
    BY <2>1, <2>2
<1> QED
  BY <1>2 DEF Recursive

LEMMA ShelfPlaces ==
  ASSUME Clean!CleaningAssumption
  PROVE  /\ Len(Shelf) \in Nat /\ DOMAIN Shelf = 1..Len(Shelf)
         /\ \A x \in 1..Len(Shelf) : Shelf[x] \in DOMAIN FirstShelf
         /\ \A x, y \in 1..Len(Shelf) : Shelf[x] = Shelf[y] => x = y
         /\ \A i \in DOMAIN FirstShelf : \E x \in 1..Len(Shelf) : Shelf[x] = i
<1>1. /\ Shelf \in Seq(DOMAIN FirstShelf) /\ \A x, y \in DOMAIN Shelf : Shelf[x] = Shelf[y] => x = y
      /\ \A i \in DOMAIN FirstShelf : \E x \in DOMAIN Shelf : Shelf[x] = i
  BY DEF Clean!CleaningAssumption
<1>2. Len(Shelf) \in Nat /\ DOMAIN Shelf = 1..Len(Shelf)
  BY <1>1
<1> QED
  BY <1>1, <1>2

(* The receipts that are checked, place by place. *)
LEMMA CheckedSteps ==
  ASSUME Clean!CleaningAssumption, NEW N, N = Len(Shelf), NEW C, C = Clean!Checked
  PROVE  \A x \in 1..N :
           /\ C[x - 1] \subseteq C[x]
           /\ Clean!Taken(C[x - 1], x) # {} => Clean!Taken(C[x - 1], x) \cup {x} \subseteq C[x]
<1>1. N \in Nat
  BY ShelfPlaces
<1> DEFINE next(S, x) == S \cup Clean!Taken(S, x) \cup (IF Clean!Taken(S, x) = {} THEN {} ELSE {x})
           V == SUBSET (1..N)
<1>2. PICK g : g = [S \in V |-> [x \in 1..N |-> next(S, x)]]
  OBVIOUS
<1>3. \A S \in V, x \in 1..N : next(S, x) \in V
  <2>1. \A S, x : Clean!Taken(S, x) \subseteq 1..N
    BY ShelfPlaces DEF Clean!Taken, Clean!Present
  <2> QED
    BY <2>1
<1>4. g \in [V -> [1..N -> V]] /\ \A S \in V, x \in 1..N : g[S][x] = next(S, x)
  <2> HIDE DEF next, V
  <2> QED
    BY <1>2, <1>3
<1>5. {} \in V
  OBVIOUS
<1> HIDE DEF V
<1>6. PICK f \in [0..N -> V] : f[0] = {} /\ \A x \in 1..N : f[x] = g[f[x - 1]][x]
  <2>1. g \in [V -> [1..N -> V]]
    BY <1>4
  <2> HIDE DEF next
  <2>2. PICK e \in V : e = {}
    BY <1>5
  <2>3. Recursive(N, V, e, g)
    BY <1>1, <2>1, Recursion
  <2> QED
    BY <2>2, <2>3 DEF Recursive
<1>7. \A x \in 1..N : f[x] = next(f[x - 1], x)
  <2> SUFFICES ASSUME NEW x \in 1..N PROVE f[x] = next(f[x - 1], x)
    OBVIOUS
  <2>1. f[x - 1] \in V
    BY <1>1, <1>6
  <2> HIDE DEF next
  <2> QED
    BY <1>4, <1>6, <2>1
<1>8. f = [x \in 0..N |-> IF x = 0 THEN {} ELSE next(f[x - 1], x)]
  <2> HIDE DEF next
  <2>1. \A x \in 0..N : x # 0 => x \in 1..N
    BY <1>1
  <2>2. \A x \in 0..N : f[x] = IF x = 0 THEN {} ELSE next(f[x - 1], x)
    BY <1>6, <1>7, <2>1
  <2> QED
    BY <1>6, <2>2
<1>9. C = [x \in 0..N |-> IF x = 0 THEN {} ELSE next(C[x - 1], x)]
  <2>1. C = CHOOSE c : c = [x \in 0..N |-> IF x = 0 THEN {} ELSE next(c[x - 1], x)]
    BY DEF Clean!Checked
  <2> HIDE DEF next
  <2> QED
    BY <1>8, <2>1
<1>10. \A x \in 1..N : C[x] = next(C[x - 1], x)
  <2> HIDE DEF next
  <2>1. \A x \in 1..N : x \in 0..N /\ x # 0
    BY <1>1
  <2> QED
    BY <1>9, <2>1
<1> QED
  BY <1>10

LEMMA CheckedGrows ==
  ASSUME Clean!CleaningAssumption, NEW N, N = Len(Shelf), NEW C, C = Clean!Checked,
         NEW x \in 0..N, NEW y \in 0..N, x <= y
  PROVE  C[x] \subseteq C[y]
<1> DEFINE Bad == {z \in 0..N : x <= z /\ ~(C[x] \subseteq C[z])}
<1>1. N \in Nat
  BY ShelfPlaces
<1>2. SUFFICES ASSUME Bad # {} PROVE FALSE
  OBVIOUS
<1>3. PICK z \in Bad : \A w \in Bad : ~(<<w, z>> \in OpToRel(<, Nat))
  <2>1. Bad \subseteq Nat
    BY <1>1
  <2> HIDE DEF Bad
  <2> QED
    BY <1>2, <2>1, NatLessThanWellFounded, WFMin
<1>4. z \in 0..N /\ x <= z /\ ~(C[x] \subseteq C[z])
  OBVIOUS
<1>5. z # x
  BY <1>4
<1>6. z \in 1..N /\ z - 1 \in 0..N /\ x <= z - 1 /\ z - 1 \in Nat /\ z - 1 < z /\ z \in Nat
  BY <1>1, <1>4, <1>5
<1>7. z - 1 \notin Bad
  BY <1>3, <1>6 DEF OpToRel
<1>8. C[x] \subseteq C[z - 1]
  BY <1>6, <1>7
<1>9. C[z - 1] \subseteq C[z]
  BY <1>6, CheckedSteps
<1> QED
  BY <1>4, <1>8, <1>9

(* Of some receipts one is the fullest. *)
LEMMA OneIsFullest ==
  ASSUME Clean!CleaningAssumption, NEW S, S # {}, S \subseteq {Shelf[x] : x \in 1..Len(Shelf)}
  PROVE  Clean!Fullest(S) \in S
<1> DEFINE lack(i) == 4 - Clean!Completeness(cleaned[i])
           place(i) == Clean!Place(i)
<1>1. \A i \in S : lack(i) \in Nat
  BY DEF Clean!Completeness, Clean!Filled
<1>2. \A i \in S : place(i) \in Nat
  <2> SUFFICES ASSUME NEW i \in S PROVE place(i) \in Nat
    OBVIOUS
  <2>1. \E x \in DOMAIN Shelf : Shelf[x] = i
    BY ShelfPlaces
  <2>2. place(i) \in DOMAIN Shelf
    BY <2>1 DEF Clean!Place
  <2> QED
    BY <2>2, ShelfPlaces
<1>3. \A i \in S, j \in S : Clean!Completeness(cleaned[i]) \in Nat
                           /\ (Clean!Completeness(cleaned[i]) > Clean!Completeness(cleaned[j]) <=> lack(i) < lack(j))
                           /\ (Clean!Completeness(cleaned[i]) = Clean!Completeness(cleaned[j]) <=> lack(i) = lack(j))
  BY DEF Clean!Completeness, Clean!Filled
<1> HIDE DEF lack, place
<1>4. PICK l \in {lack(i) : i \in S} : \A k \in {lack(i) : i \in S} : ~(<<k, l>> \in OpToRel(<, Nat))
  <2> DEFINE Q == {lack(i) : i \in S}
  <2>1. Q \subseteq Nat /\ Q # {}
    BY <1>1
  <2> HIDE DEF Q
  <2>2. PICK l \in Q : \A k \in Q : ~(<<k, l>> \in OpToRel(<, Nat))
    BY <2>1, NatLessThanWellFounded, WFMin
  <2> QED
    BY <2>2 DEF Q
<1>5. PICK m \in {place(i) : i \in {j \in S : lack(j) = l}} :
        \A k \in {place(i) : i \in {j \in S : lack(j) = l}} : ~(<<k, m>> \in OpToRel(<, Nat))
  <2> DEFINE Q == {place(i) : i \in {j \in S : lack(j) = l}}
  <2>1. Q \subseteq Nat /\ Q # {}
    BY <1>2, <1>4
  <2> HIDE DEF Q
  <2>2. PICK m \in Q : \A k \in Q : ~(<<k, m>> \in OpToRel(<, Nat))
    BY <2>1, NatLessThanWellFounded, WFMin
  <2> QED
    BY <2>2 DEF Q
<1>6. PICK i \in S : lack(i) = l /\ place(i) = m
  BY <1>5
<1>7. \A j \in S : lack(i) < lack(j) \/ (lack(i) = lack(j) /\ place(i) <= place(j))
  <2> SUFFICES ASSUME NEW j \in S PROVE lack(i) < lack(j) \/ (lack(i) = lack(j) /\ place(i) <= place(j))
    OBVIOUS
  <2>1. lack(j) \in Nat /\ l \in Nat /\ place(j) \in Nat /\ m \in Nat
    BY <1>1, <1>2, <1>6
  <2>2. ~(lack(j) < l)
    BY <1>4, <2>1 DEF OpToRel
  <2>3. CASE lack(j) = l
    <3>1. ~(place(j) < m)
      BY <1>5, <2>1, <2>3 DEF OpToRel
    <3> QED
      BY <1>6, <2>1, <2>3, <3>1
  <2> QED
    BY <1>6, <2>1, <2>2, <2>3
<1>8. \A j \in S : \/ Clean!Completeness(cleaned[i]) > Clean!Completeness(cleaned[j])
                   \/ Clean!Completeness(cleaned[i]) = Clean!Completeness(cleaned[j]) /\ Clean!Place(i) <= Clean!Place(j)
  BY <1>3, <1>7 DEF place
<1> QED
  BY <1>8 DEF Clean!Fullest

(* The groups of duplicates have no receipt in common, and all receipts of a group *)
(* are there.                                                                     *)
LEMMA GroupsApart ==
  ASSUME Clean!CleaningAssumption
  PROVE  /\ \A s \in Clean!suggest_duplicates :
              /\ s.kind = "dup" /\ s.to \in s.ids /\ s.ids \subseteq DOMAIN FirstShelf
              /\ cleaned[s.to] # Removed
         /\ \A s, t \in Clean!suggest_duplicates : s # t => s.ids \cap t.ids = {}
<1>1. PICK N, C : N = Len(Shelf) /\ C = Clean!Checked
  OBVIOUS
<1> DEFINE more(x) == Clean!Taken(C[x - 1], x)
           places(x) == more(x) \cup {x}
           ids(x) == {Shelf[y] : y \in places(x)}
           First == {x \in 1..N : more(x) # {}}
<1>2. N \in Nat /\ DOMAIN Shelf = 1..N
  BY <1>1, ShelfPlaces
<1>3. Clean!suggest_duplicates = {Clean!Duplicate(ids(x)) : x \in First}
  BY <1>1, <1>2 DEF Clean!suggest_duplicates
<1>4. ASSUME NEW x \in First
      PROVE  /\ places(x) \subseteq 1..N /\ \A y \in places(x) : cleaned[Shelf[y]] # Removed
             /\ places(x) \subseteq C[x] /\ places(x) \cap C[x - 1] = {}
  <2>1. /\ x \notin C[x - 1] /\ x \in Clean!Present
        /\ \A y \in more(x) : y \in Clean!Present /\ y \notin C[x - 1]
    BY DEF Clean!Taken
  <2>2. places(x) \subseteq C[x]
    BY <1>1, CheckedSteps
  <2>3. \A y \in Clean!Present : y \in 1..N /\ cleaned[Shelf[y]] # Removed
    BY <1>2 DEF Clean!Present
  <2> QED
    BY <2>1, <2>2, <2>3
<1>5. ASSUME NEW x \in First
      PROVE  /\ ids(x) # {} /\ ids(x) \subseteq {Shelf[y] : y \in 1..N} /\ ids(x) \subseteq DOMAIN FirstShelf
             /\ \A i \in ids(x) : cleaned[i] # Removed
  <2>1. places(x) \subseteq 1..N /\ \A y \in places(x) : cleaned[Shelf[y]] # Removed
    BY <1>4
  <2>2. \A y \in 1..N : Shelf[y] \in DOMAIN FirstShelf
    BY <1>1, ShelfPlaces
  <2>3. x \in places(x)
    OBVIOUS
  <2> HIDE DEF places
  <2> QED
    BY <2>1, <2>2, <2>3
<1>7. ASSUME NEW x \in First, NEW y \in First, x # y PROVE ids(x) \cap ids(y) = {}
  <2>1. ASSUME NEW v \in First, NEW w \in First, v < w PROVE places(v) \cap places(w) = {}
    <3>1. C[v] \subseteq C[w - 1]
      <4>1. v \in 0..N /\ w - 1 \in 0..N /\ v <= w - 1
        BY <1>2, <2>1
      <4> QED
        BY <1>1, <4>1, CheckedGrows
    <3>2. places(v) \subseteq C[v] /\ places(w) \cap C[w - 1] = {}
      BY <1>4
    <3> HIDE DEF places
    <3> QED
      BY <3>1, <3>2
  <2>2. x < y \/ y < x
    BY <1>2, <1>7
  <2>3. places(x) \cap places(y) = {}
    <3> HIDE DEF places, First
    <3> QED
      BY <2>1, <2>2
  <2>4. places(x) \subseteq 1..N /\ places(y) \subseteq 1..N
    BY <1>4
  <2>5. \A v, w \in 1..N : Shelf[v] = Shelf[w] => v = w
    BY <1>1, ShelfPlaces
  <2> HIDE DEF places
  <2> QED
    BY <2>3, <2>4, <2>5
<1>8. ASSUME NEW x \in First
      PROVE  LET s == Clean!Duplicate(ids(x)) IN s.kind = "dup" /\ s.to \in s.ids /\ s.ids = ids(x)
  <2>1. PICK S : S = ids(x)
    OBVIOUS
  <2>2. Clean!Fullest(S) \in S
    <3>1. S # {} /\ S \subseteq {Shelf[y] : y \in 1..Len(Shelf)}
      BY <1>1, <1>5, <2>1
    <3> QED
      BY <3>1, OneIsFullest
  <2>3. Clean!Duplicate(S).kind = "dup" /\ Clean!Duplicate(S).to = Clean!Fullest(S) /\ Clean!Duplicate(S).ids = S
    BY DEF Clean!Duplicate
  <2> HIDE DEF ids
  <2> QED
    BY <2>1, <2>2, <2>3
<1> HIDE DEF ids, First
<1>9. ASSUME NEW s \in Clean!suggest_duplicates
      PROVE  /\ s.kind = "dup" /\ s.to \in s.ids /\ s.ids \subseteq DOMAIN FirstShelf
             /\ cleaned[s.to] # Removed
  <2>1. PICK x \in First : s = Clean!Duplicate(ids(x))
    BY <1>3
  <2> QED
    BY <1>5, <1>8, <2>1
<1>10. ASSUME NEW s \in Clean!suggest_duplicates, NEW t \in Clean!suggest_duplicates, s # t
       PROVE  s.ids \cap t.ids = {}
  <2>1. PICK x \in First, y \in First : s = Clean!Duplicate(ids(x)) /\ t = Clean!Duplicate(ids(y))
    BY <1>3
  <2>2. s.ids = ids(x) /\ t.ids = ids(y) /\ x # y
    BY <1>8, <1>10, <2>1
  <2> QED
    BY <1>7, <2>2
<1> QED
  BY <1>9, <1>10

(* Whatever else is listed is no group of duplicates. *)
LEMMA ListedKinds ==
  ASSUME ShelfInv
  PROVE  \A s \in Clean!generate_all_suggestions :
           \/ s \in Clean!suggest_duplicates
           \/ s.kind \in Kinds \ {"dup"} /\ s.ids \subseteq DOMAIN FirstShelf
<1> DEFINE Ids1 == DOMAIN FirstShelf
<1>0. Clean!Here \subseteq DOMAIN FirstShelf
  BY DEF Clean!Here, ShelfInv
<1>1. \A s \in Clean!suggest_supplier_merges : s.kind = "merge" /\ s.ids \subseteq DOMAIN FirstShelf
  <2>1. \A names, to : Clean!Merge(names, to).kind = "merge" /\ Clean!Merge(names, to).ids \subseteq DOMAIN FirstShelf
    BY <1>0 DEF Clean!Merge, Clean!Of
  <2>2. \A s \in Clean!suggest_supplier_merges : \E names, to : s = Clean!Merge(names, to)
    BY Zenon DEF Clean!suggest_supplier_merges
  <2> QED
    BY <2>1, <2>2
<1>2. ASSUME NEW s \in Clean!suggest_field_propagation PROVE s.kind = "fill" /\ s.ids \subseteq DOMAIN FirstShelf
  <2>1. \E to, n : s = [kind |-> "fill", to |-> to, sum |-> 0, names |-> {n},
                        ids |-> {i \in Clean!Here : Bare(cleaned[i].name) = n /\ cleaned[i].pin = "none"}]
    BY Zenon DEF Clean!suggest_field_propagation
  <2> QED
    BY <1>0, <2>1
<1>3. \A s \in Clean!suggest_total_mismatches : s.kind = "total" /\ s.ids \subseteq DOMAIN FirstShelf
  BY <1>0 DEF Clean!suggest_total_mismatches
<1>4. \A s \in Clean!generate_all_suggestions :
        \/ s \in Clean!suggest_supplier_merges \/ s \in Clean!suggest_field_propagation
        \/ s \in Clean!suggest_duplicates \/ s \in Clean!suggest_total_mismatches
  BY DEF Clean!generate_all_suggestions
<1> QED
  BY <1>1, <1>2, <1>3, <1>4 DEF Kinds

(* What a client lists is sound. *)
LEMMA ListIsSound ==
  ASSUME Clean!CleaningAssumption, ShelfInv, NEW c
  PROVE  SoundList(c, Clean!generate_all_suggestions)
  BY GroupsApart, ListedKinds DEF SoundList, Kinds

(* The receipts a suggestion affects, in the order of the list. *)
LEMMA OrderIsOf ==
  ASSUME Clean!CleaningAssumption, NEW S, S \subseteq DOMAIN FirstShelf
  PROVE  Cardinality(S) \in Nat /\ \A n \in 1..Cardinality(S) : Clean!InOrder(S)[n] \in S
<1>1. IsFiniteSet(S)
  <2>1. Len(Shelf) \in Nat /\ Shelf \in [1..Len(Shelf) -> DOMAIN FirstShelf]
    BY DEF Clean!CleaningAssumption
  <2>2. Shelf \in Surjection(1..Len(Shelf), DOMAIN FirstShelf)
    BY <2>1, ShelfPlaces DEF Surjection
  <2>3. IsFiniteSet(DOMAIN FirstShelf)
    BY <2>1, <2>2, FS_Interval, FS_Surjection
  <2> QED
    BY <2>3, FS_Subset
<1>2. \A i \in S : Clean!Place(i) \in 1..Len(Shelf) /\ Shelf[Clean!Place(i)] = i
  <2> SUFFICES ASSUME NEW i \in S PROVE Clean!Place(i) \in 1..Len(Shelf) /\ Shelf[Clean!Place(i)] = i
    OBVIOUS
  <2>1. DOMAIN Shelf = 1..Len(Shelf) /\ \E x \in 1..Len(Shelf) : Shelf[x] = i
    BY ShelfPlaces
  <2> QED
    BY <2>1 DEF Clean!Place
<1>3. PICK before : before = [b \in S |-> {x \in S : Clean!Place(x) < Clean!Place(b)}]
  OBVIOUS
<1>4. before \in [S -> SUBSET S] /\ \A b \in S : before[b] = {x \in S : Clean!Place(x) < Clean!Place(b)}
  BY <1>3
<1>5. before \in [S -> SUBSET S]
  BY <1>4
<1>6. Ordered(S, before)
  <2>1. Len(Shelf) \in Nat
    BY ShelfPlaces
  <2>2. \A b \in S : b \notin before[b]
    BY <1>2, <1>4, <2>1
  <2>3. ASSUME NEW b \in S, NEW d \in S, Clean!Place(b) < Clean!Place(d)
        PROVE  Sooner(before, b, d)
    BY <1>2, <1>4, <2>1, <2>3 DEF Sooner
  <2>4. ASSUME NEW b \in S, NEW d \in S, b # d PROVE Clean!Place(b) < Clean!Place(d) \/ Clean!Place(d) < Clean!Place(b)
    BY <1>2, <2>1, <2>4
  <2> QED
    BY <1>5, <2>2, <2>3, <2>4 DEF Ordered
<1>7. Cardinality(S) \in Nat /\ \A i \in 1..Cardinality(S) : \E b \in S : Cardinality(before[b]) = i - 1
  <2>1. Ranking(S, before)
    BY <1>1, <1>6, Ranks
  <2> QED
    BY <2>1 DEF Ranking
<1>8. PICK s : s = Clean!InOrder(S)
  OBVIOUS
<1>9. s = [n \in 1..Cardinality(S) |-> CHOOSE b \in S : Clean!Cardinality({x \in S : Clean!Place(x) < Clean!Place(b)}) = n - 1]
  <2>1. s = [n \in 1..Clean!Cardinality(S) |->
               CHOOSE b \in S : Clean!Cardinality({x \in S : Clean!Place(x) < Clean!Place(b)}) = n - 1]
    BY <1>8 DEF Clean!InOrder
  <2>2. Clean!Cardinality(S) = Cardinality(S)
    BY CleanNumbers
  <2> QED
    BY <2>1, <2>2
<1>10. ASSUME NEW n \in 1..Cardinality(S) PROVE s[n] \in S
  <2>1. \E b \in S : Clean!Cardinality({x \in S : Clean!Place(x) < Clean!Place(b)}) = n - 1
    BY <1>4, <1>7, CleanNumbers
  <2> QED
    BY <1>9, <2>1
<1> QED
  BY <1>7, <1>8, <1>10

(* The steps of what is picked are each of one suggestion, about a receipt it affects. *)
LEMMA StepsAreOf ==
  ASSUME Clean!CleaningAssumption, NEW m \in Nat, NEW X, NEW picked \in [1..m -> X],
         \A s \in X : s.ids \subseteq DOMAIN FirstShelf
  PROVE  \E T : /\ Clean!AllSteps(picked) \in Seq(T)
                /\ \A t \in T : \E x \in 1..m : t.kind = picked[x].kind /\ t.id \in Clean!Affected(picked[x])
<1> DEFINE T == UNION {{Clean!Steps(picked[x])[k] : k \in 1..Cardinality(Clean!Affected(picked[x]))} : x \in 1..m}
<1>1. ASSUME NEW x \in 1..m
      PROVE  /\ Clean!Steps(picked[x]) \in Seq(T)
             /\ \A k \in 1..Cardinality(Clean!Affected(picked[x])) :
                  /\ Clean!Steps(picked[x])[k].kind = picked[x].kind
                  /\ Clean!Steps(picked[x])[k].id \in Clean!Affected(picked[x])
  <2>1. PICK s \in X : s = picked[x]
    OBVIOUS
  <2>2. PICK A, n : A = Clean!Affected(s) /\ n = Cardinality(A)
    OBVIOUS
  <2>3. A \subseteq DOMAIN FirstShelf
    BY <2>1, <2>2 DEF Clean!Affected
  <2>4. n \in Nat /\ \A k \in 1..n : Clean!InOrder(A)[k] \in A
    BY <2>2, <2>3, OrderIsOf
  <2>5. PICK q : q = Clean!Steps(s)
    OBVIOUS
  <2>6. q = [k \in 1..n |-> [kind |-> s.kind, to |-> s.to, sum |-> s.sum, id |-> Clean!InOrder(A)[k]]]
    <3>1. q = [k \in 1..Clean!Cardinality(Clean!Affected(s)) |->
                 [kind |-> s.kind, to |-> s.to, sum |-> s.sum, id |-> Clean!InOrder(Clean!Affected(s))[k]]]
      BY <2>5 DEF Clean!Steps
    <3>2. Clean!Cardinality(Clean!Affected(s)) = n
      BY <2>2, CleanNumbers
    <3> QED
      BY <2>2, <3>1, <3>2
  <2>7. \A k \in 1..n : q[k].kind = s.kind /\ q[k].id \in A
    BY <2>4, <2>6
  <2>8. \A k \in 1..n : q[k] \in T
    BY <2>1, <2>2, <2>5
  <2>9. q \in Seq(T)
    <3> HIDE DEF T
    <3>1. q \in [1..n -> T]
      BY <2>6, <2>8
    <3> QED
      BY <2>4, <3>1
  <2> QED
    BY <2>1, <2>2, <2>5, <2>7, <2>9
<1>2. ASSUME NEW t \in T PROVE \E x \in 1..m : t.kind = picked[x].kind /\ t.id \in Clean!Affected(picked[x])
  <2>1. \E x \in 1..m : \E k \in 1..Cardinality(Clean!Affected(picked[x])) : t = Clean!Steps(picked[x])[k]
    OBVIOUS
  <2> QED
    BY <1>1, <2>1
<1>3. \A x \in 1..m : Clean!Steps(picked[x]) \in Seq(T)
  BY <1>1
<1> HIDE DEF T
<1> DEFINE V == Seq(T)
           next(S, x) == S \o Clean!Steps(picked[x])
<1>4. \A S \in V, x \in 1..m : next(S, x) \in V
  BY <1>3
<1>5. <<>> \in V
  OBVIOUS
<1> HIDE DEF V, next
<1>6. PICK g \in [V -> [1..m -> V]] : \A S \in V, x \in 1..m : g[S][x] = next(S, x)
  <2>1. PICK g : g = [S \in V |-> [x \in 1..m |-> next(S, x)]]
    OBVIOUS
  <2>2. g \in [V -> [1..m -> V]]
    BY <1>4, <2>1
  <2> QED
    BY <2>1, <2>2
<1>7. PICK f \in [0..m -> V] : f[0] = <<>> /\ \A x \in 1..m : f[x] = g[f[x - 1]][x]
  <2>1. PICK e \in V : e = <<>>
    BY <1>5
  <2>2. Recursive(m, V, e, g)
    BY Recursion
  <2> QED
    BY <2>1, <2>2 DEF Recursive
<1>8. \A x \in 1..m : f[x] = next(f[x - 1], x)
  <2> SUFFICES ASSUME NEW x \in 1..m PROVE f[x] = next(f[x - 1], x)
    OBVIOUS
  <2>1. f[x - 1] \in V
    OBVIOUS
  <2> QED
    BY <1>6, <1>7, <2>1
<1>9. f = [x \in 0..m |-> IF x = 0 THEN <<>> ELSE next(f[x - 1], x)]
  <2>1. \A x \in 0..m : x # 0 => x \in 1..m
    OBVIOUS
  <2>2. \A x \in 0..m : f[x] = IF x = 0 THEN <<>> ELSE next(f[x - 1], x)
    BY <1>7, <1>8, <2>1
  <2> QED
    BY <2>2
<1>10. PICK d : d = CHOOSE c : c = [x \in 0..m |-> IF x = 0 THEN <<>> ELSE next(c[x - 1], x)]
  OBVIOUS
<1>11. d = [x \in 0..m |-> IF x = 0 THEN <<>> ELSE next(d[x - 1], x)]
  BY <1>9, <1>10
<1>12. Clean!AllSteps(picked) = d[m]
  <2>1. Len(picked) = m
    OBVIOUS
  <2> QED
    BY <1>10, <2>1 DEF Clean!AllSteps, next
<1>13. \A x \in 0..m : d[x] \in V
  <2> DEFINE Bad == {x \in 0..m : d[x] \notin V}
  <2>1. ASSUME Bad # {} PROVE FALSE
    <3>1. PICK x \in Bad : \A y \in Bad : ~(<<y, x>> \in OpToRel(<, Nat))
      <4>1. Bad \subseteq Nat
        OBVIOUS
      <4> HIDE DEF Bad
      <4> QED
        BY <2>1, <4>1, NatLessThanWellFounded, WFMin
    <3>2. x \in 0..m /\ d[x] \notin V
      OBVIOUS
    <3>3. x # 0
      BY <1>5, <1>11, <3>2
    <3>4. x \in 1..m /\ x - 1 \in 0..m /\ x - 1 \in Nat /\ x - 1 < x /\ x \in Nat
      BY <3>2, <3>3
    <3>5. d[x - 1] \in V
      <4>1. x - 1 \notin Bad
        BY <3>1, <3>4 DEF OpToRel
      <4> QED
        BY <3>4, <4>1
    <3>6. d[x] = next(d[x - 1], x)
      BY <1>11, <3>3, <3>4
    <3> QED
      BY <1>4, <3>2, <3>4, <3>5, <3>6
  <2> QED
    BY <2>1
<1>14. Clean!AllSteps(picked) \in Seq(T)
  BY <1>12, <1>13 DEF V
<1> QED
  BY <1>2, <1>14

(* A list stays sound while its receipts to be kept are there or given up. *)
LEMMA StillSound ==
  ASSUME NEW c, NEW S, SoundList(c, S),
         \A s \in S : s.kind = "dup" /\ (cleaned[s.to] # Removed \/ s.to \in lost[c]) =>
                        cleaned'[s.to] # Removed \/ s.to \in lost'[c]
  PROVE  SoundList(c, S)'
  BY DEF SoundList

(* What is left to do. *)
LEMMA RunsOn ==
  ASSUME NEW todo
  PROVE  /\ {"pc", "todo"} \subseteq DOMAIN Clean!Run(todo)
         /\ Clean!Run(todo).pc \in {"look", "change"} => Clean!Run(todo).todo = todo /\ todo # <<>>
  BY DEF Clean!Run, Clean!Idle

(* A step about a receipt that is not removed leaves its invoice number alone. *)
LEMMA OnlyRemovedLose ==
  ASSUME NEW step, step.kind \in Kinds, NEW r, r # Removed, "invoice" \in DOMAIN r, r.invoice # Removed.invoice,
         step.kind # "dup"
  PROVE  /\ Clean!Changed(step, r) # Removed
         /\ "invoice" \in DOMAIN Clean!Changed(step, r) /\ Clean!Changed(step, r).invoice = r.invoice
<1>1. CASE step.kind = "merge"
  <2>1. Clean!Changed(step, r) = [r EXCEPT !.name = step.to]
    BY <1>1 DEF Clean!Changed
  <2> QED
    BY <2>1
<1>2. CASE step.kind = "fill"
  <2>1. Clean!Changed(step, r) = [r EXCEPT !.pin = step.to]
    BY <1>2 DEF Clean!Changed
  <2> QED
    BY <2>1
<1>3. CASE step.kind = "total"
  <2>1. Clean!Changed(step, r) = [r EXCEPT !.amount = step.sum]
    BY <1>3 DEF Clean!Changed
  <2> QED
    BY <2>1
<1> QED
  BY <1>1, <1>2, <1>3 DEF Kinds

LEMMA CleanStart ==
  ASSUME Clean!CleaningAssumption, Clean!Init
  PROVE  CleanInv
<1>1. ShelfInv
  BY DEF Clean!CleaningAssumption, Clean!Init, Clean!Idle, ShelfInv
<1>2. \A c \in Requests : shown[c] = {} /\ given[c] = {} /\ cleaner[c].pc = "idle"
  BY DEF Clean!Init, Clean!Idle
<1> QED
  BY <1>1, <1>2 DEF CleanInv, SoundList, Working

LEMMA ListStep ==
  ASSUME Clean!CleaningAssumption, CleanInv, NEW c \in Requests, Clean!List(c)
  PROVE  CleanInv'
<1>1. ShelfInv'
  BY DEF Clean!List, CleanInv, ShelfInv
<1>2. PICK S : S = Clean!generate_all_suggestions
  OBVIOUS
<1>3. SoundList(c, S)
  BY <1>2, ListIsSound DEF CleanInv
<1>4. ASSUME NEW x \in Requests PROVE (SoundList(x, shown[x]) /\ SoundList(x, given[x]) /\ Working(x))'
  <2>1. shown'[x] = (IF x = c THEN S ELSE shown[x]) /\ given'[x] = (IF x = c THEN {} ELSE given[x])
    BY <1>2 DEF Clean!List, CleanInv, ShelfInv
  <2>2. lost'[x] = (IF x = c THEN {} ELSE lost[x]) /\ cleaned' = cleaned /\ cleaner' = cleaner
    BY DEF Clean!List, CleanInv, ShelfInv
  <2>3. CASE x = c
    <3>1. \A s \in S : s.kind = "dup" => cleaned[s.to] # Removed
      BY <1>2, GroupsApart, ListedKinds DEF CleanInv
    <3>2. SoundList(c, S)'
      BY <1>3, <2>2, <3>1, StillSound
    <3>3. shown'[x] = S /\ given'[x] = {} /\ cleaner'[x].pc = "idle"
      BY <2>1, <2>2, <2>3 DEF Clean!List
    <3> QED
      BY <2>3, <3>2, <3>3 DEF SoundList, Working
  <2>4. CASE x # c
    <3>1. shown'[x] = shown[x] /\ given'[x] = given[x] /\ lost'[x] = lost[x]
      BY <2>1, <2>2, <2>4
    <3> QED
      BY <2>2, <3>1 DEF CleanInv, SoundList, Working, OfGroup
  <2> QED
    BY <2>3, <2>4
<1> QED
  BY <1>1, <1>4 DEF CleanInv

LEMMA ApplyStep ==
  ASSUME Clean!CleaningAssumption, CleanInv, NEW c \in Requests, Clean!Apply(c)
  PROVE  CleanInv'
<1>1. PICK n \in 1..chances.picks : \E picked \in [1..n -> shown[c]] :
        /\ Clean!At(c, Clean!Run(Clean!AllSteps(picked)))
        /\ given' = [given EXCEPT ![c] = {picked[x] : x \in 1..n}]
  BY DEF Clean!Apply
<1>2. PICK picked \in [1..n -> shown[c]] :
        /\ cleaner' = [cleaner EXCEPT ![c] = Clean!Run(Clean!AllSteps(picked))]
        /\ given' = [given EXCEPT ![c] = {picked[x] : x \in 1..n}]
  BY <1>1 DEF Clean!At
<1>3. n \in Nat
  BY DEF CleanInv, ShelfInv
<1>4. PICK G : G = {picked[x] : x \in 1..n}
  OBVIOUS
<1>5. G \subseteq shown[c] /\ \A s \in shown[c] : s.ids \subseteq DOMAIN FirstShelf
  BY <1>4 DEF CleanInv, SoundList
<1>6. PICK todo : todo = Clean!AllSteps(picked)
  OBVIOUS
<1>7. PICK T : todo \in Seq(T) /\ \A t \in T : \E x \in 1..n : t.kind = picked[x].kind /\ t.id \in Clean!Affected(picked[x])
  BY <1>3, <1>5, <1>6, StepsAreOf
<1>8. \A t \in T : \E s \in G : t.kind = s.kind /\ t.id \in Clean!Affected(s)
  BY <1>4, <1>7
<1>9. /\ cleaner' = [cleaner EXCEPT ![c] = Clean!Run(todo)] /\ given' = [given EXCEPT ![c] = G]
      /\ shown' = [shown EXCEPT ![c] = {}] /\ UNCHANGED <<cleaned, lost, chances>>
  BY <1>2, <1>4, <1>6 DEF Clean!Apply
<1>10. ShelfInv'
  BY <1>9, RunsOn DEF CleanInv, ShelfInv
<1>11. ASSUME NEW x \in Requests PROVE (SoundList(x, shown[x]) /\ SoundList(x, given[x]) /\ Working(x))'
  <2>1. CASE x = c
    <3>1. shown'[x] = {} /\ given'[x] = G /\ cleaner'[x] = Clean!Run(todo)
      BY <1>9, <2>1 DEF CleanInv, ShelfInv
    <3>2. SoundList(x, G)'
      BY <1>5, <1>9, <2>1 DEF CleanInv, SoundList
    <3>3. ASSUME NEW t \in T PROVE OfGroup(x, t)'
      <4>1. PICK s \in G : t.kind = s.kind /\ t.id \in Clean!Affected(s)
        BY <1>8
      <4>2. s.kind \in Kinds
        BY <1>5 DEF CleanInv, SoundList
      <4> QED
        BY <3>1, <4>1, <4>2 DEF OfGroup, Clean!Affected
    <3>4. Working(x)'
      BY <1>7, <3>1, <3>3, RunsOn DEF Working
    <3>5. SoundList(x, {})'
      BY DEF SoundList
    <3> QED
      BY <3>1, <3>2, <3>4, <3>5
  <2>2. CASE x # c
    <3>1. shown'[x] = shown[x] /\ given'[x] = given[x] /\ cleaner'[x] = cleaner[x]
      BY <1>9, <2>2 DEF CleanInv, ShelfInv
    <3> QED
      BY <1>9, <3>1 DEF CleanInv, SoundList, Working, OfGroup
  <2> QED
    BY <2>1, <2>2
<1> QED
  BY <1>10, <1>11 DEF CleanInv

(* The step that comes first, and those that follow. *)
LEMMA FirstStep ==
  ASSUME CleanInv, NEW c \in Requests, cleaner[c].pc \in {"look", "change"}
  PROVE  /\ OfGroup(c, Head(cleaner[c].todo))
         /\ \E T : Tail(cleaner[c].todo) \in Seq(T) /\ \A step \in T : OfGroup(c, step)
<1>1. PICK T : cleaner[c].todo \in Seq(T) /\ cleaner[c].todo # <<>> /\ \A step \in T : OfGroup(c, step)
  BY DEF CleanInv, Working
<1>2. Head(cleaner[c].todo) \in T /\ Tail(cleaner[c].todo) \in Seq(T)
  BY <1>1, HeadTailProperties
<1> QED
  BY <1>1, <1>2

LEMMA LookStep ==
  ASSUME CleanInv, NEW c \in Requests, Clean!Look(c)
  PROVE  CleanInv'
<1>1. PICK T : Tail(cleaner[c].todo) \in Seq(T) /\ \A step \in T : OfGroup(c, step)
  BY FirstStep DEF Clean!Look
<1>2. PICK r : /\ cleaner' = [cleaner EXCEPT ![c] = r]
               /\ r = [cleaner[c] EXCEPT !.pc = "change"] \/ r = Clean!Run(Tail(cleaner[c].todo))
  BY DEF Clean!Look, Clean!At
<1>3. UNCHANGED <<cleaned, shown, given, lost, chances>> /\ cleaner[c].pc = "look"
  BY DEF Clean!Look
<1>4. {"pc", "todo"} \subseteq DOMAIN r
  BY <1>2, RunsOn DEF CleanInv, ShelfInv
<1>5. ShelfInv'
  BY <1>2, <1>3, <1>4 DEF CleanInv, ShelfInv
<1>6. ASSUME NEW x \in Requests PROVE Working(x)'
  <2>1. Working(x)
    BY DEF CleanInv
  <2>2. CASE x = c
    <3>1. cleaner'[x] = r
      BY <1>2, <2>2 DEF CleanInv, ShelfInv
    <3>2. CASE r = [cleaner[c] EXCEPT !.pc = "change"]
      <4>1. r.todo = cleaner[c].todo
        BY <3>2 DEF CleanInv, ShelfInv
      <4> QED
        BY <1>3, <2>1, <2>2, <3>1, <4>1 DEF Working, OfGroup
    <3>3. CASE r = Clean!Run(Tail(cleaner[c].todo))
      <4>1. r.pc \in {"look", "change"} => r.todo = Tail(cleaner[c].todo) /\ r.todo # <<>>
        BY <3>3, RunsOn
      <4>2. \A step : OfGroup(c, step) => OfGroup(c, step)'
        BY <1>3 DEF OfGroup
      <4>3. shown'[c] = {}
        BY <1>3, <2>1, <2>2 DEF Working
      <4> QED
        BY <1>1, <2>2, <3>1, <4>1, <4>2, <4>3 DEF Working
    <3> QED
      BY <1>2, <3>2, <3>3
  <2>3. CASE x # c
    <3>1. cleaner'[x] = cleaner[x]
      BY <1>2, <2>3 DEF CleanInv, ShelfInv
    <3> QED
      BY <1>3, <2>1, <3>1 DEF Working, OfGroup
  <2> QED
    BY <2>2, <2>3
<1> QED
  BY <1>3, <1>5, <1>6 DEF CleanInv, SoundList

(* Once the client that removes a receipt is none of those that want it kept, the *)
(* list of each stays sound.                                                       *)
LEMMA ChangeStep ==
  ASSUME Clean!CleaningAssumption, CleanInv, NEW c \in Requests, Clean!Change(c)
  PROVE  CleanInv'
<1>1. PICK T : Tail(cleaner[c].todo) \in Seq(T) /\ \A step \in T : OfGroup(c, step)
  BY FirstStep DEF Clean!Change
<1>2. PICK step : step = Head(cleaner[c].todo) /\ OfGroup(c, step)
  BY FirstStep DEF Clean!Change
<1>3. PICK r : r = Clean!Run(Tail(cleaner[c].todo))
  OBVIOUS
<1>4. /\ cleaned' = [cleaned EXCEPT ![step.id] = Clean!Changed(step, cleaned[step.id])]
      /\ IF step.kind = "dup" THEN lost' = [x \in Requests |-> IF x = c THEN lost[x] ELSE lost[x] \cup {step.id}]
                              ELSE lost' = lost
      /\ cleaner' = [cleaner EXCEPT ![c] = r]
      /\ UNCHANGED <<shown, given, chances>> /\ cleaner[c].pc = "change"
  BY <1>2, <1>3 DEF Clean!Change, Clean!At, Clean!Forget
<1>5. \A i \in DOMAIN FirstShelf : cleaned[i] # Removed =>
        "invoice" \in DOMAIN cleaned[i] /\ cleaned[i].invoice = FirstShelf[i].invoice /\ cleaned[i].invoice # Removed.invoice
  BY DEF CleanInv, ShelfInv, Clean!CleaningAssumption
<1>6. step.kind = "dup" => Clean!Changed(step, cleaned[step.id]) = Removed
  BY DEF Clean!Changed
<1>7. cleaned[step.id] = Removed => Clean!Changed(step, cleaned[step.id]) = Removed
  BY DEF Clean!Changed
<1>8. ASSUME step.kind # "dup", step.id \in DOMAIN FirstShelf, cleaned[step.id] # Removed
      PROVE  /\ Clean!Changed(step, cleaned[step.id]) # Removed
             /\ "invoice" \in DOMAIN Clean!Changed(step, cleaned[step.id])
             /\ Clean!Changed(step, cleaned[step.id]).invoice = cleaned[step.id].invoice
  <2>1. PICK q : q = cleaned[step.id]
    OBVIOUS
  <2>2. step.kind \in Kinds /\ q # Removed /\ "invoice" \in DOMAIN q /\ q.invoice # Removed.invoice
    BY <1>2, <1>5, <1>8, <2>1 DEF OfGroup
  <2>3. /\ Clean!Changed(step, q) # Removed
        /\ "invoice" \in DOMAIN Clean!Changed(step, q) /\ Clean!Changed(step, q).invoice = q.invoice
    BY <1>8, <2>2, OnlyRemovedLose
  <2> QED
    BY <2>1, <2>3
<1>9. \A i \in DOMAIN FirstShelf :
        /\ cleaned'[i] # Removed =>
             "invoice" \in DOMAIN cleaned'[i] /\ cleaned'[i].invoice = FirstShelf[i].invoice
        /\ cleaned[i] # Removed /\ cleaned'[i] = Removed => step.kind = "dup" /\ i = step.id
  <2> SUFFICES ASSUME NEW i \in DOMAIN FirstShelf
               PROVE  /\ cleaned'[i] # Removed =>
                           "invoice" \in DOMAIN cleaned'[i] /\ cleaned'[i].invoice = FirstShelf[i].invoice
                      /\ cleaned[i] # Removed /\ cleaned'[i] = Removed => step.kind = "dup" /\ i = step.id
    OBVIOUS
  <2>1. i \in DOMAIN cleaned
    BY DEF CleanInv, ShelfInv
  <2>2. CASE i = step.id
    <3>1. cleaned'[i] = Clean!Changed(step, cleaned[step.id])
      BY <1>4, <2>1, <2>2
    <3> QED
      BY <1>5, <1>6, <1>7, <1>8, <2>2, <3>1
  <2>3. CASE i # step.id
    <3>1. cleaned'[i] = cleaned[i]
      BY <1>4, <2>3
    <3> QED
      BY <1>5, <3>1
  <2> QED
    BY <2>2, <2>3
<1>10. ShelfInv'
  <2>1. DOMAIN cleaned' = DOMAIN FirstShelf
    BY <1>4 DEF CleanInv, ShelfInv
  <2>2. DOMAIN lost' = Requests
    BY <1>4 DEF CleanInv, ShelfInv
  <2>3. DOMAIN cleaner' = Requests /\ \A x \in Requests : {"pc", "todo"} \subseteq DOMAIN cleaner'[x]
    BY <1>3, <1>4, RunsOn DEF CleanInv, ShelfInv
  <2> QED
    BY <1>4, <1>9, <2>1, <2>2, <2>3 DEF CleanInv, ShelfInv
<1>11. ASSUME NEW x \in Requests PROVE SoundList(x, shown[x])' /\ SoundList(x, given[x])'
  <2>1. PICK S, G : S = shown[x] /\ G = given[x] /\ shown'[x] = S /\ given'[x] = G
    BY <1>4
  <2>2. SoundList(x, S) /\ SoundList(x, G)
    BY <2>1 DEF CleanInv
  <2>3. CASE x = c
    <3>1. S = {}
      BY <1>4, <2>1, <2>3 DEF CleanInv, Working
    <3>2. \A s \in G : s.kind = "dup" => s.to \in s.ids /\ s.ids \subseteq DOMAIN FirstShelf
      BY <2>2 DEF SoundList
    <3>3. \A s \in G : s.kind = "dup" /\ step.kind = "dup" => s.to # step.id
      <4> SUFFICES ASSUME NEW s \in G, s.kind = "dup", step.kind = "dup", s.to = step.id PROVE FALSE
        OBVIOUS
      <4>1. PICK t \in G : t.kind = "dup" /\ step.id \in t.ids /\ step.id # t.to
        BY <1>2, <2>1, <2>3 DEF OfGroup
      <4>2. s # t => s.ids \cap t.ids = {}
        BY <2>2, <4>1 DEF SoundList
      <4> QED
        BY <3>2, <4>1, <4>2
    <3>4. lost'[c] = lost[c]
      BY <1>4
    <3>5. SoundList(x, G)'
      <4>1. \A s \in G : s.kind = "dup" /\ (cleaned[s.to] # Removed \/ s.to \in lost[x]) =>
                           cleaned'[s.to] # Removed \/ s.to \in lost'[x]
        BY <1>9, <2>3, <3>2, <3>3, <3>4
      <4> QED
        BY <2>2, <4>1, StillSound
    <3>6. SoundList(x, {})'
      BY DEF SoundList
    <3> QED
      BY <2>1, <3>1, <3>5, <3>6
  <2>4. CASE x # c
    <3>1. lost[x] \subseteq lost'[x] /\ (step.kind = "dup" => step.id \in lost'[x])
      BY <1>4, <2>4
    <3>2. \A s \in S \cup G : s.kind = "dup" => s.to \in DOMAIN FirstShelf
      BY <2>2 DEF SoundList
    <3>3. \A s \in S \cup G : s.kind = "dup" /\ (cleaned[s.to] # Removed \/ s.to \in lost[x]) =>
                               cleaned'[s.to] # Removed \/ s.to \in lost'[x]
      BY <1>9, <3>1, <3>2
    <3>4. SoundList(x, S)' /\ SoundList(x, G)'
      BY <2>2, <3>3, StillSound
    <3> QED
      BY <2>1, <3>4
  <2> QED
    BY <2>3, <2>4
<1>12. ASSUME NEW x \in Requests PROVE Working(x)'
  <2>1. Working(x)
    BY DEF CleanInv
  <2>2. CASE x = c
    <3>1. cleaner'[x] = r /\ (r.pc \in {"look", "change"} => r.todo = Tail(cleaner[c].todo) /\ r.todo # <<>>)
      BY <1>3, <1>4, <2>2, RunsOn DEF CleanInv, ShelfInv
    <3>2. \A s : OfGroup(c, s) => OfGroup(c, s)'
      BY <1>4 DEF OfGroup
    <3>3. shown'[c] = {}
      BY <1>4, <2>1, <2>2 DEF Working
    <3> QED
      BY <1>1, <2>2, <3>1, <3>2, <3>3 DEF Working
  <2>3. CASE x # c
    <3>1. cleaner'[x] = cleaner[x]
      BY <1>4, <2>3 DEF CleanInv, ShelfInv
    <3> QED
      BY <1>4, <2>1, <3>1 DEF Working, OfGroup
  <2> QED
    BY <2>2, <2>3
<1> QED
  BY <1>10, <1>11, <1>12 DEF CleanInv

(* A dismissal changes no receipt and no list. *)
LEMMA IgnoreStep ==
  ASSUME CleanInv, NEW c \in Requests, Clean!Ignore(c)
  PROVE  CleanInv'
<1>1. UNCHANGED <<cleaned, cleaner, shown, given, lost>> /\ chances' = [chances EXCEPT !.dismissals = chances.dismissals - 1]
  BY DEF Clean!Ignore
<1>2. ShelfInv'
  <2>1. "picks" \in DOMAIN chances' /\ chances'.picks \in Nat
    BY <1>1 DEF CleanInv, ShelfInv
  <2> QED
    BY <1>1, <2>1 DEF CleanInv, ShelfInv
<1>3. ASSUME NEW x \in Requests PROVE (SoundList(x, shown[x]) /\ SoundList(x, given[x]) /\ Working(x))'
  <2>1. (SoundList(x, shown[x]) /\ SoundList(x, given[x]))'
    BY <1>1 DEF CleanInv, SoundList
  <2>2. \A step : OfGroup(x, step) => OfGroup(x, step)'
    BY <1>1 DEF OfGroup
  <2>3. Working(x)'
    BY <1>1, <2>2 DEF CleanInv, Working
  <2> QED
    BY <2>1, <2>3
<1> QED
  BY <1>2, <1>3 DEF CleanInv

(* What the user does elsewhere. *)
LEMMA EditStep ==
  ASSUME Clean!CleaningAssumption, CleanInv, NEW i \in DOMAIN FirstShelf, Clean!Edit(i)
  PROVE  CleanInv'
<1>1. PICK n : cleaned' = [cleaned EXCEPT ![i].name = n]
  BY DEF Clean!Edit
<1>2. cleaned[i] # Removed /\ UNCHANGED <<cleaner, shown, given, lost>> /\ chances' = [chances EXCEPT !.edits = chances.edits - 1]
  BY DEF Clean!Edit
<1>3. \A j \in DOMAIN FirstShelf :
        /\ cleaned[j] # Removed => cleaned'[j] # Removed
        /\ cleaned'[j] # Removed => "invoice" \in DOMAIN cleaned'[j] /\ cleaned'[j].invoice = FirstShelf[j].invoice
  <2>1. ASSUME NEW j \in DOMAIN FirstShelf, j # i PROVE cleaned'[j] = cleaned[j]
    BY <1>1, <2>1
  <2>2. cleaned'[i] = [cleaned[i] EXCEPT !.name = n]
    BY <1>1 DEF CleanInv, ShelfInv
  <2>3. "invoice" \in DOMAIN cleaned'[i] /\ cleaned'[i].invoice = FirstShelf[i].invoice /\ cleaned'[i] # Removed
    BY <1>2, <2>2 DEF CleanInv, ShelfInv, Clean!CleaningAssumption
  <2> QED
    BY <2>1, <2>3 DEF CleanInv, ShelfInv
<1>4. ShelfInv'
  <2>1. DOMAIN cleaned' = DOMAIN FirstShelf /\ "picks" \in DOMAIN chances' /\ chances'.picks \in Nat
    BY <1>1, <1>2 DEF CleanInv, ShelfInv
  <2> QED
    BY <1>2, <1>3, <2>1 DEF CleanInv, ShelfInv
<1>5. ASSUME NEW c \in Requests PROVE (SoundList(c, shown[c]) /\ SoundList(c, given[c]) /\ Working(c))'
  <2>1. PICK S, G : S = shown[c] /\ G = given[c] /\ SoundList(c, S) /\ SoundList(c, G)
    BY DEF CleanInv
  <2>2. \A s \in S \cup G : s.kind = "dup" => s.to \in DOMAIN FirstShelf
    BY <2>1 DEF SoundList
  <2>3. \A s \in S \cup G : s.kind = "dup" /\ (cleaned[s.to] # Removed \/ s.to \in lost[c]) =>
                             cleaned'[s.to] # Removed \/ s.to \in lost'[c]
    BY <1>2, <1>3, <2>2
  <2>4. SoundList(c, S)' /\ SoundList(c, G)'
    BY <2>1, <2>3, StillSound
  <2>5. Working(c)'
    BY <1>2 DEF CleanInv, Working, OfGroup
  <2> QED
    BY <1>2, <2>1, <2>4, <2>5
<1> QED
  BY <1>4, <1>5 DEF CleanInv

LEMMA DeleteStep ==
  ASSUME CleanInv, NEW i \in DOMAIN FirstShelf, Clean!Delete(i)
  PROVE  CleanInv'
<1>1. /\ cleaned' = [cleaned EXCEPT ![i] = Removed] /\ lost' = [x \in Requests |-> lost[x] \cup {i}]
      /\ chances' = [chances EXCEPT !.deletes = chances.deletes - 1] /\ UNCHANGED <<cleaner, shown, given>>
  BY DEF Clean!Delete
<1>2. \A j \in DOMAIN FirstShelf : cleaned'[j] = (IF j = i THEN Removed ELSE cleaned[j])
  BY <1>1 DEF CleanInv, ShelfInv
<1>3. ShelfInv'
  <2>1. DOMAIN cleaned' = DOMAIN FirstShelf /\ "picks" \in DOMAIN chances' /\ chances'.picks \in Nat /\ DOMAIN lost' = Requests
    BY <1>1 DEF CleanInv, ShelfInv
  <2> QED
    BY <1>1, <1>2, <2>1 DEF CleanInv, ShelfInv
<1>4. ASSUME NEW c \in Requests PROVE (SoundList(c, shown[c]) /\ SoundList(c, given[c]) /\ Working(c))'
  <2>1. PICK S, G : S = shown[c] /\ G = given[c] /\ SoundList(c, S) /\ SoundList(c, G)
    BY DEF CleanInv
  <2>2. \A s \in S \cup G : s.kind = "dup" => s.to \in DOMAIN FirstShelf
    BY <2>1 DEF SoundList
  <2>3. \A s \in S \cup G : s.kind = "dup" /\ (cleaned[s.to] # Removed \/ s.to \in lost[c]) =>
                             cleaned'[s.to] # Removed \/ s.to \in lost'[c]
    BY <1>1, <1>2, <2>2
  <2>4. SoundList(c, S)' /\ SoundList(c, G)'
    BY <2>1, <2>3, StillSound
  <2>5. Working(c)'
    BY <1>1 DEF CleanInv, Working, OfGroup
  <2> QED
    BY <1>1, <2>1, <2>4, <2>5
<1> QED
  BY <1>3, <1>4 DEF CleanInv

(* The receipt to be kept of every group of duplicates a client has had cleaned  *)
(* away is still there, unless another request has removed it: whatever lists    *)
(* other clients work from, and whatever is edited meanwhile.                    *)
THEOREM ReceiptsToKeepStay ==
  ASSUME Clean!CleaningAssumption
  PROVE  Clean!Spec => []KeptStays
<1>1. Clean!Init => CleanInv
  BY CleanStart
<1>2. CleanInv /\ [Clean!Next]_Clean!vars => CleanInv'
  <2> SUFFICES ASSUME CleanInv, [Clean!Next]_Clean!vars PROVE CleanInv'
    OBVIOUS
  <2>1. CASE \E c \in Requests : Clean!List(c) \/ Clean!Apply(c)
    BY <2>1, ListStep, ApplyStep
  <2>2. CASE \E c \in Requests : Clean!Look(c) \/ Clean!Change(c)
    BY <2>2, LookStep, ChangeStep
  <2>3. CASE \E c \in Requests : Clean!Ignore(c)
    BY <2>3, IgnoreStep
  <2>4. CASE \E i \in DOMAIN FirstShelf : Clean!Edit(i) \/ Clean!Delete(i)
    BY <2>4, EditStep, DeleteStep
  <2>5. CASE UNCHANGED Clean!vars
    BY <2>5 DEF Clean!vars, CleanInv, ShelfInv, SoundList, Working, OfGroup
  <2> QED
    BY <2>1, <2>2, <2>3, <2>4, <2>5 DEF Clean!Next
<1>3. CleanInv => KeptStays
  BY DEF CleanInv, SoundList, KeptStays, Clean!KeptStays
<1> QED
  BY <1>1, <1>2, <1>3, PTL DEF Clean!Spec

-----------------------------------------------------------------------------
(* Lists: OFFSET pagination. *)

Ahead(i)  == {j \in Lists!Matching(query) : Lists!Before(query, j, i)}
Rank(i)   == Cardinality(Ahead(i))
Unread    == {i \in steady : \A x \in DOMAIN read : read[x].id # i}
Doubled   == {x \in DOMAIN read : read[x].id \in steady /\ \E y \in DOMAIN read : y < x /\ read[y].id = read[x].id}

(* What the next pages do not come to although it is unread, and what they come to *)
(* although it is read.                                                            *)
Skipped == {i \in Unread : Rank(i) < skip}
Pending == {i \in steady \ Unread : Rank(i) >= skip}

ListType ==
  /\ stored \in [Entries -> EntryRows \cup {Absent}]
  /\ skip \in Nat /\ came \in Nat /\ went \in Nat
  /\ read \in Seq([id : Entries, row : EntryRows])
  /\ phase \in {"idle", "paging", "done", "empty"}

PageInv ==
  /\ ListType
  /\ phase = "idle" => skip = 0 /\ read = <<>> /\ steady = {} /\ came = 0 /\ went = 0
  /\ phase # "idle" => query \in Queries /\ steady \subseteq Lists!Matching(query)
  /\ \A x \in DOMAIN read : read[x].id \in steady => read[x].row = stored[read[x].id]
  /\ phase = "paging" => Cardinality(Skipped) <= went /\ Cardinality(Doubled) + Cardinality(Pending) <= came
  /\ phase \in {"done", "empty"} => Cardinality(Unread) <= went /\ Cardinality(Doubled) <= came

LEMMA PlaceBehind ==
  ASSUME NEW l \in Nat, NEW n \in Nat, NEW k \in 1..n
  PROVE  \E x \in 1..(l + n) : x = l + k /\ ~(x <= l) /\ x - l = k
<1>1. l + k \in 1..(l + n) /\ ~(l + k <= l) /\ (l + k) - l = k
  OBVIOUS
<1> QED
  BY <1>1, Zenon

LEMMA ListNumbers == \A S : Lists!Cardinality(S) = Cardinality(S) /\ (Lists!IsFiniteSet(S) <=> IsFiniteSet(S))
  BY DEF Lists!Cardinality, Lists!IsFiniteSet, Cardinality, IsFiniteSet

(* With one new element a set has at most one element more. *)
LEMMA OneMore ==
  ASSUME NEW A, NEW B, IsFiniteSet(A), IsFiniteSet(B), \A x, y \in B \ A : x = y
  PROVE  Cardinality(B) <= Cardinality(A) + 1
<1>1. CASE B \ A = {}
  <2>1. B \in SUBSET A
    BY <1>1
  <2> QED
    BY <2>1, FS_Subset, FS_CardinalityType
<1>2. CASE B \ A # {}
  <2>1. PICK x : B \subseteq A \cup {x} /\ x \notin A
    BY <1>2
  <2>2. IsFiniteSet(A \cup {x}) /\ Cardinality(A \cup {x}) = Cardinality(A) + 1
    BY <2>1, FS_AddElement
  <2> QED
    BY <2>1, <2>2, FS_Subset
<1> QED
  BY <1>1, <1>2

(* The order of a list is a total one. *)
LEMMA ListOrder ==
  ASSUME Lists!ListAssumption, ListType, NEW q
  PROVE  /\ IsFiniteSet(Lists!Matching(q)) /\ Lists!Matching(q) \subseteq Entries
         /\ \A i \in Lists!Matching(q) : ~Lists!Before(q, i, i)
         /\ \A i, j \in Lists!Matching(q) : i # j => Lists!Before(q, i, j) \/ Lists!Before(q, j, i)
         /\ \A i, j, k \in Lists!Matching(q) : Lists!Before(q, i, j) /\ Lists!Before(q, j, k) => Lists!Before(q, i, k)
<1>1. /\ Lists!Matching(q) \subseteq Entries
      /\ \A i \in Lists!Matching(q) : i \in Nat /\ stored[i].made \in Nat /\ stored[i].key \in Nat
  BY DEF Lists!Matching, Lists!ListAssumption, ListType
<1>2. IsFiniteSet(Lists!Matching(q))
  BY <1>1, ListNumbers, FS_Subset DEF Lists!ListAssumption
<1>3. PICK S : S = Lists!Matching(q)
  OBVIOUS
<1>4. CASE q.by = "search"
  <2>1. \A i, j : Lists!Before(q, i, j) <=> Lists!Ranked(q, i, j)
    BY <1>4 DEF Lists!Before
  <2>2. PICK k, m : k = [i \in S |-> stored[i].key] /\ m = [i \in S |-> stored[i].made]
    OBVIOUS
  <2>3. k \in [S -> Nat] /\ m \in [S -> Nat] /\ S \subseteq Nat
    BY <1>1, <1>3, <2>2
  <2>4. \A i, j \in S : Lists!Before(q, i, j) <=> k[i] > k[j] \/ (k[i] = k[j] /\ (m[i] > m[j] \/ (m[i] = m[j] /\ i < j)))
    BY <2>1, <2>2 DEF Lists!Ranked
  <2> QED
    BY <1>1, <1>2, <1>3, <2>3, <2>4
<1>5. CASE q.by # "search"
  <2>1. PICK v : v = [i \in S |-> Lists!SortValue(q, i)]
    OBVIOUS
  <2>2. v \in [S -> Nat] /\ S \subseteq Nat
    BY <1>1, <1>3, <2>1 DEF Lists!SortValue
  <2>3. \A i, j \in S : Lists!Before(q, i, j) <=>
          IF q.dir = "asc" THEN v[i] < v[j] \/ (v[i] = v[j] /\ i < j) ELSE v[i] > v[j] \/ (v[i] = v[j] /\ i > j)
    BY <1>5, <2>1 DEF Lists!Before, Lists!Listed
  <2>4. CASE q.dir = "asc"
    <3>1. \A i, j \in S : Lists!Before(q, i, j) <=> v[i] < v[j] \/ (v[i] = v[j] /\ i < j)
      BY <2>3, <2>4
    <3> QED
      BY <1>1, <1>2, <1>3, <2>2, <3>1
  <2>5. CASE q.dir # "asc"
    <3>1. \A i, j \in S : Lists!Before(q, i, j) <=> v[i] > v[j] \/ (v[i] = v[j] /\ i > j)
      BY <2>3, <2>5
    <3> QED
      BY <1>1, <1>2, <1>3, <2>2, <3>1
  <2> QED
    BY <2>4, <2>5
<1> QED
  BY <1>4, <1>5

(* No two receipts have one rank. *)
RanksApart ==
  /\ \A i \in Lists!Matching(query) : IsFiniteSet(Ahead(i)) /\ Rank(i) \in Nat
  /\ \A i, j \in Lists!Matching(query) : Rank(i) = Rank(j) => i = j
LEMMA ListRanks ==
  ASSUME Lists!ListAssumption
  PROVE  ListType => RanksApart
<1> SUFFICES ASSUME ListType PROVE RanksApart
  OBVIOUS
<1>1. PICK S : S = Lists!Matching(query)
  OBVIOUS
<1>2. /\ IsFiniteSet(S)
      /\ \A i \in S : ~Lists!Before(query, i, i)
      /\ \A i, j \in S : i # j => Lists!Before(query, i, j) \/ Lists!Before(query, j, i)
      /\ \A i, j, k \in S : Lists!Before(query, i, j) /\ Lists!Before(query, j, k) => Lists!Before(query, i, k)
  BY <1>1, ListOrder
<1>3. PICK before : before = [b \in S |-> {j \in S : Lists!Before(query, j, b)}]
  OBVIOUS
<1>4. before \in [S -> SUBSET S] /\ \A b \in S : before[b] = {j \in S : Lists!Before(query, j, b)}
  BY <1>3
<1>5. before \in [S -> SUBSET S]
  BY <1>4
<1>6. Ordered(S, before)
  <2>1. \A b \in S : b \notin before[b]
    BY <1>2, <1>4
  <2>2. ASSUME NEW b \in S, NEW d \in S, b # d PROVE Sooner(before, b, d) \/ Sooner(before, d, b)
    BY <1>2, <1>4, <2>2 DEF Sooner
  <2> QED
    BY <1>5, <2>1, <2>2 DEF Ordered
<1>7. \A b, c \in S : Cardinality(before[b]) = Cardinality(before[c]) => b = c
  <2>1. Ranking(S, before)
    BY <1>2, <1>6, Ranks
  <2> QED
    BY <2>1 DEF Ranking
<1>8. \A i \in S : before[i] = Ahead(i) /\ before[i] \in SUBSET S
  BY <1>1, <1>4 DEF Ahead
<1>9. \A i \in S : IsFiniteSet(before[i]) /\ Cardinality(before[i]) \in Nat
  BY <1>2, <1>8, FS_Subset, FS_CardinalityType
<1> QED
  BY <1>1, <1>7, <1>8, <1>9 DEF Rank, RanksApart

LEMMA RanksStayApart ==
  ASSUME Lists!ListAssumption
  PROVE  ListType' => RanksApart'
<1>1. ListType => RanksApart
  BY ListRanks
<1> QED
  BY <1>1, PTL

(* In the order the database gives them in, the receipts are by rank. *)
LEMMA PlacesAreRanks ==
  ASSUME Lists!ListAssumption, ListType, NEW o \in Lists!Orders(query), NEW S, S = Lists!Matching(query)
  PROVE  /\ Len(o) \in Nat /\ o \in [1..Len(o) -> S]
         /\ \A x \in 1..Len(o) : Rank(o[x]) = x - 1
         /\ \A i \in S : \E x \in 1..Len(o) : o[x] = i
<1>1. /\ IsFiniteSet(S)
      /\ \A i, j \in S : i # j => Lists!Before(query, i, j) \/ Lists!Before(query, j, i)
      /\ \A i \in S : ~Lists!Before(query, i, i)
  BY ListOrder
<1>2. PICK n : n = Cardinality(S)
  OBVIOUS
<1>3. n \in Nat
  BY <1>1, <1>2, FS_CardinalityType
<1>4. o \in [1..n -> S] /\ \A x, y \in 1..n : x < y => o[x] # o[y] /\ ~Lists!Before(query, o[y], o[x])
  <2>1. Lists!Cardinality(S) = n
    BY <1>2, ListNumbers
  <2>2. o \in [1..n -> S] /\ \A x, y \in DOMAIN o : x < y => o[x] # o[y] /\ ~Lists!Before(query, o[y], o[x])
    BY <2>1 DEF Lists!Orders
  <2> QED
    BY <2>2
<1>5. Len(o) = n
  BY <1>3, <1>4
<1>6. \A x, y \in 1..n : o[x] = o[y] => x = y
  BY <1>3, <1>4
<1>7. \A i \in S : \E x \in 1..n : o[x] = i
  <2>1. o \in Injection(1..n, S)
    BY <1>4, <1>6 DEF Injection, IsInjective
  <2>2. IsFiniteSet(1..n) /\ Cardinality(1..n) = n
    BY <1>3, FS_Interval
  <2>3. o \in Surjection(1..n, S)
    BY <1>1, <1>2, <2>1, <2>2, FS_Injection
  <2> QED
    BY <2>3 DEF Surjection
<1>8. ASSUME NEW x \in 1..n PROVE Rank(o[x]) = x - 1
  <2>1. Ahead(o[x]) = {o[y] : y \in 1..(x - 1)}
    <3>1. \A y \in 1..n : Lists!Before(query, o[y], o[x]) <=> y < x
      <4> SUFFICES ASSUME NEW y \in 1..n PROVE Lists!Before(query, o[y], o[x]) <=> y < x
        OBVIOUS
      <4>1. CASE y < x
        BY <1>1, <1>4, <4>1
      <4>2. CASE y = x
        BY <1>1, <1>4, <4>2
      <4>3. CASE x < y
        BY <1>3, <1>4, <4>3
      <4> QED
        BY <1>3, <4>1, <4>2, <4>3
    <3>2. Ahead(o[x]) = {i \in S : Lists!Before(query, i, o[x])}
      BY DEF Ahead
    <3> QED
      BY <1>3, <1>4, <1>7, <3>1, <3>2
  <2>2. PICK f : f = [y \in 1..(x - 1) |-> o[y]]
    OBVIOUS
  <2>3. f \in Bijection(1..(x - 1), Ahead(o[x]))
    BY <1>3, <1>6, <2>1, <2>2 DEF Bijection, Injection, Surjection, IsInjective
  <2>4. Cardinality(Ahead(o[x])) = x - 1
    <3>1. x - 1 \in Nat /\ ExistsBijection(1..(x - 1), Ahead(o[x]))
      BY <1>3, <2>3 DEF ExistsBijection
    <3> QED
      BY <3>1, FS_CountingElements
  <2> QED
    BY <2>4 DEF Rank
<1> QED
  BY <1>3, <1>4, <1>5, <1>7, <1>8

LEMMA FewSteady ==
  ASSUME Lists!ListAssumption, PageInv
  PROVE  /\ IsFiniteSet(steady) /\ IsFiniteSet(Unread) /\ IsFiniteSet(Skipped) /\ IsFiniteSet(Pending)
         /\ IsFiniteSet(Doubled)
<1>1. IsFiniteSet(steady)
  <2>1. CASE phase = "idle"
    BY <2>1, FS_EmptySet DEF PageInv
  <2>2. CASE phase # "idle"
    <3>1. steady \in SUBSET Lists!Matching(query) /\ IsFiniteSet(Lists!Matching(query))
      BY <2>2, ListOrder DEF PageInv
    <3> QED
      BY <3>1, FS_Subset
  <2> QED
    BY <2>1, <2>2
<1>2. IsFiniteSet(DOMAIN read)
  <2>1. DOMAIN read = 1..Len(read) /\ Len(read) \in Nat
    BY DEF PageInv, ListType
  <2> QED
    BY <2>1, FS_Interval
<1>3. Unread \in SUBSET steady /\ Skipped \in SUBSET steady /\ Pending \in SUBSET steady /\ Doubled \in SUBSET DOMAIN read
  BY DEF Unread, Skipped, Pending, Doubled
<1> QED
  BY <1>1, <1>2, <1>3, FS_Subset

(* The first page is asked for: nothing is skipped, nothing is read. *)
LEMMA AskStep ==
  ASSUME Lists!ListAssumption, PageInv, Lists!Ask
  PROVE  PageInv'
<1>1. /\ UNCHANGED <<stored, skip, read, came, went>> /\ phase' = "paging" /\ query' \in Queries
      /\ skip = 0 /\ read = <<>> /\ came = 0 /\ went = 0
  BY DEF Lists!Ask, PageInv
<1>2. steady' = Lists!Matching(query)'
  <2>1. PICK q \in Queries : query' = q /\ steady' = Lists!Matching(q)
    BY DEF Lists!Ask
  <2> QED
    BY <1>1, <2>1 DEF Lists!Matching
<1>3. ListType'
  BY <1>1 DEF ListType, PageInv
<1>4. Unread' = steady' /\ Doubled' = {} /\ Pending' = {}
  BY <1>1 DEF Unread, Doubled, Pending
<1>5. Skipped' = {}
  <2> SUFFICES ASSUME NEW i \in Skipped' PROVE FALSE
    OBVIOUS
  <2>1. i \in Lists!Matching(query)' /\ Rank(i)' < 0
    BY <1>1, <1>2, <1>4 DEF Skipped
  <2>2. (\A j \in Lists!Matching(query) : Rank(j) \in Nat)'
    BY <1>3, RanksStayApart DEF RanksApart
  <2> QED
    BY <2>1, <2>2
<1>6. (Cardinality(Skipped) <= went /\ Cardinality(Doubled) + Cardinality(Pending) <= came)'
  BY <1>1, <1>4, <1>5, FS_EmptySet
<1> QED
  BY <1>1, <1>2, <1>3, <1>6 DEF PageInv

(* A receipt that is changed elsewhere moves the rank of another by one at most:   *)
(* back where it leaves the list, on where it enters it.                           *)
LEMMA RanksMove ==
  ASSUME Lists!ListAssumption, PageInv, phase = "paging", NEW i,
         NEW r \in EntryRows \cup {Absent}, Lists!Change(i, r), NEW j \in steady \ {i}
  PROVE  /\ Rank(j) \in Nat /\ Rank(j)' \in Nat
         /\ Rank(j) <= Rank(j)' + 1 /\ Rank(j)' <= Rank(j) + 1
         /\ Rank(j)' < Rank(j) => went' = went + 1
         /\ Rank(j)' > Rank(j) => came' = came + 1
         /\ came' \in {came, came + 1} /\ went' \in {went, went + 1}
<1>1. /\ stored' = [stored EXCEPT ![i] = r] /\ UNCHANGED <<query, phase>>
      /\ came' = came + (IF r # Absent /\ Lists!InList(query, r) THEN 1 ELSE 0)
      /\ went' = went + (IF stored[i] # Absent /\ Lists!InList(query, stored[i]) THEN 1 ELSE 0)
  BY DEF Lists!Change
<1>2. came \in Nat /\ went \in Nat /\ came' \in {came, came + 1} /\ went' \in {went, went + 1}
  BY <1>1 DEF PageInv, ListType
<1>3. \A k \in Entries \ {i} : stored'[k] = stored[k]
  BY <1>1 DEF PageInv, ListType
<1>4. \A k \in Entries \ {i} : k \in Lists!Matching(query) <=> k \in Lists!Matching(query)'
  BY <1>1, <1>3 DEF Lists!Matching
<1>5. j \in Entries \ {i} /\ j \in Lists!Matching(query)
  BY DEF PageInv, Lists!Matching
<1>6. \A k \in Entries \ {i} : Lists!Before(query, k, j) <=> Lists!Before(query, k, j)'
  BY <1>1, <1>3, <1>5 DEF Lists!Before, Lists!Ranked, Lists!Listed, Lists!SortValue
<1>7. Ahead(j) \ {i} = Ahead(j)' \ {i}
  <2>1. Lists!Matching(query) \subseteq Entries /\ Lists!Matching(query)' \subseteq Entries
    BY DEF Lists!Matching
  <2>2. Ahead(j) = {k \in Lists!Matching(query) : Lists!Before(query, k, j)}
    BY DEF Ahead
  <2>3. Ahead(j)' = {k \in Lists!Matching(query)' : Lists!Before(query, k, j)'}
    BY DEF Ahead
  <2> QED
    BY <1>4, <1>6, <2>1, <2>2, <2>3
<1>8. i \in Ahead(j) => went' = went + 1
  BY <1>1 DEF Ahead, Lists!Matching
<1>9. i \in Ahead(j)' => came' = came + 1
  <2>1. i \in Ahead(j)' => i \in Entries /\ stored'[i] # Absent /\ Lists!InList(query, stored'[i])
    BY <1>1 DEF Ahead, Lists!Matching
  <2>2. i \in Entries => stored'[i] = r
    BY <1>1 DEF PageInv, ListType
  <2> QED
    BY <1>1, <2>1, <2>2
<1>10. RanksApart /\ RanksApart'
  <2>1. ListType'
    <3>1. stored' \in [Entries -> EntryRows \cup {Absent}]
      BY <1>1 DEF PageInv, ListType
    <3> QED
      BY <1>2, <3>1 DEF PageInv, ListType, Lists!Change
  <2> QED
    BY <2>1, ListRanks, RanksStayApart DEF PageInv
<1>11. PICK A, B : A = Ahead(j) /\ B = Ahead(j)'
  OBVIOUS
<1>12. j \in Lists!Matching(query)'
  BY <1>4, <1>5
<1>13. IsFiniteSet(A) /\ IsFiniteSet(B) /\ Cardinality(A) \in Nat /\ Cardinality(B) \in Nat
  BY <1>5, <1>10, <1>11, <1>12, FS_CardinalityType DEF RanksApart
<1>14. /\ Cardinality(A \ {i}) = (IF i \in A THEN Cardinality(A) - 1 ELSE Cardinality(A))
       /\ Cardinality(B \ {i}) = (IF i \in B THEN Cardinality(B) - 1 ELSE Cardinality(B))
       /\ A \ {i} = B \ {i}
  BY <1>7, <1>11, <1>13, FS_RemoveElement
<1>15. Rank(j) = Cardinality(A) /\ Rank(j)' = Cardinality(B)
  BY <1>11 DEF Rank
<1> QED
  BY <1>2, <1>8, <1>9, <1>11, <1>13, <1>14, <1>15

(* Nothing of this depends on the receipt that is changed: it is steady no more. *)
LEMMA ShiftStep ==
  ASSUME Lists!ListAssumption, PageInv, NEW i \in Entries,
         NEW r \in EntryRows \cup {Absent}, Lists!Change(i, r)
  PROVE  PageInv'
<1>1. /\ stored' = [stored EXCEPT ![i] = r] /\ UNCHANGED <<query, skip, read, phase>> /\ steady' = steady \ {i}
      /\ phase \in {"idle", "paging"}
      /\ came' = came + (IF phase = "paging" /\ r # Absent /\ Lists!InList(query, r) THEN 1 ELSE 0)
      /\ went' = went + (IF phase = "paging" /\ stored[i] # Absent /\ Lists!InList(query, stored[i]) THEN 1 ELSE 0)
  BY DEF Lists!Change
<1>2. ListType'
  <2>1. stored' \in [Entries -> EntryRows \cup {Absent}]
    BY <1>1 DEF PageInv, ListType
  <2>2. came' \in Nat /\ went' \in Nat
    BY <1>1 DEF PageInv, ListType
  <2> QED
    BY <1>1, <2>1, <2>2 DEF PageInv, ListType
<1>3. \A j \in Entries \ {i} : stored'[j] = stored[j]
  BY <1>1 DEF PageInv, ListType
<1>4. CASE phase = "idle"
  BY <1>1, <1>2, <1>4 DEF PageInv
<1>5. CASE phase = "paging"
  <2>1. steady' \subseteq Lists!Matching(query)'
    <3>1. steady \subseteq Lists!Matching(query)
      BY <1>5 DEF PageInv
    <3> QED
      BY <1>1, <1>3, <3>1 DEF Lists!Matching
  <2>2. \A x \in DOMAIN read' : read'[x].id \in steady' => read'[x].row = stored'[read'[x].id]
    <3>1. steady \subseteq Entries
      BY <1>5 DEF PageInv, Lists!Matching
    <3> QED
      BY <1>1, <1>3, <3>1 DEF PageInv
  <2>3. Unread' = Unread \ {i} /\ Doubled' \subseteq Doubled
    BY <1>1 DEF Unread, Doubled
  <2>4. \A j \in steady' : /\ Rank(j) \in Nat /\ Rank(j)' \in Nat
                           /\ Rank(j) <= Rank(j)' + 1 /\ Rank(j)' <= Rank(j) + 1
                           /\ (Rank(j)' < Rank(j)) => (went' = went + 1)
                           /\ (Rank(j)' > Rank(j)) => (came' = came + 1)
    BY <1>1, <1>5, RanksMove
  <2>5. \A j, k \in steady' : Rank(j) = Rank(k) => j = k
    <3>1. steady' \subseteq Lists!Matching(query)
      BY <1>1, <1>5 DEF PageInv
    <3> QED
      BY <3>1, ListRanks DEF RanksApart, PageInv
  <2>6. skip \in Nat /\ came \in Nat /\ went \in Nat /\ went' \in {went, went + 1} /\ came' \in {came, came + 1}
    BY <1>1 DEF PageInv, ListType
  <2>7. /\ IsFiniteSet(Skipped) /\ IsFiniteSet(Pending) /\ IsFiniteSet(Doubled)
        /\ IsFiniteSet(Skipped') /\ IsFiniteSet(Pending')
    <3>1. IsFiniteSet(steady) /\ Skipped' \in SUBSET steady /\ Pending' \in SUBSET steady
      BY <1>1, FewSteady DEF Skipped, Pending, Unread
    <3> QED
      BY <3>1, FewSteady, FS_Subset
  <2>8. Cardinality(Skipped') <= Cardinality(Skipped) + (went' - went)
    <3>1. ASSUME NEW j \in Skipped' \ Skipped PROVE j \in steady' /\ Rank(j) = skip /\ went' = went + 1
      <4>1. j \in steady' /\ j \in Unread /\ Rank(j)' < skip
        BY <1>1, <2>3, <3>1 DEF Skipped, Unread
      <4>2. Rank(j) >= skip
        BY <2>4, <2>6, <3>1, <4>1 DEF Skipped
      <4> QED
        BY <2>4, <2>6, <4>1, <4>2
    <3>2. CASE went' = went
      <4>1. Skipped' \in SUBSET Skipped
        BY <2>6, <3>1, <3>2
      <4> QED
        BY <2>6, <2>7, <3>2, <4>1, FS_Subset, FS_CardinalityType
    <3>3. CASE went' = went + 1
      <4>1. \A j, k \in Skipped' \ Skipped : j = k
        BY <2>5, <3>1
      <4>2. Cardinality(Skipped') <= Cardinality(Skipped) + 1
        BY <2>7, <4>1, OneMore
      <4> QED
        BY <2>6, <3>3, <4>2
    <3> QED
      BY <2>6, <3>2, <3>3
  <2>9. Cardinality(Pending') <= Cardinality(Pending) + (came' - came)
    <3>1. ASSUME NEW j \in Pending' \ Pending PROVE j \in steady' /\ Rank(j) = skip - 1 /\ came' = came + 1
      <4>1. j \in steady' /\ j \in steady \ Unread /\ Rank(j)' >= skip
        BY <1>1, <2>3, <3>1 DEF Pending, Unread
      <4>2. Rank(j) < skip
        BY <2>4, <2>6, <3>1, <4>1 DEF Pending
      <4> QED
        BY <2>4, <2>6, <4>1, <4>2
    <3>2. CASE came' = came
      <4>1. Pending' \in SUBSET Pending
        BY <2>6, <3>1, <3>2
      <4> QED
        BY <2>6, <2>7, <3>2, <4>1, FS_Subset, FS_CardinalityType
    <3>3. CASE came' = came + 1
      <4>1. \A j, k \in Pending' \ Pending : j = k
        BY <2>5, <3>1
      <4>2. Cardinality(Pending') <= Cardinality(Pending) + 1
        BY <2>7, <4>1, OneMore
      <4> QED
        BY <2>6, <3>3, <4>2
    <3> QED
      BY <2>6, <3>2, <3>3
  <2>10. Cardinality(Doubled') <= Cardinality(Doubled) /\ IsFiniteSet(Doubled')
    BY <2>3, <2>7, FS_Subset
  <2>11. /\ Cardinality(Skipped) \in Nat /\ Cardinality(Pending) \in Nat /\ Cardinality(Doubled) \in Nat
         /\ Cardinality(Skipped') \in Nat /\ Cardinality(Pending') \in Nat /\ Cardinality(Doubled') \in Nat
    BY <2>7, <2>10, FS_CardinalityType
  <2>12. Cardinality(Skipped') <= went' /\ Cardinality(Doubled') + Cardinality(Pending') <= came'
    <3>1. Cardinality(Skipped) <= went /\ Cardinality(Doubled) + Cardinality(Pending) <= came
      BY <1>5 DEF PageInv
    <3> QED
      BY <2>6, <2>8, <2>9, <2>10, <2>11, <3>1
  <2>13. query' \in Queries /\ phase' = "paging"
    BY <1>1, <1>5 DEF PageInv
  <2> QED
    BY <1>2, <2>1, <2>2, <2>12, <2>13 DEF PageInv
<1> QED
  BY <1>1, <1>4, <1>5

(* A page has the receipts of the ranks from the OFFSET on, as many as it has rows. *)
Fetched(o, n) ==
  /\ Len(read') = Len(read) + n
  /\ \A x \in 1..Len(read) : read'[x] = read[x]
  /\ \A k \in 1..n : /\ skip + k \in 1..Len(o)
                     /\ read'[Len(read) + k] = [id |-> o[skip + k], row |-> stored[o[skip + k]]]

LEMMA FetchReads ==
  ASSUME Lists!ListAssumption, PageInv, Lists!Fetch
  PROVE  \E o \in Lists!Orders(query), n \in Nat :
           /\ Fetched(o, n) /\ read' \in Seq([id : Entries, row : EntryRows])
           /\ \/ n = query.size /\ skip' = skip + n /\ phase' = "paging"
              \/ skip + n >= Len(o) /\ skip' = skip /\ phase' \in {"done", "empty"}
<1>0. PICK o \in Lists!Orders(query) : \E page :
        /\ page = Lists!Page(query, o, skip)
        /\ read' = read \o [x \in DOMAIN page |-> [id |-> page[x], row |-> stored[page[x]]]]
        /\ skip' = IF Len(page) < query.size THEN skip ELSE skip + query.size
        /\ phase' = IF Len(page) < query.size THEN IF Lists!Kept(query, read') = {} THEN "empty" ELSE "done" ELSE "paging"
  BY DEF Lists!Fetch
<1>1. PICK page :
        /\ page = Lists!Page(query, o, skip)
        /\ read' = read \o [x \in DOMAIN page |-> [id |-> page[x], row |-> stored[page[x]]]]
        /\ skip' = IF Len(page) < query.size THEN skip ELSE skip + query.size
        /\ phase' = IF Len(page) < query.size THEN IF Lists!Kept(query, read') = {} THEN "empty" ELSE "done" ELSE "paging"
  BY <1>0
<1>2. query.size \in Nat \ {0} /\ skip \in Nat /\ read \in Seq([id : Entries, row : EntryRows])
  BY DEF Lists!Fetch, Lists!ListAssumption, PageInv, ListType
<1>3. PICK S : S = Lists!Matching(query)
  OBVIOUS
<1>4. Len(o) \in Nat /\ o \in [1..Len(o) -> S]
  BY <1>3, PlacesAreRanks DEF PageInv
<1>5. \A i \in S : i \in Entries /\ stored[i] \in EntryRows
  BY <1>3 DEF Lists!Matching, PageInv, ListType
<1>6. PICK e : e = IF skip + query.size < Len(o) THEN skip + query.size ELSE Len(o)
  OBVIOUS
<1>7. PICK n : n = IF skip + 1 <= e THEN e - skip ELSE 0
  OBVIOUS
<1>8. /\ e \in Nat /\ e <= Len(o) /\ n \in Nat /\ n <= query.size
      /\ n < query.size => skip + n >= Len(o)
      /\ \A k \in 1..n : skip + k \in 1..Len(o)
  <2>0. PICK many, full : many = query.size /\ full = Len(o) /\ many \in Nat \ {0} /\ full \in Nat
    BY <1>2, <1>4
  <2>1. /\ e \in Nat /\ e <= full /\ e <= skip + many
        /\ e = full \/ e = skip + many
    BY <1>2, <1>6, <2>0
  <2>2. n \in Nat /\ n <= many /\ (n > 0 => skip + n = e) /\ (n = 0 => skip + 1 > e)
    BY <1>2, <1>7, <2>0, <2>1
  <2>3. n < many => skip + n >= full
    BY <1>2, <2>0, <2>1, <2>2
  <2>4. \A k \in 1..n : skip + k \in 1..full
    BY <1>2, <2>0, <2>1, <2>2
  <2> QED
    BY <2>0, <2>1, <2>2, <2>3, <2>4
<1>9. page \in Seq(S) /\ Len(page) = n /\ \A k \in 1..n : page[k] = o[skip + k]
  <2>1. page = SubSeq(o, skip + 1, e)
    BY <1>1, <1>6 DEF Lists!Page
  <2>2. \A k \in (skip + 1)..e : o[k] \in S
    <3>1. \A k \in (skip + 1)..e : k \in 1..Len(o)
      BY <1>2, <1>4, <1>8
    <3> QED
      BY <1>4, <3>1
  <2>3. /\ page \in Seq(S) /\ Len(page) = IF skip + 1 <= e THEN e - (skip + 1) + 1 ELSE 0
        /\ \A k \in 1..(e - (skip + 1) + 1) : page[k] = o[skip + 1 + k - 1]
    <3>1. skip + 1 \in Int /\ e \in Int
      BY <1>2, <1>8
    <3> QED
      BY <2>1, <2>2, <3>1, SubSeqProperties
  <2>4. Len(page) = n
    BY <1>2, <1>7, <1>8, <2>3
  <2>5. \A k \in 1..n : page[k] = o[skip + k]
    BY <1>2, <1>7, <1>8, <2>3
  <2> QED
    BY <2>3, <2>4, <2>5
<1>10. PICK rows2 : rows2 = [x \in DOMAIN page |-> [id |-> page[x], row |-> stored[page[x]]]]
  OBVIOUS
<1>11. /\ rows2 \in Seq([id : Entries, row : EntryRows]) /\ Len(rows2) = n
       /\ \A k \in 1..n : rows2[k] = [id |-> o[skip + k], row |-> stored[o[skip + k]]]
  <2>1. DOMAIN page = 1..n
    BY <1>9
  <2>2. rows2 \in [1..n -> [id : Entries, row : EntryRows]]
    <3>1. \A k \in 1..n : page[k] \in Entries /\ stored[page[k]] \in EntryRows
      BY <1>5, <1>9
    <3> QED
      BY <1>10, <2>1, <3>1
  <2> QED
    BY <1>8, <1>9, <1>10, <2>1, <2>2
<1>12. /\ read' \in Seq([id : Entries, row : EntryRows]) /\ Len(read') = Len(read) + n
       /\ \A x \in 1..(Len(read) + n) : read'[x] = IF x <= Len(read) THEN read[x] ELSE rows2[x - Len(read)]
  <2>1. read' = read \o rows2
    BY <1>1, <1>10
  <2> QED
    BY <1>2, <1>11, <2>1, ConcatProperties
<1>13. Fetched(o, n)
  <2>1. \A x \in 1..Len(read) : read'[x] = read[x]
    BY <1>2, <1>8, <1>12
  <2>2. ASSUME NEW k \in 1..n PROVE read'[Len(read) + k] = rows2[k]
    <3>1. Len(read) \in Nat
      BY <1>2
    <3>2. PICK x \in 1..(Len(read) + n) : x = Len(read) + k /\ ~(x <= Len(read)) /\ x - Len(read) = k
      BY <1>8, <3>1, PlaceBehind, Zenon
    <3>3. read'[x] = rows2[x - Len(read)]
      BY <1>12, <3>2
    <3>4. rows2[x - Len(read)] = rows2[k] /\ read'[x] = read'[Len(read) + k]
      BY <3>2
    <3> QED
      BY <3>3, <3>4
  <2> QED
    BY <1>8, <1>11, <1>12, <2>1, <2>2 DEF Fetched
<1>14. \/ n = query.size /\ skip' = skip + n /\ phase' = "paging"
       \/ skip + n >= Len(o) /\ skip' = skip /\ phase' \in {"done", "empty"}
  BY <1>1, <1>2, <1>8, <1>9
<1> QED
  BY <1>8, <1>12, <1>13, <1>14

LEMMA FetchStep ==
  ASSUME Lists!ListAssumption, PageInv, Lists!Fetch
  PROVE  PageInv'
<1>1. PICK o \in Lists!Orders(query), n \in Nat :
        /\ Fetched(o, n) /\ read' \in Seq([id : Entries, row : EntryRows])
        /\ \/ n = query.size /\ skip' = skip + n /\ phase' = "paging"
           \/ skip + n >= Len(o) /\ skip' = skip /\ phase' \in {"done", "empty"}
  BY FetchReads
<1>2. UNCHANGED <<stored, query, came, went, steady>> /\ phase = "paging"
  BY DEF Lists!Fetch
<1>3. /\ skip \in Nat /\ came \in Nat /\ went \in Nat /\ Len(read) \in Nat
      /\ DOMAIN read = 1..Len(read) /\ DOMAIN read' = 1..(Len(read) + n)
  BY <1>1 DEF PageInv, ListType, Fetched
<1>4. ListType' /\ query' \in Queries /\ steady' \subseteq Lists!Matching(query)'
  BY <1>1, <1>2, <1>3 DEF PageInv, ListType, Lists!Matching
<1>5. PICK S : S = Lists!Matching(query) /\ steady \subseteq S
  BY <1>2 DEF PageInv
<1>6. /\ Len(o) \in Nat /\ o \in [1..Len(o) -> S]
      /\ \A x \in 1..Len(o) : Rank(o[x]) = x - 1
      /\ \A i \in S : \E x \in 1..Len(o) : o[x] = i
  BY <1>5, PlacesAreRanks DEF PageInv
<1>7. \A i : Rank(i)' = Rank(i)
  BY <1>2 DEF Rank, Ahead, Lists!Matching, Lists!Before, Lists!Ranked, Lists!Listed, Lists!SortValue
<1>8. PICK onpage, rank : rank = [i \in S |-> Rank(i)] /\ onpage = {i \in S : Rank(i) >= skip /\ Rank(i) < skip + n}
  OBVIOUS
<1>9. \A k \in 1..n : /\ skip + k \in 1..Len(o) /\ read'[Len(read) + k].id = o[skip + k]
                      /\ read'[Len(read) + k].row = stored[o[skip + k]]
                      /\ o[skip + k] \in onpage /\ rank[o[skip + k]] = skip + k - 1
  <2> SUFFICES ASSUME NEW k \in 1..n
               PROVE  /\ skip + k \in 1..Len(o) /\ read'[Len(read) + k].id = o[skip + k]
                      /\ read'[Len(read) + k].row = stored[o[skip + k]]
                      /\ o[skip + k] \in onpage /\ rank[o[skip + k]] = skip + k - 1
    OBVIOUS
  <2>1. skip + k \in 1..Len(o) /\ read'[Len(read) + k] = [id |-> o[skip + k], row |-> stored[o[skip + k]]]
    BY <1>1 DEF Fetched
  <2>2. o \in [1..Len(o) -> S] /\ \A x \in 1..Len(o) : rank[o[x]] = x - 1
    BY <1>6, <1>8
  <2>3. o[skip + k] \in S /\ rank[o[skip + k]] = skip + k - 1
    BY <1>3, <2>1, <2>2
  <2>4. onpage = {i \in S : rank[i] >= skip /\ rank[i] < skip + n}
    BY <1>8
  <2> QED
    BY <1>3, <2>1, <2>3, <2>4
<1>10. \A i \in onpage : \E k \in 1..n : read'[Len(read) + k].id = i
  <2> SUFFICES ASSUME NEW i \in onpage PROVE \E k \in 1..n : read'[Len(read) + k].id = i
    OBVIOUS
  <2>1. PICK x \in 1..Len(o) : o[x] = i
    BY <1>6, <1>8
  <2>2. x - skip \in 1..n /\ skip + (x - skip) = x
    BY <1>3, <1>6, <1>8, <2>1
  <2> QED
    BY <1>9, <2>1, <2>2
<1>11. \A x \in 1..(Len(read) + n) : x \in 1..Len(read) \/ \E k \in 1..n : x = Len(read) + k
  <2> SUFFICES ASSUME NEW x \in 1..(Len(read) + n), x \notin 1..Len(read) PROVE \E k \in 1..n : x = Len(read) + k
    OBVIOUS
  <2>1. x - Len(read) \in 1..n /\ x = Len(read) + (x - Len(read))
    BY <1>3
  <2> QED
    BY <2>1
<1>12. \A x \in 1..Len(read) : read'[x] = read[x]
  BY <1>1 DEF Fetched
<1>13. \A x \in DOMAIN read' : read'[x].id \in steady' => read'[x].row = stored'[read'[x].id]
  <2> SUFFICES ASSUME NEW x \in DOMAIN read', read'[x].id \in steady PROVE read'[x].row = stored[read'[x].id]
    BY <1>2
  <2>1. CASE x \in DOMAIN read
    <3>1. read'[x] = read[x]
      BY <1>3, <1>12, <2>1
    <3> QED
      BY <2>1, <3>1 DEF PageInv
  <2>2. CASE x \notin DOMAIN read
    <3>1. PICK k \in 1..n : x = Len(read) + k
      BY <1>3, <1>11, <2>2
    <3> QED
      BY <1>9, <3>1
  <2> QED
    BY <2>1, <2>2
<1>14. Unread' = Unread \ onpage
  <2>1. \A i \in steady : (\E x \in DOMAIN read' : read'[x].id = i) <=> (\E x \in DOMAIN read : read[x].id = i) \/ i \in onpage
    <3>1. \A x \in DOMAIN read : x \in DOMAIN read' /\ read'[x] = read[x]
      BY <1>3, <1>12
    <3>2. \A k \in 1..n : Len(read) + k \in DOMAIN read'
      BY <1>3
    <3>3. \A i \in onpage : \E x \in DOMAIN read' : read'[x].id = i
      BY <1>10, <3>2
    <3>4. \A x \in DOMAIN read' : (x \in DOMAIN read /\ read'[x] = read[x]) \/ read'[x].id \in onpage
      <4> SUFFICES ASSUME NEW x \in DOMAIN read', x \notin DOMAIN read PROVE read'[x].id \in onpage
        BY <3>1
      <4>1. PICK k \in 1..n : x = Len(read) + k
        BY <1>3, <1>11
      <4> QED
        BY <1>9, <4>1
    <3> QED
      BY <3>1, <3>3, <3>4
  <2> QED
    BY <1>2, <2>1 DEF Unread
<1>15. PICK again2 : again2 = (steady \ Unread) \cap onpage
  OBVIOUS
<1>16. PICK new2 : new2 = Doubled' \ Doubled
  OBVIOUS
<1>17. \A x \in new2 : \E k \in 1..n : x = Len(read) + k /\ o[skip + k] \in again2
  <2> SUFFICES ASSUME NEW x \in new2 PROVE \E k \in 1..n : x = Len(read) + k /\ o[skip + k] \in again2
    OBVIOUS
  <2>1. x \in DOMAIN read' /\ read'[x].id \in steady
    BY <1>2, <1>16 DEF Doubled
  <2>2. PICK y \in DOMAIN read' : y < x /\ read'[y].id = read'[x].id
    BY <1>16 DEF Doubled
  <2>3. x \notin DOMAIN read
    <3>1. SUFFICES ASSUME x \in DOMAIN read PROVE FALSE
      OBVIOUS
    <3>2. y \in DOMAIN read
      BY <1>3, <2>2, <3>1
    <3>3. x \in Doubled
      BY <1>3, <1>12, <2>1, <2>2, <3>1, <3>2 DEF Doubled
    <3> QED
      BY <1>16, <3>3
  <2>4. PICK k \in 1..n : x = Len(read) + k
    BY <1>3, <1>11, <2>1, <2>3
  <2>5. y \in DOMAIN read
    <3>1. SUFFICES ASSUME y \notin DOMAIN read PROVE FALSE
      OBVIOUS
    <3>2. PICK l \in 1..n : y = Len(read) + l
      BY <1>3, <1>11, <2>2, <3>1
    <3>3. o[skip + l] = o[skip + k] /\ l # k
      BY <1>3, <1>9, <2>2, <2>4, <3>2
    <3>4. skip + l - 1 = skip + k - 1
      BY <1>9, <3>3
    <3> QED
      BY <1>3, <3>3, <3>4
  <2>6. read'[y] = read[y]
    BY <1>3, <1>12, <2>5
  <2>7. read[y].id = o[skip + k] /\ o[skip + k] \in steady /\ o[skip + k] \in onpage
    BY <1>9, <2>1, <2>2, <2>4, <2>6
  <2>8. o[skip + k] \notin Unread
    BY <2>5, <2>7 DEF Unread
  <2> QED
    BY <1>15, <2>4, <2>7, <2>8
<1>18. /\ IsFiniteSet(Pending) /\ IsFiniteSet(Skipped) /\ IsFiniteSet(Doubled) /\ IsFiniteSet(again2)
       /\ IsFiniteSet(Unread)
  <2>1. IsFiniteSet(steady) /\ again2 \in SUBSET steady
    BY <1>15, FewSteady
  <2> QED
    BY <2>1, FewSteady, FS_Subset
<1>19. IsFiniteSet(new2) /\ Cardinality(new2) <= Cardinality(again2)
  <2>1. PICK f : f = [x \in new2 |-> o[skip + (x - Len(read))]]
    OBVIOUS
  <2>2. f \in [new2 -> again2]
    <3> SUFFICES ASSUME NEW x \in new2 PROVE o[skip + (x - Len(read))] \in again2
      BY <2>1
    <3>1. PICK k \in 1..n : x = Len(read) + k /\ o[skip + k] \in again2
      BY <1>17
    <3>2. x - Len(read) = k
      BY <1>3, <3>1
    <3> QED
      BY <3>1, <3>2
  <2>3. \A x, y \in new2 : f[x] = f[y] => x = y
    <3> SUFFICES ASSUME NEW x \in new2, NEW y \in new2, f[x] = f[y] PROVE x = y
      OBVIOUS
    <3>1. PICK k \in 1..n, l \in 1..n : x = Len(read) + k /\ y = Len(read) + l
      BY <1>17
    <3>2. x - Len(read) = k /\ y - Len(read) = l
      BY <1>3, <3>1
    <3>3. o[skip + k] = o[skip + l]
      BY <2>1, <3>2
    <3>4. skip + k - 1 = skip + l - 1
      BY <1>9, <3>3
    <3> QED
      BY <1>3, <3>1, <3>4
  <2>4. f \in Injection(new2, again2)
    BY <2>2, <2>3 DEF Injection, IsInjective
  <2> QED
    BY <1>18, <2>4, FS_Injection
<1>20. IsFiniteSet(Doubled') /\ Cardinality(Doubled') <= Cardinality(Doubled) + Cardinality(again2)
  <2>1. IsFiniteSet(Doubled \cup new2) /\ Doubled' \in SUBSET (Doubled \cup new2)
    BY <1>16, <1>18, <1>19, FS_Union
  <2>2. Cardinality(Doubled \cup new2) = Cardinality(Doubled) + Cardinality(new2) - Cardinality(Doubled \cap new2)
    BY <1>18, <1>19, FS_Union
  <2>3. Cardinality(Doubled') <= Cardinality(Doubled \cup new2) /\ IsFiniteSet(Doubled')
    BY <2>1, FS_Subset
  <2>4. /\ Cardinality(Doubled \cap new2) \in Nat /\ Cardinality(new2) \in Nat /\ Cardinality(Doubled) \in Nat
        /\ Cardinality(again2) \in Nat /\ Cardinality(Doubled') \in Nat
    BY <1>18, <1>19, <2>3, FS_Intersection, FS_CardinalityType
  <2> QED
    BY <1>19, <2>2, <2>3, <2>4
<1>21. Cardinality(Doubled) + Cardinality(Pending) <= came /\ Cardinality(Skipped) <= went
  BY <1>2 DEF PageInv
<1>22. again2 \subseteq Pending
  BY <1>8, <1>15 DEF Pending
<1>23. \A i \in S : Rank(i) \in Nat /\ (i \in onpage <=> Rank(i) >= skip /\ Rank(i) < skip + n)
  BY <1>5, <1>8, ListRanks DEF RanksApart, PageInv
<1>24. /\ Cardinality(Doubled) \in Nat /\ Cardinality(again2) \in Nat /\ Cardinality(Pending) \in Nat
       /\ Cardinality(Doubled') \in Nat /\ Cardinality(Skipped) \in Nat
  BY <1>18, <1>20, FS_CardinalityType
<1>25. CASE n = query.size /\ skip' = skip + n /\ phase' = "paging"
  <2>1. Skipped' \in SUBSET Skipped
    <3> SUFFICES ASSUME NEW i \in Skipped' PROVE i \in Skipped
      OBVIOUS
    <3>1. i \in Unread' /\ Rank(i) < skip + n
      BY <1>7, <1>25 DEF Skipped
    <3>2. i \in Unread /\ i \in S /\ i \notin onpage
      BY <1>5, <1>14, <3>1 DEF Unread
    <3> QED
      BY <1>3, <1>23, <3>1, <3>2 DEF Skipped
  <2>2. Cardinality(Skipped') <= went'
    <3>1. Cardinality(Skipped') <= Cardinality(Skipped) /\ IsFiniteSet(Skipped')
      BY <1>18, <2>1, FS_Subset
    <3>2. Cardinality(Skipped') \in Nat
      BY <3>1, FS_CardinalityType
    <3> QED
      BY <1>2, <1>3, <1>21, <1>24, <3>1, <3>2
  <2>3. Pending' \in SUBSET (Pending \ again2)
    <3> SUFFICES ASSUME NEW i \in Pending' PROVE i \in Pending \ again2
      OBVIOUS
    <3>1. i \in steady /\ i \notin Unread' /\ Rank(i) >= skip + n
      BY <1>2, <1>7, <1>25 DEF Pending
    <3>2. i \notin onpage /\ Rank(i) >= skip
      BY <1>3, <1>5, <1>23, <3>1
    <3> QED
      BY <1>14, <1>15, <3>1, <3>2 DEF Pending
  <2>4. Cardinality(Pending') <= Cardinality(Pending) - Cardinality(again2) /\ Cardinality(Pending') \in Nat
    <3>1. Pending \cap again2 = again2
      BY <1>22
    <3>2. IsFiniteSet(Pending \ again2) /\ Cardinality(Pending \ again2) = Cardinality(Pending) - Cardinality(again2)
      BY <1>18, <3>1, FS_Difference
    <3>3. IsFiniteSet(Pending') /\ Cardinality(Pending') <= Cardinality(Pending \ again2)
      BY <2>3, <3>2, FS_Subset
    <3> QED
      BY <3>2, <3>3, FS_CardinalityType
  <2>5. Cardinality(Doubled') + Cardinality(Pending') <= came'
    BY <1>2, <1>3, <1>20, <1>21, <1>24, <2>4
  <2> QED
    BY <1>4, <1>13, <1>25, <2>2, <2>5 DEF PageInv
<1>26. CASE skip + n >= Len(o) /\ skip' = skip /\ phase' \in {"done", "empty"}
  <2>1. Unread' \in SUBSET Skipped
    <3> SUFFICES ASSUME NEW i \in Unread' PROVE i \in Skipped
      OBVIOUS
    <3>1. i \in Unread /\ i \in S /\ i \notin onpage
      BY <1>5, <1>14 DEF Unread
    <3>2. Rank(i) < skip + n
      <4>1. PICK x \in 1..Len(o) : o[x] = i
        BY <1>6, <3>1
      <4>2. Rank(i) = x - 1
        BY <1>6, <4>1
      <4> QED
        BY <1>3, <1>6, <1>26, <4>2
    <3>3. Rank(i) < skip
      BY <1>3, <1>23, <3>1, <3>2
    <3> QED
      BY <3>1, <3>3 DEF Skipped
  <2>2. Cardinality(Unread') <= went'
    <3>1. Cardinality(Unread') <= Cardinality(Skipped) /\ IsFiniteSet(Unread')
      BY <1>18, <2>1, FS_Subset
    <3>2. Cardinality(Unread') \in Nat
      BY <3>1, FS_CardinalityType
    <3> QED
      BY <1>2, <1>3, <1>21, <1>24, <3>1, <3>2
  <2>3. Cardinality(Doubled') <= came'
    <3>1. Cardinality(again2) <= Cardinality(Pending)
      BY <1>18, <1>22, FS_Subset
    <3> QED
      BY <1>2, <1>3, <1>20, <1>21, <1>24, <3>1
  <2> QED
    BY <1>4, <1>13, <1>26, <2>2, <2>3 DEF PageInv
<1> QED
  BY <1>1, <1>25, <1>26

(* A receipt that was in the list all the time and that nothing has touched is     *)
(* missed by the pages only where others have left the list, one for each, and     *)
(* repeated only where others have entered it, one for each: for any receipts,     *)
(* queries, page sizes and changes, at any time.                                   *)
THEOREM PagesMissNoMore ==
  ASSUME Lists!ListAssumption
  PROVE  Lists!Spec => []PagesMissFew
<1>1. Lists!Init => PageInv
  BY DEF Lists!Init, Lists!ListAssumption, PageInv, ListType
<1>2. PageInv /\ [Lists!Next]_Lists!vars => PageInv'
  <2> SUFFICES ASSUME PageInv, [Lists!Next]_Lists!vars PROVE PageInv'
    OBVIOUS
  <2>1. CASE Lists!Ask
    BY <2>1, AskStep
  <2>2. CASE Lists!Fetch
    BY <2>2, FetchStep
  <2>3. CASE \E i \in Entries : Lists!Create(i) \/ Lists!Edit(i) \/ Lists!Delete(i)
    <3>1. PICK i \in Entries, r \in EntryRows \cup {Absent} : Lists!Change(i, r)
      BY <2>3 DEF Lists!Create, Lists!Edit, Lists!Delete
    <3> QED
      BY <3>1, ShiftStep
  <2>4. CASE UNCHANGED Lists!vars
    <3>1. /\ UNCHANGED <<stored, query, skip, read, phase, came, went, steady>>
      BY <2>4 DEF Lists!vars, Lists!pages
    <3>2. Skipped' = Skipped /\ Doubled' = Doubled /\ Pending' = Pending /\ Unread' = Unread
      BY <3>1 DEF Skipped, Doubled, Pending, Unread, Rank, Ahead, Lists!Matching, Lists!Before, Lists!Ranked, Lists!Listed,
                  Lists!SortValue
    <3> QED
      BY <3>1, <3>2 DEF PageInv, ListType, Lists!Matching
  <2> QED
    BY <2>1, <2>2, <2>3, <2>4 DEF Lists!Next
<1>3. PageInv => PagesMissFew
  <2> SUFFICES ASSUME PageInv, phase \in {"done", "empty"}
               PROVE  Cardinality(Lists!Missed) <= went /\ Cardinality(Lists!Repeats) <= came
    BY ListNumbers DEF PagesMissFew, Lists!PagesMissFew
  <2>1. Lists!Missed \in SUBSET Unread
    BY DEF Lists!Missed, Lists!Wanted, Lists!Written, Lists!Kept, Unread, PageInv
  <2>2. Lists!Repeats \in SUBSET Doubled
    BY DEF Lists!Repeats, Lists!Wanted, Lists!Written, Lists!Kept, Doubled
  <2>3. /\ Cardinality(Lists!Missed) <= Cardinality(Unread) /\ IsFiniteSet(Lists!Missed) /\ IsFiniteSet(Unread)
        /\ Cardinality(Lists!Repeats) <= Cardinality(Doubled) /\ IsFiniteSet(Lists!Repeats) /\ IsFiniteSet(Doubled)
    BY <2>1, <2>2, FewSteady, FS_Subset
  <2>4. /\ Cardinality(Lists!Missed) \in Nat /\ Cardinality(Unread) \in Nat
        /\ Cardinality(Lists!Repeats) \in Nat /\ Cardinality(Doubled) \in Nat
    BY <2>3, FS_CardinalityType
  <2> QED
    BY <2>3, <2>4 DEF PageInv, ListType
<1> QED
  BY <1>1, <1>2, <1>3, PTL DEF Lists!Spec

-----------------------------------------------------------------------------
(* The answers of the providers.  What the scan of a text finds depends on the   *)
(* text before alone, so a JSON value is cut out of what follows it.             *)
States == [depth : Int, string : BOOLEAN, escaped : BOOLEAN]

LEMMA ReplyNumbers == \A S : Reply!Cardinality(S) = Cardinality(S)
BY DEF Reply!Cardinality, Cardinality

LEMMA ScanTypes ==
  ASSUME NEW s \in States, NEW t, NEW open
  PROVE  Reply!Scan(s, t, open) \in States
<1>1. s.depth \in Int /\ s.string \in BOOLEAN /\ s.escaped \in BOOLEAN
      /\ s = [depth |-> s.depth, string |-> s.string, escaped |-> s.escaped]
  BY DEF States
<1>2. CASE s.string /\ s.escaped
  BY <1>2 DEF Reply!Scan, States
<1>3. CASE s.string /\ ~s.escaped
  BY <1>3 DEF Reply!Scan, States
<1>4. CASE ~s.string /\ t = "q"
  <2>1. Reply!Scan(s, t, open) = [s EXCEPT !.string = TRUE] \/ Reply!Scan(s, t, open) = [s EXCEPT !.depth = @ + 1]
        \/ Reply!Scan(s, t, open) = [s EXCEPT !.depth = @ - 1]
    BY <1>4 DEF Reply!Scan
  <2>2. [s EXCEPT !.string = TRUE] \in States
    BY DEF States
  <2>3. [s EXCEPT !.depth = @ + 1] \in States
    BY DEF States
  <2>4. [s EXCEPT !.depth = @ - 1] \in States
    BY DEF States
  <2> QED
    BY <2>1, <2>2, <2>3, <2>4
<1>5. CASE ~s.string /\ t # "q" /\ t = open
  BY <1>5 DEF Reply!Scan, States
<1>6. CASE ~s.string /\ t # "q" /\ t # open
  BY <1>6 DEF Reply!Scan, States
<1> QED
  BY <1>1, <1>2, <1>3, <1>4, <1>5, <1>6

LEMMA Scanning ==
  ASSUME NEW text, NEW N \in Nat, N = Len(text), NEW f, f = Reply!Scanned(text)
  PROVE  /\ f \in [0..N -> States] /\ f[0] = Reply!Outside
         /\ \A n \in 1..N : f[n] = Reply!Scan(f[n - 1], text[n], text[1])
<1> DEFINE next(s, n) == Reply!Scan(s, text[n], text[1])
<1>1. PICK g : g = [s \in States |-> [n \in 1..N |-> next(s, n)]]
  OBVIOUS
<1>2. \A s \in States, n \in 1..N : next(s, n) \in States
  BY ScanTypes
<1>3. g \in [States -> [1..N -> States]] /\ \A s \in States, n \in 1..N : g[s][n] = next(s, n)
  <2> HIDE DEF next
  <2> QED
    BY <1>1, <1>2
<1>4. PICK b \in States : b = Reply!Outside
  <2>1. Reply!Outside \in States
    BY DEF States, Reply!Outside
  <2> QED
    BY <2>1
<1> HIDE DEF next
<1>5. PICK h \in [0..N -> States] : h[0] = b /\ \A n \in 1..N : h[n] = g[h[n - 1]][n]
  <2>1. Recursive(N, States, b, g)
    BY <1>3, Recursion
  <2> QED
    BY <2>1 DEF Recursive
<1>6. \A n \in 1..N : h[n] = next(h[n - 1], n)
  <2> SUFFICES ASSUME NEW n \in 1..N PROVE h[n] = next(h[n - 1], n)
    OBVIOUS
  <2>1. h[n - 1] \in States
    BY <1>5
  <2> QED
    BY <1>3, <1>5, <2>1
<1>7. h = [n \in 0..N |-> IF n = 0 THEN b ELSE next(h[n - 1], n)]
  <2>1. \A n \in 0..N : n # 0 => n \in 1..N
    OBVIOUS
  <2>2. \A n \in 0..N : h[n] = IF n = 0 THEN b ELSE next(h[n - 1], n)
    BY <1>5, <1>6, <2>1
  <2> QED
    BY <1>5, <2>2
<1>8. f = [n \in 0..N |-> IF n = 0 THEN b ELSE next(f[n - 1], n)]
  <2>1. f = CHOOSE c : c = [n \in 0..N |-> IF n = 0 THEN b ELSE next(c[n - 1], n)]
    BY <1>4 DEF Reply!Scanned, next
  <2> QED
    BY <1>7, <2>1
<1>9. f[0] = b /\ \A n \in 1..N : f[n] = next(f[n - 1], n)
  <2>1. 0 \in 0..N /\ \A n \in 1..N : n \in 0..N /\ n # 0
    OBVIOUS
  <2> QED
    BY <1>8, <2>1
<1>10. \A n \in 0..N : f[n] \in States
  <2> DEFINE Bad == {n \in 0..N : f[n] \notin States}
  <2>1. SUFFICES ASSUME Bad # {} PROVE FALSE
    OBVIOUS
  <2>2. PICK n \in Bad : \A k \in Bad : ~(<<k, n>> \in OpToRel(<, Nat))
    <3>1. Bad \subseteq Nat
      OBVIOUS
    <3> HIDE DEF Bad
    <3> QED
      BY <2>1, <3>1, NatLessThanWellFounded, WFMin
  <2>3. n \in 0..N /\ n # 0 /\ n \in 1..N
    BY <1>4, <1>9
  <2>4. n - 1 \in 0..N /\ n - 1 \in Nat /\ n \in Nat /\ n - 1 < n
    BY <2>3
  <2>5. n - 1 \notin Bad
    <3> HIDE DEF Bad
    <3> QED
      BY <2>2, <2>4 DEF OpToRel
  <2>6. f[n - 1] \in States
    BY <2>4, <2>5
  <2>7. f[n] \in States
    BY <1>2, <1>9, <2>3, <2>6 DEF next
  <2> QED
    BY <2>7
<1> QED
  <2>1. f \in [0..N -> States]
    BY <1>8, <1>10
  <2> QED
    BY <1>4, <1>9, <2>1 DEF next

(* The scan of a text and of a longer one that begins with it. *)
LEMMA ScanAgrees ==
  ASSUME NEW v, NEW w, NEW N \in Nat, N = Len(v), NEW M \in Nat, M = Len(w), N <= M,
         \A n \in 1..N : w[n] = v[n]
  PROVE  \A n \in 0..N : Reply!Scanned(w)[n] = Reply!Scanned(v)[n]
<1> DEFINE f == Reply!Scanned(v)
           g == Reply!Scanned(w)
           Bad == {n \in 0..N : g[n] # f[n]}
<1>1. /\ f[0] = g[0]
      /\ \A n \in 1..N : f[n] = Reply!Scan(f[n - 1], v[n], v[1])
      /\ \A n \in 1..M : g[n] = Reply!Scan(g[n - 1], w[n], w[1])
  <2>1. f[0] = Reply!Outside /\ \A n \in 1..N : f[n] = Reply!Scan(f[n - 1], v[n], v[1])
    BY Scanning, Zenon
  <2>2. g[0] = Reply!Outside /\ \A n \in 1..M : g[n] = Reply!Scan(g[n - 1], w[n], w[1])
    BY Scanning, Zenon
  <2> QED
    BY <2>1, <2>2, Zenon
<1> HIDE DEF f, g
<1>2. SUFFICES ASSUME Bad # {} PROVE FALSE
  BY DEF f, g
<1>3. PICK n \in Bad : \A k \in Bad : ~(<<k, n>> \in OpToRel(<, Nat))
  <2>1. Bad \subseteq Nat
    OBVIOUS
  <2> HIDE DEF Bad
  <2> QED
    BY <1>2, <2>1, NatLessThanWellFounded, WFMin
<1>4. n \in 1..N /\ n \in 1..M /\ 1 \in 1..N /\ n - 1 \in 0..N
  BY <1>1
<1>5. n - 1 \in Nat /\ n \in Nat /\ n - 1 < n
  BY <1>4
<1>6. n - 1 \notin Bad
  <2> HIDE DEF Bad
  <2> QED
    BY <1>3, <1>5 DEF OpToRel
<1>7. g[n - 1] = f[n - 1] /\ w[n] = v[n] /\ w[1] = v[1]
  BY <1>4, <1>6
<1>8. g[n] = f[n]
  BY <1>1, <1>4, <1>7
<1> QED
  BY <1>3, <1>8

(* A JSON value is what is cut from it and whatever follows. *)
LEMMA ValueIsCut ==
  ASSUME Reply!TextAssumption, NEW v \in Values, NEW t \in Trailers
  PROVE  /\ Reply!Truncated(v \o t) = v
         /\ v \o t # v => Reply!ExtraData(v \o t)
<1> DEFINE w == v \o t
           N == Len(v)
           M == Len(w)
<1>1. v \in Seq(Reply!Tokens) /\ t \in Seq(Reply!Tokens) /\ v # <<>> /\ Reply!Ends(v) = {N} /\ v[1] \in DOMAIN Reply!Openers
  BY DEF Reply!TextAssumption
<1>2. w \in Seq(Reply!Tokens) /\ M = N + Len(t) /\ \A n \in 1..N + Len(t) : n <= N => w[n] = v[n]
  BY <1>1, ConcatProperties
<1>3. N \in Nat /\ Len(t) \in Nat /\ N # 0 /\ DOMAIN w = 1..M
  <2>1. N \in Nat /\ Len(t) \in Nat /\ DOMAIN w = 1..M
    BY <1>1, <1>2, LenProperties
  <2>2. N # 0
    BY <1>1, EmptySeq
  <2> QED
    BY <2>1, <2>2
<1>4. \A n \in 1..N : w[n] = v[n]
  BY <1>2, <1>3
<1> HIDE DEF N, M, w
<1>5. SubSeq(w, 1, N) = v
  <2>1. \A i \in 1..N : w[i] \in Reply!Tokens
    <3>1. \A i \in 1..N : v[i] \in Reply!Tokens
      BY <1>1, ElementOfSeq DEF N
    <3> QED
      BY <1>4, <3>1
  <2>2. SubSeq(w, 1, N) \in Seq(Reply!Tokens) /\ Len(SubSeq(w, 1, N)) = N /\ \A i \in 1..N : SubSeq(w, 1, N)[i] = w[i]
    BY <1>3, <2>1, SubSeqProperties
  <2>3. \A i \in 1..Len(v) : SubSeq(w, 1, N)[i] = v[i]
    BY <1>4, <2>2 DEF N
  <2> QED
    BY <1>1, <2>2, <2>3, SeqEqual DEF N
<1>6. \A n \in 0..N : Reply!Scanned(w)[n] = Reply!Scanned(v)[n]
  BY <1>2, <1>3, <1>4, ScanAgrees DEF N, M
<1>7. N \in Reply!Ends(w) /\ \A n \in Reply!Ends(w) : n \in 1..M /\ N <= n
  <2>1. /\ \A n : n \in Reply!Ends(v) <=> n \in 1..N /\ Reply!Scanned(v)[n].depth = 0
        /\ \A n : n \in Reply!Ends(w) <=> n \in 1..M /\ Reply!Scanned(w)[n].depth = 0
    BY DEF Reply!Ends, N, M
  <2>2. \A n \in 1..N : n \in 1..M /\ n \in 0..N
    BY <1>2, <1>3
  <2>3. \A n \in 1..N : n \in Reply!Ends(w) <=> n \in Reply!Ends(v)
    BY <1>6, <2>1, <2>2
  <2>4. N \in Reply!Ends(w)
    BY <1>1, <1>3, <2>3
  <2>5. \A n \in Reply!Ends(w) : n \in 1..N => n = N
    BY <1>1, <2>3
  <2> QED
    BY <1>2, <1>3, <2>1, <2>4, <2>5
<1>8. Reply!First(Reply!Ends(w)) = N
  <2>1. \E i \in Reply!Ends(w) : \A j \in Reply!Ends(w) : i <= j
    BY <1>7
  <2>2. PICK x : x = Reply!First(Reply!Ends(w))
    OBVIOUS
  <2>3. x \in Reply!Ends(w) /\ \A j \in Reply!Ends(w) : x <= j
    BY <2>1, <2>2, Zenon DEF Reply!First
  <2>4. x <= N /\ N <= x /\ x \in 1..M
    BY <1>7, <2>3
  <2> QED
    BY <1>2, <1>3, <2>2, <2>4
<1>9. Reply!Truncated(w) = v
  <2> DEFINE B == {i \in DOMAIN w : w[i] \in DOMAIN Reply!Openers}
             F == Reply!First(B)
  <2>1. 1 \in B /\ \A i \in B : i \in 1..M
    BY <1>1, <1>2, <1>3, <1>4
  <2>2. F = 1
    <3> HIDE DEF B
    <3>1. \E i \in B : \A j \in B : i <= j
      BY <2>1
    <3>2. F \in B /\ \A j \in B : F <= j
      BY <3>1, Zenon DEF Reply!First
    <3> QED
      BY <1>2, <1>3, <2>1, <3>2
  <2>3. SubSeq(w, 1, M) = w
    BY <1>2, SubSeqFull DEF M
  <2>4. B # {} /\ Reply!Ends(w) # {}
    BY <1>7, <2>1
  <2>5. Reply!Truncated(w) = IF B = {} \/ Reply!Ends(SubSeq(w, F, M)) = {} THEN w
                             ELSE SubSeq(SubSeq(w, F, M), 1, Reply!First(Reply!Ends(SubSeq(w, F, M))))
    BY DEF Reply!Truncated, M
  <2> HIDE DEF B, F
  <2> QED
    BY <1>5, <1>8, <2>2, <2>3, <2>4, <2>5
<1>10. ASSUME w # v PROVE Reply!ExtraData(w)
  <2>1. Len(t) # 0
    <3>1. t # <<>>
      BY <1>1, <1>10, ConcatEmptySeq DEF w
    <3> QED
      BY <1>1, <3>1, EmptySeq
  <2>2. N \in 1..M - 1
    BY <1>2, <1>3, <2>1
  <2> QED
    BY <1>5, <2>2 DEF Reply!ExtraData, M
<1> QED
  BY <1>9, <1>10 DEF w

(* In an order that numbers its entries from 0 up, each has the rank of its number. *)
LEMMA OrderedByNumber ==
  ASSUME NEW n \in Nat, NEW es, DOMAIN es = 1..n, \A i \in 1..n : es[i].index \in Int,
         {es[i].index : i \in 1..n} = 0..n - 1
  PROVE  \A i \in 1..n : Reply!Rank(es, i) = 1 + es[i].index
<1> DEFINE f == [i \in 1..n |-> es[i].index]
           T == 0..n - 1
<1>1. f \in Surjection(1..n, T)
  <2>1. \A i \in 1..n : f[i] \in T
    OBVIOUS
  <2>2. \A x \in T : \E i \in 1..n : f[i] = x
    OBVIOUS
  <2> QED
    BY <2>1, <2>2 DEF Surjection
<1>2. IsFiniteSet(1..n) /\ Cardinality(1..n) = Cardinality(T)
  <2>1. Cardinality(1..n) = n /\ IsFiniteSet(1..n) /\ Cardinality(T) = n
    BY FS_Interval
  <2> QED
    BY <2>1
<1>3. f \in Injection(1..n, T)
  BY <1>1, <1>2, FS_SurjSameCardinalityImpliesInj
<1>4. \A i, j \in 1..n : f[i] = f[j] => i = j
  <2> HIDE DEF f, T
  <2> QED
    BY <1>3 DEF Injection, IsInjective
<1>5. SUFFICES ASSUME NEW i \in 1..n PROVE Reply!Rank(es, i) = 1 + es[i].index
  OBVIOUS
<1> DEFINE A == {j \in 1..n : f[j] < f[i]}
           B == 0..f[i] - 1
           g == [j \in A |-> f[j]]
<1>6. f[i] \in T /\ \A j \in 1..n : f[j] \in T /\ f[j] = es[j].index
  OBVIOUS
<1>7. \A x \in T : \E j \in 1..n : f[j] = x
  BY <1>1 DEF Surjection
<1>8. Reply!Rank(es, i) = 1 + Cardinality(A)
  <2>1. {j \in DOMAIN es : es[j].index < es[i].index \/ (es[j].index = es[i].index /\ j < i)} = A
    <3>1. \A j \in 1..n : (es[j].index < es[i].index \/ (es[j].index = es[i].index /\ j < i)) <=> f[j] < f[i]
      BY <1>4, <1>6
    <3> QED
      BY <3>1
  <2> HIDE DEF A
  <2> QED
    BY <2>1, ReplyNumbers, Zenon DEF Reply!Rank
<1>9. g \in Bijection(A, B)
  <2> HIDE DEF f
  <2>1. g \in [A -> B]
    BY <1>6
  <2>2. \A j, k \in A : g[j] = g[k] => j = k
    BY <1>4
  <2>3. \A x \in B : \E j \in A : g[j] = x
    <3> SUFFICES ASSUME NEW x \in B PROVE \E j \in A : g[j] = x
      OBVIOUS
    <3>1. x \in T /\ x < f[i]
      BY <1>6
    <3>2. PICK j \in 1..n : f[j] = x
      BY <1>7, <3>1
    <3> QED
      BY <3>1, <3>2
  <2> HIDE DEF A, B, g
  <2> QED
    BY <2>1, <2>2, <2>3 DEF Bijection, Injection, Surjection, IsInjective
<1>10. Cardinality(A) = f[i]
  <2>1. IsFiniteSet(B) /\ Cardinality(B) = f[i]
    <3>1. PICK c \in Nat : c = f[i]
      BY <1>6
    <3> HIDE DEF f, A, g
    <3>2. c - 1 \in Int /\ 0 \in Int
      BY <3>1
    <3>3. IsFiniteSet(0..(c - 1)) /\ Cardinality(0..(c - 1)) = IF 0 > c - 1 THEN 0 ELSE (c - 1) - 0 + 1
      BY <3>2, FS_Interval
    <3> QED
      BY <3>1, <3>3
  <2>2. IsFiniteSet(A)
    <3>1. A \subseteq 1..n
      OBVIOUS
    <3> HIDE DEF A
    <3> QED
      BY <1>2, <3>1, FS_Subset
  <2> HIDE DEF A, B, g
  <2>3. ExistsBijection(A, B)
    BY <1>9 DEF ExistsBijection
  <2>4. Cardinality(B) = Cardinality(A)
    BY <2>2, <2>3, FS_Bijection
  <2> QED
    BY <2>1, <2>4
<1> QED
  BY <1>6, <1>8, <1>10

(* Entries that are trusted, in order: each is one of them and at its place. *)
LEMMA InPlace ==
  ASSUME NEW n \in Nat, NEW E, \A e \in E : e.index \in Int, NEW es \in Seq(E), Reply!Trusted(es, n),
         NEW i \in 1..n
  PROVE  /\ \E j \in 1..n : Reply!InOrder(es)[i] = es[j]
         /\ Reply!InOrder(es)[i].index = Reply!Unsaid \/ Reply!InOrder(es)[i].index = i - 1
         /\ (\E j \in 1..n : es[j].index # Reply!Unsaid) => Reply!InOrder(es)[i].index = i - 1
<1>1. DOMAIN es = 1..n /\ \A j \in 1..n : es[j].index \in Int
  <2>1. DOMAIN es = 1..n
    BY LenProperties DEF Reply!Trusted
  <2> QED
    BY <2>1, ElementOfSeq DEF Reply!Trusted
<1>2. CASE \A j \in 1..n : es[j].index = Reply!Unsaid
  <2>1. Reply!InOrder(es) = es
    BY <1>1, <1>2 DEF Reply!InOrder
  <2> QED
    BY <1>2, <2>1
<1>3. CASE ~ \A j \in 1..n : es[j].index = Reply!Unsaid
  <2>1. {es[j].index : j \in 1..n} = 0..n - 1
    BY <1>1, <1>3 DEF Reply!Trusted
  <2>2. \A j \in 1..n : Reply!Rank(es, j) = 1 + es[j].index
    BY <1>1, <2>1, OrderedByNumber
  <2>3. PICK j \in 1..n : es[j].index = i - 1
    <3>1. i - 1 \in 0..n - 1
      OBVIOUS
    <3>2. i - 1 \in {es[j].index : j \in 1..n}
      BY <2>1, <3>1, Zenon
    <3> QED
      BY <3>2
  <2>4. Reply!Rank(es, j) = i
    BY <2>2, <2>3
  <2>5. PICK k : k = CHOOSE x \in DOMAIN es : Reply!Rank(es, x) = i
    OBVIOUS
  <2>6. k \in 1..n /\ Reply!Rank(es, k) = i
    <3>1. k \in DOMAIN es /\ Reply!Rank(es, k) = i
      BY <1>1, <2>4, <2>5, Zenon
    <3> QED
      BY <1>1, <3>1
  <2>7. Reply!InOrder(es)[i] = es[k]
    <3>1. Reply!InOrder(es) = [x \in DOMAIN es |-> es[CHOOSE y \in DOMAIN es : Reply!Rank(es, y) = x]]
      BY <1>1, <1>3 DEF Reply!InOrder
    <3> QED
      BY <1>1, <2>5, <3>1, Zenon
  <2>8. es[k].index = i - 1
    BY <1>1, <2>2, <2>6
  <2> QED
    BY <2>6, <2>7, <2>8
<1> QED
  BY <1>2, <1>3

(* What an answer is: its entries, whatever of them is taken, and its text.      *)
LEMMA AnswerKnown ==
  ASSUME Reply!TextAssumption, NEW n \in 1..MaxFiles, NEW a \in Reply!Answers(n)
  PROVE  /\ a.entries \in Seq(Reply!Entry(n)) /\ Reply!Listed(a) \in Seq(Reply!Entry(n))
         /\ \/ \E v \in Values, t \in Trailers : a.text = v \o t
            \/ \E v \in Values : a.text = SubSeq(v, 1, Len(v) - 1)
<1>1. n \in Nat /\ n - 1 \in Nat /\ 1 \in Nat
  BY DEF Reply!TextAssumption
<1>2. a.entries \in Reply!Lists(n) /\ a.text \in Reply!Texts \cup {Reply!SomeText}
  BY DEF Reply!Answers
<1>3. PICK k \in {1, n - 1, n} \ {0} : a.entries \in [1..k -> Reply!Plain(n)]
  BY <1>2 DEF Reply!Lists
<1>4. a.entries \in Seq(Reply!Entry(n)) /\ Len(a.entries) = k
  <2>1. k \in Nat
    BY <1>1, <1>3
  <2>2. \A x \in 1..k : a.entries[x] \in Reply!Entry(n)
    BY <1>3 DEF Reply!Plain
  <2>3. [x \in 1..k |-> a.entries[x]] \in Seq(Reply!Entry(n))
    BY <2>1, <2>2, IsASeq
  <2>4. a.entries = [x \in 1..k |-> a.entries[x]]
    BY <1>3
  <2>5. a.entries \in Seq(Reply!Entry(n)) /\ DOMAIN a.entries = 1..k
    BY <2>3, <2>4
  <2> QED
    BY <2>1, <2>5, LenProperties
<1>5. Reply!Listed(a) \in Seq(Reply!Entry(n))
  <2>1. \A x \in 1..1 : a.entries[x] \in Reply!Entry(n)
    BY <1>1, <1>3, <1>4, ElementOfSeq
  <2>2. SubSeq(a.entries, 1, 1) \in Seq(Reply!Entry(n))
    BY <2>1, SubSeqProperties
  <2>3. <<>> \in Seq(Reply!Entry(n))
    BY EmptySeq
  <2>4. Reply!Listed(a) \in {a.entries, SubSeq(a.entries, 1, 1), <<>>}
    BY DEF Reply!Listed
  <2> QED
    BY <1>4, <2>2, <2>3, <2>4
<1>6. Reply!SomeText \in Values
  BY DEF Reply!TextAssumption, Reply!SomeText
<1>7. CASE a.text \in Reply!Texts
  <2>1. \/ \E v \in Values, t \in Trailers : a.text = v \o t
        \/ \E v \in Values : a.text = SubSeq(v, 1, Len(v) - 1)
    <3>1. a.text \in Reply!Trailed \/ a.text \in Reply!Cut
      BY <1>7 DEF Reply!Texts
    <3>2. CASE a.text \in Reply!Trailed
      BY <3>2 DEF Reply!Trailed
    <3>3. CASE a.text \in Reply!Cut
      BY <3>3 DEF Reply!Cut
    <3> QED
      BY <3>1, <3>2, <3>3
  <2> QED
    BY <1>4, <1>5, <2>1
<1>8. CASE a.text = Reply!SomeText
  <2>1. Reply!SomeText \o <<>> = Reply!SomeText /\ <<>> \in Trailers
    BY <1>6, ConcatEmptySeq DEF Reply!TextAssumption
  <2> QED
    BY <1>4, <1>5, <1>6, <1>8, <2>1, Zenon
<1> QED
  BY <1>2, <1>7, <1>8

(* Result i of an answer is about image i, or the answer is refused and the      *)
(* images are sent one by one; an answer that tells of every image, in whatever  *)
(* order and whatever follows it, is understood: for any number of images, JSON  *)
(* texts and remarks.                                                           *)
ReplyInv == sent \in 1..MaxFiles /\ answer \in Reply!Answers(sent) /\ ResultsInPlace

LEMMA BatchIsRight == ASSUME Reply!TextAssumption, ReplyInv, Reply!ReadBatch PROVE ReplyInv'
<1> DEFINE n  == sent
           L  == Reply!Listed(answer)
           ok == Reply!Readable(answer) /\ answer.top # "scalar" /\ Reply!Trusted(L, n)
           R  == [i \in 1..n |-> Reply!Result(Reply!InOrder(L)[i])]
<1>1. /\ n \in Nat /\ L \in Seq(Reply!Entry(n)) /\ answer.entries \in Seq(Reply!Entry(n))
      /\ \A e \in Reply!Entry(n) : e.index \in Int /\ e.image \in 0..n - 1
  <2>1. n \in Nat
    BY DEF ReplyInv, Reply!TextAssumption
  <2>2. \A e \in Reply!Entry(n) : e.index \in Int /\ e.image \in 0..n - 1
    BY <2>1 DEF Reply!Entry, Reply!Unsaid, Reply!Word
  <2> QED
    BY <2>1, <2>2, AnswerKnown DEF ReplyInv
<1>2. sent' = sent /\ answer' = answer /\ outcome' = IF ok THEN Reply!Results(R) ELSE Reply!Malformed
  BY DEF Reply!ReadBatch
<1>3. ASSUME ok, NEW i \in 1..n
      PROVE  /\ R[i].index \in {Reply!Unsaid, i - 1}
             /\ Reply!Truthful(answer.entries) /\ n > 1 => R[i].image = i - 1
  <2>0. /\ \E j \in 1..n : Reply!InOrder(L)[i] = L[j]
        /\ Reply!InOrder(L)[i].index = Reply!Unsaid \/ Reply!InOrder(L)[i].index = i - 1
        /\ (\E j \in 1..n : L[j].index # Reply!Unsaid) => Reply!InOrder(L)[i].index = i - 1
    <3>1. \A e \in Reply!Entry(n) : e.index \in Int
      BY <1>1
    <3>2. Reply!Trusted(L, n) /\ i \in 1..n
      BY <1>3
    <3> HIDE DEF L, n
    <3> QED
      BY <1>1, <3>1, <3>2, InPlace, Zenon
  <2>1. PICK j \in 1..n : Reply!InOrder(L)[i] = L[j]
    BY <2>0, Zenon
  <2>2. /\ Reply!InOrder(L)[i].index \in {Reply!Unsaid, i - 1}
        /\ (\E x \in 1..n : L[x].index # Reply!Unsaid) => Reply!InOrder(L)[i].index = i - 1
    BY <2>0
  <2>3. R[i].index = L[j].index /\ R[i].image = L[j].image
    BY <2>1 DEF Reply!Result
  <2>4. ASSUME Reply!Truthful(answer.entries), n > 1 PROVE R[i].image = i - 1
    <3>1. Len(L) = n /\ DOMAIN L = 1..n
      BY <1>1, <1>3, LenProperties DEF Reply!Trusted
    <3>2. L = answer.entries
      <4>1. L \in {answer.entries, SubSeq(answer.entries, 1, 1), <<>>}
        BY DEF Reply!Listed
      <4>2. Len(<<>>) = 0
        BY EmptySeq
      <4>3. ASSUME L = SubSeq(answer.entries, 1, 1) PROVE FALSE
        <5>1. Len(SubSeq(answer.entries, 1, 1)) = 1
          BY SubSeqProperties
        <5> QED
          BY <2>4, <3>1, <4>3, <5>1
      <4> QED
        BY <1>1, <2>4, <3>1, <4>1, <4>2, <4>3
    <3>3. L[j].index = L[j].image /\ L[j].image \in 0..n - 1
      BY <1>1, <2>4, <3>1, <3>2, ElementOfSeq DEF Reply!Truthful
    <3>4. L[j].index # Reply!Unsaid
      BY <1>1, <3>3 DEF Reply!Unsaid
    <3> QED
      BY <2>1, <2>2, <2>3, <3>3, <3>4
  <2> QED
    BY <2>1, <2>2, <2>3, <2>4
<1>4. ASSUME ~ok, n > 1, Reply!Truthful(answer.entries), answer.fence # "open", answer.top = "receipts",
             {answer.entries[i].image : i \in DOMAIN answer.entries} = 0..n - 1, Len(answer.entries) = n
      PROVE  \E v \in Values : answer.text = SubSeq(v, 1, Len(v) - 1)
  <2>1. L = answer.entries
    BY <1>4 DEF Reply!Listed
  <2>2. DOMAIN L = 1..n
    BY <1>1, <1>4, <2>1, LenProperties
  <2>3. Reply!Trusted(L, n)
    <3>1. \A i \in DOMAIN L : L[i].object /\ L[i].index = L[i].image
      BY <1>4, <2>1 DEF Reply!Truthful
    <3>2. {L[i].index : i \in DOMAIN L} = {L[i].image : i \in DOMAIN L}
      BY <3>1
    <3> HIDE DEF L
    <3> QED
      BY <1>4, <2>1, <3>1, <3>2 DEF Reply!Trusted
  <2>4. ~Reply!Readable(answer)
    BY <1>4, <2>3
  <2>5. ASSUME NEW v \in Values, NEW t \in Trailers, answer.text = v \o t PROVE FALSE
    <3>1. Reply!Truncated(answer.text) = v /\ (answer.text # v => Reply!ExtraData(answer.text))
      BY <2>5, ValueIsCut
    <3> QED
      BY <1>4, <2>4, <3>1 DEF Reply!Readable, Reply!Decodes
  <2> QED
    BY <2>5, AnswerKnown DEF ReplyInv
<1>5. CASE ok
  <2>1. outcome' = Reply!Results(R)
    BY <1>2, <1>5
  <2>2. outcome'.is = "results" /\ outcome'.of = R /\ DOMAIN R = 1..n /\ outcome' # Reply!Malformed
    BY <2>1 DEF Reply!Results, Reply!Malformed
  <2> HIDE DEF ok, R, L
  <2> QED
    BY <1>2, <1>3, <1>5, <2>2 DEF ReplyInv, ResultsInPlace, Reply!ResultsInPlace, Reply!Understood
<1>6. CASE ~ok
  <2>1. outcome' = Reply!Malformed
    BY <1>2, <1>6
  <2>2. outcome'.is # "results"
    BY <2>1 DEF Reply!Malformed
  <2> HIDE DEF ok, R, L
  <2> QED
    BY <1>2, <1>4, <1>6, <2>1, <2>2 DEF ReplyInv, ResultsInPlace, Reply!ResultsInPlace, Reply!Understood
<1> QED
  BY <1>5, <1>6

LEMMA SingleIsRight == ASSUME Reply!TextAssumption, ReplyInv, Reply!ReadSingle PROVE ReplyInv'
<1> DEFINE one == Reply!ReadObject(answer)
<1>1. sent' = 1 /\ sent = 1 /\ answer' = answer /\ outcome' \in {Reply!Results(<<one>>), Reply!Malformed}
  BY DEF Reply!ReadSingle
<1>2. one.index = Reply!Unsaid
  <2>1. PICK k \in {1, 0} \ {0} : answer.entries \in [1..k -> Reply!Plain(1)]
    BY <1>1 DEF ReplyInv, Reply!Answers, Reply!Lists
  <2>2. answer.entries[1] \in Reply!Entry(1)
    BY <2>1 DEF Reply!Plain
  <2> QED
    BY <2>2 DEF Reply!ReadObject, Reply!Blank, Reply!Entry
<1> HIDE DEF one
<1>3. CASE outcome' = Reply!Results(<<one>>)
  <2>1. outcome'.is = "results" /\ outcome'.of = <<one>> /\ outcome' # Reply!Malformed
    BY <1>3 DEF Reply!Results, Reply!Malformed
  <2>2. \A i \in DOMAIN <<one>> : <<one>>[i].index = Reply!Unsaid
    BY <1>2
  <2>3. sent' \in 1..MaxFiles /\ answer' \in Reply!Answers(sent')
    BY <1>1 DEF ReplyInv
  <2>4. ~(sent' > 1)
    BY <1>1
  <2> QED
    BY <2>1, <2>2, <2>3, <2>4 DEF ReplyInv, ResultsInPlace, Reply!ResultsInPlace, Reply!Understood
<1>4. CASE outcome' = Reply!Malformed
  <2>1. outcome'.is # "results"
    BY <1>4 DEF Reply!Malformed
  <2>2. sent' \in 1..MaxFiles /\ answer' \in Reply!Answers(sent') /\ ~(sent' > 1)
    BY <1>1 DEF ReplyInv
  <2> QED
    BY <2>1, <2>2 DEF ReplyInv, ResultsInPlace, Reply!ResultsInPlace, Reply!Understood
<1> QED
  BY <1>1, <1>3, <1>4

THEOREM ResultsStandInPlace == ASSUME Reply!TextAssumption PROVE Reply!Spec => []ResultsInPlace
<1>1. Reply!Init => ReplyInv
  BY DEF Reply!Init, ReplyInv, ResultsInPlace, Reply!ResultsInPlace, Reply!Understood, Reply!Waiting, Reply!Malformed
<1>2. ReplyInv /\ [Reply!Next]_(Reply!vars) => ReplyInv'
  <2>1. ReplyInv /\ UNCHANGED Reply!vars => ReplyInv'
    BY DEF ReplyInv, Reply!vars, ResultsInPlace, Reply!ResultsInPlace, Reply!Understood
  <2> QED
    BY <2>1, BatchIsRight, SingleIsRight DEF Reply!Next
<1>3. ReplyInv => ResultsInPlace
  BY DEF ReplyInv
<1> QED
  BY <1>1, <1>2, <1>3, PTL DEF Reply!Spec

-----------------------------------------------------------------------------
-----------------------------------------------------------------------------
(* The figures.  Sums are counted: the cents of A are the pairs of a member and  *)
(* a number up to its amount, those owed go up to what is missing.              *)
Cents(a, A) == UNION {{k} \X (1..a[k]) : k \in A}
Owed(a, A)  == UNION {{k} \X (1..(-a[k])) : k \in A}
Come(a, A)  == Cardinality(Cents(a, A)) - Cardinality(Owed(a, A))

LEMMA CardsNumbers == \A S : Cards!Cardinality(S) = Cardinality(S) /\ (Cards!IsFiniteSet(S) <=> IsFiniteSet(S))
BY DEF Cards!Cardinality, Cardinality, Cards!IsFiniteSet, IsFiniteSet

LEMMA CentsFinite ==
  ASSUME NEW a, NEW A, IsFiniteSet(A), \A k \in A : a[k] \in Int
  PROVE  IsFiniteSet(Cents(a, A)) /\ Cardinality(Cents(a, A)) \in Nat
<1>1. PICK f : f = [k \in A |-> {k} \X (1..a[k])]
  OBVIOUS
<1>2. PICK T : T = {{k} \X (1..a[k]) : k \in A}
  OBVIOUS
<1>3. f \in Surjection(A, T)
  BY <1>1, <1>2 DEF Surjection
<1>4. IsFiniteSet(T)
  BY <1>3, FS_Surjection
<1>5. ASSUME NEW k \in A PROVE IsFiniteSet({k} \X (1..a[k]))
  <2>1. PICK n \in Int : n = a[k]
    OBVIOUS
  <2>2. IsFiniteSet({k})
    BY FS_Singleton
  <2>3. IsFiniteSet(1..n)
    BY FS_Interval
  <2> QED
    BY <2>1, <2>2, <2>3, FS_Product
<1>6. IsFiniteSet(UNION T)
  BY <1>2, <1>4, <1>5, FS_UNION
<1> QED
  BY <1>2, <1>6, FS_CardinalityType DEF Cents

LEMMA CentsParts ==
  ASSUME NEW a, NEW A, NEW B, IsFiniteSet(A), IsFiniteSet(B), A \cap B = {}, \A k \in A \cup B : a[k] \in Int
  PROVE  Cardinality(Cents(a, A \cup B)) = Cardinality(Cents(a, A)) + Cardinality(Cents(a, B))
<1>1. IsFiniteSet(Cents(a, A)) /\ IsFiniteSet(Cents(a, B))
  BY CentsFinite
<1>2. Cents(a, A \cup B) = Cents(a, A) \cup Cents(a, B)
  BY DEF Cents
<1>3. Cents(a, A) \cap Cents(a, B) = {}
  BY DEF Cents
<1>4. Cardinality(Cents(a, A) \cap Cents(a, B)) = 0
  BY <1>3, FS_EmptySet
<1>5. PICK X, Y, U : X = Cents(a, A) /\ Y = Cents(a, B) /\ U = Cents(a, A \cup B)
  OBVIOUS
<1>6. IsFiniteSet(X) /\ IsFiniteSet(Y) /\ Cardinality(X) \in Nat /\ Cardinality(Y) \in Nat
  BY <1>1, <1>5, FS_CardinalityType
<1>7. Cardinality(X \cup Y) = Cardinality(X) + Cardinality(Y) - Cardinality(X \cap Y)
  BY <1>6, FS_Union
<1>8. U = X \cup Y /\ Cardinality(X \cap Y) = 0
  BY <1>2, <1>4, <1>5
<1>9. Cardinality(U) = Cardinality(X) + Cardinality(Y)
  BY <1>6, <1>7, <1>8
<1> QED
  BY <1>5, <1>9

LEMMA CentsOne ==
  ASSUME NEW a, NEW k, a[k] \in Int
  PROVE  Cardinality(Cents(a, {k})) = IF a[k] > 0 THEN a[k] ELSE 0
<1>1. PICK n \in Int : n = a[k]
  OBVIOUS
<1>2. Cents(a, {k}) = {k} \X (1..n)
  BY <1>1 DEF Cents
<1>3. IsFiniteSet({k}) /\ Cardinality({k}) = 1
  BY FS_Singleton
<1>4. IsFiniteSet(1..n) /\ Cardinality(1..n) = IF n > 0 THEN n ELSE 0
  <2>1. IsFiniteSet(1..n) /\ Cardinality(1..n) = IF 1 > n THEN 0 ELSE n - 1 + 1
    BY FS_Interval
  <2> QED
    BY <2>1
<1>5. Cardinality({k} \X (1..n)) = Cardinality({k}) * Cardinality(1..n)
  BY <1>3, <1>4, FS_Product
<1>6. PICK m \in Nat : m = (IF n > 0 THEN n ELSE 0) /\ m = Cardinality(1..n)
  BY <1>4
<1>7. Cardinality({k} \X (1..n)) = m
  BY <1>3, <1>5, <1>6
<1> QED
  BY <1>1, <1>2, <1>6, <1>7

(* What is owed are the cents of the amounts turned round. *)
LEMMA OwedIs ==
  ASSUME NEW a, NEW A, \A k \in A : a[k] \in Int, NEW h, h = [k \in A |-> -a[k]]
  PROVE  (\A k \in A : h[k] \in Int) /\ \A S \in SUBSET A : Owed(a, S) = Cents(h, S)
<1>1. \A k \in A : h[k] \in Int /\ h[k] = -a[k]
  OBVIOUS
<1>2. ASSUME NEW S \in SUBSET A PROVE Owed(a, S) = Cents(h, S)
  <2>1. \A k \in S : {k} \X (1..(-a[k])) = {k} \X (1..h[k])
    BY <1>1
  <2> QED
    BY <2>1 DEF Owed, Cents
<1> QED
  BY <1>1, <1>2

LEMMA ComeFinite ==
  ASSUME NEW a, NEW A, IsFiniteSet(A), \A k \in A : a[k] \in Int
  PROVE  Come(a, A) \in Int
<1>1. PICK h : h = [k \in A |-> -a[k]]
  OBVIOUS
<1>2. (\A k \in A : h[k] \in Int) /\ Owed(a, A) = Cents(h, A)
  BY <1>1, OwedIs
<1>3. Cardinality(Cents(a, A)) \in Nat /\ Cardinality(Cents(h, A)) \in Nat
  BY <1>2, CentsFinite
<1> QED
  BY <1>2, <1>3 DEF Come

(* Two parts come to what they come to one by one; a single one to its amount.   *)
LEMMA ComeParts ==
  ASSUME NEW a, NEW A, NEW B, IsFiniteSet(A), IsFiniteSet(B), A \cap B = {}, \A k \in A \cup B : a[k] \in Int
  PROVE  Come(a, A \cup B) = Come(a, A) + Come(a, B)
<1>1. PICK h : h = [k \in A \cup B |-> -a[k]]
  OBVIOUS
<1>2. /\ \A k \in A \cup B : h[k] \in Int
      /\ \A S \in SUBSET (A \cup B) : Owed(a, S) = Cents(h, S)
  BY <1>1, OwedIs
<1>3. Owed(a, A) = Cents(h, A) /\ Owed(a, B) = Cents(h, B) /\ Owed(a, A \cup B) = Cents(h, A \cup B)
  <2>1. A \in SUBSET (A \cup B) /\ B \in SUBSET (A \cup B) /\ A \cup B \in SUBSET (A \cup B)
    OBVIOUS
  <2> QED
    BY <1>2, <2>1
<1>4. Cardinality(Cents(a, A \cup B)) = Cardinality(Cents(a, A)) + Cardinality(Cents(a, B))
  BY CentsParts
<1>5. Cardinality(Cents(h, A \cup B)) = Cardinality(Cents(h, A)) + Cardinality(Cents(h, B))
  BY <1>2, CentsParts
<1>6. /\ Cardinality(Cents(a, A)) \in Nat /\ Cardinality(Cents(a, B)) \in Nat
      /\ Cardinality(Cents(h, A)) \in Nat /\ Cardinality(Cents(h, B)) \in Nat
  BY <1>2, CentsFinite
<1> QED
  BY <1>3, <1>4, <1>5, <1>6 DEF Come

LEMMA ComeOne ==
  ASSUME NEW a, NEW k, a[k] \in Int
  PROVE  Come(a, {k}) = a[k]
<1>1. PICK h : h = [x \in {k} |-> -a[x]]
  OBVIOUS
<1>2. h[k] \in Int /\ h[k] = -a[k] /\ Owed(a, {k}) = Cents(h, {k})
  <2>1. (\A x \in {k} : h[x] \in Int) /\ \A S \in SUBSET {k} : Owed(a, S) = Cents(h, S)
    BY <1>1, OwedIs
  <2> QED
    BY <1>1, <2>1
<1>3. Cardinality(Cents(a, {k})) = IF a[k] > 0 THEN a[k] ELSE 0
  BY CentsOne
<1>4. Cardinality(Cents(h, {k})) = IF h[k] > 0 THEN h[k] ELSE 0
  BY <1>2, CentsOne
<1> QED
  BY <1>2, <1>3, <1>4 DEF Come

LEMMA ComeNone == \A a : Come(a, {}) = 0
<1> SUFFICES ASSUME NEW a PROVE Come(a, {}) = 0
  OBVIOUS
<1>1. Cents(a, {}) = {} /\ Owed(a, {}) = {}
  BY DEF Cents, Owed
<1> QED
  BY <1>1, FS_EmptySet DEF Come

(* Groups come to what their members come to.                                    *)
Group(K, key, c)  == {i \in K : key[i] = c}
Groups(K, key, T) == {i \in K : key[i] \in T}

LEMMA ComeGroups ==
  ASSUME NEW a, NEW K, IsFiniteSet(K), \A i \in K : a[i] \in Int, NEW key,
         NEW T, IsFiniteSet(T), NEW g, \A c \in T : g[c] = Come(a, Group(K, key, c))
  PROVE  Come(g, T) = Come(a, Groups(K, key, T))
<1> USE DEF Group, Groups
<1> DEFINE Of(U) == {i \in K : key[i] \in U}
           Wrong == {n \in Nat : \E U \in SUBSET T : Cardinality(U) = n /\ Come(g, U) # Come(a, Of(U))}
<1>1. SUFFICES ASSUME Wrong # {} PROVE FALSE
  <2>1. Cardinality(T) \in Nat
    BY FS_CardinalityType
  <2> QED
    BY <2>1
<1>2. PICK n \in Wrong : \A k \in Wrong : ~(<<k, n>> \in OpToRel(<, Nat))
  <2>1. Wrong \subseteq Nat
    OBVIOUS
  <2> HIDE DEF Wrong
  <2> QED
    BY <1>1, <2>1, NatLessThanWellFounded, WFMin
<1>3. PICK U \in SUBSET T : Cardinality(U) = n /\ Come(g, U) # Come(a, Of(U))
  OBVIOUS
<1>4. IsFiniteSet(U) /\ n \in Nat
  BY FS_Subset
<1>5. \A V : IsFiniteSet(Of(V)) /\ \A i \in Of(V) : a[i] \in Int
  <2>1. \A V : Of(V) \in SUBSET K
    OBVIOUS
  <2> QED
    BY <2>1, FS_Subset
<1>6. \A c \in T : g[c] \in Int
  <2> SUFFICES ASSUME NEW c \in T PROVE g[c] \in Int
    OBVIOUS
  <2>1. PICK G : G = {i \in K : key[i] = c}
    OBVIOUS
  <2>2. G \in SUBSET K
    BY <2>1
  <2>3. IsFiniteSet(G) /\ \A i \in G : a[i] \in Int
    BY <2>2, FS_Subset
  <2>4. Come(a, G) \in Int
    BY <2>3, ComeFinite
  <2> QED
    BY <2>1, <2>4
<1>7. U # {}
  <2>1. Of({}) = {}
    OBVIOUS
  <2>2. Come(g, {}) = Come(a, Of({}))
    BY <2>1, ComeNone
  <2> QED
    BY <1>3, <2>2
<1>8. PICK c \in U : TRUE
  BY <1>7
<1>9. PICK W : W = U \ {c}
  OBVIOUS
<1>10. IsFiniteSet(W) /\ Cardinality(W) = n - 1 /\ W \in SUBSET T /\ n - 1 \in Nat /\ n - 1 < n
  <2>1. IsFiniteSet(U \ {c}) /\ Cardinality(U \ {c}) = Cardinality(U) - 1
    BY <1>4, <1>8, FS_RemoveElement
  <2>2. Cardinality(W) \in Nat
    BY <1>9, <2>1, FS_CardinalityType
  <2> QED
    BY <1>3, <1>4, <1>9, <2>1, <2>2
<1>11. Come(g, W) = Come(a, Of(W))
  <2>1. n - 1 \notin Wrong
    <3> HIDE DEF Wrong
    <3> QED
      BY <1>2, <1>4, <1>10 DEF OpToRel
  <2> QED
    BY <1>10, <2>1
<1>12. Come(g, U) = Come(g, W) + g[c]
  <2>1. U = W \cup {c} /\ W \cap {c} = {} /\ \A k \in W \cup {c} : g[k] \in Int
    BY <1>6, <1>8, <1>9
  <2>3. IsFiniteSet({c})
    BY FS_Singleton
  <2>4. PICK B : B = {c}
    OBVIOUS
  <2>5. IsFiniteSet(W) /\ IsFiniteSet(B) /\ W \cap B = {} /\ \A k \in W \cup B : g[k] \in Int
    BY <1>10, <2>1, <2>3, <2>4
  <2>6. Come(g, W \cup B) = Come(g, W) + Come(g, B)
    BY <2>5, ComeParts
  <2>2. Come(g, W \cup {c}) = Come(g, W) + Come(g, {c})
    BY <2>4, <2>6
  <2> QED
    BY <1>6, <2>1, <2>2, ComeOne
<1>13. Come(a, Of(U)) = Come(a, Of(W)) + g[c]
  <2>1. PICK G : G = {i \in K : key[i] = c}
    OBVIOUS
  <2>2. Of(U) = Of(W) \cup G /\ Of(W) \cap G = {} /\ G \in SUBSET K
    BY <1>8, <1>9, <2>1
  <2>3. IsFiniteSet(G) /\ \A i \in Of(W) \cup G : a[i] \in Int
    BY <1>5, <2>2, FS_Subset
  <2>4. Come(a, Of(W) \cup G) = Come(a, Of(W)) + Come(a, G)
    <3> HIDE DEF Of
    <3> QED
      BY <1>5, <2>2, <2>3, ComeParts
  <2> QED
    BY <1>8, <2>1, <2>2, <2>4
<1> QED
  BY <1>3, <1>11, <1>12, <1>13

(* The first n of an order: whoever is before one of them is one of them.        *)
FirstOf(S, before, n, F) ==
  /\ \A x \in F : before[x] \subseteq F
  /\ Cardinality(S) <= n => F = S
  /\ n # 0 /\ S # {} => \E x \in F : before[x] = {}
  /\ \A x \in S : before[x] = {} => x \in F \/ n = 0
  /\ Cardinality(F) = IF n <= Cardinality(S) THEN n ELSE Cardinality(S)

LEMMA FirstOnes ==
  ASSUME NEW S, IsFiniteSet(S), NEW before, Ordered(S, before), NEW n \in Nat, NEW F, F = {x \in S : Cardinality(before[x]) < n}
  PROVE  FirstOf(S, before, n, F)
<1> USE DEF Ordered, Sooner
<1>0. PICK N, rank : N = Cardinality(S) /\ rank = [x \in S |-> Cardinality(before[x])]
  OBVIOUS
<1>11. /\ Cardinality(S) \in Nat
       /\ \A x \in S : Cardinality(before[x]) \in 0..(Cardinality(S) - 1)
       /\ \A x, y \in S : Cardinality(before[x]) = Cardinality(before[y]) => x = y
       /\ \A i \in 1..Cardinality(S) : \E x \in S : Cardinality(before[x]) = i - 1
  <2>1. Ranking(S, before)
    BY Ranks
  <2> QED
    BY <2>1 DEF Ranking
<1>1. N \in Nat /\ \A x \in S : rank[x] \in 0..(N - 1)
  BY <1>0, <1>11
<1>2. /\ \A x, y \in S : rank[x] = rank[y] => x = y
      /\ \A i \in 1..N : \E x \in S : rank[x] = i - 1
  BY <1>0, <1>11
<1>3. \A x \in S : IsFiniteSet(before[x]) /\ rank[x] = Cardinality(before[x])
  <2>1. \A x \in S : before[x] \in SUBSET S
    OBVIOUS
  <2> QED
    BY <1>0, <2>1, FS_Subset
<1>4. F = {x \in S : rank[x] < n}
  BY <1>0
<1>5. \A x \in S : before[x] = {} <=> rank[x] = 0
  BY <1>3, FS_EmptySet
<1>6. ASSUME NEW x \in F, NEW y \in before[x] PROVE y \in F
  <2>1. x \in S /\ y \in S /\ rank[x] < n
    BY <1>4
  <2>2. y # x /\ before[y] \subseteq before[x]
    BY <2>1
  <2>3. Cardinality(before[y]) <= Cardinality(before[x])
    BY <1>3, <2>1, <2>2, FS_Subset
  <2>4. rank[y] <= rank[x] /\ rank[x] \in 0..(N - 1) /\ rank[y] \in 0..(N - 1)
    BY <1>1, <1>3, <2>1, <2>3
  <2> QED
    BY <1>1, <1>4, <2>1, <2>4
<1>7. N <= n => F = S
  BY <1>1, <1>4
<1>8. ASSUME n # 0, S # {} PROVE \E x \in F : before[x] = {}
  <2>1. 1 \in 1..N
    BY <1>1, <1>8
  <2>2. PICK x \in S : rank[x] = 0
    BY <1>2, <2>1
  <2> QED
    BY <1>4, <1>5, <1>8, <2>2
<1>9. Cardinality(F) = IF n <= N THEN n ELSE N
  <2>1. PICK m \in Nat : m = IF n <= N THEN n ELSE N
    BY <1>1
  <2>2. PICK h : h = [x \in F |-> rank[x] + 1]
    OBVIOUS
  <2>3. h \in Bijection(F, 1..m)
    <3>1. ASSUME NEW x \in F PROVE h[x] \in 1..m /\ x \in S /\ h[x] = rank[x] + 1 /\ rank[x] \in Nat
      BY <1>1, <1>4, <2>1, <2>2
    <3>2. ASSUME NEW x \in F, NEW y \in F, h[x] = h[y] PROVE x = y
      BY <1>2, <3>1, <3>2
    <3>3. ASSUME NEW i \in 1..m PROVE \E x \in F : h[x] = i
      <4>1. i \in 1..N /\ i - 1 < n
        BY <1>1, <2>1
      <4>2. PICK x \in S : rank[x] = i - 1
        BY <1>2, <4>1
      <4>3. x \in F
        BY <1>4, <4>1, <4>2
      <4> QED
        BY <2>2, <4>1, <4>2, <4>3
    <3>4. h \in [F -> 1..m]
      BY <2>2, <3>1
    <3> QED
      BY <3>2, <3>3, <3>4 DEF Bijection, Injection, Surjection, IsInjective
  <2>4. IsFiniteSet(F)
    <3>1. F \in SUBSET S
      BY <1>4
    <3> QED
      BY <3>1, FS_Subset
  <2>5. Cardinality(1..m) = Cardinality(F)
    BY <2>3, <2>4, FS_Bijection DEF ExistsBijection
  <2> QED
    BY <2>1, <2>5, FS_Interval
<1>10. \A x \in S : before[x] = {} => x \in F \/ n = 0
  BY <1>4, <1>5
<1> QED
  BY <1>0, <1>6, <1>7, <1>8, <1>9, <1>10 DEF FirstOf

(* The receipts there are, and what each of them is for. *)
Known(b)  == {i \in Bills : b[i] # NoBill}
Amount(b) == [i \in Bills |-> b[i].amount]

LEMMA TotalIs == \A f : Cards!Total(f) = Come(f, DOMAIN f)
BY CardsNumbers DEF Cards!Total, Come, Cents, Owed

LEMMA ComeSame ==
  ASSUME NEW a, NEW c, NEW S, \A k \in S : a[k] = c[k]
  PROVE  Come(a, S) = Come(c, S)
<1>1. Cents(a, S) = Cents(c, S) /\ Owed(a, S) = Owed(c, S)
  BY DEF Cents, Owed
<1> QED
  BY <1>1 DEF Come

(* The money of some receipts is what their amounts come to. *)
LEMMA MoneyIs ==
  ASSUME Cards!FiguresAssumption, NEW b \in Ledgers, NEW S, S \subseteq Known(b)
  PROVE  /\ Cards!Money(b, S) = Come(Amount(b), S)
         /\ IsFiniteSet(S) /\ Cards!Money(b, S) \in Int /\ Cardinality(S) \in Nat
         /\ \A i \in S : Amount(b)[i] \in Int /\ Amount(b)[i] = b[i].amount
<1>1. IsFiniteSet(Bills) /\ S \in SUBSET Bills
  BY CardsNumbers DEF Cards!FiguresAssumption, Known
<1>2. IsFiniteSet(S)
  BY <1>1, FS_Subset
<1>3. \A i \in S : Amount(b)[i] \in Int /\ Amount(b)[i] = b[i].amount
  BY <1>1 DEF Cards!FiguresAssumption, Known, Amount
<1>4. PICK f : f = [i \in S |-> b[i].amount]
  OBVIOUS
<1>5. Cards!Money(b, S) = Come(f, S)
  <2>1. DOMAIN f = S
    BY <1>4
  <2> QED
    BY <1>4, <2>1, TotalIs DEF Cards!Money
<1>6. Come(f, S) = Come(Amount(b), S)
  <2>1. \A k \in S : f[k] = Amount(b)[k]
    BY <1>3, <1>4
  <2> QED
    BY <2>1, ComeSame
<1>7. Come(Amount(b), S) \in Int
  BY <1>2, <1>3, ComeFinite
<1> QED
  BY <1>2, <1>3, <1>5, <1>6, <1>7, FS_CardinalityType

(* Two parts of the receipts have the money of both. *)
LEMMA MoneyParts ==
  ASSUME Cards!FiguresAssumption, NEW b \in Ledgers, NEW S, S \subseteq Known(b), NEW T, T \subseteq Known(b), S \cap T = {}
  PROVE  Cards!Money(b, S \cup T) = Cards!Money(b, S) + Cards!Money(b, T)
<1>1. /\ IsFiniteSet(S) /\ Cards!Money(b, S) = Come(Amount(b), S)
      /\ \A i \in S : Amount(b)[i] \in Int
  BY MoneyIs
<1>2. /\ IsFiniteSet(T) /\ Cards!Money(b, T) = Come(Amount(b), T)
      /\ \A i \in T : Amount(b)[i] \in Int
  BY MoneyIs
<1>3. PICK U : U = S \cup T
  OBVIOUS
<1>4. Cards!Money(b, U) = Come(Amount(b), U)
  <2>1. U \subseteq Known(b)
    BY <1>3
  <2> QED
    BY <2>1, MoneyIs
<1>5. Come(Amount(b), S \cup T) = Come(Amount(b), S) + Come(Amount(b), T)
  BY <1>1, <1>2, ComeParts
<1> QED
  BY <1>1, <1>2, <1>3, <1>4, <1>5

(* What a group is told to come to; its first receipt tells it from the others. *)
LEMMA LeastOf ==
  ASSUME NEW S, S \subseteq Nat, S # {}
  PROVE  Cards!Min(S) \in S /\ \A y \in S : Cards!Min(S) <= y
<1>1. PICK x \in S : \A y \in S : ~(<<y, x>> \in OpToRel(<, Nat))
  BY NatLessThanWellFounded, WFMin
<1>2. ASSUME NEW y \in S PROVE x <= y
  <2>1. x \in Nat /\ y \in Nat
    OBVIOUS
  <2>2. ~(y < x)
    BY <1>1, <2>1 DEF OpToRel
  <2> QED
    BY <2>1, <2>2
<1> QED
  BY <1>2 DEF Cards!Min

Grouped(b, S, key, f) ==
  /\ DOMAIN f = {key[i] : i \in S}
  /\ IsFiniteSet(DOMAIN f)
  /\ \A k \in DOMAIN f :
       /\ f[k].total = Cards!Money(b, {i \in S : key[i] = k}) /\ f[k].total \in Int
       /\ f[k].count = Cardinality({i \in S : key[i] = k}) /\ f[k].count \in Nat \ {0}
       /\ f[k].first \in S /\ f[k].first \in Nat /\ key[f[k].first] = k

LEMMA SumsAre ==
  ASSUME Cards!FiguresAssumption, NEW b \in Ledgers, NEW S, S \subseteq Known(b), NEW key,
         NEW f, f = Cards!Sums(b, S, key)
  PROVE  Grouped(b, S, key, f)
<1>1. IsFiniteSet(S) /\ S \subseteq Nat
  <2>1. S \subseteq Bills /\ Bills \subseteq Nat
    BY DEF Known, Cards!FiguresAssumption
  <2> QED
    BY <2>1, MoneyIs
<1>2. DOMAIN f = {key[i] : i \in S}
  BY DEF Cards!Sums
<1>3. IsFiniteSet(DOMAIN f)
  <2>1. PICK h : h = [i \in S |-> key[i]]
    OBVIOUS
  <2>2. h \in Surjection(S, DOMAIN f)
    BY <1>2, <2>1 DEF Surjection
  <2> QED
    BY <1>1, <2>2, FS_Surjection
<1>4. ASSUME NEW k \in DOMAIN f
      PROVE  /\ f[k].total = Cards!Money(b, {i \in S : key[i] = k}) /\ f[k].total \in Int
             /\ f[k].count = Cardinality({i \in S : key[i] = k}) /\ f[k].count \in Nat \ {0}
             /\ f[k].first \in S /\ f[k].first \in Nat /\ key[f[k].first] = k
  <2>1. PICK G : G = {i \in S : key[i] = k}
    OBVIOUS
  <2>2. f[k] = [total |-> Cards!Money(b, G), count |-> Cards!Cardinality(G), first |-> Cards!Min(G)]
    BY <1>2, <2>1 DEF Cards!Sums
  <2>3. G \subseteq S /\ G \subseteq Nat /\ G # {} /\ G \subseteq Known(b)
    BY <1>1, <1>2, <2>1
  <2>4. Cards!Money(b, G) \in Int /\ Cardinality(G) \in Nat /\ IsFiniteSet(G)
    BY <2>3, MoneyIs
  <2>5. Cardinality(G) # 0
    BY <2>3, <2>4, FS_EmptySet
  <2>6. Cards!Min(G) \in G
    BY <2>3, LeastOf
  <2> QED
    BY <2>1, <2>2, <2>3, <2>4, <2>5, <2>6, CardsNumbers
<1> QED
  BY <1>2, <1>3, <1>4 DEF Grouped

(* Some of the groups come to what the receipts in them are for. *)
LEMMA GroupsComeTo ==
  ASSUME Cards!FiguresAssumption, NEW b \in Ledgers, NEW S, S \subseteq Known(b), NEW key,
         NEW f, f = Cards!Sums(b, S, key),
         NEW g, DOMAIN g \subseteq DOMAIN f, \A k \in DOMAIN g : g[k] = f[k].total
  PROVE  Cards!Total(g) = Cards!Money(b, {i \in S : key[i] \in DOMAIN g})
<1>1. PICK T : T = DOMAIN g
  OBVIOUS
<1>2. IsFiniteSet(DOMAIN f) /\ \A k \in DOMAIN f : f[k].total = Cards!Money(b, {i \in S : key[i] = k})
  <2>1. Grouped(b, S, key, f)
    BY SumsAre
  <2> QED
    BY <2>1 DEF Grouped
<1>3. IsFiniteSet(T)
  <2>1. T \in SUBSET DOMAIN f
    BY <1>1
  <2> QED
    BY <1>2, <2>1, FS_Subset
<1>4. IsFiniteSet(S) /\ \A i \in S : Amount(b)[i] \in Int
  BY MoneyIs
<1>5. \A c \in T : g[c] = Come(Amount(b), {i \in S : key[i] = c})
  <2> SUFFICES ASSUME NEW c \in T PROVE g[c] = Come(Amount(b), {i \in S : key[i] = c})
    OBVIOUS
  <2>1. PICK G : G = {i \in S : key[i] = c}
    OBVIOUS
  <2>2. G \subseteq Known(b)
    BY <2>1
  <2>3. Cards!Money(b, G) = Come(Amount(b), G)
    BY <2>2, MoneyIs
  <2> QED
    BY <1>1, <1>2, <2>1, <2>3
<1>6. PICK a : a = Amount(b)
  OBVIOUS
<1>7. Come(g, T) = Come(a, {i \in S : key[i] \in T})
  <2>1. (\A i \in S : a[i] \in Int) /\ (\A c \in T : g[c] = Come(a, Group(S, key, c)))
    BY <1>4, <1>5, <1>6 DEF Group
  <2>2. Come(g, T) = Come(a, Groups(S, key, T))
    BY <1>3, <1>4, <2>1, ComeGroups
  <2> QED
    BY <2>2 DEF Groups
<1>8. PICK R : R = {i \in S : key[i] \in T}
  OBVIOUS
<1>9. Cards!Money(b, R) = Come(a, R)
  <2>1. R \subseteq Known(b)
    BY <1>8
  <2> QED
    BY <1>6, <2>1, MoneyIs
<1> QED
  BY <1>1, <1>7, <1>8, <1>9, TotalIs

LEMMA CountParts ==
  ASSUME NEW A, NEW B, IsFiniteSet(A), IsFiniteSet(B), A \cap B = {}
  PROVE  Cardinality(A \cup B) = Cardinality(A) + Cardinality(B) /\ IsFiniteSet(A \cup B)
<1>1. Cardinality(A) \in Nat /\ Cardinality(B) \in Nat
  BY FS_CardinalityType
<1>2. /\ IsFiniteSet(A \cup B)
      /\ Cardinality(A \cup B) = Cardinality(A) + Cardinality(B) - Cardinality(A \cap B)
  BY FS_Union
<1>3. Cardinality(A \cap B) = 0
  BY FS_EmptySet
<1> QED
  BY <1>1, <1>2, <1>3

(* What the receipts that are told about are. *)
LEMMA ToldAreKnown ==
  ASSUME NEW b \in Ledgers, NEW q
  PROVE  /\ Cards!Counted(b, q) \subseteq Known(b)
         /\ Cards!Summarized(b, q) \subseteq Known(b)
         /\ Cards!Selected(b, q) \subseteq Known(b)
         /\ Cards!InYears(b, q) \subseteq Known(b)
BY DEF Cards!Counted, Cards!Summarized, Cards!Selected, Cards!InYears, Cards!Fetched, Known

(* The overview: every receipt that counts has one of the three statuses. *)
LEMMA OverviewTells ==
  ASSUME Cards!FiguresAssumption, NEW b \in Ledgers, NEW q \in Questions
  PROVE  Cards!ReviewCounted(q, Cards!Overview(b, q))
<1>1. PICK S : S = Cards!Counted(b, q)
  OBVIOUS
<1>2. PICK A, B, C : /\ A = {i \in S : b[i].status = "processed"}
                     /\ B = {i \in S : b[i].status = "pending_approval"}
                     /\ C = {i \in S : b[i].status = "needs_review"}
  OBVIOUS
<1>3. PICK o : o = Cards!Overview(b, q)
  OBVIOUS
<1>4. /\ o.receipts = Cardinality(S) /\ o.review = Cardinality(C)
      /\ o.verified = Cardinality(A) + Cardinality(B)
  BY <1>1, <1>2, <1>3, CardsNumbers DEF Cards!Overview
<1>5. S \subseteq Known(b)
  BY <1>1, ToldAreKnown
<1>6. S = (A \cup B) \cup C /\ A \cap B = {} /\ (A \cup B) \cap C = {}
  <2>1. \A i \in S : b[i].status \in {"needs_review", "pending_approval", "processed"}
    BY <1>5 DEF Known, Cards!FiguresAssumption
  <2> QED
    BY <1>2, <2>1
<1>7. IsFiniteSet(A) /\ IsFiniteSet(B) /\ IsFiniteSet(C)
  <2>1. IsFiniteSet(S)
    BY <1>5, MoneyIs
  <2>2. A \in SUBSET S /\ B \in SUBSET S /\ C \in SUBSET S
    BY <1>2
  <2> QED
    BY <2>1, <2>2, FS_Subset
<1>8. Cardinality(A \cup B) = Cardinality(A) + Cardinality(B) /\ IsFiniteSet(A \cup B)
  BY <1>6, <1>7, CountParts
<1>9. Cardinality(S) = Cardinality(A \cup B) + Cardinality(C)
  BY <1>6, <1>7, <1>8, CountParts
<1>10. ASSUME o.review > 0 PROVE q.unreviewed
  <2>1. C # {}
    BY <1>4, <1>10, FS_EmptySet
  <2>2. PICK i \in S : b[i].status = "needs_review"
    BY <1>2, <2>1
  <2> QED
    BY <1>1, <2>2 DEF Cards!Counted
<1> QED
  BY <1>3, <1>4, <1>8, <1>9, <1>10 DEF Cards!ReviewCounted

(* The overview's money and number of receipts. *)
LEMMA SpentIs ==
  ASSUME NEW b, NEW q
  PROVE  /\ Cards!Overview(b, q).spent = Cards!Money(b, Cards!Counted(b, q))
         /\ Cards!Overview(b, q).receipts = Cardinality(Cards!Counted(b, q))
         /\ Cards!Overview(b, q).review = Cardinality({i \in Cards!Counted(b, q) : b[i].status = "needs_review"})
BY CardsNumbers DEF Cards!Overview

(* The latest of some numbers: nothing left out is later than one that is told. *)
LEMMA LatestAre ==
  ASSUME NEW D, IsFiniteSet(D), D \subseteq Nat, NEW n \in Nat
  PROVE  /\ Cards!Latest(D, n) \subseteq D
         /\ \A d \in D \ Cards!Latest(D, n), e \in Cards!Latest(D, n) : d < e
         /\ n # 0 /\ D # {} => Cards!Latest(D, n) # {}
<1>1. PICK before : before = [d \in D |-> {e \in D : e > d}]
  OBVIOUS
<1>2. Ordered(D, before)
  <2>1. before \in [D -> SUBSET D]
    BY <1>1
  <2>2. \A d, e \in D : e \in before[d] <=> e > d
    BY <1>1
  <2>3. ASSUME NEW d \in D, NEW e \in D, d > e PROVE Sooner(before, d, e)
    <3>1. ASSUME NEW c \in before[d] PROVE c \in before[e]
      <4>1. c \in D /\ c \in Nat /\ d \in Nat /\ e \in Nat
        BY <2>1
      <4> QED
        BY <2>2, <2>3, <4>1
    <3> QED
      BY <2>2, <2>3, <3>1 DEF Sooner
  <2>4. \A d, e \in D : d # e => d > e \/ e > d
    OBVIOUS
  <2>5. \A d \in D : d \notin before[d]
    BY <2>2
  <2>6. ASSUME NEW d \in D, NEW e \in D, d # e PROVE Sooner(before, d, e) \/ Sooner(before, e, d)
    BY <2>3, <2>4, <2>6
  <2> QED
    BY <2>1, <2>5, <2>6 DEF Ordered
<1>3. PICK F : F = {d \in D : Cardinality(before[d]) < n}
  OBVIOUS
<1>4. Cards!Latest(D, n) = F
  BY <1>1, <1>3, CardsNumbers DEF Cards!Latest
<1>5. /\ \A x \in F : before[x] \subseteq F
      /\ Cardinality(D) <= n => F = D
      /\ n # 0 /\ D # {} => \E x \in F : before[x] = {}
      /\ \A x \in D : before[x] = {} => x \in F \/ n = 0
      /\ Cardinality(F) = IF n <= Cardinality(D) THEN n ELSE Cardinality(D)
  <2>1. FirstOf(D, before, n, F)
    BY <1>2, <1>3, FirstOnes
  <2> QED
    BY <2>1 DEF FirstOf
<1>6. F \subseteq D
  BY <1>3
<1>7. ASSUME NEW d \in D \ F, NEW e \in F PROVE d < e
  <2>1. d \notin before[e] /\ d \in Nat /\ e \in Nat /\ d # e
    BY <1>5, <1>6, <1>7
  <2> QED
    BY <1>1, <1>6, <2>1
<1> QED
  BY <1>4, <1>5, <1>6, <1>7

(* The trends: a receipt that counts is told, has no date, or is from before.    *)
LEMMA TrendsTell ==
  ASSUME Cards!FiguresAssumption, NEW b \in Ledgers, NEW q \in Questions
  PROVE  Cards!TrendsAddUp(b, q, Cards!Trends(b, q))
<1>1. PICK S, D : S = Cards!Counted(b, q) /\ D = {i \in S : b[i].date # Cards!NoDate}
  OBVIOUS
<1>2. S \subseteq Known(b) /\ D \subseteq Known(b) /\ D \subseteq S
  BY <1>1, ToldAreKnown
<1>3. PICK key : key = Cards!DateOf(b)
  OBVIOUS
<1>4. PICK f : f = Cards!Sums(b, D, key)
  OBVIOUS
<1>5. Grouped(b, D, key, f)
  BY <1>2, <1>4, SumsAre
<1>6. \A i \in Known(b) : key[i] = b[i].date /\ key[i] \in Nat
  BY <1>3 DEF Cards!DateOf, Known, Cards!FiguresAssumption
<1>7. PICK told : told = Cards!Latest(DOMAIN f, q.months)
  OBVIOUS
<1>8. told \subseteq DOMAIN f /\ \A d \in DOMAIN f \ told, e \in told : d < e
  <2>1. IsFiniteSet(DOMAIN f) /\ DOMAIN f = {key[i] : i \in D}
    BY <1>5 DEF Grouped
  <2>2. DOMAIN f \subseteq Nat
    BY <1>2, <1>6, <2>1
  <2>3. q.months \in Nat
    BY DEF Cards!FiguresAssumption
  <2> QED
    BY <1>7, <2>1, <2>2, <2>3, LatestAre
<1>9. PICK g : g = [m \in told |-> f[m].total]
  OBVIOUS
<1>10. PICK t : t = Cards!Trends(b, q)
  OBVIOUS
<1>11. t.period = Cards!Total(g) /\ DOMAIN t.monthly = told
  BY <1>1, <1>3, <1>4, <1>7, <1>9, <1>10 DEF Cards!Trends
<1>12. PICK X, Y, Z : /\ X = {i \in D : key[i] \in told}
                      /\ Y = {i \in S : b[i].date = Cards!NoDate}
                      /\ Z = {i \in S : b[i].date # Cards!NoDate /\ \A m \in DOMAIN t.monthly : b[i].date < m}
  OBVIOUS
<1>13. t.period = Cards!Money(b, X)
  <2>1. DOMAIN g = told /\ \A k \in DOMAIN g : g[k] = f[k].total
    BY <1>9
  <2>2. Cards!Total(g) = Cards!Money(b, {i \in D : key[i] \in DOMAIN g})
    BY <1>2, <1>4, <1>8, <2>1, GroupsComeTo
  <2> QED
    BY <1>11, <1>12, <2>1, <2>2
<1>14. S = (X \cup Y) \cup Z /\ X \cap Y = {} /\ (X \cup Y) \cap Z = {}
  <2>1. \A i \in D : key[i] = b[i].date /\ key[i] \in DOMAIN f /\ key[i] \in Nat
    <3>1. \A i \in D : key[i] \in DOMAIN f
      BY <1>5 DEF Grouped
    <3> QED
      BY <1>2, <1>6, <3>1
  <2>2. Z = {i \in D : key[i] \notin told}
    <3>1. \A i \in D : (\A m \in told : key[i] < m) <=> key[i] \notin told
      BY <1>8, <2>1
    <3> QED
      BY <1>1, <1>11, <1>12, <2>1, <3>1
  <2>3. Y = S \ D
    BY <1>1, <1>12
  <2> QED
    BY <1>2, <1>12, <2>2, <2>3
<1>15. X \subseteq Known(b) /\ Y \subseteq Known(b) /\ Z \subseteq Known(b) /\ X \cup Y \subseteq Known(b)
  BY <1>2, <1>14
<1>16. Cards!Money(b, X \cup Y) = Cards!Money(b, X) + Cards!Money(b, Y)
  BY <1>14, <1>15, MoneyParts
<1>17. Cards!Money(b, S) = Cards!Money(b, X \cup Y) + Cards!Money(b, Z)
  BY <1>14, <1>15, MoneyParts
<1>18. Cards!Money(b, X) \in Int /\ Cards!Money(b, Y) \in Int /\ Cards!Money(b, Z) \in Int
  BY <1>15, MoneyIs
<1>19. t.period + Cards!Money(b, Y) + Cards!Money(b, Z) = Cards!Money(b, S)
  BY <1>13, <1>16, <1>17, <1>18
<1> QED
  BY <1>1, <1>10, <1>12, <1>19, SpentIs DEF Cards!TrendsAddUp

(* The largest of the groups: no two of them are as far ahead. *)
LEMMA LargestAre ==
  ASSUME NEW f, IsFiniteSet(DOMAIN f), NEW n \in Nat,
         \A k \in DOMAIN f : f[k].total \in Int /\ f[k].first \in Nat,
         \A k, l \in DOMAIN f : f[k].first = f[l].first => k = l
  PROVE  /\ DOMAIN Cards!Largest(f, n) \subseteq DOMAIN f
         /\ \A k \in DOMAIN Cards!Largest(f, n) : Cards!Largest(f, n)[k] = f[k]
         /\ Cardinality(DOMAIN f) <= n => DOMAIN Cards!Largest(f, n) = DOMAIN f
         /\ Cardinality(DOMAIN Cards!Largest(f, n)) = IF n <= Cardinality(DOMAIN f) THEN n ELSE Cardinality(DOMAIN f)
         /\ n # 0 /\ DOMAIN f # {} =>
              \E k \in DOMAIN Cards!Largest(f, n) : \A l \in DOMAIN f : f[l].total <= f[k].total
<1>1. PICK D, before : D = DOMAIN f /\ before = [k \in D |-> {l \in D : Cards!Ahead(f, l, k)}]
  OBVIOUS
<1>2. Ordered(D, before)
  <2>1. before \in [D -> SUBSET D] /\ \A k, l \in D : l \in before[k] <=> Cards!Ahead(f, l, k)
    BY <1>1
  <2>2. \A k \in D : k \notin before[k]
    BY <1>1, <2>1 DEF Cards!Ahead
  <2>3. ASSUME NEW k \in D, NEW l \in D, Cards!Ahead(f, k, l) PROVE Sooner(before, k, l)
    <3>1. ASSUME NEW m \in before[k] PROVE m \in before[l]
      <4>1. m \in D /\ Cards!Ahead(f, m, k)
        BY <2>1
      <4>2. Cards!Ahead(f, m, l)
        BY <1>1, <2>3, <4>1 DEF Cards!Ahead
      <4> QED
        BY <2>1, <4>1, <4>2
    <3> QED
      BY <2>1, <2>3, <3>1 DEF Sooner
  <2>4. ASSUME NEW k \in D, NEW l \in D, k # l PROVE Sooner(before, k, l) \/ Sooner(before, l, k)
    <3>1. Cards!Ahead(f, k, l) \/ Cards!Ahead(f, l, k)
      BY <1>1, <2>4 DEF Cards!Ahead
    <3> QED
      BY <2>3, <3>1
  <2> QED
    BY <2>1, <2>2, <2>4 DEF Ordered
<1>3. PICK F : F = {k \in D : Cardinality(before[k]) < n}
  OBVIOUS
<1>4. FirstOf(D, before, n, F)
  BY <1>1, <1>2, <1>3, FirstOnes
<1>5. Cards!Largest(f, n) = [k \in F |-> f[k]]
  <2>1. {k \in DOMAIN f : Cards!Cardinality({l \in DOMAIN f : Cards!Ahead(f, l, k)}) < n} = F
    BY <1>1, <1>3, CardsNumbers
  <2> QED
    BY <2>1, Zenon DEF Cards!Largest
<1>6. PICK g : g = Cards!Largest(f, n)
  OBVIOUS
<1>7. DOMAIN g = F /\ (\A k \in F : g[k] = f[k]) /\ F \subseteq D
  BY <1>3, <1>5, <1>6
<1>8. ASSUME n # 0, D # {} PROVE \E k \in F : \A l \in D : f[l].total <= f[k].total
  <2>1. PICK k \in F : before[k] = {}
    BY <1>4, <1>8 DEF FirstOf
  <2>2. \A l \in D : ~Cards!Ahead(f, l, k)
    BY <1>1, <1>7, <2>1
  <2> QED
    BY <1>1, <1>7, <2>2 DEF Cards!Ahead
<1> QED
  BY <1>1, <1>4, <1>6, <1>7, <1>8 DEF FirstOf

(* The groups that receipts make can be put in that order. *)
LEMMA GroupsInOrder ==
  ASSUME NEW b, NEW S, NEW key, NEW f, Grouped(b, S, key, f)
  PROVE  /\ IsFiniteSet(DOMAIN f)
         /\ \A k \in DOMAIN f : f[k].total \in Int /\ f[k].first \in Nat
         /\ \A k, l \in DOMAIN f : f[k].first = f[l].first => k = l
<1>1. IsFiniteSet(DOMAIN f)
  BY DEF Grouped
<1>2. \A k \in DOMAIN f : f[k].total \in Int /\ f[k].first \in Nat /\ key[f[k].first] = k
  BY DEF Grouped
<1> QED
  BY <1>1, <1>2

(* All groups together come to what the receipts are for. *)
LEMMA TogetherIs ==
  ASSUME Cards!FiguresAssumption, NEW b \in Ledgers, NEW S, S \subseteq Known(b), NEW key
  PROVE  Cards!Together(Cards!Sums(b, S, key)) = Cards!Money(b, S)
<1>1. PICK f : f = Cards!Sums(b, S, key)
  OBVIOUS
<1>2. PICK g : g = [k \in DOMAIN f |-> f[k].total]
  OBVIOUS
<1>3. DOMAIN g \subseteq DOMAIN f /\ \A k \in DOMAIN g : g[k] = f[k].total
  BY <1>2
<1>4. Cards!Total(g) = Cards!Money(b, {i \in S : key[i] \in DOMAIN g})
  BY <1>1, <1>3, GroupsComeTo
<1>5. {i \in S : key[i] \in DOMAIN g} = S
  <2>1. Grouped(b, S, key, f)
    BY <1>1, SumsAre
  <2>2. DOMAIN g = {key[i] : i \in S}
    BY <1>2, <2>1 DEF Grouped
  <2> QED
    BY <2>2
<1>6. Cards!Together(f) = Cards!Total(g)
  BY <1>2 DEF Cards!Together
<1> QED
  BY <1>1, <1>4, <1>5, <1>6

(* The breakdown: the slices are the largest, and all of them if there is room.  *)
LEMMA BreakdownTells ==
  ASSUME Cards!FiguresAssumption, NEW b \in Ledgers, NEW q \in Questions
  PROVE  Cards!SlicesAddUp(b, q, Cards!Breakdown(b, q))
<1>1. PICK S, cats, sups : /\ S = Cards!Counted(b, q)
                           /\ cats = Cards!Sums(b, S, Cards!CategoryOf(b))
                           /\ sups = Cards!Sums(b, S, Cards!SupplierOf(b))
  OBVIOUS
<1>2. S \subseteq Known(b)
  BY <1>1, ToldAreKnown
<1>3. PICK t : t = Cards!Breakdown(b, q)
  OBVIOUS
<1>4. t.categories = cats /\ t.suppliers = Cards!Largest(sups, Slices) /\ t.known = Cardinality(DOMAIN sups)
  BY <1>1, <1>3, CardsNumbers DEF Cards!Breakdown
<1>5. Cards!Together(cats) = Cards!Money(b, S) /\ Cards!Together(sups) = Cards!Money(b, S)
  BY <1>1, <1>2, TogetherIs
<1>6. /\ IsFiniteSet(DOMAIN sups)
      /\ \A k \in DOMAIN sups : sups[k].total \in Int /\ sups[k].first \in Nat
      /\ \A k, l \in DOMAIN sups : sups[k].first = sups[l].first => k = l
  <2>1. Grouped(b, S, Cards!SupplierOf(b), sups)
    BY <1>1, <1>2, SumsAre
  <2> QED
    BY <2>1, GroupsInOrder
<1>7. PICK g : g = Cards!Largest(sups, Slices)
  OBVIOUS
<1>8. PICK n \in Nat : n = Slices
  BY DEF Cards!FiguresAssumption
<1>9. /\ DOMAIN g \subseteq DOMAIN sups
      /\ \A k \in DOMAIN g : g[k] = sups[k]
      /\ Cardinality(DOMAIN sups) <= n => DOMAIN g = DOMAIN sups
      /\ Cardinality(DOMAIN g) = IF n <= Cardinality(DOMAIN sups) THEN n ELSE Cardinality(DOMAIN sups)
  BY <1>6, <1>7, <1>8, LargestAre
<1>10. ASSUME t.known <= Slices PROVE Cards!Together(t.suppliers) = Cards!Money(b, S)
  <2>1. DOMAIN g = DOMAIN sups
    BY <1>4, <1>8, <1>9, <1>10
  <2>2. [k \in DOMAIN g |-> g[k].total] = [k \in DOMAIN sups |-> sups[k].total]
    BY <1>9, <2>1
  <2>3. Cards!Together(g) = Cards!Together(sups)
    BY <2>2 DEF Cards!Together
  <2> QED
    BY <1>4, <1>5, <1>7, <2>3
<1>11. Cards!Cardinality(DOMAIN t.suppliers) = Cards!Min({Slices, t.known})
  <2>1. t.known \in Nat
    BY <1>4, <1>6, FS_CardinalityType
  <2>2. PICK M : M = {n, t.known}
    OBVIOUS
  <2>3. Cards!Min(M) \in M /\ \A y \in M : Cards!Min(M) <= y
    BY <2>1, <2>2, LeastOf
  <2>4. Cards!Min(M) = IF n <= t.known THEN n ELSE t.known
    BY <2>1, <2>2, <2>3
  <2> QED
    BY <1>4, <1>7, <1>8, <1>9, <2>2, <2>4, CardsNumbers
<1> QED
  BY <1>1, <1>3, <1>4, <1>5, <1>10, <1>11, SpentIs DEF Cards!SlicesAddUp

(* What is read of every type has the newest of one type. *)
LEMMA ReadOfAll ==
  ASSUME Cards!FiguresAssumption, NEW b \in Ledgers, NEW i \in Cards!Fetched(b, "any"), b[i].type = "expense"
  PROVE  i \in Cards!Fetched(b, "expense")
<1>1. PICK S, T : /\ S = {k \in Bills : b[k] # NoBill /\ b[k].own /\ "any" \in {"any", b[k].type}}
                  /\ T = {k \in Bills : b[k] # NoBill /\ b[k].own /\ "expense" \in {"any", b[k].type}}
  OBVIOUS
<1>2. PICK X, Y : X = {j \in S : j < i} /\ Y = {j \in T : j < i}
  OBVIOUS
<1>3. i \in S /\ Cardinality(X) < MaxBills
  BY <1>1, <1>2, CardsNumbers DEF Cards!Fetched
<1>4. Y \in SUBSET X /\ X \in SUBSET Bills /\ i \in T
  BY <1>1, <1>2, <1>3
<1>5. IsFiniteSet(X)
  <2>1. IsFiniteSet(Bills)
    BY CardsNumbers DEF Cards!FiguresAssumption
  <2> QED
    BY <1>4, <2>1, FS_Subset
<1>6. IsFiniteSet(Y) /\ Cardinality(Y) <= Cardinality(X)
  BY <1>4, <1>5, FS_Subset
<1>7. Cardinality(X) \in Nat /\ Cardinality(Y) \in Nat /\ MaxBills \in Nat
  BY <1>5, <1>6, FS_CardinalityType DEF Cards!FiguresAssumption
<1>8. Cardinality(Y) < MaxBills
  BY <1>3, <1>6, <1>7
<1> QED
  BY <1>1, <1>2, <1>4, <1>8, CardsNumbers DEF Cards!Fetched

(* The summary. *)
LEMMA SummaryTells ==
  ASSUME Cards!FiguresAssumption, NEW b \in Ledgers, NEW q \in Questions
  PROVE  Cards!SummaryAddsUp(b, q, Cards!Summary(b, q))
<1>1. PICK S, o, all : /\ S = Cards!Summarized(b, q) /\ o = Cards!Summary(b, q)
                       /\ all = [q EXCEPT !.industry = "any", !.unreviewed = TRUE]
  OBVIOUS
<1>2. S \subseteq Known(b)
  BY <1>1, ToldAreKnown
<1>3. /\ o.spent = Cards!Money(b, S)
      /\ o.monthly = Cards!Sums(b, S, Cards!DateOf(b)) /\ o.categories = Cards!Sums(b, S, Cards!OrOther(b))
  BY <1>1 DEF Cards!Summary
<1>4. Cards!Together(o.monthly) = o.spent /\ Cards!Together(o.categories) = o.spent
  BY <1>2, <1>3, TogetherIs
<1>5. ASSUME q.category = "any", Cards!Fetched(b, "expense") \subseteq Cards!Fetched(b, "any")
      PROVE  o.spent = Cards!Overview(b, all).spent + Cards!Money(b, {i \in S : b[i].type # "expense"})
               + Cards!Money(b, {i \in S : b[i].type = "expense" /\ b[i].date = Cards!NoDate /\ Cards!Bounded(q)})
  <2>1. PICK X, Y, Z : /\ X = Cards!Counted(b, all)
                       /\ Y = {i \in S : b[i].type # "expense"}
                       /\ Z = {i \in S : b[i].type = "expense" /\ b[i].date = Cards!NoDate /\ Cards!Bounded(q)}
    OBVIOUS
  <2>2. PICK E : E = Cards!Fetched(b, "expense")
    OBVIOUS
  <2>3. \A i \in E : b[i].type = "expense" /\ i \in Bills /\ b[i] # NoBill /\ i \in Cards!Fetched(b, "any")
    BY <1>5, <2>2 DEF Cards!Fetched
  <2>4. \A i \in Known(b) : b[i].date \in Nat
    BY DEF Known, Cards!FiguresAssumption
  <2>5. q.from \in Nat /\ q.to \in Nat /\ {"industry", "unreviewed", "from", "to"} \subseteq DOMAIN q
    BY DEF Cards!FiguresAssumption
  <2>6. X = {i \in E : Cards!Bounded(q) => Cards!Within(q, b[i].date)}
    <3>1. all.industry = "any" /\ all.unreviewed /\ all.from = q.from /\ all.to = q.to
      BY <1>1, <2>5
    <3> QED
      BY <2>1, <2>2, <3>1 DEF Cards!Counted, Cards!Bounded, Cards!Within
  <2>7. \A i \in S : i \in Cards!Fetched(b, "any") /\ (q.from # 0 => b[i].date >= q.from) /\ (q.to # 0 => b[i].date <= q.to)
    BY <1>1 DEF Cards!Summarized, Cards!NoDate
  <2>8. \A i \in S : b[i].type = "expense" => i \in E
    BY <2>2, <2>7, ReadOfAll
  <2>9. \A i \in Cards!Fetched(b, "any") :
          (q.from # 0 => b[i].date >= q.from) /\ (q.to # 0 => b[i].date <= q.to) => i \in S
    BY <1>1, <1>5 DEF Cards!Summarized, Cards!NoDate
  <2>10. E \subseteq Known(b)
    BY <2>3 DEF Known
  <2>11. X \subseteq S
    <3>1. \A i \in X : i \in E /\ (q.from # 0 => b[i].date >= q.from) /\ (q.to # 0 => b[i].date <= q.to)
      BY <2>6 DEF Cards!Bounded, Cards!Within, Cards!NoDate
    <3> QED
      BY <2>3, <2>9, <3>1
  <2>12. \A i \in S : i \notin X /\ i \notin Y => i \in Z
    <3> SUFFICES ASSUME NEW i \in S, i \notin X, i \notin Y PROVE i \in Z
      OBVIOUS
    <3>1. i \in E /\ b[i].type = "expense" /\ b[i].date \in Nat
      BY <1>2, <2>1, <2>4, <2>8
    <3>2. Cards!Bounded(q) /\ ~Cards!Within(q, b[i].date)
      BY <2>6, <3>1
    <3>3. b[i].date = Cards!NoDate
      BY <2>7, <3>2 DEF Cards!Within, Cards!NoDate
    <3> QED
      BY <2>1, <3>1, <3>2, <3>3
  <2>13. S = (X \cup Y) \cup Z /\ X \cap Y = {} /\ (X \cup Y) \cap Z = {}
    <3>1. \A i \in Z : i \notin X
      BY <2>1, <2>6 DEF Cards!Within
    <3>2. \A i \in X : b[i].type = "expense"
      BY <2>3, <2>6
    <3> QED
      BY <2>1, <2>11, <2>12, <3>1, <3>2
  <2>14. X \subseteq Known(b) /\ Y \subseteq Known(b) /\ Z \subseteq Known(b) /\ X \cup Y \subseteq Known(b)
    BY <1>2, <2>13
  <2>15. /\ Cards!Money(b, X \cup Y) = Cards!Money(b, X) + Cards!Money(b, Y)
         /\ Cards!Money(b, S) = Cards!Money(b, X \cup Y) + Cards!Money(b, Z)
    BY <2>13, <2>14, MoneyParts
  <2>16. Cards!Money(b, X) \in Int /\ Cards!Money(b, Y) \in Int /\ Cards!Money(b, Z) \in Int
    BY <2>14, MoneyIs
  <2>17. Cards!Overview(b, all).spent = Cards!Money(b, X)
    BY <2>1, SpentIs
  <2> QED
    BY <1>3, <2>1, <2>15, <2>16, <2>17
<1> QED
  BY <1>1, <1>4, <1>5 DEF Cards!SummaryAddsUp

(* Where no receipt is below zero, neither is the money. *)
LEMMA NothingOwed ==
  ASSUME Cards!FiguresAssumption, NEW b \in Ledgers, NEW S, S \subseteq Known(b), \A i \in S : b[i].amount >= 0
  PROVE  Cards!Money(b, S) \in Nat
<1>1. PICK a : a = Amount(b)
  OBVIOUS
<1>2. Cards!Money(b, S) = Come(a, S) /\ IsFiniteSet(S) /\ \A i \in S : a[i] \in Int /\ a[i] >= 0
  BY <1>1, MoneyIs
<1>3. Owed(a, S) = {}
  <2>1. \A i \in S : 1..(-a[i]) = {}
    BY <1>2
  <2> QED
    BY <2>1 DEF Owed
<1>4. Cardinality(Cents(a, S)) \in Nat
  BY <1>2, CentsFinite
<1> QED
  BY <1>2, <1>3, <1>4, FS_EmptySet DEF Come

(* The insights: a group has half of the money exactly if the largest has. *)
LEMMA InsightsTell ==
  ASSUME Cards!FiguresAssumption, NEW b \in Ledgers, NEW q \in Questions
  PROVE  Cards!HintsAddUp(b, q, Cards!Insights(b, q))
<1>1. PICK S, cats, hints : /\ S = Cards!Counted(b, q)
                            /\ cats = Cards!Sums(b, S, Cards!CategoryOf(b))
                            /\ hints = Cards!Insights(b, q)
  OBVIOUS
<1>2. S \subseteq Known(b)
  BY <1>1, ToldAreKnown
<1>3. PICK spent \in Int : spent = Cards!Money(b, S)
  BY <1>2, MoneyIs
<1>4. PICK whole \in Int : whole = IF spent = 0 THEN 1 ELSE spent
  OBVIOUS
<1>5. Grouped(b, S, Cards!CategoryOf(b), cats)
  BY <1>1, <1>2, SumsAre
<1>6. PICK top : top = DOMAIN Cards!Largest(cats, 1)
  OBVIOUS
<1>7. top \subseteq DOMAIN cats /\ (DOMAIN cats # {} => \E k \in top : \A l \in DOMAIN cats : cats[l].total <= cats[k].total)
  <2>1. /\ IsFiniteSet(DOMAIN cats)
        /\ \A k \in DOMAIN cats : cats[k].total \in Int /\ cats[k].first \in Nat
        /\ \A k, l \in DOMAIN cats : cats[k].first = cats[l].first => k = l
    BY <1>5, GroupsInOrder
  <2> QED
    BY <1>6, <2>1, LargestAre
<1>8. \A k \in DOMAIN cats : cats[k].total \in Int
  BY <1>5 DEF Grouped
<1>9. "category" \in hints
        <=> S # {} /\ \E k \in top : IF whole > 0 THEN 100 * cats[k].total >= 50 * whole ELSE 100 * cats[k].total <= 50 * whole
  BY <1>1, <1>3, <1>4, <1>6 DEF Cards!Insights
<1>10. S = {} => DOMAIN cats = {}
  BY <1>5 DEF Grouped
<1>11. ASSUME spent > 0
       PROVE  "category" \in hints <=> \E k \in DOMAIN cats : 2 * cats[k].total >= spent
  <2>1. whole = spent /\ whole > 0
    BY <1>4, <1>11
  <2>2. \A k \in DOMAIN cats : 100 * cats[k].total >= 50 * whole <=> 2 * cats[k].total >= spent
    BY <1>8, <2>1
  <2>3. ASSUME "category" \in hints PROVE \E k \in DOMAIN cats : 2 * cats[k].total >= spent
    <3>1. PICK k \in top : 100 * cats[k].total >= 50 * whole
      BY <1>9, <2>1, <2>3
    <3> QED
      BY <1>7, <2>2, <3>1
  <2>4. ASSUME NEW k \in DOMAIN cats, 2 * cats[k].total >= spent PROVE "category" \in hints
    <3>1. PICK c \in top : cats[k].total <= cats[c].total
      BY <1>7
    <3>2. 2 * cats[c].total >= spent /\ c \in DOMAIN cats
      BY <1>7, <1>8, <2>4, <3>1
    <3>3. S # {} /\ 100 * cats[c].total >= 50 * whole
      BY <1>10, <2>2, <3>2
    <3> QED
      BY <1>9, <2>1, <3>1, <3>3
  <2> QED
    BY <2>3, <2>4
<1>12. ASSUME spent = 0, \A i \in S : b[i].amount >= 0 PROVE "category" \notin hints
  <2>1. whole = 1
    BY <1>4, <1>12
  <2>2. ASSUME NEW k \in DOMAIN cats PROVE cats[k].total <= 0
    <3>1. PICK G, H : G = {i \in S : Cards!CategoryOf(b)[i] = k} /\ H = S \ G
      OBVIOUS
    <3>2. cats[k].total = Cards!Money(b, G) /\ G \subseteq Known(b) /\ H \subseteq Known(b) /\ G \cap H = {} /\ S = G \cup H
      BY <1>2, <1>5, <2>2, <3>1 DEF Grouped
    <3>3. Cards!Money(b, G) \in Int /\ Cards!Money(b, H) \in Nat
      BY <1>12, <3>2, MoneyIs, NothingOwed
    <3>4. Cards!Money(b, G \cup H) = Cards!Money(b, G) + Cards!Money(b, H)
      BY <3>2, MoneyParts
    <3>5. 0 = Cards!Money(b, G) + Cards!Money(b, H)
      BY <1>3, <1>12, <3>2, <3>4
    <3> QED
      BY <3>2, <3>3, <3>5
  <2>3. \A k \in top : ~(100 * cats[k].total >= 50 * whole)
    BY <1>7, <1>8, <2>1, <2>2
  <2> QED
    BY <1>9, <2>1, <2>3
<1>13. PICK R : R = {i \in S : b[i].status = "needs_review"}
  OBVIOUS
<1>14. Cardinality(R) \in Nat /\ Cardinality(S) \in Nat
  <2>1. R \subseteq Known(b)
    BY <1>2, <1>13
  <2> QED
    BY <1>2, <2>1, MoneyIs
<1>15. "review" \in hints => 100 * Cardinality(R) > 30 * Cardinality(S)
  BY <1>1, <1>13, CardsNumbers DEF Cards!Insights
<1>16. "review" \in hints => Cards!Overview(b, q).review > 0
  <2>1. Cards!Overview(b, q).review = Cardinality(R)
    BY <1>1, <1>13, SpentIs
  <2> QED
    BY <1>14, <1>15, <2>1
<1>17. PICK t : t = Cards!Breakdown(b, q)
  OBVIOUS
<1>18. t.categories = cats
  BY <1>1, <1>17 DEF Cards!Breakdown
<1>19. Cards!Overview(b, q).spent = spent
  BY <1>1, <1>3, SpentIs
<1> QED
  BY <1>1, <1>11, <1>12, <1>16, <1>17, <1>18, <1>19 DEF Cards!HintsAddUp

(* The receipts of a year are those with a date from its first month to its last. *)
Picked(q, y) == [q EXCEPT !.from = Cards!Month(y, 1), !.to = Cards!Month(y, 12)]

AnyDate(b, q) ==
  {i \in Cards!Fetched(b, "expense") : /\ q.industry \in {"any", b[i].industry}
                                       /\ q.unreviewed \/ b[i].status \in {"processed", "pending_approval"}}

LEMMA YearPicked ==
  ASSUME Cards!FiguresAssumption, NEW b \in Ledgers, NEW q \in Questions, NEW y \in 1970..2100
  PROVE  Cards!Counted(b, Picked(q, y)) = {i \in Cards!InYears(b, q) : Cards!OfYear(b)[i] = y}
<1>1. q \in [from : Nat, to : Nat, industry : STRING, category : STRING, unreviewed : BOOLEAN, months : Nat,
             years : 1..(ThisYear - 1969), key : {"register", "tax", "totals"}, sensitive : BOOLEAN, admin : BOOLEAN]
  BY DEF Cards!FiguresAssumption
<1>2. PICK p, a : p = Picked(q, y) /\ a = Cards!Anytime(q)
  OBVIOUS
<1>3. /\ p.from = y * 12 /\ p.to = y * 12 + 11 /\ p.industry = q.industry /\ p.unreviewed = q.unreviewed
      /\ a.from = 0 /\ a.to = 0 /\ a.industry = q.industry /\ a.unreviewed = q.unreviewed
  BY <1>1, <1>2 DEF Picked, Cards!Month, Cards!Anytime, Cards!NoDate
<1>4. PICK F : F = AnyDate(b, q)
  OBVIOUS
<1>5. F \subseteq Known(b)
  BY <1>4 DEF AnyDate, Cards!Fetched, Known
<1>6. \A i \in F : b[i].date \in Nat
  BY <1>5 DEF Known, Cards!FiguresAssumption
<1>7. Cards!Counted(b, a) = F
  BY <1>3, <1>4 DEF AnyDate, Cards!Counted, Cards!Bounded, Cards!NoDate
<1>8. Cards!Counted(b, p) = {i \in F : b[i].date # 0 /\ b[i].date >= y * 12 /\ b[i].date <= y * 12 + 11}
  <2>1. p.from # 0 /\ p.to # 0
    BY <1>3
  <2> QED
    BY <1>3, <1>4, <2>1 DEF AnyDate, Cards!Counted, Cards!Bounded, Cards!Within, Cards!NoDate
<1>9. \A i \in F : Cards!OfYear(b)[i] = b[i].date \div 12
  BY <1>5 DEF Cards!OfYear, Cards!YearOf, Known
<1>10. ASSUME NEW d \in Nat PROVE d >= y * 12 /\ d <= y * 12 + 11 <=> d \div 12 = y
  <2>1. PICK x, r \in Nat : x = d \div 12 /\ x \in Nat /\ r = d % 12 /\ d = x * 12 + r /\ r <= 11
    OBVIOUS
  <2> QED
    BY <2>1
<1>11. {i \in Cards!InYears(b, q) : Cards!OfYear(b)[i] = y}
         = {i \in F : b[i].date # 0 /\ b[i].date \div 12 = y}
  BY <1>2, <1>7, <1>9 DEF Cards!InYears, Cards!Usual, Cards!NoDate
<1> QED
  BY <1>2, <1>6, <1>8, <1>10, <1>11

(* The years: what is told of one is what the overview tells of it. *)
LEMMA YearlyTells ==
  ASSUME Cards!FiguresAssumption, NEW b \in Ledgers, NEW q \in Questions
  PROVE  Cards!YearsAddUp(b, q, Cards!Yearly(b, q))
<1>1. PICK S, key, f, told : /\ S = Cards!InYears(b, q) /\ key = Cards!OfYear(b) /\ f = Cards!Sums(b, S, key)
                             /\ told = Cards!YearsTold(b, q)
  OBVIOUS
<1>2. S \subseteq Known(b)
  BY <1>1, ToldAreKnown
<1>3. Grouped(b, S, key, f)
  BY <1>1, <1>2, SumsAre
<1>4. PICK D : D = DOMAIN f
  OBVIOUS
<1>5. D = {key[i] : i \in S} /\ IsFiniteSet(D) /\ D \subseteq 1970..2100
  <2>1. D = {key[i] : i \in S} /\ IsFiniteSet(D)
    BY <1>3, <1>4 DEF Grouped
  <2>2. \A i \in S : key[i] \in 1970..2100
    BY <1>1 DEF Cards!InYears, Cards!Usual
  <2> QED
    BY <2>1, <2>2
<1>6. q.years \in 1..(ThisYear - 1969) /\ ThisYear \in 1970..2100
  BY DEF Cards!FiguresAssumption
<1>7. told = IF Cards!Window(q) \cap D = {} /\ D # {} THEN Cards!Latest(D, q.years) ELSE Cards!Window(q)
  BY <1>1, <1>5 DEF Cards!YearsTold
<1>8. Cards!Latest(D, q.years) \subseteq D /\ (D # {} => Cards!Latest(D, q.years) # {})
  <2>1. PICK n \in Nat : n = q.years /\ n # 0
    BY <1>6
  <2>2. D \subseteq Nat /\ IsFiniteSet(D)
    BY <1>5
  <2>3. Cards!Latest(D, n) \subseteq D /\ (n # 0 /\ D # {} => Cards!Latest(D, n) # {})
    BY <2>2, LatestAre
  <2> QED
    BY <2>1, <2>3
<1>9. told \subseteq 1970..2100
  <2>1. Cards!Window(q) \subseteq 1970..2100
    BY <1>6 DEF Cards!Window
  <2> QED
    BY <1>5, <1>7, <1>8, <2>1
<1>10. D # {} => told \cap D # {}
  BY <1>7, <1>8
<1>11. PICK F : F = Cards!Yearly(b, q)
  OBVIOUS
<1>12. F = [y \in told |-> IF y \in D THEN [total |-> f[y].total, count |-> f[y].count] ELSE [total |-> 0, count |-> 0]]
  BY <1>1, <1>4, <1>11 DEF Cards!Yearly
<1>13. ASSUME NEW y \in told
       PROVE  /\ F[y].total = Cards!Overview(b, Picked(q, y)).spent
              /\ F[y].count = Cards!Overview(b, Picked(q, y)).receipts
  <2>1. PICK G : G = {i \in S : key[i] = y}
    OBVIOUS
  <2>2. Cards!Counted(b, Picked(q, y)) = G
    BY <1>1, <1>9, <2>1, YearPicked
  <2>3. /\ Cards!Overview(b, Picked(q, y)).spent = Cards!Money(b, G)
        /\ Cards!Overview(b, Picked(q, y)).receipts = Cardinality(G)
    BY <2>2, SpentIs
  <2>4. CASE y \in D
    <3>1. F[y].total = f[y].total /\ F[y].count = f[y].count
      BY <1>12, <2>4
    <3>2. f[y].total = Cards!Money(b, G) /\ f[y].count = Cardinality(G)
      BY <1>3, <1>4, <2>1, <2>4 DEF Grouped
    <3> QED
      BY <2>3, <3>1, <3>2
  <2>5. CASE y \notin D
    <3>1. F[y].total = 0 /\ F[y].count = 0
      BY <1>12, <2>5
    <3>2. G = {}
      BY <1>5, <2>1, <2>5
    <3>3. Cards!Money(b, G) = 0
      <4>1. Cards!Money(b, G) = Come(Amount(b), G)
        BY <1>2, <2>1, MoneyIs
      <4> QED
        BY <3>2, <4>1, ComeNone
    <3> QED
      BY <2>3, <3>1, <3>2, <3>3, FS_EmptySet
  <2> QED
    BY <2>4, <2>5
<1>14. ASSUME S # {} PROVE \E y \in told : F[y].count > 0
  <2>1. PICK y \in told : y \in D
    BY <1>5, <1>10, <1>14
  <2>2. F[y].count = f[y].count
    BY <1>12, <2>1
  <2>3. f[y].count \in Nat \ {0}
    BY <1>3, <1>4, <2>1 DEF Grouped
  <2> QED
    BY <2>1, <2>2, <2>3
<1>15. DOMAIN F = told
  BY <1>12
<1> QED
  BY <1>1, <1>11, <1>13, <1>14, <1>15 DEF Cards!YearsAddUp, Picked

(* A register told whole has a row of every receipt. *)
LEMMA ReportTells ==
  ASSUME Cards!FiguresAssumption, NEW b \in Ledgers, NEW q \in Questions, NEW lines \in Cards!Cut(b, q)
  PROVE  Cards!ReportAddsUp(b, q, Cards!RunReport(b, q, lines))
<1>1. PICK r : r = Cards!RunReport(b, q, lines)
  OBVIOUS
<1>2. SUFFICES ASSUME q.key = "register", ~r.truncated, r.rows > 0
               PROVE  r.totals["amount"] = Cards!Money(b, Cards!Selected(b, q))
  BY <1>1 DEF Cards!ReportAddsUp
<1>3. PICK S, R : S = Cards!Selected(b, q) /\ R = Cards!Rows(b, q)
  OBVIOUS
<1>4. S \subseteq Known(b) /\ IsFiniteSet(S)
  <2>1. S \subseteq Known(b)
    BY <1>3, ToldAreKnown
  <2> QED
    BY <2>1, MoneyIs
<1>5. R = [i \in S |-> [c \in {"amount", "status", "date"} |-> IF c = "amount" THEN b[i].amount ELSE 0]]
  BY <1>2, <1>3 DEF Cards!Rows
<1>6. lines \subseteq S /\ Cardinality(lines) = Cards!Min({MaxRows, Cardinality(S)})
  <2>1. DOMAIN R = S
    BY <1>5
  <2> QED
    BY <1>3, <2>1, CardsNumbers DEF Cards!Cut
<1>7. r.rows = Cardinality(lines) /\ ~(Cardinality(lines) >= MaxRows) /\ r.totals = Cards!Totals(b, q, lines)
  BY <1>1, <1>2, CardsNumbers DEF Cards!RunReport
<1>8. IsFiniteSet(lines) /\ Cardinality(lines) \in Nat /\ Cardinality(S) \in Nat /\ MaxRows \in Nat
  <2>1. lines \in SUBSET S
    BY <1>6
  <2> QED
    BY <1>4, <2>1, FS_Subset, FS_CardinalityType DEF Cards!FiguresAssumption
<1>9. lines = S
  <2>1. PICK M : M = {MaxRows, Cardinality(S)}
    OBVIOUS
  <2>2. Cards!Min(M) \in M
    BY <1>8, <2>1, LeastOf
  <2>3. Cardinality(lines) = Cardinality(S)
    BY <1>6, <1>7, <1>8, <2>1, <2>2
  <2> QED
    BY <1>4, <1>6, <2>3, FS_Subset
<1>10. PICK i \in lines : TRUE
  <2>1. lines # {}
    BY <1>2, <1>7, FS_EmptySet
  <2> QED
    BY <2>1
<1>11. r.totals["amount"] = Cards!Total([x \in lines |-> R[x]["amount"]])
  <2>1. PICK money : money = Cards!Defs[q.key].money
    OBVIOUS
  <2>2. money = {"amount"}
    BY <1>2, <2>1 DEF Cards!Defs
  <2>3. PICK told : told = {c \in money : \E x \in lines : c \in DOMAIN R[x]}
    OBVIOUS
  <2>4. "amount" \in told
    <3>1. "amount" \in DOMAIN R[i]
      BY <1>5, <1>9, <1>10
    <3> QED
      BY <1>10, <2>2, <2>3, <3>1
  <2>5. ~(Cards!Cardinality(lines) >= MaxRows)
    BY <1>7, CardsNumbers
  <2>6. r.totals = [c \in told |-> Cards!Total([x \in lines |-> R[x][c]])]
    BY <1>3, <1>7, <2>1, <2>3, <2>5 DEF Cards!Totals
  <2> QED
    BY <2>4, <2>6
<1>12. [x \in lines |-> R[x]["amount"]] = [x \in S |-> b[x].amount]
  BY <1>5, <1>9
<1> QED
  BY <1>3, <1>11, <1>12 DEF Cards!Money

(* The cards agree: what one request tells of the receipts of an account is what  *)
(* the others tell of the same receipts, or leaves out what it says it leaves     *)
(* out: dashboard_service.py, generate_summary and the register of                *)
(* reports_service.py.                                                            *)
CardsInv == books \in Ledgers /\ FiguresAgree

THEOREM FiguresTellTheSame ==
  ASSUME Cards!FiguresAssumption
  PROVE  Cards!Spec => []FiguresAgree
<1>1. Cards!Init => CardsInv
  BY DEF Cards!Init, Cards!Nothing, CardsInv, FiguresAgree, Cards!FiguresAgree
<1>2. CardsInv /\ [Cards!Next]_Cards!vars => CardsInv'
  <2> SUFFICES ASSUME CardsInv, [Cards!Next]_Cards!vars PROVE CardsInv'
    OBVIOUS
  <2>1. books \in Ledgers /\ FiguresAgree
    BY DEF CardsInv
  <2>2. CASE UNCHANGED Cards!vars
    BY <2>1, <2>2 DEF Cards!vars, CardsInv, FiguresAgree, Cards!FiguresAgree
  <2>3. CASE Cards!AskOverview
    <3>1. PICK q \in Questions : Cards!Tell("overview", q, Cards!Overview(books, q))
      BY <2>3 DEF Cards!AskOverview
    <3>2. answered'.of = "overview" /\ answered'.q = q /\ answered'.value = Cards!Overview(books, q) /\ books' = books
      BY <3>1 DEF Cards!Tell
    <3>3. Cards!ReviewCounted(q, Cards!Overview(books, q))
      BY <2>1, OverviewTells
    <3> QED
      BY <2>1, <3>2, <3>3 DEF CardsInv, FiguresAgree, Cards!FiguresAgree
  <2>4. CASE Cards!AskTrends
    <3>1. PICK q \in Questions : Cards!Tell("trends", q, Cards!Trends(books, q))
      BY <2>4 DEF Cards!AskTrends
    <3>2. answered'.of = "trends" /\ answered'.q = q /\ answered'.value = Cards!Trends(books, q) /\ books' = books
      BY <3>1 DEF Cards!Tell
    <3>3. Cards!TrendsAddUp(books, q, Cards!Trends(books, q))
      BY <2>1, TrendsTell
    <3> QED
      BY <2>1, <3>2, <3>3 DEF CardsInv, FiguresAgree, Cards!FiguresAgree
  <2>5. CASE Cards!AskBreakdown
    <3>1. PICK q \in Questions : Cards!Tell("breakdown", q, Cards!Breakdown(books, q))
      BY <2>5 DEF Cards!AskBreakdown
    <3>2. answered'.of = "breakdown" /\ answered'.q = q /\ answered'.value = Cards!Breakdown(books, q) /\ books' = books
      BY <3>1 DEF Cards!Tell
    <3>3. Cards!SlicesAddUp(books, q, Cards!Breakdown(books, q))
      BY <2>1, BreakdownTells
    <3> QED
      BY <2>1, <3>2, <3>3 DEF CardsInv, FiguresAgree, Cards!FiguresAgree
  <2>6. CASE Cards!AskYearly
    <3>1. PICK q \in Questions : Cards!Tell("yearly", q, Cards!Yearly(books, q))
      BY <2>6 DEF Cards!AskYearly
    <3>2. answered'.of = "yearly" /\ answered'.q = q /\ answered'.value = Cards!Yearly(books, q) /\ books' = books
      BY <3>1 DEF Cards!Tell
    <3>3. Cards!YearsAddUp(books, q, Cards!Yearly(books, q))
      BY <2>1, YearlyTells
    <3> QED
      BY <2>1, <3>2, <3>3 DEF CardsInv, FiguresAgree, Cards!FiguresAgree
  <2>7. CASE Cards!AskInsights
    <3>1. PICK q \in Questions : Cards!Tell("insights", q, Cards!Insights(books, q))
      BY <2>7 DEF Cards!AskInsights
    <3>2. answered'.of = "insights" /\ answered'.q = q /\ answered'.value = Cards!Insights(books, q) /\ books' = books
      BY <3>1 DEF Cards!Tell
    <3>3. Cards!HintsAddUp(books, q, Cards!Insights(books, q))
      BY <2>1, InsightsTell
    <3> QED
      BY <2>1, <3>2, <3>3 DEF CardsInv, FiguresAgree, Cards!FiguresAgree
  <2>8. CASE Cards!AskYears
    <3>1. answered'.of = "years" /\ books' = books
      BY <2>8 DEF Cards!AskYears, Cards!Tell
    <3> QED
      BY <2>1, <3>1 DEF CardsInv, FiguresAgree, Cards!FiguresAgree
  <2>9. CASE Cards!AskSummary
    <3>1. PICK q \in Questions : Cards!Tell("summary", q, Cards!Summary(books, q))
      BY <2>9 DEF Cards!AskSummary
    <3>2. answered'.of = "summary" /\ answered'.q = q /\ answered'.value = Cards!Summary(books, q) /\ books' = books
      BY <3>1 DEF Cards!Tell
    <3>3. Cards!SummaryAddsUp(books, q, Cards!Summary(books, q))
      BY <2>1, SummaryTells
    <3> QED
      BY <2>1, <3>2, <3>3 DEF CardsInv, FiguresAgree, Cards!FiguresAgree
  <2>10. CASE Cards!AskReport
    <3>1. PICK q \in Questions : IF Cards!Masked(q) THEN Cards!Tell("report", q, Cards!Refused)
                                 ELSE \E lines \in Cards!Cut(books, q) : Cards!Tell("report", q, Cards!RunReport(books, q, lines))
      BY <2>10 DEF Cards!AskReport
    <3>2. CASE Cards!Masked(q)
      <4>1. answered'.of = "report" /\ answered'.q = q /\ answered'.value.refused /\ books' = books
        BY <3>1, <3>2 DEF Cards!Tell, Cards!Refused
      <4>2. Cards!ReportAddsUp(books', answered'.q, answered'.value)
        BY <4>1 DEF Cards!ReportAddsUp
      <4> QED
        BY <2>1, <4>1, <4>2 DEF CardsInv, FiguresAgree, Cards!FiguresAgree
    <3>3. CASE ~Cards!Masked(q)
      <4>1. PICK lines \in Cards!Cut(books, q) : Cards!Tell("report", q, Cards!RunReport(books, q, lines))
        BY <3>1, <3>3
      <4>2. /\ answered'.of = "report" /\ answered'.q = q
            /\ answered'.value = Cards!RunReport(books, q, lines) /\ books' = books
        BY <4>1 DEF Cards!Tell
      <4>3. Cards!ReportAddsUp(books, q, Cards!RunReport(books, q, lines))
        BY <2>1, ReportTells
      <4> QED
        BY <2>1, <4>2, <4>3 DEF CardsInv, FiguresAgree, Cards!FiguresAgree
    <3> QED
      BY <3>2, <3>3
  <2> QED
    BY <2>2, <2>3, <2>4, <2>5, <2>6, <2>7, <2>8, <2>9, <2>10 DEF Cards!Next
<1> QED
  BY <1>1, <1>2, PTL DEF Cards!Spec, CardsInv

=============================================================================
