----------------------------- MODULE ProviderKeys -----------------------------
(***************************************************************************)
(* Whose key pays for an extraction: the AI settings of a user             *)
(* (api/settings.py), the shared keys of the administrators (api/auth.py,  *)
(* admin_keys_service.py), how a call resolves provider, model, key and    *)
(* thinking mode from them, and how it goes through the Gemini SDK, whose  *)
(* key is global to the process (services/gemini.py).  Every read and      *)
(* every write of the two tables is a step of its own; so is every step of *)
(* the thread that calls the SDK.                                          *)
(***************************************************************************)
EXTENDS SdkCalls, Naturals, FiniteSets

CONSTANTS Users, Keys, NoKey,
          Models,        \* the registry: a set of models for each provider
          DefaultModel,  \* default_model_for each provider
          RowModel,      \* what a settings row says when no model was given
          Start,         \* the shared keys at the start
          UserBodies,    \* what a user may put
          AdminBodies,   \* what an administrator may put
          Budget         \* bound: puts, admin puts, calls and failed reads, one record

Providers == DOMAIN Models

(* What the deployment and the bodies of the requests are made of. *)
Pays == Keys \cup {NoKey}
Shares(f) == DOMAIN f = Providers /\ \A o \in Providers : f[o].key \in Pays
KeysAssumption ==
  /\ IsFiniteSet(Keys) /\ NoKey \notin Keys /\ "gemini" \in Providers /\ Shares(Start)
  /\ \A b \in UserBodies : b.provider \in {"same"} \cup Providers /\ b.key \in {"same"} \cup Pays
  /\ \A b \in AdminBodies : b.provider \in Providers /\ b.key \in {"same"} \cup Pays

VARIABLES row,        \* user_ai_settings: NoRow, or a row, for each user
          shared,     \* admin_provider_keys: an entry for each provider
          sdk,        \* the key genai is configured with
          current,    \* _current_configured_key
          lockOf,     \* _genai_lock_by_key: a lock for each key, 0 before there is one
          left        \* what is left of the budget

vars == <<row, shared, req, sdk, current, lockOf, left>>

NoRow == [provider |-> "none"]
Unset == [p \in Providers |-> "unset"]
(* configs: a key and a thinking mode for each provider that has an entry. *)
FreshRow == [provider |-> "gemini", model |-> RowModel, key |-> [p \in Providers |-> NoKey], think |-> Unset]

Idle == [pc |-> "idle"]
Is(p, pc) == req[p].pc = pc
To(p, r) == req' = [req EXCEPT ![p] = r]
Spend(what) == left[what] > 0 /\ left' = [left EXCEPT ![what] = @ - 1]

Init == /\ row = [u \in Users |-> NoRow] /\ shared = Start
        /\ req = [p \in Requests |-> Idle]
        /\ sdk = NoKey /\ current = NoKey /\ lockOf = [k \in Keys |-> 0]
        /\ left = Budget

-----------------------------------------------------------------------------
(* PUT /settings/ai: read, change, write.  "same" is what the body leaves    *)
(* out; a masked key is left out too.  A model that the provider does not    *)
(* have is refused.                                                          *)
Updated(r, b) ==
  LET s == IF r = NoRow THEN FreshRow ELSE r
      p == IF b.provider = "same" THEN s.provider ELSE b.provider
  IN [provider |-> p, model |-> IF b.model = "same" THEN s.model ELSE b.model,
      key   |-> IF b.key = "same" THEN s.key ELSE [s.key EXCEPT ![p] = b.key],
      think |-> [s.think EXCEPT ![p] = IF b.think # "same" THEN b.think ELSE IF @ = "unset" THEN "off" ELSE @]]

Accepted(r, b) ==
  LET p == IF b.provider # "same" THEN b.provider ELSE IF r = NoRow THEN "gemini" ELSE r.provider
  IN b.model # "same" => b.model \in Models[p]

PutRead(p, u, b) ==
  /\ Is(p, "idle") /\ Spend("puts") /\ Accepted(row[u], b)
  /\ To(p, [pc |-> "put", user |-> u, row |-> Updated(row[u], b)])
  /\ UNCHANGED <<row, shared, sdk, current, lockOf>>

PutWrite(p) ==
  /\ Is(p, "put") /\ row' = [row EXCEPT ![req[p].user] = req[p].row] /\ To(p, Idle)
  /\ UNCHANGED <<shared, sdk, current, lockOf, left>>

(* PUT /admin/settings/ai-providers, for one provider: the key is kept when   *)
(* it is masked or left out, cleared when it is empty.                       *)
SharedRead(p, b) ==
  /\ Is(p, "idle") /\ Spend("adminputs")
  /\ To(p, [pc |-> "share", shared |-> [shared EXCEPT ![b.provider] =
       [key |-> IF b.key = "same" THEN @.key ELSE b.key, enabled |-> b.enabled,
        model |-> IF b.model = "none" THEN DefaultModel[b.provider] ELSE b.model, think |-> b.think]]])
  /\ UNCHANGED <<row, shared, sdk, current, lockOf>>

SharedWrite(p) ==
  /\ Is(p, "share") /\ shared' = req[p].shared /\ To(p, Idle)
  /\ UNCHANGED <<row, sdk, current, lockOf, left>>

-----------------------------------------------------------------------------
(* get_gemini_config.                                                        *)
(* A model that is not the provider's is healed to the provider's default. *)
OwnModel(r) ==
  IF r = NoRow THEN DefaultModel["gemini"]
  ELSE IF r.model \in Models[r.provider] THEN r.model ELSE DefaultModel[r.provider]

(* The first read: the user's row.  A read that fails counts as no row. *)
Extract(p, u, failed) ==
  LET r == IF failed THEN NoRow ELSE row[u]
      provider == IF r = NoRow THEN "gemini" ELSE r.provider
  IN /\ Is(p, "idle") /\ left.calls > 0 /\ (failed => left.failures > 0)
     /\ left' = [left EXCEPT !.calls = @ - 1, !.failures = @ - (IF failed THEN 1 ELSE 0)]
     /\ To(p, [pc |-> "resolve", user |-> u, provider |-> provider, model |-> OwnModel(r),
               key |-> IF r = NoRow THEN NoKey ELSE r.key[provider]])
     /\ UNCHANGED <<row, shared, sdk, current, lockOf>>

(* The second read: the shared key counts when the user has none, and its    *)
(* model when the user has not chosen another than the default.              *)
Resolve(p) ==
  LET c == req[p]
      s == shared[c.provider]
      borrowed == c.key = NoKey
      healed == IF s.model \in Models[c.provider] THEN s.model ELSE c.model
  IN /\ Is(p, "resolve")
     /\ IF borrowed /\ ~(s.enabled /\ s.key # NoKey) THEN To(p, Idle)
        ELSE To(p, [pc |-> "think", user |-> c.user, provider |-> c.provider,
                    key   |-> IF borrowed THEN s.key ELSE c.key,
                    model |-> IF borrowed /\ c.model = DefaultModel[c.provider] THEN healed ELSE c.model])
     /\ UNCHANGED <<row, shared, sdk, current, lockOf, left>>

(* The call itself: through the SDK, or by a client of its own with its key. *)
Ready(p, c, think) ==
  To(p, [pc |-> IF c.provider = "gemini" THEN "lock" ELSE "calling", provider |-> c.provider,
         model |-> c.model, key |-> c.key, billed |-> c.key, lock |-> 0, think |-> think])

(* resolve_thinking_mode: the user's for this provider, else the shared one. *)
Think(p) ==
  LET c == req[p] IN
  /\ Is(p, "think")
  /\ IF row[c.user] # NoRow /\ row[c.user].think[c.provider] # "unset"
       THEN Ready(p, c, row[c.user].think[c.provider] = "on")
       ELSE To(p, [c EXCEPT !.pc = "think2"])
  /\ UNCHANGED <<row, shared, sdk, current, lockOf, left>>

ThinkShared(p) ==
  /\ Is(p, "think2") /\ Ready(p, req[p], shared[req[p].provider].think)
  /\ UNCHANGED <<row, shared, sdk, current, lockOf, left>>

(* test_api_key with a key the user has typed, or one that is saved; the model *)
(* is the one asked for, whatever it is, and plays no part here.              *)
TestKey(p, k, provider) ==
  /\ Is(p, "idle") /\ Spend("calls")
  /\ Ready(p, [provider |-> provider, model |-> DefaultModel[provider], key |-> k], FALSE)
  /\ UNCHANGED <<row, shared, sdk, current, lockOf>>

-----------------------------------------------------------------------------
(* _gemini_generate_content, in its thread. *)
Locks == {lockOf[k] : k \in Keys} \ {0}
Held(l) == \E p \in Requests : req[p].pc \in InSdk /\ req[p].lock = l

(* Mutant: every call makes a lock of its own. *)
LockForCall(k) == 1 + Cardinality({p \in Requests : req[p].pc \in InSdk \cup {"acquire"}})

(* _lock_for_key: the lock of the key, made at its first use. *)
LockForKey(k) == IF lockOf[k] # 0 THEN lockOf[k] ELSE 1 + Cardinality(Locks)

Lock(p) ==
  LET k == req[p].key IN
  /\ Is(p, "lock") /\ lockOf' = [lockOf EXCEPT ![k] = LockForKey(k)]
  /\ To(p, [req[p] EXCEPT !.pc = "acquire", !.lock = LockForKey(k)])
  /\ UNCHANGED <<row, shared, sdk, current, left>>

Acquire(p) ==
  /\ Is(p, "acquire") /\ ~Held(req[p].lock) /\ To(p, [req[p] EXCEPT !.pc = "check"])
  /\ UNCHANGED <<row, shared, sdk, current, lockOf, left>>

Check(p) ==
  /\ Is(p, "check")
  /\ To(p, [req[p] EXCEPT !.pc = IF current # req[p].key THEN "configure" ELSE "generate"])
  /\ UNCHANGED <<row, shared, sdk, current, lockOf, left>>

Configure(p) ==
  /\ Is(p, "configure") /\ sdk' = req[p].key /\ To(p, [req[p] EXCEPT !.pc = "mark"])
  /\ UNCHANGED <<row, shared, current, lockOf, left>>

Mark(p) ==
  /\ Is(p, "mark") /\ current' = req[p].key /\ To(p, [req[p] EXCEPT !.pc = "generate"])
  /\ UNCHANGED <<row, shared, sdk, lockOf, left>>

(* The SDK makes the call with the key it has at this moment. *)
Generate(p) ==
  /\ Is(p, "generate") /\ To(p, [req[p] EXCEPT !.pc = "calling", !.billed = sdk])
  /\ UNCHANGED <<row, shared, sdk, current, lockOf, left>>

(* The provider answers, or the call fails: the lock is released. *)
Answer(p) ==
  /\ Is(p, "calling") /\ To(p, Idle)
  /\ UNCHANGED <<row, shared, sdk, current, lockOf, left>>

-----------------------------------------------------------------------------
Next == \E p \in Requests :
          \/ \E u \in Users : \/ \E b \in UserBodies : PutRead(p, u, b)
                              \/ \E failed \in BOOLEAN : Extract(p, u, failed)
          \/ \E b \in AdminBodies : SharedRead(p, b)
          \/ \E k \in Keys, provider \in Providers : TestKey(p, k, provider)
          \/ PutWrite(p) \/ SharedWrite(p) \/ Resolve(p) \/ Think(p) \/ ThinkShared(p)
          \/ Lock(p) \/ Acquire(p) \/ Check(p) \/ Configure(p) \/ Mark(p) \/ Generate(p) \/ Answer(p)

Spec == Init /\ [][Next]_vars

-----------------------------------------------------------------------------
(* The SDK calls with the key of the call: "Serialize configure + generate    *)
(* ... at most one SDK call is in flight per worker process — the price of    *)
(* multi-tenant safety" (services/gemini.py:225-230).                         *)
BilledAsResolved == \A p \in Requests : req[p].pc = "calling" => req[p].billed = req[p].key

===============================================================================
