------------------------------- MODULE SdkCalls -------------------------------
(***************************************************************************)
(* The calls that are in the hands of the Gemini SDK, and what is promised *)
(* of them: ProviderKeys says how they come and go.                        *)
(***************************************************************************)
CONSTANT Requests   \* requests and worker tasks of one process
VARIABLE req        \* what each of them does

InSdk == {"check", "configure", "mark", "generate", "calling"}
InFlight == {p \in Requests : req[p].pc \in InSdk /\ req[p].provider = "gemini"}

(* Calls with one key go through the SDK one after the other: "same-key      *)
(* calls remain serialized" (services/gemini.py:264).                        *)
OneCallPerKey == \A p, q \in InFlight : req[p].key = req[q].key => p = q

===============================================================================
