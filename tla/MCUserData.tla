------------------------------ MODULE MCUserData ------------------------------
(* UserData for TLC: what may happen together in one behaviour.             *)
EXTENDS UserData
CONSTANTS r1, r2

(* One deletion while the owner saves one kind of thing; a staged image may *)
(* be attached to a receipt, and the session may end.                       *)
Saves == {{"receipt", "end"}, {"staged", "attach"}, {"backup", "end"}}
OneDeletion == {[reqs |-> {r1}, asked |-> {"delete"}, does |-> S] : S \in Saves}

(* Two deletions at once, and one change of an account, new accounts among *)
(* them, while nothing is saved.                                           *)
Accounts == {[reqs |-> {r1, r2}, asked |-> {"delete"}, does |-> {}],
             [reqs |-> {r1}, asked |-> {"create", "promote", "demote", "rename"}, does |-> {}]}

Deletions == OneDeletion \cup Accounts
===============================================================================
