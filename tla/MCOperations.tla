----------------------------- MODULE MCOperations -----------------------------
(* Instances of Operations for TLC. *)
EXTENDS OperationsRefinement, TLC

CONSTANTS a1, a2, a3, i1, i2, u1, u2, p1, p2

(* Two sends under one key, of two accounts, and a move under another key.  *)
Shared == a1 :> i1 @@ a2 :> i1 @@ a3 :> i2
Owners == a1 :> u1 @@ a2 :> u2 @@ a3 :> u1
Routes == a1 :> "send_message" @@ a2 :> "send_message" @@ a3 :> "move_message"
(* Where the routes of the code look for it. *)
AsCoded == a1 :> "query" @@ a2 :> "header" @@ a3 :> "body"
Faults == [drops |-> 1, errors |-> 1, losses |-> 1, purges |-> 1]

(* One send whose key is in the body, as docs/api.md 1.5 has it.            *)
OneId == a1 :> i1
OneOwner == a1 :> u1
OneSend == a1 :> "send_message"
AsDocumented == a1 :> "body"
=============================================================================
