----------------------------- MODULE MCListeners -----------------------------
(* Instances of Listeners for TLC. *)
EXTENDS Listeners, TLC

CONSTANTS c1, c2, c3, ip1, ip2

(* Two connections of one address and one of another. *)
Sources == c1 :> ip1 @@ c2 :> ip1 @@ c3 :> ip2
=============================================================================
