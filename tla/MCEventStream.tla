--------------------------- MODULE MCEventStream ---------------------------
(* Instances of EventStream for TLC. *)
EXTENDS EventStream, TLC

CONSTANTS u1, u2, s1, s2

(* A device that follows docs/fcp.md and one that trusts its socket. *)
OneUser == [s \in Sockets |-> u1]
=============================================================================
