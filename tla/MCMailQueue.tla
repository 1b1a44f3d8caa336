---------------------------- MODULE MCMailQueue ----------------------------
(* Instances of MailQueue for TLC. *)
EXTENDS MailQueueRefinement, TLC

CONSTANTS r1, r2, m1, m2, p1, p2

(* One message with one recipient: r1. Bounce owed. *)
OneMessage == [q \in Rows |-> m1]
(* Two recipients of two messages. *)
TwoMessages == (r1 :> m1) @@ (r2 :> m2)
(* mail_queue.max_attempts as SELF_ATTEMPTS would write it under a larger   *)
(* queue.max_attempts.                                                      *)
RowAttempts == [q \in Rows |-> 2]
(* Worker processes are interchangeable. *)
SymmetricProcs == Permutations(Procs)
=============================================================================
