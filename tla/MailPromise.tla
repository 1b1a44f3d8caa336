----------------------------- MODULE MailPromise -----------------------------
(***************************************************************************)
(* What the outbound queue promises for one recipient of one message,      *)
(* without workers, claims, tokens or restarts: once mail is taken, its     *)
(* recipient may receive it (at least once, perhaps more), and the sender's *)
(* side ends in exactly one final state, each for its own reason:           *)
(* delivered only after a receipt, failed, or withdrawn; and it is dropped  *)
(* only when the sender has an answer.                                      *)
(***************************************************************************)
EXTENDS Naturals

CONSTANTS Rows, NoticeRows

VARIABLES state, received, notices
pvars == <<state, received, notices>>

PromiseState == {"none", "owed", "delivered", "failed", "withdrawn", "dropped"}

PInit == /\ state = [q \in Rows |-> "none"]
         /\ received = [q \in Rows |-> 0]
         /\ notices = [q \in Rows |-> 0]

(* Mail is taken for all its recipients or for none. *)
Take(S) == /\ \A q \in S : state[q] = "none"
           /\ state' = [q \in Rows |-> IF q \in S THEN "owed" ELSE state[q]]
           /\ UNCHANGED <<received, notices>>

(* Only mail that was taken reaches anybody; a copy under way still arrives *)
(* after the rest is forgotten.                                             *)
Receive(q) == /\ state[q] # "none"
              /\ received' = [received EXCEPT ![q] = @ + 1]
              /\ UNCHANGED <<state, notices>>

Conclude(q, final) == /\ state[q] = "owed"
                      /\ state' = [state EXCEPT ![q] = final]
                      /\ UNCHANGED <<received, notices>>

Confirm(q) == received[q] > 0 /\ Conclude(q, "delivered")
GiveUp(q) == Conclude(q, "failed")
Withdraw(q) == Conclude(q, "withdrawn")

(* Only the failure of mail that a notice is owed for brings one. *)
Notify(q) == /\ q \in NoticeRows
             /\ state[q] \in {"failed", "dropped"}
             /\ notices' = [notices EXCEPT ![q] = @ + 1]
             /\ UNCHANGED <<state, received>>

(* Forgetting mail is harmless once nothing is owed to anybody for it. *)
Drop(S) == /\ \A q \in S : /\ state[q] \notin {"none", "owed"}
                           /\ state[q] = "failed" /\ q \in NoticeRows => notices[q] > 0
           /\ state' = [q \in Rows |-> IF q \in S THEN "dropped" ELSE state[q]]
           /\ UNCHANGED <<received, notices>>

PNext == \/ \E S \in SUBSET Rows : Take(S) \/ Drop(S)
         \/ \E q \in Rows : Receive(q) \/ Confirm(q) \/ GiveUp(q) \/ Withdraw(q) \/ Notify(q)

PSpec == PInit /\ [][PNext]_pvars
=============================================================================
