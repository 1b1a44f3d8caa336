------------------------- MODULE MailQueueRefinement -------------------------
(* The queue keeps the promise of MailPromise, as long as no administrator  *)
(* asks for a retry (which takes a final verdict back).                      *)
EXTENDS MailQueue

PromiseOf(s) == CASE s \in Active -> "owed"
                  [] s = "cancelled" -> "withdrawn"
                  [] s = "gone" -> "dropped"
                  [] OTHER -> s

Promise == INSTANCE MailPromise WITH
  NoticeRows <- BounceRows,
  state <- [q \in Rows |-> PromiseOf(status[q])],
  received <- accepted,
  notices <- notified

(* Every step of the workers, of recovery, of time and of the requests      *)
(* other than retry is a step of the promise or leaves it alone: the claim, *)
(* its loss and its takeover are invisible, a stale result never concludes   *)
(* anything, and no notice is filed for mail that has not failed.            *)
KeepsPromise == Promise!PSpec
=============================================================================
