--------------------------------- MODULE Once ---------------------------------
(***************************************************************************)
(* What an idempotency key promises the client that sends it: its action    *)
(* takes effect at most once until the key is forgotten, and is reported    *)
(* done only when it was.                                                   *)
(***************************************************************************)
EXTENDS Naturals

CONSTANTS Ids, Actions, IdOf

VARIABLES effects, purged, outbox

vars == <<effects, purged, outbox>>

Init ==
  /\ effects = [i \in Ids |-> 0]
  /\ purged = [i \in Ids |-> 0]
  /\ outbox = [a \in Actions |-> "pending"]

Effect(i) ==
  /\ effects[i] <= purged[i]
  /\ effects' = [effects EXCEPT ![i] = @ + 1]
  /\ UNCHANGED <<purged, outbox>>

Forget(i) ==
  /\ purged' = [purged EXCEPT ![i] = @ + 1]
  /\ UNCHANGED <<effects, outbox>>

Tell(a, verdict) ==
  /\ outbox[a] = "pending"
  /\ verdict = "done" => effects[IdOf[a]] > 0
  /\ outbox' = [outbox EXCEPT ![a] = verdict]
  /\ UNCHANGED <<effects, purged>>

Next ==
  \/ \E i \in Ids : Effect(i) \/ Forget(i)
  \/ \E a \in Actions : \E verdict \in {"done", "failed"} : Tell(a, verdict)

Spec == Init /\ [][Next]_vars
=============================================================================
