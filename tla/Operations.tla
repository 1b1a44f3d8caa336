------------------------------ MODULE Operations ------------------------------
(***************************************************************************)
(* Mutations under an idempotency key: SyncService::with_operation over the *)
(* operations table, the routes that call it, and the client's Outbox that  *)
(* repeats an operation until it is answered (docs/sync.md 8 and 10).       *)
(*                                                                         *)
(* Each statement is a step; between two of them other attempts run, and    *)
(* the handler may be dropped or the process may end. A reply may be lost.  *)
(***************************************************************************)
EXTENDS Naturals

CONSTANTS
  Actions, Ids, IdOf,  \* what users did, the keys clients gave them
  OwnerOf, KindOf,     \* the account and the kind of each action
  CarrierOf,           \* where each client puts its key: "header", "body", "query"
  Procs,               \* attempts handled at the same time
  MaxFaults            \* bounds: handlers dropped, errors, replies lost, purges

Kinds == {"send_message", "patch_message", "move_message"}

ASSUME OperationsAssumption ==
  /\ IdOf \in [Actions -> Ids] /\ KindOf \in [Actions -> Kinds]
  /\ CarrierOf \in [Actions -> {"header", "body", "query"}]
  /\ DOMAIN OwnerOf = Actions
  /\ MaxFaults \in [{"drops", "errors", "losses", "purges"} -> Nat]

VARIABLES
  row,      \* operations: its state, and the action whose handler claimed it
  handler,  \* the attempts being handled
  outbox,   \* what each client knows of its action: "pending", "done", "failed"
  faults,   \* how many of each happened
  (* History. *)
  effects,  \* how often the work of a key's actions took effect
  purged,   \* how often a key was forgotten
  served    \* the actions whose result a client got as its own

vars == <<row, handler, outbox, faults, effects, purged, served>>

NoRow == [state |-> "none"]
Idle == [at |-> "idle"]

Init ==
  /\ row = [i \in Ids |-> NoRow]
  /\ handler = [p \in Procs |-> Idle]
  /\ outbox = [a \in Actions |-> "pending"]
  /\ faults = [f \in DOMAIN MaxFaults |-> 0]
  /\ effects = [i \in Ids |-> 0]
  /\ purged = [i \in Ids |-> 0]
  /\ served = [a \in Actions |-> {}]

Fault(f) == faults[f] < MaxFaults[f] /\ faults' = [faults EXCEPT ![f] = @ + 1]

(* Where a route looks for the key: POST /client/messages in the query, the *)
(* other client routes in the body, the management routes in a header, but  *)
(* PATCH not at all.                                                        *)
Keyed(a) == \/ CarrierOf[a] = "header" /\ KindOf[a] # "patch_message"
            \/ CarrierOf[a] = "query" /\ KindOf[a] = "send_message"
            \/ CarrierOf[a] = "body" /\ KindOf[a] # "send_message"

(* A client whose action is not settled makes one more attempt; without a   *)
(* key that the route finds, the work runs straight through.                *)
Attempt(p, a) ==
  /\ handler[p] = Idle
  /\ outbox[a] = "pending"
  /\ handler' = [handler EXCEPT ![p] = [at |-> IF Keyed(a) THEN "begin" ELSE "work", action |-> a]]
  /\ UNCHANGED <<row, outbox, faults, effects, purged, served>>

(* The reply, and what the Outbox makes of it: a conflict is final unless   *)
(* it says "has not finished; retry later", a temporary error is not.       *)
Settled(reply) == IF reply = "ok" THEN "done"
                  ELSE IF reply \in {"conflict", "error"} THEN "failed" ELSE "pending"
Answer(p, reply, source) ==
  LET a == handler[p].action IN
  /\ handler' = [handler EXCEPT ![p] = Idle]
  /\ \/ /\ outbox' = [outbox EXCEPT ![a] = IF @ = "pending" THEN Settled(reply) ELSE @]
        /\ served' = [served EXCEPT ![a] = IF reply = "ok" THEN @ \cup {source} ELSE @]
        /\ UNCHANGED faults
     \/ Fault("losses") /\ UNCHANGED <<outbox, served>>

(* begin: INSERT ... ON CONFLICT DO NOTHING claims a key that is new, ...   *)
Begin_Overwrite(p) ==
  /\ handler[p].at = "begin"
  /\ LET a == handler[p].action IN
       /\ row' = [row EXCEPT ![IdOf[a]] = [state |-> "open", by |-> a]]
       /\ handler' = [handler EXCEPT ![p].at = "work"]
  /\ UNCHANGED <<outbox, faults, effects, purged, served>>
Begin(p) ==
  /\ handler[p].at = "begin"
  /\ LET a == handler[p].action IN
       IF row[IdOf[a]] = NoRow
       THEN /\ row' = [row EXCEPT ![IdOf[a]] = [state |-> "open", by |-> a]]
            /\ handler' = [handler EXCEPT ![p].at = "work"]
       ELSE row' = row /\ handler' = [handler EXCEPT ![p].at = "find"]
  /\ UNCHANGED <<outbox, faults, effects, purged, served>>

(* ... and otherwise find reads the row, which must be of the same account  *)
(* and kind, and what it holds is replayed.                                 *)
Scoped_KindOnly(a, b) == KindOf[a] = KindOf[b]
Scoped(a, b) == OwnerOf[a] = OwnerOf[b] /\ KindOf[a] = KindOf[b]
Replay_FailedIsOpen(r) == IF r.state = "applied" THEN "ok" ELSE "unfinished"
Replay(r) == IF r.state = "open" THEN "unfinished" ELSE IF r.state = "failed" THEN "conflict" ELSE "ok"
Find(p) ==
  /\ handler[p].at = "find"
  /\ LET a == handler[p].action
         r == row[IdOf[a]] IN
       IF r = NoRow THEN Answer(p, "conflict", a)
       ELSE Answer(p, IF Scoped(a, r.by) THEN Replay(r) ELSE "conflict", r.by)
  /\ UNCHANGED <<row, effects, purged>>

(* The work: it commits, or fails for now or for good; an error may also    *)
(* follow the commit (its acknowledgement is lost, or the journal entry     *)
(* of a deletion fails).                                                    *)
Work(p) ==
  /\ handler[p].at = "work"
  /\ \E outcome \in {"ok", "temporary", "error"}, effect \in {0, 1} :
       /\ outcome = "ok" => effect = 1 /\ UNCHANGED faults
       /\ outcome # "ok" => Fault("errors")
       /\ effects' = [effects EXCEPT ![IdOf[handler[p].action]] = @ + effect]
       /\ handler' = [handler EXCEPT ![p] =
            [at |-> "record", action |-> @.action, outcome |-> outcome]]
  /\ UNCHANGED <<row, outbox, purged, served>>

(* complete or fail: an UPDATE by key alone; when it fails that is logged.  *)
Recorded_AsDone(outcome) == "applied"
Recorded(outcome) == IF outcome = "ok" THEN "applied" ELSE "failed"
Record(p) ==
  /\ handler[p].at = "record"
  /\ LET a == handler[p].action
         stored == Keyed(a) /\ row[IdOf[a]] # NoRow IN
       /\ row' = IF stored THEN [row EXCEPT ![IdOf[a]].state = Recorded(handler[p].outcome)] ELSE row
       /\ Answer(p, handler[p].outcome, a)
  /\ UNCHANGED <<effects, purged>>
RecordFails(p) ==
  /\ handler[p].at = "record"
  /\ Fault("errors")
  /\ handler' = [handler EXCEPT ![p] = Idle]
  /\ outbox' = [outbox EXCEPT ![handler[p].action] =
                  IF @ = "pending" THEN Settled(handler[p].outcome) ELSE @]
  /\ served' = [served EXCEPT ![handler[p].action] =
                  IF handler[p].outcome = "ok" THEN @ \cup {handler[p].action} ELSE @]
  /\ UNCHANGED <<row, effects, purged>>

(* The client disconnects, or the process ends.                             *)
Drop(p) ==
  /\ handler[p] # Idle
  /\ Fault("drops")
  /\ handler' = [handler EXCEPT ![p] = Idle]
  /\ UNCHANGED <<row, outbox, effects, purged, served>>

(* `ferroma sync prune`: rows older than the retention, which no work       *)
(* outlasts.                                                                *)
Working(i) == \E p \in Procs : handler[p].at \in {"work", "record"} /\ IdOf[handler[p].action] = i
Purge(i) ==
  /\ row[i] # NoRow
  /\ ~Working(i)
  /\ Fault("purges")
  /\ row' = [row EXCEPT ![i] = NoRow]
  /\ purged' = [purged EXCEPT ![i] = @ + 1]
  /\ UNCHANGED <<handler, outbox, effects, served>>

Next ==
  \/ \E p \in Procs : \/ \E a \in Actions : Attempt(p, a)
                      \/ Begin(p) \/ Find(p) \/ Work(p) \/ Record(p) \/ RecordFails(p) \/ Drop(p)
  \/ \E i \in Ids : Purge(i)

(* The runtime polls every handler, and a client keeps repeating what it    *)
(* has no answer to (docs/sync.md 10).                                      *)
Fairness ==
  /\ \A p \in Procs : WF_vars(Begin(p) \/ Find(p) \/ Work(p) \/ Record(p))
  /\ \A a \in Actions : SF_vars(\E p \in Procs : Attempt(p, a))

Spec == Init /\ [][Next]_vars /\ Fairness
-----------------------------------------------------------------------------
(* Every variable holds a value of its kind. *)
TypeOK ==
  /\ row \in [Ids -> {NoRow} \cup [state : {"open", "applied", "failed"}, by : Actions]]
  /\ handler \in [Procs -> {Idle} \cup [at : {"begin", "find", "work"}, action : Actions]
                    \cup [at : {"record"}, action : Actions, outcome : {"ok", "temporary", "error"}]]
  /\ outbox \in [Actions -> {"pending", "done", "failed"}]
  /\ faults \in [DOMAIN MaxFaults -> Nat] /\ \A f \in DOMAIN MaxFaults : faults[f] <= MaxFaults[f]
  /\ effects \in [Ids -> Nat] /\ purged \in [Ids -> Nat]
  /\ served \in [Actions -> SUBSET Actions]

(* A key takes effect once, however often and from however many attempts at *)
(* once it arrives, and whatever fails, unless it was forgotten in between  *)
(* ("a client that retries after a timeout never double-sends", api.md 1.5).*)
AtMostOnce == \A i \in Ids : effects[i] <= 1 + purged[i]

(* A client that is told its action is done has had it done.                *)
AckMeansDone == \A a \in Actions : outbox[a] = "done" => effects[IdOf[a]] >= 1

(* ... and told so by a result of its own account and kind, whoever else    *)
(* chose the same key.                                                      *)
OwnResult == \A a \in Actions : \A b \in served[a] :
  OwnerOf[b] = OwnerOf[a] /\ KindOf[b] = KindOf[a]

(* No key is left open: claimed, unrecorded, and nobody at work on it.      *)
Orphaned(i) == row[i].state = "open" /\ ~Working(i)

(* Each action is settled in the end, unless its handler vanished between   *)
(* the claim and the record: then "retry later" is the answer for good.     *)
Settles == \A a \in Actions : <>(outbox[a] # "pending" \/ Orphaned(IdOf[a]))
=============================================================================
