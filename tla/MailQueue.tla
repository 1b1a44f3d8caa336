------------------------------ MODULE MailQueue ------------------------------
(***************************************************************************)
(* The outbound mail queue: the mail_queue table, the operations of        *)
(* QueueRepository on it, the QueueWorker loop of every worker process,    *)
(* the durable bounce (DSN) task attached to a failed row, and the         *)
(* administrator's retry, cancel and delete requests that run beside it.   *)
(*                                                                         *)
(* Every SQL statement is one step; everything a worker or a request       *)
(* handler keeps between two statements is volatile state of its own, and  *)
(* is lost when its process stops.                                         *)
(*                                                                         *)
(* Time is kept as four sets of rows: those whose next_attempt_at (or      *)
(* bounce_next_attempt_at) has come, and those whose claim is older than   *)
(* the day after which a live worker takes it back.                        *)
(***************************************************************************)
EXTENDS Naturals, FiniteSets

CONSTANTS
  Rows,            \* mail_queue rows: one per recipient
  Messages,        \* stored messages the rows send
  MessageOf,       \* mail_queue.message_id, by row
  BounceRows,      \* rows a DSN is owed for: user_id set, sender parses, policy on
  Procs,           \* queue worker processes; serve.rs starts exactly one
  Workers,         \* queue.workers: claim limit and width of a batch
  MaxAttempts,     \* queue.max_attempts, the worker's give-up rule
  RowMaxAttempts,  \* mail_queue.max_attempts, by row: written, read by no statement
  MaxStops,        \* bound: process stops and crashes
  MaxSlow,         \* bound: claims that turn a day old in somebody's hands
  MaxDbErrors,     \* bound: statements of a worker that return an error
  MaxDsnFailures,  \* bound: DSNs whose local delivery returns an error
  MaxUnheard,      \* bound: copies taken from a worker that is never told so
  MaxAdminRetries, \* bound: retry requests of an administrator
  MaxFaults        \* bound: all of these together

ASSUME RowsAssumption == /\ IsFiniteSet(Rows)
                         /\ MessageOf \in [Rows -> Messages]
                         /\ BounceRows \subseteq Rows
ASSUME BudgetAssumption == /\ MaxAttempts \in Nat \ {0}
                           /\ RowMaxAttempts \in [Rows -> Nat]
                           /\ Workers \in Nat \ {0}
ASSUME BoundAssumption == /\ MaxStops \in Nat
                          /\ MaxSlow \in Nat
                          /\ MaxDbErrors \in Nat
                          /\ MaxDsnFailures \in Nat
                          /\ MaxUnheard \in Nat
                          /\ MaxAdminRetries \in Nat
                          /\ MaxFaults \in Nat

VARIABLES
  status,          \* mail_queue.status; "none" before the insert, "gone" after the cascade
  attempts,        \* mail_queue.attempts: the token of the last claim
  bounce,          \* mail_queue.bounce_status
  bounceAttempts,  \* mail_queue.bounce_attempts: the token of the last DSN claim
  clock,           \* which timestamps have come or have aged
  log,             \* delivery_attempts, by row: <<attempt, outcome>>
  pc,              \* where each worker process is in run()
  job,             \* what each process knows of the delivery claims it holds
  dsnJob,          \* and of the DSN claims it holds
  retrying,        \* retry requests that passed their status check
  faults,          \* stops, slow attempts, errors, lost answers, retry requests so far
  (* History: what the outside world and the operators have seen. *)
  accepted,        \* how often a row's message was accepted for its recipient
  unheard,         \* how often of these the worker was not told so
  notified,        \* how often its sender received a DSN
  misfiled,        \* how often of these the local delivery then returned an error
  revived,         \* how often a row was put back without a "retry" verdict
  reclaimed,       \* how often its DSN claim was taken back
  gaveUp,          \* rows some verdict of the worker failed
  withdrawn        \* rows an administrator cancelled

rowVars == <<status, attempts, bounce, bounceAttempts>>
workVars == <<pc, job, dsnJob>>
worldVars == <<accepted, unheard, notified, misfiled, revived, reclaimed, gaveUp, withdrawn>>
vars == <<status, attempts, bounce, bounceAttempts, clock, log, pc, job, dsnJob,
          retrying, faults, accepted, unheard, notified, misfiled, revived, reclaimed,
          gaveUp, withdrawn>>

Status == {"none", "pending", "delivering", "retry", "delivered", "failed", "cancelled", "gone"}
BounceStatus == {"none", "pending", "processing", "sent", "skipped"}
Outcome == {"accepted", "deferred", "refused"}
PC == {"down", "recover", "recoverBounces", "poll", "claim", "attempts",
       "bounceRecover", "bounceClaim", "dsn"}
Waiting == {"pending", "retry"}
Active == Waiting \cup {"delivering"}

Timer == {"due", "stale", "bounceDue", "bounceStale"}
Fault == {"stops", "slow", "db", "dsn", "unheard", "retries"}

(* A delivery claim held in memory: its token, and how far deliver_entry is. *)
Idle == [token |-> 0, stage |-> "idle", outcome |-> "deferred"]
Stage == {"idle", "claimed", "tried", "logged"}
Job == [token : Nat, stage : Stage, outcome : Outcome]
(* A DSN claim held in memory. *)
NoDsn == [token |-> 0, stage |-> "idle"]
DsnJob == [token : Nat, stage : {"idle", "claimed", "sent", "refused"}]

Init ==
  /\ status = [q \in Rows |-> "none"]
  /\ attempts = [q \in Rows |-> 0]
  /\ bounce = [q \in Rows |-> "none"]
  /\ bounceAttempts = [q \in Rows |-> 0]
  /\ clock = [t \in Timer |-> {}]
  /\ log = [q \in Rows |-> {}]
  /\ pc = [p \in Procs |-> "down"]
  /\ job = [p \in Procs |-> [q \in Rows |-> Idle]]
  /\ dsnJob = [p \in Procs |-> [q \in Rows |-> NoDsn]]
  /\ retrying = {}
  /\ faults = [f \in Fault |-> 0]
  /\ accepted = [q \in Rows |-> 0]
  /\ unheard = [q \in Rows |-> 0]
  /\ notified = [q \in Rows |-> 0]
  /\ misfiled = [q \in Rows |-> 0]
  /\ revived = [q \in Rows |-> 0]
  /\ reclaimed = [q \in Rows |-> 0]
  /\ gaveUp = {}
  /\ withdrawn = {}

-----------------------------------------------------------------------------
(* What several operations share. A definition named X_Y is X as a         *)
(* plausible mistake Y would have it: no specification uses it, and each    *)
(* breaks a property that a run checks.                                     *)

Goto(p, here, there) == pc[p] = here /\ pc' = [pc EXCEPT ![p] = there]

(* One more of what goes wrong, within the bounds. *)
Limit == [stops |-> MaxStops, slow |-> MaxSlow, db |-> MaxDbErrors, dsn |-> MaxDsnFailures,
          unheard |-> MaxUnheard, retries |-> MaxAdminRetries]
Troubles == faults["stops"] + faults["slow"] + faults["db"] + faults["dsn"]
              + faults["unheard"] + faults["retries"]
Occurs(f) ==
  /\ faults[f] < Limit[f]
  /\ Troubles < MaxFaults
  /\ faults' = [faults EXCEPT ![f] = @ + 1]

(* A statement of a worker returns an error and changes no row. *)
DbError ==
  /\ Occurs("db")
  /\ UNCHANGED <<status, attempts, bounce, bounceAttempts, clock, log,
                 job, dsnJob, retrying, accepted, unheard, notified, misfiled, revived,
                 reclaimed, gaveUp, withdrawn>>

(* requeue_stale: claims whose last attempt is old enough go back to retry, due now. *)
RequeueStale(S) ==
  /\ status' = [q \in Rows |-> IF q \in S THEN "retry" ELSE status[q]]
  /\ revived' = [q \in Rows |-> IF q \in S THEN revived[q] + 1 ELSE revived[q]]
  /\ clock' = [clock EXCEPT !["due"] = @ \cup S, !["stale"] = @ \ S]
  /\ UNCHANGED <<attempts, bounce, bounceAttempts, log, job, dsnJob, retrying,
                 faults, accepted, unheard, notified, misfiled, reclaimed, gaveUp, withdrawn>>

(* recover_stale_bounces: the same for DSN claims. *)
RecoverStaleBounces(S) ==
  /\ bounce' = [q \in Rows |-> IF q \in S THEN "pending" ELSE bounce[q]]
  /\ reclaimed' = [q \in Rows |-> IF q \in S THEN reclaimed[q] + 1 ELSE reclaimed[q]]
  /\ clock' = [clock EXCEPT !["bounceDue"] = @ \cup S, !["bounceStale"] = @ \ S]
  /\ UNCHANGED <<status, attempts, bounceAttempts, log, job, dsnJob, retrying,
                 faults, accepted, unheard, notified, misfiled, revived, gaveUp, withdrawn>>

(* The rows of a claim, of a DSN claim, and those the next claims may take. *)
Delivering_NeverClaimed == {q \in Rows : status[q] = "delivering" /\ attempts[q] = 0}
Delivering == {q \in Rows : status[q] = "delivering"}
Processing_NotFailed == {q \in Rows : status[q] = "retry" /\ bounce[q] = "processing"}
Processing == {q \in Rows : status[q] = "failed" /\ bounce[q] = "processing"}
DueRows == {q \in clock["due"] : status[q] \in Waiting}
DueBounces == {q \in clock["bounceDue"] : status[q] = "failed" /\ bounce[q] = "pending"}

(* What FOR UPDATE SKIP LOCKED ... LIMIT Workers may return of the rows in D. *)
Claimable(D) == {S \in SUBSET D : /\ Cardinality(S) <= Workers
                                  /\ S # D => Cardinality(S) = Workers}

(* The token of the next claim of a row. *)
NextToken_Same(q) == attempts[q]
NextToken(q) == attempts[q] + 1

(* may_retry: another attempt is allowed after the n-th. *)
MayRetry_OneMore(n) == n <= MaxAttempts
MayRetry(n) == n < MaxAttempts

(* The status deliver_entry writes for its outcome. *)
Verdict(j) == CASE j.outcome = "accepted" -> "delivered"
                [] j.outcome = "deferred" /\ MayRetry(j.token) -> "retry"
                [] OTHER -> "failed"
-----------------------------------------------------------------------------
(* The producers: one transaction inserts every recipient of a message. *)

Enqueue(m) ==
  LET new == {q \in Rows : MessageOf[q] = m} IN
  /\ \A q \in new : status[q] = "none"
  /\ new # {}
  /\ status' = [q \in Rows |-> IF q \in new THEN "pending" ELSE status[q]]
  /\ clock' = [clock EXCEPT !["due"] = @ \cup new]
  /\ UNCHANGED <<attempts, bounce, bounceAttempts, log, retrying, faults,
                 workVars, worldVars>>
-----------------------------------------------------------------------------
(* A worker process. run() recovers every claim of the process before it,  *)
(* then alternates dispatch_batch and dispatch_bounces.                     *)

Start(p) ==
  /\ Goto(p, "down", "recover")
  /\ UNCHANGED <<rowVars, clock, log, job, dsnJob, retrying, faults, worldVars>>

(* The process ends, in good order at the top of its loop or anywhere by a *)
(* crash: every claim it held in memory is forgotten, the rows stay as they *)
(* are.                                                                     *)
Stop(p) ==
  /\ pc[p] # "down"
  /\ Occurs("stops")
  /\ pc' = [pc EXCEPT ![p] = "down"]
  /\ job' = [job EXCEPT ![p] = [q \in Rows |-> Idle]]
  /\ dsnJob' = [dsnJob EXCEPT ![p] = [q \in Rows |-> NoDsn]]
  /\ UNCHANGED <<rowVars, clock, log, retrying, worldVars>>

(* recover_stale(now) on startup takes back every claim there is; an error is *)
(* logged and startup goes on.                                                 *)
RecoverOnStart(p) ==
  /\ Goto(p, "recover", "recoverBounces")
  /\ RequeueStale(Delivering) \/ DbError

RecoverBouncesOnStart(p) ==
  /\ Goto(p, "recoverBounces", "poll")
  /\ RecoverStaleBounces(Processing) \/ DbError

(* dispatch_batch: take back claims older than a day; an error ends the batch. *)
RecoverDayOld(p) ==
  \/ Goto(p, "poll", "claim") /\ RequeueStale(Delivering \cap clock["stale"])
  \/ Goto(p, "poll", "bounceRecover") /\ DbError

(* claim_due: the claim and its token are committed before anything is sent. *)
ClaimDue(p) ==
  \/ \E S \in Claimable(DueRows) :
       /\ Goto(p, "claim", "attempts")
       /\ status' = [q \in Rows |-> IF q \in S THEN "delivering" ELSE status[q]]
       /\ attempts' = [q \in Rows |-> IF q \in S THEN NextToken(q) ELSE attempts[q]]
       /\ clock' = [clock EXCEPT !["due"] = @ \ S, !["stale"] = @ \ S]
       /\ job' = [job EXCEPT ![p] = [q \in Rows |->
                    IF q \in S
                    THEN [token |-> NextToken(q), stage |-> "claimed", outcome |-> "deferred"]
                    ELSE @[q]]]
       /\ UNCHANGED <<bounce, bounceAttempts, log, dsnJob, retrying, faults, worldVars>>
  \/ Goto(p, "claim", "bounceRecover") /\ DbError

(* attempt, on the way: a remote exchanger takes the message, but its      *)
(* answer never arrives, or the deadline of the attempt cuts the QUIT that   *)
(* follows it; or the local delivery files the message and then returns an   *)
(* error. For the worker that is one more failure of this host, and it goes  *)
(* on with the next one.                                                     *)
LoseAnswer(p, q) ==
  /\ pc[p] = "attempts"
  /\ job[p][q].stage = "claimed"
  /\ Occurs("unheard")
  /\ accepted' = [accepted EXCEPT ![q] = @ + 1]
  /\ unheard' = [unheard EXCEPT ![q] = @ + 1]
  /\ UNCHANGED <<rowVars, clock, log, workVars, retrying,
                 notified, misfiled, revived, reclaimed, gaveUp, withdrawn>>

(* attempt, what it returns: the stored body is read (one that is gone by   *)
(* then is a transport failure), then the local delivery or the remote       *)
(* exchangers in turn until one of them gives a verdict. A copy is made with *)
(* the answer "accepted", and before it wherever LoseAnswer made one.        *)
Attempt(p, q, o) ==
  /\ pc[p] = "attempts"
  /\ job[p][q].stage = "claimed"
  /\ job' = [job EXCEPT ![p][q] = [token |-> @.token, stage |-> "tried", outcome |-> o]]
  /\ accepted' = [accepted EXCEPT ![q] = IF o = "accepted" THEN @ + 1 ELSE @]
  /\ UNCHANGED <<rowVars, clock, log, pc, dsnJob, retrying, faults,
                 unheard, notified, misfiled, revived, reclaimed, gaveUp, withdrawn>>

(* record_attempt: bookkeeping, whose failure is ignored. A row that is    *)
(* gone has no log to append to.                                            *)
RecordAttempt(p, q) ==
  /\ pc[p] = "attempts"
  /\ job[p][q].stage = "tried"
  /\ job' = [job EXCEPT ![p][q] = [token |-> @.token, stage |-> "logged", outcome |-> @.outcome]]
  /\ \/ /\ log' = IF status[q] = "gone" THEN log
                  ELSE [log EXCEPT ![q] = @ \cup {<<job[p][q].token, job[p][q].outcome>>}]
        /\ UNCHANGED faults
     \/ /\ Occurs("db")
        /\ UNCHANGED log
  /\ UNCHANGED <<rowVars, clock, pc, dsnJob, retrying, worldVars>>

(* finish_claim accepts the result of the claim the row still carries, and  *)
(* of no other.                                                             *)
ClaimIsCurrent_AnyClaim(q, token) == status[q] = "delivering"
ClaimIsCurrent(q, token) == status[q] = "delivering" /\ attempts[q] = token

(* deliver_entry records its verdict: the DSN task of a failure is created *)
(* by the same statement, the event follows only a verdict that was stored. *)
FinishClaim(p, q) ==
  LET j == job[p][q]
      verdict == Verdict(j)
  IN
  /\ pc[p] = "attempts"
  /\ j.stage = "logged"
  /\ job' = [job EXCEPT ![p][q] = Idle]
  /\ \/ /\ ClaimIsCurrent(q, j.token)
        /\ status' = [status EXCEPT ![q] = verdict]
        /\ bounce' = [bounce EXCEPT ![q] =
                        IF verdict = "failed"
                        THEN IF q \in BounceRows THEN "pending" ELSE "skipped"
                        ELSE @]
        /\ clock' = [clock EXCEPT !["bounceDue"] =
                        IF verdict = "failed" /\ q \in BounceRows THEN @ \cup {q} ELSE @]
        /\ gaveUp' = IF verdict = "failed" THEN gaveUp \cup {q} ELSE gaveUp
        /\ UNCHANGED faults
     \/ /\ ~ClaimIsCurrent(q, j.token)
        /\ UNCHANGED <<status, bounce, clock, gaveUp, faults>>
     \/ /\ Occurs("db")
        /\ UNCHANGED <<status, bounce, clock, gaveUp>>
  /\ UNCHANGED <<attempts, bounceAttempts, log, pc, dsnJob, retrying,
                 accepted, unheard, notified, misfiled, revived, reclaimed, withdrawn>>

(* dispatch_batch returns once every delivery of the batch has finished. *)
BatchDone(p) ==
  /\ \A q \in Rows : job[p][q].stage = "idle"
  /\ Goto(p, "attempts", "bounceRecover")
  /\ UNCHANGED <<rowVars, clock, log, job, dsnJob, retrying, faults, worldVars>>

(* dispatch_bounces: here an error of the recovery is only logged. *)
RecoverDayOldBounces(p) ==
  /\ Goto(p, "bounceRecover", "bounceClaim")
  /\ RecoverStaleBounces(Processing \cap clock["bounceStale"]) \/ DbError

ClaimDueBounces(p) ==
  \/ \E S \in Claimable(DueBounces) :
       /\ Goto(p, "bounceClaim", "dsn")
       /\ bounce' = [q \in Rows |-> IF q \in S THEN "processing" ELSE bounce[q]]
       /\ bounceAttempts' = [q \in Rows |-> IF q \in S THEN bounceAttempts[q] + 1
                                                      ELSE bounceAttempts[q]]
       /\ clock' = [clock EXCEPT !["bounceDue"] = @ \ S, !["bounceStale"] = @ \ S]
       /\ dsnJob' = [dsnJob EXCEPT ![p] = [q \in Rows |->
                       IF q \in S THEN [token |-> bounceAttempts[q] + 1, stage |-> "claimed"]
                                  ELSE @[q]]]
       /\ UNCHANGED <<status, attempts, log, job, retrying, faults, worldVars>>
  \/ Goto(p, "bounceClaim", "poll") /\ DbError

(* bounce: file the DSN in the sender's mailbox. The claimed tasks are      *)
(* worked one after the other. deliver_raw returns an error before it filed  *)
(* anything, or after: recipients and attachments of the message are written *)
(* once its row is committed, and their failure is the answer.               *)
DeliverBounce(p, q) ==
  /\ pc[p] = "dsn"
  /\ dsnJob[p][q].stage = "claimed"
  /\ \A r \in Rows : dsnJob[p][r].stage \in {"idle", "claimed"}
  /\ \/ /\ dsnJob' = [dsnJob EXCEPT ![p][q] = [token |-> @.token, stage |-> "sent"]]
        /\ notified' = [notified EXCEPT ![q] = @ + 1]
        /\ UNCHANGED <<faults, misfiled>>
     \/ /\ Occurs("dsn")
        /\ dsnJob' = [dsnJob EXCEPT ![p][q] = [token |-> @.token, stage |-> "refused"]]
        /\ \E filed \in {0, 1} : /\ notified' = [notified EXCEPT ![q] = @ + filed]
                                /\ misfiled' = [misfiled EXCEPT ![q] = @ + filed]
  /\ UNCHANGED <<rowVars, clock, log, pc, job, retrying,
                 accepted, unheard, revived, reclaimed, gaveUp, withdrawn>>

(* finish_bounce: what a DSN attempt makes of its task ... *)
DsnVerdict_Sent(stage) == "sent"
DsnVerdict_Pending(stage) == "pending"
DsnVerdict(stage) == IF stage = "sent" THEN "sent" ELSE "pending"

(* ... provided that the task still carries its token. *)
DsnIsCurrent(q, token) ==
  status[q] = "failed" /\ bounce[q] = "processing" /\ bounceAttempts[q] = token

(* deliver_bounce records the result: sent for good, or pending again later. *)
FinishBounce(p, q) ==
  LET j == dsnJob[p][q] IN
  /\ pc[p] = "dsn"
  /\ j.stage \in {"sent", "refused"}
  /\ dsnJob' = [dsnJob EXCEPT ![p][q] = NoDsn]
  /\ \/ /\ DsnIsCurrent(q, j.token)
        /\ bounce' = [bounce EXCEPT ![q] = DsnVerdict(j.stage)]
        /\ UNCHANGED faults
     \/ /\ ~DsnIsCurrent(q, j.token)
        /\ UNCHANGED <<bounce, faults>>
     \/ /\ Occurs("db")
        /\ UNCHANGED bounce
  /\ UNCHANGED <<status, attempts, bounceAttempts, clock, log, pc, job, retrying,
                 worldVars>>

(* The DSN batch is over; the process sleeps until its next poll. *)
DsnDone(p) ==
  /\ \A q \in Rows : dsnJob[p][q].stage = "idle"
  /\ Goto(p, "dsn", "poll")
  /\ UNCHANGED <<rowVars, clock, log, job, dsnJob, retrying, faults, worldVars>>
-----------------------------------------------------------------------------
(* Time. *)

(* next_attempt_at of a row in retry is reached. *)
RetryFallsDue(q) ==
  /\ status[q] = "retry"
  /\ q \notin clock["due"]
  /\ clock' = [clock EXCEPT !["due"] = @ \cup {q}]
  /\ UNCHANGED <<rowVars, log, workVars, retrying, faults, worldVars>>

BounceFallsDue(q) ==
  /\ status[q] = "failed" /\ bounce[q] = "pending"
  /\ q \notin clock["bounceDue"]
  /\ clock' = [clock EXCEPT !["bounceDue"] = @ \cup {q}]
  /\ UNCHANGED <<rowVars, log, workVars, retrying, faults, worldVars>>

(* A claim turns a day old: one that nobody holds any more, or, MaxSlow    *)
(* times, one whose attempt is merely slow.                                 *)
Age(held) ==
  IF held THEN Occurs("slow")
          ELSE UNCHANGED faults

ClaimTurnsStale(q) ==
  /\ status[q] = "delivering"
  /\ q \notin clock["stale"]
  /\ Age(\E p \in Procs : job[p][q].stage # "idle")
  /\ clock' = [clock EXCEPT !["stale"] = @ \cup {q}]
  /\ UNCHANGED <<rowVars, log, workVars, retrying, worldVars>>

BounceClaimTurnsStale(q) ==
  /\ q \in Processing
  /\ q \notin clock["bounceStale"]
  /\ Age(\E p \in Procs : dsnJob[p][q].stage # "idle")
  /\ clock' = [clock EXCEPT !["bounceStale"] = @ \cup {q}]
  /\ UNCHANGED <<rowVars, log, workVars, retrying, worldVars>>
-----------------------------------------------------------------------------
(* Requests of administrators and users. *)

(* retry_queue_entry reads the row and turns away two statuses ... *)
RetryCheck(q) ==
  /\ Occurs("retries")
  /\ status[q] \notin {"none", "gone", "delivered", "cancelled"}
  /\ q \notin retrying
  /\ retrying' = retrying \cup {q}
  /\ UNCHANGED <<rowVars, clock, log, workVars, worldVars>>

(* ... and then writes by id alone (mark_retry), whatever the row has become. *)
MarkRetry(q) ==
  /\ q \in retrying
  /\ retrying' = retrying \ {q}
  /\ IF status[q] = "gone"
     THEN UNCHANGED <<status, clock, revived>>
     ELSE /\ status' = [status EXCEPT ![q] = "retry"]
          /\ clock' = [clock EXCEPT !["due"] = @ \cup {q}]
          /\ revived' = [revived EXCEPT ![q] = @ + 1]
  /\ UNCHANGED <<attempts, bounce, bounceAttempts, log, workVars, faults,
                 accepted, unheard, notified, misfiled, reclaimed, gaveUp, withdrawn>>

Cancellable_Claimed(q) == status[q] \in Active
Cancellable(q) == status[q] \in Waiting

(* cancel: one guarded statement; a claimed row is left alone. *)
Cancel(q) ==
  /\ Cancellable(q)
  /\ status' = [status EXCEPT ![q] = "cancelled"]
  /\ withdrawn' = withdrawn \cup {q}
  /\ UNCHANGED <<attempts, bounce, bounceAttempts, clock, log, workVars, retrying,
                 faults, accepted, unheard, notified, misfiled, revived, reclaimed, gaveUp>>

(* The row still needs its message: it waits, it is claimed, or its DSN is owed. *)
NeedsMessage_Active(q) == status[q] \in Active
NeedsMessage(q) ==
  \/ status[q] \in Active
  \/ status[q] = "failed" /\ bounce[q] \in {"pending", "processing"}

(* Deleting a message, directly or with its folder, mailbox, user or domain: *)
(* the trigger refuses while a row needs it, otherwise the rows go with it.  *)
DeleteMessage(m) ==
  LET mine == {q \in Rows : MessageOf[q] = m /\ status[q] # "none"} IN
  /\ \E q \in mine : status[q] # "gone"
  /\ \A q \in mine : ~NeedsMessage(q)
  /\ status' = [q \in Rows |-> IF q \in mine THEN "gone" ELSE status[q]]
  /\ log' = [q \in Rows |-> IF q \in mine THEN {} ELSE log[q]]
  /\ UNCHANGED <<attempts, bounce, bounceAttempts, clock, workVars, retrying, faults,
                 worldVars>>
-----------------------------------------------------------------------------
WorkerStep(p) ==
  \/ RecoverOnStart(p) \/ RecoverBouncesOnStart(p)
  \/ RecoverDayOld(p) \/ ClaimDue(p) \/ BatchDone(p)
  \/ \E q \in Rows : \/ LoseAnswer(p, q)
                     \/ \E o \in Outcome : Attempt(p, q, o)
                     \/ RecordAttempt(p, q)
                     \/ FinishClaim(p, q)
  \/ RecoverDayOldBounces(p) \/ ClaimDueBounces(p) \/ DsnDone(p)
  \/ \E q \in Rows : DeliverBounce(p, q) \/ FinishBounce(p, q)

TimeStep(q) == RetryFallsDue(q) \/ BounceFallsDue(q) \/ ClaimTurnsStale(q) \/ BounceClaimTurnsStale(q)

Next ==
  \/ \E p \in Procs : Start(p) \/ Stop(p) \/ WorkerStep(p)
  \/ \E q \in Rows : TimeStep(q) \/ RetryCheck(q) \/ MarkRetry(q) \/ Cancel(q)
  \/ \E m \in Messages : Enqueue(m) \/ DeleteMessage(m)

Spec == Init /\ [][Next]_vars

(* The supervisor restarts the process, its loop keeps polling and never   *)
(* blocks for good (every wait has a timeout), and time passes.             *)
Fairness ==
  /\ \A p \in Procs : WF_vars(Start(p)) /\ WF_vars(WorkerStep(p))
  /\ \A q \in Rows : /\ WF_vars(RetryFallsDue(q)) /\ WF_vars(BounceFallsDue(q))
                     /\ WF_vars(ClaimTurnsStale(q)) /\ WF_vars(BounceClaimTurnsStale(q))

FairSpec == Spec /\ Fairness
-----------------------------------------------------------------------------
(* Properties. *)

(* Every variable stays in its type; a token held in memory is never ahead *)
(* of the counter of its row.                                               *)
TypeOK ==
  /\ status \in [Rows -> Status]
  /\ attempts \in [Rows -> Nat]
  /\ bounce \in [Rows -> BounceStatus]
  /\ bounceAttempts \in [Rows -> Nat]
  /\ clock \in [Timer -> SUBSET Rows]
  /\ log \in [Rows -> SUBSET (Nat \X Outcome)]
  /\ pc \in [Procs -> PC]
  /\ job \in [Procs -> [Rows -> Job]]
  /\ dsnJob \in [Procs -> [Rows -> DsnJob]]
  /\ retrying \in SUBSET Rows
  /\ faults \in [Fault -> Nat]
  /\ accepted \in [Rows -> Nat]
  /\ unheard \in [Rows -> Nat]
  /\ notified \in [Rows -> Nat]
  /\ misfiled \in [Rows -> Nat]
  /\ revived \in [Rows -> Nat]
  /\ reclaimed \in [Rows -> Nat]
  /\ gaveUp \in SUBSET Rows
  /\ withdrawn \in SUBSET Rows

(* The sender of a row has an answer: its recipient has the message, or an *)
(* administrator withdrew it, or a verdict failed it and, where a DSN is    *)
(* owed, a DSN was filed.                                                   *)
Settled(q) ==
  \/ accepted[q] > 0
  \/ q \in withdrawn
  \/ q \in gaveUp /\ (q \in BounceRows => notified[q] > 0)

(* No mail is lost in silence: whatever crashes, errors, takeovers and     *)
(* requests come between, a row that has stopped holding its message (it is *)
(* final with no DSN outstanding, or it is deleted) is one whose sender has *)
(* an answer. finish_claim, finish_bounce and the delete triggers together. *)
NoSilentLoss ==
  \A q \in Rows : status[q] # "none" /\ ~NeedsMessage(q) => Settled(q)

(* The fencing tokens fence: no two processes ever hold the same claim of a *)
(* row, nor the same claim of its DSN, so at most one result is current.    *)
(* claim_due and claim_due_bounces against the recoveries.                  *)
TokensUnique ==
  \A q \in Rows, p1, p2 \in Procs : p1 # p2 =>
    /\ job[p1][q].stage # "idle" /\ job[p2][q].stage # "idle"
         => job[p1][q].token # job[p2][q].token
    /\ dsnJob[p1][q].stage # "idle" /\ dsnJob[p2][q].stage # "idle"
         => dsnJob[p1][q].token # dsnJob[p2][q].token

(* The delivery log never contradicts the row it explains: an attempt has  *)
(* one outcome, and the last attempt of a delivered row was accepted, that  *)
(* of a failed row was not. record_attempt runs unfenced beside             *)
(* finish_claim, and also for results that finish_claim then refuses.       *)
LogAgreesWithRow ==
  \A q \in Rows :
    /\ \A e1, e2 \in log[q] : e1[1] = e2[1] => e1 = e2
    /\ \A e \in log[q] : e[1] = attempts[q] =>
         /\ status[q] = "delivered" => e[2] = "accepted"
         /\ status[q] = "failed" => e[2] # "accepted"

(* The give-up rule holds up to what put the row back without a verdict:   *)
(* each recovery and each retry request buys at most one more attempt.      *)
AttemptBudget ==
  \A q \in Rows : attempts[q] <= MaxAttempts + revived[q]

(* A recipient gets the message at most once more than its row was put     *)
(* back without a verdict and answers got lost on the way to the worker, and *)
(* a row that waits again, failed or was cancelled has used nothing up: where *)
(* every answer arrives and nothing is recovered or retried by hand, its     *)
(* recipient has not got the message at all. claim_due, attempt,             *)
(* finish_claim and the recoveries together.                                 *)
DuplicatesBounded ==
  \A q \in Rows :
    accepted[q] <= revived[q] + unheard[q]
                     + IF status[q] \in {"delivering", "delivered", "gone"} THEN 1 ELSE 0

(* The same for DSNs: one, and one more for every DSN claim taken back,     *)
(* every retry request, and every DSN filed by a delivery that reported an   *)
(* error.                                                                    *)
NoticesBounded ==
  \A q \in Rows :
    notified[q] <= 1 + reclaimed[q] + revived[q] + misfiled[q]

(* Neither recipient nor sender is bothered more often than what went wrong *)
(* explains.                                                                *)
RepeatsBounded == DuplicatesBounded /\ NoticesBounded

(* Claims are fenced and counted: whatever recoveries, late results and     *)
(* second workers do, one claim is current and each counts as an attempt.   *)
ClaimsFenced == TokensUnique /\ AttemptBudget

(* Every queued row comes to an end, however often its workers stop or      *)
(* their statements fail in between.                                        *)
EveryRowEnds ==
  \A q \in Rows : status[q] = "pending"
                    ~> status[q] \in {"delivered", "failed", "cancelled", "gone"}

(* A DSN that is owed is sent, once the sender's mailbox takes it.          *)
EveryNoticeIsSent ==
  \A q \in Rows : status[q] = "failed" /\ bounce[q] = "pending" ~> bounce[q] = "sent"

(* Nothing stays in the queue for good: neither mail nor the news that it   *)
(* failed.                                                                  *)
EverythingEnds == EveryRowEnds /\ EveryNoticeIsSent
-----------------------------------------------------------------------------
(* What the repository says and the code does not do. *)

(* crates/ferroma-api/src/routes/admin/queue.rs:255 refuses to retry "this  *)
(* entry has already been delivered"; the check and the write are two       *)
(* statements.                                                              *)
DeliveredIsFinal ==
  [][\A q \in Rows : status[q] = "delivered" => status'[q] \in {"delivered", "gone"}]_vars

(* repository/queue.rs:30 "How many attempts the dispatcher may make before *)
(* bouncing": mail_queue.max_attempts.                                      *)
RowBudget == \A q \in Rows : attempts[q] <= RowMaxAttempts[q]
=============================================================================
