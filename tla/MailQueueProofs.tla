-------------------------- MODULE MailQueueProofs --------------------------
(* Proofs about MailQueue: its types, the safety properties that hold for   *)
(* any number of rows, messages and worker processes, and that it implements *)
(* MailPromise.                                                              *)
EXTENDS MailQueueRefinement, FiniteSetTheorems, TLAPS

(* Which rows a claim may take is all the proofs need to know about it. *)
LEMMA ClaimableRows == ASSUME NEW D \in SUBSET Rows, NEW S \in Claimable(D) PROVE S \subseteq D
BY DEF Claimable

(* A timer gains a row. *)
LEMMA TimerGains ==
  ASSUME TypeOK, NEW t \in Timer, NEW q \in Rows
  PROVE [clock EXCEPT ![t] = @ \cup {q}] \in [Timer -> SUBSET Rows]
<1>1. clock[t] \cup {q} \in SUBSET Rows BY DEF TypeOK
<1> QED BY <1>1 DEF TypeOK

(* The verdict of an attempt is one of three statuses. *)
LEMMA VerdictType == ASSUME NEW j PROVE Verdict(j) \in {"delivered", "retry", "failed"}
BY DEF Verdict

(* An erroring statement keeps every type. *)
LEMMA DbErrorType == ASSUME TypeOK, DbError, pc' \in [Procs -> PC] PROVE TypeOK'
BY DEF TypeOK, DbError, Occurs, Fault

LEMMA RequeueType ==
  ASSUME TypeOK, NEW S \in SUBSET Rows, RequeueStale(S), pc' \in [Procs -> PC] PROVE TypeOK'
<1>1. status' \in [Rows -> Status] /\ revived' \in [Rows -> Nat]
  BY DEF TypeOK, RequeueStale, Status
<1>2. clock' \in [Timer -> SUBSET Rows]
  BY DEF TypeOK, RequeueStale, Timer
<1> QED BY <1>1, <1>2 DEF TypeOK, RequeueStale

LEMMA RecoverBouncesType ==
  ASSUME TypeOK, NEW S \in SUBSET Rows, RecoverStaleBounces(S), pc' \in [Procs -> PC]
  PROVE TypeOK'
<1>1. bounce' \in [Rows -> BounceStatus] /\ reclaimed' \in [Rows -> Nat]
  BY DEF TypeOK, RecoverStaleBounces, BounceStatus
<1>2. clock' \in [Timer -> SUBSET Rows]
  BY DEF TypeOK, RecoverStaleBounces, Timer
<1> QED BY <1>1, <1>2 DEF TypeOK, RecoverStaleBounces

LEMMA GotoType ==
  ASSUME TypeOK, NEW p \in Procs, NEW here, NEW there \in PC, Goto(p, here, there)
  PROVE pc' \in [Procs -> PC]
BY DEF TypeOK, Goto

(* TypeOK is an invariant: every SQL statement and handler keeps the types. *)
THEOREM TypeCorrect == Spec => []TypeOK
<1>1. Init => TypeOK
  BY DEF Init, TypeOK, Status, BounceStatus, Idle, NoDsn, Job, DsnJob, Stage, Outcome, PC
<1>2. ASSUME TypeOK, [Next]_vars PROVE TypeOK'
  <2>1. ASSUME NEW m \in Messages, Enqueue(m) PROVE TypeOK'
    <3>1. status' \in [Rows -> Status] BY <1>2, <2>1 DEF TypeOK, Enqueue, Status
    <3>2. clock' \in [Timer -> SUBSET Rows]
      BY <1>2, <2>1 DEF TypeOK, Enqueue
    <3> QED BY <1>2, <2>1, <3>1, <3>2 DEF TypeOK, Enqueue, workVars, worldVars
  <2>2. ASSUME NEW m \in Messages, DeleteMessage(m) PROVE TypeOK'
    <3>1. status' \in [Rows -> Status] BY <1>2, <2>2 DEF TypeOK, DeleteMessage, Status
    <3>2. log' \in [Rows -> SUBSET (Nat \X Outcome)] BY <1>2, <2>2 DEF TypeOK, DeleteMessage
    <3> QED BY <1>2, <2>2, <3>1, <3>2 DEF TypeOK, DeleteMessage, workVars, worldVars
  <2>3. ASSUME NEW q \in Rows, TimeStep(q) PROVE TypeOK'
    <3>1. \E t \in Timer : clock' = [clock EXCEPT ![t] = @ \cup {q}]
      BY <2>3 DEF TimeStep, RetryFallsDue, BounceFallsDue, ClaimTurnsStale,
                  BounceClaimTurnsStale, Timer
    <3>3. clock' \in [Timer -> SUBSET Rows] BY <1>2, <3>1, TimerGains
    <3>2. faults' \in [Fault -> Nat]
      BY <1>2, <2>3 DEF TypeOK, TimeStep, RetryFallsDue, BounceFallsDue, ClaimTurnsStale,
                        BounceClaimTurnsStale, Age, Occurs, Fault
    <3> QED
      BY <1>2, <2>3, <3>2, <3>3
      DEF TypeOK, TimeStep, RetryFallsDue, BounceFallsDue, ClaimTurnsStale,
          BounceClaimTurnsStale, rowVars, workVars, worldVars
  <2>4. ASSUME NEW q \in Rows, RetryCheck(q) PROVE TypeOK'
    BY <1>2, <2>4 DEF TypeOK, RetryCheck, Occurs, rowVars, workVars, worldVars, Fault
  <2>5. ASSUME NEW q \in Rows, MarkRetry(q) PROVE TypeOK'
    <3>1. clock' \in [Timer -> SUBSET Rows] BY <1>2, <2>5, TimerGains DEF TypeOK, MarkRetry, Timer
    <3>2. \/ status' = status /\ revived' = revived
          \/ status' = [status EXCEPT ![q] = "retry"] /\ revived' = [revived EXCEPT ![q] = @ + 1]
      BY <2>5 DEF MarkRetry
    <3>3. status' \in [Rows -> Status] /\ revived' \in [Rows -> Nat]
      <4>1. "retry" \in Status BY DEF Status
      <4>2. status' \in [Rows -> Status] BY <1>2, <3>2, <4>1 DEF TypeOK
      <4>3. revived \in [Rows -> Nat] BY <1>2 DEF TypeOK
      <4>4. revived' \in [Rows -> Nat] BY <3>2, <4>3
      <4> QED BY <4>2, <4>4
    <3>4. retrying' \in SUBSET Rows BY <1>2, <2>5 DEF TypeOK, MarkRetry
    <3> QED BY <1>2, <2>5, <3>1, <3>3, <3>4 DEF TypeOK, MarkRetry, workVars
  <2>6. ASSUME NEW q \in Rows, Cancel(q) PROVE TypeOK'
    BY <1>2, <2>6 DEF TypeOK, Cancel, workVars, Status
  <2>7. ASSUME NEW p \in Procs, Start(p) PROVE TypeOK'
    BY <1>2, <2>7 DEF TypeOK, Start, Goto, rowVars, worldVars, PC
  <2>8. ASSUME NEW p \in Procs, Stop(p) PROVE TypeOK'
    BY <1>2, <2>8
    DEF TypeOK, Stop, Occurs, rowVars, worldVars, PC, Idle, NoDsn, Job, DsnJob, Stage, Outcome, Fault
  <2>9. ASSUME NEW p \in Procs, WorkerStep(p) PROVE TypeOK'
    <3>1. CASE RecoverOnStart(p)
      BY <1>2, <3>1, RequeueType, DbErrorType, GotoType DEF RecoverOnStart, Delivering, PC
    <3>2. CASE RecoverBouncesOnStart(p)
      BY <1>2, <3>2, RecoverBouncesType, DbErrorType, GotoType
      DEF RecoverBouncesOnStart, Processing, PC
    <3>3. CASE RecoverDayOld(p)
      BY <1>2, <3>3, RequeueType, DbErrorType, GotoType DEF RecoverDayOld, Delivering, PC
    <3>4. CASE ClaimDue(p)
      <4>1. ASSUME Goto(p, "claim", "bounceRecover"), DbError PROVE TypeOK'
        BY <1>2, <4>1, DbErrorType, GotoType DEF PC
      <4>2. ASSUME NEW S \in Claimable(DueRows),
                   Goto(p, "claim", "attempts"),
                   status' = [q \in Rows |-> IF q \in S THEN "delivering" ELSE status[q]],
                   attempts' = [q \in Rows |-> IF q \in S THEN NextToken(q) ELSE attempts[q]],
                   clock' = [clock EXCEPT !["due"] = @ \ S, !["stale"] = @ \ S],
                   job' = [job EXCEPT ![p] = [q \in Rows |->
                     IF q \in S
                     THEN [token |-> NextToken(q), stage |-> "claimed", outcome |-> "deferred"]
                     ELSE @[q]]],
                   UNCHANGED <<bounce, bounceAttempts, log, dsnJob, retrying, faults,
                               worldVars>>
            PROVE TypeOK'
        <5>1. status' \in [Rows -> Status] BY <1>2, <4>2 DEF TypeOK, Status
        <5>2. attempts' \in [Rows -> Nat] BY <1>2, <4>2 DEF TypeOK, NextToken
        <5>3. clock' \in [Timer -> SUBSET Rows]
          BY <1>2, <4>2 DEF TypeOK
        <5>4. \A q \in Rows : NextToken(q) \in Nat BY <1>2 DEF TypeOK, NextToken
        <5>5. job' \in [Procs -> [Rows -> Job]]
          BY <1>2, <4>2, <5>4 DEF TypeOK, Job, Stage, Outcome
        <5>6. pc' \in [Procs -> PC] BY <1>2, <4>2, GotoType DEF PC
        <5> QED BY <1>2, <4>2, <5>1, <5>2, <5>3, <5>5, <5>6 DEF TypeOK, worldVars
      <4> QED BY <3>4, <4>1, <4>2 DEF ClaimDue
    <3>5. CASE BatchDone(p)
      BY <1>2, <3>5, GotoType DEF TypeOK, BatchDone, rowVars, worldVars, PC
    <3>6. ASSUME NEW q \in Rows, NEW o \in Outcome, Attempt(p, q, o) PROVE TypeOK'
      <4>1. job' \in [Procs -> [Rows -> Job]] BY <1>2, <3>6 DEF TypeOK, Attempt, Job, Stage
      <4>2. accepted' \in [Rows -> Nat] BY <1>2, <3>6 DEF TypeOK, Attempt
      <4> QED BY <1>2, <3>6, <4>1, <4>2 DEF TypeOK, Attempt, rowVars
    <3>7. ASSUME NEW q \in Rows, RecordAttempt(p, q) PROVE TypeOK'
      <4>1. job' \in [Procs -> [Rows -> Job]]
        BY <1>2, <3>7 DEF TypeOK, RecordAttempt, Job, Stage
      <4>2. job[p][q].token \in Nat /\ job[p][q].outcome \in Outcome BY <1>2 DEF TypeOK, Job
      <4>3. log[q] \cup {<<job[p][q].token, job[p][q].outcome>>} \in SUBSET (Nat \X Outcome)
        BY <1>2, <4>2 DEF TypeOK
      <4>4. log' \in [Rows -> SUBSET (Nat \X Outcome)]
        BY <1>2, <3>7, <4>3 DEF TypeOK, RecordAttempt
      <4> QED BY <1>2, <3>7, <4>1, <4>4 DEF TypeOK, RecordAttempt, Occurs, rowVars, worldVars, Fault
    <3>8. ASSUME NEW q \in Rows, FinishClaim(p, q) PROVE TypeOK'
      <4>1. job' \in [Procs -> [Rows -> Job]]
        BY <1>2, <3>8 DEF TypeOK, FinishClaim, Idle, Job, Stage, Outcome
      <4>2. status' \in [Rows -> Status]
        BY <1>2, <3>8, VerdictType DEF TypeOK, FinishClaim, Status
      <4>3. bounce' \in [Rows -> BounceStatus]
        BY ZenonT(60), <1>2, <3>8 DEF TypeOK, FinishClaim, BounceStatus
      <4>6. clock' \in [Timer -> SUBSET Rows]
        <5>1. \/ clock' = clock \/ clock' = [clock EXCEPT !["bounceDue"] = @]
              \/ clock' = [clock EXCEPT !["bounceDue"] = @ \cup {q}]
          BY <3>8 DEF FinishClaim
        <5> QED BY <1>2, <5>1, TimerGains DEF TypeOK, Timer
      <4>7. gaveUp' \in SUBSET Rows BY <1>2, <3>8 DEF TypeOK, FinishClaim
      <4> QED BY <1>2, <3>8, <4>1, <4>2, <4>3, <4>6, <4>7 DEF TypeOK, FinishClaim, Occurs, Fault
    <3>9. CASE RecoverDayOldBounces(p)
      BY <1>2, <3>9, RecoverBouncesType, DbErrorType, GotoType
      DEF RecoverDayOldBounces, Processing, PC
    <3>10. CASE ClaimDueBounces(p)
      <4>1. ASSUME Goto(p, "bounceClaim", "poll"), DbError PROVE TypeOK'
        BY <1>2, <4>1, DbErrorType, GotoType DEF PC
      <4>2. ASSUME NEW S \in Claimable(DueBounces),
                   Goto(p, "bounceClaim", "dsn"),
                   bounce' = [q \in Rows |-> IF q \in S THEN "processing" ELSE bounce[q]],
                   bounceAttempts' = [q \in Rows |-> IF q \in S THEN bounceAttempts[q] + 1
                                                                ELSE bounceAttempts[q]],
                   clock' = [clock EXCEPT !["bounceDue"] = @ \ S, !["bounceStale"] = @ \ S],
                   dsnJob' = [dsnJob EXCEPT ![p] = [q \in Rows |->
                     IF q \in S THEN [token |-> bounceAttempts[q] + 1, stage |-> "claimed"]
                                ELSE @[q]]],
                   UNCHANGED <<status, attempts, log, job, retrying, faults, worldVars>>
            PROVE TypeOK'
        <5>1. bounce' \in [Rows -> BounceStatus] BY <1>2, <4>2 DEF TypeOK, BounceStatus
        <5>2. bounceAttempts' \in [Rows -> Nat] BY <1>2, <4>2 DEF TypeOK
        <5>3. clock' \in [Timer -> SUBSET Rows]
          BY <1>2, <4>2 DEF TypeOK
        <5>4. \A q \in Rows : bounceAttempts[q] + 1 \in Nat BY <1>2 DEF TypeOK
        <5>5. dsnJob' \in [Procs -> [Rows -> DsnJob]] BY <1>2, <4>2, <5>4 DEF TypeOK, DsnJob
        <5>6. pc' \in [Procs -> PC] BY <1>2, <4>2, GotoType DEF PC
        <5> QED BY <1>2, <4>2, <5>1, <5>2, <5>3, <5>5, <5>6 DEF TypeOK, worldVars
      <4> QED BY <3>10, <4>1, <4>2 DEF ClaimDueBounces
    <3>11. CASE DsnDone(p)
      BY <1>2, <3>11, GotoType DEF TypeOK, DsnDone, rowVars, worldVars, PC
    <3>12. ASSUME NEW q \in Rows, DeliverBounce(p, q) PROVE TypeOK'
      <4>1. dsnJob' \in [Procs -> [Rows -> DsnJob]]
        <5>1. PICK s \in {"sent", "refused"} :
                dsnJob' = [dsnJob EXCEPT ![p][q] = [token |-> @.token, stage |-> s]]
          BY <3>12 DEF DeliverBounce
        <5> QED BY <1>2, <5>1 DEF TypeOK, DsnJob
      <4>2. notified' \in [Rows -> Nat]
        <5>1. \E n \in {0, 1} : notified' = [notified EXCEPT ![q] = @ + n]
          BY <3>12 DEF DeliverBounce
        <5> QED BY <1>2, <5>1 DEF TypeOK
      <4>3. faults' \in [Fault -> Nat] BY <1>2, <3>12 DEF TypeOK, DeliverBounce, Occurs, Fault
      <4>4. misfiled' \in [Rows -> Nat]
        <5>1. misfiled \in [Rows -> Nat] BY <1>2 DEF TypeOK
        <5>2. CASE misfiled' = misfiled BY <5>1, <5>2
        <5>3. ASSUME NEW n \in {0, 1}, misfiled' = [misfiled EXCEPT ![q] = @ + n]
              PROVE misfiled' \in [Rows -> Nat]
          BY <5>1, <5>3
        <5> QED BY <3>12, <5>2, <5>3 DEF DeliverBounce
      <4> QED BY <1>2, <3>12, <4>1, <4>2, <4>3, <4>4 DEF TypeOK, DeliverBounce, rowVars
    <3>13. ASSUME NEW q \in Rows, FinishBounce(p, q) PROVE TypeOK'
      <4>1. dsnJob' \in [Procs -> [Rows -> DsnJob]]
        BY <1>2, <3>13 DEF TypeOK, FinishBounce, NoDsn, DsnJob
      <4>2. bounce' \in [Rows -> BounceStatus]
        BY <1>2, <3>13 DEF TypeOK, FinishBounce, DsnVerdict, BounceStatus
      <4> QED BY <1>2, <3>13, <4>1, <4>2 DEF TypeOK, FinishBounce, Occurs, worldVars, Fault
    <3>14. ASSUME NEW q \in Rows, LoseAnswer(p, q) PROVE TypeOK'
      <4>1. faults' \in [Fault -> Nat] BY <1>2, <3>14 DEF TypeOK, LoseAnswer, Occurs, Fault
      <4>2. accepted' \in [Rows -> Nat] /\ unheard' \in [Rows -> Nat]
        BY <1>2, <3>14 DEF TypeOK, LoseAnswer
      <4> QED BY <1>2, <3>14, <4>1, <4>2 DEF TypeOK, LoseAnswer, rowVars, workVars
    <3> QED
      BY <2>9, <3>1, <3>2, <3>3, <3>4, <3>5, <3>6, <3>7, <3>8, <3>9, <3>10, <3>11, <3>12, <3>13,
         <3>14
      DEF WorkerStep
  <2>10. CASE UNCHANGED vars BY <1>2, <2>10 DEF TypeOK, vars
  <2> QED
    BY <1>2, <2>1, <2>2, <2>3, <2>4, <2>5, <2>6, <2>7, <2>8, <2>9, <2>10 DEF Next
<1> QED BY <1>1, <1>2, PTL DEF Spec
-----------------------------------------------------------------------------
(* AttemptBudget. The strengthening: a row that waits has an attempt left,  *)
(* of its own or bought by a recovery or a retry request.                    *)
BudgetInv ==
  \A q \in Rows : /\ status[q] = "none" => attempts[q] = 0
                  /\ status[q] \in Waiting => attempts[q] < MaxAttempts + revived[q]
                  /\ attempts[q] <= MaxAttempts + revived[q]

(* Steps that touch neither the counters nor the status of a row. *)
LEMMA BudgetKept ==
  ASSUME BudgetInv, UNCHANGED <<status, attempts, revived>> PROVE BudgetInv'
BY DEF BudgetInv

LEMMA BudgetRequeue ==
  ASSUME TypeOK, BudgetInv, NEW S \in SUBSET Delivering, RequeueStale(S) PROVE BudgetInv'
<1> SUFFICES ASSUME NEW q \in Rows
             PROVE /\ status'[q] = "none" => attempts'[q] = 0
                   /\ status'[q] \in Waiting => attempts'[q] < MaxAttempts + revived'[q]
                   /\ attempts'[q] <= MaxAttempts + revived'[q]
  BY DEF BudgetInv
<1>1. attempts' = attempts BY DEF RequeueStale
<1>2. attempts[q] \in Nat /\ revived[q] \in Nat /\ MaxAttempts \in Nat
  BY BudgetAssumption DEF TypeOK
<1>3. CASE q \in S
  <2>1. status'[q] = "retry" /\ revived'[q] = revived[q] + 1 BY <1>3 DEF RequeueStale
  <2> QED BY <1>1, <1>2, <2>1 DEF BudgetInv
<1>4. CASE q \notin S
  <2>1. status'[q] = status[q] /\ revived'[q] = revived[q] BY <1>4 DEF RequeueStale
  <2> QED BY <1>1, <1>2, <2>1 DEF BudgetInv
<1> QED BY <1>3, <1>4

(* No row is attempted more often than queue.max_attempts and the number of *)
(* times it was put back without a verdict allow, for any number of workers, *)
(* crashes and retry requests.                                               *)
THEOREM AttemptBudgetHolds == Spec => []AttemptBudget
<1>1. Init => BudgetInv BY BudgetAssumption DEF Init, BudgetInv, Waiting
<1>2. ASSUME TypeOK, BudgetInv, [Next]_vars PROVE BudgetInv'
  <2>1. ASSUME NEW m \in Messages, Enqueue(m) PROVE BudgetInv'
    BY <1>2, <2>1, BudgetAssumption DEF TypeOK, BudgetInv, Enqueue, Waiting, worldVars
  <2>2. ASSUME NEW m \in Messages, DeleteMessage(m) PROVE BudgetInv'
    BY <1>2, <2>2 DEF TypeOK, BudgetInv, DeleteMessage, Waiting, worldVars
  <2>3. ASSUME NEW q \in Rows, TimeStep(q) PROVE BudgetInv'
    BY <1>2, <2>3, BudgetKept DEF TimeStep, RetryFallsDue, BounceFallsDue, ClaimTurnsStale,
       BounceClaimTurnsStale, rowVars, worldVars
  <2>4. ASSUME NEW q \in Rows, RetryCheck(q) PROVE BudgetInv'
    BY <1>2, <2>4, BudgetKept DEF RetryCheck, rowVars, worldVars
  <2>5. ASSUME NEW q \in Rows, MarkRetry(q) PROVE BudgetInv'
    <3>1. CASE status[q] = "gone" BY <1>2, <2>5, <3>1, BudgetKept DEF MarkRetry
    <3>2. CASE status[q] # "gone"
      <4>1. /\ status' = [status EXCEPT ![q] = "retry"]
            /\ revived' = [revived EXCEPT ![q] = @ + 1]
            /\ attempts' = attempts
        BY <2>5, <3>2 DEF MarkRetry
      <4> QED BY <1>2, <4>1, BudgetAssumption DEF TypeOK, BudgetInv, Waiting
    <3> QED BY <3>1, <3>2
  <2>6. ASSUME NEW q \in Rows, Cancel(q) PROVE BudgetInv'
    BY <1>2, <2>6 DEF TypeOK, BudgetInv, Cancel, Waiting
  <2>7. ASSUME NEW p \in Procs, Start(p) \/ Stop(p) PROVE BudgetInv'
    BY <1>2, <2>7, BudgetKept DEF Start, Stop, rowVars, worldVars
  <2>8. ASSUME NEW p \in Procs, WorkerStep(p) PROVE BudgetInv'
    <3>1. CASE RecoverOnStart(p) \/ RecoverDayOld(p)
      BY <1>2, <3>1, BudgetRequeue, BudgetKept DEF RecoverOnStart, RecoverDayOld, DbError
    <3>2. CASE RecoverBouncesOnStart(p) \/ RecoverDayOldBounces(p)
      BY <1>2, <3>2, BudgetKept
      DEF RecoverBouncesOnStart, RecoverDayOldBounces, RecoverStaleBounces, DbError
    <3>3. CASE ClaimDue(p)
      <4>1. CASE DbError BY <1>2, <4>1, BudgetKept DEF DbError
      <4>2. ASSUME NEW S \in Claimable(DueRows),
                   status' = [q \in Rows |-> IF q \in S THEN "delivering" ELSE status[q]],
                   attempts' = [q \in Rows |-> IF q \in S THEN NextToken(q) ELSE attempts[q]],
                   revived' = revived
            PROVE BudgetInv'
        <5>1. \A q \in S : status[q] \in Waiting BY ClaimableRows DEF Claimable, DueRows
        <5>2. \A q \in Rows : attempts[q] \in Nat /\ revived[q] \in Nat BY <1>2 DEF TypeOK
        <5> QED BY <1>2, <4>2, <5>1, <5>2, BudgetAssumption DEF BudgetInv, NextToken, Waiting
      <4> QED BY <3>3, <4>1, <4>2 DEF ClaimDue, worldVars
    <3>4. CASE BatchDone(p) \/ DsnDone(p)
      BY <1>2, <3>4, BudgetKept DEF BatchDone, DsnDone, rowVars, worldVars
    <3>5. ASSUME NEW q \in Rows, NEW o \in Outcome, Attempt(p, q, o) PROVE BudgetInv'
      BY <1>2, <3>5, BudgetKept DEF Attempt, rowVars
    <3>6. ASSUME NEW q \in Rows, RecordAttempt(p, q) PROVE BudgetInv'
      BY <1>2, <3>6, BudgetKept DEF RecordAttempt, rowVars, worldVars
    <3>7. ASSUME NEW q \in Rows, FinishClaim(p, q) PROVE BudgetInv'
      <4>1. attempts' = attempts /\ revived' = revived BY <3>7 DEF FinishClaim
      <4>2. CASE UNCHANGED status BY <1>2, <4>1, <4>2, BudgetKept
      <4>3. CASE /\ ClaimIsCurrent(q, job[p][q].token)
                 /\ status' = [status EXCEPT ![q] = Verdict(job[p][q])]
        <5>1. Verdict(job[p][q]) = "retry" => attempts[q] < MaxAttempts
          BY <4>3 DEF Verdict, MayRetry, ClaimIsCurrent
        <5>2. Verdict(job[p][q]) \in {"delivered", "retry", "failed"} BY VerdictType
        <5>3. attempts[q] \in Nat /\ revived[q] \in Nat BY <1>2 DEF TypeOK
        <5> QED BY <1>2, <4>1, <4>3, <5>1, <5>2, <5>3, BudgetAssumption
                DEF TypeOK, BudgetInv, Waiting
      <4> QED BY <3>7, <4>2, <4>3 DEF FinishClaim
    <3>8. CASE ClaimDueBounces(p)
      BY <1>2, <3>8, BudgetKept DEF ClaimDueBounces, DbError, worldVars
    <3>9. ASSUME NEW q \in Rows, DeliverBounce(p, q) \/ FinishBounce(p, q) PROVE BudgetInv'
      BY <1>2, <3>9, BudgetKept DEF DeliverBounce, FinishBounce, rowVars, worldVars
    <3>10. ASSUME NEW q \in Rows, LoseAnswer(p, q) PROVE BudgetInv'
      BY <1>2, <3>10, BudgetKept DEF LoseAnswer, rowVars
    <3> QED
      BY <2>8, <3>1, <3>2, <3>3, <3>4, <3>5, <3>6, <3>7, <3>8, <3>9, <3>10 DEF WorkerStep
  <2>9. CASE UNCHANGED vars BY <1>2, <2>9, BudgetKept DEF vars
  <2> QED BY <1>2, <2>1, <2>2, <2>3, <2>4, <2>5, <2>6, <2>7, <2>8, <2>9 DEF Next
<1>3. BudgetInv => AttemptBudget BY DEF BudgetInv, AttemptBudget
<1> QED BY <1>1, <1>2, <1>3, TypeCorrect, PTL DEF Spec
-----------------------------------------------------------------------------
(* TokensUnique. The strengthening: a token in hand is never ahead of the   *)
(* counter of its row, so the next claim makes a new one.                    *)
TokensInv ==
  /\ TokensUnique
  /\ \A p \in Procs, q \in Rows :
       /\ job[p][q].stage # "idle" => job[p][q].token <= attempts[q]
       /\ dsnJob[p][q].stage # "idle" => dsnJob[p][q].token <= bounceAttempts[q]

(* No claim in hand is new. *)
NoNewClaim ==
  /\ attempts' = attempts
  /\ \A p \in Procs, q \in Rows : job'[p][q].stage # "idle" =>
       job[p][q].stage # "idle" /\ job'[p][q].token = job[p][q].token
NoNewDsnClaim ==
  /\ bounceAttempts' = bounceAttempts
  /\ \A p \in Procs, q \in Rows : dsnJob'[p][q].stage # "idle" =>
       dsnJob[p][q].stage # "idle" /\ dsnJob'[p][q].token = dsnJob[p][q].token

LEMMA TokensKept ==
  ASSUME TokensInv, NoNewClaim, NoNewDsnClaim PROVE TokensInv'
BY DEF TokensInv, TokensUnique, NoNewClaim, NoNewDsnClaim

LEMMA NoClaimsTouched ==
  ASSUME UNCHANGED <<attempts, bounceAttempts, job, dsnJob>> PROVE NoNewClaim /\ NoNewDsnClaim
BY DEF NoNewClaim, NoNewDsnClaim

LEMMA TokensHold == Spec => []TokensInv
<1>1. Init => TokensInv BY DEF Init, TokensInv, TokensUnique, Idle, NoDsn
<1>2. ASSUME TypeOK, TokensInv, [Next]_vars PROVE TokensInv'
  <2>1. ASSUME NEW m \in Messages, Enqueue(m) \/ DeleteMessage(m) PROVE TokensInv'
    BY <1>2, <2>1, TokensKept, NoClaimsTouched DEF Enqueue, DeleteMessage, workVars
  <2>2. ASSUME NEW q \in Rows, TimeStep(q) PROVE TokensInv'
    BY <1>2, <2>2, TokensKept, NoClaimsTouched DEF TimeStep, RetryFallsDue, BounceFallsDue,
       ClaimTurnsStale, BounceClaimTurnsStale, rowVars, workVars
  <2>3. ASSUME NEW q \in Rows, RetryCheck(q) \/ MarkRetry(q) \/ Cancel(q) PROVE TokensInv'
    BY <1>2, <2>3, TokensKept, NoClaimsTouched DEF RetryCheck, MarkRetry, Cancel, rowVars, workVars
  <2>4. ASSUME NEW p \in Procs, Start(p) PROVE TokensInv'
    BY <1>2, <2>4, TokensKept, NoClaimsTouched DEF Start, rowVars
  <2>5. ASSUME NEW p \in Procs, Stop(p) PROVE TokensInv'
    <3>1. NoNewClaim BY <1>2, <2>5 DEF TypeOK, Stop, rowVars, NoNewClaim, Idle
    <3>2. NoNewDsnClaim BY <1>2, <2>5 DEF TypeOK, Stop, rowVars, NoNewDsnClaim, NoDsn
    <3> QED BY <1>2, <3>1, <3>2, TokensKept
  <2>6. ASSUME NEW p \in Procs, WorkerStep(p) PROVE TokensInv'
    <3>1. CASE RecoverOnStart(p) \/ RecoverDayOld(p) \/ RecoverBouncesOnStart(p)
               \/ RecoverDayOldBounces(p)
      BY <1>2, <3>1, TokensKept, NoClaimsTouched
      DEF RecoverOnStart, RecoverDayOld, RecoverBouncesOnStart, RecoverDayOldBounces,
          RequeueStale, RecoverStaleBounces, DbError
    <3>2. CASE ClaimDue(p)
      <4>1. CASE DbError BY <1>2, <4>1, TokensKept, NoClaimsTouched DEF DbError
      <4>2. ASSUME NEW S \in Claimable(DueRows),
                   attempts' = [q \in Rows |-> IF q \in S THEN NextToken(q) ELSE attempts[q]],
                   job' = [job EXCEPT ![p] = [q \in Rows |->
                     IF q \in S
                     THEN [token |-> NextToken(q), stage |-> "claimed", outcome |-> "deferred"]
                     ELSE @[q]]],
                   UNCHANGED <<bounceAttempts, dsnJob>>
            PROVE TokensInv'
        <5>1. \A q \in Rows : attempts[q] \in Nat /\ attempts'[q] \in Nat
                               /\ attempts[q] <= attempts'[q]
          BY <1>2, <4>2 DEF TypeOK, NextToken
        <5>2. \A q \in Rows : q \in S =>
                job'[p][q].token = attempts[q] + 1 /\ attempts'[q] = attempts[q] + 1
          BY <1>2, <4>2 DEF TypeOK, NextToken
        <5>3. \A r \in Procs, q \in Rows : ~(r = p /\ q \in S) => job'[r][q] = job[r][q]
          BY <1>2, <4>2 DEF TypeOK
        <5>4. \A r \in Procs, q \in Rows : job[r][q].token \in Nat BY <1>2 DEF TypeOK, Job
        <5>5. \A r \in Procs, q \in Rows :
                job'[r][q].stage # "idle" => job'[r][q].token <= attempts'[q]
          BY <1>2, <5>1, <5>2, <5>3, <5>4 DEF TokensInv
        <5>6. \A q \in Rows, r1, r2 \in Procs : r1 # r2 =>
                (job'[r1][q].stage # "idle" /\ job'[r2][q].stage # "idle"
                  => job'[r1][q].token # job'[r2][q].token)
          BY <1>2, <5>1, <5>2, <5>3, <5>4 DEF TokensInv, TokensUnique
        <5> QED BY <1>2, <4>2, <5>5, <5>6 DEF TokensInv, TokensUnique
      <4> QED BY <3>2, <4>1, <4>2 DEF ClaimDue
    <3>3. CASE BatchDone(p) \/ DsnDone(p)
      BY <1>2, <3>3, TokensKept, NoClaimsTouched DEF BatchDone, DsnDone, rowVars
    <3>4. ASSUME NEW q \in Rows, NEW o \in Outcome, Attempt(p, q, o) PROVE TokensInv'
      <4>1. NoNewClaim BY <1>2, <3>4 DEF TypeOK, Attempt, rowVars, NoNewClaim
      <4>2. NoNewDsnClaim BY <3>4 DEF Attempt, rowVars, NoNewDsnClaim
      <4> QED BY <1>2, <4>1, <4>2, TokensKept
    <3>5. ASSUME NEW q \in Rows, RecordAttempt(p, q) PROVE TokensInv'
      <4>1. NoNewClaim BY <1>2, <3>5 DEF TypeOK, RecordAttempt, rowVars, NoNewClaim
      <4>2. NoNewDsnClaim BY <3>5 DEF RecordAttempt, rowVars, NoNewDsnClaim
      <4> QED BY <1>2, <4>1, <4>2, TokensKept
    <3>6. ASSUME NEW q \in Rows, FinishClaim(p, q) PROVE TokensInv'
      <4>1. NoNewClaim BY <1>2, <3>6 DEF TypeOK, FinishClaim, NoNewClaim, Idle
      <4>2. NoNewDsnClaim BY <3>6 DEF FinishClaim, NoNewDsnClaim
      <4> QED BY <1>2, <4>1, <4>2, TokensKept
    <3>7. CASE ClaimDueBounces(p)
      <4>1. CASE DbError BY <1>2, <4>1, TokensKept, NoClaimsTouched DEF DbError
      <4>2. ASSUME NEW S \in Claimable(DueBounces),
                   bounceAttempts' = [q \in Rows |-> IF q \in S THEN bounceAttempts[q] + 1
                                                                ELSE bounceAttempts[q]],
                   dsnJob' = [dsnJob EXCEPT ![p] = [q \in Rows |->
                     IF q \in S THEN [token |-> bounceAttempts[q] + 1, stage |-> "claimed"]
                                ELSE @[q]]],
                   UNCHANGED <<attempts, job>>
            PROVE TokensInv'
        <5>1. \A q \in Rows : bounceAttempts[q] \in Nat /\ bounceAttempts'[q] \in Nat
                               /\ bounceAttempts[q] <= bounceAttempts'[q]
          BY <1>2, <4>2 DEF TypeOK
        <5>2. \A q \in Rows : q \in S =>
                /\ dsnJob'[p][q].token = bounceAttempts[q] + 1
                /\ bounceAttempts'[q] = bounceAttempts[q] + 1
          BY <1>2, <4>2 DEF TypeOK
        <5>3. \A r \in Procs, q \in Rows : ~(r = p /\ q \in S) => dsnJob'[r][q] = dsnJob[r][q]
          BY <1>2, <4>2 DEF TypeOK
        <5>4. \A r \in Procs, q \in Rows : dsnJob[r][q].token \in Nat
          BY <1>2 DEF TypeOK, DsnJob
        <5>5. \A r \in Procs, q \in Rows :
                dsnJob'[r][q].stage # "idle" => dsnJob'[r][q].token <= bounceAttempts'[q]
          BY <1>2, <5>1, <5>2, <5>3, <5>4 DEF TokensInv
        <5>6. \A q \in Rows, r1, r2 \in Procs : r1 # r2 =>
                (dsnJob'[r1][q].stage # "idle" /\ dsnJob'[r2][q].stage # "idle"
                  => dsnJob'[r1][q].token # dsnJob'[r2][q].token)
          BY <1>2, <5>1, <5>2, <5>3, <5>4 DEF TokensInv, TokensUnique
        <5> QED BY <1>2, <4>2, <5>5, <5>6 DEF TokensInv, TokensUnique
      <4> QED BY <3>7, <4>1, <4>2 DEF ClaimDueBounces
    <3>8. ASSUME NEW q \in Rows, DeliverBounce(p, q) PROVE TokensInv'
      <4>1. PICK s \in {"sent", "refused"} :
              dsnJob' = [dsnJob EXCEPT ![p][q] = [token |-> @.token, stage |-> s]]
        BY <3>8 DEF DeliverBounce
      <4>2. dsnJob[p][q].stage = "claimed" BY <3>8 DEF DeliverBounce
      <4>3. NoNewDsnClaim BY <1>2, <3>8, <4>1, <4>2 DEF TypeOK, DeliverBounce, rowVars, NoNewDsnClaim
      <4>4. NoNewClaim BY <3>8 DEF DeliverBounce, rowVars, NoNewClaim
      <4> QED BY <1>2, <4>3, <4>4, TokensKept
    <3>9. ASSUME NEW q \in Rows, FinishBounce(p, q) PROVE TokensInv'
      <4>1. NoNewDsnClaim BY <1>2, <3>9 DEF TypeOK, FinishBounce, NoNewDsnClaim, NoDsn
      <4>2. NoNewClaim BY <3>9 DEF FinishBounce, NoNewClaim
      <4> QED BY <1>2, <4>1, <4>2, TokensKept
    <3>10. ASSUME NEW q \in Rows, LoseAnswer(p, q) PROVE TokensInv'
      BY <1>2, <3>10, TokensKept, NoClaimsTouched DEF LoseAnswer, rowVars, workVars
    <3> QED
      BY <2>6, <3>1, <3>2, <3>3, <3>4, <3>5, <3>6, <3>7, <3>8, <3>9, <3>10 DEF WorkerStep
  <2>7. CASE UNCHANGED vars BY <1>2, <2>7, TokensKept, NoClaimsTouched DEF vars
  <2> QED BY <1>2, <2>1, <2>2, <2>3, <2>4, <2>5, <2>6, <2>7 DEF Next
<1> QED BY <1>1, <1>2, TypeCorrect, PTL DEF Spec

(* No two worker processes ever hold the same claim of a row or of its DSN, *)
(* however claims are lost, recovered and taken over.                        *)
THEOREM TokensAreUnique == Spec => []TokensUnique
<1>1. TokensInv => TokensUnique BY DEF TokensInv
<1> QED BY <1>1, TokensHold, PTL
-----------------------------------------------------------------------------
(* NoSilentLoss. The strengthening: what a process remembers of an attempt  *)
(* has happened, and every status that no longer holds the message was       *)
(* reached on such a memory.                                                 *)
Truthful(q) ==
  \A p \in Procs :
    /\ job[p][q].stage \in {"tried", "logged"} /\ job[p][q].outcome = "accepted"
         => accepted[q] > 0
    /\ dsnJob[p][q].stage = "sent" => notified[q] > 0

Grounded(q) ==
  /\ status[q] = "delivered" => accepted[q] > 0
  /\ status[q] = "cancelled" => q \in withdrawn
  /\ status[q] = "gone" => Settled(q)
  /\ status[q] = "failed" =>
       /\ q \in gaveUp
       /\ q \in BounceRows => bounce[q] \in {"pending", "processing"} \/ notified[q] > 0

AnswerInv == \A q \in Rows : Truthful(q) /\ Grounded(q)

(* The world forgets nothing. *)
Remembered(q) ==
  /\ accepted[q] > 0 => accepted'[q] > 0
  /\ notified[q] > 0 => notified'[q] > 0
  /\ q \in gaveUp => q \in gaveUp'
  /\ q \in withdrawn => q \in withdrawn'

(* What a process knows of the row after a step it knew before, or nothing. *)
NothingLearnt(q) ==
  \A p \in Procs :
    /\ \/ job'[p][q].stage \notin {"tried", "logged"}
       \/ /\ job[p][q].stage \in {"tried", "logged"}
          /\ job'[p][q].outcome = job[p][q].outcome
    /\ dsnJob'[p][q].stage = "sent" => dsnJob[p][q].stage = "sent"

LEMMA TruthfulKept ==
  ASSUME NEW q \in Rows, Truthful(q), Remembered(q), NothingLearnt(q) PROVE Truthful(q)'
BY DEF Truthful, Remembered, NothingLearnt

LEMMA SettledForGood ==
  ASSUME NEW q \in Rows, Settled(q), Remembered(q) PROVE Settled(q)'
BY DEF Settled, Remembered

(* A row that a step leaves alone, but for taking its DSN claim back or making one. *)
LEMMA GroundedKept ==
  ASSUME NEW q \in Rows, Grounded(q), Remembered(q), status'[q] = status[q],
         bounce'[q] = bounce[q] \/ bounce'[q] \in {"pending", "processing"}
  PROVE Grounded(q)'
BY SettledForGood DEF Grounded, Remembered

(* A row that holds its message is grounded in nothing. *)
LEMMA HoldingIsGrounded ==
  ASSUME NEW q \in Rows, status'[q] \in Active \cup {"none"} PROVE Grounded(q)'
BY DEF Grounded, Active, Waiting

LEMMA WorldUnchanged ==
  ASSUME UNCHANGED worldVars PROVE \A q \in Rows : Remembered(q)
BY DEF worldVars, Remembered

LEMMA WorkUnchanged ==
  ASSUME UNCHANGED <<job, dsnJob>> PROVE \A q \in Rows : NothingLearnt(q)
BY DEF NothingLearnt

LEMMA AnswersKept ==
  ASSUME AnswerInv,
         \A q \in Rows : Remembered(q) /\ NothingLearnt(q),
         \A q \in Rows : status'[q] = status[q] \/ status'[q] \in Active,
         \A q \in Rows : bounce'[q] = bounce[q] \/ bounce'[q] \in {"pending", "processing"}
  PROVE AnswerInv'
<1> SUFFICES ASSUME NEW q \in Rows PROVE Truthful(q)' /\ Grounded(q)' BY DEF AnswerInv
<1>1. Truthful(q)' BY TruthfulKept DEF AnswerInv
<1>2. Grounded(q)' BY GroundedKept, HoldingIsGrounded DEF AnswerInv
<1> QED BY <1>1, <1>2

LEMMA AnswersRequeue ==
  ASSUME AnswerInv, NEW S \in SUBSET Rows, RequeueStale(S) PROVE AnswerInv'
<1>1. \A q \in Rows : Remembered(q) BY DEF RequeueStale, Remembered
<1>2. \A q \in Rows : NothingLearnt(q) BY WorkUnchanged DEF RequeueStale
<1>3. \A q \in Rows : status'[q] = status[q] \/ status'[q] \in Active
  BY DEF RequeueStale, Active, Waiting
<1> QED BY <1>1, <1>2, <1>3, AnswersKept DEF RequeueStale

LEMMA AnswersRecover ==
  ASSUME AnswerInv, NEW S \in SUBSET Rows, RecoverStaleBounces(S) PROVE AnswerInv'
<1>1. \A q \in Rows : Remembered(q) BY DEF RecoverStaleBounces, Remembered
<1>2. \A q \in Rows : NothingLearnt(q) BY WorkUnchanged DEF RecoverStaleBounces
<1>3. \A q \in Rows : bounce'[q] = bounce[q] \/ bounce'[q] \in {"pending", "processing"}
  BY DEF RecoverStaleBounces
<1> QED BY <1>1, <1>2, <1>3, AnswersKept DEF RecoverStaleBounces

LEMMA AnswersIdle ==
  ASSUME AnswerInv, UNCHANGED <<status, bounce, job, dsnJob>>, UNCHANGED worldVars
  PROVE AnswerInv'
BY AnswersKept, WorldUnchanged, WorkUnchanged

LEMMA AnswersDbError == ASSUME AnswerInv, DbError PROVE AnswerInv'
BY AnswersIdle DEF DbError, worldVars

LEMMA AnswersHold == Spec => []AnswerInv
<1>1. Init => AnswerInv BY DEF Init, AnswerInv, Truthful, Grounded, Idle, NoDsn
<1>2. ASSUME TypeOK, AnswerInv, [Next]_vars PROVE AnswerInv'
  <2>1. ASSUME NEW m \in Messages, Enqueue(m) PROVE AnswerInv'
    <3>1. \A q \in Rows : Remembered(q) /\ NothingLearnt(q)
      BY <2>1, WorldUnchanged, WorkUnchanged DEF Enqueue, workVars
    <3>2. \A q \in Rows : status'[q] = status[q] \/ status'[q] \in Active
      BY <2>1 DEF Enqueue, Active, Waiting
    <3> QED BY <1>2, <2>1, <3>1, <3>2, AnswersKept DEF Enqueue
  <2>2. ASSUME NEW m \in Messages, DeleteMessage(m) PROVE AnswerInv'
    <3>1. \A q \in Rows : Remembered(q) /\ NothingLearnt(q)
      BY <2>2, WorldUnchanged, WorkUnchanged DEF DeleteMessage, workVars
    <3>2. \A q \in Rows : Truthful(q)' BY <1>2, <3>1, TruthfulKept DEF AnswerInv
    <3>3. ASSUME NEW q \in Rows, status'[q] # status[q] PROVE Grounded(q)'
      <4>1. status'[q] = "gone" /\ status[q] # "none" /\ ~NeedsMessage(q)
        BY <2>2, <3>3 DEF DeleteMessage
      <4>2. status[q] \in {"delivered", "failed", "cancelled", "gone"}
        BY <1>2, <4>1 DEF TypeOK, Status, NeedsMessage, Active, Waiting
      <4>3. Settled(q)
        BY <1>2, <4>1, <4>2 DEF AnswerInv, Grounded, Settled, NeedsMessage
      <4> QED BY <3>1, <4>1, <4>3, SettledForGood DEF Grounded
    <3>4. ASSUME NEW q \in Rows, status'[q] = status[q] PROVE Grounded(q)'
      BY <1>2, <2>2, <3>1, <3>4, GroundedKept DEF AnswerInv, DeleteMessage
    <3> QED BY <3>2, <3>3, <3>4 DEF AnswerInv
  <2>3. ASSUME NEW q \in Rows, TimeStep(q) PROVE AnswerInv'
    BY <1>2, <2>3, AnswersIdle DEF TimeStep, RetryFallsDue, BounceFallsDue, ClaimTurnsStale,
       BounceClaimTurnsStale, rowVars, workVars
  <2>4. ASSUME NEW q \in Rows, RetryCheck(q) PROVE AnswerInv'
    BY <1>2, <2>4, AnswersIdle DEF RetryCheck, rowVars, workVars
  <2>5. ASSUME NEW q \in Rows, MarkRetry(q) PROVE AnswerInv'
    <3>1. \A r \in Rows : Remembered(r) BY <2>5 DEF MarkRetry, Remembered
    <3>2. \A r \in Rows : NothingLearnt(r) BY <2>5, WorkUnchanged DEF MarkRetry, workVars
    <3>3. status' = status \/ status' = [status EXCEPT ![q] = "retry"]
      BY <2>5 DEF MarkRetry
    <3>4. \A r \in Rows : status'[r] = status[r] \/ status'[r] \in Active
      BY <1>2, <3>3 DEF TypeOK, Active, Waiting
    <3> QED BY <1>2, <2>5, <3>1, <3>2, <3>4, AnswersKept DEF MarkRetry
  <2>6. ASSUME NEW q \in Rows, Cancel(q) PROVE AnswerInv'
    <3>1. \A r \in Rows : Remembered(r) BY <2>6 DEF Cancel, Remembered
    <3>2. \A r \in Rows : NothingLearnt(r) BY <2>6, WorkUnchanged DEF Cancel, workVars
    <3>3. status'[q] = "cancelled" /\ q \in withdrawn' BY <1>2, <2>6 DEF TypeOK, Cancel
    <3>4. \A r \in Rows : r # q => status'[r] = status[r] BY <1>2, <2>6 DEF TypeOK, Cancel
    <3>5. \A r \in Rows : Grounded(r)'
      BY <1>2, <2>6, <3>1, <3>3, <3>4, GroundedKept DEF AnswerInv, Grounded, Cancel
    <3> QED BY <1>2, <3>1, <3>2, <3>5, TruthfulKept DEF AnswerInv
  <2>7. ASSUME NEW p \in Procs, Start(p) PROVE AnswerInv'
    BY <1>2, <2>7, AnswersIdle DEF Start, rowVars
  <2>8. ASSUME NEW p \in Procs, Stop(p) PROVE AnswerInv'
    <3>1. \A q \in Rows : Remembered(q) BY <2>8, WorldUnchanged DEF Stop
    <3>2. \A q \in Rows : NothingLearnt(q)
      BY <1>2, <2>8 DEF TypeOK, Stop, NothingLearnt, Idle, NoDsn
    <3> QED BY <1>2, <2>8, <3>1, <3>2, AnswersKept DEF Stop, rowVars
  <2>9. ASSUME NEW p \in Procs, WorkerStep(p) PROVE AnswerInv'
    <3>1. CASE RecoverOnStart(p) \/ RecoverDayOld(p)
      BY <1>2, <3>1, AnswersRequeue, AnswersDbError DEF RecoverOnStart, RecoverDayOld, Delivering
    <3>2. CASE RecoverBouncesOnStart(p) \/ RecoverDayOldBounces(p)
      BY <1>2, <3>2, AnswersRecover, AnswersDbError
      DEF RecoverBouncesOnStart, RecoverDayOldBounces, Processing
    <3>3. CASE ClaimDue(p)
      <4>1. CASE DbError BY <1>2, <4>1, AnswersDbError
      <4>2. ASSUME NEW S \in Claimable(DueRows),
                   status' = [q \in Rows |-> IF q \in S THEN "delivering" ELSE status[q]],
                   job' = [job EXCEPT ![p] = [q \in Rows |->
                     IF q \in S
                     THEN [token |-> NextToken(q), stage |-> "claimed", outcome |-> "deferred"]
                     ELSE @[q]]],
                   UNCHANGED <<bounce, dsnJob, worldVars>>
            PROVE AnswerInv'
        <5>1. \A q \in Rows : Remembered(q) BY <4>2, WorldUnchanged
        <5>2. \A q \in Rows : NothingLearnt(q) BY <1>2, <4>2 DEF TypeOK, NothingLearnt
        <5>3. \A q \in Rows : status'[q] = status[q] \/ status'[q] \in Active
          BY <4>2 DEF Active
        <5> QED BY <1>2, <4>2, <5>1, <5>2, <5>3, AnswersKept
      <4> QED BY <3>3, <4>1, <4>2 DEF ClaimDue
    <3>4. CASE BatchDone(p) \/ DsnDone(p)
      BY <1>2, <3>4, AnswersIdle DEF BatchDone, DsnDone, rowVars
    <3>5. ASSUME NEW q \in Rows, NEW o \in Outcome, Attempt(p, q, o) PROVE AnswerInv'
      <4>1. accepted[q] \in Nat /\ accepted' = [accepted EXCEPT ![q] = IF o = "accepted" THEN @ + 1 ELSE @]
        BY <1>2, <3>5 DEF TypeOK, Attempt
      <4>2. \A r \in Rows : Remembered(r)
        BY <1>2, <3>5, <4>1 DEF TypeOK, Attempt, Remembered
      <4>3. job'[p][q].outcome = o /\ (o = "accepted" => accepted'[q] > 0)
        BY <1>2, <3>5, <4>1 DEF TypeOK, Attempt
      <4>4. \A s \in Procs, r \in Rows : ~(s = p /\ r = q) => job'[s][r] = job[s][r]
        BY <1>2, <3>5 DEF TypeOK, Attempt
      <4>5. \A r \in Rows : Truthful(r)'
        BY <1>2, <3>5, <4>2, <4>3, <4>4 DEF AnswerInv, Truthful, Remembered, Attempt
      <4>6. \A r \in Rows : Grounded(r)'
        BY <1>2, <3>5, <4>2, GroundedKept DEF AnswerInv, Attempt, rowVars
      <4> QED BY <4>5, <4>6 DEF AnswerInv
    <3>6. ASSUME NEW q \in Rows, RecordAttempt(p, q) PROVE AnswerInv'
      <4>1. \A r \in Rows : NothingLearnt(r)
        BY <1>2, <3>6 DEF TypeOK, RecordAttempt, NothingLearnt
      <4> QED BY <1>2, <3>6, <4>1, WorldUnchanged, AnswersKept DEF RecordAttempt, rowVars
    <3>7. ASSUME NEW q \in Rows, FinishClaim(p, q) PROVE AnswerInv'
      <4>1. \A r \in Rows : Remembered(r) BY <3>7 DEF FinishClaim, Remembered
      <4>2. \A r \in Rows : NothingLearnt(r)
        BY <1>2, <3>7 DEF TypeOK, FinishClaim, NothingLearnt, Idle
      <4>3. CASE UNCHANGED <<status, bounce>> BY <1>2, <4>1, <4>2, <4>3, AnswersKept
      <4>4. CASE /\ status' = [status EXCEPT ![q] = Verdict(job[p][q])]
                 /\ bounce' = [bounce EXCEPT ![q] =
                        IF Verdict(job[p][q]) = "failed"
                        THEN IF q \in BounceRows THEN "pending" ELSE "skipped"
                        ELSE @]
                 /\ gaveUp' = IF Verdict(job[p][q]) = "failed" THEN gaveUp \cup {q} ELSE gaveUp
        <5>1. status'[q] = Verdict(job[p][q]) BY <1>2, <4>4 DEF TypeOK
        <5>2. Verdict(job[p][q]) \in {"delivered", "retry", "failed"} BY VerdictType
        <5>3. Verdict(job[p][q]) = "delivered" => accepted'[q] > 0
          BY <1>2, <3>7 DEF AnswerInv, Truthful, FinishClaim, Verdict
        <5>4. Verdict(job[p][q]) = "failed" =>
                q \in gaveUp' /\ (q \in BounceRows => bounce'[q] = "pending")
          BY <1>2, <4>4 DEF TypeOK
        <5>5. Grounded(q)' BY <5>1, <5>2, <5>3, <5>4 DEF Grounded
        <5>6. \A r \in Rows : r # q => status'[r] = status[r] /\ bounce'[r] = bounce[r]
          BY <1>2, <4>4 DEF TypeOK
        <5>7. \A r \in Rows : Grounded(r)'
          BY <1>2, <4>1, <5>5, <5>6, GroundedKept DEF AnswerInv
        <5> QED BY <1>2, <4>1, <4>2, <5>7, TruthfulKept DEF AnswerInv
      <4> QED BY <3>7, <4>3, <4>4 DEF FinishClaim
    <3>8. CASE ClaimDueBounces(p)
      <4>1. CASE DbError BY <1>2, <4>1, AnswersDbError
      <4>2. ASSUME NEW S \in Claimable(DueBounces),
                   bounce' = [q \in Rows |-> IF q \in S THEN "processing" ELSE bounce[q]],
                   dsnJob' = [dsnJob EXCEPT ![p] = [q \in Rows |->
                     IF q \in S THEN [token |-> bounceAttempts[q] + 1, stage |-> "claimed"]
                                ELSE @[q]]],
                   UNCHANGED <<status, job, worldVars>>
            PROVE AnswerInv'
        <5>1. \A q \in Rows : Remembered(q) BY <4>2, WorldUnchanged
        <5>2. \A q \in Rows : NothingLearnt(q) BY <1>2, <4>2 DEF TypeOK, NothingLearnt
        <5> QED BY <1>2, <4>2, <5>1, <5>2, AnswersKept
      <4> QED BY <3>8, <4>1, <4>2 DEF ClaimDueBounces
    <3>9. ASSUME NEW q \in Rows, DeliverBounce(p, q) PROVE AnswerInv'
      <4>1. PICK s \in {"sent", "refused"} :
              /\ dsnJob' = [dsnJob EXCEPT ![p][q] = [token |-> @.token, stage |-> s]]
              /\ s = "sent" => notified' = [notified EXCEPT ![q] = @ + 1]
              /\ s = "refused" => \E n \in {0, 1} : notified' = [notified EXCEPT ![q] = @ + n]
        BY <3>9 DEF DeliverBounce
      <4>2. notified \in [Rows -> Nat] BY <1>2 DEF TypeOK
      <4>3. s = "sent" => notified'[q] > 0 BY <4>1, <4>2
      <4>10. PICK n \in {0, 1} : notified' = [notified EXCEPT ![q] = @ + n] BY <4>1
      <4>4. \A r \in Rows : notified[r] > 0 => notified'[r] > 0 BY <4>2, <4>10
      <4>5. \A r \in Rows : Remembered(r) BY <3>9, <4>4 DEF DeliverBounce, Remembered
      <4>6. dsnJob'[p][q].stage = "sent" => notified'[q] > 0 BY <1>2, <4>1, <4>3 DEF TypeOK
      <4>7. \A t \in Procs, r \in Rows : ~(t = p /\ r = q) => dsnJob'[t][r] = dsnJob[t][r]
        BY <1>2, <4>1 DEF TypeOK
      <4>8. \A r \in Rows : Truthful(r)'
        BY <1>2, <3>9, <4>5, <4>6, <4>7 DEF AnswerInv, Truthful, Remembered, DeliverBounce
      <4>9. \A r \in Rows : Grounded(r)'
        BY <1>2, <3>9, <4>5, GroundedKept DEF AnswerInv, DeliverBounce, rowVars
      <4> QED BY <4>8, <4>9 DEF AnswerInv
    <3>10. ASSUME NEW q \in Rows, FinishBounce(p, q) PROVE AnswerInv'
      <4>1. \A r \in Rows : Remembered(r) BY <3>10, WorldUnchanged DEF FinishBounce
      <4>2. \A r \in Rows : NothingLearnt(r)
        BY <1>2, <3>10 DEF TypeOK, FinishBounce, NothingLearnt, NoDsn
      <4>3. CASE UNCHANGED bounce
        BY <1>2, <3>10, <4>1, <4>2, <4>3, AnswersKept DEF FinishBounce
      <4>4. CASE bounce' = [bounce EXCEPT ![q] = DsnVerdict(dsnJob[p][q].stage)]
        <5>1. bounce'[q] = "pending" \/ notified'[q] > 0
          BY <1>2, <3>10, <4>4
          DEF TypeOK, AnswerInv, Truthful, FinishBounce, DsnVerdict, worldVars
        <5>2. \A r \in Rows : r # q => bounce'[r] = bounce[r] BY <1>2, <4>4 DEF TypeOK
        <5>3. status' = status BY <3>10 DEF FinishBounce
        <5>4. Settled(q) => Settled(q)' BY <4>1, SettledForGood
        <5>5. Grounded(q)' BY <1>2, <4>1, <5>1, <5>3, <5>4 DEF AnswerInv, Grounded, Remembered
        <5>6. \A r \in Rows : Grounded(r)'
          BY <1>2, <4>1, <5>2, <5>3, <5>5, GroundedKept DEF AnswerInv
        <5> QED BY <1>2, <4>1, <4>2, <5>6, TruthfulKept DEF AnswerInv
      <4> QED BY <3>10, <4>3, <4>4 DEF FinishBounce
    <3>11. ASSUME NEW q \in Rows, LoseAnswer(p, q) PROVE AnswerInv'
      <4>1. accepted \in [Rows -> Nat] /\ accepted' = [accepted EXCEPT ![q] = @ + 1]
        BY <1>2, <3>11 DEF TypeOK, LoseAnswer
      <4>2. \A r \in Rows : accepted[r] > 0 => accepted'[r] > 0 BY <4>1
      <4>3. \A r \in Rows : Remembered(r) BY <3>11, <4>2 DEF LoseAnswer, Remembered
      <4>4. \A r \in Rows : NothingLearnt(r) BY <3>11, WorkUnchanged DEF LoseAnswer, workVars
      <4> QED BY <1>2, <3>11, <4>3, <4>4, AnswersKept DEF LoseAnswer, rowVars
    <3> QED
      BY <2>9, <3>1, <3>2, <3>3, <3>4, <3>5, <3>6, <3>7, <3>8, <3>9, <3>10, <3>11 DEF WorkerStep
  <2>10. CASE UNCHANGED vars BY <1>2, <2>10, AnswersIdle DEF vars, worldVars
  <2> QED BY <1>2, <2>1, <2>2, <2>3, <2>4, <2>5, <2>6, <2>7, <2>8, <2>9, <2>10 DEF Next
<1> QED BY <1>1, <1>2, TypeCorrect, PTL DEF Spec

(* No mail is lost in silence: a row that no longer holds its message is    *)
(* one whose sender has an answer, whatever crashed or raced before.         *)
THEOREM NothingIsLostInSilence == Spec => []NoSilentLoss
<1>1. TypeOK /\ AnswerInv => NoSilentLoss
  <2> SUFFICES ASSUME TypeOK, AnswerInv, NEW q \in Rows,
                      status[q] # "none", ~NeedsMessage(q)
               PROVE Settled(q)
    BY DEF NoSilentLoss
  <2>1. status[q] \in {"delivered", "failed", "cancelled", "gone"}
    BY DEF TypeOK, Status, NeedsMessage, Active, Waiting
  <2> QED BY <2>1 DEF AnswerInv, Grounded, Settled, NeedsMessage
<1> QED BY <1>1, TypeCorrect, AnswersHold, PTL

(* No two claims of a row share a token, and no row is claimed more often   *)
(* than its attempts and the administrators' retries allow.                 *)
THEOREM ClaimsAreFenced == Spec => []ClaimsFenced
BY AttemptBudgetHolds, TokensAreUnique, PTL DEF ClaimsFenced
-----------------------------------------------------------------------------
(* LogAgreesWithRow. The strengthening: entries are of claims that were     *)
(* made, nobody finds his own entry before he writes it, and once a row is  *)
(* delivered or failed no process holds its last claim any more.            *)
OneOutcome(q) == \A e1, e2 \in log[q] : e1[1] = e2[1] => e1 = e2
LogExplains(q) ==
  \A e \in log[q] : e[1] = attempts[q] => /\ status[q] = "delivered" => e[2] = "accepted"
                                          /\ status[q] = "failed" => e[2] # "accepted"
Ended(q) == status[q] \in {"delivered", "failed"}
OwnEntry(p, q) ==
  /\ job[p][q].stage \in {"claimed", "tried"} => \A e \in log[q] : e[1] # job[p][q].token
  /\ job[p][q].stage = "logged" => \A e \in log[q] : e[1] = job[p][q].token => e[2] = job[p][q].outcome
  /\ job[p][q].stage # "idle" /\ Ended(q) => job[p][q].token # attempts[q]
LogFair(q) ==
  /\ \A e \in log[q] : e[1] <= attempts[q]
  /\ OneOutcome(q) /\ LogExplains(q)
  /\ \A p \in Procs : OwnEntry(p, q)
LogInv == \A q \in Rows : LogFair(q)

(* A process forgets a claim, keeps it, or tries it. *)
Advances(p, q) ==
  \/ job'[p][q].stage = "idle"
  \/ job'[p][q] = job[p][q]
  \/ job[p][q].stage = "claimed" /\ job'[p][q].stage = "tried" /\ job'[p][q].token = job[p][q].token

LEMMA LogFairKept ==
  ASSUME NEW q \in Rows, LogFair(q), attempts'[q] = attempts[q], log'[q] \subseteq log[q],
         Ended(q)' => status'[q] = status[q],
         \A p \in Procs : Advances(p, q)
  PROVE  LogFair(q)'
<1>1. \A e \in log'[q] : e[1] <= attempts'[q] BY DEF LogFair
<1>2. OneOutcome(q)' BY DEF LogFair, OneOutcome
<1>3. LogExplains(q)' BY DEF LogFair, LogExplains, Ended
<1>4. ASSUME NEW p \in Procs PROVE OwnEntry(p, q)'
  <2>1. CASE job'[p][q].stage = "idle" BY <2>1 DEF OwnEntry
  <2>2. CASE job'[p][q] = job[p][q] BY <2>2 DEF LogFair, OwnEntry, Ended
  <2>3. CASE job[p][q].stage = "claimed" /\ job'[p][q].stage = "tried" /\ job'[p][q].token = job[p][q].token
    BY <2>3 DEF LogFair, OwnEntry, Ended
  <2> QED BY <2>1, <2>2, <2>3 DEF Advances
<1> QED BY <1>1, <1>2, <1>3, <1>4 DEF LogFair

LEMMA LogKept ==
  ASSUME LogInv, attempts' = attempts, \A q \in Rows : log'[q] \subseteq log[q],
         \A q \in Rows : Ended(q)' => status'[q] = status[q],
         \A p \in Procs, q \in Rows : Advances(p, q)
  PROVE  LogInv'
BY LogFairKept DEF LogInv

LEMMA LogIdle ==
  ASSUME LogInv, UNCHANGED <<attempts, log, status, job>> PROVE LogInv'
BY LogKept DEF Advances

LEMMA LogRequeue ==
  ASSUME LogInv, NEW S \in SUBSET Rows, RequeueStale(S) PROVE LogInv'
<1>1. \A q \in Rows : Ended(q)' => status'[q] = status[q] BY DEF RequeueStale, Ended
<1> QED BY <1>1, LogKept DEF RequeueStale, Advances

LEMMA LogClaim ==
  ASSUME TypeOK, LogInv, NEW p \in Procs, ClaimDue(p) PROVE LogInv'
<1>1. CASE DbError BY <1>1, LogIdle DEF DbError
<1>2. ASSUME NEW S \in Claimable(DueRows),
             status' = [q \in Rows |-> IF q \in S THEN "delivering" ELSE status[q]],
             attempts' = [q \in Rows |-> IF q \in S THEN NextToken(q) ELSE attempts[q]],
             job' = [job EXCEPT ![p] = [q \in Rows |->
               IF q \in S
               THEN [token |-> NextToken(q), stage |-> "claimed", outcome |-> "deferred"]
               ELSE @[q]]],
             log' = log
      PROVE LogInv'
  <2>1. ASSUME NEW q \in Rows \ S PROVE LogFair(q)'
    <3>1. attempts'[q] = attempts[q] /\ status'[q] = status[q] /\ \A r \in Procs : job'[r][q] = job[r][q]
      BY <1>2 DEF TypeOK
    <3> QED BY <1>2, <3>1, LogFairKept DEF LogInv, Advances
  <2>2. ASSUME NEW q \in S \cap Rows PROVE LogFair(q)'
    <3>1. attempts'[q] = attempts[q] + 1 /\ status'[q] = "delivering" /\ attempts[q] \in Nat
      BY <1>2 DEF TypeOK, NextToken
    <3>2. job'[p][q] = [token |-> attempts[q] + 1, stage |-> "claimed", outcome |-> "deferred"]
      BY <1>2 DEF TypeOK, NextToken
    <3>3. \A r \in Procs \ {p} : job'[r][q] = job[r][q] BY <1>2 DEF TypeOK
    <3>4. log[q] \in SUBSET (Nat \X Outcome) BY DEF TypeOK
    <3>5. \A e \in log[q] : e[1] \in Nat /\ e[1] <= attempts[q] BY <3>4 DEF LogInv, LogFair
    <3>6. \A e \in log'[q] : e[1] <= attempts'[q] /\ e[1] # attempts'[q] BY <1>2, <3>1, <3>5
    <3>7. OneOutcome(q)' BY <1>2 DEF LogInv, LogFair, OneOutcome
    <3>8. LogExplains(q)' BY <3>6 DEF LogExplains
    <3>9. OwnEntry(p, q)' BY <3>1, <3>2, <3>6 DEF OwnEntry, Ended
    <3>10. \A r \in Procs \ {p} : OwnEntry(r, q)' BY <1>2, <3>1, <3>3 DEF LogInv, LogFair, OwnEntry, Ended
    <3> QED BY <3>6, <3>7, <3>8, <3>9, <3>10 DEF LogFair
  <2> QED BY <2>1, <2>2 DEF LogInv
<1> QED BY <1>1, <1>2 DEF ClaimDue

LEMMA LogRecord ==
  ASSUME TypeOK, TokensInv, LogInv, NEW p \in Procs, NEW q \in Rows, RecordAttempt(p, q) PROVE LogInv'
<1> DEFINE j == job[p][q]
           e0 == <<j.token, j.outcome>>
<1>1. /\ j.stage = "tried" /\ attempts' = attempts /\ status' = status
      /\ job'[p][q] = [token |-> j.token, stage |-> "logged", outcome |-> j.outcome]
      /\ \A r \in Procs, t \in Rows : ~(r = p /\ t = q) => job'[r][t] = job[r][t]
  BY DEF TypeOK, RecordAttempt, rowVars
<1>2. log' = log \/ log' = [log EXCEPT ![q] = @ \cup {e0}]
  BY DEF RecordAttempt
<1>3. \A t \in Rows \ {q} : log'[t] = log[t] BY <1>2 DEF TypeOK
<1>4. \A e \in log'[q] : e \in log[q] \/ e = e0 BY <1>2 DEF TypeOK
<1>5. ASSUME NEW t \in Rows \ {q} PROVE LogFair(t)'
  BY <1>1, <1>3, LogFairKept DEF LogInv, Advances
<1>6. LogFair(q)'
  <2>1. LogFair(q) /\ OwnEntry(p, q) BY DEF LogInv, LogFair
  <2>2. /\ j.token <= attempts[q] /\ (\A e \in log[q] : e[1] # j.token)
        /\ (Ended(q) => j.token # attempts[q])
    BY <1>1, <2>1 DEF TokensInv, OwnEntry
  <2>3. e0[1] = j.token /\ e0[2] = j.outcome OBVIOUS
  <2> HIDE DEF e0, j
  <2>4. \A e \in log'[q] : e[1] <= attempts'[q] BY <1>1, <1>4, <2>1, <2>2, <2>3 DEF LogFair
  <2>5. OneOutcome(q)' BY <1>4, <2>1, <2>2, <2>3 DEF LogFair, OneOutcome
  <2>6. LogExplains(q)' BY <1>1, <1>4, <2>1, <2>2, <2>3 DEF LogFair, LogExplains, Ended
  <2>7. OwnEntry(p, q)' BY <1>1, <1>4, <2>2, <2>3 DEF OwnEntry, Ended
  <2>8. ASSUME NEW r \in Procs \ {p} PROVE OwnEntry(r, q)'
    <3>1. job'[r][q] = job[r][q] /\ OwnEntry(r, q) BY <1>1, <2>1 DEF LogFair
    <3>2. job[r][q].stage # "idle" => job[r][q].token # j.token
      BY <1>1 DEF TokensInv, TokensUnique, j
    <3> QED BY <1>1, <1>4, <2>3, <3>1, <3>2 DEF OwnEntry, Ended
  <2> QED BY <2>4, <2>5, <2>6, <2>7, <2>8 DEF LogFair
<1> QED BY <1>5, <1>6 DEF LogInv

LEMMA LogFinish ==
  ASSUME TypeOK, TokensInv, LogInv, NEW p \in Procs, NEW q \in Rows, FinishClaim(p, q) PROVE LogInv'
<1> DEFINE j == job[p][q]
<1>1. /\ j.stage = "logged" /\ attempts' = attempts /\ log' = log
      /\ job'[p][q].stage = "idle"
      /\ \A r \in Procs, t \in Rows : ~(r = p /\ t = q) => job'[r][t] = job[r][t]
  BY DEF TypeOK, FinishClaim, Idle
<1>2. \A r \in Procs, t \in Rows : Advances(r, t) BY <1>1 DEF Advances
<1>3. CASE status' = status BY <1>1, <1>2, <1>3, LogKept
<1>4. CASE ClaimIsCurrent(q, j.token) /\ status' = [status EXCEPT ![q] = Verdict(j)]
  <2>1. status'[q] = Verdict(j) /\ \A t \in Rows \ {q} : status'[t] = status[t] BY <1>4 DEF TypeOK
  <2>2. ASSUME NEW t \in Rows \ {q} PROVE LogFair(t)'
    BY <1>1, <1>2, <2>1, LogFairKept DEF LogInv
  <2>3. LogFair(q)'
    <3>1. LogFair(q) /\ OwnEntry(p, q) BY DEF LogInv, LogFair
    <3>2. j.token = attempts[q] BY <1>4 DEF ClaimIsCurrent
    <3>3. /\ Verdict(j) = "delivered" => j.outcome = "accepted"
          /\ Verdict(j) = "failed" => j.outcome # "accepted"
      BY DEF Verdict
    <3>4. LogExplains(q)' BY <1>1, <2>1, <3>1, <3>2, <3>3 DEF LogExplains, OwnEntry
    <3>5. ASSUME NEW r \in Procs PROVE OwnEntry(r, q)'
      <4>1. CASE r = p BY <1>1, <4>1 DEF OwnEntry
      <4>2. CASE r # p
        <5>1. job'[r][q] = job[r][q] /\ OwnEntry(r, q) BY <1>1, <3>1, <4>2 DEF LogFair
        <5>2. job[r][q].stage # "idle" => job[r][q].token # attempts[q]
          BY <1>1, <3>2, <4>2 DEF TokensInv, TokensUnique
        <5> QED BY <1>1, <5>1, <5>2 DEF OwnEntry
      <4> QED BY <4>1, <4>2
    <3>6. (\A e \in log'[q] : e[1] <= attempts'[q]) /\ OneOutcome(q)'
      BY <1>1, <3>1 DEF LogFair, OneOutcome
    <3> QED BY <3>4, <3>5, <3>6 DEF LogFair
  <2> QED BY <2>2, <2>3 DEF LogInv
<1> QED BY <1>3, <1>4 DEF FinishClaim

LEMMA LogHolds == Spec => []LogInv
<1>1. Init => LogInv
  BY DEF Init, LogInv, LogFair, OneOutcome, LogExplains, OwnEntry, Ended, Idle
<1>2. ASSUME TypeOK, TokensInv, LogInv, [Next]_vars PROVE LogInv'
  <2>1. ASSUME NEW m \in Messages, Enqueue(m) PROVE LogInv'
    <3>1. \A q \in Rows : Ended(q)' => status'[q] = status[q] BY <2>1 DEF Enqueue, Ended
    <3> QED BY <1>2, <2>1, <3>1, LogKept DEF Enqueue, workVars, Advances
  <2>2. ASSUME NEW m \in Messages, DeleteMessage(m) PROVE LogInv'
    <3>1. \A q \in Rows : Ended(q)' => status'[q] = status[q] BY <2>2 DEF DeleteMessage, Ended
    <3>2. \A q \in Rows : log'[q] \subseteq log[q] BY <2>2 DEF DeleteMessage
    <3> QED BY <1>2, <2>2, <3>1, <3>2, LogKept DEF DeleteMessage, workVars, Advances
  <2>3. ASSUME NEW q \in Rows, TimeStep(q) \/ RetryCheck(q) PROVE LogInv'
    BY <1>2, <2>3, LogIdle DEF TimeStep, RetryFallsDue, BounceFallsDue, ClaimTurnsStale,
       BounceClaimTurnsStale, RetryCheck, rowVars, workVars
  <2>4. ASSUME NEW q \in Rows, MarkRetry(q) \/ Cancel(q) PROVE LogInv'
    <3>1. status' = status \/ \E s \in {"retry", "cancelled"} : status' = [status EXCEPT ![q] = s]
      BY <2>4 DEF MarkRetry, Cancel
    <3>2. \A r \in Rows : Ended(r)' => status'[r] = status[r] BY <1>2, <3>1 DEF TypeOK, Ended
    <3> QED BY <1>2, <2>4, <3>2, LogKept DEF MarkRetry, Cancel, workVars, Advances
  <2>5. ASSUME NEW p \in Procs, Start(p) PROVE LogInv'
    BY <1>2, <2>5, LogIdle DEF Start, rowVars
  <2>6. ASSUME NEW p \in Procs, Stop(p) PROVE LogInv'
    <3>1. \A r \in Procs, q \in Rows : Advances(r, q)
      BY <1>2, <2>6 DEF TypeOK, Stop, Advances, Idle
    <3> QED BY <1>2, <2>6, <3>1, LogKept DEF Stop, rowVars
  <2>7. ASSUME NEW p \in Procs, WorkerStep(p) PROVE LogInv'
    <3>1. CASE RecoverOnStart(p) \/ RecoverDayOld(p)
      BY <1>2, <3>1, LogRequeue, LogIdle DEF RecoverOnStart, RecoverDayOld, Delivering, DbError
    <3>2. CASE RecoverBouncesOnStart(p) \/ RecoverDayOldBounces(p)
      BY <1>2, <3>2, LogIdle
      DEF RecoverBouncesOnStart, RecoverDayOldBounces, RecoverStaleBounces, DbError
    <3>3. CASE ClaimDue(p) BY <1>2, <3>3, LogClaim
    <3>4. CASE BatchDone(p) \/ DsnDone(p) \/ ClaimDueBounces(p)
      BY <1>2, <3>4, LogIdle DEF BatchDone, DsnDone, ClaimDueBounces, DbError, rowVars
    <3>5. ASSUME NEW q \in Rows, NEW o \in Outcome, Attempt(p, q, o) PROVE LogInv'
      <4>1. \A r \in Procs, t \in Rows : Advances(r, t)
        BY <1>2, <3>5 DEF TypeOK, Attempt, Advances
      <4> QED BY <1>2, <3>5, <4>1, LogKept DEF Attempt, rowVars
    <3>6. ASSUME NEW q \in Rows, RecordAttempt(p, q) PROVE LogInv' BY <1>2, <3>6, LogRecord
    <3>7. ASSUME NEW q \in Rows, FinishClaim(p, q) PROVE LogInv' BY <1>2, <3>7, LogFinish
    <3>8. ASSUME NEW q \in Rows, DeliverBounce(p, q) \/ FinishBounce(p, q) PROVE LogInv'
      BY <1>2, <3>8, LogIdle DEF DeliverBounce, FinishBounce, rowVars
    <3>9. ASSUME NEW q \in Rows, LoseAnswer(p, q) PROVE LogInv'
      BY <1>2, <3>9, LogIdle DEF LoseAnswer, rowVars, workVars
    <3> QED BY <2>7, <3>1, <3>2, <3>3, <3>4, <3>5, <3>6, <3>7, <3>8, <3>9 DEF WorkerStep
  <2>8. CASE UNCHANGED vars BY <1>2, <2>8, LogIdle DEF vars
  <2> QED BY <1>2, <2>1, <2>2, <2>3, <2>4, <2>5, <2>6, <2>7, <2>8 DEF Next
<1> QED BY <1>1, <1>2, TypeCorrect, TokensHold, PTL DEF Spec

(* The delivery log explains every row: one outcome per attempt, and the    *)
(* last attempt of a row is the reason it was delivered or failed, although  *)
(* the log is written unfenced and by workers that lost their claim.         *)
THEOREM LogAlwaysAgrees == Spec => []LogAgreesWithRow
<1>1. LogInv => LogAgreesWithRow
  BY DEF LogInv, LogFair, OneOutcome, LogExplains, LogAgreesWithRow
<1> QED BY <1>1, LogHolds, PTL
-----------------------------------------------------------------------------
(* RepeatsBounded. What is counted is the claims in hand that can still lead *)
(* to a copy, or to a DSN: no row has more of them than what put it back     *)
(* has paid for.                                                             *)
LEMMA SmallerSet ==
  ASSUME NEW S, NEW T, IsFiniteSet(S), T \subseteq S
  PROVE  /\ IsFiniteSet(T) /\ Cardinality(T) \in Nat /\ Cardinality(S) \in Nat
         /\ Cardinality(T) <= Cardinality(S)
<1>1. IsFiniteSet(T) /\ Cardinality(T) <= Cardinality(S) BY FS_Subset
<1> QED BY <1>1, FS_CardinalityType

LEMMA OneElementLess ==
  ASSUME NEW S, NEW T, NEW x \in S, IsFiniteSet(S), T \subseteq S \ {x}
  PROVE  /\ IsFiniteSet(T) /\ Cardinality(T) \in Nat /\ Cardinality(S) \in Nat
         /\ Cardinality(T) + 1 <= Cardinality(S)
<1>1. IsFiniteSet(S \ {x}) /\ Cardinality(S \ {x}) = Cardinality(S) - 1 BY FS_RemoveElement
<1>2. IsFiniteSet(T) /\ Cardinality(T) \in Nat /\ Cardinality(T) <= Cardinality(S \ {x})
  BY <1>1, SmallerSet
<1> QED BY <1>1, <1>2, FS_CardinalityType

LEMMA OneElementMore ==
  ASSUME NEW S, NEW T, NEW x, IsFiniteSet(S), T \subseteq S \cup {x}
  PROVE  /\ IsFiniteSet(T) /\ Cardinality(T) \in Nat /\ Cardinality(S) \in Nat
         /\ Cardinality(T) <= Cardinality(S) + 1
<1>1. /\ IsFiniteSet(S \cup {x})
      /\ Cardinality(S \cup {x}) = Cardinality(S) \/ Cardinality(S \cup {x}) = Cardinality(S) + 1
  BY FS_AddElement
<1>2. IsFiniteSet(T) /\ Cardinality(T) \in Nat /\ Cardinality(T) <= Cardinality(S \cup {x})
  BY <1>1, SmallerSet
<1> QED BY <1>1, <1>2, FS_CardinalityType

(* Copies: the claims of a row that have delivered nothing yet ... *)
Unused(q) ==
  {p \in Procs : \/ job[p][q].stage = "claimed"
                 \/ job[p][q].stage \in {"tried", "logged"} /\ job[p][q].outcome # "accepted"}
Chance(q) == IF status[q] \in {"delivering", "delivered", "gone"} THEN 1 ELSE 0
CopiesPaid(q) ==
  /\ IsFiniteSet(Unused(q))
  /\ accepted[q] + Cardinality(Unused(q)) <= revived[q] + unheard[q] + Chance(q)

(* ... and notices: its DSN claims that have filed nothing yet. *)
Unsent(q) == {p \in Procs : dsnJob[p][q].stage \in {"claimed", "refused"}}
Owing(q) == IF bounce[q] = "pending" THEN 1 ELSE 0
Over(q) == IF status[q] \in {"failed", "gone"} THEN 1 ELSE 0
NoticesPaid(q) ==
  /\ IsFiniteSet(Unsent(q))
  /\ notified[q] + Cardinality(Unsent(q)) + Owing(q)
       <= reclaimed[q] + revived[q] + misfiled[q] + Over(q)

RepeatInv == \A q \in Rows : CopiesPaid(q) /\ NoticesPaid(q)

(* The three ways a step may treat what is counted. *)
CopiesAlike(q) ==
  /\ Unused(q)' \subseteq Unused(q) /\ accepted'[q] = accepted[q] /\ unheard'[q] = unheard[q]
  /\ revived[q] + Chance(q) <= revived'[q] + Chance(q)'
NoticesAlike(q) ==
  /\ Unsent(q)' \subseteq Unsent(q) /\ notified'[q] = notified[q] /\ misfiled'[q] = misfiled[q]
  /\ reclaimed[q] + revived[q] + Over(q) + Owing(q)'
       <= reclaimed'[q] + revived'[q] + Over(q)' + Owing(q)

LEMMA CopiesKept ==
  ASSUME TypeOK, TypeOK', NEW q \in Rows, CopiesPaid(q), CopiesAlike(q) PROVE CopiesPaid(q)'
<1>1. /\ IsFiniteSet(Unused(q)') /\ Cardinality(Unused(q)') \in Nat
      /\ Cardinality(Unused(q)) \in Nat /\ Cardinality(Unused(q)') <= Cardinality(Unused(q))
  BY SmallerSet DEF CopiesPaid, CopiesAlike
<1>2. /\ accepted[q] \in Nat /\ revived[q] \in Nat /\ Chance(q) \in Nat
      /\ accepted'[q] \in Nat /\ revived'[q] \in Nat /\ Chance(q)' \in Nat
      /\ unheard[q] \in Nat
  BY DEF TypeOK, Chance
<1> QED BY <1>1, <1>2 DEF CopiesPaid, CopiesAlike

LEMMA CopyUsed ==
  ASSUME TypeOK, TypeOK', NEW q \in Rows, CopiesPaid(q), NEW p \in Unused(q),
         Unused(q)' \subseteq Unused(q) \ {p}, UNCHANGED unheard,
         accepted'[q] + revived[q] + Chance(q) <= accepted[q] + 1 + revived'[q] + Chance(q)'
  PROVE  CopiesPaid(q)'
<1>1. /\ IsFiniteSet(Unused(q)') /\ Cardinality(Unused(q)') \in Nat
      /\ Cardinality(Unused(q)) \in Nat /\ Cardinality(Unused(q)') + 1 <= Cardinality(Unused(q))
  BY OneElementLess DEF CopiesPaid
<1>2. /\ accepted[q] \in Nat /\ revived[q] \in Nat /\ Chance(q) \in Nat
      /\ accepted'[q] \in Nat /\ revived'[q] \in Nat /\ Chance(q)' \in Nat
      /\ unheard[q] \in Nat
  BY DEF TypeOK, Chance
<1> QED BY <1>1, <1>2 DEF CopiesPaid

LEMMA CopyPromised ==
  ASSUME TypeOK, TypeOK', NEW q \in Rows, CopiesPaid(q), NEW p,
         Unused(q)' \subseteq Unused(q) \cup {p}, UNCHANGED <<accepted, unheard>>,
         revived[q] + Chance(q) + 1 <= revived'[q] + Chance(q)'
  PROVE  CopiesPaid(q)'
<1>1. /\ IsFiniteSet(Unused(q)') /\ Cardinality(Unused(q)') \in Nat
      /\ Cardinality(Unused(q)) \in Nat /\ Cardinality(Unused(q)') <= Cardinality(Unused(q)) + 1
  BY OneElementMore DEF CopiesPaid
<1>2. /\ accepted[q] \in Nat /\ revived[q] \in Nat /\ Chance(q) \in Nat
      /\ accepted'[q] \in Nat /\ revived'[q] \in Nat /\ Chance(q)' \in Nat
      /\ unheard[q] \in Nat
  BY DEF TypeOK, Chance
<1> QED BY <1>1, <1>2 DEF CopiesPaid

LEMMA NoticesKept ==
  ASSUME TypeOK, TypeOK', NEW q \in Rows, NoticesPaid(q), NoticesAlike(q) PROVE NoticesPaid(q)'
<1>1. /\ IsFiniteSet(Unsent(q)') /\ Cardinality(Unsent(q)') \in Nat
      /\ Cardinality(Unsent(q)) \in Nat /\ Cardinality(Unsent(q)') <= Cardinality(Unsent(q))
  BY SmallerSet DEF NoticesPaid, NoticesAlike
<1>2. /\ notified[q] \in Nat /\ revived[q] \in Nat /\ reclaimed[q] \in Nat
      /\ notified'[q] \in Nat /\ revived'[q] \in Nat /\ reclaimed'[q] \in Nat
      /\ misfiled[q] \in Nat
  BY DEF TypeOK
<1>3. Over(q) \in Nat /\ Owing(q) \in Nat /\ Over(q)' \in Nat /\ Owing(q)' \in Nat
  BY DEF Over, Owing
<1> QED BY <1>1, <1>2, <1>3 DEF NoticesPaid, NoticesAlike

LEMMA NoticeUsed ==
  ASSUME TypeOK, TypeOK', NEW q \in Rows, NoticesPaid(q), NEW p \in Unsent(q),
         Unsent(q)' \subseteq Unsent(q) \ {p},
         UNCHANGED <<status, reclaimed, revived, misfiled>>,
         notified'[q] + Owing(q)' <= notified[q] + Owing(q) + 1
  PROVE  NoticesPaid(q)'
<1>1. /\ IsFiniteSet(Unsent(q)') /\ Cardinality(Unsent(q)') \in Nat
      /\ Cardinality(Unsent(q)) \in Nat /\ Cardinality(Unsent(q)') + 1 <= Cardinality(Unsent(q))
  BY OneElementLess DEF NoticesPaid
<1>2. /\ notified[q] \in Nat /\ revived[q] \in Nat /\ reclaimed[q] \in Nat
      /\ notified'[q] \in Nat /\ misfiled[q] \in Nat
  BY DEF TypeOK
<1>3. Over(q) \in Nat /\ Owing(q) \in Nat /\ Over(q)' = Over(q) /\ Owing(q)' \in Nat
  BY DEF Over, Owing
<1> QED BY <1>1, <1>2, <1>3 DEF NoticesPaid

LEMMA NoticePromised ==
  ASSUME TypeOK, TypeOK', NEW q \in Rows, NoticesPaid(q), NEW p,
         Unsent(q)' \subseteq Unsent(q) \cup {p},
         UNCHANGED <<status, notified, misfiled, reclaimed, revived>>,
         Owing(q)' + 1 <= Owing(q)
  PROVE  NoticesPaid(q)'
<1>1. /\ IsFiniteSet(Unsent(q)') /\ Cardinality(Unsent(q)') \in Nat
      /\ Cardinality(Unsent(q)) \in Nat /\ Cardinality(Unsent(q)') <= Cardinality(Unsent(q)) + 1
  BY OneElementMore DEF NoticesPaid
<1>2. /\ notified[q] \in Nat /\ revived[q] \in Nat /\ reclaimed[q] \in Nat
      /\ misfiled[q] \in Nat
  BY DEF TypeOK
<1>3. Over(q) \in Nat /\ Owing(q) \in Nat /\ Over(q)' = Over(q) /\ Owing(q)' \in Nat
  BY DEF Over, Owing
<1> QED BY <1>1, <1>2, <1>3 DEF NoticesPaid

LEMMA RepeatsKept ==
  ASSUME TypeOK, TypeOK', RepeatInv, \A q \in Rows : CopiesAlike(q) /\ NoticesAlike(q)
  PROVE  RepeatInv'
BY CopiesKept, NoticesKept DEF RepeatInv

(* What is counted depends on these alone. *)
LEMMA CopiesUntouched ==
  ASSUME TypeOK, NEW q \in Rows, \A p \in Procs : job'[p][q] = job[p][q],
         accepted'[q] = accepted[q], unheard'[q] = unheard[q],
         revived'[q] = revived[q], status'[q] = status[q]
  PROVE  CopiesAlike(q)
<1>1. Unused(q)' = Unused(q) BY DEF Unused
<1>2. Chance(q)' = Chance(q) /\ Chance(q) \in Nat /\ revived[q] \in Nat BY DEF TypeOK, Chance
<1> QED BY <1>1, <1>2 DEF CopiesAlike

LEMMA NoticesUntouched ==
  ASSUME TypeOK, NEW q \in Rows, \A p \in Procs : dsnJob'[p][q] = dsnJob[p][q],
         notified'[q] = notified[q], misfiled'[q] = misfiled[q],
         revived'[q] = revived[q], reclaimed'[q] = reclaimed[q],
         status'[q] = status[q], bounce'[q] = bounce[q]
  PROVE  NoticesAlike(q)
<1>1. Unsent(q)' = Unsent(q) BY DEF Unsent
<1>2. /\ Over(q)' = Over(q) /\ Over(q) \in Nat /\ Owing(q)' = Owing(q) /\ Owing(q) \in Nat
      /\ revived[q] \in Nat /\ reclaimed[q] \in Nat
  BY DEF TypeOK, Over, Owing
<1> QED BY <1>1, <1>2 DEF NoticesAlike

LEMMA RepeatsIdle ==
  ASSUME TypeOK, TypeOK', RepeatInv,
         UNCHANGED <<status, bounce, job, dsnJob, accepted, unheard, notified, misfiled, revived, reclaimed>>
  PROVE  RepeatInv'
BY RepeatsKept, CopiesUntouched, NoticesUntouched

LEMMA RepeatsDbError ==
  ASSUME TypeOK, TypeOK', RepeatInv, DbError PROVE RepeatInv'
BY RepeatsIdle DEF DbError

(* The status of a row changes: in which way decides what it may cost. *)
LEMMA CopiesByStatus ==
  ASSUME TypeOK, NEW q \in Rows, UNCHANGED <<job, accepted, unheard>>,
         \/ revived'[q] = revived[q] /\ Chance(q) <= Chance(q)'
         \/ revived'[q] = revived[q] + 1
  PROVE  CopiesAlike(q)
<1>1. Unused(q)' = Unused(q) BY DEF Unused
<1>2. revived[q] \in Nat BY DEF TypeOK
<1>3. Chance(q) \in {0, 1} /\ Chance(q)' \in {0, 1} BY DEF Chance
<1> QED BY <1>1, <1>2, <1>3 DEF CopiesAlike

LEMMA NoticesByStatus ==
  ASSUME TypeOK, NEW q \in Rows, UNCHANGED <<dsnJob, bounce, notified, misfiled, reclaimed>>,
         \/ revived'[q] = revived[q] /\ Over(q) <= Over(q)'
         \/ revived'[q] = revived[q] + 1
  PROVE  NoticesAlike(q)
<1>1. Unsent(q)' = Unsent(q) BY DEF Unsent
<1>2. revived[q] \in Nat /\ reclaimed[q] \in Nat BY DEF TypeOK
<1>3. /\ Over(q) \in {0, 1} /\ Over(q)' \in {0, 1}
      /\ Owing(q) \in {0, 1} /\ Owing(q)' = Owing(q)
  BY DEF Over, Owing
<1> QED BY <1>1, <1>2, <1>3 DEF NoticesAlike

LEMMA RepeatsRequeue ==
  ASSUME TypeOK, TypeOK', RepeatInv, NEW S \in SUBSET Delivering, RequeueStale(S)
  PROVE  RepeatInv'
<1>1. ASSUME NEW q \in Rows \ S PROVE CopiesAlike(q) /\ NoticesAlike(q)
  <2>1. status'[q] = status[q] /\ revived'[q] = revived[q] BY DEF RequeueStale
  <2> QED BY <2>1, CopiesUntouched, NoticesUntouched DEF RequeueStale
<1>2. ASSUME NEW q \in Rows \cap S PROVE CopiesAlike(q) /\ NoticesAlike(q)
  <2>1. revived'[q] = revived[q] + 1 BY <1>2 DEF RequeueStale
  <2> QED BY <2>1, CopiesByStatus, NoticesByStatus DEF RequeueStale
<1> QED BY <1>1, <1>2, RepeatsKept

LEMMA RepeatsRecover ==
  ASSUME TypeOK, TypeOK', RepeatInv, NEW S \in SUBSET Processing, RecoverStaleBounces(S)
  PROVE  RepeatInv'
<1>1. ASSUME NEW q \in Rows PROVE CopiesAlike(q)
  BY CopiesUntouched DEF RecoverStaleBounces
<1>2. ASSUME NEW q \in Rows \ S PROVE NoticesAlike(q)
  <2>1. bounce'[q] = bounce[q] /\ reclaimed'[q] = reclaimed[q] BY DEF RecoverStaleBounces
  <2> QED BY <2>1, NoticesUntouched DEF RecoverStaleBounces
<1>3. ASSUME NEW q \in Rows \cap S PROVE NoticesAlike(q)
  <2>1. reclaimed'[q] = reclaimed[q] + 1 /\ reclaimed[q] \in Nat /\ revived[q] \in Nat
    BY <1>3 DEF RecoverStaleBounces, TypeOK
  <2>2. Unsent(q)' = Unsent(q) BY DEF Unsent, RecoverStaleBounces
  <2>3. Over(q)' = Over(q) /\ Over(q) \in Nat BY DEF Over, RecoverStaleBounces
  <2>4. Owing(q) \in {0, 1} /\ Owing(q)' \in {0, 1} BY DEF Owing
  <2>5. notified' = notified /\ revived' = revived /\ misfiled' = misfiled
    BY DEF RecoverStaleBounces
  <2> QED BY <2>1, <2>2, <2>3, <2>4, <2>5 DEF NoticesAlike
<1> QED BY <1>1, <1>2, <1>3, RepeatsKept

LEMMA RepeatsClaim ==
  ASSUME TypeOK, TypeOK', RepeatInv, NEW p \in Procs, ClaimDue(p) PROVE RepeatInv'
<1>1. CASE DbError BY <1>1, RepeatsDbError
<1>2. ASSUME NEW S \in Claimable(DueRows),
             status' = [q \in Rows |-> IF q \in S THEN "delivering" ELSE status[q]],
             job' = [job EXCEPT ![p] = [q \in Rows |->
               IF q \in S
               THEN [token |-> NextToken(q), stage |-> "claimed", outcome |-> "deferred"]
               ELSE @[q]]],
             UNCHANGED <<bounce, dsnJob, worldVars>>
      PROVE RepeatInv'
  <2> USE DEF worldVars
  <2>1. ASSUME NEW q \in Rows \ S PROVE CopiesPaid(q)' /\ NoticesPaid(q)'
    <3>1. status'[q] = status[q] /\ \A r \in Procs : job'[r][q] = job[r][q]
      BY <1>2 DEF TypeOK
    <3> QED
      BY <1>2, <3>1, CopiesUntouched, NoticesUntouched, CopiesKept, NoticesKept DEF RepeatInv
  <2>2. ASSUME NEW q \in Rows \cap S PROVE CopiesPaid(q)' /\ NoticesPaid(q)'
    <3>1. status[q] \in Waiting /\ status'[q] = "delivering"
      BY <1>2, <2>2, ClaimableRows DEF DueRows, Claimable
    <3>2. Chance(q) = 0 /\ Chance(q)' = 1 /\ Over(q) = 0 /\ Over(q)' = 0
      BY <3>1 DEF Chance, Over, Waiting
    <3>3. \A r \in Procs \ {p} : job'[r][q] = job[r][q] BY <1>2 DEF TypeOK
    <3>4. Unused(q)' \subseteq Unused(q) \cup {p} BY <3>3 DEF Unused
    <3>5. /\ accepted' = accepted /\ unheard' = unheard
          /\ revived' = revived /\ revived[q] \in Nat
      BY <1>2 DEF TypeOK
    <3>6. revived[q] + Chance(q) + 1 <= revived'[q] + Chance(q)' BY <3>2, <3>5
    <3>7. CopiesPaid(q)' BY <3>4, <3>5, <3>6, CopyPromised DEF RepeatInv
    <3>8. NoticesAlike(q) BY <1>2, <3>2, NoticesByStatus
    <3> QED BY <3>7, <3>8, NoticesKept DEF RepeatInv
  <2> QED BY <2>1, <2>2 DEF RepeatInv
<1> QED BY <1>1, <1>2 DEF ClaimDue

(* A step of one process with one row; its claims of the others stay. *)
LEMMA RepeatsAttempt ==
  ASSUME TypeOK, TypeOK', RepeatInv, NEW p \in Procs, NEW q \in Rows, NEW o \in Outcome,
         Attempt(p, q, o)
  PROVE  RepeatInv'
<1>1. /\ job[p][q].stage = "claimed"
      /\ job'[p][q].stage = "tried" /\ job'[p][q].outcome = o
      /\ accepted' = [accepted EXCEPT ![q] = IF o = "accepted" THEN @ + 1 ELSE @]
      /\ UNCHANGED <<status, bounce, dsnJob, unheard, notified, misfiled, revived, reclaimed>>
      /\ \A r \in Procs, t \in Rows : ~(r = p /\ t = q) => job'[r][t] = job[r][t]
  BY DEF TypeOK, Attempt, rowVars
<1>2. ASSUME NEW t \in Rows PROVE NoticesPaid(t)'
  BY <1>1, NoticesUntouched, NoticesKept DEF RepeatInv
<1>3. ASSUME NEW t \in Rows \ {q} PROVE CopiesPaid(t)'
  <2>1. accepted'[t] = accepted[t] BY <1>1 DEF TypeOK
  <2> QED BY <1>1, <2>1, CopiesUntouched, CopiesKept DEF RepeatInv
<1>4. CopiesPaid(q)'
  <2>1. accepted[q] \in Nat /\ revived[q] \in Nat /\ Chance(q) \in Nat BY DEF TypeOK, Chance
  <2>2. Chance(q)' = Chance(q) BY <1>1 DEF Chance
  <2>3. p \in Unused(q) BY <1>1 DEF Unused
  <2>4. CASE o = "accepted"
    <3>1. Unused(q)' \subseteq Unused(q) \ {p} BY <1>1, <2>4 DEF Unused
    <3>2. accepted'[q] = accepted[q] + 1 BY <1>1, <2>4 DEF TypeOK
    <3>3. accepted'[q] + revived[q] + Chance(q) <= accepted[q] + 1 + revived'[q] + Chance(q)'
      BY <1>1, <2>1, <2>2, <3>2
    <3> QED BY <1>1, <2>3, <3>1, <3>3, CopyUsed DEF RepeatInv
  <2>5. CASE o # "accepted"
    <3>1. Unused(q)' \subseteq Unused(q) BY <1>1, <2>5 DEF Unused
    <3>2. accepted'[q] = accepted[q] BY <1>1, <2>5 DEF TypeOK
    <3>3. CopiesAlike(q) BY <1>1, <2>1, <2>2, <3>1, <3>2 DEF CopiesAlike
    <3> QED BY <3>3, CopiesKept DEF RepeatInv
  <2> QED BY <2>4, <2>5
<1> QED BY <1>2, <1>3, <1>4 DEF RepeatInv

LEMMA RepeatsLoseAnswer ==
  ASSUME TypeOK, TypeOK', RepeatInv, NEW p \in Procs, NEW q \in Rows, LoseAnswer(p, q)
  PROVE  RepeatInv'
<1>1. /\ accepted' = [accepted EXCEPT ![q] = @ + 1]
      /\ unheard' = [unheard EXCEPT ![q] = @ + 1]
      /\ UNCHANGED <<status, bounce, job, dsnJob, notified, misfiled, revived, reclaimed>>
  BY DEF LoseAnswer, rowVars, workVars
<1>2. ASSUME NEW t \in Rows PROVE NoticesPaid(t)'
  BY <1>1, NoticesUntouched, NoticesKept DEF RepeatInv
<1>3. ASSUME NEW t \in Rows \ {q} PROVE CopiesPaid(t)'
  <2>1. accepted'[t] = accepted[t] /\ unheard'[t] = unheard[t] BY <1>1 DEF TypeOK
  <2> QED BY <1>1, <2>1, CopiesUntouched, CopiesKept DEF RepeatInv
<1>4. CopiesPaid(q)'
  <2>1. accepted'[q] = accepted[q] + 1 /\ unheard'[q] = unheard[q] + 1 BY <1>1 DEF TypeOK
  <2>2. Unused(q)' = Unused(q) /\ Chance(q)' = Chance(q) /\ revived' = revived
    BY <1>1 DEF Unused, Chance
  <2>3. /\ accepted[q] \in Nat /\ unheard[q] \in Nat /\ revived[q] \in Nat /\ Chance(q) \in Nat
    BY DEF TypeOK, Chance
  <2>4. CopiesPaid(q) BY DEF RepeatInv
  <2>5. Cardinality(Unused(q)) \in Nat BY <2>4, FS_CardinalityType DEF CopiesPaid
  <2> QED BY <2>1, <2>2, <2>3, <2>4, <2>5 DEF CopiesPaid
<1> QED BY <1>2, <1>3, <1>4 DEF RepeatInv

LEMMA RepeatsRecord ==
  ASSUME TypeOK, TypeOK', RepeatInv, NEW p \in Procs, NEW q \in Rows, RecordAttempt(p, q)
  PROVE  RepeatInv'
<1>1. /\ job[p][q].stage = "tried"
      /\ job'[p][q].stage = "logged" /\ job'[p][q].outcome = job[p][q].outcome
      /\ UNCHANGED <<status, bounce, dsnJob, accepted, unheard, notified, misfiled, revived, reclaimed>>
      /\ \A r \in Procs, t \in Rows : ~(r = p /\ t = q) => job'[r][t] = job[r][t]
  BY DEF TypeOK, RecordAttempt, rowVars, worldVars
<1>2. ASSUME NEW t \in Rows PROVE CopiesAlike(t) /\ NoticesAlike(t)
  <2>1. Unused(t)' \subseteq Unused(t) BY <1>1 DEF Unused
  <2>2. revived[t] \in Nat /\ Chance(t)' = Chance(t) /\ Chance(t) \in Nat
    BY <1>1 DEF TypeOK, Chance
  <2> QED BY <1>1, <2>1, <2>2, NoticesUntouched DEF CopiesAlike
<1> QED BY <1>2, RepeatsKept

LEMMA RepeatsFinish ==
  ASSUME TypeOK, TypeOK', RepeatInv, NEW p \in Procs, NEW q \in Rows, FinishClaim(p, q)
  PROVE  RepeatInv'
<1> DEFINE j == job[p][q]
<1>1. /\ j.stage = "logged" /\ job'[p][q].stage = "idle"
      /\ UNCHANGED <<dsnJob, accepted, unheard, notified, misfiled, revived, reclaimed>>
      /\ \A r \in Procs, t \in Rows : ~(r = p /\ t = q) => job'[r][t] = job[r][t]
  BY DEF TypeOK, FinishClaim, Idle
<1>2. \A t \in Rows : Unused(t)' \subseteq Unused(t) BY <1>1 DEF Unused
<1>3. \A t \in Rows : Unsent(t)' = Unsent(t) BY <1>1 DEF Unsent
<1>4. \A t \in Rows : /\ revived[t] \in Nat /\ reclaimed[t] \in Nat /\ accepted[t] \in Nat
                      /\ Chance(t) \in {0, 1} /\ Chance(t)' \in {0, 1}
                      /\ Over(t) \in {0, 1} /\ Over(t)' \in {0, 1}
                      /\ Owing(t) \in {0, 1} /\ Owing(t)' \in {0, 1}
  BY DEF TypeOK, Chance, Over, Owing
<1>5. CASE UNCHANGED <<status, bounce>>
  <2>1. ASSUME NEW t \in Rows PROVE CopiesAlike(t) /\ NoticesAlike(t)
    <3>1. Chance(t)' = Chance(t) BY <1>5 DEF Chance
    <3> QED BY <1>1, <1>2, <1>4, <1>5, <3>1, NoticesUntouched DEF CopiesAlike
  <2> QED BY <2>1, RepeatsKept
<1>6. CASE /\ ClaimIsCurrent(q, j.token)
           /\ status' = [status EXCEPT ![q] = Verdict(j)]
           /\ bounce' = [bounce EXCEPT ![q] =
                  IF Verdict(j) = "failed"
                  THEN IF q \in BounceRows THEN "pending" ELSE "skipped"
                  ELSE @]
  <2>1. ASSUME NEW t \in Rows \ {q} PROVE CopiesPaid(t)' /\ NoticesPaid(t)'
    <3>1. status'[t] = status[t] /\ bounce'[t] = bounce[t] BY <1>6 DEF TypeOK
    <3>2. \A r \in Procs : job'[r][t] = job[r][t] BY <1>1
    <3> QED
      BY <1>1, <3>1, <3>2, CopiesUntouched, NoticesUntouched, CopiesKept, NoticesKept
      DEF RepeatInv
  <2>2. /\ status[q] = "delivering" /\ status'[q] = Verdict(j)
        /\ Verdict(j) \in {"delivered", "retry", "failed"}
    BY <1>6, VerdictType DEF TypeOK, ClaimIsCurrent
  <2>3. CopiesPaid(q)'
    <3>1. CASE Verdict(j) = "delivered"
      <4>1. Chance(q)' = 1 BY <2>2, <3>1 DEF Chance
      <4>2. CopiesAlike(q) BY <1>1, <1>2, <1>4, <4>1 DEF CopiesAlike
      <4> QED BY <4>2, CopiesKept DEF RepeatInv
    <3>2. CASE Verdict(j) # "delivered"
      <4>1. j.outcome # "accepted" BY <3>2 DEF Verdict
      <4>2. p \in Unused(q) /\ Unused(q)' \subseteq Unused(q) \ {p}
        BY <1>1, <1>2, <4>1 DEF Unused
      <4>3. accepted'[q] + revived[q] + Chance(q) <= accepted[q] + 1 + revived'[q] + Chance(q)'
        BY <1>1, <1>4
      <4> QED BY <1>1, <4>2, <4>3, CopyUsed DEF RepeatInv
    <3> QED BY <3>1, <3>2
  <2>4. NoticesAlike(q)
    <3>1. Over(q) = 0 BY <2>2 DEF Over
    <3>2. CASE Verdict(j) = "failed"
      <4>1. Over(q)' = 1 BY <2>2, <3>2 DEF Over
      <4>2. bounce'[q] \in {"pending", "skipped"} BY <1>6, <3>2 DEF TypeOK
      <4> QED BY <1>1, <1>3, <1>4, <3>1, <4>1, <4>2 DEF NoticesAlike
    <3>3. CASE Verdict(j) # "failed"
      <4>1. Over(q)' = 0 BY <2>2, <3>3 DEF Over
      <4>2. Owing(q)' = Owing(q) BY <1>6, <3>3 DEF TypeOK, Owing
      <4> QED BY <1>1, <1>3, <1>4, <3>1, <4>1, <4>2 DEF NoticesAlike
    <3> QED BY <3>2, <3>3
  <2> QED BY <2>1, <2>3, <2>4, NoticesKept DEF RepeatInv
<1> QED BY <1>5, <1>6 DEF FinishClaim

LEMMA RepeatsClaimBounces ==
  ASSUME TypeOK, TypeOK', RepeatInv, NEW p \in Procs, ClaimDueBounces(p) PROVE RepeatInv'
<1>1. CASE DbError BY <1>1, RepeatsDbError
<1>2. ASSUME NEW S \in Claimable(DueBounces),
             bounce' = [q \in Rows |-> IF q \in S THEN "processing" ELSE bounce[q]],
             dsnJob' = [dsnJob EXCEPT ![p] = [q \in Rows |->
               IF q \in S THEN [token |-> bounceAttempts[q] + 1, stage |-> "claimed"]
                          ELSE @[q]]],
             UNCHANGED <<status, job, accepted, unheard, notified, misfiled, revived, reclaimed>>
      PROVE RepeatInv'
  <2>1. ASSUME NEW q \in Rows PROVE CopiesPaid(q)'
    BY <1>2, CopiesUntouched, CopiesKept DEF RepeatInv
  <2>2. ASSUME NEW q \in Rows \ S PROVE NoticesPaid(q)'
    <3>1. bounce'[q] = bounce[q] /\ \A r \in Procs : dsnJob'[r][q] = dsnJob[r][q]
      BY <1>2 DEF TypeOK
    <3> QED BY <1>2, <3>1, NoticesUntouched, NoticesKept DEF RepeatInv
  <2>3. ASSUME NEW q \in Rows \cap S PROVE NoticesPaid(q)'
    <3>1. bounce[q] = "pending" /\ bounce'[q] = "processing"
      BY <1>2, <2>3, ClaimableRows DEF DueBounces, Claimable
    <3>2. Owing(q) = 1 /\ Owing(q)' = 0 BY <3>1 DEF Owing
    <3>3. \A r \in Procs \ {p} : dsnJob'[r][q] = dsnJob[r][q] BY <1>2 DEF TypeOK
    <3>4. Unsent(q)' \subseteq Unsent(q) \cup {p} BY <3>3 DEF Unsent
    <3> QED BY <1>2, <3>2, <3>4, NoticePromised DEF RepeatInv
  <2> QED BY <2>1, <2>2, <2>3 DEF RepeatInv
<1> QED BY <1>1, <1>2 DEF ClaimDueBounces, worldVars

LEMMA RepeatsDeliverBounce ==
  ASSUME TypeOK, TypeOK', RepeatInv, NEW p \in Procs, NEW q \in Rows, DeliverBounce(p, q)
  PROVE  RepeatInv'
<1>1. PICK s \in {"sent", "refused"}, n \in {0, 1} :
        /\ dsnJob' = [dsnJob EXCEPT ![p][q] = [token |-> @.token, stage |-> s]]
        /\ s = "sent" => /\ notified' = [notified EXCEPT ![q] = @ + 1]
                         /\ misfiled' = misfiled
        /\ s = "refused" => /\ notified' = [notified EXCEPT ![q] = @ + n]
                            /\ misfiled' = [misfiled EXCEPT ![q] = @ + n]
  BY DEF DeliverBounce
<1>2. /\ dsnJob[p][q].stage = "claimed" /\ dsnJob'[p][q].stage = s
      /\ UNCHANGED <<status, bounce, job, accepted, unheard, revived, reclaimed>>
      /\ \A r \in Procs, t \in Rows : ~(r = p /\ t = q) => dsnJob'[r][t] = dsnJob[r][t]
  BY <1>1 DEF TypeOK, DeliverBounce, rowVars
<1>3. ASSUME NEW t \in Rows PROVE CopiesPaid(t)'
  BY <1>2, CopiesUntouched, CopiesKept DEF RepeatInv
<1>4. ASSUME NEW t \in Rows \ {q} PROVE NoticesPaid(t)'
  <2>1. notified'[t] = notified[t] /\ misfiled'[t] = misfiled[t] BY <1>1 DEF TypeOK
  <2> QED BY <1>2, <2>1, NoticesUntouched, NoticesKept DEF RepeatInv
<1>5. NoticesPaid(q)'
  <2>1. notified[q] \in Nat /\ Owing(q) \in Nat /\ Owing(q)' = Owing(q)
    BY <1>2 DEF TypeOK, Owing
  <2>2. p \in Unsent(q) BY <1>2 DEF Unsent
  <2>3. CASE s = "sent"
    <3>1. Unsent(q)' \subseteq Unsent(q) \ {p} BY <1>2, <2>3 DEF Unsent
    <3>2. notified'[q] = notified[q] + 1 /\ misfiled' = misfiled BY <1>1, <2>3 DEF TypeOK
    <3>3. notified'[q] + Owing(q)' <= notified[q] + Owing(q) + 1 BY <2>1, <3>2
    <3> QED BY <1>2, <2>2, <3>1, <3>2, <3>3, NoticeUsed DEF RepeatInv
  <2>4. CASE s = "refused"
    <3>1. Unsent(q)' = Unsent(q) BY <1>2, <2>4 DEF Unsent
    <3>2. notified'[q] = notified[q] + n /\ misfiled'[q] = misfiled[q] + n
      BY <1>1, <2>4 DEF TypeOK
    <3>3. /\ revived[q] \in Nat /\ reclaimed[q] \in Nat /\ misfiled[q] \in Nat /\ n \in Nat
          /\ Over(q)' = Over(q) /\ Over(q) \in Nat
          /\ revived' = revived /\ reclaimed' = reclaimed
      BY <1>2 DEF TypeOK, Over
    <3>4. NoticesPaid(q) BY DEF RepeatInv
    <3>5. Cardinality(Unsent(q)) \in Nat BY <3>4, FS_CardinalityType DEF NoticesPaid
    <3> QED BY <2>1, <3>1, <3>2, <3>3, <3>4, <3>5 DEF NoticesPaid
  <2> QED BY <2>3, <2>4
<1> QED BY <1>3, <1>4, <1>5 DEF RepeatInv

LEMMA RepeatsFinishBounce ==
  ASSUME TypeOK, TypeOK', RepeatInv, NEW p \in Procs, NEW q \in Rows, FinishBounce(p, q)
  PROVE  RepeatInv'
<1> DEFINE j == dsnJob[p][q]
<1>1. /\ j.stage \in {"sent", "refused"} /\ dsnJob'[p][q].stage = "idle"
      /\ UNCHANGED <<status, job, accepted, unheard, notified, misfiled, revived, reclaimed>>
      /\ \A r \in Procs, t \in Rows : ~(r = p /\ t = q) => dsnJob'[r][t] = dsnJob[r][t]
  BY DEF TypeOK, FinishBounce, NoDsn, worldVars
<1>2. bounce' = bounce \/ bounce' = [bounce EXCEPT ![q] = DsnVerdict(j.stage)]
  BY DEF FinishBounce
<1>3. ASSUME NEW t \in Rows PROVE CopiesPaid(t)'
  BY <1>1, CopiesUntouched, CopiesKept DEF RepeatInv
<1>4. ASSUME NEW t \in Rows \ {q} PROVE NoticesPaid(t)'
  <2>1. bounce'[t] = bounce[t] BY <1>2 DEF TypeOK
  <2> QED BY <1>1, <2>1, NoticesUntouched, NoticesKept DEF RepeatInv
<1>5. NoticesPaid(q)'
  <2>1. /\ notified[q] \in Nat /\ revived[q] \in Nat /\ reclaimed[q] \in Nat
        /\ Over(q)' = Over(q) /\ Over(q) \in Nat
        /\ Owing(q) \in {0, 1} /\ Owing(q)' \in {0, 1}
    BY <1>1 DEF TypeOK, Over, Owing
  <2>2. CASE j.stage = "refused"
    <3>1. p \in Unsent(q) /\ Unsent(q)' \subseteq Unsent(q) \ {p} BY <1>1, <2>2 DEF Unsent
    <3>2. notified'[q] + Owing(q)' <= notified[q] + Owing(q) + 1 BY <1>1, <2>1
    <3> QED BY <1>1, <3>1, <3>2, NoticeUsed DEF RepeatInv
  <2>3. CASE j.stage = "sent"
    <3>1. Unsent(q)' \subseteq Unsent(q) BY <1>1 DEF Unsent
    <3>2. bounce'[q] = bounce[q] \/ bounce'[q] = "sent" BY <1>2, <2>3 DEF TypeOK, DsnVerdict
    <3>3. Owing(q)' <= Owing(q) BY <3>2 DEF Owing
    <3>4. NoticesAlike(q) BY <1>1, <2>1, <3>1, <3>3 DEF NoticesAlike
    <3> QED BY <3>4, NoticesKept DEF RepeatInv
  <2> QED BY <1>1, <2>2, <2>3
<1> QED BY <1>3, <1>4, <1>5 DEF RepeatInv

LEMMA RepeatsHold == Spec => []RepeatInv
<1>1. Init => RepeatInv
  <2> SUFFICES ASSUME Init, NEW q \in Rows PROVE CopiesPaid(q) /\ NoticesPaid(q) BY DEF RepeatInv
  <2>1. Unused(q) = {} /\ Unsent(q) = {} BY DEF Init, Unused, Unsent, Idle, NoDsn
  <2>2. IsFiniteSet({}) /\ Cardinality({}) = 0 BY FS_EmptySet
  <2>3. /\ accepted[q] = 0 /\ notified[q] = 0 /\ revived[q] = 0 /\ reclaimed[q] = 0
        /\ unheard[q] = 0 /\ misfiled[q] = 0
        /\ Chance(q) = 0 /\ Owing(q) = 0 /\ Over(q) = 0
    BY DEF Init, Chance, Owing, Over
  <2> QED BY <2>1, <2>2, <2>3 DEF CopiesPaid, NoticesPaid
<1>2. ASSUME TypeOK, TypeOK', RepeatInv, [Next]_vars PROVE RepeatInv'
  <2>1. ASSUME NEW m \in Messages, Enqueue(m) PROVE RepeatInv'
    <3>1. ASSUME NEW q \in Rows PROVE CopiesAlike(q) /\ NoticesAlike(q)
      <4>1. status'[q] = status[q] \/ status[q] = "none"
        BY <2>1 DEF Enqueue
      <4>2. Chance(q) <= Chance(q)' /\ Over(q) <= Over(q)' BY <4>1 DEF Chance, Over
      <4> QED BY <1>2, <2>1, <4>2, CopiesByStatus, NoticesByStatus DEF Enqueue, workVars, worldVars
    <3> QED BY <1>2, <3>1, RepeatsKept
  <2>2. ASSUME NEW m \in Messages, DeleteMessage(m) PROVE RepeatInv'
    <3>1. ASSUME NEW q \in Rows PROVE CopiesAlike(q) /\ NoticesAlike(q)
      <4>1. status'[q] = status[q] \/ status'[q] = "gone" BY <2>2 DEF DeleteMessage
      <4>2. Chance(q) <= Chance(q)' /\ Over(q) <= Over(q)' BY <4>1 DEF Chance, Over
      <4> QED
        BY <1>2, <2>2, <4>2, CopiesByStatus, NoticesByStatus DEF DeleteMessage, workVars, worldVars
    <3> QED BY <1>2, <3>1, RepeatsKept
  <2>3. ASSUME NEW q \in Rows, TimeStep(q) \/ RetryCheck(q) PROVE RepeatInv'
    BY <1>2, <2>3, RepeatsIdle DEF TimeStep, RetryFallsDue, BounceFallsDue, ClaimTurnsStale,
       BounceClaimTurnsStale, RetryCheck, rowVars, workVars, worldVars
  <2>4. ASSUME NEW q \in Rows, MarkRetry(q) PROVE RepeatInv'
    <3>1. ASSUME NEW t \in Rows PROVE CopiesAlike(t) /\ NoticesAlike(t)
      <4>1. CASE status[q] = "gone" \/ t # q
        <5>1. status'[t] = status[t] /\ revived'[t] = revived[t]
          BY <1>2, <2>4, <4>1 DEF TypeOK, MarkRetry
        <5> QED
          BY <1>2, <2>4, <5>1, CopiesUntouched, NoticesUntouched DEF MarkRetry, workVars
      <4>2. CASE status[q] # "gone" /\ t = q
        <5>1. revived'[t] = revived[t] + 1 BY <1>2, <2>4, <4>2 DEF TypeOK, MarkRetry
        <5> QED BY <1>2, <2>4, <5>1, CopiesByStatus, NoticesByStatus DEF MarkRetry, workVars
      <4> QED BY <4>1, <4>2
    <3> QED BY <1>2, <3>1, RepeatsKept
  <2>5. ASSUME NEW q \in Rows, Cancel(q) PROVE RepeatInv'
    <3>1. ASSUME NEW t \in Rows PROVE CopiesAlike(t) /\ NoticesAlike(t)
      <4>1. status'[t] = status[t] \/ status[t] \in Waiting
        BY <1>2, <2>5 DEF TypeOK, Cancel, Cancellable
      <4>2. Chance(t) <= Chance(t)' /\ Over(t) <= Over(t)' BY <4>1 DEF Chance, Over, Waiting
      <4> QED BY <1>2, <2>5, <4>2, CopiesByStatus, NoticesByStatus DEF Cancel, workVars
    <3> QED BY <1>2, <3>1, RepeatsKept
  <2>6. ASSUME NEW p \in Procs, Start(p) PROVE RepeatInv'
    BY <1>2, <2>6, RepeatsIdle DEF Start, rowVars, worldVars
  <2>7. ASSUME NEW p \in Procs, Stop(p) PROVE RepeatInv'
    <3>1. ASSUME NEW q \in Rows PROVE CopiesAlike(q) /\ NoticesAlike(q)
      <4>1. Unused(q)' \subseteq Unused(q) BY <1>2, <2>7 DEF TypeOK, Stop, Unused, Idle
      <4>2. Unsent(q)' \subseteq Unsent(q) BY <1>2, <2>7 DEF TypeOK, Stop, Unsent, NoDsn
      <4>3. UNCHANGED <<status, bounce, accepted, unheard, notified, misfiled, revived, reclaimed>>
        BY <2>7 DEF Stop, rowVars, worldVars
      <4>4. /\ revived[q] \in Nat /\ reclaimed[q] \in Nat
            /\ Chance(q)' = Chance(q) /\ Chance(q) \in Nat
            /\ Over(q)' = Over(q) /\ Over(q) \in Nat
            /\ Owing(q)' = Owing(q) /\ Owing(q) \in Nat
        BY <1>2, <4>3 DEF TypeOK, Chance, Over, Owing
      <4> QED BY <4>1, <4>2, <4>3, <4>4 DEF CopiesAlike, NoticesAlike
    <3> QED BY <1>2, <3>1, RepeatsKept
  <2>8. ASSUME NEW p \in Procs, WorkerStep(p) PROVE RepeatInv'
    <3>1. CASE RecoverOnStart(p) \/ RecoverDayOld(p)
      BY <1>2, <3>1, RepeatsRequeue, RepeatsDbError DEF RecoverOnStart, RecoverDayOld
    <3>2. CASE RecoverBouncesOnStart(p) \/ RecoverDayOldBounces(p)
      BY <1>2, <3>2, RepeatsRecover, RepeatsDbError
      DEF RecoverBouncesOnStart, RecoverDayOldBounces
    <3>3. CASE ClaimDue(p) BY <1>2, <3>3, RepeatsClaim
    <3>4. CASE BatchDone(p) \/ DsnDone(p)
      BY <1>2, <3>4, RepeatsIdle DEF BatchDone, DsnDone, rowVars, worldVars
    <3>5. ASSUME NEW q \in Rows, NEW o \in Outcome, Attempt(p, q, o) PROVE RepeatInv'
      BY <1>2, <3>5, RepeatsAttempt
    <3>6. ASSUME NEW q \in Rows, RecordAttempt(p, q) PROVE RepeatInv' BY <1>2, <3>6, RepeatsRecord
    <3>7. ASSUME NEW q \in Rows, FinishClaim(p, q) PROVE RepeatInv' BY <1>2, <3>7, RepeatsFinish
    <3>8. CASE ClaimDueBounces(p) BY <1>2, <3>8, RepeatsClaimBounces
    <3>9. ASSUME NEW q \in Rows, DeliverBounce(p, q) PROVE RepeatInv'
      BY <1>2, <3>9, RepeatsDeliverBounce
    <3>10. ASSUME NEW q \in Rows, FinishBounce(p, q) PROVE RepeatInv'
      BY <1>2, <3>10, RepeatsFinishBounce
    <3>11. ASSUME NEW q \in Rows, LoseAnswer(p, q) PROVE RepeatInv'
      BY <1>2, <3>11, RepeatsLoseAnswer
    <3> QED
      BY <2>8, <3>1, <3>2, <3>3, <3>4, <3>5, <3>6, <3>7, <3>8, <3>9, <3>10, <3>11 DEF WorkerStep
  <2>9. CASE UNCHANGED vars BY <1>2, <2>9, RepeatsIdle DEF vars
  <2> QED BY <1>2, <2>1, <2>2, <2>3, <2>4, <2>5, <2>6, <2>7, <2>8, <2>9 DEF Next
<1> QED BY <1>1, <1>2, TypeCorrect, PTL DEF Spec

(* Neither the recipient nor the sender is bothered more often than what    *)
(* went wrong explains: each gets one message, and one more for every time   *)
(* the row or its DSN was put back, every answer of a remote that was lost    *)
(* and every DSN filed by a delivery that returned an error. claim_due,       *)
(* attempt, finish_claim and the DSN task, for any number of workers.         *)
THEOREM RepeatsAreBounded == Spec => []RepeatsBounded
<1>1. TypeOK /\ RepeatInv => RepeatsBounded
  <2> SUFFICES ASSUME TypeOK, RepeatInv, NEW q \in Rows
               PROVE /\ accepted[q] <= revived[q] + unheard[q] + Chance(q)
                     /\ notified[q] <= 1 + reclaimed[q] + revived[q] + misfiled[q]
    BY DEF RepeatsBounded, DuplicatesBounded, NoticesBounded, Chance
  <2>1. /\ Cardinality(Unused(q)) \in Nat /\ Cardinality(Unsent(q)) \in Nat
    BY FS_CardinalityType DEF RepeatInv, CopiesPaid, NoticesPaid
  <2>2. /\ accepted[q] \in Nat /\ notified[q] \in Nat /\ revived[q] \in Nat /\ reclaimed[q] \in Nat
        /\ unheard[q] \in Nat /\ misfiled[q] \in Nat
        /\ Chance(q) \in {0, 1} /\ Owing(q) \in {0, 1} /\ Over(q) \in {0, 1}
    BY DEF TypeOK, Chance, Owing, Over
  <2> QED BY <2>1, <2>2 DEF RepeatInv, CopiesPaid, NoticesPaid
<1> QED BY <1>1, TypeCorrect, RepeatsHold, PTL
-----------------------------------------------------------------------------
(* KeepsPromise: the queue implements MailPromise while no administrator    *)
(* asks for a retry, which would take a final verdict back. What the steps   *)
(* need beside AnswerInv: a claim in hand is of a row that was inserted, and *)
(* a DSN claim of one that has failed and that a DSN is owed for.            *)
PromiseInv ==
  /\ retrying = {}
  /\ \A p \in Procs, q \in Rows :
       /\ job[p][q].stage # "idle" => status[q] # "none"
       /\ dsnJob[p][q].stage = "claimed" => q \in BounceRows /\ status[q] \in {"failed", "gone"}
  /\ \A q \in Rows : bounce[q] \in {"pending", "processing"} => q \in BounceRows

(* Steps that make no claim, create no DSN task and revive no row. *)
LEMMA PromiseInvKept ==
  ASSUME PromiseInv, retrying' = retrying,
         \A p \in Procs, q \in Rows : job'[p][q].stage # "idle" => job[p][q].stage # "idle",
         \A p \in Procs, q \in Rows : dsnJob'[p][q].stage = "claimed" => dsnJob[p][q].stage = "claimed",
         \A q \in Rows : \/ status'[q] = status[q]
                         \/ status'[q] # "none" /\ status[q] \notin {"failed", "gone"}
                         \/ status'[q] = "gone",
         \A q \in Rows : bounce'[q] \in {"pending", "processing"} =>
                           bounce[q] \in {"pending", "processing"} \/ q \in BounceRows
  PROVE  PromiseInv'
BY DEF PromiseInv

LEMMA PromiseInvIdle ==
  ASSUME PromiseInv, UNCHANGED <<status, bounce, job, dsnJob, retrying>> PROVE PromiseInv'
BY DEF PromiseInv

LEMMA PromiseInvHolds == ASSUME MaxAdminRetries = 0 PROVE Spec => []PromiseInv
<1>0. MaxAdminRetries = 0 OBVIOUS
<1>1. Init => PromiseInv BY DEF Init, PromiseInv, Idle, NoDsn
<1>2. ASSUME TypeOK, PromiseInv, [Next]_vars PROVE PromiseInv'
  <2>1. ASSUME NEW m \in Messages, Enqueue(m) PROVE PromiseInv'
    <3>1. \A q \in Rows : \/ status'[q] = status[q]
                          \/ status'[q] # "none" /\ status[q] \notin {"failed", "gone"}
      BY <2>1 DEF Enqueue
    <3> QED BY <1>2, <2>1, <3>1, PromiseInvKept DEF Enqueue, workVars
  <2>2. ASSUME NEW m \in Messages, DeleteMessage(m) PROVE PromiseInv'
    <3>1. \A q \in Rows : status'[q] = status[q] \/ status'[q] = "gone" BY <2>2 DEF DeleteMessage
    <3> QED BY <1>2, <2>2, <3>1, PromiseInvKept DEF DeleteMessage, workVars
  <2>3. ASSUME NEW q \in Rows, TimeStep(q) PROVE PromiseInv'
    BY <1>2, <2>3, PromiseInvIdle DEF TimeStep, RetryFallsDue, BounceFallsDue, ClaimTurnsStale,
       BounceClaimTurnsStale, rowVars, workVars
  <2>4. ASSUME NEW q \in Rows, RetryCheck(q) \/ MarkRetry(q) PROVE PromiseInv'
    <3>1. faults["retries"] \in Nat BY <1>2 DEF TypeOK, Fault
    <3>2. Limit["retries"] = 0 BY <1>0 DEF Limit
    <3>4. ~RetryCheck(q) BY <3>1, <3>2 DEF RetryCheck, Occurs
    <3>3. ~MarkRetry(q) BY <1>2 DEF MarkRetry, PromiseInv
    <3> QED BY <2>4, <3>3, <3>4
  <2>5. ASSUME NEW q \in Rows, Cancel(q) PROVE PromiseInv'
    <3>1. \A r \in Rows : \/ status'[r] = status[r]
                          \/ status'[r] # "none" /\ status[r] \notin {"failed", "gone"}
      BY <1>2, <2>5 DEF TypeOK, Cancel, Cancellable, Waiting
    <3> QED BY <1>2, <2>5, <3>1, PromiseInvKept DEF Cancel, workVars
  <2>6. ASSUME NEW p \in Procs, Start(p) PROVE PromiseInv'
    BY <1>2, <2>6, PromiseInvIdle DEF Start, rowVars
  <2>7. ASSUME NEW p \in Procs, Stop(p) PROVE PromiseInv'
    <3>1. \A r \in Procs, q \in Rows :
            /\ job'[r][q].stage # "idle" => job[r][q].stage # "idle"
            /\ dsnJob'[r][q].stage = "claimed" => dsnJob[r][q].stage = "claimed"
      BY <1>2, <2>7 DEF TypeOK, Stop, Idle, NoDsn
    <3> QED BY <1>2, <2>7, <3>1, PromiseInvKept DEF Stop, rowVars
  <2>8. ASSUME NEW p \in Procs, WorkerStep(p) PROVE PromiseInv'
    <3>1. CASE DbError BY <1>2, <3>1, PromiseInvIdle DEF DbError
    <3>2. ASSUME NEW S \in SUBSET Delivering, RequeueStale(S) PROVE PromiseInv'
      <4>1. \A q \in Rows : \/ status'[q] = status[q]
                            \/ status'[q] # "none" /\ status[q] \notin {"failed", "gone"}
        BY <3>2 DEF RequeueStale, Delivering
      <4> QED BY <1>2, <3>2, <4>1, PromiseInvKept DEF RequeueStale
    <3>3. ASSUME NEW S \in SUBSET Processing, RecoverStaleBounces(S) PROVE PromiseInv'
      <4>1. \A q \in Rows : bounce'[q] \in {"pending", "processing"} =>
                              bounce[q] \in {"pending", "processing"}
        BY <3>3 DEF RecoverStaleBounces, Processing
      <4> QED BY <1>2, <3>3, <4>1, PromiseInvKept DEF RecoverStaleBounces
    <3>4. ASSUME NEW S \in Claimable(DueRows),
                 status' = [q \in Rows |-> IF q \in S THEN "delivering" ELSE status[q]],
                 job' = [job EXCEPT ![p] = [q \in Rows |->
                   IF q \in S
                   THEN [token |-> NextToken(q), stage |-> "claimed", outcome |-> "deferred"]
                   ELSE @[q]]],
                 UNCHANGED <<bounce, dsnJob, retrying>>
          PROVE PromiseInv'
      <4>1. \A q \in S : status[q] \in Waiting BY ClaimableRows DEF DueRows, Claimable
      <4>2. \A q \in Rows : /\ q \in S => status'[q] = "delivering"
                            /\ q \notin S => status'[q] = status[q]
        BY <3>4
      <4>3. \A r \in Procs, q \in Rows :
              q \notin S => job'[r][q] = job[r][q]
        BY <1>2, <3>4 DEF TypeOK
      <4>4. \A r \in Procs, q \in Rows : job'[r][q].stage # "idle" => status'[q] # "none"
        BY <1>2, <4>2, <4>3 DEF PromiseInv
      <4>5. \A r \in Procs, q \in Rows : dsnJob'[r][q].stage = "claimed" =>
              q \in BounceRows /\ status'[q] \in {"failed", "gone"}
        BY <1>2, <3>4, <4>1, <4>2 DEF PromiseInv, Waiting
      <4> QED BY <1>2, <3>4, <4>4, <4>5 DEF PromiseInv
    <3>5. CASE BatchDone(p) \/ DsnDone(p)
      BY <1>2, <3>5, PromiseInvIdle DEF BatchDone, DsnDone, rowVars
    <3>6. ASSUME NEW q \in Rows, NEW o \in Outcome, Attempt(p, q, o) PROVE PromiseInv'
      <4>1. \A r \in Procs, t \in Rows : job'[r][t].stage # "idle" => job[r][t].stage # "idle"
        BY <1>2, <3>6 DEF TypeOK, Attempt
      <4> QED BY <1>2, <3>6, <4>1, PromiseInvKept DEF Attempt, rowVars
    <3>7. ASSUME NEW q \in Rows, RecordAttempt(p, q) PROVE PromiseInv'
      <4>1. \A r \in Procs, t \in Rows : job'[r][t].stage # "idle" => job[r][t].stage # "idle"
        BY <1>2, <3>7 DEF TypeOK, RecordAttempt
      <4> QED BY <1>2, <3>7, <4>1, PromiseInvKept DEF RecordAttempt, rowVars
    <3>8. ASSUME NEW q \in Rows, FinishClaim(p, q) PROVE PromiseInv'
      <4>1. \A r \in Procs, t \in Rows : job'[r][t].stage # "idle" => job[r][t].stage # "idle"
        BY <1>2, <3>8 DEF TypeOK, FinishClaim, Idle
      <4>2. \A t \in Rows : \/ status'[t] = status[t]
                            \/ status'[t] # "none" /\ status[t] \notin {"failed", "gone"}
        BY <1>2, <3>8, VerdictType DEF TypeOK, FinishClaim, ClaimIsCurrent
      <4>3. \A t \in Rows : bounce'[t] \in {"pending", "processing"} =>
                              bounce[t] \in {"pending", "processing"} \/ t \in BounceRows
        <5>1. \/ bounce' = bounce
              \/ bounce' = [bounce EXCEPT ![q] = bounce[q]]
              \/ bounce' = [bounce EXCEPT ![q] = "skipped"]
              \/ q \in BounceRows /\ bounce' = [bounce EXCEPT ![q] = "pending"]
          BY <3>8 DEF FinishClaim
        <5> QED BY <1>2, <5>1 DEF TypeOK
      <4> QED BY <1>2, <3>8, <4>1, <4>2, <4>3, PromiseInvKept DEF FinishClaim
    <3>9. ASSUME NEW S \in Claimable(DueBounces),
                 bounce' = [q \in Rows |-> IF q \in S THEN "processing" ELSE bounce[q]],
                 dsnJob' = [dsnJob EXCEPT ![p] = [q \in Rows |->
                   IF q \in S THEN [token |-> bounceAttempts[q] + 1, stage |-> "claimed"]
                              ELSE @[q]]],
                 UNCHANGED <<status, job, retrying>>
          PROVE PromiseInv'
      <4>1. \A q \in S : status[q] = "failed" /\ bounce[q] = "pending"
        BY ClaimableRows DEF DueBounces, Claimable
      <4>2. \A r \in Procs, q \in Rows : q \notin S => dsnJob'[r][q] = dsnJob[r][q]
        BY <1>2, <3>9 DEF TypeOK
      <4>3. \A q \in Rows : bounce'[q] \in {"pending", "processing"} => q \in BounceRows
        BY <1>2, <3>9, <4>1 DEF PromiseInv
      <4>4. \A r \in Procs, q \in Rows : dsnJob'[r][q].stage = "claimed" =>
              q \in BounceRows /\ status'[q] \in {"failed", "gone"}
        BY <1>2, <3>9, <4>1, <4>2 DEF PromiseInv
      <4> QED BY <1>2, <3>9, <4>3, <4>4 DEF PromiseInv
    <3>10. ASSUME NEW q \in Rows, DeliverBounce(p, q) PROVE PromiseInv'
      <4>1. PICK s \in {"sent", "refused"} :
              dsnJob' = [dsnJob EXCEPT ![p][q] = [token |-> @.token, stage |-> s]]
        BY <3>10 DEF DeliverBounce
      <4>2. \A r \in Procs, t \in Rows : dsnJob'[r][t].stage = "claimed" => dsnJob[r][t].stage = "claimed"
        BY <1>2, <4>1 DEF TypeOK
      <4> QED BY <1>2, <3>10, <4>2, PromiseInvKept DEF DeliverBounce, rowVars
    <3>11. ASSUME NEW q \in Rows, FinishBounce(p, q) PROVE PromiseInv'
      <4>1. \A r \in Procs, t \in Rows : dsnJob'[r][t].stage = "claimed" => dsnJob[r][t].stage = "claimed"
        BY <1>2, <3>11 DEF TypeOK, FinishBounce, NoDsn
      <4>2. bounce' = bounce \/ (bounce[q] = "processing"
                                 /\ bounce' = [bounce EXCEPT ![q] = DsnVerdict(dsnJob[p][q].stage)])
        BY <3>11 DEF FinishBounce, DsnIsCurrent
      <4>3. \A t \in Rows : bounce'[t] \in {"pending", "processing"} =>
                              bounce[t] \in {"pending", "processing"}
        BY <1>2, <4>2 DEF TypeOK
      <4> QED BY <1>2, <3>11, <4>1, <4>3, PromiseInvKept DEF FinishBounce
    <3>12. ASSUME NEW q \in Rows, LoseAnswer(p, q) PROVE PromiseInv'
      BY <1>2, <3>12, PromiseInvIdle DEF LoseAnswer, rowVars, workVars
    <3> QED
      BY <2>8, <3>1, <3>2, <3>3, <3>4, <3>5, <3>6, <3>7, <3>8, <3>9, <3>10, <3>11, <3>12
      DEF WorkerStep, RecoverOnStart, RecoverBouncesOnStart, RecoverDayOld, RecoverDayOldBounces,
          ClaimDue, ClaimDueBounces
  <2>9. CASE UNCHANGED vars BY <1>2, <2>9, PromiseInvIdle DEF vars
  <2> QED BY <1>2, <2>1, <2>2, <2>3, <2>4, <2>5, <2>6, <2>7, <2>8, <2>9 DEF Next
<1> QED BY <1>1, <1>2, TypeCorrect, PTL DEF Spec

(* The state of the promise, by the status of the row. *)
LEMMA PromiseStates ==
  ASSUME NEW s \in Status
  PROVE  /\ s = "none" => PromiseOf(s) = "none"
         /\ s \in Active => PromiseOf(s) = "owed"
         /\ s = "delivered" => PromiseOf(s) = "delivered"
         /\ s = "failed" => PromiseOf(s) = "failed"
         /\ s = "cancelled" => PromiseOf(s) = "withdrawn"
         /\ s = "gone" => PromiseOf(s) = "dropped"
BY DEF PromiseOf, Active, Waiting, Status

LEMMA SilentStep ==
  ASSUME UNCHANGED <<accepted, notified>>,
         \A q \in Rows : status'[q] = status[q] \/ PromiseOf(status'[q]) = PromiseOf(status[q])
  PROVE  UNCHANGED Promise!pvars
BY DEF Promise!pvars

(* A step of one row from one state of the promise to another. *)
LEMMA StateStep ==
  ASSUME TypeOK, NEW q \in Rows, NEW s \in Status, status' = [status EXCEPT ![q] = s]
  PROVE  [r \in Rows |-> PromiseOf(status'[r])]
           = [[r \in Rows |-> PromiseOf(status[r])] EXCEPT ![q] = PromiseOf(s)]
BY DEF TypeOK

LEMMA StepKeepsPromise ==
  ASSUME TypeOK, TypeOK', AnswerInv, PromiseInv, [Next]_vars
  PROVE  [Promise!PNext]_Promise!pvars
<1>1. \A q \in Rows : status[q] \in Status /\ status'[q] \in Status BY DEF TypeOK
<1>2. ASSUME NEW m \in Messages, Enqueue(m) PROVE Promise!PNext
  <2> DEFINE new == {q \in Rows : MessageOf[q] = m}
  <2>1. \A q \in new : status[q] = "none" /\ PromiseOf(status[q]) = "none"
    BY <1>1, <1>2, PromiseStates DEF Enqueue
  <2>2. \A q \in Rows : PromiseOf(status'[q]) = IF q \in new THEN "owed" ELSE PromiseOf(status[q])
    BY <1>1, <1>2, PromiseStates DEF Enqueue, Active, Waiting
  <2>3. UNCHANGED <<accepted, notified>> BY <1>2 DEF Enqueue, worldVars
  <2>4. Promise!Take(new) BY <2>1, <2>2, <2>3 DEF Promise!Take
  <2> QED BY <2>4 DEF Promise!PNext
<1>3. ASSUME NEW m \in Messages, DeleteMessage(m) PROVE Promise!PNext
  <2> DEFINE mine == {q \in Rows : MessageOf[q] = m /\ status[q] # "none"}
  <2>1. ASSUME NEW q \in mine
        PROVE  /\ PromiseOf(status[q]) \notin {"none", "owed"}
               /\ PromiseOf(status[q]) = "failed" /\ q \in BounceRows => notified[q] > 0
    <3>1. status[q] # "none" /\ ~NeedsMessage(q) BY <1>3, <2>1 DEF DeleteMessage
    <3>2. status[q] \in {"delivered", "failed", "cancelled", "gone"}
      BY <1>1, <3>1 DEF Status, NeedsMessage, Active, Waiting
    <3>3. status[q] = "failed" /\ q \in BounceRows => notified[q] > 0
      BY <3>1 DEF AnswerInv, Grounded, NeedsMessage
    <3> QED BY <1>1, <3>2, <3>3, PromiseStates
  <2>2. \A q \in Rows : PromiseOf(status'[q]) = IF q \in mine THEN "dropped" ELSE PromiseOf(status[q])
    BY <1>1, <1>3, PromiseStates DEF DeleteMessage
  <2>3. UNCHANGED <<accepted, notified>> BY <1>3 DEF DeleteMessage, worldVars
  <2>4. Promise!Drop(mine) BY <2>1, <2>2, <2>3 DEF Promise!Drop
  <2> QED BY <2>4 DEF Promise!PNext
<1>4. ASSUME NEW q \in Rows, TimeStep(q) \/ RetryCheck(q) PROVE UNCHANGED Promise!pvars
  BY <1>4, SilentStep DEF TimeStep, RetryFallsDue, BounceFallsDue, ClaimTurnsStale,
     BounceClaimTurnsStale, RetryCheck, rowVars, worldVars
<1>5. ASSUME NEW q \in Rows PROVE ~MarkRetry(q) BY DEF MarkRetry, PromiseInv
<1>6. ASSUME NEW q \in Rows, Cancel(q) PROVE Promise!PNext
  <2>1. PromiseOf(status[q]) = "owed"
    BY <1>1, <1>6, PromiseStates DEF Cancel, Cancellable, Active
  <2>2. PromiseOf("cancelled") = "withdrawn" BY PromiseStates DEF Status
  <2>3. [r \in Rows |-> PromiseOf(status'[r])]
          = [[r \in Rows |-> PromiseOf(status[r])] EXCEPT ![q] = "withdrawn"]
    <3>1. "cancelled" \in Status /\ status' = [status EXCEPT ![q] = "cancelled"]
      BY <1>6 DEF Cancel, Status
    <3>2. [r \in Rows |-> PromiseOf(status'[r])]
            = [[r \in Rows |-> PromiseOf(status[r])] EXCEPT ![q] = PromiseOf("cancelled")]
      BY <3>1, StateStep
    <3> QED BY <2>2, <3>2
  <2>4. UNCHANGED <<accepted, notified>> BY <1>6 DEF Cancel
  <2>5. Promise!Withdraw(q) BY <2>1, <2>3, <2>4 DEF Promise!Withdraw, Promise!Conclude
  <2> QED BY <2>5 DEF Promise!PNext
<1>7. ASSUME NEW p \in Procs, Start(p) \/ Stop(p) PROVE UNCHANGED Promise!pvars
  BY <1>7, SilentStep DEF Start, Stop, rowVars, worldVars
<1>8. ASSUME NEW p \in Procs, WorkerStep(p) PROVE [Promise!PNext]_Promise!pvars
  <2>1. CASE DbError BY <2>1, SilentStep DEF DbError
  <2>2. ASSUME NEW S \in SUBSET Delivering, RequeueStale(S) PROVE UNCHANGED Promise!pvars
    <3>1. \A q \in Rows : status'[q] = status[q] \/ PromiseOf(status'[q]) = PromiseOf(status[q])
      BY <1>1, <2>2, PromiseStates DEF RequeueStale, Delivering, Active, Waiting
    <3> QED BY <2>2, <3>1, SilentStep DEF RequeueStale
  <2>3. ASSUME NEW S, RecoverStaleBounces(S) PROVE UNCHANGED Promise!pvars
    BY <2>3, SilentStep DEF RecoverStaleBounces
  <2>4. ASSUME NEW S \in Claimable(DueRows),
               status' = [q \in Rows |-> IF q \in S THEN "delivering" ELSE status[q]],
               UNCHANGED <<accepted, notified>>
        PROVE UNCHANGED Promise!pvars
    <3>1. \A q \in S : status[q] \in Waiting BY ClaimableRows DEF DueRows, Claimable
    <3>2. \A q \in Rows : status'[q] = status[q] \/ PromiseOf(status'[q]) = PromiseOf(status[q])
      BY <1>1, <2>4, <3>1, PromiseStates DEF Active, Waiting
    <3> QED BY <2>4, <3>2, SilentStep
  <2>5. CASE BatchDone(p) \/ DsnDone(p) BY <2>5, SilentStep DEF BatchDone, DsnDone, rowVars, worldVars
  <2>6. ASSUME NEW q \in Rows, NEW o \in Outcome, Attempt(p, q, o)
        PROVE [Promise!PNext]_Promise!pvars
    <3>1. status' = status /\ notified' = notified BY <2>6 DEF Attempt, rowVars
    <3>2. CASE o = "accepted"
      <4>1. status[q] # "none" BY <2>6, <3>2 DEF Attempt, PromiseInv
      <4>2. PromiseOf(status[q]) # "none"
        BY <1>1, <4>1, PromiseStates DEF Status, Active, Waiting
      <4>3. accepted' = [accepted EXCEPT ![q] = @ + 1] BY <2>6, <3>2 DEF Attempt
      <4>4. Promise!Receive(q) BY <3>1, <4>2, <4>3 DEF Promise!Receive
      <4> QED BY <4>4 DEF Promise!PNext
    <3>3. CASE o # "accepted"
      <4>1. accepted' = accepted BY <2>6, <3>3 DEF TypeOK, Attempt
      <4> QED BY <3>1, <4>1, SilentStep
    <3> QED BY <3>2, <3>3
  <2>7. ASSUME NEW q \in Rows, RecordAttempt(p, q) PROVE UNCHANGED Promise!pvars
    BY <2>7, SilentStep DEF RecordAttempt, rowVars, worldVars
  <2>8. ASSUME NEW q \in Rows, FinishClaim(p, q) PROVE [Promise!PNext]_Promise!pvars
    <3> DEFINE v == Verdict(job[p][q])
    <3>1. UNCHANGED <<accepted, notified>> BY <2>8 DEF FinishClaim
    <3>2. CASE status' = status BY <3>1, <3>2, SilentStep
    <3>3. CASE status[q] = "delivering" /\ status' = [status EXCEPT ![q] = v]
      <4>1. v \in {"delivered", "retry", "failed"} /\ v \in Status BY VerdictType DEF Status
      <4> HIDE DEF v
      <4>2. PromiseOf(status[q]) = "owed" BY <1>1, <3>3, PromiseStates DEF Active, Waiting
      <4>3. [r \in Rows |-> PromiseOf(status'[r])]
              = [[r \in Rows |-> PromiseOf(status[r])] EXCEPT ![q] = PromiseOf(v)]
        BY <3>3, <4>1, StateStep
      <4>4. CASE v = "delivered"
        <5>1. accepted[q] > 0
          BY <2>8, <4>4 DEF AnswerInv, Truthful, FinishClaim, Verdict, v
        <5>2. PromiseOf(v) = "delivered" BY <4>1, <4>4, PromiseStates
        <5>3. Promise!Confirm(q)
          BY <3>1, <4>2, <4>3, <5>1, <5>2 DEF Promise!Confirm, Promise!Conclude
        <5> QED BY <5>3 DEF Promise!PNext
      <4>5. CASE v = "retry"
        <5>1. PromiseOf(v) = "owed" BY <4>1, <4>5, PromiseStates DEF Active, Waiting
        <5>2. \A r \in Rows : status'[r] = status[r] \/ PromiseOf(status'[r]) = PromiseOf(status[r])
          BY <3>3, <4>2, <5>1 DEF TypeOK
        <5> QED BY <3>1, <5>2, SilentStep
      <4>6. CASE v = "failed"
        <5>1. PromiseOf(v) = "failed" BY <4>1, <4>6, PromiseStates
        <5>2. Promise!GiveUp(q) BY <3>1, <4>2, <4>3, <5>1 DEF Promise!GiveUp, Promise!Conclude
        <5> QED BY <5>2 DEF Promise!PNext
      <4> QED BY <4>1, <4>4, <4>5, <4>6
    <3> QED BY <2>8, <3>2, <3>3 DEF FinishClaim, ClaimIsCurrent
  <2>9. ASSUME UNCHANGED <<status, accepted, notified>> PROVE UNCHANGED Promise!pvars
    BY <2>9, SilentStep
  <2>10. ASSUME NEW q \in Rows, DeliverBounce(p, q) PROVE [Promise!PNext]_Promise!pvars
    <3>1. UNCHANGED <<status, accepted>> BY <2>10 DEF DeliverBounce, rowVars
    <3>2. CASE notified' = notified BY <3>1, <3>2, SilentStep
    <3>3. CASE notified' = [notified EXCEPT ![q] = @ + 1]
      <4>1. q \in BounceRows /\ status[q] \in {"failed", "gone"}
        BY <2>10 DEF DeliverBounce, PromiseInv
      <4>2. PromiseOf(status[q]) \in {"failed", "dropped"} BY <1>1, <4>1, PromiseStates
      <4>3. Promise!Notify(q) BY <3>1, <3>3, <4>1, <4>2 DEF Promise!Notify
      <4> QED BY <4>3 DEF Promise!PNext
    <3>4. notified' = notified \/ notified' = [notified EXCEPT ![q] = @ + 1]
      <4>1. \E n \in {0, 1} : notified' = [notified EXCEPT ![q] = @ + n]
        BY <2>10 DEF DeliverBounce
      <4>2. PICK n \in {0, 1} : notified' = [notified EXCEPT ![q] = @ + n] BY <4>1
      <4>3. notified \in [Rows -> Nat] BY DEF TypeOK
      <4>4. CASE n = 0
        <5>1. notified[q] + n = notified[q] BY <4>3, <4>4
        <5>2. notified' = [notified EXCEPT ![q] = notified[q]] BY <4>2, <5>1
        <5> QED BY <4>3, <5>2
      <4> QED BY <4>2, <4>4
    <3> QED BY <3>2, <3>3, <3>4
  <2>11. ASSUME NEW q \in Rows, FinishBounce(p, q) PROVE UNCHANGED Promise!pvars
    BY <2>11, SilentStep DEF FinishBounce, worldVars
  <2>12. ASSUME NEW q \in Rows, LoseAnswer(p, q) PROVE Promise!PNext
    <3>1. /\ status' = status /\ notified' = notified
          /\ accepted' = [accepted EXCEPT ![q] = @ + 1]
      BY <2>12 DEF LoseAnswer, rowVars
    <3>2. status[q] # "none" BY <2>12 DEF LoseAnswer, PromiseInv
    <3>3. PromiseOf(status[q]) # "none"
      BY <1>1, <3>2, PromiseStates DEF Status, Active, Waiting
    <3>4. Promise!Receive(q) BY <3>1, <3>3 DEF Promise!Receive
    <3> QED BY <3>4 DEF Promise!PNext
  <2> QED
    BY <1>8, <2>1, <2>2, <2>3, <2>4, <2>5, <2>6, <2>7, <2>8, <2>9, <2>10, <2>11, <2>12
    DEF WorkerStep, RecoverOnStart, RecoverBouncesOnStart, RecoverDayOld, RecoverDayOldBounces,
        ClaimDue, ClaimDueBounces, worldVars
<1>9. CASE UNCHANGED vars BY <1>9, SilentStep DEF vars
<1> QED BY <1>2, <1>3, <1>4, <1>5, <1>6, <1>7, <1>8, <1>9 DEF Next

(* The queue implements the promise of MailPromise: mail is delivered only  *)
(* after a receipt, ends for one reason, notices go only to the senders of    *)
(* failed mail, and nothing owed is dropped; for any number of workers,       *)
(* crashes and takeovers, as long as no administrator asks for a retry        *)
(* (retry_queue_entry takes a final verdict back, which no promise survives). *)
THEOREM QueueKeepsPromise == ASSUME MaxAdminRetries = 0 PROVE Spec => KeepsPromise
<1>1. Init => Promise!PInit
  <2> SUFFICES ASSUME Init PROVE Promise!PInit OBVIOUS
  <2>1. PromiseOf("none") = "none" BY PromiseStates DEF Status
  <2> QED BY <2>1 DEF Init, Promise!PInit
<1>2. TypeOK /\ TypeOK' /\ AnswerInv /\ PromiseInv /\ [Next]_vars => [Promise!PNext]_Promise!pvars
  BY StepKeepsPromise
<1> QED
  BY <1>1, <1>2, TypeCorrect, AnswersHold, PromiseInvHolds, PTL DEF Spec, KeepsPromise, Promise!PSpec
=============================================================================
