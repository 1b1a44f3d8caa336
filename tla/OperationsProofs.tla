--------------------------- MODULE OperationsProofs ---------------------------
(***************************************************************************)
(* At most once, and no false acknowledgement, for every number of actions, *)
(* keys and concurrent attempts, when each client puts its key where the    *)
(* route looks for it.                                                      *)
(*                                                                         *)
(* The invariant follows a key through its life: whoever works on it holds  *)
(* its row and holds it alone, and until that work is done the key has had  *)
(* no effect since it was last forgotten.                                   *)
(***************************************************************************)
EXTENDS OperationsRefinement, TLAPS

Holds(p, i) == handler[p].at \in {"work", "record"} /\ IdOf[handler[p].action] = i

Types ==
  /\ row \in [Ids -> {NoRow} \cup [state : {"open", "applied", "failed"}, by : Actions]]
  /\ handler \in [Procs -> {Idle} \cup [at : {"begin", "find", "work"}, action : Actions]
                    \cup [at : {"record"}, action : Actions, outcome : {"ok", "temporary", "error"}]]
  /\ outbox \in [Actions -> {"pending", "done", "failed"}]
  /\ effects \in [Ids -> Nat] /\ purged \in [Ids -> Nat]

OneHolder == \A p, q \in Procs : \A i \in Ids : Holds(p, i) /\ Holds(q, i) => p = q
HolderHasRow == \A p \in Procs : \A i \in Ids : Holds(p, i) => row[i] # NoRow
FreshUnclaimed == \A i \in Ids : row[i] = NoRow => effects[i] <= purged[i]
FreshAtWork == \A p \in Procs : \A i \in Ids :
  Holds(p, i) /\ handler[p].at = "work" => effects[i] <= purged[i]
AppliedMeansDone == \A i \in Ids : row[i].state = "applied" => effects[i] >= 1
OkMeansDone == \A p \in Procs : \A i \in Ids :
  Holds(p, i) /\ handler[p].at = "record" /\ handler[p].outcome = "ok" => effects[i] >= 1

IInv == /\ Types
        /\ OneHolder /\ HolderHasRow
        /\ FreshUnclaimed /\ FreshAtWork /\ AtMostOnce
        /\ AppliedMeansDone /\ OkMeansDone /\ AckMeansDone

AllKeyed == \A a \in Actions : Keyed(a)

LEMMA InitInv == ASSUME Init PROVE IInv
  BY OperationsAssumption
  DEF Init, IInv, Types, OneHolder, HolderHasRow, FreshUnclaimed, FreshAtWork, AtMostOnce,
      AppliedMeansDone, OkMeansDone, AckMeansDone, Holds, NoRow, Idle

USE OperationsAssumption DEF Holds, NoRow, Idle, Types

LEMMA AttemptInv == ASSUME IInv, AllKeyed, NEW p \in Procs, NEW a \in Actions, Attempt(p, a)
                    PROVE IInv'
<1>1. Types' BY DEF IInv, Attempt
<1>2. \A q \in Procs : q # p => handler'[q] = handler[q] BY DEF IInv, Attempt
<1>3. handler'[p] = [at |-> "begin", action |-> a] BY DEF IInv, Attempt, AllKeyed
<1>4. UNCHANGED <<row, outbox, effects, purged>> BY DEF Attempt
<1>5. \A q \in Procs : \A i \in Ids : Holds(q, i)' => q # p /\ Holds(q, i) BY <1>2, <1>3
<1> QED BY SMTT(30), <1>1, <1>2, <1>3, <1>4, <1>5
        DEF IInv, OneHolder, HolderHasRow, FreshUnclaimed, FreshAtWork, AtMostOnce,
            AppliedMeansDone, OkMeansDone, AckMeansDone

LEMMA BeginInv == ASSUME IInv, AllKeyed, NEW p \in Procs, Begin(p) PROVE IInv'
<1> DEFINE a == handler[p].action
<1>1. handler[p].at = "begin" /\ a \in Actions /\ IdOf[a] \in Ids BY DEF IInv, Begin
<1>2. \A q \in Procs : q # p => handler'[q] = handler[q] BY DEF IInv, Begin
<1>3. UNCHANGED <<outbox, effects, purged>> BY DEF Begin
<1>4. CASE row[IdOf[a]] = NoRow
  <2>1. handler'[p] = [at |-> "work", action |-> a] BY <1>1, <1>4 DEF IInv, Begin
  <2>2. row' = [row EXCEPT ![IdOf[a]] = [state |-> "open", by |-> a]] BY <1>4 DEF Begin
  <2>3. Types' BY <1>1, <1>3, <1>4, <2>2 DEF IInv, Begin
  <2>4. \A q \in Procs : \A i \in Ids :
          Holds(q, i)' => (q # p /\ Holds(q, i)) \/ (q = p /\ i = IdOf[a])
    BY <1>2, <2>1
  <2>5. \A q \in Procs : ~Holds(q, IdOf[a]) BY <1>1, <1>4 DEF IInv, HolderHasRow
  <2>6. effects[IdOf[a]] <= purged[IdOf[a]] BY <1>1, <1>4 DEF IInv, FreshUnclaimed
  <2>7. \A i \in Ids : i # IdOf[a] => row'[i] = row[i] BY <2>2 DEF IInv
  <2>8. row'[IdOf[a]] = [state |-> "open", by |-> a] BY <1>1, <2>2 DEF IInv
  <2>9. row'[IdOf[a]] # NoRow BY <2>8
  <2>10. OneHolder' BY <1>2, <2>4, <2>5 DEF IInv, OneHolder
  <2>11. HolderHasRow' BY <1>1, <1>2, <2>4, <2>7, <2>9 DEF IInv, HolderHasRow
  <2>12. FreshUnclaimed' BY <1>3, <2>7, <2>9 DEF IInv, FreshUnclaimed
  <2>13. FreshAtWork' BY <1>2, <1>3, <2>1, <2>4, <2>6 DEF IInv, FreshAtWork
  <2>14. AppliedMeansDone' BY <1>3, <2>7, <2>8 DEF IInv, AppliedMeansDone
  <2>15. OkMeansDone' BY <1>2, <1>3, <2>1, <2>4 DEF IInv, OkMeansDone
  <2> QED BY <1>3, <2>3, <2>10, <2>11, <2>12, <2>13, <2>14, <2>15
          DEF IInv, AtMostOnce, AckMeansDone
<1>5. CASE row[IdOf[a]] # NoRow
  <2>1. handler'[p] = [at |-> "find", action |-> a] BY <1>1, <1>5 DEF IInv, Begin
  <2>2. row' = row BY <1>5 DEF Begin
  <2>3. Types' BY <1>1, <1>3, <1>5, <2>2 DEF IInv, Begin
  <2>4. \A q \in Procs : \A i \in Ids : Holds(q, i)' => q # p /\ Holds(q, i) BY <1>2, <2>1
  <2>5. OneHolder' /\ HolderHasRow' BY <2>2, <2>4 DEF IInv, OneHolder, HolderHasRow
  <2>6. FreshUnclaimed' /\ AtMostOnce' BY <1>3, <2>2 DEF IInv, FreshUnclaimed, AtMostOnce
  <2>7. FreshAtWork' /\ OkMeansDone'
    BY <1>2, <1>3, <2>4 DEF IInv, FreshAtWork, OkMeansDone
  <2>8. AppliedMeansDone' /\ AckMeansDone'
    BY <1>3, <2>2 DEF IInv, AppliedMeansDone, AckMeansDone
  <2> QED BY <2>3, <2>5, <2>6, <2>7, <2>8 DEF IInv
<1> QED BY <1>4, <1>5

(* A handler that ends holds nothing; what it tells the client must be so.  *)
LEMMA EndInv ==
  ASSUME IInv, NEW p \in Procs, NEW b \in Actions,
         handler' = [handler EXCEPT ![p] = Idle],
         Types',
         \A i \in Ids : (row[i] # NoRow => row'[i] # NoRow) /\ (row[i] = NoRow => row'[i] = NoRow),
         AppliedMeansDone',
         \A c \in Actions : outbox'[c] = "done" => outbox[c] = "done" \/ effects[IdOf[c]] >= 1,
         UNCHANGED <<effects, purged>>
  PROVE  IInv'
<1>1. \A q \in Procs : q # p => handler'[q] = handler[q] BY DEF IInv
<1>2. handler'[p] = Idle BY DEF IInv
<1>3. \A q \in Procs : \A i \in Ids : Holds(q, i)' => q # p /\ Holds(q, i)
  BY <1>1, <1>2
<1>4. OneHolder' BY <1>3 DEF IInv, OneHolder
<1>5. HolderHasRow' BY <1>3 DEF IInv, HolderHasRow
<1>6. FreshUnclaimed' BY DEF IInv, FreshUnclaimed
<1>7. FreshAtWork' BY <1>1, <1>3 DEF IInv, FreshAtWork
<1>8. OkMeansDone' BY <1>1, <1>3 DEF IInv, OkMeansDone
<1>9. AtMostOnce' BY DEF IInv, AtMostOnce
<1>10. AckMeansDone' BY DEF IInv, AckMeansDone
<1> QED BY <1>4, <1>5, <1>6, <1>7, <1>8, <1>9, <1>10 DEF IInv

LEMMA AnswerFacts ==
  ASSUME IInv, NEW p \in Procs, handler[p].action \in Actions, NEW reply, NEW source,
         Answer(p, reply, source)
  PROVE  /\ handler' = [handler EXCEPT ![p] = Idle]
         /\ outbox' \in [Actions -> {"pending", "done", "failed"}]
         /\ \A c \in Actions : outbox'[c] = "done" =>
              outbox[c] = "done" \/ (c = handler[p].action /\ reply = "ok")
<1>1. handler' = [handler EXCEPT ![p] = Idle] BY DEF Answer
<1>2. Settled(reply) \in {"pending", "done", "failed"} /\ (Settled(reply) = "done" => reply = "ok")
  BY DEF Settled
<1>3. CASE UNCHANGED outbox BY <1>1, <1>3 DEF IInv
<1>4. CASE outbox' = [outbox EXCEPT ![handler[p].action] =
                        IF @ = "pending" THEN Settled(reply) ELSE @]
  BY <1>1, <1>2, <1>4 DEF IInv
<1> QED BY <1>3, <1>4 DEF Answer

LEMMA FindInv == ASSUME IInv, AllKeyed, NEW p \in Procs, Find(p) PROVE IInv'
<1> DEFINE a == handler[p].action
           r == row[IdOf[a]]
<1>1. handler[p].at = "find" /\ a \in Actions /\ IdOf[a] \in Ids BY DEF IInv, Find
<1>2. UNCHANGED <<row, effects, purged>> BY DEF Find
<1>3. PICK reply, source : Answer(p, reply, source) /\ (reply = "ok" => r # NoRow /\ r.state = "applied")
  <2>1. CASE r = NoRow BY <2>1 DEF Find
  <2>2. CASE r # NoRow
    <3> DEFINE said == IF Scoped(a, r.by) THEN Replay(r) ELSE "conflict"
    <3>1. Answer(p, said, r.by) BY <2>2 DEF Find
    <3>2. r.state \in {"open", "applied", "failed"} BY <1>1, <2>2 DEF IInv
    <3>3. Replay(r) = "ok" => r.state = "applied" BY <3>2 DEF Replay
    <3>4. said = "ok" => r.state = "applied" BY <3>3
    <3> HIDE DEF said, r
    <3> QED BY <2>2, <3>1, <3>4
  <2> QED BY <2>1, <2>2
<1>4. reply = "ok" => effects[IdOf[a]] >= 1 BY <1>1, <1>3 DEF IInv, AppliedMeansDone
<1>5. Types' BY <1>1, <1>2, <1>3, AnswerFacts DEF IInv
<1>6. AppliedMeansDone' BY <1>2 DEF IInv, AppliedMeansDone
<1> QED BY <1>1, <1>2, <1>3, <1>4, <1>5, <1>6, AnswerFacts, EndInv

LEMMA WorkInv == ASSUME IInv, AllKeyed, NEW p \in Procs, Work(p) PROVE IInv'
<1> DEFINE a == handler[p].action
<1>1. handler[p].at = "work" /\ a \in Actions /\ IdOf[a] \in Ids BY DEF IInv, Work
<1>2. UNCHANGED <<row, outbox, purged>> BY DEF Work
<1>3. PICK outcome \in {"ok", "temporary", "error"}, effect \in {0, 1} :
        /\ outcome = "ok" => effect = 1
        /\ effects' = [effects EXCEPT ![IdOf[a]] = @ + effect]
        /\ handler' = [handler EXCEPT ![p] = [at |-> "record", action |-> @.action, outcome |-> outcome]]
  BY DEF Work
<1>4. handler'[p] = [at |-> "record", action |-> a, outcome |-> outcome] BY <1>3 DEF IInv
<1>5. \A q \in Procs : q # p => handler'[q] = handler[q] BY <1>3 DEF IInv
<1>6. \A i \in Ids : i # IdOf[a] => effects'[i] = effects[i] BY <1>3 DEF IInv
<1>7. effects'[IdOf[a]] = effects[IdOf[a]] + effect BY <1>1, <1>3 DEF IInv
<1>8. \A i \in Ids : effects[i] \in Nat /\ effects'[i] \in Nat /\ effects'[i] >= effects[i]
  BY <1>1, <1>3, <1>6, <1>7 DEF IInv
<1>9. Holds(p, IdOf[a]) BY <1>1
<1>10. \A q \in Procs : \A i \in Ids : Holds(q, i)' => Holds(q, i)
  BY <1>1, <1>4, <1>5
<1>11. effects[IdOf[a]] <= purged[IdOf[a]] /\ purged[IdOf[a]] \in Nat
  BY <1>1, <1>9 DEF IInv, FreshAtWork
<1>12. Types' BY <1>1, <1>2, <1>3, <1>8 DEF IInv
<1>13. OneHolder' BY <1>10 DEF IInv, OneHolder
<1>14. HolderHasRow' BY <1>2, <1>10 DEF IInv, HolderHasRow
<1>15. row[IdOf[a]] # NoRow BY <1>1, <1>9 DEF IInv, HolderHasRow
<1>16. FreshUnclaimed' BY <1>2, <1>6, <1>15 DEF IInv, FreshUnclaimed
<1>17. FreshAtWork'
  <2> SUFFICES ASSUME NEW q \in Procs, NEW i \in Ids, Holds(q, i)', handler'[q].at = "work"
               PROVE  effects'[i] <= purged'[i]
    BY DEF FreshAtWork
  <2>1. q # p BY <1>4
  <2>2. i # IdOf[a] BY <1>9, <1>10, <2>1 DEF IInv, OneHolder
  <2> QED BY <1>2, <1>5, <1>6, <2>1, <2>2 DEF IInv, FreshAtWork
<1>18. AtMostOnce' BY <1>2, <1>6, <1>7, <1>8, <1>11 DEF IInv, AtMostOnce
<1>19. AppliedMeansDone' BY <1>2, <1>8 DEF IInv, AppliedMeansDone
<1>20. OkMeansDone'
  <2> SUFFICES ASSUME NEW q \in Procs, NEW i \in Ids, Holds(q, i)',
                      handler'[q].at = "record", handler'[q].outcome = "ok"
               PROVE  effects'[i] >= 1
    BY DEF OkMeansDone
  <2>1. CASE q = p BY <1>3, <1>4, <1>7, <1>8, <2>1
  <2>2. CASE q # p BY <1>5, <1>8, <2>2 DEF IInv, OkMeansDone
  <2> QED BY <2>1, <2>2
<1>21. AckMeansDone' BY <1>2, <1>8 DEF IInv, AckMeansDone
<1> QED BY <1>12, <1>13, <1>14, <1>16, <1>17, <1>18, <1>19, <1>20, <1>21 DEF IInv

LEMMA RecordInv == ASSUME IInv, AllKeyed, NEW p \in Procs, Record(p) PROVE IInv'
<1> DEFINE a == handler[p].action
           outcome == handler[p].outcome
<1>1. /\ handler[p].at = "record" /\ a \in Actions /\ IdOf[a] \in Ids
      /\ outcome \in {"ok", "temporary", "error"}
  BY DEF IInv, Record
<1>2. Holds(p, IdOf[a]) BY <1>1
<1>3. row[IdOf[a]] # NoRow BY <1>1, <1>2 DEF IInv, HolderHasRow
<1>4. row' = [row EXCEPT ![IdOf[a]].state = Recorded(outcome)] BY <1>1, <1>3 DEF Record, AllKeyed
<1>5. row[IdOf[a]] \in [state : {"open", "applied", "failed"}, by : Actions] BY <1>1, <1>3 DEF IInv
<1>6. Recorded(outcome) \in {"applied", "failed"} /\ (Recorded(outcome) = "applied" => outcome = "ok")
  BY DEF Recorded
<1>7. row'[IdOf[a]] = [row[IdOf[a]] EXCEPT !.state = Recorded(outcome)] BY <1>1, <1>4 DEF IInv
<1>8. /\ row'[IdOf[a]] \in [state : {"open", "applied", "failed"}, by : Actions]
      /\ row'[IdOf[a]].state = Recorded(outcome)
  BY <1>5, <1>6, <1>7
<1>9. \A i \in Ids : i # IdOf[a] => row'[i] = row[i] BY <1>4 DEF IInv
<1>10. row' \in [Ids -> {NoRow} \cup [state : {"open", "applied", "failed"}, by : Actions]]
  BY <1>4, <1>8, <1>9 DEF IInv
<1>11. Answer(p, outcome, a) /\ UNCHANGED <<effects, purged>> BY DEF Record
<1>12. outcome = "ok" => effects[IdOf[a]] >= 1 BY <1>1, <1>2 DEF IInv, OkMeansDone
<1>13. AppliedMeansDone' BY <1>6, <1>8, <1>9, <1>11, <1>12 DEF IInv, AppliedMeansDone
<1>14. row'[IdOf[a]] # NoRow BY <1>8
<1>15. \A i \in Ids : (row[i] # NoRow => row'[i] # NoRow) /\ (row[i] = NoRow => row'[i] = NoRow)
  BY <1>3, <1>9, <1>14
<1>16. Types' BY SMTT(30), <1>1, <1>10, <1>11, AnswerFacts DEF IInv
<1> QED BY <1>1, <1>11, <1>12, <1>13, <1>15, <1>16, AnswerFacts, EndInv

LEMMA RecordFailsInv == ASSUME IInv, AllKeyed, NEW p \in Procs, RecordFails(p) PROVE IInv'
<1> DEFINE a == handler[p].action
           outcome == handler[p].outcome
<1>1. /\ handler[p].at = "record" /\ a \in Actions /\ IdOf[a] \in Ids
      /\ outcome \in {"ok", "temporary", "error"}
  BY DEF IInv, RecordFails
<1>2. /\ UNCHANGED <<row, effects, purged>>
      /\ handler' = [handler EXCEPT ![p] = Idle]
      /\ outbox' = [outbox EXCEPT ![a] = IF @ = "pending" THEN Settled(outcome) ELSE @]
  BY DEF RecordFails
<1>3. Settled(outcome) \in {"pending", "done", "failed"} /\ (Settled(outcome) = "done" => outcome = "ok")
  BY DEF Settled
<1>4. outcome = "ok" => effects[IdOf[a]] >= 1 BY <1>1 DEF IInv, OkMeansDone
<1>5. Types' BY <1>1, <1>2, <1>3 DEF IInv
<1>6. AppliedMeansDone' BY <1>2 DEF IInv, AppliedMeansDone
<1>7. \A c \in Actions : outbox'[c] = "done" => outbox[c] = "done" \/ effects[IdOf[c]] >= 1
  BY <1>1, <1>2, <1>3, <1>4 DEF IInv
<1> QED BY <1>1, <1>2, <1>5, <1>6, <1>7, EndInv

LEMMA DropInv == ASSUME IInv, NEW p \in Procs, Drop(p) PROVE IInv'
<1>1. /\ UNCHANGED <<row, outbox, effects, purged>>
      /\ handler' = [handler EXCEPT ![p] = Idle]
  BY DEF Drop
<1>2. handler[p].action \in Actions BY DEF IInv, Drop
<1>3. Types' BY <1>1 DEF IInv
<1>4. AppliedMeansDone' BY <1>1 DEF IInv, AppliedMeansDone
<1> QED BY <1>1, <1>2, <1>3, <1>4, EndInv

LEMMA PurgeInv == ASSUME IInv, NEW i \in Ids, Purge(i) PROVE IInv'
<1>1. /\ UNCHANGED <<handler, outbox, effects>>
      /\ row' = [row EXCEPT ![i] = NoRow]
      /\ purged' = [purged EXCEPT ![i] = @ + 1]
      /\ \A p \in Procs : ~Holds(p, i)
  BY DEF Purge, Working
<1>2. \A j \in Ids : j # i => row'[j] = row[j] /\ purged'[j] = purged[j] BY <1>1 DEF IInv
<1>3. row'[i] = NoRow /\ purged'[i] = purged[i] + 1 BY <1>1 DEF IInv
<1>4. \A j \in Ids : effects[j] \in Nat /\ purged[j] \in Nat BY DEF IInv
<1>5. \A q \in Procs : \A j \in Ids : Holds(q, j)' => Holds(q, j) /\ j # i BY <1>1
<1>6. Types' BY <1>1 DEF IInv
<1>7. OneHolder' BY <1>5 DEF IInv, OneHolder
<1>8. HolderHasRow' BY <1>2, <1>5 DEF IInv, HolderHasRow
<1>9. FreshUnclaimed' BY <1>1, <1>2, <1>3, <1>4 DEF IInv, FreshUnclaimed, AtMostOnce
<1>10. FreshAtWork' BY <1>1, <1>2, <1>5 DEF IInv, FreshAtWork
<1>11. AtMostOnce' BY <1>1, <1>2, <1>3, <1>4 DEF IInv, AtMostOnce
<1>12. AppliedMeansDone' BY <1>1, <1>2, <1>3 DEF IInv, AppliedMeansDone
<1>13. OkMeansDone' BY <1>1 DEF IInv, OkMeansDone
<1>14. AckMeansDone' BY <1>1 DEF IInv, AckMeansDone
<1> QED BY <1>6, <1>7, <1>8, <1>9, <1>10, <1>11, <1>12, <1>13, <1>14 DEF IInv

LEMMA NextInv == ASSUME IInv, AllKeyed, [Next]_vars PROVE IInv'
<1>1. CASE UNCHANGED vars
  BY <1>1 DEF IInv, vars, OneHolder, HolderHasRow, FreshUnclaimed, FreshAtWork, AtMostOnce,
              AppliedMeansDone, OkMeansDone, AckMeansDone
<1>2. CASE \E p \in Procs, a \in Actions : Attempt(p, a) BY <1>2, AttemptInv
<1>3. CASE \E p \in Procs : Begin(p) BY <1>3, BeginInv
<1>4. CASE \E p \in Procs : Find(p) BY <1>4, FindInv
<1>5. CASE \E p \in Procs : Work(p) BY <1>5, WorkInv
<1>6. CASE \E p \in Procs : Record(p) BY <1>6, RecordInv
<1>7. CASE \E p \in Procs : RecordFails(p) BY <1>7, RecordFailsInv
<1>8. CASE \E p \in Procs : Drop(p) BY <1>8, DropInv
<1>9. CASE \E i \in Ids : Purge(i) BY <1>9, PurgeInv
<1> QED BY <1>1, <1>2, <1>3, <1>4, <1>5, <1>6, <1>7, <1>8, <1>9 DEF Next

LEMMA Inductive == ASSUME AllKeyed PROVE Spec => []IInv
<1>1. Init => IInv BY InitInv
<1>2. IInv /\ [Next]_vars => IInv' BY NextInv
<1> QED BY <1>1, <1>2, PTL DEF Spec

(* A key takes effect at most once until it is forgotten, for any number of *)
(* clients, attempts, keys, drops, lost replies and failing statements      *)
(* (with_operation, OperationsRepository::begin).                           *)
THEOREM KeyedAtMostOnce == ASSUME AllKeyed PROVE Spec => []AtMostOnce
<1>1. IInv => AtMostOnce BY DEF IInv
<1> QED BY <1>1, Inductive, PTL

(* No client is told "done" about work that never took effect.              *)
THEOREM NoFalseAck == ASSUME AllKeyed PROVE Spec => []AckMeansDone
<1>1. IInv => AckMeansDone BY DEF IInv
<1> QED BY <1>1, Inductive, PTL
-----------------------------------------------------------------------------
(* The refinement: the work is Once's Effect, a prune its Forget, a reply   *)
(* that reaches a pending client its Tell; every other step is a stutter.   *)

LEMMA TellStep ==
  ASSUME IInv, NEW a \in Actions, NEW reply,
         reply = "ok" => effects[IdOf[a]] >= 1,
         outbox' = [outbox EXCEPT ![a] = IF @ = "pending" THEN Settled(reply) ELSE @],
         UNCHANGED <<effects, purged>>
  PROVE  [Promise!Next]_Promise!vars
<1>1. Settled(reply) \in {"pending", "done", "failed"} /\ (Settled(reply) = "done" => reply = "ok")
  BY DEF Settled
<1>2. outbox \in [Actions -> {"pending", "done", "failed"}] BY DEF IInv
<1>3. effects[IdOf[a]] \in Nat BY DEF IInv
<1>4. CASE outbox[a] = "pending" /\ Settled(reply) # "pending"
  <2>1. Settled(reply) \in {"done", "failed"} BY <1>1, <1>4
  <2>2. Settled(reply) = "done" => effects[IdOf[a]] > 0 BY <1>1, <1>3
  <2>3. outbox' = [outbox EXCEPT ![a] = Settled(reply)] BY <1>4
  <2>4. Promise!Tell(a, Settled(reply)) BY <1>4, <2>2, <2>3 DEF Promise!Tell
  <2> QED BY <2>1, <2>4 DEF Promise!Next
<1>5. CASE ~(outbox[a] = "pending" /\ Settled(reply) # "pending")
  <2>1. outbox' = outbox BY <1>2, <1>5
  <2> QED BY <2>1 DEF Promise!vars
<1> QED BY <1>4, <1>5

LEMMA AnswerStep ==
  ASSUME IInv, NEW p \in Procs, handler[p].action \in Actions, NEW reply, NEW source,
         reply = "ok" => effects[IdOf[handler[p].action]] >= 1,
         Answer(p, reply, source), UNCHANGED <<effects, purged>>
  PROVE  [Promise!Next]_Promise!vars
<1>1. CASE UNCHANGED outbox BY <1>1 DEF Promise!vars
<1>2. CASE outbox' = [outbox EXCEPT ![handler[p].action] =
                        IF @ = "pending" THEN Settled(reply) ELSE @]
  BY <1>2, TellStep
<1> QED BY <1>1, <1>2 DEF Answer

LEMMA FindStep == ASSUME IInv, NEW p \in Procs, Find(p) PROVE [Promise!Next]_Promise!vars
<1> DEFINE a == handler[p].action
           r == row[IdOf[a]]
<1>1. handler[p].at = "find" /\ a \in Actions /\ IdOf[a] \in Ids BY DEF IInv, Find
<1>2. UNCHANGED <<effects, purged>> BY DEF Find
<1>3. CASE r = NoRow
  <2>1. Answer(p, "conflict", a) BY <1>3 DEF Find
  <2> QED BY <1>1, <1>2, <2>1, AnswerStep
<1>4. CASE r # NoRow
  <2>1. Answer(p, IF Scoped(a, r.by) THEN Replay(r) ELSE "conflict", r.by) BY <1>4 DEF Find
  <2>2. r.state \in {"open", "applied", "failed"} BY <1>1, <1>4 DEF IInv
  <2>3. Replay(r) = "ok" => r.state = "applied" BY <2>2 DEF Replay
  <2>4. (IF Scoped(a, r.by) THEN Replay(r) ELSE "conflict") = "ok" => effects[IdOf[a]] >= 1
    BY <1>1, <2>3 DEF IInv, AppliedMeansDone
  <2> QED BY <1>1, <1>2, <2>1, <2>4, AnswerStep
<1> QED BY <1>3, <1>4

LEMMA WorkStep == ASSUME IInv, NEW p \in Procs, Work(p) PROVE [Promise!Next]_Promise!vars
<1> DEFINE i == IdOf[handler[p].action]
<1>1. handler[p].at = "work" /\ i \in Ids BY DEF IInv, Work
<1>2. UNCHANGED <<outbox, purged>> BY DEF Work
<1>3. PICK effect \in {0, 1} : effects' = [effects EXCEPT ![i] = @ + effect] BY DEF Work
<1>4. effects[i] <= purged[i] BY <1>1 DEF IInv, FreshAtWork
<1>5. CASE effect = 1
  <2>1. Promise!Effect(i) BY <1>2, <1>3, <1>4, <1>5 DEF Promise!Effect
  <2> QED BY <1>1, <2>1 DEF Promise!Next
<1>6. CASE effect = 0
  <2>1. effects' = effects BY <1>1, <1>3, <1>6 DEF IInv
  <2> QED BY <1>2, <2>1 DEF Promise!vars
<1> QED BY <1>5, <1>6

LEMMA RecordStep == ASSUME IInv, NEW p \in Procs, Record(p) \/ RecordFails(p)
                    PROVE [Promise!Next]_Promise!vars
<1> DEFINE a == handler[p].action
<1>1. handler[p].at = "record" /\ a \in Actions /\ IdOf[a] \in Ids BY DEF IInv, Record, RecordFails
<1>2. handler[p].outcome = "ok" => effects[IdOf[a]] >= 1 BY <1>1 DEF IInv, OkMeansDone
<1>3. UNCHANGED <<effects, purged>> BY DEF Record, RecordFails
<1>4. CASE Record(p)
  <2>1. Answer(p, handler[p].outcome, a) BY <1>4 DEF Record
  <2> QED BY <1>1, <1>2, <1>3, <2>1, AnswerStep
<1>5. CASE RecordFails(p)
  <2>1. outbox' = [outbox EXCEPT ![a] = IF @ = "pending" THEN Settled(handler[p].outcome) ELSE @]
    BY <1>5 DEF RecordFails
  <2> QED BY <1>1, <1>2, <1>3, <2>1, TellStep
<1> QED BY <1>4, <1>5

LEMMA NextStep == ASSUME IInv, [Next]_vars PROVE [Promise!Next]_Promise!vars
<1>1. CASE UNCHANGED vars BY <1>1 DEF vars, Promise!vars
<1>2. CASE \E p \in Procs : (\E a \in Actions : Attempt(p, a)) \/ Begin(p) \/ Drop(p)
  BY <1>2 DEF Attempt, Begin, Drop, Promise!vars
<1>3. CASE \E p \in Procs : Find(p) BY <1>3, FindStep
<1>4. CASE \E p \in Procs : Work(p) BY <1>4, WorkStep
<1>5. CASE \E p \in Procs : Record(p) \/ RecordFails(p) BY <1>5, RecordStep
<1>6. CASE \E i \in Ids : Purge(i)
  <2>1. PICK i \in Ids : Purge(i) BY <1>6
  <2>2. Promise!Forget(i) BY <2>1 DEF Purge, Promise!Forget
  <2> QED BY <2>2 DEF Promise!Next
<1> QED BY <1>1, <1>2, <1>3, <1>4, <1>5, <1>6 DEF Next

(* with_operation and the Outbox implement Once.                            *)
THEOREM PromiseKept == ASSUME AllKeyed PROVE Spec => KeepsPromise
<1>1. Init => Promise!Init BY DEF Init, Promise!Init
<1>2. IInv /\ [Next]_vars => [Promise!Next]_Promise!vars BY NextStep
<1> QED BY <1>1, <1>2, Inductive, PTL DEF Spec, KeepsPromise, Promise!Spec
-----------------------------------------------------------------------------
(* Whose result a client gets. Where the client puts its key does not       *)
(* matter here, so this invariant does without AllKeyed: a row keeps the    *)
(* action that claimed it, and Find compares with it before it replays.     *)

OwnInv == /\ handler \in [Procs -> {Idle} \cup [at : {"begin", "find", "work"}, action : Actions]
                  \cup [at : {"record"}, action : Actions, outcome : {"ok", "temporary", "error"}]]
          /\ row \in [Ids -> {NoRow} \cup [state : {"open", "applied", "failed"}, by : Actions]]
          /\ served \in [Actions -> SUBSET Actions]
          /\ OwnResult

(* A reply leaves the sources as they are, or adds one that is due.         *)
LEMMA AnswerOwn ==
  ASSUME OwnInv, NEW p \in Procs, handler[p].action \in Actions, NEW reply, NEW source,
         reply = "ok" => source \in Actions /\ Scoped(handler[p].action, source),
         Answer(p, reply, source) \/ RecordFails(p),
         RecordFails(p) => reply = handler[p].outcome /\ source = handler[p].action,
         row' \in [Ids -> {NoRow} \cup [state : {"open", "applied", "failed"}, by : Actions]]
  PROVE  OwnInv'
<1> DEFINE a == handler[p].action
<1>1. handler' = [handler EXCEPT ![p] = Idle] BY DEF Answer, RecordFails
<1>2. CASE UNCHANGED served BY <1>1, <1>2 DEF OwnInv, OwnResult
<1>3. CASE served' = [served EXCEPT ![a] = IF reply = "ok" THEN @ \cup {source} ELSE @]
  <2>1. served' \in [Actions -> SUBSET Actions] BY <1>3 DEF OwnInv
  <2>2. \A c \in Actions : \A b \in served'[c] : b \in served[c] \/ (c = a /\ b = source /\ reply = "ok")
    BY <1>3 DEF OwnInv
  <2>3. OwnResult' BY <2>2 DEF OwnInv, OwnResult, Scoped
  <2> QED BY <1>1, <2>1, <2>3 DEF OwnInv
<1>4. Answer(p, reply, source) => UNCHANGED served
        \/ served' = [served EXCEPT ![a] = IF reply = "ok" THEN @ \cup {source} ELSE @]
  BY DEF Answer
<1>5. RecordFails(p) => served' = [served EXCEPT ![a] = IF reply = "ok" THEN @ \cup {source} ELSE @]
  BY DEF RecordFails
<1> QED BY <1>2, <1>3, <1>4, <1>5

LEMMA OwnStep == ASSUME OwnInv, [Next]_vars PROVE OwnInv'
<1>1. CASE UNCHANGED vars BY <1>1 DEF OwnInv, vars, OwnResult
<1>2. ASSUME NEW p \in Procs, NEW a \in Actions, Attempt(p, a) PROVE OwnInv'
  BY <1>2 DEF OwnInv, Attempt, OwnResult
<1>3. ASSUME NEW p \in Procs, Begin(p) PROVE OwnInv'
  <2>1. handler[p].at = "begin" /\ handler[p].action \in Actions BY <1>3 DEF OwnInv, Begin
  <2>2. row' \in [Ids -> {NoRow} \cup [state : {"open", "applied", "failed"}, by : Actions]]
    BY <1>3, <2>1 DEF OwnInv, Begin
  <2>3. PICK place \in {"work", "find"} : handler' = [handler EXCEPT ![p].at = place]
    BY <1>3 DEF Begin
  <2>4. handler[p] \in [at : {"begin", "find", "work"}, action : Actions]
    BY <2>1 DEF OwnInv
  <2>5. [handler[p] EXCEPT !.at = place] \in [at : {"begin", "find", "work"}, action : Actions]
    BY <2>4
  <2>6. handler' = [handler EXCEPT ![p] = [handler[p] EXCEPT !.at = place]]
    BY <2>3
  <2>7. handler' \in [Procs -> {Idle} \cup [at : {"begin", "find", "work"}, action : Actions]
          \cup [at : {"record"}, action : Actions, outcome : {"ok", "temporary", "error"}]]
    BY <2>5, <2>6 DEF OwnInv
  <2>8. served' = served BY <1>3 DEF Begin
  <2> QED BY <2>2, <2>7, <2>8 DEF OwnInv, OwnResult
<1>4. ASSUME NEW p \in Procs, Find(p) PROVE OwnInv'
  <2> DEFINE a == handler[p].action
             r == row[IdOf[a]]
  <2>1. a \in Actions /\ IdOf[a] \in Ids /\ row' = row BY <1>4 DEF OwnInv, Find
  <2>2. CASE r = NoRow
    <3>1. Answer(p, "conflict", a) BY <1>4, <2>2 DEF Find
    <3>2. ~RecordFails(p) BY <1>4 DEF Find, RecordFails
    <3>3. "conflict" # "ok" OBVIOUS
    <3> QED BY <2>1, <3>1, <3>2, <3>3, AnswerOwn DEF OwnInv
  <2>3. CASE r # NoRow
    <3>1. r.by \in Actions BY <2>1, <2>3 DEF OwnInv
    <3>2. Answer(p, IF Scoped(a, r.by) THEN Replay(r) ELSE "conflict", r.by) BY <1>4, <2>3 DEF Find
    <3>3. (IF Scoped(a, r.by) THEN Replay(r) ELSE "conflict") = "ok" => Scoped(a, r.by) OBVIOUS
    <3>4. ~RecordFails(p) BY <1>4 DEF Find, RecordFails
    <3> QED BY <2>1, <3>1, <3>2, <3>3, <3>4, AnswerOwn DEF OwnInv
  <2> QED BY <2>2, <2>3
<1>5. ASSUME NEW p \in Procs, Work(p) PROVE OwnInv'
  <2>1. handler[p].action \in Actions BY <1>5 DEF OwnInv, Work
  <2> QED BY <1>5, <2>1 DEF OwnInv, Work, OwnResult
<1>6. ASSUME NEW p \in Procs, Record(p) \/ RecordFails(p) PROVE OwnInv'
  <2> DEFINE a == handler[p].action
  <2>1. a \in Actions /\ IdOf[a] \in Ids BY <1>6 DEF OwnInv, Record, RecordFails
  <2>2. Scoped(a, a) BY DEF Scoped
  <2>3. row' \in [Ids -> {NoRow} \cup [state : {"open", "applied", "failed"}, by : Actions]]
    <3>1. CASE row' = row BY <3>1 DEF OwnInv
    <3>2. CASE row' # row
      <4>1. /\ row[IdOf[a]] # NoRow
            /\ row' = [row EXCEPT ![IdOf[a]].state = Recorded(handler[p].outcome)]
        BY <1>6, <3>2 DEF Record, RecordFails
      <4>2. row[IdOf[a]] \in [state : {"open", "applied", "failed"}, by : Actions]
        BY <2>1, <4>1 DEF OwnInv
      <4>3. [row[IdOf[a]] EXCEPT !.state = Recorded(handler[p].outcome)]
              \in [state : {"open", "applied", "failed"}, by : Actions]
        BY <4>2 DEF Recorded
      <4> QED BY <2>1, <4>1, <4>3 DEF OwnInv
    <3> QED BY <3>1, <3>2
  <2>4. Answer(p, handler[p].outcome, a) \/ RecordFails(p) BY <1>6 DEF Record
  <2> QED BY <2>1, <2>2, <2>3, <2>4, AnswerOwn
<1>7. ASSUME NEW p \in Procs, Drop(p) PROVE OwnInv'
  BY <1>7 DEF OwnInv, Drop, OwnResult
<1>8. ASSUME NEW i \in Ids, Purge(i) PROVE OwnInv'
  BY <1>8 DEF OwnInv, Purge, OwnResult
<1> QED BY <1>1, <1>2, <1>3, <1>4, <1>5, <1>6, <1>7, <1>8 DEF Next

(* A client is told "done" only by a result of its own account and kind,    *)
(* wherever it put its key and whoever else chose the same one              *)
(* (with_operation, OperationsRepository::find).                            *)
THEOREM OnlyOwnResults == Spec => []OwnResult
<1>1. Init => OwnInv BY DEF Init, OwnInv, OwnResult
<1>2. OwnInv /\ [Next]_vars => OwnInv' BY OwnStep
<1>3. OwnInv => OwnResult BY DEF OwnInv
<1> QED BY <1>1, <1>2, <1>3, PTL DEF Spec
=============================================================================
