-------------------------- MODULE ChangeLogProofs --------------------------
(* Proofs about ChangeLog, for any number of users, writers and clients: its *)
(* types, that rows become visible in the order of their seq, that no cursor *)
(* skips a change, and that clients replay a prefix of a growing stream.     *)
EXTENDS ChangeLogRefinement, FiniteSetTheorems, WellFoundedInduction, TLAPS

(* A bounded set of naturals has a greatest element. *)
LEMMA GreatestNatural ==
  ASSUME NEW S \in SUBSET Nat, NEW n \in Nat, S # {}, \A s \in S : s <= n
  PROVE  \E m \in S : \A s \in S : m >= s
<1> DEFINE T == {n - s : s \in S}
           R == OpToRel(<, Nat)
<1>1. T \subseteq Nat /\ T # {}
  <2>1. \A s \in S : n - s \in Nat OBVIOUS
  <2> QED BY <2>1
<1>2. IsWellFoundedOn(R, Nat) BY NatLessThanWellFounded
<1>3. PICK x \in T : \A y \in T : ~(<<y, x>> \in R)
  <2> HIDE DEF T, R
  <2> QED BY <1>1, <1>2, WFMin
<1>4. PICK m \in S : x = n - m OBVIOUS
<1>5. ASSUME NEW s \in S PROVE m >= s
  <2>1. ~(<<n - s, n - m>> \in R) BY <1>3, <1>4
  <2>2. n - s \in Nat /\ n - m \in Nat BY <1>1
  <2>3. ~(n - s < n - m) BY <2>1, <2>2 DEF OpToRel
  <2> QED BY <2>3
<1> QED BY <1>5

(* Newest is the greatest seq, that of a row where there is one. *)
LEMMA NewestOfRows ==
  ASSUME NEW R \in SUBSET Row, NEW n \in Nat, \A r \in R : r.seq <= n
  PROVE  /\ Newest(R) \in Nat
         /\ \A r \in R : r.seq <= Newest(R)
         /\ R # {} => \E r \in R : r.seq = Newest(R)
         /\ R = {} => Newest(R) = 0
<1>1. CASE R = {} BY <1>1 DEF Newest
<1>2. CASE R # {}
  <2>1. Seqs(R) \in SUBSET Nat /\ Seqs(R) # {} /\ \A s \in Seqs(R) : s <= n
    BY <1>2 DEF Seqs, Row
  <2>2. \E m \in Seqs(R) : \A s \in Seqs(R) : m >= s BY <2>1, GreatestNatural
  <2>3. Newest(R) \in Seqs(R) /\ \A s \in Seqs(R) : Newest(R) >= s BY <1>2, <2>2 DEF Newest, Max
  <2>4. Newest(R) \in Nat BY <2>1, <2>3
  <2>5. \A r \in R : r.seq \in Seqs(R) BY DEF Seqs
  <2>6. \A r \in R : r.seq <= Newest(R) BY <2>1, <2>3, <2>4, <2>5
  <2>7. \E r \in R : r.seq = Newest(R) BY <2>3 DEF Seqs
  <2> QED BY <1>2, <2>4, <2>6, <2>7
<1> QED BY <1>1, <1>2

LEMMA SettleType ==
  ASSUME NEW i, NEW R \in SUBSET Row, NEW n \in Nat, \A r \in R : r.seq <= n,
         NEW old \in Values
  PROVE  Settle(i, R, old) \in Values
<1> DEFINE mine == {r \in R : r.item = i}
<1>1. mine \in SUBSET Row /\ \A r \in mine : r.seq <= n OBVIOUS
<1>2. mine # {} => \E r \in mine : r.seq = Newest(mine) BY <1>1, NewestOfRows
<1> QED BY <1>1, <1>2 DEF Settle, Row
-----------------------------------------------------------------------------
(* The strengthening. No row is ahead of the sequence; only the holder of   *)
(* its user's lock has uncommitted rows; they are newer than what readers    *)
(* see; and a backup holds a part of the same past.                          *)
Drawn ==
  /\ \A r \in rows \cup history : r.seq <= nextSeq
  /\ \A w \in Writers : \A r \in tx[w].rows : r.seq <= nextSeq
  /\ \A r \in backup.rows \cup backup.history : r.seq <= backup.seq
Locked ==
  /\ \A w \in Writers : ~tx[w].open => tx[w].rows = {}
  /\ \A w \in Writers : \A r \in tx[w].rows : UserOfItem(r.item) = tx[w].user
  /\ \A v, w \in Writers : v # w /\ tx[v].user = tx[w].user
                             => tx[v].rows = {} \/ tx[w].rows = {}
Newer ==
  \A w \in Writers : \A r \in tx[w].rows, s \in history :
     UserOfItem(r.item) = UserOfItem(s.item) => r.seq > s.seq
Same == backup.history \subseteq history
JournalInv == Drawn /\ Locked /\ Newer /\ Same

(* Steps that touch neither the journal nor the transactions. *)
LEMMA JournalKept ==
  ASSUME JournalInv, UNCHANGED <<tx, nextSeq, history, backup>>, rows' \subseteq rows
  PROVE  JournalInv'
BY DEF JournalInv, Drawn, Locked, Newer, Same

LEMMA NoTxType == NoTx \in Tx
BY MailAssumption DEF NoTx, Tx

(* TypeOK and the strengthening hold together: a page's cursor is a number   *)
(* because no row is ahead of the sequence.                                  *)
LEMMA JournalStep ==
  ASSUME TypeOK, JournalInv, [Next]_vars PROVE TypeOK' /\ JournalInv'
<1> USE DEF clientVars, dbVars
<1>1. ASSUME NEW w \in Writers, NEW u \in Users, Begin(w, u) PROVE TypeOK' /\ JournalInv'
  <2>1. tx'[w] = [open |-> TRUE, user |-> u, born |-> now, rows |-> {}]
        /\ \A v \in Writers : v # w => tx'[v] = tx[v]
    BY <1>1 DEF Begin, TypeOK
  <2>2. tx'[w] \in Tx BY <2>1 DEF TypeOK, Tx
  <2>3. tx' \in [Writers -> Tx] BY <1>1, <2>1, <2>2 DEF Begin, TypeOK
  <2>4. JournalInv'
    BY <1>1, <2>1 DEF Begin, JournalInv, Drawn, Locked, Newer, Same
  <2> QED BY <1>1, <2>3, <2>4 DEF Begin, TypeOK
<1>2. ASSUME NEW w \in Writers, NEW i \in Items, NEW v \in Values, AppendChange(w, i, v)
      PROVE TypeOK' /\ JournalInv'
  <2> DEFINE row == [seq |-> nextSeq + 1, item |-> i, value |-> v, born |-> tx[w].born]
  <2>1. tx[w] \in Tx /\ row \in Row BY <1>2 DEF TypeOK, Tx, Row
  <2>2. /\ tx'[w] = [open |-> TRUE, user |-> tx[w].user, born |-> tx[w].born,
                     rows |-> tx[w].rows \cup {row}]
        /\ \A x \in Writers : x # w => tx'[x] = tx[x]
    BY <1>2, <2>1 DEF AppendChange, TypeOK, Tx
  <2>3. tx'[w] \in Tx BY <2>1, <2>2 DEF Tx
  <2>4. tx' \in [Writers -> Tx] BY <1>2, <2>2, <2>3 DEF AppendChange, TypeOK
  <2>5. nextSeq' = nextSeq + 1 /\ nextSeq \in Nat BY <1>2 DEF AppendChange, TypeOK
  <2>6. \A r \in rows \cup history : r \in Row BY DEF TypeOK
  <2>7. \A x \in Writers : \A r \in tx[x].rows : r \in Row BY DEF TypeOK, Tx
  <2>8. Drawn'
    <3>1. \A r \in rows' \cup history' : r.seq <= nextSeq'
      BY <1>2, <2>5, <2>6 DEF AppendChange, JournalInv, Drawn, Row
    <3>2. \A x \in Writers : \A r \in tx'[x].rows : r.seq <= nextSeq'
      BY <2>2, <2>5, <2>7 DEF JournalInv, Drawn, Row
    <3> QED BY <1>2, <3>1, <3>2 DEF AppendChange, JournalInv, Drawn
  <2>9. Locked'
    BY <1>2, <2>2 DEF AppendChange, LockFree, JournalInv, Locked
  <2>10. Newer'
    BY <1>2, <2>2, <2>5, <2>6 DEF AppendChange, JournalInv, Drawn, Newer, Row
  <2> QED BY <1>2, <2>4, <2>5, <2>8, <2>9, <2>10 DEF AppendChange, TypeOK, JournalInv, Same
<1>3. ASSUME NEW w \in Writers, Commit(w) PROVE TypeOK' /\ JournalInv'
  <2>1. tx[w] \in Tx /\ tx[w].rows \in SUBSET Row BY <1>3 DEF TypeOK, Tx
  <2>2. tx' \in [Writers -> Tx] BY <1>3, <2>1, NoTxType DEF Commit, TypeOK
  <2>3. tx'[w] = NoTx /\ \A x \in Writers : x # w => tx'[x] = tx[x] BY <1>3 DEF Commit, TypeOK
  <2>4. live' \in [Items -> Values]
    <3>1. \A i \in Items : Settle(i, tx[w].rows, live[i]) \in Values
      BY <2>1, SettleType DEF TypeOK, JournalInv, Drawn
    <3> QED BY <1>3, <3>1 DEF Commit
  <2>5. TypeOK' BY <1>3, <2>1, <2>2, <2>4 DEF Commit, TypeOK
  <2>6. Drawn' BY <1>3, <2>3 DEF Commit, JournalInv, Drawn, NoTx
  <2>7. Locked' BY <1>3, <2>3 DEF Commit, JournalInv, Locked, NoTx
  <2>8. Newer'
    <3> SUFFICES ASSUME NEW x \in Writers, NEW r \in tx'[x].rows, NEW s \in history',
                        UserOfItem(r.item) = UserOfItem(s.item)
                 PROVE r.seq > s.seq
      BY DEF Newer
    <3>1. x # w /\ r \in tx[x].rows BY <2>3 DEF NoTx
    <3>2. s \in history \/ s \in tx[w].rows BY <1>3 DEF Commit
    <3>3. s \notin tx[w].rows BY <3>1 DEF JournalInv, Locked
    <3> QED BY <3>1, <3>2, <3>3 DEF JournalInv, Newer
  <2>9. Same' BY <1>3 DEF Commit, JournalInv, Same
  <2> QED BY <2>5, <2>6, <2>7, <2>8, <2>9 DEF JournalInv
<1>4. ASSUME NEW w \in Writers, Rollback(w) PROVE TypeOK' /\ JournalInv'
  <2>2. tx' \in [Writers -> Tx] BY <1>4, NoTxType DEF Rollback, TypeOK
  <2>3. tx'[w] = NoTx /\ \A x \in Writers : x # w => tx'[x] = tx[x] BY <1>4 DEF Rollback, TypeOK
  <2>4. JournalInv'
    BY <1>4, <2>3 DEF Rollback, JournalInv, Drawn, Locked, Newer, Same, NoTx
  <2> QED BY <1>4, <2>2, <2>4 DEF Rollback, TypeOK
<1>5. ASSUME NEW c \in Clients, Conflict(c) \/ (\E step \in Call : Proceed(c, step)),
             UNCHANGED <<dbVars, backup>>, counts' \in [Count -> Nat]
      PROVE TypeOK' /\ JournalInv'
  <2>1. Absent \in Values BY MailAssumption
  <2>2. Nothing \in [Items -> Values] BY <2>1 DEF Nothing
  <2>3. /\ cache' \in [Clients -> [Items -> Values]]
        /\ cursor' \in [Clients -> Nat]
        /\ call' \in [Clients -> Call]
        /\ floor' = floor
    <3>1. CASE Conflict(c) BY <2>2, <3>1 DEF TypeOK, Conflict, Call
    <3>2. CASE \E step \in Call : Proceed(c, step) BY <3>2 DEF TypeOK, Proceed
    <3> QED BY <1>5, <3>1, <3>2
  <2> QED BY <1>5, <2>3, JournalKept DEF TypeOK
<1>6. ASSUME NEW c \in Clients, CheckLatest(c) \/ CheckOldest(c) \/ Lose(c)
      PROVE TypeOK' /\ JournalInv'
  <2>1. Conflict(c) \/ (\E step \in Call : Proceed(c, step))
    BY <1>6 DEF CheckLatest, CheckOldest, Lose, Call
  <2>2. counts' \in [Count -> Nat]
    BY <1>6 DEF TypeOK, CheckLatest, CheckOldest, Lose, Counted, Count
  <2>3. UNCHANGED <<dbVars, backup>> BY <1>6 DEF CheckLatest, CheckOldest, Lose
  <2> QED BY <1>5, <2>1, <2>2, <2>3
<1>7. ASSUME NEW c \in Clients, NEW limit \in 1..PageSize, ReadPage(c, limit)
      PROVE TypeOK' /\ JournalInv'
  <2>1. Page(c, limit) \in SUBSET Row /\ \A r \in Page(c, limit) : r.seq <= nextSeq
    BY DEF Page, Behind, InScope, TypeOK, JournalInv, Drawn
  <2>2. nextSeq \in Nat BY DEF TypeOK
  <2>3. Newest(Page(c, limit)) \in Nat BY <2>1, <2>2, NewestOfRows
  <2>4. InScope(c, history \ rows) \in SUBSET Row
        /\ \A r \in InScope(c, history \ rows) : r.seq <= nextSeq
    BY DEF InScope, TypeOK, JournalInv, Drawn
  <2>5. Newest(InScope(c, history \ rows)) \in Nat BY <2>2, <2>4, NewestOfRows
  <2>6. \A i \in Items : Settle(i, Page(c, limit), cache[c][i]) \in Values
    BY <2>1, <2>2, SettleType DEF TypeOK
  <2>7. [i \in Items |-> Settle(i, Page(c, limit), cache[c][i])] \in [Items -> Values] BY <2>6
  <2>8. cache' \in [Clients -> [Items -> Values]] BY <1>7, <2>7 DEF ReadPage, TypeOK
  <2>9. cursor' \in [Clients -> Nat] BY <1>7, <2>3 DEF ReadPage, TypeOK
  <2>10. floor' \in [Clients -> Nat] BY <1>7, <2>5 DEF ReadPage, TypeOK
  <2>11. call' \in [Clients -> Call] BY <1>7 DEF ReadPage, TypeOK, Call
  <2> QED BY <1>7, <2>8, <2>9, <2>10, <2>11, JournalKept DEF ReadPage, TypeOK
<1>8. CASE Tick BY <1>8, JournalKept DEF Tick, TypeOK
<1>9. CASE Prune
  <2>1. rows' \subseteq rows BY <1>9 DEF Prune
  <2> QED BY <1>9, <2>1, JournalKept DEF Prune, TypeOK, Counted, Upheaval, Count
<1>10. ASSUME NEW m \in Mailboxes, DeleteMailbox(m) PROVE TypeOK' /\ JournalInv'
  <2>1. rows' \subseteq rows BY <1>10 DEF DeleteMailbox
  <2>2. live' \in [Items -> Values] BY <1>10, MailAssumption DEF DeleteMailbox, TypeOK
  <2> QED BY <1>10, <2>1, <2>2, JournalKept DEF DeleteMailbox, TypeOK, Counted, Upheaval, Count
<1>11. CASE Backup
  <2>1. TypeOK' BY <1>11 DEF Backup, TypeOK
  <2>2. JournalInv' BY <1>11 DEF Backup, JournalInv, Drawn, Locked, Newer, Same
  <2> QED BY <2>1, <2>2
<1>12. CASE Restore
  <2>1. TypeOK' BY <1>12 DEF Restore, TypeOK, Counted, Upheaval, Count
  <2>2. \A w \in Writers : tx[w].rows = {} BY <1>12 DEF Restore, JournalInv, Locked
  <2>3. JournalInv' BY <1>12, <2>2 DEF Restore, JournalInv, Drawn, Locked, Newer, Same
  <2> QED BY <2>1, <2>3
<1>13. CASE UNCHANGED vars BY <1>13, JournalKept DEF vars, TypeOK
<1> QED
  BY <1>1, <1>2, <1>3, <1>4, <1>6, <1>7, <1>8, <1>9, <1>10, <1>11, <1>12, <1>13
  DEF Next, Write, Sync

LEMMA JournalInit == Init => TypeOK /\ JournalInv
<1> SUFFICES ASSUME Init PROVE TypeOK /\ JournalInv OBVIOUS
<1>1. Nothing \in [Items -> Values] BY MailAssumption DEF Nothing
<1>2. TypeOK BY <1>1, NoTxType DEF Init, TypeOK, Call, Count
<1>3. JournalInv BY DEF Init, JournalInv, Drawn, Locked, Newer, Same, NoTx
<1> QED BY <1>2, <1>3

(* So both always hold. *)
LEMMA JournalHolds == Spec => [](TypeOK /\ JournalInv)
<1>1. Init => TypeOK /\ JournalInv BY JournalInit
<1>2. TypeOK /\ JournalInv /\ [Next]_vars => TypeOK' /\ JournalInv' BY JournalStep
<1> QED BY <1>1, <1>2, PTL DEF Spec

(* TypeOK is an invariant: every statement and every page keeps the types.   *)
THEOREM ChangeLogTypes == Spec => []TypeOK
BY JournalHolds, PTL

(* The rows of a user become visible in the order of their seq, whatever     *)
(* transactions overlap, roll back, are pruned or restored: no reader's      *)
(* cursor can pass a row that has yet to appear.                             *)
THEOREM CommitsInOrder == Spec => CommitOrder
<1> DEFINE InOrder == \A r \in history' \ history, s \in history :
                        UserOfItem(r.item) = UserOfItem(s.item) => r.seq > s.seq
<1>1. Spec => [](TypeOK /\ JournalInv) BY JournalHolds
<1>2. TypeOK /\ JournalInv /\ [Next]_vars => [InOrder]_vars
  <2> SUFFICES ASSUME TypeOK, JournalInv, Next PROVE InOrder BY DEF vars
  <2>1. ASSUME NEW w \in Writers, Commit(w) PROVE InOrder
    BY <2>1 DEF Commit, JournalInv, Newer
  <2>2. CASE Restore BY <2>2 DEF Restore, JournalInv, Same
  <2>3. CASE history' = history BY <2>3
  <2> QED
    BY <2>1, <2>2, <2>3 DEF Next, Write, Sync, Begin, AppendChange, Rollback, CheckLatest,
       CheckOldest, ReadPage, Lose, Tick, Prune, Backup, DeleteMailbox, dbVars
<1> QED BY <1>1, <1>2, PTL DEF Spec, CommitOrder
-----------------------------------------------------------------------------
(* NoHole. Which rows a page, a prune or a restore leaves out decides what a *)
(* client may still be told; the strengthening says where the missing rows   *)
(* are. A user's seqs are his own, and everything that is kept was committed. *)
Owned(R) == \A r, s \in R : UserOfItem(r.item) = UserOfItem(s.item) /\ r.seq = s.seq => r = s
Kept ==
  /\ rows \subseteq history /\ backup.rows \subseteq backup.history
  /\ IsFiniteSet(rows) /\ IsFiniteSet(backup.rows)
  /\ Owned(history) /\ \A r \in history : r.seq > 0
  /\ \A w \in Writers : /\ IsFiniteSet(tx[w].rows) /\ Owned(tx[w].rows)
                        /\ \A r \in tx[w].rows : r.seq > 0

(* What was pruned of a user is older than what is left of him. *)
OldestFirst(R, H) ==
  \A r \in H \ R, s \in R :
     UserOfItem(r.item) = UserOfItem(s.item) /\ MailboxOf[r.item] \notin gone => r.seq < s.seq
PrunedFirst == OldestFirst(rows, history) /\ OldestFirst(backup.rows, backup.history)

(* What a client has not seen will be ahead of its cursor, unless the        *)
(* cursor is of a timeline that a restore ended ...                          *)
Ahead(c) ==
  \/ cursor[c] <= floor[c]
  \/ /\ cursor[c] <= nextSeq
     /\ \A w \in Writers : \A r \in tx[w].rows : UserOfItem(r.item) = UserOf[c] => r.seq > cursor[c]

(* ... and once its cursor has been checked, nothing ahead of it is missing. *)
PageSound(c) ==
  call[c] = "page" /\ cursor[c] > 0 =>
    \A r \in history \ rows : MailboxOf[r.item] \in ScopeOf[c] \ gone => r.seq <= cursor[c]

(* NoHole, row by row: x is the last change of i that the client has passed. *)
LastSeen(c, i, x) ==
  /\ x.item = i /\ x.seq <= cursor[c]
  /\ \A r \in history : r.item = i /\ r.seq <= cursor[c] => r.seq <= x.seq
Told(c, i) ==
  MailboxOf[i] \in ScopeOf[c] \ gone =>
    \A x \in history : LastSeen(c, i, x) /\ x.seq > floor[c] => cache[c][i] = x.value

ClientInv == \A c \in Clients : Ahead(c) /\ PageSound(c) /\ \A i \in Items : Told(c, i)
CursorInv == Kept /\ PrunedFirst /\ ClientInv

(* The rows of a user became durable in the order their transactions began,  *)
(* the order in which a prune removes them.                                  *)
BornInOrder ==
  \A r, s \in history :
     UserOfItem(r.item) = UserOfItem(s.item) /\ r.seq < s.seq => r.born <= s.born
NoLateRow == MaxPrunes = 0 \/ (~PruneOnline /\ BornInOrder)
-----------------------------------------------------------------------------
(* A row's value is what settles its item, if it is the last there is of it. *)
LEMMA SettleLast ==
  ASSUME NEW R \in SUBSET Row, NEW n \in Nat, \A r \in R : r.seq <= n, Owned(R),
         NEW x \in R, NEW i, x.item = i, \A r \in R : r.item = i => r.seq <= x.seq, NEW old
  PROVE  Settle(i, R, old) = x.value
<1> DEFINE mine == {r \in R : r.item = i}
<1>1. mine \in SUBSET Row /\ x \in mine /\ \A r \in mine : r.seq <= n OBVIOUS
<1>2. /\ Newest(mine) \in Nat /\ \A r \in mine : r.seq <= Newest(mine)
      /\ mine # {} => \E r \in mine : r.seq = Newest(mine)
  BY <1>1, NewestOfRows
<1>3. \A r \in mine : r.seq \in Nat /\ r.seq <= x.seq BY <1>1 DEF Row
<1>4. Newest(mine) = x.seq BY <1>1, <1>2, <1>3
<1>5. \A r \in mine : r.seq = Newest(mine) => r = x BY <1>1, <1>4 DEF Owned
<1>6. (CHOOSE r \in mine : r.seq = Newest(mine)) = x BY <1>1, <1>4, <1>5
<1>7. mine # {} BY <1>1
<1> QED BY <1>6, <1>7 DEF Settle

LEMMA SettleNone ==
  ASSUME NEW R, NEW i, \A r \in R : r.item # i, NEW old PROVE Settle(i, R, old) = old
BY DEF Settle

(* NoHole is what Told says of all clients and items. *)
LEMMA ToldIsNoHole ==
  ASSUME TypeOK, Drawn, Owned(history), \A c \in Clients, i \in Items : Told(c, i)
  PROVE  NoHole
<1> SUFFICES ASSUME NEW c \in Clients, NEW i \in Items,
                    MailboxOf[i] \in ScopeOf[c] \ gone,
                    Newest({r \in history : r.item = i /\ r.seq <= cursor[c]}) > floor[c]
             PROVE  cache[c][i] = Settle(i, {r \in history : r.item = i /\ r.seq <= cursor[c]}, Absent)
  BY DEF NoHole
<1> DEFINE seen == {r \in history : r.item = i /\ r.seq <= cursor[c]}
<1>1. seen \in SUBSET Row /\ nextSeq \in Nat /\ \A r \in seen : r.seq <= nextSeq
  BY DEF TypeOK, Drawn
<1>2. floor[c] \in Nat /\ cursor[c] \in Nat BY DEF TypeOK
<1>3. Owned(seen) BY DEF Owned
<1>4. Newest(seen) > floor[c] OBVIOUS
<1> HIDE DEF seen
<1>5. /\ Newest(seen) \in Nat /\ \A r \in seen : r.seq <= Newest(seen)
      /\ seen # {} => \E r \in seen : r.seq = Newest(seen)
      /\ seen = {} => Newest(seen) = 0
  BY <1>1, NewestOfRows
<1>6. PICK x \in seen : x.seq = Newest(seen) BY <1>2, <1>4, <1>5
<1>7. x.item = i /\ x \in history /\ \A r \in seen : r.item = i => r.seq <= x.seq
  BY <1>5, <1>6 DEF seen
<1>8. LastSeen(c, i, x) BY <1>5, <1>6 DEF LastSeen, seen
<1>9. cache[c][i] = x.value BY <1>4, <1>6, <1>7, <1>8 DEF Told
<1>10. Settle(i, seen, Absent) = x.value BY <1>1, <1>3, <1>6, <1>7, SettleLast
<1> QED BY <1>9, <1>10 DEF seen
-----------------------------------------------------------------------------
LEMMA KeptStep == ASSUME TypeOK, JournalInv, Kept, [Next]_vars PROVE Kept'
<1> USE DEF dbVars
<1>1. ASSUME UNCHANGED <<history, tx>>, rows' \subseteq rows,
             UNCHANGED backup \/ (backup'.rows = rows /\ backup'.history = history)
      PROVE  Kept'
  <2>1. IsFiniteSet(rows') /\ IsFiniteSet(backup'.rows) BY <1>1, FS_Subset DEF Kept
  <2> QED BY <1>1, <2>1 DEF Kept
<1>2. ASSUME NEW w \in Writers, NEW R, IsFiniteSet(R), Owned(R), \A r \in R : r.seq > 0,
             tx'[w].rows = R, \A v \in Writers : v # w => tx'[v] = tx[v]
      PROVE  \A v \in Writers : /\ IsFiniteSet(tx'[v].rows) /\ Owned(tx'[v].rows)
                                /\ \A r \in tx'[v].rows : r.seq > 0
  BY <1>2 DEF Kept
<1>3. IsFiniteSet({}) /\ Owned({}) BY FS_EmptySet DEF Owned
<1>4. ASSUME NEW w \in Writers, NEW u \in Users, Begin(w, u) PROVE Kept'
  <2>1. tx'[w].rows = {} /\ \A v \in Writers : v # w => tx'[v] = tx[v]
    BY <1>4 DEF Begin, TypeOK
  <2>2. UNCHANGED <<rows, history, backup>> BY <1>4 DEF Begin
  <2> QED BY <1>2, <1>3, <2>1, <2>2 DEF Kept
<1>5. ASSUME NEW w \in Writers, NEW i \in Items, NEW v \in Values, AppendChange(w, i, v) PROVE Kept'
  <2> DEFINE row == [seq |-> nextSeq + 1, item |-> i, value |-> v, born |-> tx[w].born]
             R == tx[w].rows \cup {row}
  <2>1. tx[w] \in Tx BY DEF TypeOK
  <2>2. tx'[w].rows = R /\ \A x \in Writers : x # w => tx'[x] = tx[x]
    BY <1>5, <2>1 DEF AppendChange, TypeOK, Tx
  <2>3. row.seq = nextSeq + 1 /\ nextSeq \in Nat BY DEF TypeOK
  <2>4. \A r \in tx[w].rows : r.seq \in Nat /\ r.seq <= nextSeq
    BY <2>1 DEF Tx, Row, JournalInv, Drawn
  <2> HIDE DEF row
  <2>5. Owned(R) BY <2>3, <2>4 DEF Kept, Owned
  <2>6. IsFiniteSet(R) BY FS_AddElement DEF Kept
  <2>7. \A r \in R : r.seq > 0 BY <2>3 DEF Kept
  <2>8. UNCHANGED <<rows, history, backup>> BY <1>5 DEF AppendChange
  <2> HIDE DEF R
  <2> QED BY <1>2, <2>2, <2>5, <2>6, <2>7, <2>8 DEF Kept
<1>6. ASSUME NEW w \in Writers, Commit(w) PROVE Kept'
  <2>1. tx'[w].rows = {} /\ \A v \in Writers : v # w => tx'[v] = tx[v]
    BY <1>6 DEF Commit, TypeOK, NoTx
  <2>2. /\ rows' = rows \cup tx[w].rows /\ history' = history \cup tx[w].rows
        /\ backup' = backup
    BY <1>6 DEF Commit
  <2>3. IsFiniteSet(rows') BY <2>2, FS_Union DEF Kept
  <2>4. Owned(history')
    <3> SUFFICES ASSUME NEW r \in history', NEW s \in history',
                        UserOfItem(r.item) = UserOfItem(s.item), r.seq = s.seq
                 PROVE r = s
      BY DEF Owned
    <3>1. \A x \in history : x.seq \in Nat BY DEF TypeOK, Row
    <3>2. \A x \in tx[w].rows : x.seq \in Nat BY DEF TypeOK, Tx, Row
    <3>3. \A x \in tx[w].rows, y \in history : UserOfItem(x.item) = UserOfItem(y.item) => x.seq # y.seq
      BY <3>1, <3>2 DEF JournalInv, Newer
    <3>4. CASE r \in history /\ s \in history BY <3>4 DEF Kept, Owned
    <3>5. CASE r \in tx[w].rows /\ s \in tx[w].rows BY <3>5 DEF Kept, Owned
    <3> QED BY <2>2, <3>3, <3>4, <3>5
  <2>5. \A r \in history' : r.seq > 0 BY <2>2 DEF Kept
  <2>6. \A v \in Writers : /\ IsFiniteSet(tx'[v].rows) /\ Owned(tx'[v].rows)
                           /\ \A r \in tx'[v].rows : r.seq > 0
    BY <1>2, <1>3, <2>1
  <2> QED BY <2>2, <2>3, <2>4, <2>5, <2>6 DEF Kept
<1>7. ASSUME NEW w \in Writers, Rollback(w) PROVE Kept'
  <2>1. tx'[w].rows = {} /\ \A v \in Writers : v # w => tx'[v] = tx[v]
    BY <1>7 DEF Rollback, TypeOK, NoTx
  <2>2. UNCHANGED <<rows, history, backup>> BY <1>7 DEF Rollback
  <2> QED BY <1>2, <1>3, <2>1, <2>2 DEF Kept
<1>8. ASSUME NEW c \in Clients, Sync(c) \/ Lose(c) PROVE Kept'
  BY <1>1, <1>8 DEF Sync, Lose, CheckLatest, CheckOldest, ReadPage
<1>9. CASE Tick \/ Prune \/ (\E m \in Mailboxes : DeleteMailbox(m))
  BY <1>1, <1>9 DEF Tick, Prune, DeleteMailbox
<1>10. CASE Backup BY <1>1, <1>10 DEF Backup
<1>11. CASE Restore
  <2>1. /\ rows' = backup.rows /\ history' = backup.history /\ backup.history \subseteq history
        /\ UNCHANGED <<tx, backup>>
    BY <1>11 DEF Restore, JournalInv, Same
  <2>2. Owned(history') /\ \A r \in history' : r.seq > 0 BY <2>1 DEF Kept, Owned
  <2> QED BY <2>1, <2>2 DEF Kept
<1>12. CASE UNCHANGED vars BY <1>1, <1>12 DEF vars
<1> QED
  BY <1>4, <1>5, <1>6, <1>7, <1>8, <1>9, <1>10, <1>11, <1>12 DEF Next, Write

LEMMA PrunedStep ==
  ASSUME TypeOK, JournalInv, Kept, PrunedFirst, NoLateRow, [Next]_vars PROVE PrunedFirst'
<1> USE DEF dbVars
<1>1. ASSUME gone \subseteq gone', UNCHANGED <<rows, history, backup>> PROVE PrunedFirst'
  BY <1>1 DEF PrunedFirst, OldestFirst
<1>2. ASSUME NEW w \in Writers, Commit(w) PROVE PrunedFirst'
  <2>1. /\ rows' = rows \cup tx[w].rows /\ history' = history \cup tx[w].rows
        /\ UNCHANGED <<backup, gone>>
    BY <1>2 DEF Commit
  <2>2. \A r \in history, s \in tx[w].rows : UserOfItem(r.item) = UserOfItem(s.item) => r.seq < s.seq
    <3>1. \A x \in history : x.seq \in Nat BY DEF TypeOK, Row
    <3>2. \A x \in tx[w].rows : x.seq \in Nat BY DEF TypeOK, Tx, Row
    <3> QED BY <3>1, <3>2 DEF JournalInv, Newer
  <2>3. OldestFirst(rows, history)' BY <2>1, <2>2 DEF PrunedFirst, OldestFirst
  <2>4. OldestFirst(backup.rows, backup.history)' BY <2>1 DEF PrunedFirst, OldestFirst
  <2> QED BY <2>3, <2>4 DEF PrunedFirst
<1>3. CASE Prune
  <2>1. /\ rows' = {r \in rows : r.born >= now - Retention}
        /\ UNCHANGED <<history, backup, gone>>
        /\ counts["prunes"] < MaxPrunes
    BY <1>3 DEF Prune, Upheaval, Counted
  <2>2. MaxPrunes # 0
    <3>1. counts["prunes"] \in Nat BY DEF TypeOK, Count
    <3> QED BY <2>1, <3>1
  <2>3. BornInOrder BY <2>2 DEF NoLateRow
  <2>4. ASSUME NEW r \in history \ rows', NEW s \in rows',
               UserOfItem(r.item) = UserOfItem(s.item), MailboxOf[r.item] \notin gone
        PROVE  r.seq < s.seq
    <3>1. CASE r \notin rows BY <2>1, <2>4, <3>1 DEF PrunedFirst, OldestFirst
    <3>2. CASE r \in rows
      <4>1. s \in history /\ s \in Row /\ r \in Row BY <2>1 DEF TypeOK, Kept
      <4>2. r.seq \in Nat /\ s.seq \in Nat /\ r.born \in Nat /\ s.born \in Nat BY <4>1 DEF Row
      <4>3. now - Retention \in Int BY NumberAssumption DEF TypeOK
      <4>4. r.born < now - Retention /\ s.born >= now - Retention BY <2>1, <3>2, <4>2, <4>3
      <4>5. r # s BY <2>4
      <4>6. r.seq # s.seq BY <2>4, <4>1, <4>5 DEF Kept, Owned
      <4>7. ~(s.seq < r.seq)
        <5>1. s.seq < r.seq => s.born <= r.born BY <2>3, <2>4, <4>1 DEF BornInOrder
        <5> QED BY <4>2, <4>3, <4>4, <5>1
      <4> QED BY <4>2, <4>6, <4>7
    <3> QED BY <3>1, <3>2
  <2> QED BY <2>1, <2>4 DEF PrunedFirst, OldestFirst
<1>4. ASSUME NEW m \in Mailboxes, DeleteMailbox(m) PROVE PrunedFirst'
  <2>1. /\ rows' = {r \in rows : MailboxOf[r.item] # m} /\ gone' = gone \cup {m}
        /\ UNCHANGED <<history, backup>>
    BY <1>4 DEF DeleteMailbox
  <2> QED BY <2>1 DEF PrunedFirst, OldestFirst
<1>5. CASE Backup BY <1>5 DEF Backup, PrunedFirst, OldestFirst
<1>6. CASE Restore BY <1>6 DEF Restore, PrunedFirst, OldestFirst
<1>7. ASSUME NEW w \in Writers, (\E u \in Users : Begin(w, u)) \/ Rollback(w)
             \/ (\E i \in Items, v \in Values : AppendChange(w, i, v))
      PROVE PrunedFirst'
  BY <1>1, <1>7 DEF Begin, Rollback, AppendChange
<1>8. ASSUME NEW c \in Clients, Sync(c) \/ Lose(c) PROVE PrunedFirst'
  BY <1>1, <1>8 DEF Sync, Lose, CheckLatest, CheckOldest, ReadPage
<1>9. CASE Tick BY <1>1, <1>9 DEF Tick
<1>10. CASE UNCHANGED vars BY <1>1, <1>10 DEF vars
<1> QED BY <1>2, <1>3, <1>4, <1>5, <1>6, <1>7, <1>8, <1>9, <1>10 DEF Next, Write
-----------------------------------------------------------------------------
(* The clients. A client whose cursor, copy and request a step leaves alone. *)
LEMMA UserOfScope ==
  ASSUME NEW c \in Clients, NEW i \in Items, MailboxOf[i] \in ScopeOf[c]
  PROVE  UserOfItem(i) = UserOf[c]
BY ClientAssumption, MailAssumption DEF UserOfItem

LEMMA ClientKept ==
  ASSUME TypeOK, TypeOK', Kept, NEW c \in Clients, Ahead(c), PageSound(c),
         \A i \in Items : Told(c, i),
         cursor'[c] = cursor[c], cache'[c] = cache[c], floor'[c] = floor[c],
         call'[c] = "page" => call[c] = "page" \/ cursor[c] = 0,
         history' = history, gone \subseteq gone',
         \A r \in history \ rows' : r \in rows => call[c] # "page" \/ MailboxOf[r.item] \in gone',
         nextSeq <= nextSeq',
         \A w \in Writers : \A r \in tx'[w].rows : r \in tx[w].rows \/ r.seq > nextSeq
  PROVE  Ahead(c)' /\ PageSound(c)' /\ \A i \in Items : Told(c, i)'
<1>1. cursor[c] \in Nat /\ floor[c] \in Nat /\ nextSeq \in Nat /\ nextSeq' \in Nat BY DEF TypeOK
<1>2. Ahead(c)'
  <2>1. CASE cursor[c] <= floor[c] BY <2>1 DEF Ahead
  <2>2. CASE cursor[c] <= nextSeq
             /\ \A w \in Writers : \A r \in tx[w].rows : UserOfItem(r.item) = UserOf[c] => r.seq > cursor[c]
    <3>1. cursor'[c] <= nextSeq' BY <1>1, <2>2
    <3>2. ASSUME NEW w \in Writers, NEW r \in tx'[w].rows, UserOfItem(r.item) = UserOf[c]
          PROVE  r.seq > cursor'[c]
      <4>1. CASE r \in tx[w].rows BY <2>2, <3>2, <4>1
      <4>2. CASE r.seq > nextSeq
        <5>1. r.seq \in Nat BY DEF TypeOK, Tx, Row
        <5> QED BY <1>1, <2>2, <4>2, <5>1
      <4> QED BY <4>1, <4>2
    <3> QED BY <3>1, <3>2 DEF Ahead
  <2> QED BY <2>1, <2>2 DEF Ahead
<1>3. PageSound(c)'
  <2> SUFFICES ASSUME call'[c] = "page", cursor'[c] > 0, NEW r \in history' \ rows',
                      MailboxOf[r.item] \in ScopeOf[c] \ gone'
               PROVE  r.seq <= cursor'[c]
    BY DEF PageSound
  <2>1. call[c] = "page" BY <1>1
  <2>2. r \notin rows BY <2>1
  <2> QED BY <2>1, <2>2 DEF PageSound
<1>4. ASSUME NEW i \in Items PROVE Told(c, i)'
  BY DEF Told, LastSeen
<1> QED BY <1>2, <1>3, <1>4

(* One that gives up its copy. *)
LEMMA ClientRestarts ==
  ASSUME TypeOK', Kept', NEW c \in Clients, cursor'[c] = 0
  PROVE  Ahead(c)' /\ PageSound(c)' /\ \A i \in Items : Told(c, i)'
<1>1. Ahead(c)' BY DEF Ahead, TypeOK
<1>2. PageSound(c)' BY DEF PageSound
<1>3. ASSUME NEW i \in Items PROVE Told(c, i)'
  <2>1. \A x \in history' : x.seq > 0 /\ x.seq \in Nat BY DEF Kept, TypeOK, Row
  <2>2. \A x \in history' : ~(x.seq <= 0) BY <2>1
  <2> QED BY <2>2 DEF Told, LastSeen
<1> QED BY <1>1, <1>2, <1>3

(* A page ends where it is cut: it has every row behind the cursor up to its last. *)
LEMMA PageIsCut ==
  ASSUME Kept, NEW c \in Clients, NEW limit \in Nat, NEW r \in Behind(c), NEW s \in Page(c, limit),
         r.seq \in Nat, s.seq \in Nat, r.seq <= s.seq, \A t \in Behind(c) : t.seq \in Nat
  PROVE  r \in Page(c, limit)
<1> DEFINE Below(x) == {t \in Behind(c) : t.seq < x.seq}
<1>1. IsFiniteSet(Behind(c))
  <2>1. Behind(c) \subseteq rows BY DEF Behind, InScope
  <2> QED BY <2>1, FS_Subset DEF Kept
<1>2. Below(s) \subseteq Behind(c) OBVIOUS
<1>3. IsFiniteSet(Below(s)) BY <1>1, <1>2, FS_Subset
<1>4. Below(r) \subseteq Below(s) OBVIOUS
<1>5. IsFiniteSet(Below(r)) /\ Cardinality(Below(r)) <= Cardinality(Below(s)) BY <1>3, <1>4, FS_Subset
<1>6. Cardinality(Below(r)) \in Nat /\ Cardinality(Below(s)) \in Nat BY <1>3, <1>5, FS_CardinalityType
<1>7. Cardinality(Below(s)) < limit BY DEF Page
<1>8. Cardinality(Below(r)) < limit BY <1>5, <1>6, <1>7
<1> QED BY <1>8 DEF Page

LEMMA PageStep ==
  ASSUME TypeOK, TypeOK', JournalInv, Kept, ClientInv, NEW c \in Clients,
         NEW limit \in 1..PageSize, ReadPage(c, limit)
  PROVE  Ahead(c)' /\ PageSound(c)' /\ \A i \in Items : Told(c, i)'
<1> DEFINE P == Page(c, limit)
<1>1. /\ cursor[c] \in Nat /\ floor[c] \in Nat /\ nextSeq \in Nat /\ limit \in Nat
      /\ \A r \in history : r \in Row /\ r.seq \in Nat /\ r.seq <= nextSeq /\ r.seq > 0
  BY NumberAssumption DEF TypeOK, JournalInv, Drawn, Kept, Row
<1>2. P \subseteq Behind(c) /\ Behind(c) \subseteq history /\ \A r \in Behind(c) : r \in rows /\ r.seq > cursor[c]
  BY DEF Page, Behind, InScope, Kept
<1>3. P \in SUBSET Row /\ \A r \in P : r.seq \in Nat /\ r.seq <= nextSeq /\ r.seq > cursor[c]
  BY <1>1, <1>2
<1>4. /\ cursor'[c] = IF P = {} THEN cursor[c] ELSE Newest(P)
      /\ cache'[c] = [i \in Items |-> Settle(i, P, cache[c][i])]
      /\ floor'[c] = IF cursor[c] = 0 THEN Newest(InScope(c, history \ rows)) ELSE floor[c]
      /\ call'[c] = "idle" /\ call[c] = "page"
      /\ UNCHANGED <<tx, nextSeq, rows, history, gone>>
  BY DEF ReadPage, TypeOK, dbVars
<1> HIDE DEF P
<1>5. /\ Newest(P) \in Nat /\ \A r \in P : r.seq <= Newest(P)
      /\ P # {} => \E r \in P : r.seq = Newest(P)
  BY <1>1, <1>3, NewestOfRows
<1>6. cursor[c] <= cursor'[c] /\ cursor'[c] \in Nat BY <1>1, <1>3, <1>4, <1>5
<1>7. /\ Newest(InScope(c, history \ rows)) \in Nat
      /\ \A r \in InScope(c, history \ rows) : r.seq <= Newest(InScope(c, history \ rows))
  <2>1. /\ InScope(c, history \ rows) \in SUBSET Row
        /\ \A r \in InScope(c, history \ rows) : r.seq <= nextSeq
    BY <1>1 DEF InScope
  <2> QED BY <1>1, <2>1, NewestOfRows
<1>8. Ahead(c)'
  <2>1. CASE P = {} /\ cursor[c] = 0
    <3>1. cursor'[c] = 0 /\ floor'[c] \in Nat BY <1>4, <1>7, <2>1
    <3> QED BY <3>1 DEF Ahead
  <2>2. CASE P = {} /\ cursor[c] # 0
    <3>1. cursor'[c] = cursor[c] /\ floor'[c] = floor[c] BY <1>4, <2>2
    <3> QED BY <1>4, <3>1 DEF ClientInv, Ahead
  <2>3. CASE P # {}
    <3>1. PICK r \in P : r.seq = Newest(P) BY <1>5, <2>3
    <3>2. cursor'[c] = r.seq /\ r.seq <= nextSeq' BY <1>3, <1>4, <2>3, <3>1
    <3>3. r \in history /\ UserOfItem(r.item) = UserOf[c]
      <4>1. r \in history /\ MailboxOf[r.item] \in ScopeOf[c] BY <1>2 DEF Behind, InScope
      <4>2. r.item \in Items BY <1>3 DEF Row
      <4> QED BY <4>1, <4>2, UserOfScope
    <3>4. ASSUME NEW w \in Writers, NEW s \in tx'[w].rows, UserOfItem(s.item) = UserOf[c]
          PROVE  s.seq > cursor'[c]
      BY <1>4, <3>2, <3>3, <3>4 DEF JournalInv, Newer
    <3> QED BY <3>2, <3>4 DEF Ahead
  <2> QED BY <2>1, <2>2, <2>3
<1>9. PageSound(c)' BY <1>4 DEF PageSound
<1>10. ASSUME NEW i \in Items, MailboxOf[i] \in ScopeOf[c] \ gone',
              NEW x \in history', LastSeen(c, i, x)', x.seq > floor'[c]
       PROVE  cache'[c][i] = x.value
  <2>1. /\ x \in history /\ x.item = i /\ x.seq <= cursor'[c] /\ x.seq \in Nat
        /\ \A r \in history : r.item = i /\ r.seq <= cursor'[c] => r.seq <= x.seq
    BY <1>1, <1>4, <1>10 DEF LastSeen
  <2>2. cache'[c][i] = Settle(i, P, cache[c][i]) BY <1>4
  <2>3. \A r \in P : r \in history /\ r.seq <= cursor'[c] BY <1>2, <1>4, <1>5 DEF P
  <2>4. CASE x.seq > cursor[c]
    <3>1. x \in rows
      <4>1. CASE cursor[c] = 0
        <5>1. x \in history \ rows => x \in InScope(c, history \ rows) BY <1>10, <2>1 DEF InScope
        <5>2. floor'[c] = Newest(InScope(c, history \ rows)) BY <1>4, <4>1
        <5>3. x \in history \ rows => x.seq <= floor'[c] BY <1>7, <5>1, <5>2
        <5>4. floor'[c] \in Nat /\ x.seq > floor'[c] BY <1>7, <1>10, <5>2
        <5>5. ~(x.seq <= floor'[c]) BY <2>1, <5>4
        <5> QED BY <2>1, <5>3, <5>5
      <4>2. CASE cursor[c] > 0
        <5>1. x \in history \ rows => x.seq <= cursor[c]
          BY <1>4, <1>10, <2>1, <4>2 DEF ClientInv, PageSound
        <5> QED BY <1>1, <2>1, <2>4, <5>1
      <4> QED BY <1>1, <4>1, <4>2
    <3>2. x \in Behind(c) BY <1>10, <2>1, <2>4, <3>1 DEF Behind, InScope
    <3>3. P # {} BY <1>1, <1>4, <2>1, <2>4
    <3>4. PICK s \in P : s.seq = Newest(P) BY <1>5, <3>3
    <3>5. x.seq <= s.seq /\ s.seq \in Nat BY <1>3, <1>4, <2>1, <3>3, <3>4
    <3>6. \A t \in Behind(c) : t.seq \in Nat BY <1>1, <1>2
    <3>7. x \in P BY <1>1, <2>1, <3>2, <3>5, <3>6, PageIsCut DEF P
    <3>8. \A r \in P : r.item = i => r.seq <= x.seq BY <2>1, <2>3
    <3>9. Owned(P) BY <2>3 DEF Kept, Owned
    <3>10. \A r \in P : r.seq <= nextSeq BY <1>3
    <3>11. P \in SUBSET Row /\ nextSeq \in Nat /\ x.item = i BY <1>1, <1>3, <2>1
    <3>12. Settle(i, P, cache[c][i]) = x.value BY <3>7, <3>8, <3>9, <3>10, <3>11, SettleLast
    <3> QED BY <2>2, <3>12
  <2>5. CASE ~(x.seq > cursor[c])
    <3>1. x.seq <= cursor[c] /\ cursor[c] > 0 BY <1>1, <2>1, <2>5
    <3>2. floor'[c] = floor[c] BY <1>4, <3>1
    <3>3. LastSeen(c, i, x)
      <4>1. \A r \in history : r.seq <= cursor[c] => r.seq <= cursor'[c] BY <1>1, <1>6
      <4> QED BY <2>1, <3>1, <4>1 DEF LastSeen
    <3>4. cache[c][i] = x.value BY <1>4, <1>10, <2>1, <3>2, <3>3 DEF ClientInv, Told
    <3>5. \A r \in P : r.item # i
      <4>1. \A r \in P : r.item = i => r.seq <= x.seq BY <2>1, <2>3
      <4>2. \A r \in P : ~(r.seq <= x.seq) BY <1>1, <1>3, <2>1, <3>1
      <4> QED BY <4>1, <4>2
    <3>6. Settle(i, P, cache[c][i]) = cache[c][i] BY <3>5, SettleNone
    <3> QED BY <2>2, <3>4, <3>6
  <2> QED BY <2>4, <2>5
<1>11. \A i \in Items : Told(c, i)' BY <1>10 DEF Told
<1> QED BY <1>8, <1>9, <1>11

(* A client's oldest_cursor is the seq of a row. *)
LEMMA OldestOfRows ==
  ASSUME NEW R \in SUBSET Row, R # {}
  PROVE  \E r \in R : r.seq = Min(Seqs(R))
<1> DEFINE L == OpToRel(<, Nat)
<1>1. Seqs(R) \subseteq Nat /\ Seqs(R) # {} BY DEF Seqs, Row
<1>2. PICK m \in Seqs(R) : \A s \in Seqs(R) : ~(<<s, m>> \in L)
  <2>1. IsWellFoundedOn(L, Nat) BY NatLessThanWellFounded
  <2> HIDE DEF L
  <2> QED BY <1>1, <2>1, WFMin
<1>3. ASSUME NEW s \in Seqs(R) PROVE m <= s
  <2>1. s \in Nat /\ m \in Nat BY <1>1
  <2>2. ~(s < m) BY <1>2, <2>1 DEF OpToRel
  <2> QED BY <2>1, <2>2
<1>4. Min(Seqs(R)) \in Seqs(R) BY <1>3 DEF Min
<1> QED BY <1>4 DEF Seqs

(* What commits was drawn after every cursor of its user: no client has     *)
(* passed it.                                                                *)
LEMMA ClientUnderCommit ==
  ASSUME TypeOK, Kept, NEW c \in Clients, Ahead(c), PageSound(c), \A i \in Items : Told(c, i),
         NEW w \in Writers, Commit(w)
  PROVE  Ahead(c)' /\ PageSound(c)' /\ \A i \in Items : Told(c, i)'
<1>1. /\ rows' = rows \cup tx[w].rows /\ history' = history \cup tx[w].rows
      /\ \A v \in Writers : tx'[v].rows \subseteq tx[v].rows
      /\ UNCHANGED <<nextSeq, gone, cursor, cache, floor, call>>
  BY DEF Commit, TypeOK, NoTx, clientVars
<1>2. cursor[c] \in Nat /\ floor[c] \in Nat BY DEF TypeOK
<1>3. Ahead(c)' BY <1>1 DEF Ahead
<1>4. PageSound(c)' BY <1>1 DEF PageSound
<1>5. ASSUME NEW i \in Items, MailboxOf[i] \in ScopeOf[c] \ gone,
             NEW x \in history', LastSeen(c, i, x)', x.seq > floor[c]
      PROVE  cache[c][i] = x.value
  <2>1. /\ x.item = i /\ x.seq <= cursor[c]
        /\ \A r \in history : r.item = i /\ r.seq <= cursor[c] => r.seq <= x.seq
    BY <1>1, <1>5 DEF LastSeen
  <2>2. x \in history
    <3>1. x \notin tx[w].rows
      <4>1. UserOfItem(x.item) = UserOf[c] BY <1>5, <2>1, UserOfScope
      <4>2. x \in tx[w].rows => x.seq \in Nat BY DEF TypeOK, Tx, Row
      <4>3. x \in tx[w].rows => ~(cursor[c] <= floor[c]) BY <1>2, <1>5, <2>1, <4>2
      <4>4. x \in tx[w].rows => ~(x.seq > cursor[c]) BY <1>2, <2>1, <4>2
      <4> QED BY <4>1, <4>3, <4>4 DEF Ahead
    <3> QED BY <1>1, <3>1
  <2>3. LastSeen(c, i, x) BY <2>1 DEF LastSeen
  <2> QED BY <1>5, <2>2, <2>3 DEF Told
<1>6. \A i \in Items : Told(c, i)' BY <1>1, <1>5 DEF Told
<1> QED BY <1>3, <1>4, <1>6

(* The check of oldest_cursor: what was pruned of the user is older than     *)
(* any row of his, so a cursor that reaches the oldest of them has passed it. *)
LEMMA OldestIsChecked ==
  ASSUME TypeOK, TypeOK', Kept, Kept', PrunedFirst, NEW c \in Clients,
         Ahead(c), PageSound(c), \A i \in Items : Told(c, i), CheckOldest(c)
  PROVE  Ahead(c)' /\ PageSound(c)' /\ \A i \in Items : Told(c, i)'
<1> DEFINE mine == RowsOf(UserOf[c], rows)
           o == Min(Seqs(mine))
<1>1. /\ UNCHANGED <<tx, nextSeq, rows, gone, history>>
      /\ call[c] = "oldest"
      /\ \/ mine = {} /\ Proceed(c, "idle")
         \/ mine # {} /\ TooOld(c, o) /\ Conflict(c)
         \/ mine # {} /\ ~TooOld(c, o) /\ Proceed(c, "page")
  BY DEF CheckOldest, dbVars
<1> HIDE DEF o
<1>2. CASE mine = {} /\ Proceed(c, "idle")
  <2>1. /\ cursor'[c] = cursor[c] /\ cache'[c] = cache[c] /\ floor'[c] = floor[c]
        /\ call'[c] = "idle"
    BY <1>2 DEF Proceed, TypeOK
  <2>2. nextSeq <= nextSeq' BY <1>1 DEF TypeOK
  <2>3. "idle" # "page" OBVIOUS
  <2> QED BY <1>1, <2>1, <2>2, <2>3, ClientKept
<1>3. CASE Conflict(c)
  <2>1. cursor'[c] = 0 BY <1>3 DEF Conflict, TypeOK
  <2> QED BY <2>1, ClientRestarts
<1>4. CASE mine # {} /\ ~TooOld(c, o) /\ Proceed(c, "page")
  <2>1. UNCHANGED <<cursor, cache, floor>> BY <1>4 DEF Proceed
  <2>2. Ahead(c)' BY <1>1, <2>1 DEF Ahead
  <2>3. ASSUME NEW i \in Items PROVE Told(c, i)' BY <1>1, <2>1 DEF Told, LastSeen
  <2>4. ASSUME NEW r \in history \ rows, MailboxOf[r.item] \in ScopeOf[c] \ gone
        PROVE  r.seq <= cursor[c]
    <3>1. mine \in SUBSET Row /\ mine \subseteq rows BY DEF RowsOf, TypeOK
    <3>2. PICK s \in mine : s.seq = o BY <1>4, <3>1, OldestOfRows DEF o
    <3>3. UserOfItem(s.item) = UserOf[c] /\ s \in rows BY <3>1 DEF RowsOf
    <3>4. r.item \in Items BY DEF TypeOK, Row
    <3>5. UserOfItem(r.item) = UserOf[c] BY <2>4, <3>4, UserOfScope
    <3>6. r.seq < s.seq BY <2>4, <3>3, <3>5 DEF PrunedFirst, OldestFirst
    <3>7. r.seq \in Nat /\ s.seq \in Nat /\ cursor[c] \in Nat BY <3>1 DEF TypeOK, Row
    <3>8. ~(cursor[c] < o - 1) BY <1>4 DEF TooOld
    <3> QED BY <3>2, <3>6, <3>7, <3>8
  <2>5. PageSound(c)' BY <1>1, <2>1, <2>4 DEF PageSound
  <2> QED BY <2>2, <2>3, <2>5
<1> QED BY <1>1, <1>2, <1>3, <1>4

(* The timeline a backup brings back: no cursor of before says anything of it. *)
LEMMA ClientUnderRestore ==
  ASSUME TypeOK, TypeOK', NEW c \in Clients, Restore
  PROVE  Ahead(c)' /\ PageSound(c)' /\ \A i \in Items : Told(c, i)'
<1>1. floor'[c] = cursor'[c] /\ call'[c] = "idle" /\ cursor'[c] \in Nat
  BY DEF Restore, TypeOK
<1>2. Ahead(c)' BY <1>1 DEF Ahead
<1>3. "idle" # "page" OBVIOUS
<1>4. PageSound(c)' BY <1>1, <1>3 DEF PageSound
<1>5. ASSUME NEW i \in Items PROVE Told(c, i)'
  <2>1. \A x \in history' : x.seq \in Nat BY DEF TypeOK, Row
  <2>2. \A x \in history' : x.seq <= cursor'[c] => ~(x.seq > floor'[c]) BY <1>1, <2>1
  <2> QED BY <2>2 DEF Told, LastSeen
<1> QED BY <1>2, <1>4, <1>5

(* Every step, seen by one client. *)
LEMMA ClientStep ==
  ASSUME TypeOK, TypeOK', JournalInv, CursorInv, Kept', NoLateRow, [Next]_vars, NEW c \in Clients
  PROVE  Ahead(c)' /\ PageSound(c)' /\ \A i \in Items : Told(c, i)'
<1> DEFINE Good == Ahead(c)' /\ PageSound(c)' /\ \A i \in Items : Told(c, i)'
<1>0. /\ Kept /\ PrunedFirst /\ ClientInv
      /\ Ahead(c) /\ PageSound(c) /\ \A i \in Items : Told(c, i)
  BY DEF CursorInv, ClientInv
<1>1. nextSeq \in Nat /\ nextSeq <= nextSeq BY DEF TypeOK
<1> HIDE DEF Good
(* Steps of others that leave the journal as it is. *)
<1>2. ASSUME cursor'[c] = cursor[c], cache'[c] = cache[c], floor'[c] = floor[c],
             call'[c] = call[c] \/ call'[c] = "idle", UNCHANGED <<history, rows, gone, nextSeq>>,
             \A w \in Writers : tx'[w].rows \subseteq tx[w].rows
      PROVE  Good
  <2>1. call'[c] = "page" => call[c] = "page" \/ cursor[c] = 0 BY <1>2
  <2>2. \A r \in history \ rows' : r \in rows => call[c] # "page" \/ MailboxOf[r.item] \in gone' BY <1>2
  <2>3. \A w \in Writers : \A r \in tx'[w].rows : r \in tx[w].rows \/ r.seq > nextSeq BY <1>2
  <2>4. gone \subseteq gone' /\ history' = history /\ nextSeq <= nextSeq' BY <1>1, <1>2
  <2> QED BY <1>0, <1>2, <2>1, <2>2, <2>3, <2>4, ClientKept DEF Good
<1>3. ASSUME NEW w \in Writers, NEW u \in Users, Begin(w, u) PROVE Good
  <2>1. \A v \in Writers : tx'[v].rows \subseteq tx[v].rows BY <1>3 DEF Begin, TypeOK
  <2> QED BY <1>2, <1>3, <2>1 DEF Begin, clientVars
<1>4. ASSUME NEW w \in Writers, NEW i \in Items, NEW v \in Values, AppendChange(w, i, v) PROVE Good
  <2> DEFINE row == [seq |-> nextSeq + 1, item |-> i, value |-> v, born |-> tx[w].born]
  <2>1. tx[w] \in Tx BY DEF TypeOK
  <2>2. tx'[w].rows = tx[w].rows \cup {row} /\ \A x \in Writers : x # w => tx'[x] = tx[x]
    BY <1>4, <2>1 DEF AppendChange, TypeOK, Tx
  <2>3. row.seq > nextSeq BY <1>1
  <2> HIDE DEF row
  <2>4. \A x \in Writers : \A r \in tx'[x].rows : r \in tx[x].rows \/ r.seq > nextSeq BY <2>2, <2>3
  <2>5. /\ UNCHANGED <<rows, history, gone, cursor, cache, floor, call>> /\ nextSeq' = nextSeq + 1
    BY <1>4 DEF AppendChange, clientVars
  <2>6. nextSeq <= nextSeq' BY <1>1, <2>5
  <2> QED BY <1>0, <2>4, <2>5, <2>6, ClientKept DEF Good
<1>5. ASSUME NEW w \in Writers, Commit(w) PROVE Good BY <1>0, <1>5, ClientUnderCommit DEF Good
<1>6. ASSUME NEW w \in Writers, Rollback(w) PROVE Good
  <2>1. \A v \in Writers : tx'[v].rows \subseteq tx[v].rows BY <1>6 DEF Rollback, TypeOK, NoTx
  <2> QED BY <1>2, <1>6, <2>1 DEF Rollback, clientVars
<1>7. ASSUME NEW d \in Clients, d # c, Sync(d) \/ Lose(d) PROVE Good
  <2>1. UNCHANGED dbVars BY <1>7 DEF Sync, Lose, CheckLatest, CheckOldest, ReadPage
  <2>2. /\ cursor'[c] = cursor[c] /\ cache'[c] = cache[c] /\ floor'[c] = floor[c]
        /\ call'[c] = call[c]
    BY <1>7 DEF Sync, Lose, CheckLatest, CheckOldest, ReadPage, Conflict, Proceed, TypeOK
  <2> QED BY <1>2, <2>1, <2>2 DEF dbVars
<1>8. ASSUME CheckLatest(c) PROVE Good
  <2>1. UNCHANGED dbVars BY <1>8 DEF CheckLatest
  <2>2. CASE Conflict(c)
    <3>1. cursor'[c] = 0 BY <2>2 DEF Conflict, TypeOK
    <3> QED BY <3>1, ClientRestarts DEF Good
  <2>3. CASE Proceed(c, IF cursor[c] = 0 THEN "page" ELSE "oldest")
    <3>1. /\ cursor'[c] = cursor[c] /\ cache'[c] = cache[c] /\ floor'[c] = floor[c]
          /\ call'[c] = IF cursor[c] = 0 THEN "page" ELSE "oldest"
      BY <2>3 DEF Proceed, TypeOK
    <3>2. "oldest" # "page" OBVIOUS
    <3>3. call'[c] = "page" => cursor[c] = 0 BY <3>1, <3>2
    <3>4. /\ UNCHANGED <<history, rows, gone, nextSeq, tx>>
      BY <2>1 DEF dbVars
    <3>5. nextSeq <= nextSeq' BY <1>1, <3>4
    <3> QED BY <1>0, <3>1, <3>3, <3>4, <3>5, ClientKept DEF Good
  <2> QED BY <1>8, <2>2, <2>3 DEF CheckLatest
<1>9. ASSUME CheckOldest(c) PROVE Good BY <1>0, <1>9, OldestIsChecked DEF Good
<1>10. ASSUME NEW limit \in 1..PageSize, ReadPage(c, limit) PROVE Good
  BY <1>0, <1>10, PageStep DEF Good
<1>11. ASSUME Lose(c) PROVE Good
  <2>1. /\ cursor'[c] = cursor[c] /\ cache'[c] = cache[c] /\ floor'[c] = floor[c]
        /\ call'[c] = "idle"
    BY <1>11 DEF Lose, Proceed, TypeOK
  <2>2. UNCHANGED <<tx, nextSeq, rows, gone, history>> BY <1>11 DEF Lose, dbVars
  <2>3. \A w \in Writers : tx'[w].rows \subseteq tx[w].rows BY <2>2
  <2>4. UNCHANGED <<history, rows, gone, nextSeq>> BY <2>2
  <2> QED BY <1>2, <2>1, <2>3, <2>4
<1>12. ASSUME Tick \/ Backup \/ UNCHANGED vars PROVE Good
  <2>1. UNCHANGED <<tx, nextSeq, rows, gone, history, cursor, cache, call, floor>>
    BY <1>12 DEF Tick, Backup, dbVars, clientVars, vars
  <2>2. /\ cursor'[c] = cursor[c] /\ cache'[c] = cache[c] /\ floor'[c] = floor[c]
        /\ call'[c] = call[c]
    BY <2>1
  <2>3. \A w \in Writers : tx'[w].rows \subseteq tx[w].rows BY <2>1
  <2>4. UNCHANGED <<history, rows, gone, nextSeq>> BY <2>1
  <2> QED BY <1>2, <2>2, <2>3, <2>4
<1>13. ASSUME Prune PROVE Good
  <2>1. counts["prunes"] \in Nat /\ counts["prunes"] < MaxPrunes
    BY <1>13 DEF Prune, Upheaval, Counted, TypeOK, Count
  <2>2. MaxPrunes # 0 BY <2>1
  <2>3. ~PruneOnline BY <2>2 DEF NoLateRow
  <2>4. call[c] = "idle" BY <1>13, <2>3 DEF Prune
  <2>5. "idle" # "page" OBVIOUS
  <2>6. UNCHANGED <<tx, nextSeq, gone, history, cursor, cache, call, floor>>
    BY <1>13 DEF Prune, clientVars
  <2>7. nextSeq <= nextSeq' BY <1>1, <2>6
  <2> QED BY <1>0, <2>4, <2>5, <2>6, <2>7, ClientKept DEF Good
<1>14. ASSUME NEW m \in Mailboxes, DeleteMailbox(m) PROVE Good
  <2>1. /\ rows' = {r \in rows : MailboxOf[r.item] # m} /\ gone' = gone \cup {m}
        /\ UNCHANGED <<tx, nextSeq, history, cursor, cache, call, floor>>
    BY <1>14 DEF DeleteMailbox, clientVars
  <2>2. \A r \in history \ rows' : r \in rows => MailboxOf[r.item] \in gone' BY <2>1
  <2>3. nextSeq <= nextSeq' BY <1>1, <2>1
  <2>4. gone \subseteq gone' BY <2>1
  <2> QED BY <1>0, <2>1, <2>2, <2>3, <2>4, ClientKept DEF Good
<1>15. ASSUME Restore PROVE Good BY <1>15, ClientUnderRestore DEF Good
<1>16. ASSUME NEW w \in Writers, Write(w) PROVE Good
  BY <1>3, <1>4, <1>5, <1>6, <1>16 DEF Write
<1>17. ASSUME NEW d \in Clients, Sync(d) \/ Lose(d) PROVE Good
  <2>1. CASE d = c BY <1>8, <1>9, <1>10, <1>11, <1>17, <2>1 DEF Sync
  <2>2. CASE d # c BY <1>7, <1>17, <2>2
  <2> QED BY <2>1, <2>2
<1>18. Good BY <1>12, <1>13, <1>14, <1>15, <1>16, <1>17 DEF Next
<1> QED BY <1>18 DEF Good
-----------------------------------------------------------------------------
LEMMA CursorStep ==
  ASSUME TypeOK, TypeOK', JournalInv, CursorInv, NoLateRow, [Next]_vars PROVE CursorInv'
<1>1. Kept' BY KeptStep DEF CursorInv
<1>2. PrunedFirst' BY PrunedStep DEF CursorInv
<1>3. ASSUME NEW c \in Clients PROVE Ahead(c)' /\ PageSound(c)' /\ \A i \in Items : Told(c, i)'
  BY <1>1, ClientStep
<1>4. ClientInv' BY <1>3 DEF ClientInv
<1> QED BY <1>1, <1>2, <1>4 DEF CursorInv

LEMMA CursorInit == Init => CursorInv
<1> SUFFICES ASSUME Init PROVE CursorInv OBVIOUS
<1>1. /\ rows = {} /\ history = {} /\ backup.rows = {} /\ backup.history = {}
      /\ \A w \in Writers : tx[w].rows = {}
      /\ \A c \in Clients : cursor[c] = 0 /\ floor[c] = 0
  BY DEF Init, NoTx
<1>2. Kept BY <1>1, FS_EmptySet DEF Kept, Owned
<1>3. PrunedFirst BY <1>1 DEF PrunedFirst, OldestFirst
<1>4. ClientInv BY <1>1 DEF ClientInv, Ahead, PageSound, Told
<1> QED BY <1>2, <1>3, <1>4 DEF CursorInv

LEMMA CursorNoHole == ASSUME TypeOK, JournalInv, CursorInv PROVE NoHole
BY ToldIsNoHole DEF CursorInv, Kept, ClientInv, JournalInv

(* No cursor skips a change, through overlapping transactions, rollbacks,    *)
(* lost answers, deletions and restores (NoHole), as long as rows become     *)
(* durable in the order of their created_at, by which prune_older_than       *)
(* deletes them, and no prune runs while a request is served.                *)
THEOREM CursorsSkipNothing ==
  ASSUME ~PruneOnline PROVE Spec /\ []BornInOrder => []NoHole
<1>1. Init => CursorInv BY CursorInit
<1>2. TypeOK /\ JournalInv /\ TypeOK' /\ CursorInv /\ BornInOrder /\ [Next]_vars => CursorInv'
  BY CursorStep DEF NoLateRow
<1>3. TypeOK /\ JournalInv /\ CursorInv => NoHole BY CursorNoHole
<1>4. Spec => [](TypeOK /\ JournalInv) BY JournalHolds
<1> QED BY <1>1, <1>2, <1>3, <1>4, PTL DEF Spec

(* Without prunes that order does not matter.                                *)
THEOREM CursorsSkipNothingUnpruned ==
  ASSUME MaxPrunes = 0 PROVE Spec => []NoHole
<1>1. Init => CursorInv BY CursorInit
<1>2. TypeOK /\ JournalInv /\ TypeOK' /\ CursorInv /\ [Next]_vars => CursorInv'
  BY CursorStep DEF NoLateRow
<1>3. TypeOK /\ JournalInv /\ CursorInv => NoHole BY CursorNoHole
<1>4. Spec => [](TypeOK /\ JournalInv) BY JournalHolds
<1> QED BY <1>1, <1>2, <1>3, <1>4, PTL DEF Spec
-----------------------------------------------------------------------------
(* The refinement. The stream of an account is its rows in the order of     *)
(* their seq. Rows with different seqs have different ranks, and every rank  *)
(* below their number is that of one.                                        *)
Apart(R) == IsFiniteSet(R) /\ R \subseteq Row /\ \A r, s \in R : r.seq = s.seq => r = s

LEMMA RankOfRow ==
  ASSUME NEW R, Apart(R), NEW r \in R
  PROVE  /\ Cardinality(R) \in Nat /\ Rank(R, r) \in 0..(Cardinality(R) - 1)
         /\ \A s \in R : Rank(R, s) = Rank(R, r) => s = r
<1> DEFINE Below(x) == {s \in R : s.seq < x.seq}
<1>1. \A s \in R : s.seq \in Nat BY DEF Apart, Row
<1>2. IsFiniteSet(R) /\ Cardinality(R) \in Nat BY FS_CardinalityType DEF Apart
<1>3. ASSUME NEW x \in R, NEW y \in R, x.seq < y.seq PROVE Rank(R, x) < Rank(R, y)
  <2>1. Below(x) \subseteq Below(y) /\ x \in Below(y) /\ x \notin Below(x) BY <1>1, <1>3
  <2>2. IsFiniteSet(Below(y)) BY <1>2, FS_Subset
  <2>3. /\ IsFiniteSet(Below(x)) /\ Cardinality(Below(x)) <= Cardinality(Below(y))
        /\ Cardinality(Below(y)) = Cardinality(Below(x)) => Below(y) = Below(x)
    BY <2>1, <2>2, FS_Subset
  <2>4. Cardinality(Below(x)) \in Nat /\ Cardinality(Below(y)) \in Nat
    BY <2>2, <2>3, FS_CardinalityType
  <2>5. Cardinality(Below(x)) # Cardinality(Below(y)) BY <2>1, <2>3
  <2> QED BY <2>3, <2>4, <2>5 DEF Rank
<1>4. Rank(R, r) \in 0..(Cardinality(R) - 1)
  <2>1. Below(r) \subseteq R /\ r \notin Below(r) BY <1>1
  <2>2. /\ IsFiniteSet(Below(r)) /\ Cardinality(Below(r)) <= Cardinality(R)
        /\ Cardinality(R) = Cardinality(Below(r)) => R = Below(r)
    BY <1>2, <2>1, FS_Subset
  <2>3. Cardinality(Below(r)) \in Nat BY <2>2, FS_CardinalityType
  <2>4. Cardinality(Below(r)) # Cardinality(R) BY <2>1, <2>2
  <2> QED BY <1>2, <2>2, <2>3, <2>4 DEF Rank
<1>5. ASSUME NEW s \in R, Rank(R, s) = Rank(R, r) PROVE s = r
  <2>1. Rank(R, r) \in Nat BY <1>2, <1>4
  <2>2. ~(s.seq < r.seq) /\ ~(r.seq < s.seq) BY <1>3, <1>5, <2>1
  <2>3. s.seq = r.seq BY <1>1, <2>2
  <2> QED BY <2>3 DEF Apart
<1> QED BY <1>2, <1>4, <1>5

LEMMA EveryRank ==
  ASSUME NEW R, Apart(R), NEW k \in 0..(Cardinality(R) - 1)
  PROVE  \E r \in R : Rank(R, r) = k
<1> DEFINE n == Cardinality(R)
           T == 0..(n - 1)
           f == [r \in R |-> Rank(R, r)]
<1>1. IsFiniteSet(R) /\ n \in Nat BY FS_CardinalityType DEF Apart
<1>2. IsFiniteSet(T) /\ Cardinality(T) = n
  <2>1. 0 \in Int /\ n - 1 \in Int BY <1>1
  <2>2. /\ IsFiniteSet(T) /\ Cardinality(T) = IF 0 > n - 1 THEN 0 ELSE (n - 1) - 0 + 1
    BY <2>1, FS_Interval
  <2> QED BY <1>1, <2>2
<1>3. f \in Injection(R, T)
  <2>1. \A r \in R : Rank(R, r) \in T BY RankOfRow
  <2>2. \A r, s \in R : f[r] = f[s] => r = s BY RankOfRow
  <2> QED BY <2>1, <2>2 DEF Injection, IsInjective
<1> HIDE DEF f, T
<1>4. f \in Surjection(R, T) BY <1>1, <1>2, <1>3, FS_Injection
<1>5. k \in T BY DEF T
<1>6. \E r \in R : f[r] = k BY <1>4, <1>5 DEF Surjection
<1> QED BY <1>6 DEF f

LEMMA InOrder ==
  ASSUME NEW R, Apart(R)
  PROVE  /\ Cardinality(R) \in Nat
         /\ InSeqOrder(R) \in Seq(R) /\ Len(InSeqOrder(R)) = Cardinality(R)
         /\ DOMAIN InSeqOrder(R) = 1..Cardinality(R)
         /\ \A k \in 1..Cardinality(R) : InSeqOrder(R)[k] \in R /\ Rank(R, InSeqOrder(R)[k]) = k - 1
         /\ \A r \in R : Rank(R, r) + 1 \in 1..Cardinality(R) /\ InSeqOrder(R)[Rank(R, r) + 1] = r
<1> DEFINE n == Cardinality(R)
<1>1. n \in Nat BY FS_CardinalityType DEF Apart
<1>2. InSeqOrder(R) = [k \in 1..n |-> CHOOSE r \in R : Rank(R, r) = k - 1] BY DEF InSeqOrder
<1>3. ASSUME NEW k \in 1..n PROVE InSeqOrder(R)[k] \in R /\ Rank(R, InSeqOrder(R)[k]) = k - 1
  <2>1. k - 1 \in 0..(n - 1) BY <1>1
  <2>2. \E r \in R : Rank(R, r) = k - 1 BY <2>1, EveryRank
  <2> QED BY <1>2, <2>2
<1>4. ASSUME NEW r \in R PROVE Rank(R, r) + 1 \in 1..n /\ InSeqOrder(R)[Rank(R, r) + 1] = r
  <2>1. Rank(R, r) \in 0..(n - 1) /\ \A s \in R : Rank(R, s) = Rank(R, r) => s = r BY RankOfRow
  <2>2. Rank(R, r) + 1 \in 1..n /\ (Rank(R, r) + 1) - 1 = Rank(R, r) BY <1>1, <2>1
  <2> QED BY <1>3, <2>1, <2>2
<1>5. DOMAIN InSeqOrder(R) = 1..n BY <1>2
<1>6. InSeqOrder(R) \in [1..n -> R] BY <1>2, <1>3
<1>7. InSeqOrder(R) \in Seq(R) /\ Len(InSeqOrder(R)) = n BY <1>1, <1>6
<1> QED BY <1>1, <1>3, <1>4, <1>5, <1>7

(* Rows that come after all of R are added at the end. *)
LEMMA OrderGrows ==
  ASSUME NEW Q, Apart(Q), NEW R, R \subseteq Q, \A r \in R, q \in Q \ R : r.seq < q.seq
  PROVE  /\ Apart(R) /\ Cardinality(R) <= Cardinality(Q) /\ IsPrefix(InSeqOrder(R), InSeqOrder(Q))
         /\ SubSeq(InSeqOrder(Q), 1, Cardinality(R)) = InSeqOrder(R)
<1>1. Apart(R) /\ Cardinality(R) <= Cardinality(Q) BY FS_Subset DEF Apart
<1>2. /\ Cardinality(R) \in Nat /\ Cardinality(Q) \in Nat
      /\ InSeqOrder(R) \in Seq(R) /\ Len(InSeqOrder(R)) = Cardinality(R)
      /\ InSeqOrder(Q) \in Seq(Q) /\ Len(InSeqOrder(Q)) = Cardinality(Q)
  BY <1>1, InOrder
<1>3. ASSUME NEW k \in 1..Cardinality(R) PROVE InSeqOrder(Q)[k] = InSeqOrder(R)[k]
  <2> DEFINE r == InSeqOrder(R)[k]
  <2>1. r \in R /\ Rank(R, r) = k - 1 BY <1>1, InOrder
  <2>2. {s \in Q : s.seq < r.seq} = {s \in R : s.seq < r.seq}
    <3>1. \A s \in Q : s.seq \in Nat BY DEF Apart, Row
    <3>2. \A s \in Q \ R : ~(s.seq < r.seq)
      <4>1. r.seq \in Nat BY <2>1, <3>1
      <4>2. \A s \in Q \ R : r.seq < s.seq BY <2>1
      <4> QED BY <3>1, <4>1, <4>2
    <3> QED BY <3>2
  <2>3. Rank(Q, r) = k - 1 BY <2>1, <2>2 DEF Rank
  <2>4. r \in Q BY <2>1
  <2> HIDE DEF r
  <2>5. InSeqOrder(Q)[Rank(Q, r) + 1] = r BY <2>4, InOrder
  <2>6. (k - 1) + 1 = k BY <1>2
  <2>7. InSeqOrder(Q)[k] = r BY <2>3, <2>5, <2>6
  <2> QED BY <2>7 DEF r
<1>4. SubSeq(InSeqOrder(Q), 1, Cardinality(R)) = InSeqOrder(R)
  <2>1. SubSeq(InSeqOrder(Q), 1, Cardinality(R)) = [k \in 1..Cardinality(R) |-> InSeqOrder(Q)[k]]
    BY <1>1, <1>2
  <2>2. InSeqOrder(R) = [k \in 1..Cardinality(R) |-> InSeqOrder(R)[k]]
    BY <1>2 DEF InSeqOrder
  <2> QED BY <1>3, <2>1, <2>2
<1>5. SubSeq(InSeqOrder(R), 1, Cardinality(R)) = InSeqOrder(R) BY <1>2
<1> QED BY <1>1, <1>2, <1>4, <1>5 DEF IsPrefix

LEMMA OrderHasAll == ASSUME NEW R, Apart(R) PROVE Range(InSeqOrder(R)) = R
<1>1. \A x \in Range(InSeqOrder(R)) : x \in R BY InOrder DEF Range
<1>2. \A r \in R : r \in Range(InSeqOrder(R)) BY InOrder DEF Range
<1> QED BY <1>1, <1>2

(* What a client has passed of its account, and the copy that makes.         *)
Seen(c) == {r \in RowsOf(UserOf[c], history) : r.seq <= cursor[c]}
CopyOf(c) == \A i \in Items : cache[c][i] = Settle(i, InScope(c, Seen(c)), Absent)

(* Nothing pruned, deleted or restored: no row is missing, for anyone.       *)
Unpruned == MaxPrunes = 0 /\ MaxDeletes = 0 /\ MaxRestores = 0
StreamInv == rows = history /\ \A c \in Clients : floor[c] = 0 /\ CopyOf(c)

LEMMA SettleTwice ==
  ASSUME NEW A \in SUBSET Row, NEW P \in SUBSET Row, NEW n \in Nat, \A r \in A \cup P : r.seq <= n,
         \A r \in A, s \in P : r.seq < s.seq, Owned(A \cup P), NEW i, NEW old
  PROVE  Settle(i, P, Settle(i, A, old)) = Settle(i, A \cup P, old)
<1>1. CASE \A r \in P : r.item # i
  <2> DEFINE M == {r \in A : r.item = i}
             N == {r \in A \cup P : r.item = i}
             Value(R) == IF R = {} THEN old ELSE (CHOOSE r \in R : r.seq = Newest(R)).value
  <2>1. N = M BY <1>1
  <2>2. Settle(i, A \cup P, old) = Settle(i, A, old)
    <3>1. Settle(i, A, old) = Value(M) BY DEF Settle
    <3>2. Settle(i, A \cup P, old) = Value(N) BY DEF Settle
    <3> HIDE DEF M, N, Value
    <3> QED BY <2>1, <3>1, <3>2
  <2>3. Settle(i, P, Settle(i, A, old)) = Settle(i, A, old) BY <1>1, SettleNone
  <2> QED BY <2>2, <2>3
<1>2. CASE \E r \in P : r.item = i
  <2> DEFINE mine == {r \in P : r.item = i}
  <2>1. mine \in SUBSET Row /\ mine # {} /\ \A r \in mine : r.seq <= n BY <1>2
  <2>2. /\ Newest(mine) \in Nat /\ \A r \in mine : r.seq <= Newest(mine)
        /\ \E r \in mine : r.seq = Newest(mine)
    BY <2>1, NewestOfRows
  <2>3. PICK x \in mine : x.seq = Newest(mine) BY <2>2
  <2>4. x \in P /\ x.item = i /\ \A r \in P : r.item = i => r.seq <= x.seq BY <2>2, <2>3
  <2>5. \A r \in A \cup P : r.item = i => r.seq <= x.seq
    <3>1. \A r \in A \cup P : r.seq \in Nat BY DEF Row
    <3>2. \A r \in A : r.seq <= x.seq BY <2>4, <3>1
    <3> QED BY <2>4, <3>2
  <2>6. Owned(P) BY DEF Owned
  <2>7. \A r \in P : r.seq <= n OBVIOUS
  <2>8. Settle(i, P, Settle(i, A, old)) = x.value BY <2>4, <2>6, <2>7, SettleLast
  <2>9. A \cup P \in SUBSET Row /\ x \in A \cup P BY <2>4
  <2>10. Settle(i, A \cup P, old) = x.value BY <2>4, <2>5, <2>9, SettleLast
  <2> QED BY <2>8, <2>10
<1> QED BY <1>1, <1>2

LEMMA UserRowsApart ==
  ASSUME TypeOK, Kept, rows = history, NEW u \in Users PROVE Apart(RowsOf(u, history))
<1>1. IsFiniteSet(RowsOf(u, history))
  <2>1. RowsOf(u, history) \subseteq rows BY DEF RowsOf
  <2> QED BY <2>1, FS_Subset DEF Kept
<1>2. RowsOf(u, history) \subseteq Row BY DEF RowsOf, TypeOK
<1>3. \A r, s \in RowsOf(u, history) : r.seq = s.seq => r = s BY DEF RowsOf, Kept, Owned
<1> QED BY <1>1, <1>2, <1>3 DEF Apart

(* A commit leaves alone what the clients have passed. *)
LEMMA CommitPassesNobody ==
  ASSUME TypeOK, JournalInv, Kept, NEW c \in Clients, Ahead(c), floor[c] = 0,
         NEW w \in Writers, Commit(w)
  PROVE  Seen(c)' = Seen(c)
<1>1. history' = history \cup tx[w].rows /\ cursor' = cursor BY DEF Commit, clientVars
<1>2. cursor[c] \in Nat BY DEF TypeOK
<1>3. ASSUME NEW r \in tx[w].rows, UserOfItem(r.item) = UserOf[c] PROVE ~(r.seq <= cursor[c])
  <2>1. r.seq \in Nat /\ r.seq > 0 BY DEF TypeOK, Tx, Row, Kept
  <2>2. CASE cursor[c] <= floor[c] BY <1>2, <2>1, <2>2
  <2>3. CASE r.seq > cursor[c] BY <1>2, <2>1, <2>3
  <2> QED BY <1>3, <2>2, <2>3 DEF Ahead
<1> QED BY <1>1, <1>3 DEF Seen, RowsOf

LEMMA CommitPublishes ==
  ASSUME TypeOK, TypeOK', JournalInv, Kept, Kept', rows = history, rows' = history',
         \A c \in Clients : Seen(c)' = Seen(c),
         NEW w \in Writers, Commit(w), tx[w].rows # {}
  PROVE  \E u \in Users : Stream!Publish(u)
<1>0. PICK u \in Users : u = tx[w].user BY DEF TypeOK, Tx
<1> DEFINE R == RowsOf(u, history)
           Q == RowsOf(u, history \cup tx[w].rows)
<1>1. /\ history' = history \cup tx[w].rows /\ UNCHANGED <<cursor, cache>>
  BY DEF Commit, clientVars
<1>2. tx[w] \in Tx /\ \A r \in tx[w].rows : UserOfItem(r.item) = u
  BY <1>0 DEF TypeOK, Tx, JournalInv, Locked
<1>3. Q = R \cup tx[w].rows BY <1>2 DEF RowsOf
<1>4. Apart(Q)
  <2>2. IsFiniteSet(history')
    <3>1. history' = rows' OBVIOUS
    <3> QED BY <3>1 DEF Kept
  <2>3. Q \subseteq history' BY <1>1 DEF RowsOf
  <2>4. IsFiniteSet(Q) BY <2>2, <2>3, FS_Subset
  <2>5. \A r, s \in Q : r.seq = s.seq => r = s BY <1>1 DEF RowsOf, Kept, Owned
  <2>6. Q \subseteq Row BY <2>3 DEF TypeOK
  <2> QED BY <2>4, <2>5, <2>6 DEF Apart
<1>5. \A r \in R, q \in Q \ R : r.seq < q.seq
  <2>1. \A q \in Q \ R : q \in tx[w].rows BY <1>3
  <2>2. \A r \in R, q \in tx[w].rows : q.seq > r.seq BY <1>2 DEF RowsOf, JournalInv, Newer
  <2>3. \A r \in Q : r.seq \in Nat BY <1>4 DEF Apart, Row
  <2> QED BY <1>3, <2>1, <2>2, <2>3
<1>6. R \subseteq Q BY <1>3
<1>7. StreamOf(u) = InSeqOrder(R) /\ StreamOf(u)' = InSeqOrder(Q) BY <1>1 DEF StreamOf
<1>8. Q # R
  <2>1. \A r \in tx[w].rows : r \notin history
    <3>1. \A r \in tx[w].rows : r.seq \in Nat BY <1>2 DEF Tx, Row
    <3>2. \A r \in tx[w].rows : ~(r.seq > r.seq) BY <3>1
    <3> QED BY <3>2 DEF JournalInv, Newer
  <2> QED BY <1>3, <2>1 DEF RowsOf
<1> HIDE DEF R, Q
<1>9. Apart(R) /\ IsPrefix(InSeqOrder(R), InSeqOrder(Q)) BY <1>4, <1>5, <1>6, OrderGrows
<1>10. InSeqOrder(Q) # InSeqOrder(R) BY <1>4, <1>8, <1>9, OrderHasAll
<1>11. \A v \in Users \ {u} : StreamOf(v)' = StreamOf(v)
  <2>1. \A v \in Users \ {u} : RowsOf(v, history') = RowsOf(v, history) BY <1>1, <1>2 DEF RowsOf
  <2> QED BY <2>1 DEF StreamOf
<1>12. \A c \in Clients : PositionOf(c)' = PositionOf(c) BY DEF PositionOf, Seen
<1>13. StreamOf(u)' # StreamOf(u) /\ IsPrefix(StreamOf(u), StreamOf(u)') BY <1>7, <1>9, <1>10
<1>14. Stream!Publish(u)
  <2>1. [v \in Users |-> StreamOf(v)]'[u] # [v \in Users |-> StreamOf(v)][u]
        /\ Stream!IsPrefix([v \in Users |-> StreamOf(v)][u], [v \in Users |-> StreamOf(v)]'[u])
    BY <1>13 DEF IsPrefix, Stream!IsPrefix
  <2>2. \A v \in Users \ {u} : [x \in Users |-> StreamOf(x)]'[v] = [x \in Users |-> StreamOf(x)][v]
    BY <1>11
  <2>3. [c \in Clients |-> PositionOf(c)]' = [c \in Clients |-> PositionOf(c)] BY <1>12
  <2> QED BY <1>1, <2>1, <2>2, <2>3 DEF Stream!Publish
<1> QED BY <1>14

(* A page brings a client every row of its scope up to the new cursor.       *)
LEMMA PageBrings ==
  ASSUME TypeOK, JournalInv, Kept, rows = history, NEW c \in Clients,
         NEW limit \in 1..PageSize, ReadPage(c, limit)
  PROVE  /\ InScope(c, Seen(c)') = InScope(c, Seen(c)) \cup Page(c, limit)
         /\ Seen(c) \subseteq Seen(c)'
         /\ \A r \in InScope(c, Seen(c)), s \in Page(c, limit) : r.seq < s.seq
<1> DEFINE P == Page(c, limit)
<1>1. /\ cursor[c] \in Nat /\ nextSeq \in Nat /\ limit \in Nat
      /\ \A r \in history : r \in Row /\ r.seq \in Nat /\ r.seq <= nextSeq
  BY NumberAssumption DEF TypeOK, JournalInv, Drawn, Row
<1>2. P \subseteq Behind(c) /\ \A r \in Behind(c) :
        /\ r \in history /\ r.seq > cursor[c]
        /\ MailboxOf[r.item] \in ScopeOf[c] /\ UserOfItem(r.item) = UserOf[c]
  <2>1. \A r \in Behind(c) : r \in history /\ MailboxOf[r.item] \in ScopeOf[c] /\ r.seq > cursor[c]
    BY DEF Behind, InScope
  <2>2. \A r \in Behind(c) : r.item \in Items BY <1>1, <2>1 DEF Row
  <2> QED BY <2>1, <2>2, UserOfScope DEF Page
<1>3. P \in SUBSET Row /\ \A r \in P : r.seq \in Nat /\ r.seq <= nextSeq /\ r.seq > cursor[c]
  BY <1>1, <1>2
<1>4. cursor'[c] = (IF P = {} THEN cursor[c] ELSE Newest(P)) /\ history' = history
  BY DEF ReadPage, TypeOK, dbVars
<1> HIDE DEF P
<1>5. /\ Newest(P) \in Nat /\ \A r \in P : r.seq <= Newest(P)
      /\ P # {} => \E r \in P : r.seq = Newest(P)
  BY <1>1, <1>3, NewestOfRows
<1>6. cursor[c] <= cursor'[c] /\ cursor'[c] \in Nat BY <1>1, <1>3, <1>4, <1>5
<1>7. Seen(c)' = {r \in RowsOf(UserOf[c], history) : r.seq <= cursor'[c]} BY <1>4 DEF Seen
<1>8. \A r \in Seen(c) : r \in history /\ r.seq \in Nat /\ r.seq <= cursor[c] BY <1>1 DEF Seen, RowsOf
<1>9. Seen(c) \subseteq Seen(c)'
  <2>1. \A r \in Seen(c) : r.seq <= cursor'[c] BY <1>1, <1>6, <1>8
  <2> QED BY <1>7, <2>1 DEF Seen
<1>10. \A r \in P : r.seq <= cursor'[c] BY <1>4, <1>5
<1>11. P \subseteq InScope(c, Seen(c)') BY <1>2, <1>7, <1>10 DEF InScope, RowsOf
<1>12. ASSUME NEW r \in InScope(c, Seen(c)'), r \notin InScope(c, Seen(c)) PROVE r \in P
  <2>1. r \in RowsOf(UserOf[c], history) /\ r.seq <= cursor'[c] /\ r.seq \in Nat
        /\ MailboxOf[r.item] \in ScopeOf[c] /\ r \in history
    BY <1>1, <1>7 DEF InScope, RowsOf
  <2>2. ~(r.seq <= cursor[c]) BY <1>12, <2>1 DEF InScope, Seen
  <2>3. r \in Behind(c) BY <1>1, <2>1, <2>2 DEF Behind, InScope
  <2>4. P # {} BY <1>4, <2>1, <2>2
  <2>5. PICK s \in P : s.seq = Newest(P) BY <1>5, <2>4
  <2>6. r.seq <= s.seq /\ s.seq \in Nat BY <1>3, <1>4, <2>1, <2>4, <2>5
  <2>7. \A t \in Behind(c) : t.seq \in Nat BY <1>1, <1>2
  <2> QED BY <1>1, <2>1, <2>3, <2>6, <2>7, PageIsCut DEF P
<1>13. InScope(c, Seen(c)) \subseteq InScope(c, Seen(c)') BY <1>9 DEF InScope
<1>14. \A r \in InScope(c, Seen(c)), s \in P : r.seq < s.seq
  <2>1. \A r \in InScope(c, Seen(c)) : r.seq \in Nat /\ r.seq <= cursor[c] BY <1>8 DEF InScope
  <2> QED BY <1>1, <1>3, <2>1
<1> QED BY <1>9, <1>11, <1>12, <1>13, <1>14 DEF P

LEMMA PageAdvances ==
  ASSUME TypeOK, TypeOK', JournalInv, Kept, rows = history, NEW c \in Clients, CopyOf(c),
         NEW limit \in 1..PageSize, ReadPage(c, limit)
  PROVE  CopyOf(c)' /\ Stream!Advance(c)
<1> DEFINE P == Page(c, limit)
           A == InScope(c, Seen(c))
           B == InScope(c, Seen(c)')
           H == RowsOf(UserOf[c], history)
<1>1. B = A \cup P /\ Seen(c) \subseteq Seen(c)' /\ \A r \in A, s \in P : r.seq < s.seq
  BY PageBrings
<1>2. /\ \A i \in Items : cache'[c][i] = Settle(i, P, cache[c][i])
      /\ history' = history /\ \A d \in Clients \ {c} : cursor'[d] = cursor[d] /\ cache'[d] = cache[d]
  BY DEF ReadPage, TypeOK, dbVars
<1>3. /\ B \subseteq history /\ nextSeq \in Nat
      /\ \A r \in history : r \in Row /\ r.seq \in Nat /\ r.seq <= nextSeq
  BY <1>2 DEF InScope, Seen, RowsOf, TypeOK, JournalInv, Drawn, Row
<1>4. \A i \in Items : cache'[c][i] = Settle(i, B, Absent)
  <2>1. A \in SUBSET Row /\ P \in SUBSET Row /\ \A r \in A \cup P : r.seq <= nextSeq BY <1>1, <1>3
  <2>2. Owned(A \cup P) BY <1>1, <1>3 DEF Owned, Kept
  <2> HIDE DEF A, P, B
  <2>3. \A i \in Items : Settle(i, P, Settle(i, A, Absent)) = Settle(i, A \cup P, Absent)
    BY <1>1, <1>3, <2>1, <2>2, SettleTwice
  <2>4. \A i \in Items : cache[c][i] = Settle(i, A, Absent) BY DEF CopyOf, A
  <2> QED BY <1>1, <1>2, <2>3, <2>4
<1>5. CopyOf(c)' BY <1>4 DEF CopyOf, InScope
<1>6. UserOf[c] \in Users BY ClientAssumption
<1>7. Apart(H) BY <1>6, UserRowsApart
<1>8. /\ Seen(c)' \subseteq H
      /\ \A r \in Seen(c)', q \in H \ Seen(c)' : r.seq < q.seq
  <2>1. Seen(c)' = {r \in H : r.seq <= cursor'[c]} BY <1>2 DEF Seen
  <2>2. \A r \in H : r.seq \in Nat BY <1>3 DEF RowsOf
  <2>3. cursor'[c] \in Nat BY DEF TypeOK
  <2> QED BY <2>1, <2>2, <2>3
<1> HIDE DEF H
<1>9. /\ Apart(Seen(c)') /\ Cardinality(Seen(c)') <= Cardinality(H)
      /\ SubSeq(InSeqOrder(H), 1, Cardinality(Seen(c)')) = InSeqOrder(Seen(c)')
  BY <1>7, <1>8, OrderGrows
<1>10. Range(InSeqOrder(Seen(c)')) = Seen(c)' BY <1>9, OrderHasAll
<1>11. StreamOf(UserOf[c]) = InSeqOrder(H) /\ Len(InSeqOrder(H)) = Cardinality(H)
       /\ Cardinality(H) \in Nat
  BY <1>7, InOrder DEF StreamOf, H
<1>12. PositionOf(c) = Cardinality(Seen(c)) /\ PositionOf(c)' = Cardinality(Seen(c)')
  BY DEF PositionOf, Seen
<1>13. Cardinality(Seen(c)) \in Nat /\ Cardinality(Seen(c)') \in Nat
       /\ Cardinality(Seen(c)) <= Cardinality(Seen(c)')
  <2>1. IsFiniteSet(Seen(c)') BY <1>9 DEF Apart
  <2> QED BY <1>1, <2>1, FS_Subset, FS_CardinalityType
<1>14. PositionOf(c)' \in PositionOf(c)..Len(StreamOf(UserOf[c])) BY <1>9, <1>11, <1>12, <1>13
<1>15. cache'[c] = ReplayOf(c, SubSeq(StreamOf(UserOf[c]), 1, PositionOf(c)'))
  <2>1. SubSeq(StreamOf(UserOf[c]), 1, PositionOf(c)') = InSeqOrder(Seen(c)') BY <1>9, <1>11, <1>12
  <2>2. ReplayOf(c, InSeqOrder(Seen(c)')) = [i \in Items |-> Settle(i, B, Absent)]
    BY <1>10 DEF ReplayOf
  <2>3. cache'[c] \in [Items -> Values] BY DEF TypeOK
  <2>4. cache'[c] = [i \in Items |-> Settle(i, B, Absent)] BY <1>4, <2>3
  <2> QED BY <2>1, <2>2, <2>4
<1>16. \A d \in Clients \ {c} : PositionOf(d)' = PositionOf(d) BY <1>2 DEF PositionOf
<1>17. \A u \in Users : StreamOf(u)' = StreamOf(u) BY <1>2 DEF StreamOf
<1>18. Stream!Advance(c)
  BY <1>2, <1>6, <1>14, <1>15, <1>16, <1>17 DEF Stream!Advance
<1> QED BY <1>5, <1>18

LEMMA ConflictStartsOver ==
  ASSUME TypeOK, Kept, NEW c \in Clients, Conflict(c), history' = history
  PROVE  CopyOf(c)' /\ Stream!StartOver(c)
<1>1. /\ cursor'[c] = 0 /\ cache'[c] = Nothing
      /\ \A d \in Clients \ {c} : cursor'[d] = cursor[d] /\ cache'[d] = cache[d]
  BY DEF Conflict, TypeOK
<1>2. Seen(c)' = {} 
  <2>1. \A r \in history : r.seq \in Nat /\ r.seq > 0 BY DEF Kept, TypeOK, Row
  <2> QED BY <1>1, <2>1 DEF Seen, RowsOf
<1>3. CopyOf(c)'
  <2>1. InScope(c, {}) = {} BY DEF InScope
  <2>2. \A i \in Items : Settle(i, {}, Absent) = Absent BY DEF Settle
  <2>3. \A i \in Items : cache'[c][i] = Absent BY <1>1 DEF Nothing
  <2> QED BY <1>2, <2>1, <2>2, <2>3 DEF CopyOf, InScope
<1>4. PositionOf(c)' = 0
  <2>1. PositionOf(c)' = Cardinality({}) BY <1>2 DEF PositionOf, Seen
  <2> QED BY <2>1, FS_EmptySet
<1>5. \A d \in Clients \ {c} : PositionOf(d)' = PositionOf(d) BY <1>1 DEF PositionOf
<1>6. \A u \in Users : StreamOf(u)' = StreamOf(u) BY DEF StreamOf
<1>7. Stream!StartOver(c) BY <1>1, <1>4, <1>5, <1>6 DEF Stream!StartOver
<1> QED BY <1>3, <1>7
-----------------------------------------------------------------------------
LEMMA StreamStep ==
  ASSUME Unpruned, TypeOK, TypeOK', JournalInv, CursorInv, CursorInv', StreamInv, [Next]_vars
  PROVE  /\ StreamInv'
         /\ \/ Stream!StreamNext
            \/ UNCHANGED <<[u \in Users |-> StreamOf(u)], [c \in Clients |-> PositionOf(c)], cache>>
<1> DEFINE Still == UNCHANGED <<[u \in Users |-> StreamOf(u)], [c \in Clients |-> PositionOf(c)], cache>>
           Goal == StreamInv' /\ (Stream!StreamNext \/ Still)
<1>0. Kept /\ Kept' /\ rows = history /\ \A c \in Clients : Ahead(c) /\ floor[c] = 0 /\ CopyOf(c)
  BY DEF CursorInv, ClientInv, StreamInv
<1>1. ASSUME UNCHANGED <<rows, history, cursor, cache, floor>> PROVE Goal
  <2>1. Still BY <1>1 DEF StreamOf, PositionOf
  <2>2. \A c \in Clients : CopyOf(c)' BY <1>0, <1>1 DEF CopyOf, Seen
  <2>3. StreamInv' BY <1>0, <1>1, <2>2 DEF StreamInv
  <2> QED BY <2>1, <2>3
<1> HIDE DEF Goal
<1>2. ASSUME NEW w \in Writers, Commit(w) PROVE Goal
  <2>1. /\ rows' = rows \cup tx[w].rows /\ history' = history \cup tx[w].rows
        /\ UNCHANGED <<cursor, cache, floor>>
    BY <1>2 DEF Commit, clientVars
  <2>2. rows' = history' BY <1>0, <2>1
  <2>3. \A c \in Clients : Seen(c)' = Seen(c) BY <1>0, <1>2, CommitPassesNobody
  <2>4. \A c \in Clients : CopyOf(c)' BY <1>0, <2>1, <2>3 DEF CopyOf
  <2>5. StreamInv' BY <1>0, <2>1, <2>2, <2>4 DEF StreamInv
  <2>6. CASE tx[w].rows = {}
    <3>1. UNCHANGED <<rows, history, cursor, cache, floor>> BY <2>1, <2>6
    <3> QED BY <1>1, <3>1
  <2>7. CASE tx[w].rows # {}
    <3>1. \E u \in Users : Stream!Publish(u) BY <1>0, <1>2, <2>2, <2>3, <2>7, CommitPublishes
    <3> QED BY <2>5, <3>1 DEF Goal, Stream!StreamNext
  <2> QED BY <2>6, <2>7
<1>3. ASSUME NEW c \in Clients, CopyOf(c)', Stream!Advance(c) \/ Stream!StartOver(c),
             UNCHANGED <<rows, history>>, \A d \in Clients : floor'[d] = 0,
             \A d \in Clients \ {c} : cursor'[d] = cursor[d] /\ cache'[d] = cache[d]
      PROVE  Goal
  <2>1. \A d \in Clients \ {c} : CopyOf(d)' BY <1>0, <1>3 DEF CopyOf, Seen
  <2>2. StreamInv' BY <1>0, <1>3, <2>1 DEF StreamInv
  <2>3. Stream!StreamNext BY <1>3 DEF Stream!StreamNext
  <2> QED BY <2>2, <2>3 DEF Goal
<1>4. ASSUME NEW c \in Clients, NEW limit \in 1..PageSize, ReadPage(c, limit) PROVE Goal
  <2>1. CopyOf(c)' /\ Stream!Advance(c) BY <1>0, <1>4, PageAdvances
  <2>2. /\ UNCHANGED <<rows, history>>
        /\ \A d \in Clients \ {c} : cursor'[d] = cursor[d] /\ cache'[d] = cache[d]
    BY <1>4 DEF ReadPage, TypeOK, dbVars
  <2>3. \A d \in Clients : floor'[d] = 0
    <3>1. InScope(c, history \ rows) = {} BY <1>0 DEF InScope
    <3>2. Newest(InScope(c, history \ rows)) = 0 BY <3>1 DEF Newest
    <3>3. \A d \in Clients : floor'[d] = floor[d] \/ floor'[d] = Newest(InScope(c, history \ rows))
      BY <1>4 DEF ReadPage, TypeOK
    <3> QED BY <1>0, <3>2, <3>3
  <2> QED BY <1>3, <2>1, <2>2, <2>3
<1>5. ASSUME NEW c \in Clients, CheckLatest(c) \/ CheckOldest(c) \/ Lose(c) PROVE Goal
  <2>1. UNCHANGED dbVars BY <1>5 DEF CheckLatest, CheckOldest, Lose
  <2>2. UNCHANGED <<rows, history>> BY <2>1 DEF dbVars
  <2>3. CASE Conflict(c)
    <3>1. CopyOf(c)' /\ Stream!StartOver(c) BY <1>0, <2>2, <2>3, ConflictStartsOver
    <3>2. /\ floor' = floor
          /\ \A d \in Clients \ {c} : cursor'[d] = cursor[d] /\ cache'[d] = cache[d]
      BY <2>3 DEF Conflict, TypeOK
    <3> QED BY <1>0, <1>3, <2>2, <3>1, <3>2
  <2>4. CASE \E step \in Call : Proceed(c, step)
    <3>1. UNCHANGED <<cursor, cache, floor>> BY <2>4 DEF Proceed
    <3>2. UNCHANGED <<rows, history, cursor, cache, floor>> BY <2>2, <3>1
    <3> QED BY <1>1, <3>2
  <2>5. Conflict(c) \/ (\E step \in Call : Proceed(c, step))
    BY <1>5 DEF CheckLatest, CheckOldest, Lose, Call
  <2> QED BY <2>3, <2>4, <2>5
<1>6. ASSUME NEW w \in Writers, (\E u \in Users : Begin(w, u)) \/ Rollback(w)
             \/ (\E i \in Items, v \in Values : AppendChange(w, i, v))
      PROVE Goal
  <2>1. UNCHANGED <<rows, history, cursor, cache, floor>>
    BY <1>6 DEF Begin, Rollback, AppendChange, clientVars
  <2> QED BY <1>1, <2>1
<1>7. ASSUME Tick \/ Backup \/ UNCHANGED vars PROVE Goal
  <2>1. UNCHANGED <<rows, history, cursor, cache, floor>>
    BY <1>7 DEF Tick, Backup, clientVars, dbVars, vars
  <2> QED BY <1>1, <2>1
<1>8. \A k \in Count : ~(counts[k] < 0)
  <2>1. \A k \in Count : counts[k] \in Nat BY DEF TypeOK
  <2> QED BY <2>1
<1>9. ~Prune /\ ~Restore /\ \A m \in Mailboxes : ~DeleteMailbox(m)
  BY <1>8 DEF Unpruned, Prune, Restore, DeleteMailbox, Upheaval, Counted, Count
<1>10. ASSUME NEW c \in Clients, Sync(c) \/ Lose(c) PROVE Goal BY <1>4, <1>5, <1>10 DEF Sync
<1>11. ASSUME NEW w \in Writers, Write(w) PROVE Goal BY <1>2, <1>6, <1>11 DEF Write
<1>12. Goal BY <1>7, <1>9, <1>10, <1>11 DEF Next
<1> QED BY <1>12 DEF Goal

(* Where nothing is pruned, deleted or restored, the journal implements       *)
(* ChangeStream (KeepsStream): each account's changes are one growing         *)
(* sequence, and whatever a client holds is the replay of a prefix of it.     *)
THEOREM JournalKeepsStream == ASSUME Unpruned PROVE Spec => KeepsStream
<1>1. Init => CursorInv BY CursorInit
<1>2. TypeOK /\ JournalInv /\ TypeOK' /\ CursorInv /\ [Next]_vars => CursorInv'
  BY CursorStep DEF NoLateRow, Unpruned
<1>3. Init => StreamInv /\ Stream!StreamInit
  <2> SUFFICES ASSUME Init PROVE StreamInv /\ Stream!StreamInit OBVIOUS
  <2>1. /\ rows = {} /\ history = {}
        /\ \A c \in Clients : cursor[c] = 0 /\ cache[c] = Nothing /\ floor[c] = 0
    BY DEF Init
  <2>2. \A c \in Clients : Seen(c) = {} /\ InScope(c, {}) = {} BY <2>1 DEF Seen, RowsOf, InScope
  <2>3. \A i \in Items : Settle(i, {}, Absent) = Absent /\ Nothing[i] = Absent BY DEF Settle, Nothing
  <2>4. StreamInv BY <2>1, <2>2, <2>3 DEF StreamInv, CopyOf
  <2>5. Cardinality({}) = 0 BY FS_EmptySet
  <2>6. \A c \in Clients : PositionOf(c) = 0 BY <2>2, <2>5 DEF PositionOf, Seen
  <2>7. \A u \in Users : StreamOf(u) = <<>>
    <3>1. \A u \in Users : RowsOf(u, history) = {} BY <2>1 DEF RowsOf
    <3>2. InSeqOrder({}) = <<>> BY <2>5 DEF InSeqOrder
    <3> QED BY <3>1, <3>2 DEF StreamOf
  <2>8. cache = [c \in Clients |-> Nothing] BY DEF Init
  <2>9. Stream!StreamInit BY <2>6, <2>7, <2>8 DEF Stream!StreamInit
  <2> QED BY <2>4, <2>9
<1>4. TypeOK /\ TypeOK' /\ JournalInv /\ CursorInv /\ CursorInv' /\ StreamInv /\ [Next]_vars
        => /\ StreamInv'
           /\ [Stream!StreamNext]_<<[u \in Users |-> StreamOf(u)], [c \in Clients |-> PositionOf(c)], cache>>
  BY StreamStep
<1>5. Spec => [](TypeOK /\ JournalInv) BY JournalHolds
<1> QED BY <1>1, <1>2, <1>3, <1>4, <1>5, PTL DEF Spec, KeepsStream, Stream!StreamSpec
=============================================================================
