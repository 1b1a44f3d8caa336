------------------------------ MODULE ChangeLog ------------------------------
(***************************************************************************)
(* The sync journal: transactions append rows to change_log, whose trigger *)
(* (migration 0007) gives each its seq under a per-user advisory lock;      *)
(* clients page through GET /client/sync (SyncService::sync), an operator   *)
(* prunes, deletes addresses, and restores backups.                         *)
(*                                                                         *)
(* Data: an item stands for anything a change is about (a message, a        *)
(* folder, a draft) and a change sets its absolute value, as the payloads   *)
(* do. A client keeps a value per item and the cursor of its last page.     *)
(***************************************************************************)
EXTENDS Naturals, FiniteSetsExt

CONSTANTS
  Items, Values, Absent,  \* what changes are about, what they set, "not there"
  Mailboxes, MailboxOf,   \* the address an item lives in
  Users, OwnerOf,         \* the account an address belongs to
  Writers,                \* database connections that run transactions
  Clients, UserOf,        \* syncing devices and their accounts
  ScopeOf,                \* the addresses in a client's stream: one, or all of its account's
  PageSize,               \* client.sync_page_size
  Retention,              \* client.tombstone_retention_days
  PruneOnline,            \* whether `sync prune` may run while a sync request is served
  MaxSeq,                 \* bound: sequence values drawn
  MaxTime,                \* bound: clock ticks
  MaxPrunes, MaxDeletes,  \* bounds: prunes, deleted addresses
  MaxLost,                \* bound: sync requests or answers lost on the way
  MaxRestores,            \* bound: restored backups
  MaxUpheavals            \* bound: prunes, deleted addresses and restores together

ASSUME MailAssumption == /\ Users # {}
                         /\ MailboxOf \in [Items -> Mailboxes]
                         /\ OwnerOf \in [Mailboxes -> Users]
                         /\ Absent \in Values
ASSUME ClientAssumption == /\ UserOf \in [Clients -> Users]
                           /\ ScopeOf \in [Clients -> SUBSET Mailboxes]
                           /\ \A c \in Clients : \A m \in ScopeOf[c] : OwnerOf[m] = UserOf[c]
ASSUME NumberAssumption == /\ PageSize \in Nat \ {0}
                           /\ Retention \in Nat
                           /\ PruneOnline \in BOOLEAN
                           /\ {MaxSeq, MaxTime, MaxPrunes, MaxDeletes, MaxLost, MaxRestores, MaxUpheavals} \subseteq Nat

VARIABLES
  tx,        \* the open transaction of each writer
  nextSeq,   \* the last value drawn from the sequence of change_log.seq
  rows,      \* change_log: the committed rows that are still there
  live,      \* the committed value of each item
  now,       \* the clock behind created_at (NOW() is a transaction's start)
  gone,      \* deleted addresses
  cursor,    \* each client's stored cursor
  cache,     \* each client's copy of its items
  call,      \* how far the server is with each client's request
  backup,    \* the last backup
  counts,    \* prunes, deletes, losses and restores so far
  (* History. *)
  history,   \* every row ever committed (to this timeline)
  floor      \* the rows a client was never served: those pruned before it last started
             \* from 0, and those of a timeline that a restore ended

dbVars == <<tx, nextSeq, rows, live, now, gone, history>>
clientVars == <<cursor, cache, call, floor>>
vars == <<tx, nextSeq, rows, live, now, gone, cursor, cache, call, backup, counts, history, floor>>

Row == [seq : Nat, item : Items, value : Values, born : Nat]
Tx == [open : BOOLEAN, user : Users, born : Nat, rows : SUBSET Row]
Call == {"idle", "oldest", "page"}
Count == {"prunes", "deletes", "lost", "restores"}

UserOfItem(i) == OwnerOf[MailboxOf[i]]
RowsOf(u, R) == {r \in R : UserOfItem(r.item) = u}
InScope(c, R) == {r \in R : MailboxOf[r.item] \in ScopeOf[c]}
Seqs(R) == {r.seq : r \in R}
Newest(R) == IF R = {} THEN 0 ELSE Max(Seqs(R))
NoTx == [open |-> FALSE, user |-> CHOOSE u \in Users : TRUE, born |-> 0, rows |-> {}]
Nothing == [i \in Items |-> Absent]

Init ==
  /\ tx = [w \in Writers |-> NoTx]
  /\ nextSeq = 0
  /\ rows = {}
  /\ live = Nothing
  /\ now = 0
  /\ gone = {}
  /\ cursor = [c \in Clients |-> 0]
  /\ cache = [c \in Clients |-> Nothing]
  /\ call = [c \in Clients |-> "idle"]
  /\ backup = [taken |-> FALSE, rows |-> {}, live |-> Nothing, seq |-> 0, history |-> {}]
  /\ counts = [k \in Count |-> 0]
  /\ history = {}
  /\ floor = [c \in Clients |-> 0]

Counted(k, max) == counts[k] < max /\ counts' = [counts EXCEPT ![k] = @ + 1]
Upheaval(k, max) ==
  Counted(k, max) /\ counts["prunes"] + counts["deletes"] + counts["restores"] < MaxUpheavals

(* The value the newest change of i in R sets, or else what there was. *)
Settle(i, R, old) ==
  LET mine == {r \in R : r.item = i} IN
  IF mine = {} THEN old ELSE (CHOOSE r \in mine : r.seq = Newest(mine)).value
-----------------------------------------------------------------------------
(* Writers. A mutation and its journal rows share a transaction.            *)

Begin(w, u) ==
  /\ ~tx[w].open
  /\ tx' = [tx EXCEPT ![w] = [open |-> TRUE, user |-> u, born |-> now, rows |-> {}]]
  /\ UNCHANGED <<nextSeq, rows, live, now, gone, history, clientVars, backup, counts>>

(* pg_advisory_xact_lock(user_id): taken by a transaction's first insert,   *)
(* held to its end.                                                         *)
LockFree_Unlocked(w, u) == TRUE
LockFree(w, u) == \A v \in Writers \ {w} : tx[v].user = u => tx[v].rows = {}

(* One INSERT: the trigger waits for the lock, then draws the seq.          *)
AppendChange(w, i, v) ==
  /\ tx[w].open
  /\ tx[w].user = UserOfItem(i)
  /\ MailboxOf[i] \notin gone
  /\ nextSeq < MaxSeq
  /\ LockFree(w, tx[w].user)
  /\ nextSeq' = nextSeq + 1
  /\ tx' = [tx EXCEPT ![w].rows =
              @ \cup {[seq |-> nextSeq + 1, item |-> i, value |-> v, born |-> tx[w].born]}]
  /\ UNCHANGED <<rows, live, now, gone, history, clientVars, backup, counts>>

Commit(w) ==
  /\ tx[w].open
  /\ tx' = [tx EXCEPT ![w] = NoTx]
  /\ rows' = rows \cup tx[w].rows
  /\ history' = history \cup tx[w].rows
  /\ live' = [i \in Items |-> Settle(i, tx[w].rows, live[i])]
  /\ UNCHANGED <<nextSeq, now, gone, clientVars, backup, counts>>

(* A rollback returns no sequence value: it leaves gaps. *)
Rollback(w) ==
  /\ tx[w].open
  /\ tx' = [tx EXCEPT ![w] = NoTx]
  /\ UNCHANGED <<nextSeq, rows, live, now, gone, history, clientVars, backup, counts>>
-----------------------------------------------------------------------------
(* SyncService::sync: three queries, each on its own snapshot.              *)

(* 409: the client drops its copy and starts over from cursor 0. *)
Conflict(c) ==
  /\ cursor' = [cursor EXCEPT ![c] = 0]
  /\ cache' = [cache EXCEPT ![c] = Nothing]
  /\ call' = [call EXCEPT ![c] = "idle"]
  /\ UNCHANGED floor

Proceed(c, step) ==
  /\ call' = [call EXCEPT ![c] = step]
  /\ UNCHANGED <<cursor, cache, floor>>

(* max_seq, and a first sync (cursor 0) skips the next check. *)
AheadOfServer(c) == cursor[c] > Newest(RowsOf(UserOf[c], rows))

CheckLatest(c) ==
  /\ call[c] = "idle"
  /\ \/ AheadOfServer(c) /\ Conflict(c)
     \/ ~AheadOfServer(c) /\ Proceed(c, IF cursor[c] = 0 THEN "page" ELSE "oldest")
  /\ UNCHANGED <<dbVars, backup, counts>>

(* oldest_cursor: something the client has not seen may have been pruned.   *)
(* MIN over no rows is NULL, which fails to decode: the request errors.     *)
TooOld_OneOff(c, oldest) == cursor[c] < oldest - 2
TooOld(c, oldest) == cursor[c] < oldest - 1

CheckOldest(c) ==
  LET mine == RowsOf(UserOf[c], rows) IN
  /\ call[c] = "oldest"
  /\ \/ mine = {} /\ Proceed(c, "idle")
     \/ mine # {} /\ TooOld(c, Min(Seqs(mine))) /\ Conflict(c)
     \/ mine # {} /\ ~TooOld(c, Min(Seqs(mine))) /\ Proceed(c, "page")
  /\ UNCHANGED <<dbVars, backup, counts>>

(* The first `limit` rows of the client's stream behind its cursor. *)
Behind_Inclusive(c) == {r \in InScope(c, rows) : r.seq > cursor[c] + 1}
Behind(c) == {r \in InScope(c, rows) : r.seq > cursor[c]}
Page(c, limit) ==
  {r \in Behind(c) : Cardinality({s \in Behind(c) : s.seq < r.seq}) < limit}

(* The client applies the page and stores next_cursor in one transaction.   *)
ReadPage(c, limit) ==
  /\ call[c] = "page"
  /\ call' = [call EXCEPT ![c] = "idle"]
  /\ cache' = [cache EXCEPT ![c] = [i \in Items |-> Settle(i, Page(c, limit), @[i])]]
  /\ cursor' = [cursor EXCEPT ![c] = IF Page(c, limit) = {} THEN @ ELSE Newest(Page(c, limit))]
  /\ floor' = [floor EXCEPT ![c] =
                 IF cursor[c] = 0 THEN Newest(InScope(c, history \ rows)) ELSE @]
  /\ UNCHANGED <<dbVars, backup, counts>>

(* The request or its answer is lost, or the client dies before it commits. *)
Lose(c) ==
  /\ call[c] # "idle"
  /\ Counted("lost", MaxLost)
  /\ Proceed(c, "idle")
  /\ UNCHANGED <<dbVars, backup>>
-----------------------------------------------------------------------------
(* Operators. *)

Tick ==
  /\ now < MaxTime
  /\ now' = now + 1
  /\ UNCHANGED <<tx, nextSeq, rows, live, gone, history, clientVars, backup, counts>>

(* prune_older_than: one DELETE by created_at, which no cursor holds back.  *)
Prune ==
  /\ PruneOnline \/ \A c \in Clients : call[c] = "idle"
  /\ now > Retention
  /\ Upheaval("prunes", MaxPrunes)
  /\ rows' = {r \in rows : r.born >= now - Retention}
  /\ UNCHANGED <<tx, nextSeq, live, now, gone, history, clientVars, backup>>

(* Deleting an address cascades to its items and its journal rows. *)
DeleteMailbox(m) ==
  /\ m \notin gone
  /\ \A w \in Writers : \A r \in tx[w].rows : MailboxOf[r.item] # m
  /\ Upheaval("deletes", MaxDeletes)
  /\ gone' = gone \cup {m}
  /\ rows' = {r \in rows : MailboxOf[r.item] # m}
  /\ live' = [i \in Items |-> IF MailboxOf[i] = m THEN Absent ELSE live[i]]
  /\ UNCHANGED <<tx, nextSeq, now, history, clientVars, backup>>

(* pg_dump: a consistent snapshot, taken beside everything else. *)
Backup ==
  /\ counts["restores"] < MaxRestores
  /\ gone = {}
  /\ backup' = [taken |-> TRUE, rows |-> rows, live |-> live, seq |-> nextSeq, history |-> history]
  /\ UNCHANGED <<dbVars, clientVars, counts>>

(* pg_restore into an empty database, with no server running: the sequence  *)
(* goes back as well; the clients keep what they have.                      *)
Restore ==
  /\ backup.taken
  /\ gone = {}
  /\ \A w \in Writers : ~tx[w].open
  /\ \A c \in Clients : call[c] = "idle"
  /\ Upheaval("restores", MaxRestores)
  /\ rows' = backup.rows
  /\ live' = backup.live
  /\ nextSeq' = backup.seq
  /\ history' = backup.history
  /\ floor' = cursor
  /\ UNCHANGED <<tx, now, gone, cursor, cache, call, backup>>
-----------------------------------------------------------------------------
Write(w) ==
  \/ \E u \in Users : Begin(w, u)
  \/ \E i \in Items, v \in Values : AppendChange(w, i, v)
  \/ Commit(w)
  \/ Rollback(w)

Sync(c) == CheckLatest(c) \/ CheckOldest(c) \/ \E limit \in 1..PageSize : ReadPage(c, limit)

Next ==
  \/ \E w \in Writers : Write(w)
  \/ \E c \in Clients : Sync(c) \/ Lose(c)
  \/ Tick \/ Prune \/ Backup \/ Restore
  \/ \E m \in Mailboxes : DeleteMailbox(m)

Spec == Init /\ [][Next]_vars

(* A client that is behind asks again, and is answered. *)
Fairness == \A c \in Clients : WF_vars(Sync(c))
FairSpec == Spec /\ Fairness
-----------------------------------------------------------------------------
(* Properties. *)

(* Every variable stays in its type. *)
TypeOK ==
  /\ tx \in [Writers -> Tx]
  /\ nextSeq \in Nat
  /\ rows \in SUBSET Row
  /\ live \in [Items -> Values]
  /\ now \in Nat
  /\ gone \in SUBSET Mailboxes
  /\ cursor \in [Clients -> Nat]
  /\ cache \in [Clients -> [Items -> Values]]
  /\ call \in [Clients -> Call]
  /\ backup \in [taken : BOOLEAN, rows : SUBSET Row, live : [Items -> Values], seq : Nat,
                 history : SUBSET Row]
  /\ counts \in [Count -> Nat]
  /\ history \in SUBSET Row
  /\ floor \in [Clients -> Nat]

(* A user's rows become visible in the order of their seq: no commit ever   *)
(* adds a row below one that a reader may already have passed. The trigger  *)
(* of migration 0007, beside rollbacks, prunes and restores.                *)
CommitOrder ==
  [][\A r \in history' \ history, s \in history :
       UserOfItem(r.item) = UserOfItem(s.item) => r.seq > s.seq]_vars

(* A cursor never skips a change: whatever the last change at or before a   *)
(* client's cursor made of an item, the client's copy says so, unless that  *)
(* change was pruned before the client started from 0, or the database was  *)
(* restored under its cursor. Commit order, the exclusive cursor, the page  *)
(* cut and the two stale-cursor checks together.                            *)
NoHole ==
  \A c \in Clients, i \in Items :
    LET seen == {r \in history : r.item = i /\ r.seq <= cursor[c]} IN
    /\ MailboxOf[i] \in ScopeOf[c] \ gone
    /\ Newest(seen) > floor[c]
    => cache[c][i] = Settle(i, seen, Absent)

(* Once the writers are done, every client ends up with the items of its    *)
(* addresses exactly as they are.                                           *)
EventuallyConsistent ==
  \A c \in Clients :
    <>[](\A i \in Items : MailboxOf[i] \in ScopeOf[c] => cache[c][i] = live[i])
-----------------------------------------------------------------------------
(* What the repository says and the code does not do. *)

(* docs/fcp.md: "First sync is a normal sync from cursor 0": a client at    *)
(* the end of its stream would have every item of its addresses. Where the  *)
(* journal was pruned, items whose changes were all pruned are missing.     *)
CaughtUpIsComplete ==
  \A c \in Clients : call[c] = "page" /\ Behind(c) = {} =>
    \A i \in Items : MailboxOf[i] \in ScopeOf[c] \ gone => cache[c][i] = live[i]
=============================================================================
