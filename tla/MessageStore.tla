---------------------------- MODULE MessageStore ----------------------------
(***************************************************************************)
(* The message store of one account: the messages, folders and users rows, *)
(* the body files of the Maildir, and what the journal says of each        *)
(* message, under any number of IMAP sessions, deliveries and API requests. *)
(*                                                                         *)
(* An operation reads a row, stages a body file, runs one transaction, and *)
(* then removes the body that is no longer needed. A transaction takes its *)
(* row locks one by one, in the order of its statements, and holds them to *)
(* its end; what it read before a lock may be stale once it holds it. Its  *)
(* writes become visible together, at commit. PostgreSQL breaks a circular *)
(* wait by failing one of the transactions in it.                          *)
(*                                                                         *)
(* Mail has size 1, so that quotas and usage count messages; the          *)
(* placeholder that holds an upload (MessageStub) has size 0.              *)
(***************************************************************************)
EXTENDS Naturals, FiniteSets

CONSTANTS
  Messages,     \* message ids
  Folders,      \* the folders of the address
  Flags, Seen,  \* flags, and the one that unseen_count counts
  Procs,        \* sessions, deliveries and requests
  Quota,        \* COALESCE(mailbox.quota_bytes, user.quota_bytes)
  None,         \* no message, no folder, no flag, no owner of a lock
  MaxOps,       \* bound: operations started, recounts and uncharged inserts counting twice
  MaxFaults     \* bound: failing statements and crashes of the server process

User == "users row"
Journal == "advisory lock of the account"
Resources == Messages \cup Folders \cup {User, Journal}

ASSUME StoreAssumption ==
  /\ Seen \in Flags
  /\ None \notin Resources \cup Flags \cup Procs
  /\ Messages \cap Folders = {}
  /\ IsFiniteSet(Messages)
  /\ {User, Journal} \cap (Messages \cup Folders) = {}
  /\ Quota \in Nat
  /\ {MaxOps, MaxFaults} \subseteq Nat

VARIABLES
  (* What PostgreSQL and the file system hold. *)
  row,       \* messages: folder_id, uid, flags and storage_path, by id
  uidNext, count, unseen, \* folders.uid_next, message_count, unseen_count
  used,      \* users.used_bytes
  told,      \* what the newest change_log row of a message says of it
  files,     \* body files, by path
  lastPath,  \* the counter behind unique_filename
  (* What the running operations hold. *)
  phase,     \* how far each process is
  op,        \* what it is doing, and the row it read when it began
  body,      \* the body file it staged, or 0
  doomed,    \* the body file it will remove, or 0
  uid,       \* the UID its transaction has allocated
  note,      \* the sum, or counts, that its transaction has read
  lock,      \* the owner of each row lock
  (* Counted against the bounds, and history. *)
  spent,     \* operations, faults
  origin,    \* the kind of operation that drew a message's id
  wanted,    \* each message's flags as its acknowledged changes make them
  drifted,   \* folders whose last recount wrote numbers that were out of date
  hushed,    \* messages last changed by a statement that writes no journal row
  skew,      \* what has left used_bytes behind since it was last exact
  orphans,   \* body files that a crash, a purge racing a new path or a failed
             \* draft copy left behind
  bare       \* messages whose row stands without a body: placeholders, and the
             \* draft copies whose body was removed ahead of the row

dbVars == <<row, uidNext, count, unseen, used, told, wanted, drifted, hushed, skew>>
vars == <<row, uidNext, count, unseen, used, told, files, lastPath, phase, op, body, doomed,
          uid, note, lock, spent, origin, wanted, drifted, hushed, skew, orphans, bare>>

(* insert_logged with a user, and insert, which is insert_logged without:   *)
(* import_raw_message, mirror_draft and MessageStub::ensure.                *)
Metered == {"insert", "copy"}
Unmetered == {"import", "mirror", "stub"}
Kind == Metered \cup Unmetered \cup {"flags", "move", "expunge", "purge", "discard", "tell", "recount"}
NoRow == [folder |-> None, uid |-> 0, flags |-> {}, path |-> 0]
Row == [folder : Folders \cup {None}, uid : Nat, flags : SUBSET Flags, path : Nat]
View(r) == [folder |-> r.folder, uid |-> r.uid, flags |-> r.flags]
NoOp == [kind |-> "tell", msg |-> None, from |-> None, to |-> None, flag |-> None, base |-> NoRow]

ids == {m \in Messages : origin[m] # "none"}
Live == {m \in Messages : row[m].folder # None}
Size(m) == IF origin[m] = "stub" THEN 0 ELSE 1
Mail == {m \in Live : Size(m) = 1}
In(f) == {m \in Messages : row[m].folder = f}
UnseenIn(f) == {m \in In(f) : Seen \notin row[m].flags}
Monus(a, b) == IF a < b THEN 0 ELSE a - b
Toggle(S, flag) == (S \ {flag}) \cup ({flag} \ S)

Init ==
  /\ row = [m \in Messages |-> NoRow]
  /\ uidNext = [f \in Folders |-> 1]
  /\ count = [f \in Folders |-> 0]
  /\ unseen = [f \in Folders |-> 0]
  /\ used = 0
  /\ told = [m \in Messages |-> View(NoRow)]
  /\ files = {}
  /\ lastPath = 0
  /\ phase = [p \in Procs |-> "idle"]
  /\ op = [p \in Procs |-> NoOp]
  /\ body = [p \in Procs |-> 0]
  /\ doomed = [p \in Procs |-> 0]
  /\ uid = [p \in Procs |-> 0]
  /\ note = [p \in Procs |-> <<0, 0>>]
  /\ lock = [r \in Resources |-> None]
  /\ spent = [k \in {"ops", "faults"} |-> 0]
  /\ origin = [m \in Messages |-> "none"]
  /\ wanted = [m \in Messages |-> {}]
  /\ drifted = {}
  /\ hushed = {}
  /\ skew = {}
  /\ orphans = {}
  /\ bare = {}

Spend(k, max) == spent[k] < max /\ spent' = [spent EXCEPT ![k] = @ + 1]
SpendTwice == spent["ops"] + 2 <= MaxOps /\ spent' = [spent EXCEPT !["ops"] = @ + 2]
-----------------------------------------------------------------------------
(* Beginning an operation: the row is read outside the transaction.         *)

Begin(p, o, at) ==
  /\ phase[p] = "idle"
  /\ op' = [op EXCEPT ![p] = o]
  /\ phase' = [phase EXCEPT ![p] = at]
  /\ UNCHANGED <<dbVars, files, lastPath, body, doomed, uid, lock, orphans, bare>>

(* BIGSERIAL: the next id, one that was never drawn. *)
NextId == CHOOSE m \in Messages : m \notin ids
IsNew(m) == m \notin ids /\ m = NextId
Draws(m, kind) == IsNew(m) /\ origin' = [origin EXCEPT ![m] = kind]

(* A delivery or an IMAP APPEND (insert_logged); an upload of JMAP, the copy *)
(* of a draft in Drafts, a placeholder (insert).                            *)
StartInsert(p, m, f, kind) ==
  /\ Draws(m, kind)
  /\ Begin(p, [NoOp EXCEPT !.kind = kind, !.msg = m, !.to = f], "stage")
  /\ IF kind \in Unmetered THEN SpendTwice ELSE Spend("ops", MaxOps)
  /\ UNCHANGED note

(* STORE, a FETCH that sets \Seen, PATCH /messages/:id: a change of nothing  *)
(* returns before it starts.                                                *)
StartFlags(p, m, flag) ==
  /\ m \in Live
  /\ Begin(p, [NoOp EXCEPT !.kind = "flags", !.msg = m, !.flag = flag, !.base = row[m]], "stage")
  /\ Spend("ops", MaxOps)
  /\ UNCHANGED <<origin, note>>

StartMove(p, m, f) ==
  /\ m \in Live
  /\ Begin(p, [NoOp EXCEPT !.kind = "move", !.msg = m, !.to = f, !.base = row[m]], "stage")
  /\ Spend("ops", MaxOps)
  /\ UNCHANGED <<origin, note>>

Fits == Cardinality(Mail) + 1 <= Quota

(* A copy asks check_quota first, without a lock, to spare the staging.     *)
StartCopy(p, from, m, f) ==
  /\ from \in Live
  /\ Fits
  /\ Draws(m, "copy")
  /\ Begin(p, [kind |-> "copy", msg |-> m, from |-> from, to |-> f, flag |-> None,
               base |-> row[from]], "stage")
  /\ Spend("ops", MaxOps)
  /\ UNCHANGED note

(* EXPUNGE and CLOSE (hard_delete_logged); DELETE ?permanent (hard_delete), *)
(* which remembers the path it read first.                                  *)
StartDelete(p, m, kind) ==
  /\ m \in Live
  /\ Begin(p, [NoOp EXCEPT !.kind = kind, !.msg = m, !.base = row[m]], "tx")
  /\ Spend("ops", MaxOps)
  /\ UNCHANGED <<origin, note>>

(* The copy of a draft that is edited, sent or given up, a placeholder that *)
(* no upload needs any more.                                                *)
StartDiscard(p, m) ==
  /\ m \in Live /\ origin[m] \in {"mirror", "stub"}
  /\ Begin(p, [NoOp EXCEPT !.kind = "discard", !.msg = m, !.base = row[m]], "stage")
  /\ Spend("ops", MaxOps)
  /\ UNCHANGED <<origin, note>>

(* recount: one UPDATE, whose subquery reads before it waits for the row.   *)
StartRecount(p, f) ==
  /\ Begin(p, [NoOp EXCEPT !.kind = "recount", !.to = f], "tx")
  /\ note' = [note EXCEPT ![p] = <<Cardinality(In(f)), Cardinality(UnseenIn(f))>>]
  /\ SpendTwice
  /\ UNCHANGED origin

(* An operation is over: answered, refused or failed. *)
Rest(p) ==
  /\ phase' = [phase EXCEPT ![p] = "idle"]
  /\ op' = [op EXCEPT ![p] = NoOp]
  /\ body' = [body EXCEPT ![p] = 0]
  /\ doomed' = [doomed EXCEPT ![p] = 0]
  /\ uid' = [uid EXCEPT ![p] = 0]
  /\ note' = [note EXCEPT ![p] = <<0, 0>>]

(* Maildir::store and stage_flags: a new file under a fresh name, even for  *)
(* the same flags. Without its source the operation goes no further, but a  *)
(* flag change of the API does, with the path of the row it read. The empty *)
(* path of a placeholder is a fresh name that no file has.                  *)
FreshPath(p) == lastPath + 1
HasSource(p) == op[p].kind \in {"copy", "flags", "move"}

Stage(p) ==
  /\ phase[p] = "stage" /\ op[p].kind # "discard"
  /\ \/ /\ HasSource(p) /\ op[p].base.path \notin files
        /\ \/ Rest(p)
           \/ /\ op[p].kind = "flags"
              /\ body' = [body EXCEPT ![p] = op[p].base.path]
              /\ phase' = [phase EXCEPT ![p] = "tx"]
              /\ UNCHANGED <<op, doomed, uid, note>>
        /\ UNCHANGED <<files, lastPath, bare>>
     \/ /\ HasSource(p) => op[p].base.path \in files
        /\ lastPath' = lastPath + 1
        /\ IF op[p].kind = "stub" THEN bare' = bare \cup {op[p].msg} /\ files' = files
                                  ELSE files' = files \cup {FreshPath(p)} /\ bare' = bare
        /\ body' = [body EXCEPT ![p] = FreshPath(p)]
        /\ phase' = [phase EXCEPT ![p] = "tx"]
        /\ UNCHANGED <<op, doomed, uid, note>>
  /\ UNCHANGED <<dbVars, lock, spent, origin, orphans>>

(* The draft routes remove the body first, and the row after.               *)
RemoveAhead(p) ==
  /\ phase[p] = "stage" /\ op[p].kind = "discard"
  /\ files' = files \ {op[p].base.path}
  /\ bare' = bare \cup {op[p].msg}
  /\ phase' = [phase EXCEPT ![p] = "tx"]
  /\ UNCHANGED <<dbVars, lastPath, op, body, doomed, uid, note, lock, spent, origin, orphans>>
-----------------------------------------------------------------------------
(* Row locks. What a transaction needs, and in which order its statements   *)
(* come to it. A journal row takes the account's advisory lock (migration   *)
(* 0007), then, for its foreign key, a share of the users row that excludes *)
(* FOR UPDATE; both are held by one journal writer at a time, so the share  *)
(* is written as the lock itself.                                           *)

NewFlags(p) == Toggle(op[p].base.flags, op[p].flag)
Unchanged(p) == op[p].kind = "flags" /\ row[op[p].msg].flags = NewFlags(p)
ShiftsUnseen(p) == (Seen \in row[op[p].msg].flags) # (Seen \in NewFlags(p))
Home(p) ==
  IF lock[op[p].msg] = p /\ (op[p].kind = "flags" => ShiftsUnseen(p))
  THEN {row[op[p].msg].folder} ELSE {}
Adds(p) == op[p].kind \in Metered \cup Unmetered
Mutates(p) == op[p].kind \in {"flags", "move", "expunge", "purge", "discard"}
Charges(p) == op[p].kind \in Metered

(* What hard_delete, insert and recount do without. *)
Plain(p) == op[p].kind \in Unmetered \cup {"purge", "discard", "recount"}
AccountLocks_NoOwner(p) ==
  IF Plain(p) THEN {} ELSE IF Charges(p) THEN {Journal} ELSE {User, Journal}
AccountLocks(p) == IF Plain(p) \/ Unchanged(p) THEN {} ELSE {User, Journal}

Needs(p) ==
  (IF Mutates(p) THEN {op[p].msg} ELSE {})
  \cup (IF Adds(p) \/ op[p].kind \in {"move", "recount"} THEN {op[p].to} ELSE {})
  \cup (IF Mutates(p) THEN Home(p) ELSE {})
  \cup AccountLocks(p)

Rank(p, r) ==
  CASE r = User /\ Charges(p) -> 1
    [] r \in Messages -> 2
    [] r = op[p].to -> 3
    [] r \in Folders -> 4
    [] r = Journal -> 5
    [] OTHER -> 6

Awaits(p, r) ==
  /\ phase[p] = "tx"
  /\ r \in Needs(p) /\ lock[r] # p
  /\ \A s \in Needs(p) : lock[s] # p => Rank(p, r) <= Rank(p, s)

Blocks(q, p) == q # p /\ \E r \in Resources : lock[r] = q /\ Awaits(p, r)
OnCycle(p) ==
  \E S \in SUBSET Procs : p \in S /\ \A q \in S : \E s \in S : Blocks(q, s)

Free(r) == lock[r] = None

(* The row as the locked statement finds it: WHERE ... storage_path = $expected. *)
AsRead_AnyPath(m, base) == m \in Live
AsRead(m, base) == m \in Live /\ row[m].path = base.path
MayCharge_Trusting(p) == TRUE
MayCharge(p) == Fits

(* Statements that find that their reason is gone, and end the transaction. *)
Refused(p, r) ==
  \/ r = op[p].msg /\ op[p].kind \in {"flags", "move"} /\ ~AsRead(r, op[p].base)
  \/ r = op[p].msg /\ op[p].kind = "expunge" /\ r \notin Live
  \/ r = User /\ Charges(p) /\ ~MayCharge(p)
  \/ r = User /\ op[p].kind = "copy" /\ ~AsRead(op[p].from, op[p].base)

(* Rollback, after which the operation removes the body it staged;          *)
(* store_message leaves it there.                                           *)
Left(p) == IF op[p].kind = "mirror" THEN {body[p]} ELSE {}
Fail_KeepsBody(p) ==
  /\ lock' = [r \in Resources |-> IF lock[r] = p THEN None ELSE lock[r]]
  /\ Rest(p)
  /\ UNCHANGED <<dbVars, files, lastPath, origin, orphans, bare>>
Fail(p) ==
  /\ lock' = [r \in Resources |-> IF lock[r] = p THEN None ELSE lock[r]]
  /\ files' = files \ (({body[p]} \ {op[p].base.path}) \ Left(p))
  /\ orphans' = orphans \cup Left(p)
  /\ Rest(p)
  /\ UNCHANGED <<dbVars, lastPath, origin, bare>>

(* A statement gets its row lock. With the folder's comes the UID (and the  *)
(* sum that a later statement stores in used_bytes).                        *)
Acquire(p, r) ==
  /\ Awaits(p, r)
  /\ Free(r)
  /\ ~Refused(p, r)
  /\ op[p].kind \in {"purge", "discard"} => r \notin Messages \ Live
  /\ lock' = [lock EXCEPT ![r] = p]
  /\ IF r = op[p].to /\ op[p].kind # "recount"
     THEN /\ uid' = [uid EXCEPT ![p] = uidNext[r]]
          /\ note' = IF Charges(p) THEN [note EXCEPT ![p] = <<Cardinality(Mail) + 1, 0>>] ELSE note
     ELSE UNCHANGED <<uid, note>>
  /\ UNCHANGED <<dbVars, files, lastPath, phase, op, body, doomed, spent, origin, orphans, bare>>

Refuse(p, r) ==
  /\ Awaits(p, r)
  /\ Free(r)
  /\ Refused(p, r)
  /\ Fail(p)
  /\ UNCHANGED spent

(* The source of a copy changed between the size query and the INSERT.      *)
LoseSource(p) ==
  /\ phase[p] = "tx" /\ op[p].kind = "copy"
  /\ lock[User] = p /\ lock[op[p].to] # p
  /\ ~AsRead(op[p].from, op[p].base)
  /\ Fail(p)
  /\ UNCHANGED spent

StatementFails(p) == phase[p] = "tx" /\ Spend("faults", MaxFaults) /\ Fail(p)
DeadlockVictim(p) == OnCycle(p) /\ Fail(p) /\ UNCHANGED spent
-----------------------------------------------------------------------------
(* Commit: the writes of all statements become visible, the locks are free. *)

Commit(p, kind) ==
  /\ phase[p] = "tx"
  /\ op[p].kind = kind
  /\ \A r \in Needs(p) : lock[r] = p
  /\ lock' = [r \in Resources |-> IF lock[r] = p THEN None ELSE lock[r]]
  /\ UNCHANGED <<spent, origin, bare>>

(* Then the operation still removes a file, or is over. *)
CleanUp_NewBody(p, path) ==
  /\ phase' = [phase EXCEPT ![p] = "clean"]
  /\ doomed' = [doomed EXCEPT ![p] = body[p]]
  /\ body' = [body EXCEPT ![p] = 0]
  /\ UNCHANGED <<op, uid, note>>
CleanUp(p, path) ==
  /\ phase' = [phase EXCEPT ![p] = "clean"]
  /\ doomed' = [doomed EXCEPT ![p] = path]
  /\ body' = [body EXCEPT ![p] = 0]
  /\ UNCHANGED <<op, uid, note>>

(* Or it owes a journal row, in a transaction of its own, that will say r. *)
Owe(p, r) ==
  /\ op' = [op EXCEPT ![p] = [NoOp EXCEPT !.msg = op[p].msg, !.base = [r EXCEPT !.path = 0]]]
  /\ phase' = [phase EXCEPT ![p] = "tx"]
  /\ body' = [body EXCEPT ![p] = 0]
  /\ doomed' = [doomed EXCEPT ![p] = 0]
  /\ uid' = [uid EXCEPT ![p] = 0]
  /\ note' = [note EXCEPT ![p] = <<0, 0>>]

(* The journal row, and uid_next, as the statements write them. *)
Announced_OldFolder(m, r) == [told EXCEPT ![m] = [View(r) EXCEPT !.folder = row[m].folder]]
Announced(m, r) == [told EXCEPT ![m] = View(r)]
Bumped_Not(f, u) == uidNext
Bumped(f, u) == [uidNext EXCEPT ![f] = u + 1]

(* insert_message_tx with its counters; then, unless the caller accounts    *)
(* and journals by itself, used_bytes and message_created. Only the import  *)
(* does one of the two: it journals, later. A size of 0 charges nothing.    *)
FirstFlags(p) ==
  CASE op[p].kind = "copy" -> op[p].base.flags
    [] op[p].kind \in {"mirror", "stub"} -> {Seen}
    [] OTHER -> {}

Charge(p) ==
  IF Charges(p) THEN /\ used' = note[p][1]
                     /\ skew' = IF note[p][1] = Cardinality(Mail) + 1 THEN {} ELSE skew
  ELSE /\ used' = used
       /\ skew' = IF op[p].kind = "stub" THEN skew ELSE skew \cup {"import"}

CommitInsert(p, kind) ==
  LET m == op[p].msg
      f == op[p].to
      flags == FirstFlags(p)
      new == [folder |-> f, uid |-> uid[p], flags |-> flags, path |-> body[p]] IN
  /\ Commit(p, kind)
  /\ row' = [row EXCEPT ![m] = new]
  /\ uidNext' = Bumped(f, uid[p])
  /\ count' = [count EXCEPT ![f] = @ + 1]
  /\ unseen' = [unseen EXCEPT ![f] = @ + IF Seen \in flags THEN 0 ELSE 1]
  /\ Charge(p)
  /\ IF Charges(p) THEN told' = Announced(m, new) /\ hushed' = hushed
                   ELSE told' = told /\ hushed' = hushed \cup {m}
  /\ wanted' = [wanted EXCEPT ![m] = flags]
  /\ IF kind = "import" THEN Owe(p, new) ELSE Rest(p)
  /\ UNCHANGED <<drifted, files, lastPath, orphans>>

(* set_flags_with_path_logged: the whole flag string, from the row read.    *)
CommitFlags(p) ==
  LET m == op[p].msg
      f == row[m].folder
      flags == NewFlags(p)
      new == [folder |-> f, uid |-> row[m].uid, flags |-> flags, path |-> body[p]] IN
  /\ Commit(p, "flags")
  /\ ~Unchanged(p)
  /\ row' = [row EXCEPT ![m] = new]
  /\ unseen' = IF ~ShiftsUnseen(p) THEN unseen
               ELSE [unseen EXCEPT ![f] = IF Seen \in flags THEN Monus(@, 1) ELSE @ + 1]
  /\ told' = Announced(m, new)
  /\ wanted' = [wanted EXCEPT ![m] = Toggle(@, op[p].flag)]
  /\ hushed' = hushed \ {m}
  /\ CleanUp(p, IF body[p] = op[p].base.path THEN 0 ELSE op[p].base.path)
  /\ UNCHANGED <<uidNext, count, used, skew, drifted, files, lastPath, orphans>>

(* The row has these flags already, which the path, the row's version, lets *)
(* happen without a body alone: nothing is written, and a body that was     *)
(* staged is forgotten.                                                     *)
FindUnchanged(p) ==
  /\ Commit(p, "flags")
  /\ Unchanged(p)
  /\ CleanUp(p, IF body[p] = op[p].base.path THEN 0 ELSE op[p].base.path)
  /\ orphans' = orphans \cup ({body[p]} \ {op[p].base.path})
  /\ UNCHANGED <<dbVars, files, lastPath>>

Shifted_OnlyFrom(counter, from, to, n) == [counter EXCEPT ![from] = Monus(@, n)]
Shifted(counter, from, to, n) ==
  IF from = to THEN counter ELSE [counter EXCEPT ![from] = Monus(@, n), ![to] = @ + n]

(* move_to_folder_with_path_logged. *)
CommitMove(p) ==
  LET m == op[p].msg  f == op[p].to  r == row[m]
      moved == [folder |-> f, uid |-> uid[p], flags |-> r.flags, path |-> body[p]] IN
  /\ Commit(p, "move")
  /\ row' = [row EXCEPT ![m] = moved]
  /\ uidNext' = Bumped(f, uid[p])
  /\ count' = Shifted(count, r.folder, f, 1)
  /\ unseen' = Shifted(unseen, r.folder, f, IF Seen \in r.flags THEN 0 ELSE 1)
  /\ told' = Announced(m, moved)
  /\ hushed' = hushed \ {m}
  /\ CleanUp(p, op[p].base.path)
  /\ UNCHANGED <<used, skew, wanted, drifted, files, lastPath, orphans>>

(* hard_delete_logged, and hard_delete, which leaves usage and journal alone. *)
(* A discard has removed its path before, and finds nothing there any more.   *)
CommitDelete(p, kind) ==
  LET m == op[p].msg  r == row[m] IN
  /\ Commit(p, kind)
  /\ row' = [row EXCEPT ![m] = NoRow]
  /\ count' = [count EXCEPT ![r.folder] = Monus(@, 1)]
  /\ unseen' = [unseen EXCEPT ![r.folder] = Monus(@, IF Seen \in r.flags THEN 0 ELSE 1)]
  /\ IF kind = "expunge"
     THEN /\ used' = Monus(used, Size(m))
          /\ told' = Announced(m, NoRow)
          /\ hushed' = hushed \ {m}
          /\ UNCHANGED skew
     ELSE /\ skew' = IF Size(m) = 0 THEN skew ELSE skew \cup {"purge"}
          /\ hushed' = hushed \cup {m}
          /\ UNCHANGED <<used, told>>
  /\ wanted' = [wanted EXCEPT ![m] = {}]
  /\ LET path == IF kind = "expunge" THEN r.path ELSE op[p].base.path IN
     CleanUp(p, path) /\ orphans' = orphans \cup ({r.path} \ {path})
  /\ UNCHANGED <<uidNext, drifted, files, lastPath>>

(* hard_delete of a row that is gone: the request goes on as if it had been there. *)
DeleteNothing(p) ==
  /\ op[p].kind \in {"purge", "discard"} /\ Awaits(p, op[p].msg) /\ Free(op[p].msg)
  /\ op[p].msg \notin Live
  /\ lock' = [r \in Resources |-> IF lock[r] = p THEN None ELSE lock[r]]
  /\ CleanUp(p, op[p].base.path)
  /\ UNCHANGED <<dbVars, files, lastPath, spent, origin, orphans, bare>>

(* SyncService::record_message_deleted after a purge, record_message_created *)
(* after an import, each in a transaction of its own: what it says may have  *)
(* been overtaken by what others have said since.                            *)
CommitTell(p) ==
  LET m == op[p].msg  r == op[p].base IN
  /\ Commit(p, "tell")
  /\ told' = Announced(m, r)
  /\ hushed' = IF View(r) = View(row[m]) THEN hushed \ {m} ELSE hushed \cup {m}
  /\ Rest(p)
  /\ UNCHANGED <<row, uidNext, count, unseen, used, skew, wanted, drifted, files, lastPath, orphans>>

CommitRecount(p) ==
  LET f == op[p].to IN
  /\ Commit(p, "recount")
  /\ count' = [count EXCEPT ![f] = note[p][1]]
  /\ unseen' = [unseen EXCEPT ![f] = note[p][2]]
  /\ drifted' = IF note[p] = <<Cardinality(In(f)), Cardinality(UnseenIn(f))>>
                THEN drifted \ {f} ELSE drifted \cup {f}
  /\ Rest(p)
  /\ UNCHANGED <<row, uidNext, used, told, wanted, hushed, skew, files, lastPath, orphans>>

(* Maildir::delete, after the commit. *)
RemoveBody(p) ==
  /\ phase[p] = "clean"
  /\ files' = files \ {doomed[p]}
  /\ IF op[p].kind = "purge" THEN Owe(p, NoRow) ELSE Rest(p)
  /\ UNCHANGED <<dbVars, lastPath, lock, spent, origin, orphans, bare>>

(* The server process dies: open transactions roll back, staged and doomed  *)
(* bodies stay.                                                             *)
Crash ==
  /\ \E p \in Procs : phase[p] # "idle"
  /\ Spend("faults", MaxFaults)
  /\ orphans' = orphans \cup (({body[p] : p \in Procs} \cup {doomed[p] : p \in Procs}) \ {0})
  /\ phase' = [p \in Procs |-> "idle"]
  /\ op' = [p \in Procs |-> NoOp]
  /\ body' = [p \in Procs |-> 0]
  /\ doomed' = [p \in Procs |-> 0]
  /\ uid' = [p \in Procs |-> 0]
  /\ note' = [p \in Procs |-> <<0, 0>>]
  /\ lock' = [r \in Resources |-> None]
  /\ UNCHANGED <<dbVars, files, lastPath, origin, bare>>
-----------------------------------------------------------------------------
Start(p) ==
  \/ \E m \in Messages, f \in Folders, kind \in Unmetered \cup {"insert"} : StartInsert(p, m, f, kind)
  \/ \E m \in Messages, f \in Folders : StartMove(p, m, f)
  \/ \E m \in Messages, flag \in Flags : StartFlags(p, m, flag)
  \/ \E m, n \in Messages, f \in Folders : StartCopy(p, m, n, f)
  \/ \E m \in Messages, kind \in {"expunge", "purge"} : StartDelete(p, m, kind)
  \/ \E m \in Messages : StartDiscard(p, m)
  \/ \E f \in Folders : StartRecount(p, f)

Proceed(p) ==
  \/ Stage(p) \/ RemoveAhead(p) \/ RemoveBody(p) \/ DeleteNothing(p)
  \/ \E r \in Resources : Acquire(p, r) \/ Refuse(p, r)
  \/ \E kind \in Metered \cup Unmetered : CommitInsert(p, kind)
  \/ CommitFlags(p) \/ FindUnchanged(p) \/ CommitMove(p)
  \/ \E kind \in {"expunge", "purge", "discard"} : CommitDelete(p, kind)
  \/ CommitTell(p) \/ CommitRecount(p)

Next ==
  \/ \E p \in Procs : Start(p) \/ Proceed(p) \/ LoseSource(p) \/ StatementFails(p) \/ DeadlockVictim(p)
  \/ Crash

Spec == Init /\ [][Next]_vars
-----------------------------------------------------------------------------
(* Properties. *)

DbTypes ==
  /\ row \in [Messages -> Row]
  /\ uidNext \in [Folders -> Nat] /\ count \in [Folders -> Nat] /\ unseen \in [Folders -> Nat]
  /\ used \in Nat
  /\ told \in [Messages -> [folder : Folders \cup {None}, uid : Nat, flags : SUBSET Flags]]
  /\ wanted \in [Messages -> SUBSET Flags]
  /\ drifted \in SUBSET Folders /\ hushed \in SUBSET Messages
  /\ skew \in SUBSET {"purge", "import"}

Op == [kind : Kind, msg : Messages \cup {None}, from : Messages \cup {None},
       to : Folders \cup {None}, flag : Flags \cup {None}, base : Row]

ProcTypes ==
  /\ phase \in [Procs -> {"idle", "stage", "tx", "clean"}]
  /\ op \in [Procs -> Op]
  /\ body \in [Procs -> Nat] /\ doomed \in [Procs -> Nat] /\ uid \in [Procs -> Nat]
  /\ note \in [Procs -> Nat \X Nat]

(* Every variable stays in its type; in particular no counter, all clamped  *)
(* by GREATEST(.., 0), goes below zero however stale it is.                 *)
TypeOK ==
  /\ DbTypes
  /\ ProcTypes
  /\ files \in SUBSET Nat /\ lastPath \in Nat
  /\ lock \in [Resources -> Procs \cup {None}]
  /\ spent \in [{"ops", "faults"} -> Nat]
  /\ origin \in [Messages -> Metered \cup Unmetered \cup {"none"}]
  /\ orphans \in SUBSET Nat /\ bare \in SUBSET Messages

(* A row never points at a body that is not there, whatever operations race *)
(* on it, fail or crash: the new body is staged before the row names it and *)
(* the old one removed after (relocate.rs, set_flags_with_path_logged). Two *)
(* kinds of rows stand without a body, and no other: a placeholder, and the *)
(* copy of a draft whose body its route removed ahead of it.                *)
BodiesKept == \A m \in Live \ bare : row[m].path \in files

Accounted == {row[m].path : m \in Live} \cup {body[p] : p \in Procs} \cup {doomed[p] : p \in Procs}

(* Nobody leaves files behind except a crash, a delete that raced a new     *)
(* path and a draft copy that failed: every other body file is a row's, or  *)
(* in the hands of an operation that will name or remove it.                *)
NoOrphans == files \subseteq Accounted \cup orphans

(* No acknowledged flag change is undone by another session that computed   *)
(* the whole flag string from an older row: the path is the row's version.  *)
(* A row without a body has no version, as its path stays what it is.       *)
NoFlagLost == \A m \in Live \ bare : row[m].flags = wanted[m]

(* The folder badges equal the rows, unless a recount wrote numbers that    *)
(* were out of date when it got the row.                                    *)
CountersExact ==
  \A f \in Folders \ drifted :
    count[f] = Cardinality(In(f)) /\ unseen[f] = Cardinality(UnseenIn(f))

(* Unless mail came in without being charged, the cached usage never        *)
(* understates the mail there is; it is exact as long as nothing that       *)
(* leaves it alone (purge, discard, import, draft copy) came since a        *)
(* charged insert stored the sum of what it found.                          *)
UsageCovers ==
  /\ "import" \notin skew => Cardinality(Mail) <= used
  /\ skew = {} => used = Cardinality(Mail)

(* Deliveries, appends and copies never exceed the quota together; what     *)
(* imports and draft copies bring is not asked, and leaves them less room.  *)
QuotaHolds == Cardinality({m \in Live : origin[m] \in Metered}) <= Quota

(* No UID denotes two messages of a folder, and all are below uid_next,     *)
(* though two inserts and moves may go for the same one at once.            *)
UidsDistinct ==
  /\ \A m \in Live : row[m].uid < uidNext[row[m].folder]
  /\ \A m, n \in Live : m # n /\ row[m].folder = row[n].folder => row[m].uid # row[n].uid

(* Everything derived from the rows is what they make of it, up to what the *)
(* code says of each part above: the bodies on disk, the counters and UIDs  *)
(* of the folders, the usage and its limit.                                 *)
BooksBalance == NoOrphans /\ CountersExact /\ UsageCovers /\ QuotaHolds /\ UidsDistinct

(* The newest journal row of every message says where it is, under which    *)
(* UID and with which flags (or that it is gone): nothing a client is not   *)
(* told. Excepted are the messages whose last change came without a journal *)
(* row of its transaction (import, draft copy, placeholder, purge, discard) *)
(* until one says the truth, and those of which a late one said what others *)
(* had changed since.                                                       *)
JournalTold == \A m \in Messages \ hushed : told[m] = View(row[m])

(* A message enters a folder with a UID that is at least the UIDNEXT any    *)
(* client has been told, and below the next one: an IMAP client that asks   *)
(* for UIDNEXT:* misses nothing and no UID denotes two messages.            *)
UidsAscend ==
  [][\A m \in Messages :
       LET old == row[m]  new == row'[m] IN
       new.folder # None /\ (new.folder # old.folder \/ new.uid # old.uid) =>
         uidNext[new.folder] <= new.uid /\ new.uid < uidNext'[new.folder]]_vars
-----------------------------------------------------------------------------
(* What the repository says and the code does not do. *)

(* Migration 0007: "Other code must not take this lock while holding it in  *)
(* the reverse order of database row locks". insert_logged and the copy     *)
(* hold the users row when they come to the journal lock; an expunge and,   *)
(* through the journal's foreign key, a flag change or a move hold the      *)
(* journal lock when they come to the users row.                            *)
JournalLockLast ==
  ~ \E p, q \in Procs : lock[Journal] = p /\ Blocks(q, p) /\ Awaits(q, Journal)

(* docs/storage.md 9.4: "recount is the repair". Its subquery reads before  *)
(* the row lock is granted, so it overwrites what was committed meanwhile.  *)
RecountRepairs == \A f \in Folders : count[f] = Cardinality(In(f))

(* service.rs, delete_message: "losing the row while the file survives      *)
(* would leave mail the platform cannot account for". The purge removes the *)
(* path it read before its transaction, not that of the row it deleted.     *)
NoBodySurvives == files \subseteq Accounted
=============================================================================
