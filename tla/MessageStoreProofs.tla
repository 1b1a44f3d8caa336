------------------------- MODULE MessageStoreProofs -------------------------
(* Proofs about MessageStore, for any number of messages and processes: no  *)
(* row points at a body that is not there unless it stands without one, the *)
(* quota holds for the mail it is asked about, UIDs ascend, no flag change  *)
(* is lost, the journal tells what is in the rows, and what is derived from *)
(* the rows (counters, UIDs, usage, bodies on disk) agrees with them.       *)
EXTENDS MessageStore, FiniteSetTheorems, TLAPS

Reads(p) == op[p].kind \in {"flags", "move"}
Fresh(p) == body[p] # 0 /\ body[p] # op[p].base.path

(* An operation names the message and the folder that its kind needs. *)
OpShape ==
  \A p \in Procs :
    /\ Mutates(p) \/ Adds(p) => op[p].msg \in Messages
    /\ op[p].kind = "tell" /\ phase[p] # "idle" => op[p].msg \in Messages
    /\ Adds(p) \/ op[p].kind \in {"move", "recount"} => op[p].to \in Folders
    /\ op[p].kind = "flags" => op[p].flag \in Flags

(* A row has a path as long as it is there, and shares it with no other. *)
RowsOwn ==
  /\ \A m \in Messages : row[m].path <= lastPath /\ (row[m].folder = None <=> row[m].path = 0)
  /\ \A m \in Live : origin[m] # "none"
  /\ \A m, n \in Live : m # n => row[m].path # row[n].path

(* What an operation has staged is there, unless it stages no body, and     *)
(* nobody knows of it yet; or it is the path it read, whose file is gone    *)
(* for good.                                                                *)
StagedOwn ==
  \A p \in Procs :
    /\ body[p] <= lastPath /\ op[p].base.path <= lastPath /\ doomed[p] <= lastPath
    /\ Fresh(p) => /\ body[p] \in files \/ op[p].msg \in bare
                   /\ \A m \in Live : row[m].path # body[p]
                   /\ \A q \in Procs : doomed[q] # body[p] /\ op[q].base.path # body[p]
                   /\ \A q \in Procs \ {p} : body[q] # body[p]
    /\ body[p] # 0 /\ ~Fresh(p) => body[p] \notin files

(* What an operation will remove is no row's that has a body. *)
DoomedGone == \A p \in Procs : \A m \in Live \ bare : row[m].path # doomed[p]

(* The path an operation read belongs to its message or to none, and while  *)
(* a flag change or a move holds the row, the row still has it.             *)
BaseHeld ==
  \A p \in Procs :
    /\ Mutates(p) => /\ op[p].base.path # 0
                     /\ \A m \in Live \ {op[p].msg} : row[m].path # op[p].base.path
    /\ Mutates(p) /\ phase[p] = "tx" /\ lock[op[p].msg] = p =>
         op[p].msg \in Live /\ (Reads(p) => row[op[p].msg].path = op[p].base.path)

(* The path is the version of a row that has a body: as long as it is what  *)
(* a flag change or a move read, so are the flags.                          *)
ReadStill ==
  \A p \in Procs :
    Reads(p) /\ op[p].msg \in Live \ bare /\ row[op[p].msg].path = op[p].base.path =>
      row[op[p].msg].flags = op[p].base.flags

(* A message that is being added is known to its operation alone. *)
AddsAlone ==
  \A p \in Procs :
    Adds(p) => /\ op[p].msg \notin Live /\ origin[op[p].msg] = op[p].kind
               /\ \A q \in Procs \ {p} : Adds(q) => op[q].msg # op[p].msg

(* Where an operation is in its course. *)
Course ==
  \A p \in Procs :
    /\ phase[p] = "idle" => op[p] = NoOp
    /\ phase[p] = "stage" => Adds(p) \/ Reads(p) \/ op[p].kind = "discard"
    /\ Adds(p) \/ Reads(p) => (phase[p] = "tx" => body[p] # 0)
    /\ Adds(p) \/ op[p].kind = "move" => (phase[p] = "tx" => Fresh(p))
    /\ phase[p] \in {"idle", "stage", "clean"} => body[p] = 0
    /\ phase[p] = "clean" => ~Adds(p)
    /\ phase[p] # "tx" => \A r \in Resources : lock[r] # p

Types == TypeOK /\ OpShape
Paths == RowsOwn /\ BodiesKept /\ StagedOwn /\ DoomedGone /\ BaseHeld /\ ReadStill /\ AddsAlone /\ Course

(* Rest, and the journal row that is owed: the operation is over, but for   *)
(* what o says.                                                             *)
Over(p, o, at) ==
  /\ op' = [op EXCEPT ![p] = o]
  /\ phase' = [phase EXCEPT ![p] = at]
  /\ body' = [body EXCEPT ![p] = 0]
  /\ doomed' = [doomed EXCEPT ![p] = 0]
  /\ uid' = [uid EXCEPT ![p] = 0]
  /\ note' = [note EXCEPT ![p] = <<0, 0>>]
-----------------------------------------------------------------------------
(* Types. *)

LEMMA CountsAreNumbers ==
  ASSUME NEW f
  PROVE  /\ Cardinality(Live) \in Nat /\ Cardinality(Mail) \in Nat
         /\ Cardinality(In(f)) \in Nat /\ Cardinality(UnseenIn(f)) \in Nat
<1>1. IsFiniteSet(Messages) BY StoreAssumption
<1>2. \A S \in SUBSET Messages : Cardinality(S) \in Nat BY <1>1, FS_Subset, FS_CardinalityType
<1>3. Live \in SUBSET Messages /\ Mail \in SUBSET Messages /\ In(f) \in SUBSET Messages /\ UnseenIn(f) \in SUBSET Messages
  BY DEF Live, Mail, In, UnseenIn
<1> QED BY <1>2, <1>3

LEMMA MonusType == \A a, b \in Nat : Monus(a, b) \in Nat
BY DEF Monus

LEMMA NoOpType == NoRow \in Row /\ NoOp \in Op /\ NoOp.kind = "tell" /\ NoOp.base.path = 0
BY DEF NoRow, Row, NoOp, Op, Kind

LEMMA CounterTypes ==
  ASSUME NEW c \in [Folders -> Nat], NEW f, NEW n \in Nat
  PROVE  /\ [c EXCEPT ![f] = @ + n] \in [Folders -> Nat]
         /\ [c EXCEPT ![f] = Monus(@, n)] \in [Folders -> Nat]
         /\ [c EXCEPT ![f] = n] \in [Folders -> Nat]
<1>1. CASE f \in Folders
  <2> DEFINE x == c[f]
  <2>0. x \in Nat /\ x + n \in Nat BY <1>1
  <2>1. Monus(x, n) \in Nat
    <3> HIDE DEF x
    <3> QED BY <2>0, MonusType
  <2>2. \A e \in Nat : [c EXCEPT ![f] = e] \in [Folders -> Nat] OBVIOUS
  <2> QED BY <2>0, <2>1, <2>2
<1>2. CASE f \notin Folders
  <2>1. \A e : [c EXCEPT ![f] = e] = c BY <1>2
  <2> QED BY <2>1
<1> QED BY <1>1, <1>2

(* What the kinds are, so that no proof about one has to open the sets. *)
LEMMA KindsApart ==
  ASSUME NEW p \in Procs
  PROVE  /\ Adds(p) => ~Mutates(p) /\ op[p].kind \notin {"tell", "recount"}
         /\ Mutates(p) => op[p].kind \notin {"tell", "recount"}
         /\ Reads(p) => Mutates(p)
         /\ Charges(p) => Adds(p)
         /\ op[p].kind \in {"tell", "recount"} => ~Adds(p) /\ ~Mutates(p) /\ ~Reads(p) /\ ~Charges(p)
BY DEF Adds, Mutates, Reads, Charges, Metered, Unmetered

(* Starts name a message that the account has, or draw a new one's id. *)
Wanting(o) ==
  /\ o.kind \in {"flags", "move", "expunge", "purge", "discard"} => o.msg \in Messages
  /\ o.kind \in Metered \cup Unmetered => o.msg \in Messages
  /\ o.kind \in Metered \cup Unmetered \cup {"move", "recount"} => o.to \in Folders
  /\ o.kind = "flags" => o.flag \in Flags
  /\ o.kind # "tell"

LEMMA BeginTypes ==
  ASSUME Types, NEW p \in Procs, NEW o \in Op, NEW at \in {"stage", "tx"}, Begin(p, o, at), Wanting(o),
         note' \in [Procs -> Nat \X Nat], spent' \in [{"ops", "faults"} -> Nat],
         origin' \in [Messages -> Metered \cup Unmetered \cup {"none"}]
  PROVE  Types'
<1> USE DEF Types, Begin
<1>1. DbTypes' BY DEF TypeOK, DbTypes, dbVars
<1>2. ProcTypes' BY DEF TypeOK, ProcTypes
<1>3. OpShape'
  <2>1. \A q \in Procs : op'[q] = (IF q = p THEN o ELSE op[q]) /\ (q # p => phase'[q] = phase[q])
    BY DEF TypeOK, ProcTypes
  <2> QED BY <2>1 DEF OpShape, Mutates, Adds, Wanting
<1> QED BY <1>1, <1>2, <1>3 DEF TypeOK

LEMMA SpendType ==
  ASSUME TypeOK, NEW k \in {"ops", "faults"}, NEW max, Spend(k, max) PROVE spent' \in [{"ops", "faults"} -> Nat]
BY DEF TypeOK, Spend

LEMMA SpendTwiceType ==
  ASSUME TypeOK, SpendTwice PROVE spent' \in [{"ops", "faults"} -> Nat]
BY DEF TypeOK, SpendTwice

LEMMA DrawsType ==
  ASSUME TypeOK, NEW m \in Messages, NEW kind \in Metered \cup Unmetered, Draws(m, kind)
  PROVE  origin' \in [Messages -> Metered \cup Unmetered \cup {"none"}]
BY DEF TypeOK, Draws

LEMMA StartTypes ==
  ASSUME Types, NEW p \in Procs, Start(p) PROVE Types'
<1> USE NoOpType
<1>0. \A m \in Messages : row[m] \in Row BY DEF Types, TypeOK, DbTypes
<1>a. note \in [Procs -> Nat \X Nat] /\ origin \in [Messages -> Metered \cup Unmetered \cup {"none"}] /\ TypeOK
  BY DEF Types, TypeOK, ProcTypes
<1>1. ASSUME NEW m \in Messages, NEW f \in Folders, NEW kind \in Unmetered \cup {"insert"}, StartInsert(p, m, f, kind)
      PROVE  Types'
  <2> DEFINE o == [NoOp EXCEPT !.kind = kind, !.msg = m, !.to = f]
  <2>0. kind \in Metered \cup Unmetered BY DEF Metered
  <2>1. o \in Op /\ o.kind = kind /\ o.msg = m /\ o.to = f BY <2>0 DEF NoOp, Op, Kind
  <2>2. Begin(p, o, "stage") /\ note' = note /\ Draws(m, kind) BY <1>1 DEF StartInsert
  <2>3. spent' \in [{"ops", "faults"} -> Nat] BY <1>1, <1>a, SpendType, SpendTwiceType DEF StartInsert
  <2> HIDE DEF o
  <2>4. Wanting(o) BY <2>0, <2>1 DEF Wanting, Metered, Unmetered
  <2> QED BY <1>a, <2>0, <2>1, <2>2, <2>3, <2>4, BeginTypes, DrawsType
<1>2. ASSUME NEW m \in Messages, NEW flag \in Flags, StartFlags(p, m, flag) PROVE Types'
  <2> DEFINE o == [NoOp EXCEPT !.kind = "flags", !.msg = m, !.flag = flag, !.base = row[m]]
  <2>1. o \in Op /\ o.kind = "flags" /\ o.msg = m /\ o.flag = flag BY <1>0 DEF NoOp, Op, Kind
  <2>2. Begin(p, o, "stage") /\ Spend("ops", MaxOps) /\ origin' = origin /\ note' = note BY <1>2 DEF StartFlags
  <2> HIDE DEF o
  <2>3. Wanting(o) BY <2>1 DEF Wanting, Metered, Unmetered
  <2> QED BY <1>a, <2>1, <2>2, <2>3, BeginTypes, SpendType
<1>3. ASSUME NEW m \in Messages, NEW f \in Folders, StartMove(p, m, f) PROVE Types'
  <2> DEFINE o == [NoOp EXCEPT !.kind = "move", !.msg = m, !.to = f, !.base = row[m]]
  <2>1. o \in Op /\ o.kind = "move" /\ o.msg = m /\ o.to = f BY <1>0 DEF NoOp, Op, Kind
  <2>2. Begin(p, o, "stage") /\ Spend("ops", MaxOps) /\ origin' = origin /\ note' = note BY <1>3 DEF StartMove
  <2> HIDE DEF o
  <2>3. Wanting(o) BY <2>1 DEF Wanting, Metered, Unmetered
  <2> QED BY <1>a, <2>1, <2>2, <2>3, BeginTypes, SpendType
<1>4. ASSUME NEW from \in Messages, NEW m \in Messages, NEW f \in Folders, StartCopy(p, from, m, f) PROVE Types'
  <2> DEFINE o == [kind |-> "copy", msg |-> m, from |-> from, to |-> f, flag |-> None, base |-> row[from]]
  <2>1. o \in Op /\ o.kind = "copy" /\ o.msg = m /\ o.to = f BY <1>0 DEF Op, Kind, Metered
  <2>2. Begin(p, o, "stage") /\ Spend("ops", MaxOps) /\ Draws(m, "copy") /\ note' = note BY <1>4 DEF StartCopy
  <2> HIDE DEF o
  <2>3. Wanting(o) BY <2>1 DEF Wanting
  <2>4. "copy" \in Metered \cup Unmetered BY DEF Metered
  <2> QED BY <1>a, <2>1, <2>2, <2>3, <2>4, BeginTypes, SpendType, DrawsType
<1>5. ASSUME NEW m \in Messages, NEW kind \in {"expunge", "purge"}, StartDelete(p, m, kind) PROVE Types'
  <2> DEFINE o == [NoOp EXCEPT !.kind = kind, !.msg = m, !.base = row[m]]
  <2>1. o \in Op /\ o.kind = kind /\ o.msg = m BY <1>0 DEF NoOp, Op, Kind
  <2>2. Begin(p, o, "tx") /\ Spend("ops", MaxOps) /\ origin' = origin /\ note' = note BY <1>5 DEF StartDelete
  <2> HIDE DEF o
  <2>3. Wanting(o) BY <2>1 DEF Wanting, Metered, Unmetered
  <2> QED BY <1>a, <2>1, <2>2, <2>3, BeginTypes, SpendType
<1>6. ASSUME NEW m \in Messages, StartDiscard(p, m) PROVE Types'
  <2> DEFINE o == [NoOp EXCEPT !.kind = "discard", !.msg = m, !.base = row[m]]
  <2>1. o \in Op /\ o.kind = "discard" /\ o.msg = m BY <1>0 DEF NoOp, Op, Kind
  <2>2. Begin(p, o, "stage") /\ Spend("ops", MaxOps) /\ origin' = origin /\ note' = note BY <1>6 DEF StartDiscard
  <2> HIDE DEF o
  <2>3. Wanting(o) BY <2>1 DEF Wanting, Metered, Unmetered
  <2> QED BY <1>a, <2>1, <2>2, <2>3, BeginTypes, SpendType
<1>7. ASSUME NEW f \in Folders, StartRecount(p, f) PROVE Types'
  <2> DEFINE o == [NoOp EXCEPT !.kind = "recount", !.to = f]
  <2>1. o \in Op /\ o.kind = "recount" /\ o.to = f BY DEF NoOp, Op, Kind
  <2>2. Begin(p, o, "tx") /\ origin' = origin /\ SpendTwice BY <1>7 DEF StartRecount
  <2>3. note' \in [Procs -> Nat \X Nat] BY <1>7, <1>a, CountsAreNumbers DEF StartRecount
  <2> HIDE DEF o
  <2>4. Wanting(o) BY <2>1 DEF Wanting, Metered, Unmetered
  <2> QED BY <1>a, <2>1, <2>2, <2>3, <2>4, BeginTypes, SpendTwiceType
<1> QED BY <1>1, <1>2, <1>3, <1>4, <1>5, <1>6, <1>7 DEF Start

LEMMA OverTypes ==
  ASSUME Types, NEW p \in Procs, NEW o \in Op, NEW at \in {"idle", "tx"}, Over(p, o, at),
         o.kind = "tell", at = "idle" \/ o.msg \in Messages
  PROVE  ProcTypes' /\ OpShape'
<1>1. ProcTypes' BY DEF Types, TypeOK, ProcTypes, Over
<1>2. \A q \in Procs : /\ op'[q] = (IF q = p THEN o ELSE op[q])
                       /\ phase'[q] = (IF q = p THEN at ELSE phase[q])
  BY DEF Types, TypeOK, ProcTypes, Over
<1>3. OpShape' BY <1>2 DEF Types, OpShape, Mutates, Adds, Metered, Unmetered
<1> QED BY <1>1, <1>3

LEMMA RestTypes ==
  ASSUME Types, NEW p \in Procs, Rest(p) PROVE ProcTypes' /\ OpShape' /\ Over(p, NoOp, "idle")
<1>1. Over(p, NoOp, "idle") BY DEF Over, Rest
<1> QED BY <1>1, NoOpType, OverTypes

(* The journal row that Owe leaves to be written. *)
Owed(m, r) == [NoOp EXCEPT !.msg = m, !.base = [r EXCEPT !.path = 0]]

LEMMA OweTypes ==
  ASSUME Types, NEW p \in Procs, NEW r \in Row, op[p].msg \in Messages, Owe(p, r)
  PROVE  /\ ProcTypes' /\ OpShape' /\ Over(p, Owed(op[p].msg, r), "tx")
         /\ Owed(op[p].msg, r) \in Op /\ Owed(op[p].msg, r).kind = "tell"
         /\ Owed(op[p].msg, r).msg = op[p].msg /\ Owed(op[p].msg, r).base = [r EXCEPT !.path = 0]
         /\ Owed(op[p].msg, r).base.path = 0
<1>1. Over(p, Owed(op[p].msg, r), "tx") BY DEF Over, Owe, Owed
<1>2. /\ Owed(op[p].msg, r) \in Op /\ Owed(op[p].msg, r).kind = "tell"
      /\ Owed(op[p].msg, r).msg = op[p].msg /\ Owed(op[p].msg, r).base = [r EXCEPT !.path = 0]
      /\ Owed(op[p].msg, r).base.path = 0
  BY DEF Owed, NoOp, Op, Kind, Row, NoRow
<1> QED BY <1>1, <1>2, OverTypes

LEMMA CleanUpTypes ==
  ASSUME Types, NEW p \in Procs, NEW path \in Nat, CleanUp(p, path), op[p].kind # "tell" PROVE ProcTypes' /\ OpShape'
<1>1. ProcTypes' BY DEF Types, TypeOK, ProcTypes, CleanUp
<1>2. \A q \in Procs : op'[q] = op[q] /\ (q # p => phase'[q] = phase[q])
  BY DEF Types, TypeOK, ProcTypes, CleanUp
<1>3. OpShape' BY <1>2 DEF Types, OpShape, Mutates, Adds
<1> QED BY <1>1, <1>3

LEMMA UnlockType ==
  ASSUME TypeOK, NEW p \in Procs, lock' = [r \in Resources |-> IF lock[r] = p THEN None ELSE lock[r]]
  PROVE  lock' \in [Resources -> Procs \cup {None}]
BY DEF TypeOK

LEMMA FailTypes ==
  ASSUME Types, NEW p \in Procs, Fail(p), spent' \in [{"ops", "faults"} -> Nat] PROVE Types'
<1>1. DbTypes' BY DEF Fail, Types, TypeOK, DbTypes, dbVars
<1>2. ProcTypes' /\ OpShape' BY RestTypes DEF Fail
<1>3. lock' \in [Resources -> Procs \cup {None}] BY UnlockType DEF Fail, Types
<1>4. Left(p) \subseteq Nat BY DEF Left, Types, TypeOK, ProcTypes
<1> QED BY <1>1, <1>2, <1>3, <1>4 DEF Fail, Types, TypeOK

LEMMA StageTypes ==
  ASSUME Types, NEW p \in Procs, Stage(p) PROVE Types'
<1>1. DbTypes' BY DEF Stage, Types, TypeOK, DbTypes, dbVars
<1>2. op[p].base.path \in Nat /\ FreshPath(p) \in Nat
  BY DEF Types, TypeOK, ProcTypes, Op, Row, FreshPath
<1>3. phase[p] = "stage" /\ (op[p].kind = "stub" => op[p].msg \in Messages)
  BY DEF Stage, Types, OpShape, Adds, Unmetered
<1>4. CASE Rest(p) /\ UNCHANGED <<files, lastPath, bare>>
  <2>1. ProcTypes' /\ OpShape' BY <1>4, RestTypes
  <2> QED BY <1>1, <1>4, <2>1 DEF Types, TypeOK, Stage
<1>5. ASSUME NEW path \in Nat, UNCHANGED <<op, doomed, uid, note>>, lastPath' \in Nat,
             files' \in SUBSET Nat, bare' \in SUBSET Messages,
             body' = [body EXCEPT ![p] = path], phase' = [phase EXCEPT ![p] = "tx"]
      PROVE  Types'
  <2>1. ProcTypes' BY <1>5 DEF Types, TypeOK, ProcTypes
  <2>2. \A q \in Procs : op'[q] = op[q] /\ (phase'[q] # "idle" => phase[q] # "idle")
    BY <1>3, <1>5 DEF Types, TypeOK, ProcTypes
  <2>3. OpShape' BY <2>2 DEF Types, OpShape, Mutates, Adds
  <2> QED BY <1>1, <1>5, <2>1, <2>3 DEF Types, TypeOK, Stage
<1>6. files \in SUBSET Nat /\ bare \in SUBSET Messages /\ lastPath \in Nat BY DEF Types, TypeOK
<1> QED BY <1>2, <1>3, <1>4, <1>5, <1>6 DEF Stage, FreshPath

LEMMA RemoveAheadTypes ==
  ASSUME Types, NEW p \in Procs, RemoveAhead(p) PROVE Types'
<1>1. DbTypes' BY DEF RemoveAhead, Types, TypeOK, DbTypes, dbVars
<1>2. ProcTypes' BY DEF RemoveAhead, Types, TypeOK, ProcTypes
<1>3. op[p].msg \in Messages BY DEF RemoveAhead, Types, OpShape, Mutates
<1>4. \A q \in Procs : op'[q] = op[q] /\ (phase'[q] # "idle" => phase[q] # "idle")
  BY DEF RemoveAhead, Types, TypeOK, ProcTypes
<1>5. OpShape' BY <1>4 DEF Types, OpShape, Mutates, Adds
<1> QED BY <1>1, <1>2, <1>3, <1>5 DEF RemoveAhead, Types, TypeOK

LEMMA AcquireTypes ==
  ASSUME Types, NEW p \in Procs, NEW r \in Resources, Acquire(p, r) PROVE Types'
<1>1. DbTypes' BY DEF Acquire, Types, TypeOK, DbTypes, dbVars
<1>2. lock' \in [Resources -> Procs \cup {None}] BY DEF Acquire, Types, TypeOK
<1>3. OpShape' BY DEF Acquire, Types, OpShape, Mutates, Adds
<1>4. ProcTypes'
  <2>1. CASE r = op[p].to /\ op[p].kind # "recount"
    <3>1. r \in Folders BY <2>1, StoreAssumption DEF Types, TypeOK, ProcTypes, Op
    <3>2. Cardinality(Mail) \in Nat BY <3>1, CountsAreNumbers
    <3>3. uidNext[r] \in Nat /\ <<Cardinality(Mail) + 1, 0>> \in Nat \X Nat
      BY <3>1, <3>2 DEF Types, TypeOK, DbTypes
    <3> QED BY <2>1, <3>3 DEF Acquire, Types, TypeOK, ProcTypes
  <2>2. CASE ~(r = op[p].to /\ op[p].kind # "recount")
    BY <2>2 DEF Acquire, Types, TypeOK, ProcTypes
  <2> QED BY <2>1, <2>2
<1> QED BY <1>1, <1>2, <1>3, <1>4 DEF Acquire, Types, TypeOK

(* What a commit that changes one row leaves to show. *)
LEMMA ChangeTypes ==
  ASSUME Types, NEW p \in Procs, NEW kind, Commit(p, kind), NEW m \in Messages, NEW new \in Row,
         row' = [row EXCEPT ![m] = new],
         told' = Announced(m, new) \/ told' = told,
         uidNext' \in [Folders -> Nat], count' \in [Folders -> Nat], unseen' \in [Folders -> Nat],
         used' \in Nat, wanted' \in [Messages -> SUBSET Flags],
         drifted' \in SUBSET Folders, hushed' \in SUBSET Messages, skew' \in SUBSET {"purge", "import"},
         ProcTypes', OpShape', UNCHANGED <<files, lastPath>>, orphans' \in SUBSET Nat
  PROVE  Types'
<1>1. View(new) \in [folder : Folders \cup {None}, uid : Nat, flags : SUBSET Flags] BY DEF View, Row
<1>2. told' \in [Messages -> [folder : Folders \cup {None}, uid : Nat, flags : SUBSET Flags]]
  BY <1>1 DEF Announced, Types, TypeOK, DbTypes
<1>3. DbTypes' BY <1>2 DEF Types, TypeOK, DbTypes
<1>4. lock' \in [Resources -> Procs \cup {None}] BY UnlockType DEF Commit, Types
<1> QED BY <1>3, <1>4 DEF Commit, Types, TypeOK

LEMMA FirstFlagsType ==
  ASSUME Types, NEW p \in Procs PROVE FirstFlags(p) \in SUBSET Flags
<1>1. op[p].base.flags \in SUBSET Flags /\ {Seen} \in SUBSET Flags
  BY StoreAssumption DEF Types, TypeOK, ProcTypes, Op, Row
<1> QED BY <1>1 DEF FirstFlags

LEMMA CommitInsertTypes ==
  ASSUME Types, NEW p \in Procs, NEW kind \in Metered \cup Unmetered, CommitInsert(p, kind) PROVE Types'
<1> DEFINE m == op[p].msg
           f == op[p].to
           flags == FirstFlags(p)
           n == IF Seen \in flags THEN 0 ELSE 1
           new == [folder |-> f, uid |-> uid[p], flags |-> flags, path |-> body[p]]
<1>1. Commit(p, kind) /\ op[p].kind = kind /\ Adds(p) BY DEF CommitInsert, Commit, Adds
<1>2. m \in Messages /\ f \in Folders /\ flags \in SUBSET Flags
  BY <1>1, FirstFlagsType DEF Types, OpShape
<1>3. uid[p] \in Nat /\ body[p] \in Nat /\ uid[p] + 1 \in Nat /\ n \in Nat /\ note[p][1] \in Nat
  BY DEF Types, TypeOK, ProcTypes
<1>4. new \in Row BY <1>2, <1>3 DEF Row
<1>5. /\ row' = [row EXCEPT ![m] = new] /\ uidNext' = [uidNext EXCEPT ![f] = uid[p] + 1]
      /\ count' = [count EXCEPT ![f] = @ + 1] /\ unseen' = [unseen EXCEPT ![f] = @ + n]
      /\ told' = Announced(m, new) \/ told' = told
      /\ hushed' = hushed \/ hushed' = hushed \cup {m}
      /\ wanted' = [wanted EXCEPT ![m] = flags] /\ UNCHANGED <<drifted, files, lastPath, orphans>>
  BY DEF CommitInsert, Bumped
<1>6. used' \in {used, note[p][1]} /\ skew' \in {skew, {}, skew \cup {"import"}}
  BY DEF CommitInsert, Charge
<1>7. Owe(p, new) \/ Rest(p) BY DEF CommitInsert
<1>8. /\ uidNext \in [Folders -> Nat] /\ count \in [Folders -> Nat] /\ unseen \in [Folders -> Nat]
      /\ used \in Nat /\ skew \in SUBSET {"purge", "import"} /\ wanted \in [Messages -> SUBSET Flags]
      /\ drifted \in SUBSET Folders /\ hushed \in SUBSET Messages /\ orphans \in SUBSET Nat
  BY DEF Types, TypeOK, DbTypes
<1> HIDE DEF new, n, flags
<1>9. ProcTypes' /\ OpShape'
  <2>1. CASE Owe(p, new) BY <1>2, <1>4, <2>1, OweTypes
  <2>2. CASE Rest(p) BY <2>2, RestTypes
  <2> QED BY <1>7, <2>1, <2>2
<1> HIDE DEF m, f
<1>10. /\ uidNext' \in [Folders -> Nat] /\ count' \in [Folders -> Nat] /\ unseen' \in [Folders -> Nat]
  BY <1>3, <1>5, <1>8, CounterTypes
<1>11. /\ used' \in Nat /\ skew' \in SUBSET {"purge", "import"} /\ wanted' \in [Messages -> SUBSET Flags]
       /\ drifted' \in SUBSET Folders /\ hushed' \in SUBSET Messages /\ orphans' \in SUBSET Nat
  BY <1>2, <1>3, <1>5, <1>6, <1>8
<1> QED BY <1>1, <1>2, <1>4, <1>5, <1>9, <1>10, <1>11, ChangeTypes

LEMMA NewFlagsType ==
  ASSUME Types, NEW p \in Procs, op[p].kind = "flags" PROVE NewFlags(p) \in SUBSET Flags
<1>1. op[p].base.flags \in SUBSET Flags BY DEF Types, TypeOK, ProcTypes, Op, Row
<1>2. op[p].flag \in Flags BY DEF Types, OpShape
<1> QED BY <1>1, <1>2 DEF NewFlags, Toggle

LEMMA CommitFlagsTypes ==
  ASSUME Types, NEW p \in Procs, CommitFlags(p) PROVE Types'
<1> DEFINE m == op[p].msg
           f == row[m].folder
           flags == NewFlags(p)
           new == [folder |-> f, uid |-> row[m].uid, flags |-> flags, path |-> body[p]]
           path == IF body[p] = op[p].base.path THEN 0 ELSE op[p].base.path
<1>1. Commit(p, "flags") /\ op[p].kind = "flags" /\ m \in Messages /\ op[p].flag \in Flags
  BY DEF CommitFlags, Commit, Mutates, Types, OpShape
<1>2. row[m] \in Row /\ op[p].base \in Row /\ body[p] \in Nat
  BY <1>1 DEF Types, TypeOK, DbTypes, ProcTypes, Op
<1>3. new \in Row /\ path \in Nat BY <1>1, <1>2, NewFlagsType DEF Row
<1>4. unseen' \in [Folders -> Nat]
  BY CounterTypes DEF CommitFlags, Types, TypeOK, DbTypes
<1>5. wanted' \in [Messages -> SUBSET Flags]
  BY <1>1 DEF CommitFlags, Toggle, Types, TypeOK, DbTypes
<1>6. /\ row' = [row EXCEPT ![m] = new] /\ told' = Announced(m, new) /\ CleanUp(p, path)
      /\ hushed' = hushed \ {m}
      /\ UNCHANGED <<uidNext, count, used, skew, drifted, files, lastPath, orphans>>
  BY DEF CommitFlags
<1>7. /\ uidNext \in [Folders -> Nat] /\ count \in [Folders -> Nat] /\ used \in Nat
      /\ skew \in SUBSET {"purge", "import"}
      /\ drifted \in SUBSET Folders /\ hushed \in SUBSET Messages /\ orphans \in SUBSET Nat
  BY DEF Types, TypeOK, DbTypes
<1> HIDE DEF new, path, m
<1>8. ProcTypes' /\ OpShape' BY <1>1, <1>3, <1>6, CleanUpTypes
<1> QED BY <1>1, <1>3, <1>4, <1>5, <1>6, <1>7, <1>8, ChangeTypes

LEMMA ShiftedType ==
  ASSUME NEW c \in [Folders -> Nat], NEW from, NEW to, NEW n \in Nat
  PROVE  Shifted(c, from, to, n) \in [Folders -> Nat]
<1> DEFINE d == [c EXCEPT ![from] = Monus(@, n)]
<1>1. d \in [Folders -> Nat] BY CounterTypes
<1>2. [d EXCEPT ![to] = @ + n] \in [Folders -> Nat]
  <2> HIDE DEF d
  <2> QED BY <1>1, CounterTypes
<1> QED BY <1>2 DEF Shifted

LEMMA CommitMoveTypes ==
  ASSUME Types, NEW p \in Procs, CommitMove(p) PROVE Types'
<1> DEFINE m == op[p].msg
           f == op[p].to
           r == row[m]
           n == IF Seen \in r.flags THEN 0 ELSE 1
           new == [folder |-> f, uid |-> uid[p], flags |-> r.flags, path |-> body[p]]
<1>1. Commit(p, "move") /\ op[p].kind = "move" /\ m \in Messages /\ f \in Folders
  BY DEF CommitMove, Commit, Mutates, Types, OpShape
<1>2. r \in Row /\ op[p].base \in Row /\ body[p] \in Nat /\ uid[p] \in Nat
  BY <1>1 DEF Types, TypeOK, DbTypes, ProcTypes, Op
<1>3. new \in Row /\ op[p].base.path \in Nat /\ n \in Nat BY <1>1, <1>2 DEF Row
<1>4. /\ count' = Shifted(count, r.folder, f, 1) /\ unseen' = Shifted(unseen, r.folder, f, n)
      /\ uidNext' = [uidNext EXCEPT ![f] = uid[p] + 1] /\ hushed' = hushed \ {m}
      /\ row' = [row EXCEPT ![m] = new] /\ told' = Announced(m, new) /\ CleanUp(p, op[p].base.path)
      /\ UNCHANGED <<used, skew, wanted, drifted, files, lastPath, orphans>>
  BY DEF CommitMove, Bumped
<1>5. /\ uidNext \in [Folders -> Nat] /\ count \in [Folders -> Nat] /\ unseen \in [Folders -> Nat]
      /\ used \in Nat /\ skew \in SUBSET {"purge", "import"} /\ wanted \in [Messages -> SUBSET Flags]
      /\ drifted \in SUBSET Folders /\ hushed \in SUBSET Messages /\ orphans \in SUBSET Nat
  BY DEF Types, TypeOK, DbTypes
<1> HIDE DEF new, n, m, f, r
<1>6. count' \in [Folders -> Nat] /\ unseen' \in [Folders -> Nat] BY <1>3, <1>4, <1>5, ShiftedType
<1>7. uidNext' \in [Folders -> Nat]
  <2>1. uid[p] + 1 \in Nat BY <1>2
  <2> QED BY <2>1, <1>4, <1>5, CounterTypes
<1>8. ProcTypes' /\ OpShape' BY <1>1, <1>3, <1>4, CleanUpTypes
<1> QED BY <1>1, <1>3, <1>4, <1>5, <1>6, <1>7, <1>8, ChangeTypes

LEMMA CommitDeleteTypes ==
  ASSUME Types, NEW p \in Procs, NEW kind \in {"expunge", "purge", "discard"}, CommitDelete(p, kind) PROVE Types'
<1> DEFINE m == op[p].msg
           r == row[m]
           n == IF Seen \in r.flags THEN 0 ELSE 1
           path == IF kind = "expunge" THEN r.path ELSE op[p].base.path
<1>1. Commit(p, kind) /\ op[p].kind = kind /\ m \in Messages BY DEF CommitDelete, Commit, Mutates, Types, OpShape
<1>2. r \in Row /\ op[p].base \in Row /\ NoRow \in Row
  BY <1>1, NoOpType DEF Types, TypeOK, DbTypes, ProcTypes, Op
<1>3. path \in Nat /\ r.path \in Nat /\ n \in Nat BY <1>2 DEF Row
<1>4. /\ count' = [count EXCEPT ![r.folder] = Monus(@, 1)] /\ unseen' = [unseen EXCEPT ![r.folder] = Monus(@, n)]
      /\ row' = [row EXCEPT ![m] = NoRow] /\ CleanUp(p, path)
      /\ orphans' = orphans \cup ({r.path} \ {path}) /\ wanted' = [wanted EXCEPT ![m] = {}]
      /\ UNCHANGED <<uidNext, drifted, files, lastPath>>
  BY DEF CommitDelete
<1>5. used' \in Nat
  <2>1. used \in Nat /\ Size(m) \in Nat BY DEF Types, TypeOK, DbTypes, Size
  <2> QED BY <2>1, MonusType DEF CommitDelete
<1>6. /\ skew' \in SUBSET {"purge", "import"} /\ hushed' \in SUBSET Messages
      /\ told' = Announced(m, NoRow) \/ told' = told
  BY <1>1 DEF CommitDelete, Types, TypeOK, DbTypes
<1>7. /\ uidNext \in [Folders -> Nat] /\ count \in [Folders -> Nat] /\ unseen \in [Folders -> Nat]
      /\ wanted \in [Messages -> SUBSET Flags] /\ drifted \in SUBSET Folders /\ orphans \in SUBSET Nat
  BY DEF Types, TypeOK, DbTypes
<1> HIDE DEF n, m, r, path
<1>8. count' \in [Folders -> Nat] /\ unseen' \in [Folders -> Nat] BY <1>3, <1>4, <1>7, CounterTypes
<1>9. wanted' \in [Messages -> SUBSET Flags] /\ orphans' \in SUBSET Nat BY <1>3, <1>4, <1>7
<1>10. ProcTypes' /\ OpShape' BY <1>1, <1>3, <1>4, CleanUpTypes
<1> QED BY <1>1, <1>2, <1>4, <1>5, <1>6, <1>7, <1>8, <1>9, <1>10, ChangeTypes

LEMMA CommitTellTypes ==
  ASSUME Types, NEW p \in Procs, CommitTell(p) PROVE Types'
<1>1. op[p].msg \in Messages BY DEF CommitTell, Commit, Types, OpShape
<1>2. View(op[p].base) \in [folder : Folders \cup {None}, uid : Nat, flags : SUBSET Flags]
  BY DEF View, Row, Types, TypeOK, ProcTypes, Op
<1>3. DbTypes' BY <1>1, <1>2 DEF CommitTell, Announced, Types, TypeOK, DbTypes
<1>4. ProcTypes' /\ OpShape' BY RestTypes DEF CommitTell
<1>5. lock' \in [Resources -> Procs \cup {None}] BY UnlockType DEF CommitTell, Commit, Types
<1> QED BY <1>3, <1>4, <1>5 DEF CommitTell, Commit, Types, TypeOK

LEMMA CommitRecountTypes ==
  ASSUME Types, NEW p \in Procs, CommitRecount(p) PROVE Types'
<1> DEFINE f == op[p].to
<1>1. f \in Folders /\ note[p][1] \in Nat /\ note[p][2] \in Nat
  BY DEF CommitRecount, Commit, Types, TypeOK, ProcTypes, OpShape
<1>2. DbTypes'
  <2>1. count' \in [Folders -> Nat] /\ unseen' \in [Folders -> Nat]
    BY <1>1 DEF CommitRecount, Types, TypeOK, DbTypes
  <2>2. drifted' \in SUBSET Folders BY <1>1 DEF CommitRecount, Types, TypeOK, DbTypes
  <2> QED BY <2>1, <2>2 DEF CommitRecount, Types, TypeOK, DbTypes
<1>3. ProcTypes' /\ OpShape' BY RestTypes DEF CommitRecount
<1>4. lock' \in [Resources -> Procs \cup {None}] BY UnlockType DEF CommitRecount, Commit, Types
<1> QED BY <1>2, <1>3, <1>4 DEF CommitRecount, Commit, Types, TypeOK

LEMMA RemoveBodyTypes ==
  ASSUME Types, NEW p \in Procs, RemoveBody(p) PROVE Types'
<1>1. DbTypes' BY DEF RemoveBody, Types, TypeOK, DbTypes, dbVars
<1>2. ProcTypes' /\ OpShape'
  <2>1. CASE op[p].kind # "purge" BY <2>1, RestTypes DEF RemoveBody
  <2>2. CASE op[p].kind = "purge"
    <3>1. op[p].msg \in Messages BY <2>2 DEF Types, OpShape, Mutates
    <3> QED BY <2>2, <3>1, NoOpType, OweTypes DEF RemoveBody
  <2> QED BY <2>1, <2>2
<1> QED BY <1>1, <1>2 DEF RemoveBody, Types, TypeOK

LEMMA CrashTypes == ASSUME Types, Crash PROVE Types'
<1>1. DbTypes' BY DEF Crash, Types, TypeOK, DbTypes, dbVars
<1>2. ProcTypes' BY NoOpType DEF Crash, ProcTypes
<1>3. OpShape' BY NoOpType DEF Crash, OpShape, Mutates, Adds, Metered, Unmetered
<1>4. orphans' \in SUBSET Nat
  <2>1. \A p \in Procs : body[p] \in Nat /\ doomed[p] \in Nat BY DEF Types, TypeOK, ProcTypes
  <2> QED BY <2>1 DEF Crash, Types, TypeOK
<1>5. spent' \in [{"ops", "faults"} -> Nat] BY SpendType DEF Crash, Types
<1>6. lock' \in [Resources -> Procs \cup {None}] BY DEF Crash
<1> QED BY <1>1, <1>2, <1>3, <1>4, <1>5, <1>6 DEF Crash, Types, TypeOK

LEMMA ProceedTypes == ASSUME Types, NEW p \in Procs, Proceed(p) PROVE Types'
<1>0. op[p].base.path \in Nat /\ body[p] \in Nat BY DEF Types, TypeOK, ProcTypes, Op, Row
<1>1. CASE DeleteNothing(p)
  <2>1. op[p].kind # "tell" BY <1>1 DEF DeleteNothing
  <2>2. ProcTypes' /\ OpShape' BY <1>0, <1>1, <2>1, CleanUpTypes DEF DeleteNothing
  <2>3. DbTypes' BY <1>1 DEF DeleteNothing, Types, TypeOK, DbTypes, dbVars
  <2>4. lock' \in [Resources -> Procs \cup {None}] BY <1>1, UnlockType DEF DeleteNothing, Types
  <2> QED BY <1>1, <2>2, <2>3, <2>4 DEF DeleteNothing, Types, TypeOK
<1>2. CASE FindUnchanged(p)
  <2>1. op[p].kind # "tell" BY <1>2 DEF FindUnchanged, Commit
  <2>2. ProcTypes' /\ OpShape' BY <1>0, <1>2, <2>1, CleanUpTypes DEF FindUnchanged
  <2>3. DbTypes' BY <1>2 DEF FindUnchanged, Types, TypeOK, DbTypes, dbVars
  <2>4. lock' \in [Resources -> Procs \cup {None}] BY <1>2, UnlockType DEF FindUnchanged, Commit, Types
  <2> QED BY <1>0, <1>2, <2>2, <2>3, <2>4 DEF FindUnchanged, Commit, Types, TypeOK
<1>3. ASSUME NEW r \in Resources, Refuse(p, r) PROVE Types'
  BY <1>3, FailTypes DEF Refuse, Types, TypeOK
<1> QED BY <1>1, <1>2, <1>3, StageTypes, RemoveAheadTypes, RemoveBodyTypes, AcquireTypes, CommitInsertTypes,
           CommitFlagsTypes, CommitMoveTypes, CommitDeleteTypes, CommitTellTypes, CommitRecountTypes DEF Proceed

LEMMA TypesStep == Types /\ [Next]_vars => Types'
<1> SUFFICES ASSUME Types, [Next]_vars PROVE Types' OBVIOUS
<1>1. CASE UNCHANGED vars
  BY <1>1 DEF vars, Types, TypeOK, DbTypes, ProcTypes, OpShape, Mutates, Adds
<1>2. ASSUME NEW p \in Procs, LoseSource(p) PROVE Types'
  BY <1>2, FailTypes DEF LoseSource, Types, TypeOK
<1>3. ASSUME NEW p \in Procs, StatementFails(p) PROVE Types'
  BY <1>3, FailTypes, SpendType DEF StatementFails, Types
<1>4. ASSUME NEW p \in Procs, DeadlockVictim(p) PROVE Types'
  BY <1>4, FailTypes DEF DeadlockVictim, Types, TypeOK
<1> QED BY <1>1, <1>2, <1>3, <1>4, StartTypes, ProceedTypes, CrashTypes DEF Next

LEMMA InitTypes == Init => Types
<1> SUFFICES ASSUME Init PROVE Types OBVIOUS
<1>1. DbTypes BY NoOpType DEF Init, DbTypes, View, NoRow
<1>2. ProcTypes BY NoOpType DEF Init, ProcTypes
<1>3. OpShape BY NoOpType DEF Init, OpShape, Mutates, Adds, Metered, Unmetered
<1> QED BY <1>1, <1>2, <1>3 DEF Init, Types, TypeOK

(* Every reachable state of the store is well typed; no counter and no      *)
(* usage ever goes below zero.                                              *)
THEOREM StoreTypes == Spec => []TypeOK
<1>1. Spec => []Types BY InitTypes, TypesStep, PTL DEF Spec
<1>2. Types => TypeOK BY DEF Types
<1> QED BY <1>1, <1>2, PTL
-----------------------------------------------------------------------------
(* Bodies. What each kind of step does to the rows, the files and what the  *)
(* operations hold of them.                                                 *)

(* An operation that is over holds nothing; what it may still owe is a      *)
(* journal row, which touches no body.                                      *)
LEMMA OverHoldsNothing ==
  ASSUME Types, NEW p \in Procs, NEW o, NEW at \in {"idle", "tx"}, Over(p, o, at), o.kind = "tell", o.base.path = 0
  PROVE  \A q \in Procs :
           /\ body'[q] = (IF q = p THEN 0 ELSE body[q])
           /\ doomed'[q] = (IF q = p THEN 0 ELSE doomed[q])
           /\ op'[q] = (IF q = p THEN o ELSE op[q])
           /\ phase'[q] = (IF q = p THEN at ELSE phase[q])
           /\ Fresh(q)' <=> q # p /\ Fresh(q)
           /\ Adds(q)' <=> q # p /\ Adds(q)
           /\ Reads(q)' <=> q # p /\ Reads(q)
           /\ Mutates(q)' <=> q # p /\ Mutates(q)
<1>1. \A q \in Procs : /\ body'[q] = (IF q = p THEN 0 ELSE body[q])
                       /\ doomed'[q] = (IF q = p THEN 0 ELSE doomed[q])
                       /\ op'[q] = (IF q = p THEN o ELSE op[q])
                       /\ phase'[q] = (IF q = p THEN at ELSE phase[q])
  BY DEF Over, Types, TypeOK, ProcTypes
<1> QED BY <1>1 DEF Fresh, Adds, Reads, Mutates, Metered, Unmetered

(* An operation ends without a new row: refused, failed, told, recounted,   *)
(* or done with its removal.                                                *)
LEMMA OverKeepsPaths ==
  ASSUME Types, Paths, NEW p \in Procs, NEW o, NEW at \in {"idle", "tx"}, Over(p, o, at),
         o.kind = "tell", o.base.path = 0, at = "idle" => o = NoOp,
         UNCHANGED <<row, lastPath, origin, bare>>,
         files' \subseteq files, \A m \in Live \ bare : row[m].path \in files',
         \A q \in Procs \ {p} : Fresh(q) /\ body[q] \in files => body[q] \in files',
         \A r \in Resources : lock'[r] # p /\ \A q \in Procs \ {p} : lock'[r] = q => lock[r] = q
  PROVE  Paths'
<1> USE DEF Types, TypeOK, ProcTypes, DbTypes
<1>0. Live' = Live BY DEF Live
<1>1. RowsOwn' BY <1>0 DEF Paths, RowsOwn
<1>2. BodiesKept' BY <1>0 DEF BodiesKept
<1>3. \A q \in Procs :
        /\ body'[q] = (IF q = p THEN 0 ELSE body[q])
        /\ doomed'[q] = (IF q = p THEN 0 ELSE doomed[q])
        /\ op'[q] = (IF q = p THEN o ELSE op[q])
        /\ phase'[q] = (IF q = p THEN at ELSE phase[q])
        /\ Fresh(q)' <=> q # p /\ Fresh(q)
        /\ Adds(q)' <=> q # p /\ Adds(q)
        /\ Reads(q)' <=> q # p /\ Reads(q)
        /\ Mutates(q)' <=> q # p /\ Mutates(q)
  BY OverHoldsNothing
<1>4. StagedOwn'
  <2>1. \A q \in Procs : body'[q] <= lastPath' /\ op'[q].base.path <= lastPath' /\ doomed'[q] <= lastPath'
    BY <1>3 DEF Paths, StagedOwn
  <2>2. \A q \in Procs : Fresh(q)' => /\ body'[q] \in files' \/ op'[q].msg \in bare'
                                      /\ \A m \in Live' : row'[m].path # body'[q]
    BY <1>0, <1>3 DEF Paths, StagedOwn
  <2>3. \A q \in Procs : Fresh(q)' =>
           /\ \A t \in Procs : doomed'[t] # body'[q] /\ op'[t].base.path # body'[q]
           /\ \A t \in Procs \ {q} : body'[t] # body'[q]
    BY <1>3 DEF Paths, StagedOwn, Fresh
  <2>4. \A q \in Procs : body'[q] # 0 /\ ~Fresh(q)' => body'[q] \notin files'
    BY <1>3 DEF Paths, StagedOwn
  <2> QED BY <2>1, <2>2, <2>3, <2>4 DEF StagedOwn
<1>5. DoomedGone' BY <1>0, <1>3 DEF Paths, DoomedGone, RowsOwn, Live
<1>6. BaseHeld'
  <2>1. ASSUME NEW q \in Procs, Mutates(q)'
        PROVE  /\ q # p /\ Mutates(q) /\ op'[q] = op[q] /\ phase'[q] = phase[q] /\ (Reads(q)' <=> Reads(q))
               /\ lock'[op[q].msg] = q => lock[op[q].msg] = q
    <3>1. q # p /\ Mutates(q) /\ op'[q] = op[q] /\ phase'[q] = phase[q] /\ (Reads(q)' <=> Reads(q))
      BY <1>3, <2>1
    <3>2. op[q].msg \in Resources BY <3>1 DEF OpShape, Resources
    <3> QED BY <3>1, <3>2
  <2> QED BY <1>0, <2>1 DEF Paths, BaseHeld
<1>7. ReadStill' BY <1>0, <1>3 DEF Paths, ReadStill
<1>8. AddsAlone' BY <1>0, <1>3 DEF Paths, AddsAlone
<1>9. Course'
  <2>1. \A q \in Procs \ {p}, r \in Resources : lock'[r] = q => lock[r] = q OBVIOUS
  <2> QED BY <1>3, <2>1 DEF Paths, Course
<1> QED BY <1>1, <1>2, <1>4, <1>5, <1>6, <1>7, <1>8, <1>9 DEF Paths

LEMMA RestKeepsPaths ==
  ASSUME Types, Paths, NEW p \in Procs, Rest(p), UNCHANGED <<row, lastPath, origin, bare>>,
         files' \subseteq files, \A m \in Live \ bare : row[m].path \in files',
         \A q \in Procs \ {p} : Fresh(q) /\ body[q] \in files => body[q] \in files',
         \A r \in Resources : lock'[r] # p /\ \A q \in Procs \ {p} : lock'[r] = q => lock[r] = q
  PROVE  Paths'
BY RestTypes, NoOpType, OverKeepsPaths

(* How an operation begins. *)
Reading == {"flags", "move", "expunge", "purge", "discard"}
Opens(o, at) ==
  /\ o.kind \in Reading => o.msg \in Live /\ o.base = row[o.msg] /\ origin' = origin
  /\ o.kind \in Metered \cup Unmetered => o.msg \in Messages /\ Draws(o.msg, o.kind)
  /\ o.kind \notin Metered \cup Unmetered => origin' = origin
  /\ o.base.path = 0 \/ \E m \in Live : o.base = row[m]
  /\ at = "stage" => o.kind \in Metered \cup Unmetered \cup {"flags", "move", "discard"}
  /\ at = "tx" => o.kind \notin Metered \cup Unmetered \cup {"flags", "move"}

(* An operation begins with the row it reads, or with a message of its own. *)
LEMMA BeginKeepsPaths ==
  ASSUME Types, Paths, NEW p \in Procs, NEW o \in Op, NEW at \in {"stage", "tx"}, Begin(p, o, at), Opens(o, at)
  PROVE  Paths'
<1> USE DEF Types, TypeOK, ProcTypes, DbTypes, Begin, dbVars
<1>0. Live' = Live BY DEF Live
<1>1. /\ phase[p] = "idle" /\ UNCHANGED <<row, files, lastPath, body, doomed, lock, bare>>
      /\ \A q \in Procs : /\ op'[q] = (IF q = p THEN o ELSE op[q])
                          /\ phase'[q] = (IF q = p THEN at ELSE phase[q])
  OBVIOUS
<1>2. body[p] = 0 /\ \A r \in Resources : lock[r] # p BY <1>1 DEF Paths, Course
<1>3. \A m \in Messages : origin[m] # "none" => origin'[m] = origin[m]
  BY DEF Opens, Draws, IsNew, ids
<1>4. RowsOwn' BY <1>0, <1>1, <1>3 DEF Paths, RowsOwn, Live
<1>5. BodiesKept' BY <1>0, <1>1 DEF Paths, BodiesKept
<1>6. \A q \in Procs : Fresh(q)' <=> q # p /\ Fresh(q) BY <1>1, <1>2 DEF Fresh
<1>7. o.base.path <= lastPath /\ \A q \in Procs : Fresh(q) => o.base.path # body[q]
  BY DEF Paths, RowsOwn, StagedOwn, Fresh, Live, Opens
<1>8. StagedOwn'
  <2>1. \A q \in Procs : body'[q] <= lastPath' /\ op'[q].base.path <= lastPath' /\ doomed'[q] <= lastPath'
    BY <1>1, <1>7 DEF Paths, StagedOwn
  <2>2. \A q \in Procs : Fresh(q)' => /\ body'[q] \in files' \/ op'[q].msg \in bare'
                                      /\ \A m \in Live' : row'[m].path # body'[q]
    BY <1>0, <1>1, <1>6 DEF Paths, StagedOwn
  <2>3. \A q \in Procs : Fresh(q)' =>
           /\ \A t \in Procs : doomed'[t] # body'[q] /\ op'[t].base.path # body'[q]
           /\ \A t \in Procs \ {q} : body'[t] # body'[q]
    BY <1>1, <1>6, <1>7 DEF Paths, StagedOwn
  <2>4. \A q \in Procs : body'[q] # 0 /\ ~Fresh(q)' => body'[q] \notin files'
    BY <1>1, <1>2, <1>6 DEF Paths, StagedOwn
  <2> QED BY <2>1, <2>2, <2>3, <2>4 DEF StagedOwn
<1>9. DoomedGone' BY <1>0, <1>1 DEF Paths, DoomedGone
<1>10. \A q \in Procs : q # p => /\ Adds(q)' = Adds(q) /\ Reads(q)' = Reads(q) /\ Mutates(q)' = Mutates(q)
                                 /\ op'[q] = op[q] /\ phase'[q] = phase[q]
  BY <1>1 DEF Adds, Reads, Mutates
<1>11. op'[p] = o /\ phase'[p] = at BY <1>1
<1>12. BaseHeld'
  <2>1. Mutates(p)' => /\ o.base.path # 0 /\ o.msg \in Resources /\ lock[o.msg] # p
                       /\ \A m \in Live \ {o.msg} : row[m].path # o.base.path
    BY <1>1, <1>2 DEF Mutates, Opens, Reading, Paths, RowsOwn, Live, Resources
  <2> QED BY <1>0, <1>1, <1>10, <1>11, <2>1 DEF Paths, BaseHeld
<1>13. ReadStill'
  <2>1. Reads(p)' => row[o.msg].flags = o.base.flags BY <1>11 DEF Reads, Opens, Reading
  <2> QED BY <1>0, <1>1, <1>10, <1>11, <2>1 DEF Paths, ReadStill
<1>14. AddsAlone'
  <2>1. ASSUME Adds(p)'
        PROVE  /\ o.msg \notin Live /\ origin'[o.msg] = o.kind /\ o.msg \in Messages /\ origin[o.msg] = "none"
               /\ \A q \in Procs : Adds(q) => op[q].msg # o.msg
    <3>1. Draws(o.msg, o.kind) /\ o.msg \in Messages BY <1>11, <2>1 DEF Adds, Opens
    <3>2. origin[o.msg] = "none" /\ origin'[o.msg] = o.kind BY <3>1 DEF Draws, IsNew, ids
    <3>3. \A q \in Procs : Adds(q) => origin[op[q].msg] # "none"
      BY DEF Paths, AddsAlone, Adds, Metered, Unmetered
    <3> QED BY <3>1, <3>2, <3>3 DEF Paths, RowsOwn
  <2>2. ASSUME NEW q \in Procs, q # p, Adds(q)
        PROVE  op[q].msg \notin Live /\ origin'[op[q].msg] = op[q].kind /\ op[q].msg \in Messages
    <3>1. op[q].msg \in Messages /\ op[q].msg \notin Live /\ origin[op[q].msg] = op[q].kind
      BY <2>2 DEF Paths, AddsAlone, OpShape
    <3>2. op[q].kind # "none" BY <2>2 DEF Adds, Metered, Unmetered
    <3> QED BY <1>3, <3>1, <3>2
  <2> QED BY <1>0, <1>10, <1>11, <2>1, <2>2 DEF Paths, AddsAlone
<1>15. Course'
  <2>1. at = "stage" => Adds(p)' \/ Reads(p)' \/ o.kind = "discard" BY <1>11 DEF Adds, Reads, Opens
  <2>2. at = "tx" => ~Adds(p)' /\ ~Reads(p)' /\ o.kind # "move" BY <1>11 DEF Adds, Reads, Opens
  <2> QED BY <1>1, <1>2, <1>6, <1>10, <1>11, <2>1, <2>2 DEF Paths, Course
<1> QED BY <1>4, <1>5, <1>8, <1>9, <1>12, <1>13, <1>14, <1>15 DEF Paths

(* Every start is a beginning of this form. *)
Started(p) ==
  \E o \in Op, at \in {"stage", "tx"} : Begin(p, o, at) /\ Opens(o, at) /\ o.kind # "tell"

LEMMA StartsOpen ==
  ASSUME Types, NEW p \in Procs, Start(p) PROVE Started(p)
<1> USE NoOpType
<1> USE DEF Metered, Unmetered, Reading
<1>0. Live \subseteq Messages /\ \A m \in Messages : row[m] \in Row BY DEF Live, Types, TypeOK, DbTypes
<1>1. ASSUME NEW m \in Messages, NEW f \in Folders, NEW kind \in Unmetered \cup {"insert"}, StartInsert(p, m, f, kind)
      PROVE  Started(p)
  <2> DEFINE o == [NoOp EXCEPT !.kind = kind, !.msg = m, !.to = f]
  <2>1. o \in Op /\ o.kind = kind /\ o.msg = m /\ o.base.path = 0 BY DEF NoOp, Op, Kind
  <2>2. Begin(p, o, "stage") /\ Draws(m, kind) BY <1>1 DEF StartInsert
  <2> HIDE DEF o
  <2> QED BY <2>1, <2>2 DEF Started, Opens
<1>2. ASSUME NEW m \in Messages, NEW flag \in Flags, StartFlags(p, m, flag) PROVE Started(p)
  <2> DEFINE o == [NoOp EXCEPT !.kind = "flags", !.msg = m, !.flag = flag, !.base = row[m]]
  <2>1. o \in Op /\ o.kind = "flags" /\ o.msg = m /\ o.base = row[m] BY <1>0 DEF NoOp, Op, Kind
  <2>2. Begin(p, o, "stage") /\ origin' = origin /\ m \in Live BY <1>2 DEF StartFlags
  <2> HIDE DEF o
  <2> QED BY <2>1, <2>2 DEF Started, Opens
<1>3. ASSUME NEW m \in Messages, NEW f \in Folders, StartMove(p, m, f) PROVE Started(p)
  <2> DEFINE o == [NoOp EXCEPT !.kind = "move", !.msg = m, !.to = f, !.base = row[m]]
  <2>1. o \in Op /\ o.kind = "move" /\ o.msg = m /\ o.base = row[m] BY <1>0 DEF NoOp, Op, Kind
  <2>2. Begin(p, o, "stage") /\ origin' = origin /\ m \in Live BY <1>3 DEF StartMove
  <2> HIDE DEF o
  <2> QED BY <2>1, <2>2 DEF Started, Opens
<1>4. ASSUME NEW from \in Messages, NEW m \in Messages, NEW f \in Folders, StartCopy(p, from, m, f) PROVE Started(p)
  <2> DEFINE o == [kind |-> "copy", msg |-> m, from |-> from, to |-> f, flag |-> None, base |-> row[from]]
  <2>1. o \in Op /\ o.kind = "copy" /\ o.msg = m /\ o.base = row[from] BY <1>0 DEF Op, Kind
  <2>2. Begin(p, o, "stage") /\ Draws(m, "copy") /\ from \in Live BY <1>4 DEF StartCopy
  <2> HIDE DEF o
  <2> QED BY <2>1, <2>2 DEF Started, Opens
<1>5. ASSUME NEW m \in Messages, NEW kind \in {"expunge", "purge"}, StartDelete(p, m, kind) PROVE Started(p)
  <2> DEFINE o == [NoOp EXCEPT !.kind = kind, !.msg = m, !.base = row[m]]
  <2>1. o \in Op /\ o.kind = kind /\ o.msg = m /\ o.base = row[m] BY <1>0 DEF NoOp, Op, Kind
  <2>2. Begin(p, o, "tx") /\ origin' = origin /\ m \in Live BY <1>5 DEF StartDelete
  <2> HIDE DEF o
  <2> QED BY <2>1, <2>2 DEF Started, Opens
<1>6. ASSUME NEW m \in Messages, StartDiscard(p, m) PROVE Started(p)
  <2> DEFINE o == [NoOp EXCEPT !.kind = "discard", !.msg = m, !.base = row[m]]
  <2>1. o \in Op /\ o.kind = "discard" /\ o.msg = m /\ o.base = row[m] BY <1>0 DEF NoOp, Op, Kind
  <2>2. Begin(p, o, "stage") /\ origin' = origin /\ m \in Live BY <1>6 DEF StartDiscard
  <2> HIDE DEF o
  <2> QED BY <2>1, <2>2 DEF Started, Opens
<1>7. ASSUME NEW f \in Folders, StartRecount(p, f) PROVE Started(p)
  <2> DEFINE o == [NoOp EXCEPT !.kind = "recount", !.to = f]
  <2>1. o \in Op /\ o.kind = "recount" /\ o.base.path = 0 BY DEF NoOp, Op, Kind
  <2>2. Begin(p, o, "tx") /\ origin' = origin BY <1>7 DEF StartRecount
  <2> HIDE DEF o
  <2> QED BY <2>1, <2>2 DEF Started, Opens
<1> QED BY <1>1, <1>2, <1>3, <1>4, <1>5, <1>6, <1>7 DEF Start

LEMMA StartKeepsPaths ==
  ASSUME Types, Paths, NEW p \in Procs, Start(p) PROVE Paths'
BY StartsOpen, BeginKeepsPaths DEF Started

LEMMA FailKeepsPaths ==
  ASSUME Types, Paths, NEW p \in Procs, Fail(p) PROVE Paths'
<1>1. \A m \in Live \ bare : row[m].path \in files'
  BY DEF Fail, Paths, BodiesKept, StagedOwn, Fresh, RowsOwn, Live
<1>2. \A q \in Procs \ {p} : Fresh(q) /\ body[q] \in files => body[q] \in files'
  BY DEF Fail, Paths, StagedOwn
<1>3. \A r \in Resources : lock'[r] # p /\ \A q \in Procs \ {p} : lock'[r] = q => lock[r] = q
  BY StoreAssumption DEF Fail
<1> QED BY <1>1, <1>2, <1>3, RestKeepsPaths DEF Fail, dbVars

LEMMA StageKeepsPaths ==
  ASSUME Types, Paths, NEW p \in Procs, Stage(p) PROVE Paths'
<1> USE DEF Types, TypeOK, ProcTypes, DbTypes
<1>0. /\ phase[p] = "stage" /\ op[p].kind # "discard" /\ body[p] = 0 /\ \A r \in Resources : lock[r] # p
      /\ UNCHANGED <<row, origin, lock>> /\ Live' = Live
  BY DEF Stage, Paths, Course, dbVars, Live
<1>1. CASE Rest(p) /\ UNCHANGED <<files, lastPath, bare>>
  BY <1>0, <1>1, RestKeepsPaths DEF Paths, BodiesKept, StagedOwn
<1>2. ASSUME NEW path \in Nat, UNCHANGED <<op, doomed>>, lastPath' \in Nat, files \subseteq files', bare \subseteq bare',
             body' = [body EXCEPT ![p] = path], phase' = [phase EXCEPT ![p] = "tx"],
             \/ /\ path = op[p].base.path /\ path \notin files /\ op[p].kind = "flags"
                /\ UNCHANGED <<files, lastPath, bare>>
             \/ /\ path = lastPath + 1 /\ lastPath' = lastPath + 1
                /\ files' \subseteq files \cup {path} /\ (path \in files' \/ op[p].msg \in bare')
      PROVE Paths'
  <2>1. \A q \in Procs : /\ body'[q] = (IF q = p THEN path ELSE body[q])
                         /\ phase'[q] = (IF q = p THEN "tx" ELSE phase[q])
                         /\ body[q] \in Nat /\ doomed[q] \in Nat /\ op[q].base.path \in Nat
    BY <1>2 DEF Op, Row
  <2>2. lastPath \in Nat /\ lastPath' \in Nat /\ lastPath <= lastPath' /\ files \subseteq files' BY <1>2
  <2>3. RowsOwn'
    <3>1. \A m \in Messages : row[m].path \in Nat BY DEF Row
    <3> QED BY <1>0, <2>2, <3>1 DEF Paths, RowsOwn
  <2>4. BodiesKept' BY <1>0, <1>2, <2>2 DEF Paths, BodiesKept
  <2>5. \A q \in Procs \ {p} : Fresh(q)' <=> Fresh(q) BY <1>2, <2>1 DEF Fresh
  <2>6. \A q \in Procs : /\ body[q] <= lastPath /\ op[q].base.path <= lastPath /\ doomed[q] <= lastPath
    BY DEF Paths, StagedOwn
  <2>7. \A m \in Live : row[m].path \in Nat /\ row[m].path <= lastPath BY DEF Paths, RowsOwn, Live, Row
  <2>8. StagedOwn'
    <3>1. \A q \in Procs : body'[q] <= lastPath' /\ op'[q].base.path <= lastPath' /\ doomed'[q] <= lastPath'
      BY <1>2, <2>1, <2>2, <2>6
    <3>2. ASSUME NEW q \in Procs \ {p}, Fresh(q)'
          PROVE  /\ body'[q] \in files' \/ op'[q].msg \in bare'
                 /\ \A m \in Live' : row'[m].path # body'[q]
                 /\ \A t \in Procs : doomed'[t] # body'[q] /\ op'[t].base.path # body'[q]
                 /\ \A t \in Procs \ {q} : body'[t] # body'[q]
      <4>1. Fresh(q) BY <2>5, <3>2
      <4>2. path # body[q] BY <1>2, <2>1, <2>2, <2>6, <4>1 DEF Paths, StagedOwn
      <4> QED BY <1>0, <1>2, <2>1, <2>2, <4>1, <4>2 DEF Paths, StagedOwn
    <3>3. ASSUME Fresh(p)'
          PROVE  /\ body'[p] \in files' \/ op'[p].msg \in bare'
                 /\ \A m \in Live' : row'[m].path # body'[p]
                 /\ \A t \in Procs : doomed'[t] # body'[p] /\ op'[t].base.path # body'[p]
                 /\ \A t \in Procs \ {p} : body'[t] # body'[p]
      <4>1. path = lastPath + 1 /\ (path \in files' \/ op[p].msg \in bare') BY <1>2, <2>1, <3>3 DEF Fresh
      <4>2. body'[p] = path BY <2>1
      <4>3. \A m \in Live : row[m].path # path BY <2>2, <2>7, <4>1
      <4>4. \A t \in Procs : doomed[t] # path /\ op[t].base.path # path /\ body[t] # path
        BY <2>1, <2>2, <2>6, <4>1
      <4> QED BY <1>0, <1>2, <2>1, <4>1, <4>2, <4>3, <4>4
    <3>4. ASSUME NEW q \in Procs, body'[q] # 0, ~Fresh(q)' PROVE body'[q] \notin files'
      <4>1. CASE q = p
        BY <1>2, <2>1, <2>2, <2>6, <3>4, <4>1 DEF Fresh
      <4>2. CASE q # p
        <5>1. body[q] # 0 /\ ~Fresh(q) /\ body[q] \notin files BY <2>1, <2>5, <3>4, <4>2 DEF Paths, StagedOwn
        <5> QED BY <1>2, <2>1, <2>2, <2>6, <4>2, <5>1
      <4> QED BY <4>1, <4>2
    <3> QED BY <3>1, <3>2, <3>3, <3>4 DEF StagedOwn
  <2>9. DoomedGone' BY <1>0, <1>2 DEF Paths, DoomedGone
  <2>10. \A q \in Procs : Mutates(q)' = Mutates(q) /\ Reads(q)' = Reads(q) /\ Adds(q)' = Adds(q) /\ op'[q] = op[q]
    BY <1>2 DEF Mutates, Reads, Adds
  <2>11. BaseHeld'
    <3>1. \A q \in Procs : Mutates(q) => op[q].msg \in Resources BY DEF OpShape, Resources
    <3> QED BY <1>0, <2>1, <2>10, <3>1 DEF Paths, BaseHeld
  <2>12. ReadStill' BY <1>0, <1>2, <2>10 DEF Paths, ReadStill
  <2>13. AddsAlone' BY <1>0, <2>10 DEF Paths, AddsAlone
  <2>14. Course'
    <3>1. path # 0 /\ (Adds(p) \/ op[p].kind = "move" => Fresh(p)')
      <4>1. CASE path = lastPath + 1
        <5>1. op[p].base.path # path /\ path # 0 BY <2>1, <2>2, <2>6, <4>1
        <5>2. body'[p] = path /\ op'[p] = op[p] BY <1>2, <2>1
        <5> QED BY <5>1, <5>2 DEF Fresh
      <4>2. CASE op[p].kind = "flags" /\ path = op[p].base.path
        BY <4>2, KindsApart DEF Paths, BaseHeld, Mutates
      <4> QED BY <1>2, <4>1, <4>2
    <3>2. \A q \in Procs \ {p} : /\ body'[q] = body[q] /\ phase'[q] = phase[q] /\ op'[q] = op[q]
                                 /\ (Fresh(q)' <=> Fresh(q)) /\ Adds(q)' = Adds(q) /\ Reads(q)' = Reads(q)
      BY <2>1, <2>5, <2>10
    <3>3. body'[p] = path /\ phase'[p] = "tx" /\ op'[p] = op[p] /\ Adds(p)' = Adds(p)
      BY <2>1, <2>10
    <3> QED BY <1>0, <3>1, <3>2, <3>3 DEF Paths, Course
  <2> QED BY <2>3, <2>4, <2>8, <2>9, <2>11, <2>12, <2>13, <2>14 DEF Paths
<1>3. op[p].base.path \in Nat /\ lastPath + 1 \in Nat /\ lastPath \in Nat BY DEF Op, Row
<1>4. ASSUME UNCHANGED <<op, doomed, files, lastPath, bare>>, op[p].kind = "flags", op[p].base.path \notin files,
             body' = [body EXCEPT ![p] = op[p].base.path], phase' = [phase EXCEPT ![p] = "tx"]
      PROVE  Paths'
  BY <1>2, <1>3, <1>4
<1>5. ASSUME UNCHANGED <<op, doomed>>, lastPath' = lastPath + 1,
             IF op[p].kind = "stub" THEN bare' = bare \cup {op[p].msg} /\ files' = files
                                    ELSE files' = files \cup {lastPath + 1} /\ bare' = bare,
             body' = [body EXCEPT ![p] = lastPath + 1], phase' = [phase EXCEPT ![p] = "tx"]
      PROVE  Paths'
  <2>1. /\ lastPath' \in Nat /\ files \subseteq files' /\ bare \subseteq bare'
        /\ files' \subseteq files \cup {lastPath + 1} /\ (lastPath + 1 \in files' \/ op[p].msg \in bare')
    BY <1>3, <1>5
  <2> QED BY <1>2, <1>3, <1>5, <2>1
<1> QED BY <1>1, <1>4, <1>5 DEF Stage, FreshPath

(* A draft's body is removed ahead of the row: from then on the row stands  *)
(* without one.                                                             *)
LEMMA RemoveAheadKeepsPaths ==
  ASSUME Types, Paths, NEW p \in Procs, RemoveAhead(p) PROVE Paths'
<1> USE DEF Types, TypeOK, ProcTypes, DbTypes
<1>0. /\ phase[p] = "stage" /\ op[p].kind = "discard" /\ UNCHANGED <<row, lastPath, op, body, doomed, lock, origin>>
      /\ files' = files \ {op[p].base.path} /\ bare' = bare \cup {op[p].msg} /\ Live' = Live
      /\ \A q \in Procs : phase'[q] = (IF q = p THEN "tx" ELSE phase[q])
  BY DEF RemoveAhead, dbVars, Live
<1>1. \A q \in Procs : Mutates(q)' = Mutates(q) /\ Reads(q)' = Reads(q) /\ Adds(q)' = Adds(q) /\ Fresh(q)' = Fresh(q)
  BY <1>0 DEF Mutates, Reads, Adds, Fresh
<1>2. Mutates(p) /\ ~Adds(p) /\ ~Reads(p) /\ op[p].kind # "move" /\ \A r \in Resources : lock[r] # p
  BY <1>0, KindsApart DEF Mutates, Reads, Paths, Course
<1>3. RowsOwn' BY <1>0 DEF Paths, RowsOwn
<1>4. BodiesKept'
  <2>1. \A m \in Live \ {op[p].msg} : row[m].path # op[p].base.path BY <1>2 DEF Paths, BaseHeld
  <2> QED BY <1>0, <2>1 DEF Paths, BodiesKept
<1>5. StagedOwn' BY <1>0, <1>1 DEF Paths, StagedOwn
<1>6. DoomedGone' BY <1>0 DEF Paths, DoomedGone
<1>7. BaseHeld'
  <2>1. \A q \in Procs : Mutates(q) => op[q].msg \in Resources BY DEF OpShape, Resources
  <2> QED BY <1>0, <1>1, <1>2, <2>1 DEF Paths, BaseHeld
<1>8. ReadStill' BY <1>0, <1>1 DEF Paths, ReadStill
<1>9. AddsAlone' BY <1>0, <1>1 DEF Paths, AddsAlone
<1>10. Course' BY <1>0, <1>1, <1>2 DEF Paths, Course
<1> QED BY <1>3, <1>4, <1>5, <1>6, <1>7, <1>8, <1>9, <1>10 DEF Paths

LEMMA AcquireKeepsPaths ==
  ASSUME Types, Paths, NEW p \in Procs, NEW r \in Resources, Acquire(p, r) PROVE Paths'
<1> USE DEF Types, TypeOK, ProcTypes, DbTypes
<1>0. /\ UNCHANGED <<row, origin, bare, files, lastPath, phase, op, body, doomed>> /\ Live' = Live
      /\ phase[p] = "tx" /\ lock' = [lock EXCEPT ![r] = p]
  BY DEF Acquire, dbVars, Live, Awaits
<1>1. \A q \in Procs : Mutates(q)' = Mutates(q) /\ Reads(q)' = Reads(q) /\ Adds(q)' = Adds(q) /\ Fresh(q)' = Fresh(q)
  BY <1>0 DEF Mutates, Reads, Adds, Fresh
<1>2. RowsOwn' /\ BodiesKept' /\ DoomedGone' BY <1>0 DEF Paths, RowsOwn, BodiesKept, DoomedGone
<1>3. StagedOwn' /\ AddsAlone' /\ ReadStill' BY <1>0, <1>1 DEF Paths, StagedOwn, AddsAlone, ReadStill
<1>4. BaseHeld'
  <2>1. ASSUME Mutates(p), r = op[p].msg
        PROVE  r \in Live /\ (Reads(p) => row[r].path = op[p].base.path)
    <3>1. r \in Messages BY <2>1 DEF OpShape
    <3>2. Reads(p) => r \in Live /\ row[r].path = op[p].base.path BY <2>1 DEF Acquire, Refused, AsRead, Reads
    <3>3. ~Reads(p) => r \in Live BY <2>1, <3>1 DEF Acquire, Refused, Reads, Mutates
    <3> QED BY <3>2, <3>3
  <2>2. \A q \in Procs, s \in Resources : lock'[s] = q => lock[s] = q \/ (q = p /\ s = r) BY <1>0
  <2>3. \A q \in Procs : Mutates(q) => op[q].msg \in Resources BY DEF OpShape, Resources
  <2> QED BY <1>0, <1>1, <2>1, <2>2, <2>3 DEF Paths, BaseHeld
<1>5. Course'
  <2>1. \A q \in Procs, s \in Resources : lock'[s] = q => lock[s] = q \/ (q = p /\ s = r) BY <1>0
  <2> QED BY <1>0, <1>1, <2>1 DEF Paths, Course
<1> QED BY <1>2, <1>3, <1>4, <1>5 DEF Paths

LEMMA CrashKeepsPaths == ASSUME Types, Paths, Crash PROVE Paths'
<1>1. /\ UNCHANGED <<row, origin, bare, files, lastPath>> /\ Live' = Live
      /\ \A p \in Procs : /\ phase'[p] = "idle" /\ op'[p] = NoOp /\ body'[p] = 0 /\ doomed'[p] = 0
                          /\ \A r \in Resources : lock'[r] # p
  BY StoreAssumption DEF Crash, dbVars, Live
<1>2. \A p \in Procs : ~Adds(p)' /\ ~Mutates(p)' /\ ~Reads(p)' /\ ~Fresh(p)'
  BY <1>1, NoOpType DEF Adds, Mutates, Reads, Fresh, Metered, Unmetered
<1>3. RowsOwn' /\ BodiesKept' BY <1>1 DEF Paths, RowsOwn, BodiesKept
<1>4. AddsAlone' /\ BaseHeld' /\ ReadStill' BY <1>2 DEF AddsAlone, BaseHeld, ReadStill
<1>5. StagedOwn' BY <1>1, <1>2, NoOpType DEF StagedOwn, Types, TypeOK
<1>6. DoomedGone' BY <1>1 DEF DoomedGone, Paths, RowsOwn, Live
<1>7. Course' BY <1>1, <1>2, NoOpType DEF Course
<1> QED BY <1>3, <1>4, <1>5, <1>6, <1>7 DEF Paths

(* A removal takes no row's body and nobody's staged one. *)
LEMMA RemoveKeepsPaths ==
  ASSUME Types, Paths, NEW p \in Procs, RemoveBody(p) PROVE Paths'
<1>0. /\ phase[p] = "clean" /\ UNCHANGED <<row, origin, bare, lastPath, lock>> /\ files' = files \ {doomed[p]}
      /\ \A r \in Resources : lock[r] # p
  BY DEF RemoveBody, dbVars, Paths, Course
<1>1. \A m \in Live \ bare : row[m].path \in files' BY <1>0 DEF Paths, BodiesKept, DoomedGone
<1>2. \A q \in Procs \ {p} : Fresh(q) /\ body[q] \in files => body[q] \in files'
  BY <1>0 DEF Paths, StagedOwn
<1>3. files' \subseteq files /\ \A r \in Resources : lock'[r] # p /\ \A q \in Procs \ {p} : lock'[r] = q => lock[r] = q
  BY <1>0
<1>4. CASE Rest(p) BY <1>0, <1>1, <1>2, <1>3, <1>4, RestKeepsPaths
<1>5. CASE op[p].kind = "purge" /\ Owe(p, NoRow)
  <2> DEFINE o == Owed(op[p].msg, NoRow)
  <2>1. op[p].msg \in Messages BY <1>5 DEF Types, OpShape, Mutates
  <2>2. Over(p, o, "tx") /\ o.kind = "tell" /\ o.base.path = 0 BY <1>5, <2>1, NoOpType, OweTypes
  <2> HIDE DEF o
  <2> QED BY <1>0, <1>1, <1>2, <1>3, <2>2, OverKeepsPaths
<1> QED BY <1>4, <1>5 DEF RemoveBody

(* A new row, whose body, if it has one, was staged for it. *)
LEMMA InsertKeepsPaths ==
  ASSUME Types, Paths, NEW p \in Procs, NEW kind \in Metered \cup Unmetered, CommitInsert(p, kind)
  PROVE  Paths'
<1> USE DEF Types, TypeOK, ProcTypes, DbTypes
<1> DEFINE m == op[p].msg
           new == [folder |-> op[p].to, uid |-> uid[p], flags |-> FirstFlags(p), path |-> body[p]]
<1>1. /\ Adds(p) /\ phase[p] = "tx" /\ Fresh(p) /\ m \notin Live /\ origin[m] = kind /\ m \in Messages
      /\ op[p].to \in Folders
  BY DEF CommitInsert, Commit, Adds, Paths, Course, AddsAlone, OpShape
<1>2. new.folder # None /\ new.path = body[p] BY <1>1, StoreAssumption DEF Resources
<1>3. /\ row' = [row EXCEPT ![m] = new] /\ UNCHANGED <<origin, bare, files, lastPath>>
      /\ lock' = [r \in Resources |-> IF lock[r] = p THEN None ELSE lock[r]]
  BY DEF CommitInsert, Commit
<1>4. new \in Row BY <1>1, FirstFlagsType DEF Row
<1>5. \E o, at : /\ Over(p, o, at) /\ o.kind = "tell" /\ o.base.path = 0 /\ at \in {"idle", "tx"}
                 /\ at = "idle" => o = NoOp
  <2> HIDE DEF new
  <2>1. CASE Owe(p, new) BY <1>1, <1>4, <2>1, OweTypes
  <2>2. CASE Rest(p) BY <2>2, RestTypes, NoOpType
  <2> QED BY <2>1, <2>2 DEF CommitInsert, new
<1>6. PICK o, at : /\ Over(p, o, at) /\ o.kind = "tell" /\ o.base.path = 0 /\ at \in {"idle", "tx"}
                   /\ at = "idle" => o = NoOp
  BY <1>5
<1> HIDE DEF new
<1>7. \A q \in Procs :
        /\ body'[q] = (IF q = p THEN 0 ELSE body[q])
        /\ doomed'[q] = (IF q = p THEN 0 ELSE doomed[q])
        /\ op'[q] = (IF q = p THEN o ELSE op[q])
        /\ phase'[q] = (IF q = p THEN at ELSE phase[q])
        /\ Fresh(q)' <=> q # p /\ Fresh(q)
        /\ Adds(q)' <=> q # p /\ Adds(q)
        /\ Reads(q)' <=> q # p /\ Reads(q)
        /\ Mutates(q)' <=> q # p /\ Mutates(q)
  BY <1>6, OverHoldsNothing
<1>8. /\ \A n \in Messages : row'[n] = (IF n = m THEN new ELSE row[n])
      /\ Live' = Live \cup {m} /\ Live \subseteq Messages
  BY <1>1, <1>2, <1>3 DEF Live
<1>9. /\ body[p] # 0 /\ body[p] <= lastPath /\ (body[p] \in files \/ m \in bare)
      /\ \A n \in Live : row[n].path # body[p]
      /\ \A q \in Procs : doomed[q] # body[p] /\ op[q].base.path # body[p]
      /\ \A q \in Procs \ {p} : body[q] # body[p]
  BY <1>1 DEF Paths, StagedOwn, Fresh
<1>10. RowsOwn'
  <2>1. \A n \in Messages : row'[n].path <= lastPath' /\ (row'[n].folder = None <=> row'[n].path = 0)
    BY <1>2, <1>3, <1>8, <1>9 DEF Paths, RowsOwn
  <2>2. \A n \in Live' : origin'[n] # "none"
    BY <1>1, <1>3, <1>8 DEF Paths, RowsOwn, Metered, Unmetered
  <2>3. \A k, n \in Live' : k # n => row'[k].path # row'[n].path
    BY <1>1, <1>2, <1>8, <1>9 DEF Paths, RowsOwn
  <2> QED BY <2>1, <2>2, <2>3 DEF RowsOwn
<1>11. BodiesKept' BY <1>1, <1>2, <1>3, <1>8, <1>9 DEF Paths, BodiesKept
<1>12. StagedOwn'
  <2>1. \A q \in Procs : body'[q] <= lastPath' /\ op'[q].base.path <= lastPath' /\ doomed'[q] <= lastPath'
    BY <1>3, <1>6, <1>7 DEF Paths, StagedOwn
  <2>2. \A q \in Procs : Fresh(q)' => /\ body'[q] \in files' \/ op'[q].msg \in bare'
                                      /\ \A n \in Live' : row'[n].path # body'[q]
    BY <1>1, <1>2, <1>3, <1>7, <1>8, <1>9 DEF Paths, StagedOwn
  <2>3. \A q \in Procs : Fresh(q)' =>
           /\ \A t \in Procs : doomed'[t] # body'[q] /\ op'[t].base.path # body'[q]
           /\ \A t \in Procs \ {q} : body'[t] # body'[q]
    BY <1>6, <1>7 DEF Paths, StagedOwn, Fresh
  <2>4. \A q \in Procs : body'[q] # 0 /\ ~Fresh(q)' => body'[q] \notin files'
    BY <1>3, <1>7 DEF Paths, StagedOwn
  <2> QED BY <2>1, <2>2, <2>3, <2>4 DEF StagedOwn
<1>13. DoomedGone'
  <2>1. \A n \in Live : row[n].path # 0 BY DEF Paths, RowsOwn, Live
  <2> QED BY <1>1, <1>2, <1>3, <1>7, <1>8, <1>9, <2>1 DEF Paths, DoomedGone
<1>14. BaseHeld'
  <2>1. ASSUME NEW q \in Procs, Mutates(q)'
        PROVE  /\ op'[q].base.path # 0 /\ \A n \in Live' \ {op'[q].msg} : row'[n].path # op'[q].base.path
    BY <1>1, <1>2, <1>7, <1>8, <1>9, <2>1 DEF Paths, BaseHeld
  <2>2. ASSUME NEW q \in Procs, Mutates(q)', phase'[q] = "tx", lock'[op'[q].msg] = q
        PROVE  op'[q].msg \in Live' /\ (Reads(q)' => row'[op'[q].msg].path = op'[q].base.path)
    <3>1. q # p /\ Mutates(q) /\ op'[q] = op[q] /\ phase[q] = "tx" BY <1>7, <2>2
    <3>2. op[q].msg \in Resources BY <3>1 DEF OpShape, Resources
    <3>3. lock[op[q].msg] = q BY <1>3, <2>2, <3>1, <3>2, StoreAssumption
    <3>4. op[q].msg \in Live /\ op[q].msg # m BY <1>1, <3>1, <3>3 DEF Paths, BaseHeld
    <3> QED BY <1>7, <1>8, <2>2, <3>1, <3>3, <3>4 DEF Paths, BaseHeld
  <2> QED BY <2>1, <2>2 DEF BaseHeld
<1>15. ReadStill'
  <2>1. ASSUME NEW q \in Procs, Reads(q)', op'[q].msg \in Live' \ bare', row'[op'[q].msg].path = op'[q].base.path
        PROVE  row'[op'[q].msg].flags = op'[q].base.flags
    <3>1. q # p /\ Reads(q) /\ op'[q] = op[q] BY <1>7, <2>1
    <3>2. op[q].msg # m BY <1>1, <1>2, <1>8, <1>9, <2>1, <3>1
    <3>3. op[q].msg \in Live \ bare /\ row'[op[q].msg] = row[op[q].msg] BY <1>3, <1>8, <2>1, <3>1, <3>2
    <3> QED BY <2>1, <3>1, <3>3 DEF Paths, ReadStill
  <2> QED BY <2>1 DEF ReadStill
<1>16. AddsAlone' BY <1>1, <1>3, <1>7, <1>8 DEF Paths, AddsAlone
<1>17. Course'
  <2>1. \A q \in Procs, r \in Resources : lock'[r] = q => lock[r] = q /\ q # p BY <1>3, StoreAssumption
  <2> QED BY <1>6, <1>7, <2>1 DEF Paths, Course
<1> QED BY <1>10, <1>11, <1>12, <1>13, <1>14, <1>15, <1>16, <1>17 DEF Paths

(* The ways a transaction that holds a row ends: it deletes the row, gives  *)
(* it the body it staged (a row without one keeps the path it has), or      *)
(* finds it as it wants it; or it finds no row to delete.                   *)
Deletes(p, path) ==
  /\ lock[op[p].msg] = p /\ row' = [row EXCEPT ![op[p].msg] = NoRow]
  /\ path \in {row[op[p].msg].path, op[p].base.path}
Replaces(p, new, path) ==
  /\ lock[op[p].msg] = p /\ row' = [row EXCEPT ![op[p].msg] = new]
  /\ Reads(p) /\ new.folder # None /\ new.path = body[p]
  /\ path = (IF body[p] = op[p].base.path THEN 0 ELSE op[p].base.path)
Leaves(p, path) ==
  /\ row' = row
  /\ \/ op[p].msg \notin Live /\ path = op[p].base.path
     \/ lock[op[p].msg] = p /\ Reads(p) /\ op[p].msg \in bare /\ path \in {0, op[p].base.path}

LEMMA ChangeKeepsPaths ==
  ASSUME Types, Paths, NEW p \in Procs, Mutates(p), phase[p] = "tx",
         NEW new, NEW path \in Nat, CleanUp(p, path), UNCHANGED <<files, lastPath, origin, bare>>,
         lock' = [r \in Resources |-> IF lock[r] = p THEN None ELSE lock[r]],
         Deletes(p, path) \/ Replaces(p, new, path) \/ Leaves(p, path)
  PROVE  Paths'
<1> USE DEF Types, TypeOK, ProcTypes, DbTypes
<1> DEFINE m == op[p].msg
           kept == m \in bare /\ row'[m].path = row[m].path
           renewed == Fresh(p) /\ row'[m].path = body[p]
<1>1. m \in Messages /\ m \in Resources BY DEF OpShape, Resources
<1>2. \A q \in Procs : /\ body'[q] = (IF q = p THEN 0 ELSE body[q])
                       /\ doomed'[q] = (IF q = p THEN path ELSE doomed[q])
                       /\ phase'[q] = (IF q = p THEN "clean" ELSE phase[q])
                       /\ op'[q] = op[q]
  BY DEF CleanUp
<1>3. \A q \in Procs : /\ Adds(q)' <=> Adds(q)
                       /\ Reads(q)' <=> Reads(q)
                       /\ Mutates(q)' <=> Mutates(q)
                       /\ Fresh(q)' <=> q # p /\ Fresh(q)
  BY <1>2 DEF Adds, Reads, Mutates, Fresh
<1>4. \A r \in Resources : lock'[r] # p /\ \A q \in Procs : lock'[r] = q => lock[r] = q /\ q # p
  BY StoreAssumption
<1>5. ~Adds(p) BY KindsApart
<1>6. /\ op[p].base.path # 0 /\ op[p].base.path <= lastPath
      /\ \A n \in Live \ {m} : row[n].path # op[p].base.path
      /\ \A q \in Procs : Fresh(q) => op[p].base.path # body[q]
  BY DEF Paths, BaseHeld, StagedOwn
<1>7. lock[m] = p => m \in Live /\ (Reads(p) => row[m].path = op[p].base.path) BY DEF Paths, BaseHeld
<1>8. Reads(p) /\ lock[m] = p /\ ~Fresh(p) => body[p] = row[m].path /\ m \in bare
  <2>1. SUFFICES ASSUME Reads(p), lock[m] = p, ~Fresh(p) PROVE body[p] = row[m].path /\ m \in bare OBVIOUS
  <2>2. body[p] # 0 BY <2>1 DEF Paths, Course
  <2>3. body[p] = op[p].base.path /\ body[p] \notin files BY <2>1, <2>2 DEF Fresh, Paths, StagedOwn
  <2> QED BY <1>7, <2>1, <2>3 DEF Paths, BodiesKept
(* Rows after the step: as before, but for m, which is gone, has body[p],   *)
(* or has the path it had and no body.                                      *)
<1>9. /\ \A n \in Messages \ {m} : row'[n] = row[n]
      /\ Live' \ {m} = Live \ {m} /\ Live \subseteq Messages /\ Live' \subseteq Messages
  BY <1>1 DEF Live, Deletes, Replaces, Leaves
<1>10. m \in Live' => m \in Live /\ (renewed \/ kept)
  <2>1. NoRow.folder = None BY DEF NoRow
  <2>2. CASE Deletes(p, path) BY <1>1, <2>1, <2>2 DEF Deletes, Live
  <2>3. CASE Replaces(p, new, path)
    <3>1. row'[m] = new /\ m \in Live BY <1>1, <1>7, <2>3 DEF Replaces
    <3> QED BY <1>8, <2>3, <3>1 DEF Replaces
  <2>4. CASE Leaves(p, path) BY <2>4 DEF Leaves, Live
  <2> QED BY <2>2, <2>3, <2>4
<1>11. row'[m].path <= lastPath /\ (row'[m].folder = None <=> row'[m].path = 0)
  <2>1. NoRow.folder = None /\ NoRow.path = 0 /\ 0 <= lastPath BY DEF NoRow
  <2>2. Reads(p) => body[p] # 0 /\ body[p] <= lastPath BY DEF Paths, StagedOwn, Course
  <2>3. row[m].path <= lastPath /\ (row[m].folder = None <=> row[m].path = 0) BY <1>1 DEF Paths, RowsOwn
  <2>4. CASE Deletes(p, path) BY <1>1, <2>1, <2>4 DEF Deletes
  <2>5. CASE Replaces(p, new, path) BY <1>1, <2>2, <2>5 DEF Replaces
  <2>6. CASE Leaves(p, path) BY <2>3, <2>6 DEF Leaves
  <2> QED BY <2>4, <2>5, <2>6
<1>12. Fresh(p) =>
         /\ body[p] \in files \/ m \in bare
         /\ \A n \in Live : row[n].path # body[p]
         /\ \A q \in Procs : doomed[q] # body[p] /\ op[q].base.path # body[p]
         /\ \A q \in Procs \ {p} : body[q] # body[p]
  BY DEF Paths, StagedOwn
<1>13. path \in {0, row[m].path, op[p].base.path} BY DEF Deletes, Replaces, Leaves
<1>14. \A n \in Live' \ bare : row'[n].path # path
  <2>0. \A n \in Live : row[n].path # 0 BY DEF Paths, RowsOwn, Live
  <2>1. m \in Live' \ bare => row'[m].path # path
    <3>1. Fresh(p) => body[p] # 0 BY DEF Fresh
    <3>2. Fresh(p) /\ m \in Live => body[p] # path BY <1>12, <1>13, <3>1
    <3> QED BY <1>10, <3>2
  <2>2. ASSUME NEW n \in Live' \ bare, n # m PROVE row'[n].path # path
    <3>1. n \in Live /\ row'[n] = row[n] BY <1>9, <2>2
    <3>2. m \in Live => row[n].path # row[m].path BY <2>2, <3>1 DEF Paths, RowsOwn
    <3>3. m \notin Live => row[m].path = 0 BY <1>1 DEF Paths, RowsOwn, Live
    <3> QED BY <1>6, <1>13, <2>0, <2>2, <3>1, <3>2, <3>3
  <2> QED BY <2>1, <2>2
<1>15. path <= lastPath /\ \A q \in Procs : Fresh(q) => path # body[q]
  <2>1. m \in Live => row[m].path <= lastPath /\ \A q \in Procs : Fresh(q) => row[m].path # body[q]
    BY <1>1 DEF Paths, RowsOwn, StagedOwn
  <2>2. m \notin Live => row[m].path = 0 BY <1>1 DEF Paths, RowsOwn, Live
  <2>3. 0 <= lastPath /\ \A q \in Procs : Fresh(q) => body[q] # 0 BY DEF Fresh
  <2> QED BY <1>6, <1>13, <2>1, <2>2, <2>3
<1> HIDE DEF m
<1>16. RowsOwn'
  <2>1. \A n \in Messages : row'[n].path <= lastPath' /\ (row'[n].folder = None <=> row'[n].path = 0)
    BY <1>9, <1>11 DEF Paths, RowsOwn
  <2>2. \A n \in Live' : origin'[n] # "none" BY <1>9, <1>10 DEF Paths, RowsOwn
  <2>3. ASSUME NEW n \in Live', n # m, m \in Live' PROVE row'[n].path # row'[m].path
    <3>1. n \in Live /\ row'[n] = row[n] /\ m \in Live BY <1>9, <1>10, <2>3
    <3>2. row[n].path # row[m].path BY <2>3, <3>1 DEF Paths, RowsOwn
    <3> QED BY <1>10, <1>12, <2>3, <3>1, <3>2
  <2>4. \A k, n \in Live' \ {m} : k # n => row'[k].path # row'[n].path
    BY <1>9 DEF Paths, RowsOwn
  <2> QED BY <2>1, <2>2, <2>3, <2>4 DEF RowsOwn
<1>17. BodiesKept'
  <2>1. m \in Live' \ bare => row'[m].path \in files BY <1>10, <1>12
  <2> QED BY <1>9, <2>1 DEF Paths, BodiesKept
<1>18. StagedOwn'
  <2>1. \A q \in Procs : body'[q] <= lastPath' /\ op'[q].base.path <= lastPath' /\ doomed'[q] <= lastPath'
    BY <1>2, <1>15 DEF Paths, StagedOwn
  <2>2. ASSUME NEW q \in Procs, Fresh(q)'
        PROVE  /\ body'[q] \in files' \/ op'[q].msg \in bare'
               /\ \A n \in Live' : row'[n].path # body'[q]
    <3>1. q # p /\ Fresh(q) /\ body'[q] = body[q] /\ op'[q] = op[q] BY <1>2, <1>3, <2>2
    <3>2. /\ body[q] \in files \/ op[q].msg \in bare
          /\ \A n \in Live : row[n].path # body[q]
      BY <3>1 DEF Paths, StagedOwn
    <3>3. m \in Live' => row'[m].path # body[q] BY <1>10, <1>12, <3>1, <3>2
    <3>4. \A n \in Live' : n # m => row'[n].path # body[q] BY <1>9, <3>2
    <3> QED BY <3>1, <3>2, <3>3, <3>4
  <2>3. \A q \in Procs : Fresh(q)' =>
           /\ \A t \in Procs : doomed'[t] # body'[q] /\ op'[t].base.path # body'[q]
           /\ \A t \in Procs \ {q} : body'[t] # body'[q]
    BY <1>2, <1>3, <1>15 DEF Paths, StagedOwn, Fresh
  <2>4. \A q \in Procs : body'[q] # 0 /\ ~Fresh(q)' => body'[q] \notin files'
    BY <1>2, <1>3 DEF Paths, StagedOwn
  <2> QED BY <2>1, <2>2, <2>3, <2>4 DEF StagedOwn
<1>19. DoomedGone'
  <2>1. ASSUME NEW q \in Procs, q # p, NEW n \in Live' \ bare PROVE row'[n].path # doomed[q]
    <3>1. n # m => n \in Live /\ row'[n] = row[n] BY <1>9, <2>1
    <3>2. n = m => row'[n].path # doomed[q] BY <1>10, <1>12, <2>1
    <3> QED BY <2>1, <3>1, <3>2 DEF Paths, DoomedGone
  <2> QED BY <1>2, <1>14, <2>1 DEF DoomedGone
<1>20. BaseHeld'
  <2>1. ASSUME NEW q \in Procs, Mutates(q)'
        PROVE  /\ op'[q].base.path # 0 /\ \A n \in Live' \ {op'[q].msg} : row'[n].path # op'[q].base.path
    <3>1. Mutates(q) /\ op'[q] = op[q] BY <1>2, <1>3, <2>1
    <3>2. /\ op[q].base.path # 0
          /\ \A n \in Live \ {op[q].msg} : row[n].path # op[q].base.path
      BY <3>1 DEF Paths, BaseHeld
    <3>3. m \in Live' /\ m # op[q].msg => row'[m].path # op[q].base.path BY <1>10, <1>12, <3>2
    <3>4. \A n \in Live' \ {m} : n \in Live /\ row'[n] = row[n] BY <1>9
    <3>5. ASSUME NEW n \in Live', n # op[q].msg PROVE row'[n].path # op[q].base.path
      BY <3>2, <3>3, <3>4, <3>5
    <3> QED BY <3>1, <3>2, <3>5
  <2>2. ASSUME NEW q \in Procs, Mutates(q)', phase'[q] = "tx", lock'[op'[q].msg] = q
        PROVE  op'[q].msg \in Live' /\ (Reads(q)' => row'[op'[q].msg].path = op'[q].base.path)
    <3>1. q # p /\ Mutates(q) /\ op'[q] = op[q] /\ phase[q] = "tx" BY <1>2, <1>3, <2>2
    <3>2. op[q].msg \in Messages /\ op[q].msg \in Resources BY <3>1 DEF OpShape, Resources
    <3>3. lock[op[q].msg] = q BY <1>4, <2>2, <3>1, <3>2
    <3>4. op[q].msg \in Live /\ (Reads(q) => row[op[q].msg].path = op[q].base.path)
      BY <3>1, <3>3 DEF Paths, BaseHeld
    <3>5. op[q].msg # m BY <3>1, <3>3, <3>4 DEF m, Deletes, Replaces, Leaves
    <3> QED BY <1>3, <1>9, <3>1, <3>2, <3>4, <3>5
  <2> QED BY <2>1, <2>2 DEF BaseHeld
<1>21. ReadStill'
  <2>1. ASSUME NEW q \in Procs, Reads(q)', op'[q].msg \in Live' \ bare', row'[op'[q].msg].path = op'[q].base.path
        PROVE  row'[op'[q].msg].flags = op'[q].base.flags
    <3>1. Reads(q) /\ op'[q] = op[q] BY <1>2, <1>3, <2>1
    <3>2. op[q].msg # m BY <1>10, <1>12, <2>1, <3>1
    <3>3. op[q].msg \in Live \ bare /\ row'[op[q].msg] = row[op[q].msg] BY <1>9, <2>1, <3>1, <3>2
    <3> QED BY <2>1, <3>1, <3>3 DEF Paths, ReadStill
  <2> QED BY <2>1 DEF ReadStill
<1>22. AddsAlone' BY <1>2, <1>3, <1>9, <1>10 DEF Paths, AddsAlone
<1>23. Course' BY <1>2, <1>3, <1>4, <1>5 DEF Paths, Course
<1> QED BY <1>16, <1>17, <1>18, <1>19, <1>20, <1>21, <1>22, <1>23 DEF Paths

LEMMA ToggleChanges == \A S, flag : Toggle(S, flag) # S
<1> SUFFICES ASSUME NEW S, NEW flag PROVE Toggle(S, flag) # S OBVIOUS
<1>1. flag \in Toggle(S, flag) <=> flag \notin S BY DEF Toggle
<1> QED BY <1>1

(* A flag change that finds its work done can only have met a row that has  *)
(* no body: otherwise another path would have told it.                      *)
LEMMA UnchangedIsBare ==
  ASSUME Types, Paths, NEW p \in Procs, phase[p] = "tx", lock[op[p].msg] = p, Unchanged(p)
  PROVE  op[p].msg \in Live /\ op[p].msg \in bare
<1>1. Mutates(p) /\ Reads(p) BY DEF Unchanged, Mutates, Reads
<1>2. op[p].msg \in Live /\ row[op[p].msg].path = op[p].base.path BY <1>1 DEF Paths, BaseHeld
<1>3. row[op[p].msg].flags # op[p].base.flags BY ToggleChanges DEF Unchanged, NewFlags
<1> QED BY <1>1, <1>2, <1>3 DEF Paths, ReadStill

(* What a commit of one of these kinds is, in the terms above. *)
LEMMA CommitFlagsReplaces ==
  ASSUME Types, Paths, NEW p \in Procs, CommitFlags(p)
  PROVE  \E new \in Row, path \in Nat :
           /\ Replaces(p, new, path) /\ CleanUp(p, path) /\ new.flags = NewFlags(p)
           /\ new.folder = row[op[p].msg].folder /\ new.uid = row[op[p].msg].uid
           /\ told' = Announced(op[p].msg, new)
<1> DEFINE m == op[p].msg
           path == IF body[p] = op[p].base.path THEN 0 ELSE op[p].base.path
           new == [folder |-> row[m].folder, uid |-> row[m].uid, flags |-> NewFlags(p), path |-> body[p]]
<1>1. op[p].kind = "flags" /\ Mutates(p) /\ Reads(p) /\ phase[p] = "tx" /\ lock[m] = p
  BY DEF CommitFlags, Commit, Needs, Mutates, Reads
<1>2. CleanUp(p, path) /\ row' = [row EXCEPT ![m] = new] /\ told' = Announced(m, new) BY DEF CommitFlags
<1>3. m \in Live BY <1>1 DEF Paths, BaseHeld
<1>4. new.folder # None BY <1>3 DEF Live
<1>5. row[m] \in Row /\ op[p].base \in Row /\ body[p] \in Nat
  BY <1>3 DEF Live, Types, TypeOK, DbTypes, ProcTypes, Op
<1>6. new \in Row /\ path \in Nat BY <1>1, <1>5, NewFlagsType DEF Row
<1> QED BY <1>1, <1>2, <1>4, <1>6 DEF Replaces

LEMMA CommitMoveReplaces ==
  ASSUME Types, Paths, NEW p \in Procs, CommitMove(p)
  PROVE  \E new \in Row, path \in Nat :
           /\ Replaces(p, new, path) /\ CleanUp(p, path) /\ new.flags = row[op[p].msg].flags
           /\ new.folder = op[p].to /\ new.uid = uid[p] /\ told' = Announced(op[p].msg, new)
<1> DEFINE m == op[p].msg
           path == op[p].base.path
           new == [folder |-> op[p].to, uid |-> uid[p], flags |-> row[m].flags, path |-> body[p]]
<1>1. op[p].kind = "move" /\ Mutates(p) /\ Reads(p) /\ phase[p] = "tx" /\ lock[m] = p
  BY DEF CommitMove, Commit, Needs, Mutates, Reads
<1>2. CleanUp(p, path) /\ row' = [row EXCEPT ![m] = new] /\ told' = Announced(m, new) BY DEF CommitMove
<1>3. m \in Live /\ op[p].to \in Folders /\ Fresh(p) BY <1>1 DEF Paths, BaseHeld, Course, Types, OpShape
<1>4. new.folder # None BY <1>3, StoreAssumption DEF Resources
<1>5. row[m] \in Row /\ op[p].base \in Row /\ body[p] \in Nat /\ uid[p] \in Nat
  BY <1>3 DEF Live, Types, TypeOK, DbTypes, ProcTypes, Op
<1>6. new \in Row /\ path \in Nat BY <1>3, <1>5 DEF Row
<1>7. path = (IF body[p] = op[p].base.path THEN 0 ELSE op[p].base.path) BY <1>3 DEF Fresh
<1> QED BY <1>1, <1>2, <1>4, <1>6, <1>7 DEF Replaces

LEMMA CommitDeleteDeletes ==
  ASSUME Types, NEW p \in Procs, NEW kind \in {"expunge", "purge", "discard"}, CommitDelete(p, kind)
  PROVE  \E path \in Nat : /\ Deletes(p, path) /\ CleanUp(p, path)
                           /\ orphans' = orphans \cup ({row[op[p].msg].path} \ {path})
<1> DEFINE m == op[p].msg
           path == IF kind = "expunge" THEN row[m].path ELSE op[p].base.path
<1>1. Mutates(p) /\ lock[m] = p BY DEF CommitDelete, Commit, Needs, Mutates
<1>2. m \in Messages BY <1>1 DEF Types, OpShape
<1>3. row[m] \in Row /\ op[p].base \in Row BY <1>2 DEF Types, TypeOK, DbTypes, ProcTypes, Op
<1>4. path \in Nat /\ path \in {row[m].path, op[p].base.path} BY <1>3 DEF Row
<1>5. CleanUp(p, path) /\ row' = [row EXCEPT ![m] = NoRow] /\ orphans' = orphans \cup ({row[m].path} \ {path})
  BY DEF CommitDelete
<1> HIDE DEF path
<1> QED BY <1>1, <1>4, <1>5 DEF Deletes

(* What all commits that change or delete a row have in common. *)
Changes(p) == \/ CommitFlags(p) \/ CommitMove(p) \/ FindUnchanged(p) \/ DeleteNothing(p)
              \/ \E kind \in {"expunge", "purge", "discard"} : CommitDelete(p, kind)

LEMMA ChangesHold ==
  ASSUME Types, NEW p \in Procs, Changes(p)
  PROVE  /\ Mutates(p) /\ phase[p] = "tx" /\ UNCHANGED <<files, lastPath, origin, bare, spent>>
         /\ lock' = [r \in Resources |-> IF lock[r] = p THEN None ELSE lock[r]]
         /\ ~DeleteNothing(p) => lock[op[p].msg] = p
<1>1. ASSUME NEW kind, Commit(p, kind), kind \in {"flags", "move", "expunge", "purge", "discard"}
      PROVE  /\ Mutates(p) /\ phase[p] = "tx" /\ lock[op[p].msg] = p /\ UNCHANGED <<origin, bare, spent>>
             /\ lock' = [r \in Resources |-> IF lock[r] = p THEN None ELSE lock[r]]
  BY <1>1 DEF Commit, Mutates, Needs
<1>2. CASE DeleteNothing(p) BY <1>2 DEF DeleteNothing, Awaits, Mutates
<1>3. CASE CommitFlags(p) BY <1>1, <1>3 DEF CommitFlags
<1>4. CASE CommitMove(p) BY <1>1, <1>4 DEF CommitMove
<1>5. CASE FindUnchanged(p) BY <1>1, <1>5 DEF FindUnchanged
<1>6. ASSUME NEW kind \in {"expunge", "purge", "discard"}, CommitDelete(p, kind)
      PROVE  /\ Mutates(p) /\ phase[p] = "tx" /\ lock[op[p].msg] = p /\ UNCHANGED <<files, lastPath, origin, bare, spent>>
             /\ lock' = [r \in Resources |-> IF lock[r] = p THEN None ELSE lock[r]]
  BY <1>1, <1>6 DEF CommitDelete
<1> QED BY <1>2, <1>3, <1>4, <1>5, <1>6 DEF Changes

LEMMA FindUnchangedLeaves ==
  ASSUME Types, Paths, NEW p \in Procs, FindUnchanged(p)
  PROVE  \E path \in Nat : /\ Leaves(p, path) /\ CleanUp(p, path)
                           /\ orphans' = orphans \cup ({body[p]} \ {op[p].base.path})
<1> DEFINE path == IF body[p] = op[p].base.path THEN 0 ELSE op[p].base.path
<1>1. Unchanged(p) /\ CleanUp(p, path) /\ row' = row /\ orphans' = orphans \cup ({body[p]} \ {op[p].base.path})
  BY DEF FindUnchanged, dbVars
<1>2. phase[p] = "tx" /\ lock[op[p].msg] = p BY ChangesHold DEF Changes, FindUnchanged, Commit, Needs, Mutates
<1>3. Reads(p) BY <1>1 DEF Unchanged, Reads
<1>4. path \in Nat /\ path \in {0, op[p].base.path} BY DEF Types, TypeOK, ProcTypes, Op, Row
<1> HIDE DEF path
<1> QED BY <1>1, <1>2, <1>3, <1>4, UnchangedIsBare DEF Leaves

LEMMA ChangesKeepPaths ==
  ASSUME Types, Paths, NEW p \in Procs, Changes(p) PROVE Paths'
<1>0. /\ Mutates(p) /\ phase[p] = "tx" /\ UNCHANGED <<files, lastPath, origin, bare>>
      /\ lock' = [r \in Resources |-> IF lock[r] = p THEN None ELSE lock[r]]
  BY ChangesHold
<1>1. CASE CommitFlags(p) BY <1>0, <1>1, CommitFlagsReplaces, ChangeKeepsPaths
<1>2. CASE CommitMove(p) BY <1>0, <1>2, CommitMoveReplaces, ChangeKeepsPaths
<1>3. ASSUME NEW kind \in {"expunge", "purge", "discard"}, CommitDelete(p, kind) PROVE Paths'
  BY <1>0, <1>3, CommitDeleteDeletes, ChangeKeepsPaths
<1>4. CASE FindUnchanged(p) BY <1>0, <1>4, FindUnchangedLeaves, ChangeKeepsPaths
<1>5. CASE DeleteNothing(p)
  <2>1. op[p].base.path \in Nat BY DEF Types, TypeOK, ProcTypes, Op, Row
  <2>2. CleanUp(p, op[p].base.path) /\ Leaves(p, op[p].base.path) BY <1>5 DEF DeleteNothing, Leaves, dbVars
  <2> QED BY <1>0, <2>1, <2>2, ChangeKeepsPaths
<1> QED BY <1>1, <1>2, <1>3, <1>4, <1>5 DEF Changes

LEMMA PathsStep == Types /\ Paths /\ [Next]_vars => Paths'
<1> SUFFICES ASSUME Types, Paths, [Next]_vars PROVE Paths' OBVIOUS
<1>1. CASE UNCHANGED vars
  BY <1>1 DEF vars, Paths, RowsOwn, BodiesKept, StagedOwn, DoomedGone, BaseHeld, ReadStill, AddsAlone, Course,
              Live, Fresh, Mutates, Adds, Reads
<1>2. ASSUME NEW p \in Procs, CommitTell(p) \/ CommitRecount(p) PROVE Paths'
  <2>1. /\ Rest(p) /\ UNCHANGED <<row, lastPath, origin, bare, files>>
        /\ lock' = [r \in Resources |-> IF lock[r] = p THEN None ELSE lock[r]]
    BY <1>2 DEF CommitTell, CommitRecount, Commit
  <2>2. \A r \in Resources : lock'[r] # p /\ \A q \in Procs \ {p} : lock'[r] = q => lock[r] = q
    BY <2>1, StoreAssumption
  <2> QED BY <2>1, <2>2, RestKeepsPaths DEF Paths, BodiesKept
<1>3. ASSUME NEW p \in Procs, Proceed(p) PROVE Paths'
  <2>1. ASSUME NEW r \in Resources, Refuse(p, r) PROVE Paths' BY <2>1, FailKeepsPaths DEF Refuse
  <2>2. Changes(p) => Paths' BY ChangesKeepPaths
  <2> QED BY <1>2, <1>3, <2>1, <2>2, StageKeepsPaths, RemoveAheadKeepsPaths, RemoveKeepsPaths, AcquireKeepsPaths,
             InsertKeepsPaths DEF Proceed, Changes
<1>4. ASSUME NEW p \in Procs, LoseSource(p) \/ StatementFails(p) \/ DeadlockVictim(p) PROVE Paths'
  BY <1>4, FailKeepsPaths DEF LoseSource, StatementFails, DeadlockVictim
<1> QED BY <1>1, <1>3, <1>4, StartKeepsPaths, CrashKeepsPaths DEF Next

LEMMA InitPaths == Init => Paths
<1> SUFFICES ASSUME Init PROVE Paths OBVIOUS
<1>1. /\ Live = {} /\ \A m \in Messages : row[m].folder = None /\ row[m].path = 0
      /\ \A p \in Procs : /\ phase[p] = "idle" /\ op[p] = NoOp /\ body[p] = 0 /\ doomed[p] = 0
                          /\ \A r \in Resources : lock[r] # p
  BY StoreAssumption DEF Init, Live, NoRow
<1>2. \A p \in Procs : ~Adds(p) /\ ~Mutates(p) /\ ~Reads(p) /\ ~Fresh(p)
  BY <1>1, NoOpType DEF Adds, Mutates, Reads, Fresh, Metered, Unmetered
<1>3. RowsOwn /\ BodiesKept /\ DoomedGone /\ AddsAlone /\ BaseHeld /\ ReadStill
  BY <1>1, <1>2 DEF Init, RowsOwn, BodiesKept, DoomedGone, AddsAlone, BaseHeld, ReadStill
<1>4. StagedOwn BY <1>1, <1>2, NoOpType DEF StagedOwn, Init
<1>5. Course BY <1>1, <1>2 DEF Course
<1> QED BY <1>3, <1>4, <1>5 DEF Paths

(* No message that has a body ever points at one that is not there: not     *)
(* while others change, move, copy or delete it, not after a failure, a     *)
(* deadlock or a crash at any point between file system and database.       *)
THEOREM NoBodyLost == Spec => []BodiesKept
<1>1. Init => Types /\ Paths BY InitTypes, InitPaths
<1>2. Types /\ Paths /\ [Next]_vars => (Types /\ Paths)' BY TypesStep, PathsStep
<1>3. Types /\ Paths => BodiesKept BY DEF Paths
<1> QED BY <1>1, <1>2, <1>3, PTL DEF Spec
-----------------------------------------------------------------------------
(* The steps again, by what they do to locks and to other operations.       *)

(* A step of p after which it holds no lock: all but one that acquires one. *)
Moves(p) == \/ Start(p) \/ Fail(p) \/ Stage(p) \/ RemoveAhead(p) \/ RemoveBody(p) \/ Changes(p)
            \/ \E kind \in Metered \cup Unmetered : CommitInsert(p, kind)
            \/ CommitTell(p) \/ CommitRecount(p)

LEMMA StepForms ==
  Next => Crash \/ \E p \in Procs : Moves(p) \/ \E r \in Resources : Acquire(p, r)
<1> SUFFICES ASSUME Next PROVE Crash \/ \E p \in Procs : Moves(p) \/ \E r \in Resources : Acquire(p, r)
  OBVIOUS
<1>1. ASSUME NEW p \in Procs, Proceed(p) PROVE Moves(p) \/ \E r \in Resources : Acquire(p, r)
  BY <1>1 DEF Proceed, Moves, Changes, Refuse
<1>2. ASSUME NEW p \in Procs, Start(p) \/ LoseSource(p) \/ StatementFails(p) \/ DeadlockVictim(p) PROVE Moves(p)
  BY <1>2 DEF Moves, LoseSource, StatementFails, DeadlockVictim
<1> QED BY <1>1, <1>2 DEF Next

(* The other operations do not notice, but for the locks that are free.     *)
Others(p) ==
  \A q \in Procs \ {p} : /\ op'[q] = op[q] /\ phase'[q] = phase[q] /\ body'[q] = body[q]
                         /\ doomed'[q] = doomed[q] /\ uid'[q] = uid[q] /\ note'[q] = note[q]
Frees(p) ==
  \A r \in Resources : lock'[r] # p /\ \A q \in Procs : (lock'[r] = q <=> lock[r] = q /\ q # p)

LEMMA MovesAlone ==
  ASSUME Types, Paths, NEW p \in Procs, Moves(p) PROVE Others(p) /\ Frees(p)
<1> USE DEF Types, TypeOK, ProcTypes
<1>1. ASSUME lock' = [r \in Resources |-> IF lock[r] = p THEN None ELSE lock[r]] PROVE Frees(p)
  BY <1>1, StoreAssumption DEF Frees
<1>2. ASSUME lock' = lock, phase[p] # "tx" PROVE Frees(p) BY <1>2 DEF Frees, Paths, Course
<1>3. ASSUME NEW o, NEW at, Over(p, o, at) PROVE Others(p) BY <1>3 DEF Over, Others
<1>4. Rest(p) => Others(p) BY DEF Rest, Others
<1>5. ASSUME NEW r, Owe(p, r) PROVE Others(p) BY <1>5 DEF Owe, Others
<1>6. ASSUME NEW path, CleanUp(p, path) PROVE Others(p) BY <1>6 DEF CleanUp, Others
<1>7. CASE Start(p)
  <2>1. note' = [note EXCEPT ![p] = note'[p]]
    BY <1>7 DEF Start, StartInsert, StartFlags, StartMove, StartCopy, StartDelete, StartDiscard, StartRecount
  <2>2. PICK o \in Op, at \in {"stage", "tx"} : Begin(p, o, at) BY <1>7, StartsOpen DEF Started
  <2>3. lock' = lock /\ phase[p] # "tx" BY <2>2 DEF Begin
  <2>4. Others(p) BY <2>1, <2>2 DEF Begin, Others
  <2> QED BY <1>2, <2>3, <2>4
<1>8. CASE Fail(p) BY <1>1, <1>4, <1>8 DEF Fail
<1>9. CASE Stage(p)
  <2>1. lock' = lock /\ phase[p] # "tx" BY <1>9 DEF Stage
  <2>2. Others(p) BY <1>4, <1>9 DEF Stage, Others
  <2> QED BY <1>2, <2>1, <2>2
<1>10. CASE RemoveAhead(p)
  <2>1. lock' = lock /\ phase[p] # "tx" /\ Others(p) BY <1>10 DEF RemoveAhead, Others
  <2> QED BY <1>2, <2>1
<1>11. CASE RemoveBody(p)
  <2>1. lock' = lock /\ phase[p] # "tx" BY <1>11 DEF RemoveBody
  <2>2. Others(p) BY <1>4, <1>5, <1>11 DEF RemoveBody
  <2> QED BY <1>2, <2>1, <2>2
<1>12. CASE Changes(p)
  <2>1. Others(p) BY <1>6, <1>12 DEF Changes, CommitFlags, CommitMove, FindUnchanged, DeleteNothing, CommitDelete
  <2> QED BY <1>1, <1>12, <2>1, ChangesHold
<1>13. ASSUME NEW kind \in Metered \cup Unmetered, CommitInsert(p, kind) PROVE Others(p) /\ Frees(p)
  BY <1>1, <1>4, <1>5, <1>13 DEF CommitInsert, Commit
<1>14. CASE CommitTell(p) \/ CommitRecount(p)
  BY <1>1, <1>4, <1>14 DEF CommitTell, CommitRecount, Commit
<1> QED BY <1>7, <1>8, <1>9, <1>10, <1>11, <1>12, <1>13, <1>14 DEF Moves
-----------------------------------------------------------------------------
(* The quota and the order of UIDs, which both rest on what is read under a *)
(* row lock staying true until the commit.                                  *)

Numbers(p) == Adds(p) \/ op[p].kind = "move"
Asked == {m \in Live : origin[m] \in Metered}

(* Who holds the users row for a new message has room for it, and who holds *)
(* a folder row for a new UID has the folder's next one.                    *)
RoomHeld == \A p \in Procs : Charges(p) /\ lock[User] = p => Cardinality(Asked) + 1 <= Quota
UidHeld == \A p \in Procs : Numbers(p) /\ lock[op[p].to] = p => uid[p] = uidNext[op[p].to]

Limits == Cardinality(Asked) <= Quota /\ RoomHeld /\ UidHeld /\ UidsDistinct

LEMMA SetsFinite ==
  ASSUME NEW S \in {Live, Mail, Asked}
  PROVE  S \subseteq Messages /\ IsFiniteSet(S) /\ Cardinality(S) \in Nat
<1>1. S \subseteq Messages BY DEF Live, Mail, Asked
<1>2. IsFiniteSet(Messages) BY StoreAssumption
<1>3. IsFiniteSet(S) BY <1>1, <1>2, FS_Subset
<1> QED BY <1>1, <1>3, FS_CardinalityType

LEMMA NumbersFolder ==
  ASSUME OpShape, NEW p \in Procs, Numbers(p) PROVE op[p].to \in Folders /\ op[p].to \in Resources
BY DEF OpShape, Numbers, Resources

LEMMA AskedIsMail == Asked \subseteq Mail
BY DEF Asked, Mail, Size, Metered

(* A step that adds no message and renumbers none. *)
Keeps ==
  \A m \in Live' : /\ m \in Live /\ origin'[m] = origin[m]
                   /\ row'[m].folder = row[m].folder /\ row'[m].uid = row[m].uid

LEMMA KeepsAsked ==
  ASSUME Keeps PROVE Asked' \subseteq Asked /\ Cardinality(Asked') <= Cardinality(Asked) /\ Cardinality(Asked') \in Nat
<1>1. Asked' \subseteq Asked BY DEF Keeps, Asked
<1>2. IsFiniteSet(Asked) BY SetsFinite
<1> QED BY <1>1, <1>2, FS_Subset, FS_CardinalityType

LEMMA KeepsUids ==
  ASSUME UidsDistinct, Keeps, uidNext' = uidNext PROVE UidsDistinct'
BY DEF UidsDistinct, Keeps

(* No operation gets a lock that these claims are about. *)
LEMMA QuietKeepsLimits ==
  ASSUME Limits, Keeps, uidNext' = uidNext,
         \A q \in Procs : Charges(q)' /\ lock'[User] = q => Charges(q) /\ lock[User] = q,
         \A q \in Procs : Numbers(q)' /\ lock'[op'[q].to] = q =>
           Numbers(q) /\ op'[q].to = op[q].to /\ lock[op[q].to] = q /\ uid'[q] = uid[q]
  PROVE  Limits'
<1>1. /\ Cardinality(Asked) \in Nat /\ Cardinality(Asked') \in Nat /\ Quota \in Nat
      /\ Cardinality(Asked') <= Cardinality(Asked)
  BY SetsFinite, KeepsAsked, StoreAssumption
<1>2. Cardinality(Asked') <= Quota BY <1>1 DEF Limits
<1>3. RoomHeld'
  <2>1. ASSUME Cardinality(Asked) + 1 <= Quota PROVE Cardinality(Asked') + 1 <= Quota BY <1>1, <2>1
  <2> QED BY <2>1 DEF Limits, RoomHeld
<1>4. UidHeld' BY DEF Limits, UidHeld
<1>5. UidsDistinct' BY KeepsUids DEF Limits
<1> QED BY <1>2, <1>3, <1>4, <1>5 DEF Limits

(* After a step of p, another operation that holds such a lock had it before. *)
LEMMA OthersHeld ==
  ASSUME OpShape', NEW p \in Procs, Others(p), Frees(p)
  PROVE  /\ \A q \in Procs : Charges(q)' /\ lock'[User] = q => q # p /\ Charges(q) /\ lock[User] = q
         /\ \A q \in Procs : Numbers(q)' /\ lock'[op'[q].to] = q =>
              q # p /\ Numbers(q) /\ op'[q].to = op[q].to /\ lock[op[q].to] = q /\ uid'[q] = uid[q]
<1>1. ASSUME NEW q \in Procs, Charges(q)', lock'[User] = q PROVE q # p /\ Charges(q) /\ lock[User] = q
  <2>1. User \in Resources BY DEF Resources
  <2>2. q # p /\ lock[User] = q BY <1>1, <2>1 DEF Frees
  <2> QED BY <1>1, <2>2 DEF Others, Charges
<1>2. ASSUME NEW q \in Procs, Numbers(q)', lock'[op'[q].to] = q
      PROVE  q # p /\ Numbers(q) /\ op'[q].to = op[q].to /\ lock[op[q].to] = q /\ uid'[q] = uid[q]
  <2>1. op'[q].to \in Resources BY <1>2 DEF OpShape, Numbers, Resources
  <2>2. q # p /\ lock[op'[q].to] = q BY <1>2, <2>1 DEF Frees
  <2>3. op'[q] = op[q] /\ uid'[q] = uid[q] BY <2>2 DEF Others
  <2> QED BY <1>2, <2>2, <2>3 DEF Numbers, Adds
<1> QED BY <1>1, <1>2

LEMMA MoveKeepsLimits ==
  ASSUME OpShape', Limits, NEW p \in Procs, Keeps, uidNext' = uidNext, Others(p), Frees(p)
  PROVE  Limits'
BY OthersHeld, QuietKeepsLimits

LEMMA AcquireKeepsLimits ==
  ASSUME Types, Limits, NEW p \in Procs, NEW r \in Resources, Acquire(p, r) PROVE Limits'
<1> USE DEF Types, TypeOK, ProcTypes, DbTypes
<1>0. Live' = Live /\ uidNext' = uidNext /\ op' = op /\ UNCHANGED <<row, origin>> BY DEF Acquire, dbVars, Live
<1>1. \A q \in Procs : Charges(q)' = Charges(q) /\ Numbers(q)' = Numbers(q) BY <1>0 DEF Adds, Charges, Numbers
<1>2. \A s \in Resources : lock'[s] = (IF s = r THEN p ELSE lock[s]) BY DEF Acquire
<1>3. Asked' = Asked /\ UidsDistinct' BY <1>0 DEF Asked, Limits, UidsDistinct
<1>4. RoomHeld'
  <2>1. ASSUME NEW q \in Procs, Charges(q), lock'[User] = q PROVE Cardinality(Asked) + 1 <= Quota
    <3>1. CASE r = User
      <4>1. q = p BY <1>2, <2>1, <3>1
      <4>2. MayCharge(p) BY <2>1, <3>1, <4>1 DEF Acquire, Refused
      <4>3. Cardinality(Mail) + 1 <= Quota BY <4>2 DEF MayCharge, Fits
      <4>4. IsFiniteSet(Mail) BY SetsFinite
      <4>5. Cardinality(Asked) <= Cardinality(Mail) BY <4>4, AskedIsMail, FS_Subset
      <4>6. Cardinality(Asked) \in Nat /\ Cardinality(Mail) \in Nat /\ Quota \in Nat BY SetsFinite, StoreAssumption
      <4> QED BY <4>3, <4>5, <4>6
    <3>2. CASE r # User BY <1>2, <2>1, <3>2 DEF Limits, RoomHeld, Resources
    <3> QED BY <3>1, <3>2
  <2> QED BY <1>1, <1>3, <2>1 DEF RoomHeld
<1>5. UidHeld'
  <2>1. ASSUME NEW q \in Procs, Numbers(q), lock'[op[q].to] = q PROVE uid'[q] = uidNext[op[q].to]
    <3>0. op[q].to \in Resources BY <2>1, NumbersFolder
    <3>1. CASE op[q].to = r /\ q = p
      <4>1. op[p].kind # "recount" BY <2>1, <3>1, KindsApart DEF Numbers
      <4> QED BY <3>1, <4>1 DEF Acquire
    <3>2. CASE op[q].to # r
      <4>1. lock[op[q].to] = q BY <1>2, <2>1, <3>0, <3>2
      <4>2. uid'[q] = uid[q] BY <3>2 DEF Acquire
      <4> QED BY <2>1, <4>1, <4>2 DEF Limits, UidHeld
    <3> QED BY <1>2, <2>1, <3>0, <3>1, <3>2
  <2> QED BY <1>0, <1>1, <2>1 DEF UidHeld
<1> QED BY <1>3, <1>4, <1>5 DEF Limits

(* What a commit that numbers a row does: it held the folder, and if it is  *)
(* asked about the quota, the users row.                                    *)
Numbered(p, new) ==
  /\ Numbers(p) /\ lock[op[p].to] = p /\ (Charges(p) => lock[User] = p)
  /\ uidNext' = Bumped(op[p].to, uid[p]) /\ row' = [row EXCEPT ![op[p].msg] = new]
  /\ new.folder = op[p].to /\ new.uid = uid[p]
  /\ op[p].msg \in Messages /\ origin' = origin
  /\ Adds(p) => op[p].msg \notin Live /\ origin[op[p].msg] = op[p].kind
  /\ op[p].kind = "move" => op[p].msg \in Live

LEMMA InsertNumbers ==
  ASSUME Types, Paths, NEW p \in Procs, NEW kind \in Metered \cup Unmetered, CommitInsert(p, kind)
  PROVE  /\ Numbered(p, [folder |-> op[p].to, uid |-> uid[p], flags |-> FirstFlags(p), path |-> body[p]])
         /\ op[p].kind = kind /\ Adds(p) /\ op[p].kind # "move"
<1>1. /\ op[p].kind = kind /\ Adds(p) /\ op[p].kind # "move" /\ op[p].msg \in Messages /\ origin' = origin
      /\ \A r \in Needs(p) : lock[r] = p
  BY DEF CommitInsert, Commit, Adds, Types, OpShape, Metered, Unmetered
<1>2. op[p].to \in Needs(p) BY <1>1 DEF Needs
<1>3. Charges(p) => User \in Needs(p)
  BY DEF Needs, AccountLocks, Plain, Unchanged, Charges, Metered, Unmetered
<1>4. op[p].msg \notin Live /\ origin[op[p].msg] = op[p].kind BY <1>1 DEF Paths, AddsAlone
<1> QED BY <1>1, <1>2, <1>3, <1>4 DEF Numbered, Numbers, CommitInsert

LEMMA MoveNumbers ==
  ASSUME Types, Paths, NEW p \in Procs, CommitMove(p)
  PROVE  /\ Numbered(p, [folder |-> op[p].to, uid |-> uid[p], flags |-> row[op[p].msg].flags, path |-> body[p]])
         /\ ~Adds(p)
<1>1. /\ op[p].kind = "move" /\ Mutates(p) /\ phase[p] = "tx" /\ lock[op[p].msg] = p /\ lock[op[p].to] = p
      /\ origin' = origin
  BY DEF CommitMove, Commit, Mutates, Needs
<1>2. ~Adds(p) /\ ~Charges(p) /\ op[p].msg \in Messages BY <1>1, KindsApart DEF Types, OpShape
<1>3. op[p].msg \in Live BY <1>1 DEF Paths, BaseHeld
<1> QED BY <1>1, <1>2, <1>3 DEF Numbered, Numbers, CommitMove

LEMMA NumberedRows ==
  ASSUME Types, NEW p \in Procs, NEW new, Numbered(p, new)
  PROVE  /\ \A m \in Messages : row'[m] = (IF m = op[p].msg THEN new ELSE row[m])
         /\ Live' = Live \cup {op[p].msg} /\ op[p].to \in Folders
         /\ \A f \in Folders : uidNext'[f] = (IF f = op[p].to THEN uid[p] + 1 ELSE uidNext[f])
<1>1. op[p].to \in Folders BY NumbersFolder DEF Types, Numbered
<1>2. new.folder # None BY <1>1, StoreAssumption DEF Numbered, Resources
<1>3. \A m \in Messages : row'[m] = (IF m = op[p].msg THEN new ELSE row[m])
  BY DEF Numbered, Types, TypeOK, DbTypes
<1>4. Live' = Live \cup {op[p].msg} BY <1>2, <1>3 DEF Live, Numbered
<1>5. \A f \in Folders : uidNext'[f] = (IF f = op[p].to THEN uid[p] + 1 ELSE uidNext[f])
  BY DEF Numbered, Bumped, Types, TypeOK, DbTypes
<1> QED BY <1>1, <1>3, <1>4, <1>5

LEMMA NumberKeepsLimits ==
  ASSUME Types, OpShape', Limits, NEW p \in Procs, NEW new, Numbered(p, new), Others(p), Frees(p)
  PROVE  Limits'
<1> DEFINE f == op[p].to
           m == op[p].msg
<1>1. /\ \A n \in Messages : row'[n] = (IF n = m THEN new ELSE row[n])
      /\ Live' = Live \cup {m} /\ f \in Folders /\ m \in Messages
      /\ \A g \in Folders : uidNext'[g] = (IF g = f THEN uid[p] + 1 ELSE uidNext[g])
  <2>1. /\ \A n \in Messages : row'[n] = (IF n = op[p].msg THEN new ELSE row[n])
        /\ Live' = Live \cup {op[p].msg} /\ op[p].to \in Folders
        /\ \A g \in Folders : uidNext'[g] = (IF g = op[p].to THEN uid[p] + 1 ELSE uidNext[g])
    BY NumberedRows, Zenon
  <2>2. op[p].msg \in Messages BY DEF Numbered
  <2> QED BY <2>1, <2>2
<1>2. uid[p] = uidNext[f] /\ uid[p] \in Nat
  BY DEF Numbered, Limits, UidHeld, Types, TypeOK, ProcTypes
<1>3. \A q \in Procs : Numbers(q)' /\ lock'[op'[q].to] = q =>
         q # p /\ Numbers(q) /\ op'[q].to = op[q].to /\ lock[op[q].to] = q /\ uid'[q] = uid[q]
  BY OthersHeld
<1>4. \A q \in Procs : Charges(q)' /\ lock'[User] = q => q # p /\ Charges(q) /\ lock[User] = q
  BY OthersHeld
<1>5. Asked' \subseteq Asked \/ (Charges(p) /\ m \notin Live /\ Asked' \subseteq Asked \cup {m})
  <2>1. ~Charges(p) => Asked' \subseteq Asked
    <3>1. op[p].kind = "move" => m \in Live BY DEF Numbered
    <3>2. Adds(p) /\ ~Charges(p) => origin[m] \notin Metered
      BY DEF Numbered, Charges
    <3> QED BY <1>1, <3>1, <3>2 DEF Asked, Numbered, Numbers
  <2>2. Charges(p) => m \notin Live BY KindsApart DEF Numbered
  <2>3. Asked' \subseteq Asked \cup {m} BY <1>1 DEF Asked, Numbered
  <2> QED BY <2>1, <2>2, <2>3
<1>6. IsFiniteSet(Asked) /\ Cardinality(Asked) \in Nat /\ Quota \in Nat BY SetsFinite, StoreAssumption
<1>7. Asked' \subseteq Asked => Cardinality(Asked') \in Nat /\ Cardinality(Asked') <= Cardinality(Asked)
  BY <1>6, FS_Subset, FS_CardinalityType
<1>8. Cardinality(Asked') <= Quota
  <2>1. CASE Asked' \subseteq Asked BY <1>6, <1>7, <2>1 DEF Limits
  <2>2. CASE Charges(p) /\ m \notin Live /\ Asked' \subseteq Asked \cup {m}
    <3>1. Cardinality(Asked) + 1 <= Quota BY <2>2 DEF Limits, RoomHeld, Numbered
    <3>2. m \notin Asked BY <2>2 DEF Asked
    <3>3. IsFiniteSet(Asked \cup {m}) /\ Cardinality(Asked \cup {m}) = Cardinality(Asked) + 1
      BY <1>6, <3>2, FS_AddElement
    <3>4. Cardinality(Asked') <= Cardinality(Asked \cup {m}) /\ Cardinality(Asked') \in Nat
      BY <2>2, <3>3, FS_Subset, FS_CardinalityType
    <3> QED BY <1>6, <3>1, <3>3, <3>4
  <2> QED BY <1>5, <2>1, <2>2
<1>9. RoomHeld'
  <2>1. ASSUME NEW q \in Procs, Charges(q)', lock'[User] = q PROVE Cardinality(Asked') + 1 <= Quota
    <3>1. q # p /\ Charges(q) /\ lock[User] = q BY <1>4, <2>1
    <3>2. ~Charges(p) BY <3>1 DEF Numbered
    <3>3. Cardinality(Asked) + 1 <= Quota BY <3>1 DEF Limits, RoomHeld
    <3> QED BY <1>5, <1>6, <1>7, <3>2, <3>3
  <2> QED BY <2>1 DEF RoomHeld
<1>10. UidHeld'
  <2>1. ASSUME NEW q \in Procs, Numbers(q)', lock'[op'[q].to] = q PROVE uid'[q] = uidNext'[op'[q].to]
    <3>1. q # p /\ Numbers(q) /\ op'[q].to = op[q].to /\ lock[op[q].to] = q /\ uid'[q] = uid[q]
      BY <1>3, <2>1
    <3>2. op[q].to \in Folders /\ op[q].to # f BY <3>1, NumbersFolder DEF Numbered, Types
    <3> QED BY <1>1, <3>1, <3>2 DEF Limits, UidHeld
  <2> QED BY <2>1 DEF UidHeld
<1>11. UidsDistinct'
  <2>1. \A n \in Live : row[n].folder \in Folders /\ row[n].uid \in Nat /\ n \in Messages
    BY DEF Live, Types, TypeOK, DbTypes, Row
  <2>2. \A g \in Folders : uidNext[g] \in Nat BY DEF Types, TypeOK, DbTypes
  <2>3. new.folder = f /\ new.uid = uid[p] BY DEF Numbered
  <2>4. \A n \in Live : row[n].uid < uidNext[row[n].folder] BY DEF Limits, UidsDistinct
  <2>5. ASSUME NEW n \in Live' PROVE row'[n].uid < uidNext'[row'[n].folder]
    <3>1. CASE n = m BY <1>1, <1>2, <2>3, <3>1
    <3>2. CASE n # m
      <4>1. n \in Live /\ row'[n] = row[n] BY <1>1, <2>1, <3>2
      <4> QED BY <1>1, <1>2, <2>1, <2>2, <2>4, <4>1
    <3> QED BY <3>1, <3>2
  <2>6. ASSUME NEW n \in Live', n # m, row'[n].folder = f PROVE row'[n].uid # uid[p]
    <3>1. n \in Live /\ row'[n] = row[n] BY <1>1, <2>1, <2>6
    <3> QED BY <1>2, <2>1, <2>2, <2>4, <2>6, <3>1
  <2>7. ASSUME NEW k \in Live', NEW n \in Live', k # n, row'[k].folder = row'[n].folder
        PROVE  row'[k].uid # row'[n].uid
    <3>1. CASE k = m BY <1>1, <2>3, <2>6, <2>7, <3>1
    <3>2. CASE n = m BY <1>1, <2>3, <2>6, <2>7, <3>2
    <3>3. CASE k # m /\ n # m
      <4>1. k \in Live /\ n \in Live /\ row'[k] = row[k] /\ row'[n] = row[n] BY <1>1, <2>1, <3>3
      <4> QED BY <2>7, <4>1 DEF Limits, UidsDistinct
    <3> QED BY <3>1, <3>2, <3>3
  <2> QED BY <2>5, <2>7 DEF UidsDistinct
<1> QED BY <1>8, <1>9, <1>10, <1>11 DEF Limits

(* The moves that leave the rows alone. *)
Quiet(p) == \/ Start(p) \/ Fail(p) \/ Stage(p) \/ RemoveAhead(p) \/ RemoveBody(p)
            \/ FindUnchanged(p) \/ DeleteNothing(p) \/ CommitTell(p) \/ CommitRecount(p)

LEMMA QuietRows ==
  ASSUME Types, Paths, NEW p \in Procs, Quiet(p)
  PROVE  /\ UNCHANGED <<row, uidNext, used, skew, wanted>> /\ Live' = Live
         /\ ~CommitTell(p) => UNCHANGED <<told, hushed>>
         /\ ~CommitRecount(p) => UNCHANGED <<count, unseen, drifted>>
         /\ ~Start(p) => origin' = origin
         /\ \A m \in Messages : origin[m] # "none" => origin'[m] = origin[m]
<1>1. CASE Start(p)
  <2>1. PICK o \in Op, at \in {"stage", "tx"} : Begin(p, o, at) /\ Opens(o, at) BY <1>1, StartsOpen DEF Started
  <2>2. dbVars' = dbVars BY <2>1 DEF Begin
  <2>3. \A m \in Messages : origin[m] # "none" => origin'[m] = origin[m]
    BY <2>1 DEF Opens, Draws, IsNew, ids, Types, TypeOK
  <2> QED BY <1>1, <2>2, <2>3 DEF dbVars, Live
<1>2. CASE Fail(p) BY <1>2 DEF Fail, dbVars, Live
<1>3. CASE Stage(p) BY <1>3 DEF Stage, dbVars, Live
<1>4. CASE RemoveAhead(p) \/ RemoveBody(p) BY <1>4 DEF RemoveAhead, RemoveBody, dbVars, Live
<1>5. CASE FindUnchanged(p) \/ DeleteNothing(p) BY <1>5 DEF FindUnchanged, DeleteNothing, Commit, dbVars, Live
<1>6. CASE CommitTell(p) BY <1>6 DEF CommitTell, Commit, Live
<1>7. CASE CommitRecount(p) BY <1>7 DEF CommitRecount, Commit, Live
<1> QED BY <1>1, <1>2, <1>3, <1>4, <1>5, <1>6, <1>7 DEF Quiet

LEMMA MovesForms ==
  ASSUME NEW p \in Procs, Moves(p)
  PROVE  \/ Quiet(p) \/ CommitFlags(p) \/ CommitMove(p)
         \/ \E kind \in {"expunge", "purge", "discard"} : CommitDelete(p, kind)
         \/ \E kind \in Metered \cup Unmetered : CommitInsert(p, kind)
BY DEF Moves, Quiet, Changes

LEMMA DeletedRows ==
  ASSUME Types, Paths, NEW p \in Procs, NEW kind \in {"expunge", "purge", "discard"}, CommitDelete(p, kind)
  PROVE  /\ op[p].msg \in Live /\ Live' = Live \ {op[p].msg}
         /\ \A m \in Messages : row'[m] = (IF m = op[p].msg THEN NoRow ELSE row[m])
<1>1. row' = [row EXCEPT ![op[p].msg] = NoRow] BY DEF CommitDelete
<1>2. Mutates(p) /\ phase[p] = "tx" /\ lock[op[p].msg] = p BY DEF CommitDelete, Commit, Mutates, Needs
<1>3. op[p].msg \in Live BY <1>2 DEF Paths, BaseHeld
<1>4. \A m \in Messages : row'[m] = (IF m = op[p].msg THEN NoRow ELSE row[m])
  BY <1>1 DEF Types, TypeOK, DbTypes
<1>5. NoRow.folder = None BY DEF NoRow
<1> QED BY <1>3, <1>4, <1>5 DEF Live

LEMMA FlaggedRows ==
  ASSUME Types, Paths, NEW p \in Procs, CommitFlags(p)
  PROVE  /\ op[p].kind = "flags" /\ phase[p] = "tx" /\ lock[op[p].msg] = p
         /\ op[p].msg \in Live /\ op[p].msg \in Messages /\ Live' = Live
         /\ \A m \in Messages : /\ m # op[p].msg => row'[m] = row[m]
                                /\ row'[m].folder = row[m].folder /\ row'[m].uid = row[m].uid
         /\ row'[op[p].msg].flags = NewFlags(p) /\ row'[op[p].msg].path = body[p]
         /\ told' = [told EXCEPT ![op[p].msg] = View(row'[op[p].msg])]
<1>1. op[p].kind = "flags" /\ Mutates(p) /\ phase[p] = "tx" /\ lock[op[p].msg] = p
  BY DEF CommitFlags, Commit, Mutates, Needs
<1>2. op[p].msg \in Live /\ op[p].msg \in Messages BY <1>1 DEF Paths, BaseHeld, Live
<1>3. PICK new \in Row, path \in Nat :
        /\ Replaces(p, new, path) /\ new.flags = NewFlags(p)
        /\ new.folder = row[op[p].msg].folder /\ new.uid = row[op[p].msg].uid
        /\ told' = Announced(op[p].msg, new)
  BY CommitFlagsReplaces
<1>4. \A m \in Messages : row'[m] = (IF m = op[p].msg THEN new ELSE row[m])
  BY <1>3 DEF Replaces, Types, TypeOK, DbTypes
<1>5. new.path = body[p] BY <1>3 DEF Replaces
<1> QED BY <1>1, <1>2, <1>3, <1>4, <1>5 DEF Live, Announced

LEMMA LimitsStep == Types /\ Paths /\ Limits /\ [Next]_vars => Limits'
<1> SUFFICES ASSUME Types, Paths, Limits, [Next]_vars PROVE Limits' OBVIOUS
<1>0. OpShape' BY TypesStep DEF Types
<1>1. CASE UNCHANGED vars
  BY <1>1 DEF vars, Limits, RoomHeld, UidHeld, UidsDistinct, Live, Asked, Adds, Charges, Numbers
<1>2. ASSUME NEW p \in Procs, Moves(p) PROVE Limits'
  <2>0. Others(p) /\ Frees(p) BY <1>2, MovesAlone
  <2>1. ASSUME Keeps, uidNext' = uidNext PROVE Limits' BY <1>0, <2>0, <2>1, MoveKeepsLimits
  <2>2. ASSUME NEW new, Numbered(p, new) PROVE Limits' BY <1>0, <2>0, <2>2, NumberKeepsLimits
  <2>3. \A m \in Live : m \in Messages /\ origin[m] # "none" BY DEF Live, Paths, RowsOwn
  <2>4. CASE Quiet(p)
    <3>1. UNCHANGED <<row, uidNext>> /\ Live' = Live
          /\ \A m \in Messages : origin[m] # "none" => origin'[m] = origin[m]
      BY <2>4, QuietRows
    <3>2. Keeps BY <2>3, <3>1 DEF Keeps
    <3> QED BY <2>1, <3>1, <3>2
  <2>5. CASE CommitFlags(p)
    <3>1. Keeps BY <2>3, <2>5, FlaggedRows DEF Keeps, CommitFlags, Commit
    <3> QED BY <2>1, <2>5, <3>1 DEF CommitFlags
  <2>6. ASSUME NEW kind \in {"expunge", "purge", "discard"}, CommitDelete(p, kind) PROVE Limits'
    <3>1. origin' = origin /\ uidNext' = uidNext BY <2>6 DEF CommitDelete, Commit
    <3>2. Keeps BY <2>3, <2>6, <3>1, DeletedRows DEF Keeps
    <3> QED BY <2>1, <3>1, <3>2
  <2>7. CASE CommitMove(p) BY <2>2, <2>7, MoveNumbers
  <2>8. ASSUME NEW kind \in Metered \cup Unmetered, CommitInsert(p, kind) PROVE Limits'
    BY <2>2, <2>8, InsertNumbers
  <2> QED BY <1>2, <2>4, <2>5, <2>6, <2>7, <2>8, MovesForms
<1>3. ASSUME Crash PROVE Limits'
  <2>1. Live' = Live /\ uidNext' = uidNext /\ UNCHANGED <<row, origin>> BY <1>3 DEF Crash, dbVars, Live
  <2>2. \A r \in Resources, q \in Procs : lock'[r] # q BY <1>3, StoreAssumption DEF Crash
  <2>3. \A q \in Procs : ~(Charges(q)' /\ lock'[User] = q) BY <2>2 DEF Resources
  <2>4. \A q \in Procs : ~(Numbers(q)' /\ lock'[op'[q].to] = q)
    BY <1>0, <2>2 DEF OpShape, Numbers, Resources
  <2>5. Keeps BY <2>1 DEF Keeps
  <2> HIDE DEF Limits
  <2> QED BY <2>1, <2>3, <2>4, <2>5, QuietKeepsLimits
<1> QED BY <1>1, <1>2, <1>3, AcquireKeepsLimits, StepForms

LEMMA InitLimits == Init => Limits
<1> SUFFICES ASSUME Init PROVE Limits OBVIOUS
<1>1. Live = {} /\ \A p \in Procs, r \in Resources : lock[r] # p
  BY StoreAssumption DEF Init, Live, NoRow
<1>2. Asked = {} BY <1>1 DEF Asked
<1>3. Cardinality(Asked) <= Quota BY <1>2, FS_EmptySet, StoreAssumption
<1>4. \A p \in Procs : ~Charges(p) /\ ~Numbers(p)
  BY NoOpType DEF Init, Adds, Numbers, Charges, Metered, Unmetered
<1> QED BY <1>1, <1>3, <1>4 DEF Limits, RoomHeld, UidHeld, UidsDistinct

LEMMA StoreInvariant == Spec => [](Types /\ Paths /\ Limits)
<1>1. Init => Types /\ Paths /\ Limits BY InitTypes, InitPaths, InitLimits
<1>2. Types /\ Paths /\ Limits /\ [Next]_vars => (Types /\ Paths /\ Limits)'
  BY TypesStep, PathsStep, LimitsStep
<1> QED BY <1>1, <1>2, PTL DEF Spec

(* What deliveries, appends and copies bring never exceeds the quota,       *)
(* however many of them passed an earlier check on the same total. What     *)
(* imports, drafts and placeholders bring is asked about by no code.        *)
THEOREM QuotaAlwaysHolds == Spec => []QuotaHolds
<1>1. Types /\ Paths /\ Limits => QuotaHolds BY DEF Limits, Asked, QuotaHolds
<1> QED BY <1>1, StoreInvariant, PTL

(* What a step that may rename a row does to UIDs.                          *)
Ascends ==
  \A m \in Messages :
    LET old == row[m]  new == row'[m] IN
    new.folder # None /\ (new.folder # old.folder \/ new.uid # old.uid) =>
      uidNext[new.folder] <= new.uid /\ new.uid < uidNext'[new.folder]

LEMMA NumberAscends ==
  ASSUME Types, Limits, NEW p \in Procs, NEW new, Numbered(p, new) PROVE Ascends
<1> DEFINE f == op[p].to
<1>1. /\ f \in Folders /\ \A m \in Messages : row'[m] = (IF m = op[p].msg THEN new ELSE row[m])
      /\ \A g \in Folders : uidNext'[g] = (IF g = f THEN uid[p] + 1 ELSE uidNext[g])
  BY NumberedRows
<1>2. uid[p] = uidNext[f] /\ uid[p] \in Nat BY DEF Numbered, Limits, UidHeld, Types, TypeOK, ProcTypes
<1>3. uidNext[f] <= uid[p] /\ uid[p] < uidNext'[f] BY <1>1, <1>2
<1>4. new.folder = f /\ new.uid = uid[p] BY DEF Numbered
<1> HIDE DEF f
<1> QED BY <1>1, <1>3, <1>4 DEF Ascends

LEMMA StepAscends == Types /\ Paths /\ Limits /\ [Next]_vars => Ascends
<1> SUFFICES ASSUME Types, Paths, Limits, [Next]_vars PROVE Ascends OBVIOUS
<1>1. ASSUME row' = row PROVE Ascends BY <1>1 DEF Ascends
<1>2. ASSUME NEW p \in Procs, Moves(p) PROVE Ascends
  <2>1. CASE Quiet(p) BY <1>1, <2>1, QuietRows
  <2>2. CASE CommitFlags(p) BY <2>2, FlaggedRows DEF Ascends
  <2>3. ASSUME NEW kind \in {"expunge", "purge", "discard"}, CommitDelete(p, kind) PROVE Ascends
    <3>1. NoRow.folder = None BY DEF NoRow
    <3> QED BY <2>3, <3>1, DeletedRows DEF Ascends
  <2>4. CASE CommitMove(p) BY <2>4, MoveNumbers, NumberAscends
  <2>5. ASSUME NEW kind \in Metered \cup Unmetered, CommitInsert(p, kind) PROVE Ascends
    BY <2>5, InsertNumbers, NumberAscends
  <2> QED BY <1>2, <2>1, <2>2, <2>3, <2>4, <2>5, MovesForms
<1>3. ASSUME NEW p \in Procs, NEW r \in Resources, Acquire(p, r) PROVE Ascends
  BY <1>1, <1>3 DEF Acquire, dbVars
<1>4. CASE Crash BY <1>1, <1>4 DEF Crash, dbVars
<1>5. CASE UNCHANGED vars BY <1>1, <1>5 DEF vars
<1> QED BY <1>2, <1>3, <1>4, <1>5, StepForms

(* Every message that enters a folder gets a UID no client has been told of *)
(* as past, whatever moves, copies and inserts race for the folder.         *)
THEOREM UidsOnlyAscend == Spec => UidsAscend
<1>1. Types /\ Paths /\ Limits /\ [Next]_vars => [Ascends]_vars BY StepAscends
<1>2. UidsAscend <=> [][Ascends]_vars BY PTL DEF UidsAscend, Ascends
<1> QED BY <1>1, <1>2, StoreInvariant, PTL DEF Spec
-----------------------------------------------------------------------------
(* What the journal says, and what became of the flags. The second rests on *)
(* the path being the version of a row that has a body.                     *)

Story == JournalTold /\ NoFlagLost

LEMMA QuietKeepsStory ==
  ASSUME Story, UNCHANGED <<row, told, wanted, hushed>>, bare \subseteq bare' PROVE Story'
BY DEF Story, JournalTold, NoFlagLost, Live, View

(* A commit that changes one row, and says so or is among the hushed.       *)
LEMMA ChangeKeepsStory ==
  ASSUME Story, NEW m \in Messages, NEW new, NEW w, bare' = bare,
         \A n \in Messages : row'[n] = (IF n = m THEN new ELSE row[n]),
         \A n \in Messages : wanted'[n] = (IF n = m THEN w ELSE wanted[n]),
         told \in [Messages -> [folder : Folders \cup {None}, uid : Nat, flags : SUBSET Flags]],
         \/ told' = [told EXCEPT ![m] = View(new)] /\ hushed' \in {hushed, hushed \ {m}}
         \/ told' = told /\ hushed' = hushed \cup {m},
         new.folder = None \/ m \in bare \/ new.flags = w
  PROVE  Story'
<1>1. JournalTold'
  <2> SUFFICES ASSUME NEW n \in Messages, n \notin hushed' PROVE told'[n] = View(row'[n])
    BY DEF JournalTold, View
  <2>1. CASE n = m BY <2>1
  <2>2. CASE n # m
    <3>1. told'[n] = told[n] /\ n \notin hushed BY <2>2
    <3> QED BY <2>2, <3>1 DEF Story, JournalTold, View
  <2> QED BY <2>1, <2>2
<1>2. NoFlagLost'
  <2> SUFFICES ASSUME NEW n \in Live', n \notin bare PROVE row'[n].flags = wanted'[n]
    BY DEF NoFlagLost
  <2>1. n \in Messages BY DEF Live
  <2>2. CASE n = m BY <2>1, <2>2 DEF Live
  <2>3. CASE n # m BY <2>1, <2>3 DEF Live, Story, NoFlagLost
  <2> QED BY <2>2, <2>3
<1> QED BY <1>1, <1>2 DEF Story

LEMMA InsertKeepsStory ==
  ASSUME Types, Paths, Story, NEW p \in Procs, NEW kind \in Metered \cup Unmetered, CommitInsert(p, kind)
  PROVE  Story'
<1> DEFINE m == op[p].msg
           flags == FirstFlags(p)
           new == [folder |-> op[p].to, uid |-> uid[p], flags |-> flags, path |-> body[p]]
<1>1. Numbered(p, new) BY InsertNumbers
<1>2. /\ m \in Messages /\ wanted' = [wanted EXCEPT ![m] = flags] /\ bare' = bare
      /\ IF Charges(p) THEN told' = Announced(m, new) /\ hushed' = hushed
                       ELSE told' = told /\ hushed' = hushed \cup {m}
  BY <1>1 DEF CommitInsert, Commit, Numbered
<1>3. new.flags = flags OBVIOUS
<1> HIDE DEF new, flags
<1>4. \A n \in Messages : row'[n] = (IF n = m THEN new ELSE row[n]) BY <1>1, NumberedRows
<1>5. \A n \in Messages : wanted'[n] = (IF n = m THEN flags ELSE wanted[n])
  BY <1>2 DEF Types, TypeOK, DbTypes
<1>6. told \in [Messages -> [folder : Folders \cup {None}, uid : Nat, flags : SUBSET Flags]]
  BY DEF Types, TypeOK, DbTypes
<1>7. \/ told' = [told EXCEPT ![m] = View(new)] /\ hushed' \in {hushed, hushed \ {m}}
      \/ told' = told /\ hushed' = hushed \cup {m}
  BY <1>2 DEF Announced
<1> HIDE DEF m
<1> QED BY <1>2, <1>3, <1>4, <1>5, <1>6, <1>7, ChangeKeepsStory

LEMMA MoveKeepsStory ==
  ASSUME Types, Paths, Story, NEW p \in Procs, CommitMove(p) PROVE Story'
<1> DEFINE m == op[p].msg
           w == wanted[m]
           new == [folder |-> op[p].to, uid |-> uid[p], flags |-> row[m].flags, path |-> body[p]]
<1>1. Numbered(p, new) BY MoveNumbers
<1>2. /\ m \in Messages /\ wanted' = wanted /\ bare' = bare
      /\ told' = [told EXCEPT ![m] = View(new)] /\ hushed' = hushed \ {m}
  BY <1>1 DEF CommitMove, Commit, Numbered, Announced
<1>3. m \in Live BY <1>1, MoveNumbers DEF Numbered, Numbers
<1>4. m \in bare \/ new.flags = w BY <1>3 DEF Story, NoFlagLost
<1> HIDE DEF new
<1>5. \A n \in Messages : row'[n] = (IF n = m THEN new ELSE row[n]) BY <1>1, NumberedRows
<1>6. \A n \in Messages : wanted'[n] = (IF n = m THEN w ELSE wanted[n]) BY <1>2
<1>7. told \in [Messages -> [folder : Folders \cup {None}, uid : Nat, flags : SUBSET Flags]]
  BY DEF Types, TypeOK, DbTypes
<1>8. \/ told' = [told EXCEPT ![m] = View(new)] /\ hushed' \in {hushed, hushed \ {m}}
      \/ told' = told /\ hushed' = hushed \cup {m}
  BY <1>2
<1>9. new.folder = None \/ m \in bare \/ new.flags = w BY <1>4
<1>10. m \in Messages /\ bare' = bare BY <1>2
<1> HIDE DEF m, w
<1> QED BY <1>5, <1>6, <1>7, <1>8, <1>9, <1>10, ChangeKeepsStory

(* The flag string was computed from the flags that the row still has.      *)
LEMMA FlagsKeepStory ==
  ASSUME Types, Paths, Story, NEW p \in Procs, CommitFlags(p) PROVE Story'
<1> DEFINE m == op[p].msg
           new == row'[m]
           w == wanted'[m]
<1>1. /\ op[p].kind = "flags" /\ phase[p] = "tx" /\ lock[m] = p /\ m \in Live /\ m \in Messages
      /\ \A n \in Messages : n # m => row'[n] = row[n]
      /\ row'[m].flags = NewFlags(p) /\ told' = [told EXCEPT ![m] = View(row'[m])]
  BY FlaggedRows
<1>2. wanted' = [wanted EXCEPT ![m] = Toggle(@, op[p].flag)] /\ hushed' = hushed \ {m} /\ bare' = bare
  BY DEF CommitFlags, Commit
<1>3. w = Toggle(wanted[m], op[p].flag) /\ \A n \in Messages : n # m => wanted'[n] = wanted[n]
  BY <1>1, <1>2 DEF Types, TypeOK, DbTypes
<1>4. m \in bare \/ new.flags = w
  <2>1. Reads(p) /\ Mutates(p) BY <1>1 DEF Reads, Mutates
  <2>2. row[m].path = op[p].base.path BY <1>1, <2>1 DEF Paths, BaseHeld
  <2>3. m \in bare \/ row[m].flags = op[p].base.flags BY <1>1, <2>1, <2>2 DEF Paths, ReadStill
  <2>4. m \in bare \/ row[m].flags = wanted[m] BY <1>1 DEF Story, NoFlagLost
  <2> QED BY <1>1, <1>3, <2>3, <2>4 DEF NewFlags
<1>5. told \in [Messages -> [folder : Folders \cup {None}, uid : Nat, flags : SUBSET Flags]]
  BY DEF Types, TypeOK, DbTypes
<1>6. /\ \A n \in Messages : row'[n] = (IF n = m THEN new ELSE row[n])
      /\ \A n \in Messages : wanted'[n] = (IF n = m THEN w ELSE wanted[n])
  BY <1>1, <1>3
<1>7. \/ told' = [told EXCEPT ![m] = View(new)] /\ hushed' \in {hushed, hushed \ {m}}
      \/ told' = told /\ hushed' = hushed \cup {m}
  BY <1>1, <1>2
<1>8. new.folder = None \/ m \in bare \/ new.flags = w BY <1>4
<1>9. m \in Messages /\ bare' = bare BY <1>1, <1>2
<1> HIDE DEF m, new, w
<1> QED BY <1>5, <1>6, <1>7, <1>8, <1>9, ChangeKeepsStory

LEMMA DeleteKeepsStory ==
  ASSUME Types, Paths, Story, NEW p \in Procs, NEW kind \in {"expunge", "purge", "discard"}, CommitDelete(p, kind)
  PROVE  Story'
<1> DEFINE m == op[p].msg
           w == {}
<1>1. m \in Messages /\ \A n \in Messages : row'[n] = (IF n = m THEN NoRow ELSE row[n])
  BY DeletedRows DEF Live
<1>2. /\ wanted' = [wanted EXCEPT ![m] = {}] /\ bare' = bare
      /\ \/ told' = [told EXCEPT ![m] = View(NoRow)] /\ hushed' = hushed \ {m}
         \/ told' = told /\ hushed' = hushed \cup {m}
  BY DEF CommitDelete, Commit, Announced
<1>3. \A n \in Messages : wanted'[n] = (IF n = m THEN w ELSE wanted[n])
  BY <1>1, <1>2 DEF Types, TypeOK, DbTypes
<1>4. told \in [Messages -> [folder : Folders \cup {None}, uid : Nat, flags : SUBSET Flags]]
  BY DEF Types, TypeOK, DbTypes
<1>5. NoRow.folder = None BY DEF NoRow
<1>6. hushed \ {m} \in {hushed, hushed \ {m}} OBVIOUS
<1> HIDE DEF m, w
<1> QED BY <1>1, <1>2, <1>3, <1>4, <1>5, <1>6, ChangeKeepsStory

(* A journal row of its own transaction may say what is no longer so; then  *)
(* its message is hushed.                                                   *)
LEMMA TellKeepsStory ==
  ASSUME Types, Story, NEW p \in Procs, CommitTell(p) PROVE Story'
<1> DEFINE m == op[p].msg
<1>1. /\ row' = row /\ wanted' = wanted /\ bare' = bare /\ told' = [told EXCEPT ![m] = View(op[p].base)]
      /\ hushed' = IF View(op[p].base) = View(row[m]) THEN hushed \ {m} ELSE hushed \cup {m}
  BY DEF CommitTell, Commit, Announced
<1>2. m \in Messages BY DEF CommitTell, Commit, Types, OpShape
<1>3. told'[m] = View(op[p].base) /\ \A n \in Messages : n # m => told'[n] = told[n]
  BY <1>1, <1>2 DEF Types, TypeOK, DbTypes
<1>4. JournalTold'
  <2> SUFFICES ASSUME NEW n \in Messages, n \notin hushed' PROVE told'[n] = View(row[n])
    BY <1>1 DEF JournalTold, View
  <2>1. CASE n = m BY <1>1, <1>3, <2>1
  <2>2. CASE n # m BY <1>1, <1>3, <2>2 DEF Story, JournalTold
  <2> QED BY <2>1, <2>2
<1>5. NoFlagLost' BY <1>1 DEF Story, NoFlagLost, Live
<1> QED BY <1>4, <1>5 DEF Story

LEMMA StoryStep == Types /\ Paths /\ Story /\ [Next]_vars => Story'
<1> SUFFICES ASSUME Types, Paths, Story, [Next]_vars PROVE Story' OBVIOUS
<1>1. CASE UNCHANGED vars BY <1>1, QuietKeepsStory DEF vars
<1>2. ASSUME NEW p \in Procs, Moves(p) PROVE Story'
  <2>1. CASE Quiet(p)
    <3>1. bare \subseteq bare'
      BY <2>1, StartsOpen DEF Quiet, Started, Begin, Fail, Stage, RemoveAhead, RemoveBody, FindUnchanged, DeleteNothing,
         CommitTell, CommitRecount, Commit
    <3>2. CASE CommitTell(p) BY <3>2, TellKeepsStory
    <3>3. CASE ~CommitTell(p) BY <2>1, <3>1, <3>3, QuietRows, QuietKeepsStory
    <3> QED BY <3>2, <3>3
  <2> QED BY <1>2, <2>1, MovesForms, FlagsKeepStory, MoveKeepsStory, DeleteKeepsStory, InsertKeepsStory
<1>3. ASSUME NEW p \in Procs, NEW r \in Resources, Acquire(p, r) PROVE Story'
  BY <1>3, QuietKeepsStory DEF Acquire, dbVars
<1>4. CASE Crash BY <1>4, QuietKeepsStory DEF Crash, dbVars
<1> QED BY <1>1, <1>2, <1>3, <1>4, StepForms

LEMMA InitStory == Init => Story
<1> SUFFICES ASSUME Init PROVE Story OBVIOUS
<1>1. Live = {} /\ \A m \in Messages : row[m] = NoRow /\ told[m] = View(row[m])
  BY DEF Init, Live, NoRow
<1> QED BY <1>1 DEF Story, JournalTold, NoFlagLost

LEMMA StoryHolds == Spec => [](Types /\ Paths /\ Story)
<1>1. Init => Types /\ Paths /\ Story BY InitTypes, InitPaths, InitStory
<1>2. Types /\ Paths /\ Story /\ [Next]_vars => (Types /\ Paths /\ Story)'
  BY TypesStep, PathsStep, StoryStep
<1> QED BY <1>1, <1>2, PTL DEF Spec

(* No acknowledged flag change of a message with a body is undone by a      *)
(* session that computed the whole flag string from an older row            *)
(* (set_flags_with_path_logged): the path it expects is the row's version.  *)
THEOREM FlagsSurvive == Spec => []NoFlagLost
<1>1. Types /\ Paths /\ Story => NoFlagLost BY DEF Story
<1> QED BY <1>1, StoryHolds, PTL

(* The newest journal row of every message says where it is and how it is   *)
(* flagged, but for the messages whose last change wrote none in its own    *)
(* transaction, or whose late one was overtaken.                            *)
THEOREM JournalTellsAll == Spec => []JournalTold
<1>1. Types /\ Paths /\ Story => JournalTold BY DEF Story
<1> QED BY <1>1, StoryHolds, PTL
-----------------------------------------------------------------------------
(* The bodies on disk. An operation has a file in hand only between staging *)
(* and its commit (body), or between its commit and the removal (doomed).   *)
InHand ==
  /\ 0 \notin files
  /\ \A p \in Procs : /\ phase[p] # "clean" => doomed[p] = 0
                      /\ body[p] # 0 => Adds(p) \/ Reads(p)

Swept == InHand /\ NoOrphans

(* A step of one operation after which each path it was answerable for is a *)
(* row's, in its hands, on the list of orphans, or gone.                    *)
LEMMA HandedOver ==
  ASSUME Swept, NEW p \in Procs, Others(p), orphans \subseteq orphans',
         phase'[p] # "clean" => doomed'[p] = 0,
         body'[p] # 0 => Adds(p)' \/ Reads(p)',
         \A x \in files' : x \in files \/ (x = body'[p] /\ x # 0),
         \A m \in Live : row[m].path \in Accounted' \cup orphans',
         body[p] \in files' => body[p] \in Accounted' \cup orphans',
         doomed[p] \in files' => doomed[p] \in Accounted' \cup orphans'
  PROVE  Swept'
<1>1. InHand' BY DEF Swept, InHand, Adds, Reads, Others
<1>2. NoOrphans'
  <2> SUFFICES ASSUME NEW x \in files' PROVE x \in Accounted' \cup orphans' BY DEF NoOrphans
  <2>1. CASE x \notin files BY <2>1 DEF Accounted
  <2>2. CASE x \in files
    <3>1. x \in Accounted \cup orphans BY <2>2 DEF Swept, NoOrphans
    <3>2. CASE \E m \in Live : x = row[m].path BY <3>2
    <3>3. CASE \E q \in Procs \ {p} : x = body[q] \/ x = doomed[q]
      <4>1. PICK q \in Procs \ {p} : x = body[q] \/ x = doomed[q] BY <3>3
      <4>2. x = body'[q] \/ x = doomed'[q] BY <4>1 DEF Others
      <4> QED BY <4>2 DEF Accounted
    <3>4. CASE x = body[p] \/ x = doomed[p] BY <3>4
    <3>5. CASE x \in orphans BY <3>5
    <3> QED BY <3>1, <3>2, <3>3, <3>4, <3>5 DEF Accounted
  <2> QED BY <2>1, <2>2
<1> QED BY <1>1, <1>2 DEF Swept

(* Rows that a step leaves alone keep their paths.                          *)
LEMMA RowsAccount ==
  ASSUME NEW m \in Live, m \in Live', row'[m].path = row[m].path PROVE row[m].path \in Accounted'
BY DEF Accounted

(* An operation that is over has nothing left in hand.                      *)
LEMMA OverKeepsSwept ==
  ASSUME Types, Swept, NEW p \in Procs, Others(p), NEW o, NEW at, Over(p, o, at), row' = row, files' \subseteq files,
         orphans \subseteq orphans', body[p] \in files' => body[p] \in orphans', doomed[p] \notin files'
  PROVE  Swept'
<1>1. body'[p] = 0 /\ doomed'[p] = 0 BY DEF Over, Types, TypeOK, ProcTypes
<1>2. Live' = Live BY DEF Live
<1>3. \A m \in Live : row[m].path \in Accounted' BY <1>2, RowsAccount
<1> QED BY <1>1, <1>3, HandedOver

LEMMA FailKeepsSwept ==
  ASSUME Types, Paths, Swept, NEW p \in Procs, phase[p] = "tx", Fail(p) PROVE Swept'
<1>1. /\ Over(p, NoOp, "idle") /\ row' = row /\ orphans' = orphans \cup Left(p)
      /\ files' = files \ (({body[p]} \ {op[p].base.path}) \ Left(p))
  BY RestTypes DEF Fail, dbVars
<1>2. doomed[p] = 0 /\ 0 \notin files BY DEF Swept, InHand
<1>3. body[p] \in files' => body[p] \in orphans'
  <2>1. CASE Fresh(p) BY <1>1, <2>1 DEF Fresh
  <2>2. CASE ~Fresh(p) BY <1>1, <1>2, <2>2 DEF Paths, StagedOwn
  <2> QED BY <2>1, <2>2
<1>4. Others(p) BY MovesAlone DEF Moves
<1>5. files' \subseteq files /\ orphans \subseteq orphans' /\ doomed[p] \notin files' BY <1>1, <1>2
<1> QED BY <1>1, <1>3, <1>4, <1>5, OverKeepsSwept

LEMMA StageKeepsSwept ==
  ASSUME Types, Paths, Swept, NEW p \in Procs, Stage(p) PROVE Swept'
<1>0. Others(p) BY MovesAlone DEF Moves
<1>1. phase[p] = "stage" /\ row' = row /\ orphans' = orphans /\ Live' = Live /\ op[p].kind # "discard"
  BY DEF Stage, dbVars, Live
<1>2. body[p] = 0 /\ doomed[p] = 0 /\ 0 \notin files /\ (Adds(p) \/ Reads(p))
  BY <1>1 DEF Paths, Course, Swept, InHand
<1>3. CASE Rest(p) /\ files' = files
  <2>1. Over(p, NoOp, "idle") BY <1>3, RestTypes
  <2> QED BY <1>0, <1>1, <1>2, <1>3, <2>1, OverKeepsSwept
<1>4. CASE /\ op' = op /\ doomed' = doomed /\ phase' = [phase EXCEPT ![p] = "tx"]
           /\ files' = files \/ (files' = files \cup {body'[p]} /\ body'[p] # 0)
  <2>1. (Adds(p)' \/ Reads(p)') /\ doomed'[p] = 0 BY <1>2, <1>4 DEF Adds, Reads
  <2>2. \A m \in Live : row[m].path \in Accounted' BY <1>1, RowsAccount
  <2>3. \A x \in files' : x \in files \/ (x = body'[p] /\ x # 0) BY <1>4
  <2>4. 0 \in files' => 0 \in files BY <2>3
  <2> QED BY <1>0, <1>1, <1>2, <2>1, <2>2, <2>3, <2>4, HandedOver
<1>5. lastPath + 1 # 0 BY DEF Types, TypeOK
<1>6. ASSUME NEW path, body' = [body EXCEPT ![p] = path] PROVE body'[p] = path
  BY <1>6 DEF Types, TypeOK, ProcTypes
<1> QED BY <1>3, <1>4, <1>5, <1>6 DEF Stage, FreshPath

LEMMA InsertKeepsSwept ==
  ASSUME Types, Paths, Swept, NEW p \in Procs, NEW kind \in Metered \cup Unmetered, CommitInsert(p, kind)
  PROVE  Swept'
<1> DEFINE m == op[p].msg
           new == [folder |-> op[p].to, uid |-> uid[p], flags |-> FirstFlags(p), path |-> body[p]]
<1>0. Others(p) BY MovesAlone DEF Moves
<1>1. Numbered(p, new) /\ Adds(p) BY InsertNumbers
<1>2. phase[p] = "tx" /\ files' = files /\ orphans' = orphans /\ (Rest(p) \/ Owe(p, new))
  BY DEF CommitInsert, Commit
<1>3. body'[p] = 0 /\ doomed'[p] = 0
  BY <1>2 DEF Rest, Owe, Types, TypeOK, ProcTypes
<1>4. doomed[p] \notin files' BY <1>2 DEF Swept, InHand
<1>5. new.path = body[p] OBVIOUS
<1> HIDE DEF new
<1>6. /\ \A n \in Messages : row'[n] = (IF n = m THEN new ELSE row[n])
      /\ Live' = Live \cup {m} /\ m \in Messages /\ m \notin Live
  <2>1. m \in Messages /\ m \notin Live BY <1>1 DEF Numbered
  <2> QED BY <1>1, <2>1, NumberedRows
<1>7. body[p] \in Accounted' BY <1>5, <1>6 DEF Accounted
<1>8. \A n \in Live : n \in Messages BY DEF Live
<1>9. \A n \in Live : row[n].path \in Accounted' BY <1>6, <1>8, RowsAccount
<1> QED BY <1>0, <1>2, <1>3, <1>4, <1>7, <1>9, HandedOver

(* A flag change or a move gives its row the new body and dooms the old. *)
LEMMA ReplaceKeepsSwept ==
  ASSUME Types, Paths, Swept, NEW p \in Procs, Changes(p), NEW new, NEW path, Replaces(p, new, path), CleanUp(p, path),
         files' = files, orphans' = orphans
  PROVE  Swept'
<1> DEFINE m == op[p].msg
<1>0. Others(p) BY MovesAlone DEF Moves
<1>1. phase[p] = "tx" /\ lock[m] = p /\ Reads(p) /\ Mutates(p) BY ChangesHold DEF Replaces
<1>2. m \in Live /\ m \in Messages /\ row[m].path = op[p].base.path BY <1>1 DEF Paths, BaseHeld, Live
<1>3. row'[m] = new /\ \A n \in Messages : n # m => row'[n] = row[n]
  BY <1>2 DEF Replaces, Types, TypeOK, DbTypes
<1>4. phase'[p] = "clean" /\ body'[p] = 0 /\ doomed'[p] = path
  BY DEF CleanUp, Types, TypeOK, ProcTypes
<1>5. doomed[p] \notin files' BY <1>1 DEF Swept, InHand
<1>6. m \in Live' /\ row'[m].path = body[p] BY <1>2, <1>3 DEF Live, Replaces
<1>7. body[p] \in Accounted' BY <1>6 DEF Accounted
<1>8. path \in Accounted' BY <1>4 DEF Accounted
<1>9. row[m].path \in Accounted' BY <1>2, <1>7, <1>8 DEF Replaces
<1>10. \A n \in Live : n # m => row[n].path \in Accounted' BY <1>3, RowsAccount DEF Live
<1> QED BY <1>0, <1>4, <1>5, <1>7, <1>9, <1>10, HandedOver

LEMMA FindUnchangedKeepsSwept ==
  ASSUME Types, Paths, Swept, NEW p \in Procs, FindUnchanged(p) PROVE Swept'
<1>0. Others(p) BY MovesAlone DEF Moves, Changes
<1>1. PICK path \in Nat : /\ Leaves(p, path) /\ CleanUp(p, path)
                          /\ orphans' = orphans \cup ({body[p]} \ {op[p].base.path})
  BY FindUnchangedLeaves
<1>2. /\ phase[p] = "tx" /\ files' = files /\ row' = row /\ Live' = Live
  BY <1>1 DEF FindUnchanged, Commit, Leaves, Live
<1>3. phase'[p] = "clean" /\ body'[p] = 0 BY <1>1 DEF CleanUp, Types, TypeOK, ProcTypes
<1>4. doomed[p] \notin files' BY <1>2 DEF Swept, InHand
<1>5. \A m \in Live : row[m].path \in Accounted' BY <1>2, RowsAccount
<1>6. body[p] \in files' => body[p] \in orphans'
  <2>1. CASE Fresh(p) BY <1>1, <2>1 DEF Fresh
  <2>2. CASE ~Fresh(p) BY <1>2, <2>2 DEF Paths, StagedOwn, Swept, InHand
  <2> QED BY <2>1, <2>2
<1>7. orphans \subseteq orphans' BY <1>1
<1> QED BY <1>0, <1>2, <1>3, <1>4, <1>5, <1>6, <1>7, HandedOver

LEMMA DeleteKeepsSwept ==
  ASSUME Types, Paths, Swept, NEW p \in Procs, NEW kind \in {"expunge", "purge", "discard"}, CommitDelete(p, kind)
  PROVE  Swept'
<1> DEFINE m == op[p].msg
           path == IF kind = "expunge" THEN row[m].path ELSE op[p].base.path
<1>0. Others(p) BY MovesAlone DEF Moves, Changes
<1>1. phase[p] = "tx" /\ op[p].kind = kind /\ Mutates(p) BY DEF CommitDelete, Commit, Mutates
<1>2. body[p] = 0 /\ doomed[p] = 0 /\ 0 \notin files
  BY <1>1, KindsApart DEF Swept, InHand, Reads
<1>3. /\ files' = files /\ CleanUp(p, path) /\ orphans' = orphans \cup ({row[m].path} \ {path})
  BY DEF CommitDelete
<1>4. \A n \in Messages : n # m => row'[n] = row[n] BY DeletedRows
<1> HIDE DEF path
<1>5. phase'[p] = "clean" /\ body'[p] = 0 /\ doomed'[p] = path
  BY <1>3 DEF CleanUp, Types, TypeOK, ProcTypes
<1>6. path \in Accounted' BY <1>5 DEF Accounted
<1>7. row[m].path \in Accounted' \cup orphans' BY <1>3, <1>6
<1>8. \A n \in Live : n # m => row[n].path \in Accounted' BY <1>4, RowsAccount DEF Live
<1> QED BY <1>0, <1>2, <1>3, <1>5, <1>7, <1>8, HandedOver

LEMMA RemoveKeepsSwept ==
  ASSUME Types, Paths, Swept, NEW p \in Procs, RemoveBody(p) PROVE Swept'
<1>0. Others(p) BY MovesAlone DEF Moves
<1>1. /\ phase[p] = "clean" /\ row' = row /\ orphans' = orphans
      /\ files' = files \ {doomed[p]} /\ body[p] = 0 /\ 0 \notin files
  BY DEF RemoveBody, dbVars, Paths, Course, Swept, InHand
<1>2. CASE Rest(p) BY <1>0, <1>1, <1>2, RestTypes, OverKeepsSwept
<1>3. CASE op[p].kind = "purge" /\ Owe(p, NoRow)
  <2>1. op[p].msg \in Messages BY <1>3 DEF Types, OpShape, Mutates
  <2>2. Over(p, Owed(op[p].msg, NoRow), "tx") BY <1>3, <2>1, NoOpType, OweTypes
  <2> QED BY <1>0, <1>1, <2>2, OverKeepsSwept
<1> QED BY <1>2, <1>3 DEF RemoveBody

(* Steps that leave rows and hands as they are, or take files away. *)
LEMMA LeaveKeepsSwept ==
  ASSUME Types, Paths, Swept, NEW p \in Procs, Start(p) \/ RemoveAhead(p) \/ DeleteNothing(p) PROVE Swept'
<1>0. Others(p) BY MovesAlone DEF Moves, Changes
<1>1. CASE Start(p) \/ RemoveAhead(p)
  <2>1. /\ row' = row /\ files' \subseteq files /\ orphans' = orphans /\ body' = body /\ doomed' = doomed
        /\ phase[p] \in {"idle", "stage"} /\ phase'[p] # "clean"
    BY <1>1, StartsOpen DEF Started, Begin, RemoveAhead, dbVars, Types, TypeOK, ProcTypes
  <2>2. body[p] = 0 /\ doomed[p] = 0 /\ 0 \notin files BY <2>1 DEF Paths, Course, Swept, InHand
  <2>3. Live' = Live BY <2>1 DEF Live
  <2>4. \A m \in Live : row[m].path \in Accounted' BY <2>1, <2>3, RowsAccount
  <2> QED BY <1>0, <2>1, <2>2, <2>4, HandedOver
<1>2. CASE DeleteNothing(p)
  <2>1. /\ phase[p] = "tx" /\ op[p].kind \in {"purge", "discard"} /\ CleanUp(p, op[p].base.path)
        /\ row' = row /\ files' = files /\ orphans' = orphans /\ Live' = Live
    BY <1>2 DEF DeleteNothing, Awaits, dbVars, Live
  <2>2. ~Adds(p) /\ ~Reads(p) BY <2>1, KindsApart DEF Mutates, Reads
  <2>3. phase'[p] = "clean" /\ body'[p] = 0 BY <2>1 DEF CleanUp, Types, TypeOK, ProcTypes
  <2>4. \A m \in Live : row[m].path \in Accounted' BY <2>1, RowsAccount
  <2>5. body[p] \notin files' /\ doomed[p] \notin files' BY <2>1, <2>2 DEF Swept, InHand
  <2> QED BY <1>0, <2>1, <2>3, <2>4, <2>5, HandedOver
<1> QED BY <1>1, <1>2

LEMMA TellKeepsSwept ==
  ASSUME Types, Paths, Swept, NEW p \in Procs, CommitTell(p) \/ CommitRecount(p) PROVE Swept'
<1>0. Others(p) BY MovesAlone DEF Moves
<1>1. /\ phase[p] = "tx" /\ op[p].kind \in {"tell", "recount"} /\ Over(p, NoOp, "idle")
      /\ row' = row /\ files' = files /\ orphans' = orphans
  BY RestTypes DEF CommitTell, CommitRecount, Commit
<1>2. body[p] \notin files' /\ doomed[p] \notin files' BY <1>1, KindsApart DEF Swept, InHand
<1> QED BY <1>0, <1>1, <1>2, OverKeepsSwept

LEMMA CrashKeepsSwept ==
  ASSUME Swept, Crash PROVE Swept'
<1>1. /\ files' = files /\ row' = row /\ Live' = Live
      /\ \A p \in Procs : phase'[p] = "idle" /\ body'[p] = 0 /\ doomed'[p] = 0
      /\ orphans' = orphans \cup (({body[p] : p \in Procs} \cup {doomed[p] : p \in Procs}) \ {0})
  BY DEF Crash, dbVars, Live
<1>2. InHand' BY <1>1 DEF Swept, InHand
<1>3. NoOrphans'
  <2> SUFFICES ASSUME NEW x \in files PROVE x \in Accounted' \cup orphans' BY <1>1 DEF NoOrphans
  <2>1. x # 0 /\ x \in Accounted \cup orphans BY DEF Swept, InHand, NoOrphans
  <2>2. {row'[m].path : m \in Live'} = {row[m].path : m \in Live} BY <1>1
  <2> QED BY <1>1, <2>1, <2>2 DEF Accounted
<1> QED BY <1>2, <1>3 DEF Swept

LEMMA SweptStep == Types /\ Paths /\ Swept /\ [Next]_vars => Swept'
<1> SUFFICES ASSUME Types, Paths, Swept, [Next]_vars PROVE Swept' OBVIOUS
<1>1. CASE UNCHANGED vars
  BY <1>1 DEF vars, Swept, InHand, NoOrphans, Accounted, Adds, Reads, Live
<1>2. ASSUME NEW p \in Procs, NEW r \in Resources, Acquire(p, r) PROVE Swept'
  BY <1>2 DEF Acquire, dbVars, Swept, InHand, NoOrphans, Accounted, Adds, Reads, Live
<1>3. ASSUME NEW p \in Procs, NEW r \in Resources, Refuse(p, r) PROVE Swept'
  BY <1>3, FailKeepsSwept DEF Refuse, Awaits
<1>4. ASSUME NEW p \in Procs, LoseSource(p) \/ StatementFails(p) PROVE Swept'
  BY <1>4, FailKeepsSwept DEF LoseSource, StatementFails
<1>5. ASSUME NEW p \in Procs, DeadlockVictim(p) PROVE Swept'
  <2>1. \E q \in Procs : Blocks(p, q) BY <1>5 DEF DeadlockVictim, OnCycle
  <2>2. phase[p] = "tx" BY <2>1 DEF Blocks, Paths, Course
  <2> QED BY <1>5, <2>2, FailKeepsSwept DEF DeadlockVictim
<1>6. ASSUME NEW p \in Procs, CommitFlags(p) PROVE Swept'
  BY <1>6, CommitFlagsReplaces, ReplaceKeepsSwept DEF Changes, CommitFlags
<1>7. ASSUME NEW p \in Procs, CommitMove(p) PROVE Swept'
  BY <1>7, CommitMoveReplaces, ReplaceKeepsSwept DEF Changes, CommitMove
<1>8. ASSUME NEW p \in Procs, Proceed(p) PROVE Swept'
  BY <1>2, <1>3, <1>6, <1>7, <1>8, StageKeepsSwept, RemoveKeepsSwept, LeaveKeepsSwept, InsertKeepsSwept,
     FindUnchangedKeepsSwept, DeleteKeepsSwept, TellKeepsSwept
     DEF Proceed
<1> QED BY <1>1, <1>4, <1>5, <1>8, LeaveKeepsSwept, CrashKeepsSwept DEF Next

LEMMA InitSwept == Init => Swept
BY DEF Init, Swept, InHand, NoOrphans
-----------------------------------------------------------------------------
(* The cached usage. A charged insert stores in used_bytes the sum that it  *)
(* read with its folder's lock; it had the users row already, so nobody but *)
(* who leaves usage alone has changed the mail when it commits.             *)
SumsHeld ==
  \A p \in Procs : Charges(p) /\ lock[op[p].to] = p =>
    /\ lock[User] = p
    /\ "import" \notin skew => Cardinality(Mail) + 1 <= note[p][1]
    /\ skew = {} => note[p][1] = Cardinality(Mail) + 1

Covered == SumsHeld /\ UsageCovers

LEMMA ChargesFolder ==
  ASSUME OpShape, NEW p \in Procs, Charges(p) PROVE op[p].to \in Folders /\ op[p].to \in Resources
BY DEF OpShape, Resources, Adds, Charges

(* What another operation knows of the sum stays true, as long as what came *)
(* or went without being charged is noted.                                  *)
LEMMA OthersKeepSums ==
  ASSUME Types, OpShape', Covered, NEW p \in Procs, Others(p), Frees(p), Cardinality(Mail') \in Nat,
         "import" \notin skew' => "import" \notin skew /\ Cardinality(Mail') <= Cardinality(Mail),
         skew' = {} => skew = {} /\ Cardinality(Mail') = Cardinality(Mail)
  PROVE  SumsHeld'
<1> SUFFICES ASSUME NEW q \in Procs, Charges(q)', lock'[op'[q].to] = q
             PROVE  /\ lock'[User] = q
                    /\ "import" \notin skew' => Cardinality(Mail') + 1 <= note'[q][1]
                    /\ skew' = {} => note'[q][1] = Cardinality(Mail') + 1
  BY DEF SumsHeld
<1>1. op'[q].to \in Resources BY DEF OpShape, Adds, Charges, Resources
<1>2. q # p /\ lock[op'[q].to] = q BY <1>1 DEF Frees
<1>3. op'[q] = op[q] /\ note'[q] = note[q] /\ Charges(q) /\ lock[op[q].to] = q BY <1>2 DEF Others, Charges
<1>4. lock[User] = q BY <1>3 DEF Covered, SumsHeld
<1>5. lock'[User] = q BY <1>2, <1>4 DEF Frees, Resources
<1>6. note[q][1] \in Nat BY DEF Types, TypeOK, ProcTypes
<1>7. Cardinality(Mail) \in Nat BY SetsFinite
<1>8. ASSUME "import" \notin skew' PROVE Cardinality(Mail') + 1 <= note'[q][1]
  <2>1. Cardinality(Mail) + 1 <= note[q][1] BY <1>3, <1>8 DEF Covered, SumsHeld
  <2>2. Cardinality(Mail') <= Cardinality(Mail) BY <1>8
  <2> QED BY <1>3, <1>6, <1>7, <2>1, <2>2
<1>9. ASSUME skew' = {} PROVE note'[q][1] = Cardinality(Mail') + 1
  <2>1. note[q][1] = Cardinality(Mail) + 1 BY <1>3, <1>9 DEF Covered, SumsHeld
  <2> QED BY <1>3, <1>9, <2>1
<1> QED BY <1>5, <1>8, <1>9

LEMMA QuietKeepsUsage ==
  ASSUME Types, OpShape', Covered, NEW p \in Procs, Others(p), Frees(p),
         Mail' = Mail, used' = used, skew' = skew
  PROVE  Covered'
<1>1. UsageCovers' BY DEF Covered, UsageCovers
<1>2. Cardinality(Mail) \in Nat BY SetsFinite
<1>3. Cardinality(Mail') \in Nat /\ Cardinality(Mail') <= Cardinality(Mail) BY <1>2
<1>4. SumsHeld' BY <1>3, OthersKeepSums
<1> QED BY <1>1, <1>4 DEF Covered

(* A commit under the lock of the users row: no other insert is past its sum. *)
LEMMA AloneOnUsers ==
  ASSUME OpShape', Covered, NEW p \in Procs, lock[User] = p, Others(p), Frees(p) PROVE SumsHeld'
<1> SUFFICES ASSUME NEW q \in Procs, Charges(q)', lock'[op'[q].to] = q PROVE FALSE BY DEF SumsHeld
<1>1. op'[q].to \in Resources BY DEF OpShape, Adds, Charges, Resources
<1>2. q # p /\ lock[op'[q].to] = q BY <1>1 DEF Frees
<1>3. op'[q] = op[q] /\ Charges(q) BY <1>2 DEF Others, Charges
<1> QED BY <1>2, <1>3 DEF Covered, SumsHeld

LEMMA AcquireKeepsUsage ==
  ASSUME Types, Covered, NEW p \in Procs, NEW r \in Resources, Acquire(p, r) PROVE Covered'
<1> USE DEF Types, TypeOK, ProcTypes, DbTypes
<1>0. Mail' = Mail /\ used' = used /\ skew' = skew /\ op' = op BY DEF Acquire, dbVars, Mail, Live, Size
<1>1. UsageCovers' BY <1>0 DEF Covered, UsageCovers
<1>2. \A s \in Resources : lock'[s] = (IF s = r THEN p ELSE lock[s]) BY DEF Acquire
<1>3. ASSUME NEW q \in Procs, Charges(q), lock'[op[q].to] = q
      PROVE  /\ lock'[User] = q /\ ("import" \notin skew => Cardinality(Mail) + 1 <= note'[q][1])
             /\ skew = {} => note'[q][1] = Cardinality(Mail) + 1
  <2>0. op[q].to \in Folders /\ op[q].to \in Resources /\ User \in Resources /\ User # op[q].to
    BY <1>3, ChargesFolder, StoreAssumption DEF Resources
  <2>1. CASE op[q].to = r
    <3>1. q = p BY <1>2, <1>3, <2>0, <2>1
    <3>a. Charges(p) /\ op[p].kind \notin Unmetered \cup {"purge", "discard", "recount"} /\ op[p].kind # "flags"
      BY <1>3, <3>1 DEF Charges, Metered, Unmetered
    <3>2. User \in Needs(p) BY <3>a DEF Needs, AccountLocks, Plain, Unchanged
    <3>3. Rank(p, User) = 1
      <4>1. User \notin Messages \cup Folders /\ User # Journal BY StoreAssumption DEF User, Journal
      <4>2. User # op[p].to BY <2>0, <3>1
      <4> QED BY <3>a, <4>1, <4>2 DEF Rank
    <3>4. Rank(p, r) \in {3, 4}
      <4>1. r = op[p].to /\ r \in Folders /\ r # Journal /\ r # User /\ r \notin Messages
        BY <2>0, <2>1, <3>1, StoreAssumption
      <4> QED BY <4>1 DEF Rank
    <3>5. lock[User] = p
      <4>1. lock[User] # p => Rank(p, r) <= Rank(p, User) BY <3>2 DEF Acquire, Awaits
      <4> QED BY <3>3, <3>4, <4>1
    <3>6. note'[p] = <<Cardinality(Mail) + 1, 0>>
      BY <2>1, <3>1, <3>a DEF Acquire
    <3>7. Cardinality(Mail) \in Nat BY SetsFinite
    <3>8. note'[p][1] = Cardinality(Mail) + 1 BY <3>6
    <3>9. lock'[User] = p BY <1>2, <2>0, <3>5
    <3> QED BY <3>1, <3>7, <3>8, <3>9
  <2>2. CASE op[q].to # r
    <3>1. lock[op[q].to] = q BY <1>2, <1>3, <2>0, <2>2
    <3>2. lock[User] = q BY <1>3, <3>1 DEF Covered, SumsHeld
    <3>3. r # User
      BY <1>3, <2>0, <3>2, StoreAssumption DEF Acquire, Free
    <3>4. note'[q] = note[q]
      <4>1. CASE q = p BY <2>2, <4>1 DEF Acquire
      <4>2. CASE q # p BY <4>2 DEF Acquire
      <4> QED BY <4>1, <4>2
    <3>5. lock'[User] = q BY <1>2, <2>0, <3>2, <3>3
    <3> QED BY <1>3, <3>1, <3>4, <3>5 DEF Covered, SumsHeld
  <2> QED BY <2>1, <2>2
<1>4. SumsHeld' BY <1>0, <1>3 DEF SumsHeld, Charges
<1> QED BY <1>1, <1>4 DEF Covered

(* What becomes of the mail. *)
LEMMA MailStays ==
  ASSUME Paths, Live' = Live, \A m \in Messages : origin[m] # "none" => origin'[m] = origin[m]
  PROVE  Mail' = Mail
<1>1. \A m \in Live : origin'[m] = origin[m] BY DEF Live, Paths, RowsOwn
<1> QED BY <1>1 DEF Mail, Size

LEMMA InsertedMail ==
  ASSUME Types, Paths, NEW p \in Procs, NEW kind \in Metered \cup Unmetered, CommitInsert(p, kind)
  PROVE  IF kind = "stub" THEN Mail' = Mail
         ELSE Cardinality(Mail') = Cardinality(Mail) + 1 /\ Cardinality(Mail') \in Nat
<1> DEFINE m == op[p].msg
           new == [folder |-> op[p].to, uid |-> uid[p], flags |-> FirstFlags(p), path |-> body[p]]
<1>1. Numbered(p, new) /\ op[p].kind = kind /\ Adds(p) BY InsertNumbers
<1> HIDE DEF new
<1>2. /\ Live' = Live \cup {m} /\ m \notin Live /\ origin' = origin /\ origin[m] = kind
  BY <1>1, NumberedRows DEF Numbered
<1>3. CASE kind = "stub" BY <1>2, <1>3 DEF Mail, Size
<1>4. CASE kind # "stub"
  <2>1. Mail' = Mail \cup {m} /\ m \notin Mail BY <1>2, <1>4 DEF Mail, Size
  <2>2. IsFiniteSet(Mail) /\ Cardinality(Mail) \in Nat BY SetsFinite
  <2>3. Cardinality(Mail') = Cardinality(Mail) + 1 BY <2>1, <2>2, FS_AddElement
  <2> QED BY <1>4, <2>2, <2>3
<1> QED BY <1>3, <1>4

LEMMA InsertKeepsUsage ==
  ASSUME Types, OpShape', Paths, Covered, NEW p \in Procs, NEW kind \in Metered \cup Unmetered, CommitInsert(p, kind)
  PROVE  Covered'
<1> DEFINE new == [folder |-> op[p].to, uid |-> uid[p], flags |-> FirstFlags(p), path |-> body[p]]
<1>0. Others(p) /\ Frees(p) BY MovesAlone DEF Moves
<1>1. Numbered(p, new) /\ op[p].kind = kind /\ Adds(p) BY InsertNumbers
<1>2. lock[op[p].to] = p /\ (Charges(p) => lock[User] = p) BY <1>1 DEF Numbered
<1>3. Charge(p) BY DEF CommitInsert
<1>4. Cardinality(Mail) \in Nat /\ note[p][1] \in Nat BY SetsFinite DEF Types, TypeOK, ProcTypes
<1> HIDE DEF new
<1>5. CASE Charges(p)
  <2>1. kind # "stub" BY <1>1, <1>5 DEF Charges, Metered
  <2>2. Cardinality(Mail') = Cardinality(Mail) + 1 BY <2>1, InsertedMail
  <2>3. used' = note[p][1] /\ skew' = IF note[p][1] = Cardinality(Mail) + 1 THEN {} ELSE skew
    BY <1>3, <1>5 DEF Charge
  <2>4. /\ "import" \notin skew => Cardinality(Mail) + 1 <= note[p][1]
        /\ skew = {} => note[p][1] = Cardinality(Mail) + 1
    BY <1>2, <1>5 DEF Covered, SumsHeld
  <2>7. SumsHeld' BY <1>0, <1>2, <1>5, AloneOnUsers
  <2>5. CASE note[p][1] = Cardinality(Mail) + 1
    <3>1. used' = Cardinality(Mail') BY <2>2, <2>3, <2>5
    <3>2. Cardinality(Mail') <= used' BY <1>4, <2>2, <3>1
    <3>3. UsageCovers' BY <3>1, <3>2 DEF UsageCovers
    <3> QED BY <2>7, <3>3 DEF Covered
  <2>6. CASE note[p][1] # Cardinality(Mail) + 1
    <3>1. skew' = skew /\ skew # {} BY <2>3, <2>4, <2>6
    <3>2. "import" \notin skew' => Cardinality(Mail') <= used' BY <2>2, <2>3, <2>4, <3>1
    <3>3. UsageCovers' BY <3>1, <3>2 DEF UsageCovers
    <3> QED BY <2>7, <3>3 DEF Covered
  <2> QED BY <2>5, <2>6
<1>6. CASE ~Charges(p) /\ kind = "stub"
  <2>1. Mail' = Mail BY <1>6, InsertedMail
  <2>2. used' = used /\ skew' = skew BY <1>1, <1>3, <1>6 DEF Charge
  <2> QED BY <1>0, <2>1, <2>2, QuietKeepsUsage
<1>7. CASE ~Charges(p) /\ kind # "stub"
  <2>1. Cardinality(Mail') \in Nat BY <1>7, InsertedMail
  <2>2. "import" \in skew' BY <1>1, <1>3, <1>7 DEF Charge
  <2>3. SumsHeld' BY <1>0, <2>1, <2>2, OthersKeepSums
  <2>4. UsageCovers' BY <2>2 DEF UsageCovers
  <2> QED BY <2>3, <2>4 DEF Covered
<1> QED BY <1>5, <1>6, <1>7

LEMMA DeleteKeepsUsage ==
  ASSUME Types, OpShape', Paths, Covered, NEW p \in Procs, NEW kind \in {"expunge", "purge", "discard"},
         CommitDelete(p, kind)
  PROVE  Covered'
<1> DEFINE m == op[p].msg
<1>0. Others(p) /\ Frees(p) BY MovesAlone DEF Moves, Changes
<1>1. m \in Live /\ Live' = Live \ {m} /\ origin' = origin BY DeletedRows DEF CommitDelete, Commit
<1>2. used \in Nat /\ Cardinality(Mail) \in Nat /\ IsFiniteSet(Mail)
  BY SetsFinite DEF Types, TypeOK, DbTypes
<1>3. Size(m) \in {0, 1} BY DEF Size
<1>4. /\ Size(m) = 0 => Mail' = Mail
      /\ Size(m) = 1 => Cardinality(Mail') = Cardinality(Mail) - 1 /\ Cardinality(Mail') \in Nat
  <2>1. \A n \in Messages : Size(n)' = Size(n) BY <1>1 DEF Size
  <2>2. Mail' = Mail \ {m} BY <1>1, <2>1 DEF Mail, Live
  <2>3. Size(m) = 0 => m \notin Mail BY DEF Mail
  <2>4. ASSUME Size(m) = 1 PROVE Cardinality(Mail') = Cardinality(Mail) - 1 /\ Cardinality(Mail') \in Nat
    <3>1. m \in Mail BY <1>1, <2>4 DEF Mail
    <3>2. IsFiniteSet(Mail') /\ Cardinality(Mail') = Cardinality(Mail) - 1
      BY <1>2, <2>2, <3>1, FS_RemoveElement
    <3> QED BY <3>2, FS_CardinalityType
  <2> QED BY <2>2, <2>3, <2>4
<1>5. CASE kind = "expunge"
  <2>1. lock[User] = p
    <3>1. op[p].kind = "expunge" /\ \A r \in Needs(p) : lock[r] = p BY <1>5 DEF CommitDelete, Commit
    <3> QED BY <3>1 DEF Needs, AccountLocks, Plain, Unchanged, Unmetered
  <2>2. used' = Monus(used, Size(m)) /\ skew' = skew BY <1>5 DEF CommitDelete
  <2>3. UsageCovers'
    <3>1. CASE Size(m) = 0
      <4>1. used' = used BY <1>2, <2>2, <3>1 DEF Monus
      <4> QED BY <1>4, <2>2, <3>1, <4>1 DEF UsageCovers, Covered
    <3>2. CASE Size(m) = 1
      <4>1. used' = IF used < 1 THEN 0 ELSE used - 1 BY <2>2, <3>2 DEF Monus
      <4>2. Cardinality(Mail') = Cardinality(Mail) - 1 /\ Cardinality(Mail') \in Nat BY <1>4, <3>2
      <4> QED BY <1>2, <2>2, <4>1, <4>2 DEF UsageCovers, Covered
    <3> QED BY <1>3, <3>1, <3>2
  <2> QED BY <1>0, <2>1, <2>3, AloneOnUsers DEF Covered
<1>6. CASE kind # "expunge" /\ Size(m) = 0
  <2>1. used' = used /\ skew' = skew BY <1>6 DEF CommitDelete
  <2> QED BY <1>0, <1>4, <1>6, <2>1, QuietKeepsUsage
<1>7. CASE kind # "expunge" /\ Size(m) = 1
  <2>1. used' = used /\ skew' = skew \cup {"purge"} BY <1>7 DEF CommitDelete
  <2>2. Cardinality(Mail') = Cardinality(Mail) - 1 /\ Cardinality(Mail') \in Nat BY <1>4, <1>7
  <2>3. skew' # {} /\ ("import" \notin skew' => "import" \notin skew) BY <2>1
  <2>4. Cardinality(Mail') <= Cardinality(Mail) BY <1>2, <2>2
  <2>5. UsageCovers' BY <1>2, <2>1, <2>2, <2>3, <2>4 DEF UsageCovers, Covered
  <2>6. SumsHeld' BY <1>0, <2>2, <2>3, <2>4, OthersKeepSums
  <2> QED BY <2>5, <2>6 DEF Covered
<1> QED BY <1>3, <1>5, <1>6, <1>7

LEMMA UsageStep == Types /\ Paths /\ Covered /\ [Next]_vars => Covered'
<1> SUFFICES ASSUME Types, Paths, Covered, [Next]_vars PROVE Covered' OBVIOUS
<1>0. OpShape' BY TypesStep DEF Types
<1>1. CASE UNCHANGED vars
  BY <1>1 DEF vars, Covered, SumsHeld, UsageCovers, Mail, Size, Live, Charges
<1>2. ASSUME NEW p \in Procs, Moves(p) PROVE Covered'
  <2>0. Others(p) /\ Frees(p) BY <1>2, MovesAlone
  <2>1. ASSUME Live' = Live, used' = used, skew' = skew,
               \A m \in Messages : origin[m] # "none" => origin'[m] = origin[m]
        PROVE  Covered'
    <3>1. Mail' = Mail BY <2>1, MailStays
    <3> QED BY <1>0, <2>0, <2>1, <3>1, QuietKeepsUsage
  <2>2. CASE Quiet(p) BY <2>1, <2>2, QuietRows
  <2>3. CASE CommitFlags(p)
    <3>1. Live' = Live BY <2>3, FlaggedRows
    <3>2. used' = used /\ skew' = skew /\ origin' = origin BY <2>3 DEF CommitFlags, Commit
    <3> QED BY <2>1, <3>1, <3>2
  <2>4. CASE CommitMove(p)
    <3> DEFINE new == [folder |-> op[p].to, uid |-> uid[p], flags |-> row[op[p].msg].flags, path |-> body[p]]
    <3>1. Numbered(p, new) /\ ~Adds(p) BY <2>4, MoveNumbers
    <3>2. used' = used /\ skew' = skew /\ origin' = origin BY <2>4 DEF CommitMove, Commit
    <3> HIDE DEF new
    <3>3. op[p].msg \in Live BY <3>1 DEF Numbered, Numbers
    <3>4. Live' = Live BY <3>1, <3>3, NumberedRows
    <3> QED BY <2>1, <3>2, <3>4
  <2> QED BY <1>0, <1>2, <2>2, <2>3, <2>4, MovesForms, DeleteKeepsUsage, InsertKeepsUsage
<1>3. ASSUME Crash PROVE Covered'
  <2>1. Mail' = Mail /\ used' = used /\ skew' = skew BY <1>3 DEF Crash, dbVars, Mail, Size, Live
  <2>2. \A r \in Resources, q \in Procs : lock'[r] # q BY <1>3, StoreAssumption DEF Crash
  <2>3. SumsHeld' BY <1>0, <2>2 DEF SumsHeld, OpShape, Adds, Charges, Resources
  <2> QED BY <2>1, <2>3 DEF Covered, UsageCovers
<1> QED BY <1>1, <1>2, <1>3, AcquireKeepsUsage, StepForms

LEMMA InitUsage == Init => Covered
<1> SUFFICES ASSUME Init PROVE Covered OBVIOUS
<1>1. Mail = {} BY DEF Init, Mail, Live, NoRow
<1>2. \A p \in Procs : ~Charges(p) BY NoOpType DEF Init, Charges, Metered
<1> QED BY <1>1, <1>2, FS_EmptySet DEF Init, Covered, SumsHeld, UsageCovers
-----------------------------------------------------------------------------
(* The counters of the folders. What a row adds to those of a folder:       *)
Weight(r, f) == IF r.folder = f THEN 1 ELSE 0
UnseenWeight(r, f) == IF r.folder = f /\ Seen \notin r.flags THEN 1 ELSE 0

LEMMA SwapOne ==
  ASSUME NEW S, IsFiniteSet(S), NEW T, NEW m, \A x : x # m => (x \in S <=> x \in T)
  PROVE  Cardinality(T) = (Cardinality(S) - (IF m \in S THEN 1 ELSE 0)) + (IF m \in T THEN 1 ELSE 0)
<1>1. CASE m \in S /\ m \notin T
  <2>1. T = S \ {m} BY <1>1
  <2> QED BY <1>1, <2>1, FS_RemoveElement, FS_CardinalityType
<1>2. CASE m \notin S /\ m \in T
  <2>1. T = S \cup {m} BY <1>2
  <2>2. Cardinality(T) = Cardinality(S) + 1 BY <1>2, <2>1, FS_AddElement
  <2>3. Cardinality(S) \in Nat BY FS_CardinalityType
  <2> QED BY <1>2, <2>2, <2>3
<1>3. CASE m \in S <=> m \in T
  <2>1. T = S BY <1>3
  <2> QED BY <2>1, FS_CardinalityType
<1> QED BY <1>1, <1>2, <1>3

(* One row changes, and with it what the rows of a folder add up to.        *)
LEMMA CountsFollow ==
  ASSUME Types, NEW m \in Messages, NEW new, row' = [row EXCEPT ![m] = new], NEW f \in Folders
  PROVE  /\ Cardinality(In(f))' = (Cardinality(In(f)) - Weight(row[m], f)) + Weight(new, f)
         /\ Cardinality(UnseenIn(f))' = (Cardinality(UnseenIn(f)) - UnseenWeight(row[m], f)) + UnseenWeight(new, f)
         /\ Cardinality(In(f)) >= Weight(row[m], f)
         /\ Cardinality(UnseenIn(f)) >= UnseenWeight(row[m], f)
<1>1. \A n \in Messages : row'[n] = IF n = m THEN new ELSE row[n] BY DEF Types, TypeOK, DbTypes
<1>2. In(f) \subseteq Messages /\ UnseenIn(f) \subseteq Messages BY DEF In, UnseenIn
<1>3. IsFiniteSet(In(f)) /\ IsFiniteSet(UnseenIn(f)) BY <1>2, StoreAssumption, FS_Subset
<1>4. \A x : x # m => (x \in In(f) <=> x \in In(f)') BY <1>1 DEF In
<1>5. \A x : x # m => (x \in UnseenIn(f) <=> x \in UnseenIn(f)') BY <1>1 DEF In, UnseenIn
<1>6. /\ m \in In(f) <=> row[m].folder = f
      /\ m \in In(f)' <=> new.folder = f
      /\ m \in UnseenIn(f) <=> row[m].folder = f /\ Seen \notin row[m].flags
      /\ m \in UnseenIn(f)' <=> new.folder = f /\ Seen \notin new.flags
  BY <1>1 DEF In, UnseenIn
<1>7. Cardinality(In(f)') = (Cardinality(In(f)) - Weight(row[m], f)) + Weight(new, f)
  <2>1. Cardinality(In(f)') = (Cardinality(In(f)) - (IF m \in In(f) THEN 1 ELSE 0)) + (IF m \in In(f)' THEN 1 ELSE 0)
    BY <1>3, <1>4, SwapOne
  <2> QED BY <1>6, <2>1 DEF Weight
<1>8. Cardinality(UnseenIn(f)') = (Cardinality(UnseenIn(f)) - UnseenWeight(row[m], f)) + UnseenWeight(new, f)
  <2>1. Cardinality(UnseenIn(f)') = (Cardinality(UnseenIn(f)) - (IF m \in UnseenIn(f) THEN 1 ELSE 0))
                                    + (IF m \in UnseenIn(f)' THEN 1 ELSE 0)
    BY <1>3, <1>5, SwapOne
  <2> QED BY <1>6, <2>1 DEF UnseenWeight
<1>9. \A S : IsFiniteSet(S) /\ m \in S => Cardinality(S) >= 1
  <2> SUFFICES ASSUME NEW S, IsFiniteSet(S), m \in S PROVE Cardinality(S) >= 1 OBVIOUS
  <2>1. Cardinality(S) \in Nat /\ Cardinality(S) # 0 BY FS_CardinalityType, FS_EmptySet
  <2> QED BY <2>1
<1>10. Cardinality(In(f)) >= Weight(row[m], f) /\ Cardinality(UnseenIn(f)) >= UnseenWeight(row[m], f)
  BY <1>3, <1>6, <1>9, FS_CardinalityType DEF Weight, UnseenWeight
<1> QED BY <1>7, <1>8, <1>10

LEMMA CountersFollow ==
  ASSUME Types, CountersExact, NEW m \in Messages, NEW new, row' = [row EXCEPT ![m] = new], drifted' = drifted,
         \A f \in Folders : count[f] >= Weight(row[m], f) =>
                              count'[f] = (count[f] - Weight(row[m], f)) + Weight(new, f),
         \A f \in Folders : unseen[f] >= UnseenWeight(row[m], f) =>
                              unseen'[f] = (unseen[f] - UnseenWeight(row[m], f)) + UnseenWeight(new, f)
  PROVE  CountersExact'
<1> SUFFICES ASSUME NEW f \in Folders \ drifted
             PROVE  count'[f] = Cardinality(In(f))' /\ unseen'[f] = Cardinality(UnseenIn(f))'
  BY DEF CountersExact
<1>1. count[f] = Cardinality(In(f)) /\ unseen[f] = Cardinality(UnseenIn(f)) BY DEF CountersExact
<1>2. /\ Cardinality(In(f))' = (Cardinality(In(f)) - Weight(row[m], f)) + Weight(new, f)
      /\ Cardinality(UnseenIn(f))' = (Cardinality(UnseenIn(f)) - UnseenWeight(row[m], f)) + UnseenWeight(new, f)
      /\ Cardinality(In(f)) >= Weight(row[m], f)
      /\ Cardinality(UnseenIn(f)) >= UnseenWeight(row[m], f)
  BY CountsFollow
<1>3. count'[f] = (count[f] - Weight(row[m], f)) + Weight(new, f) BY <1>1, <1>2
<1>4. unseen'[f] = (unseen[f] - UnseenWeight(row[m], f)) + UnseenWeight(new, f) BY <1>1, <1>2
<1> QED BY <1>1, <1>2, <1>3, <1>4

(* A new row adds to its folder's counters what its first flags make of it. *)
LEMMA InsertKeepsCounters ==
  ASSUME Types, Paths, CountersExact, NEW p \in Procs, NEW kind \in Metered \cup Unmetered, CommitInsert(p, kind)
  PROVE  CountersExact'
<1> DEFINE m == op[p].msg
           to == op[p].to
           n == IF Seen \in FirstFlags(p) THEN 0 ELSE 1
           new == [folder |-> to, uid |-> uid[p], flags |-> FirstFlags(p), path |-> body[p]]
<1>1. Numbered(p, new) /\ Adds(p) BY InsertNumbers
<1>2. to \in Folders /\ m \in Messages /\ m \notin Live BY <1>1 DEF Types, OpShape, Numbered
<1>3. /\ row' = [row EXCEPT ![m] = new] /\ drifted' = drifted
      /\ count' = [count EXCEPT ![to] = @ + 1] /\ unseen' = [unseen EXCEPT ![to] = @ + n]
  BY DEF CommitInsert
<1>4. new.folder = to /\ new.flags = FirstFlags(p) OBVIOUS
<1>5. count \in [Folders -> Nat] /\ unseen \in [Folders -> Nat] BY DEF Types, TypeOK, DbTypes
<1>6. n \in {0, 1} /\ \A f \in Folders : /\ Weight(row[m], f) = 0 /\ UnseenWeight(row[m], f) = 0
                                         /\ Weight(new, f) = (IF f = to THEN 1 ELSE 0)
                                         /\ UnseenWeight(new, f) = (IF f = to THEN n ELSE 0)
  BY <1>2, <1>4, StoreAssumption DEF Live, Weight, UnseenWeight, Resources
<1> HIDE DEF new, m, to, n
<1>7. \A f \in Folders : count'[f] = (count[f] - Weight(row[m], f)) + Weight(new, f)
  BY <1>2, <1>3, <1>5, <1>6
<1>8. \A f \in Folders : unseen'[f] = (unseen[f] - UnseenWeight(row[m], f)) + UnseenWeight(new, f)
  <2> SUFFICES ASSUME NEW f \in Folders
               PROVE  unseen'[f] = (unseen[f] - UnseenWeight(row[m], f)) + UnseenWeight(new, f)
    OBVIOUS
  <2>1. unseen'[f] = IF f = to THEN unseen[f] + n ELSE unseen[f] BY <1>2, <1>3, <1>5
  <2>2. unseen[f] \in Nat BY <1>5
  <2>3. UnseenWeight(row[m], f) = 0 /\ UnseenWeight(new, f) = IF f = to THEN n ELSE 0 BY <1>6
  <2> QED BY <1>6, <2>1, <2>2, <2>3
<1> QED BY <1>2, <1>3, <1>7, <1>8, CountersFollow

(* The unseen counter shifts as the locked row and the new flags differ, so *)
(* it is right even where the row has no body and its flags are not those   *)
(* that were read.                                                          *)
LEMMA FlagsKeepCounters ==
  ASSUME Types, Paths, CountersExact, NEW p \in Procs, CommitFlags(p) PROVE CountersExact'
<1> DEFINE m == op[p].msg
           flags == NewFlags(p)
           new == [folder |-> row[m].folder, uid |-> row[m].uid, flags |-> flags, path |-> body[p]]
<1>1. /\ row' = [row EXCEPT ![m] = new] /\ drifted' = drifted /\ count' = count
      /\ unseen' = IF ~ShiftsUnseen(p) THEN unseen
                   ELSE [unseen EXCEPT ![row[m].folder] = IF Seen \in flags THEN Monus(@, 1) ELSE @ + 1]
  BY DEF CommitFlags
<1>2. m \in Live /\ m \in Messages BY FlaggedRows
<1>3. row[m].folder \in Folders BY <1>2 DEF Live, Types, TypeOK, DbTypes, Row
<1>5. ShiftsUnseen(p) <=> ((Seen \in row[m].flags) # (Seen \in flags)) BY DEF ShiftsUnseen
<1>6. new.folder = row[m].folder /\ new.flags = flags OBVIOUS
<1> HIDE DEF new, flags, m
<1>7. count \in [Folders -> Nat] /\ unseen \in [Folders -> Nat] BY DEF Types, TypeOK, DbTypes
<1>8. \A f \in Folders : count'[f] = (count[f] - Weight(row[m], f)) + Weight(new, f)
  BY <1>1, <1>6, <1>7 DEF Weight
<1>9. ASSUME NEW f \in Folders, unseen[f] >= UnseenWeight(row[m], f)
      PROVE  unseen'[f] = (unseen[f] - UnseenWeight(row[m], f)) + UnseenWeight(new, f)
  <2>1. unseen[f] \in Nat BY <1>7
  <2>2. CASE ~ShiftsUnseen(p) \/ f # row[m].folder
    <3>1. unseen'[f] = unseen[f] BY <1>1, <1>3, <1>7, <2>2
    <3>2. UnseenWeight(row[m], f) = UnseenWeight(new, f)
      <4>1. CASE f # row[m].folder BY <1>6, <4>1 DEF UnseenWeight
      <4>2. CASE ~ShiftsUnseen(p)
        <5>1. Seen \in row[m].flags <=> Seen \in new.flags BY <1>5, <1>6, <4>2
        <5> QED BY <1>6, <5>1 DEF UnseenWeight
      <4> QED BY <2>2, <4>1, <4>2
    <3>3. UnseenWeight(new, f) \in {0, 1} BY DEF UnseenWeight
    <3> QED BY <2>1, <3>1, <3>2, <3>3
  <2>3. CASE ShiftsUnseen(p) /\ f = row[m].folder
    <3>0. Seen \in row[m].flags <=> Seen \notin flags BY <1>5, <2>3
    <3>1. unseen'[f] = IF Seen \in flags THEN Monus(unseen[f], 1) ELSE unseen[f] + 1
      BY <1>1, <1>3, <1>7, <2>3
    <3>2. CASE Seen \in flags
      <4>1. UnseenWeight(row[m], f) = 1 /\ UnseenWeight(new, f) = 0
        BY <3>0, <1>6, <2>3, <3>2 DEF UnseenWeight
      <4> QED BY <1>9, <2>1, <3>1, <3>2, <4>1 DEF Monus
    <3>3. CASE Seen \notin flags
      <4>1. UnseenWeight(row[m], f) = 0 /\ UnseenWeight(new, f) = 1
        BY <3>0, <1>6, <2>3, <3>3 DEF UnseenWeight
      <4> QED BY <2>1, <3>1, <3>3, <4>1
    <3> QED BY <3>2, <3>3
  <2> QED BY <2>2, <2>3
<1> QED BY <1>1, <1>2, <1>8, <1>9, CountersFollow

LEMMA MoveKeepsCounters ==
  ASSUME Types, Paths, CountersExact, NEW p \in Procs, CommitMove(p) PROVE CountersExact'
<1> DEFINE m == op[p].msg
           from == row[m].folder
           to == op[p].to
           n == IF Seen \in row[m].flags THEN 0 ELSE 1
           new == [folder |-> to, uid |-> uid[p], flags |-> row[m].flags, path |-> body[p]]
<1>1. /\ Commit(p, "move") /\ row' = [row EXCEPT ![m] = new] /\ drifted' = drifted
      /\ count' = Shifted(count, from, to, 1) /\ unseen' = Shifted(unseen, from, to, n)
  BY DEF CommitMove
<1>2. m \in Live BY MoveNumbers DEF Numbered, Numbers
<1>3. m \in Messages /\ from \in Folders BY <1>2 DEF Live, Types, TypeOK, DbTypes, Row
<1>4. to \in Folders BY <1>1 DEF Commit, Types, OpShape
<1>5. new.folder = to /\ new.flags = row[m].flags OBVIOUS
<1>6. /\ n \in {0, 1}
      /\ \A f \in Folders : /\ Weight(row[m], f) = (IF f = from THEN 1 ELSE 0)
                            /\ UnseenWeight(row[m], f) = (IF f = from THEN n ELSE 0)
                            /\ Weight(new, f) = (IF f = to THEN 1 ELSE 0)
                            /\ UnseenWeight(new, f) = (IF f = to THEN n ELSE 0)
  BY <1>5 DEF Weight, UnseenWeight
<1>7. count \in [Folders -> Nat] /\ unseen \in [Folders -> Nat] BY DEF Types, TypeOK, DbTypes
<1> HIDE DEF new, m, from, to, n
<1>8. ASSUME NEW c \in [Folders -> Nat], NEW k \in {0, 1}, NEW f \in Folders,
             c[f] >= (IF f = from THEN k ELSE 0)
      PROVE  Shifted(c, from, to, k)[f] = (c[f] - (IF f = from THEN k ELSE 0)) + (IF f = to THEN k ELSE 0)
  <2>1. CASE from = to BY <1>8, <2>1 DEF Shifted
  <2>2. CASE from # to
    <3>1. Shifted(c, from, to, k)[f] = IF f = to THEN c[f] + k ELSE IF f = from THEN Monus(c[f], k) ELSE c[f]
      BY <1>3, <1>4, <2>2 DEF Shifted
    <3> QED BY <1>8, <2>2, <3>1 DEF Monus
  <2> QED BY <2>1, <2>2
<1>9. \A f \in Folders : count[f] >= Weight(row[m], f) =>
                           count'[f] = (count[f] - Weight(row[m], f)) + Weight(new, f)
  BY <1>1, <1>6, <1>7, <1>8
<1>10. \A f \in Folders : unseen[f] >= UnseenWeight(row[m], f) =>
                            unseen'[f] = (unseen[f] - UnseenWeight(row[m], f)) + UnseenWeight(new, f)
  BY <1>1, <1>6, <1>7, <1>8
<1> QED BY <1>1, <1>3, <1>9, <1>10, CountersFollow

LEMMA DeleteKeepsCounters ==
  ASSUME Types, Paths, CountersExact, NEW p \in Procs, NEW kind \in {"expunge", "purge", "discard"}, CommitDelete(p, kind)
  PROVE  CountersExact'
<1> DEFINE m == op[p].msg
           from == row[m].folder
           n == IF Seen \in row[m].flags THEN 0 ELSE 1
<1>1. /\ row' = [row EXCEPT ![m] = NoRow] /\ drifted' = drifted
      /\ count' = [count EXCEPT ![from] = Monus(@, 1)] /\ unseen' = [unseen EXCEPT ![from] = Monus(@, n)]
  BY DEF CommitDelete
<1>2. m \in Live /\ m \in Messages BY DeletedRows DEF Live
<1>3. from \in Folders BY <1>2 DEF Live, Types, TypeOK, DbTypes, Row
<1>4. NoRow.folder = None BY DEF NoRow
<1>5. n \in {0, 1} /\ \A f \in Folders : Weight(NoRow, f) = 0 /\ UnseenWeight(NoRow, f) = 0
  BY <1>4, StoreAssumption DEF Weight, UnseenWeight, Resources
<1>6. \A f \in Folders : /\ Weight(row[m], f) = (IF f = from THEN 1 ELSE 0)
                         /\ UnseenWeight(row[m], f) = (IF f = from THEN n ELSE 0)
  BY DEF Weight, UnseenWeight
<1>7. count \in [Folders -> Nat] /\ unseen \in [Folders -> Nat] BY DEF Types, TypeOK, DbTypes
<1> HIDE DEF m, from, n, NoRow
<1>8. ASSUME NEW f \in Folders, count[f] >= Weight(row[m], f)
      PROVE  count'[f] = (count[f] - Weight(row[m], f)) + Weight(NoRow, f)
  <2>1. count'[f] = IF f = from THEN Monus(count[f], 1) ELSE count[f] BY <1>1, <1>3, <1>7
  <2> QED BY <1>5, <1>6, <1>7, <1>8, <2>1 DEF Monus
<1>9. ASSUME NEW f \in Folders, unseen[f] >= UnseenWeight(row[m], f)
      PROVE  unseen'[f] = (unseen[f] - UnseenWeight(row[m], f)) + UnseenWeight(NoRow, f)
  <2>1. unseen'[f] = IF f = from THEN Monus(unseen[f], n) ELSE unseen[f] BY <1>1, <1>3, <1>7
  <2> QED BY <1>5, <1>6, <1>7, <1>9, <2>1 DEF Monus
<1> QED BY <1>1, <1>2, <1>8, <1>9, CountersFollow

(* A recount that is out of date marks its folder as drifted.               *)
LEMMA RecountKeepsCounters ==
  ASSUME Types, CountersExact, NEW p \in Procs, CommitRecount(p) PROVE CountersExact'
<1> DEFINE f == op[p].to
<1>1. /\ row' = row
      /\ count' = [count EXCEPT ![f] = note[p][1]] /\ unseen' = [unseen EXCEPT ![f] = note[p][2]]
      /\ drifted' = IF note[p] = <<Cardinality(In(f)), Cardinality(UnseenIn(f))>>
                    THEN drifted \ {f} ELSE drifted \cup {f}
  BY DEF CommitRecount
<1>2. count \in [Folders -> Nat] /\ unseen \in [Folders -> Nat] BY DEF Types, TypeOK, DbTypes
<1>3. \A g \in Folders : In(g)' = In(g) /\ UnseenIn(g)' = UnseenIn(g) BY <1>1 DEF In, UnseenIn
<1>4. ASSUME NEW g \in Folders \ drifted'
      PROVE  count'[g] = Cardinality(In(g)) /\ unseen'[g] = Cardinality(UnseenIn(g))
  <2>1. CASE g = f
    <3>1. note[p] = <<Cardinality(In(f)), Cardinality(UnseenIn(f))>> BY <1>1, <1>4, <2>1
    <3> QED BY <1>1, <1>2, <2>1, <3>1
  <2>2. CASE g # f
    <3>1. g \notin drifted /\ count'[g] = count[g] /\ unseen'[g] = unseen[g] BY <1>1, <1>2, <1>4, <2>2
    <3> QED BY <3>1 DEF CountersExact
  <2> QED BY <2>1, <2>2
<1> QED BY <1>3, <1>4 DEF CountersExact

LEMMA CountersStep == Types /\ Paths /\ CountersExact /\ [Next]_vars => CountersExact'
<1> SUFFICES ASSUME Types, Paths, CountersExact, [Next]_vars PROVE CountersExact' OBVIOUS
<1>1. ASSUME UNCHANGED <<row, count, unseen, drifted>> PROVE CountersExact'
  BY <1>1 DEF CountersExact, In, UnseenIn
<1>2. CASE UNCHANGED vars BY <1>1, <1>2 DEF vars
<1>3. ASSUME NEW p \in Procs, Moves(p) PROVE CountersExact'
  <2>1. CASE Quiet(p)
    <3>1. CASE CommitRecount(p) BY <3>1, RecountKeepsCounters
    <3>2. CASE ~CommitRecount(p) BY <1>1, <2>1, <3>2, QuietRows
    <3> QED BY <3>1, <3>2
  <2> QED BY <1>3, <2>1, MovesForms, FlagsKeepCounters, MoveKeepsCounters, DeleteKeepsCounters, InsertKeepsCounters
<1>4. ASSUME NEW p \in Procs, NEW r \in Resources, Acquire(p, r) PROVE CountersExact'
  BY <1>1, <1>4 DEF Acquire, dbVars
<1>5. CASE Crash BY <1>1, <1>5 DEF Crash, dbVars
<1> QED BY <1>2, <1>3, <1>4, <1>5, StepForms

LEMMA InitCounters == Init => CountersExact
<1> SUFFICES ASSUME Init, NEW f \in Folders
             PROVE  count[f] = Cardinality(In(f)) /\ unseen[f] = Cardinality(UnseenIn(f))
  BY DEF CountersExact
<1>1. \A m \in Messages : row[m].folder = None BY DEF Init, NoRow
<1>2. None \notin Folders BY StoreAssumption DEF Resources
<1>3. In(f) = {} /\ UnseenIn(f) = {} BY <1>1, <1>2 DEF In, UnseenIn
<1> QED BY <1>3, FS_EmptySet DEF Init
-----------------------------------------------------------------------------
LEMMA BooksHold == Spec => [](Types /\ Paths /\ Limits /\ Story /\ Swept /\ Covered /\ CountersExact)
<1> DEFINE Books == Types /\ Paths /\ Limits /\ Story /\ Swept /\ Covered /\ CountersExact
<1>1. Init => Books
  BY InitTypes, InitPaths, InitLimits, InitStory, InitSwept, InitUsage, InitCounters
<1>2. Books /\ [Next]_vars => Books'
  <2> SUFFICES ASSUME Books, [Next]_vars PROVE Books' OBVIOUS
  <2>1. Types' /\ Paths' /\ Limits' /\ Story' BY TypesStep, PathsStep, LimitsStep, StoryStep
  <2>2. Swept' /\ Covered' BY SweptStep, UsageStep
  <2>3. CountersExact' BY CountersStep
  <2> QED BY <2>1, <2>2, <2>3
<1> QED BY <1>1, <1>2, PTL DEF Spec

(* What is derived from the rows is what they make of it: every body on the *)
(* disk is accounted for, the folder counters equal the rows unless a       *)
(* recount came too late, used_bytes understates the mail only by what came *)
(* in uncharged, what is asked about the quota keeps it, and no UID denotes *)
(* two messages.                                                            *)
THEOREM BooksAlwaysBalance == Spec => []BooksBalance
<1>1. Types /\ Paths /\ Limits /\ Story /\ Swept /\ Covered /\ CountersExact => BooksBalance
  BY DEF BooksBalance, Swept, Covered, Limits, Asked, QuotaHolds
<1> QED BY <1>1, BooksHold, PTL
=============================================================================
