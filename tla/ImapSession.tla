---------------------------- MODULE ImapSession ----------------------------
(***************************************************************************)
(* The IMAP sessions of one account (ferroma-imap/src/session.rs) over the  *)
(* folders and messages they share, and what each client was told.          *)
(*                                                                         *)
(* A session keeps the listing of its mailbox as it read it at SELECT; it   *)
(* numbers, marks and expunges by that listing while other sessions change  *)
(* the folder. One handler of a session runs at a time, but the messages of *)
(* an EXPUNGE, a CLOSE, a COPY or a MOVE are taken one by one, and others   *)
(* work between them. STORE and FETCH of several messages are repetitions   *)
(* of the single one. How a row, its file and the counters change together  *)
(* is in MessageStore; a reply that changes nothing is not written down.    *)
(***************************************************************************)
EXTENDS Naturals, FiniteSets, Sequences, SequencesExt, Order

CONSTANTS
  Session, Message, Name,
  Watchers,           \* the sessions whose clients use EXAMINE and IDLE
  Inbox,            \* the name that is never deleted or renamed
  None,
  Initial,          \* the messages INBOX holds to begin with, by UID
  Deleted, Seen,    \* the two flags that have effects of their own
  MaxFolders,       \* bound: folder rows that ever exist
  MaxUid,           \* bound: UIDs handed out in a folder
  MaxCommands,      \* bound: commands and arrivals
  Capacity          \* what the broadcast channel holds for one subscriber

ASSUME ImapAssumption ==
  /\ Inbox \in Name /\ None \notin Session \cup Message \cup Name
  /\ Deleted # Seen /\ Watchers \subseteq Session
  /\ Initial \in Seq(Message) /\ Len(Initial) <= MaxUid
  /\ \A i, j \in DOMAIN Initial : Initial[i] = Initial[j] => i = j
  /\ MaxCommands \in Nat
  /\ MaxFolders \in Nat \ {0} /\ MaxUid \in Nat /\ Capacity \in Nat \ {0}

Flag == {Deleted, Seen}
Folder == 1..MaxFolders         \* row ids; 1 is INBOX
NoFolder == 0
Other == 0                      \* an event that is no MailReceived of a folder

VARIABLES
  folders,   \* the folder rows made so far
  name,      \* the name of a folder row, None before it is made and when deleted
  uidNext,   \* folders.uid_next
  ids,       \* the message ids handed out so far
  row,       \* the messages table: folder, uid and flags; NoFolder: no such row
  held,      \* messages an active row of the mail queue refers to
  left,      \* bound: the commands and arrivals a run has yet to explore
  selected,  \* Selected: folder, read_only and the listing
  fresh,     \* the listed messages whose storage_path is still the row's
  idle,      \* the subscription of an IDLE: the queued events, and whether some were lost
  job,       \* the command that is being worked through
  told       \* the client's numbering: the message it was told of at each number

store == <<folders, name, uidNext, ids, row, held>>
vars == <<folders, name, uidNext, ids, row, held, left, selected, fresh, idle, job, told>>

NotSelected == [folder |-> NoFolder, read_only |-> FALSE, messages |-> <<>>]
NotIdle == [on |-> FALSE, queue |-> <<>>, lagged |-> FALSE]
NoJob == [kind |-> "none", todo |-> <<>>, done |-> {}, to |-> NoFolder, as |-> None]
NoRow == [folder |-> NoFolder, uid |-> 0, flags |-> {}]

In(f) == {m \in Message : row[m].folder = f}
Live == {m \in Message : row[m].folder # NoFolder}
Messages(s) == selected[s].messages
Numbers(s) == DOMAIN Messages(s)

(* SelectedMessage::from_row, list_unexpunged: ORDER BY uid *)
Entry(m) == [id |-> m, uid |-> row[m].uid, flags |-> row[m].flags]
Listing(f) == InOrder([e \in {Entry(m) : m \in In(f)} |-> e.uid])
Ids(list) == [k \in DOMAIN list |-> list[k].id]

Selects(s) == selected[s].folder # NoFolder
Spend == left > 0 /\ left' = left - 1

Find(n) == {f \in Folder : name[f] = n}
Free(s) == job[s].kind = "none" /\ ~idle[s].on

(* A broadcast subscriber that is full loses its oldest event. *)
Queued(i, event) ==
  IF Len(i.queue) < Capacity THEN [i EXCEPT !.queue = Append(@, event)]
  ELSE [i EXCEPT !.queue = Append(Tail(@), event), !.lagged = TRUE]

Publish(event) ==
  idle' = [s \in Session |-> IF idle[s].on THEN Queued(idle[s], event) ELSE idle[s]]

(* EXISTS n, and EXPUNGE n: what a client makes of them. *)
Heard(numbering, list) ==
  [k \in DOMAIN list |-> IF k \in DOMAIN numbering THEN numbering[k] ELSE list[k].id]
Forgets(numbering, k) == IF k \in DOMAIN numbering THEN RemoveAt(numbering, k) ELSE numbering

Init ==
  /\ folders = 1
  /\ name = [f \in Folder |-> IF f = 1 THEN Inbox ELSE None]
  /\ uidNext = [f \in Folder |-> IF f = 1 THEN Len(Initial) + 1 ELSE 1]
  /\ ids = Range(Initial) /\ held = {}
  /\ row = [m \in Message |->
       IF m \in ids THEN [NoRow EXCEPT !.folder = 1, !.uid = CHOOSE u \in DOMAIN Initial : Initial[u] = m]
       ELSE NoRow]
  /\ left = MaxCommands
  /\ selected = [s \in Session |-> NotSelected]
  /\ fresh = [s \in Session |-> {}]
  /\ idle = [s \in Session |-> NotIdle]
  /\ job = [s \in Session |-> NoJob]
  /\ told = [s \in Session |-> <<>>]

-----------------------------------------------------------------------------
(* A session. *)

Deselect(s) ==
  /\ selected' = [selected EXCEPT ![s] = NotSelected]
  /\ fresh' = [fresh EXCEPT ![s] = {}]
  /\ told' = [told EXCEPT ![s] = <<>>]

(* LOGOUT, the end of the input, an IDLE held too long, STARTTLS: whoever   *)
(* speaks next starts unauthenticated.                                      *)
Leave(s) ==
  /\ job[s].kind = "none" /\ (idle[s].on \/ Selects(s))
  /\ idle' = [idle EXCEPT ![s] = NotIdle]
  /\ Deselect(s)
  /\ UNCHANGED <<store, left, job>>

(* open_mailbox: SELECT and EXAMINE *)
Select(s, n, read_only) ==
  /\ Free(s) /\ (read_only => s \in Watchers)
  /\ \E f \in Find(n) :
       /\ selected' = [selected EXCEPT ![s] =
            [folder |-> f, read_only |-> read_only, messages |-> Listing(f)]]
       /\ fresh' = [fresh EXCEPT ![s] = In(f)]
       /\ told' = [told EXCEPT ![s] = Ids(Listing(f))]
  /\ UNCHANGED <<store, left, idle, job>>

Unselect(s) ==
  /\ Selects(s) /\ Free(s)
  /\ Deselect(s)
  /\ UNCHANGED <<store, left, idle, job>>

-----------------------------------------------------------------------------
(* Folders. Their names are flat here, so none has children. *)

Create(s, n) ==
  /\ Spend /\ Free(s)
  /\ Find(n) = {} /\ folders < MaxFolders
  /\ folders' = folders + 1
  /\ name' = [name EXCEPT ![folders'] = n]
  /\ UNCHANGED <<uidNext, ids, row, held, selected, fresh, idle, job, told>>

(* The messages go with the folder (ON DELETE CASCADE), unless the trigger  *)
(* active_queue_message_delete_guard refuses one of them.                   *)
Unqueued_Cascade(gone) == TRUE
Unqueued(gone) == gone \cap held = {}

Delete(s, n) ==
  /\ Spend /\ Free(s) /\ n # Inbox
  /\ \E f \in Find(n) :
       /\ Unqueued(In(f))
       /\ name' = [name EXCEPT ![f] = None]
       /\ row' = [m \in Message |-> IF m \in In(f) THEN NoRow ELSE row[m]]
       /\ fresh' = [c \in Session |-> fresh[c] \ In(f)]
  /\ UNCHANGED <<folders, uidNext, ids, held, selected, idle, job, told>>

(* Every message of the folder gets a new storage_path. *)
Rename(s, from, to) ==
  /\ Spend /\ Free(s) /\ from # Inbox
  /\ Find(to) = {}
  /\ \E f \in Find(from) :
       /\ name' = [name EXCEPT ![f] = to]
       /\ fresh' = [c \in Session |-> fresh[c] \ In(f)]
  /\ UNCHANGED <<folders, uidNext, ids, row, held, selected, idle, job, told>>

-----------------------------------------------------------------------------
(* Messages that come. *)

Bumped(f) == [uidNext EXCEPT ![f] = @ + 1]
Place(m, f, flags) == [row EXCEPT ![m] = [folder |-> f, uid |-> uidNext[f], flags |-> flags]]
NextId == CHOOSE m \in Message : m \notin ids

NewRow(m, f, flags) ==
  /\ ids # Message /\ m = NextId /\ uidNext[f] <= MaxUid
  /\ ids' = ids \cup {m}
  /\ row' = Place(m, f, flags)
  /\ uidNext' = Bumped(f)

(* A delivery by SMTP, or a Sent copy, which the queue holds until it is    *)
(* delivered. Both announce it under the id of the address, which no        *)
(* session compares with a folder.                                          *)
Arrive(f, queued) ==
  /\ Spend /\ name[f] # None
  /\ \E m \in Message :
       /\ NewRow(m, f, {})
       /\ held' = IF queued THEN held \cup {m} ELSE held
  /\ Publish(Other)
  /\ UNCHANGED <<folders, name, selected, fresh, job, told>>

Delivered(m) ==
  /\ m \in held /\ held' = held \ {m}
  /\ UNCHANGED <<folders, name, uidNext, ids, row, left, selected, fresh, idle, job, told>>

(* command_append: a message for the selected folder joins the listing, but *)
(* no EXISTS is sent.                                                       *)
Announce_Address(f) == Other
Announce(f) == f

AppendMessage(s, n, flags) ==
  /\ Spend /\ Free(s)
  /\ \E f \in Find(n), m \in Message :
       /\ NewRow(m, f, flags)
       /\ Publish(Announce(f))
       /\ IF selected[s].folder = f
          THEN /\ selected' = [selected EXCEPT ![s].messages = Append(@, Entry(m)')]
               /\ fresh' = [fresh EXCEPT ![s] = @ \cup {m}]
          ELSE UNCHANGED <<selected, fresh>>
  /\ UNCHANGED <<folders, name, held, job, told>>

-----------------------------------------------------------------------------
(* STORE and FETCH. *)

(* stage_flags, set_flags_with_path_logged: the file and the row are        *)
(* changed if the row still names the path of the listing; the new copy has *)
(* a path of its own.                                                       *)
Restaged_InPlace(s, m) == fresh
Restaged(s, m) == [c \in Session |-> IF c = s THEN fresh[c] ELSE fresh[c] \ {m}]

SetFlags(s, k, flags) ==
  LET m == Messages(s)[k].id
  IN /\ m \in fresh[s]
     /\ row' = [row EXCEPT ![m].flags = flags]
     /\ selected' = [selected EXCEPT ![s].messages[k].flags = flags]
     /\ fresh' = Restaged(s, m)
     /\ Publish(Other)
     /\ UNCHANGED <<folders, name, uidNext, ids, held, job, told>>

Store(s, k, flags) ==
  /\ Spend /\ Selects(s) /\ Free(s) /\ ~selected[s].read_only
  /\ flags # Messages(s)[k].flags
  /\ SetFlags(s, k, flags)

(* persist_seen: BODY[] without PEEK; EXAMINE is no exception. *)
Fetch(s, k) ==
  /\ Spend /\ Selects(s) /\ Free(s)
  /\ Seen \notin Messages(s)[k].flags
  /\ SetFlags(s, k, Messages(s)[k].flags \cup {Seen})

-----------------------------------------------------------------------------
(* EXPUNGE, UID EXPUNGE and CLOSE. *)

Marked(s) == {k \in Numbers(s) : Deleted \in Messages(s)[k].flags}
Downward(numbers) == InOrder([k \in numbers |-> -k])
Targets(s, numbers) ==
  [i \in DOMAIN Downward(numbers) |->
     [number |-> Downward(numbers)[i], id |-> Messages(s)[Downward(numbers)[i]].id]]

Begin(s, kind, todo, to) ==
  /\ job' = [job EXCEPT ![s] = [kind |-> kind, todo |-> todo, done |-> {}, to |-> to,
                                as |-> IF to = NoFolder THEN None ELSE name[to]]]
  /\ UNCHANGED <<store, selected, fresh, idle, told>>

BeginExpunge(s, numbers) ==
  /\ Spend /\ Selects(s) /\ Free(s) /\ ~selected[s].read_only
  /\ numbers # {} /\ numbers \subseteq Marked(s)
  /\ Begin(s, "expunge", Targets(s, numbers), NoFolder)

BeginClose(s) ==
  /\ Spend /\ Selects(s) /\ Free(s) /\ ~selected[s].read_only
  /\ Marked(s) # {}
  /\ Begin(s, "close", Targets(s, Marked(s)), NoFolder)

(* An error ends the command; what was done before it stays done. *)
Abandon(s) ==
  /\ job[s].kind # "none"
  /\ job' = [job EXCEPT ![s] = NoJob]
  /\ UNCHANGED <<store, left, selected, fresh, idle, told>>

Proceeds(s) ==
  LET rest == [job[s] EXCEPT !.todo = Tail(@)]
  IN job' = [job EXCEPT ![s] = IF Len(@.todo) = 1 THEN NoJob ELSE rest]

(* hard_delete_logged: whatever folder and flags the row has by now, unless *)
(* the queue needs it.                                                      *)
HardDelete_Reported(m) ==
  row' = IF Unqueued({m}) THEN [row EXCEPT ![m] = NoRow] ELSE row
HardDelete(m) ==
  /\ Unqueued({m})
  /\ row' = [row EXCEPT ![m] = NoRow]

Gone_ElsewhereOnly(s, m) == [c \in Session |-> IF c = s THEN fresh[c] ELSE fresh[c] \ {m}]
Gone(s, m) == [c \in Session |-> fresh[c] \ {m}]

ExpungeOne(s) ==
  /\ job[s].kind = "expunge"
  /\ LET target == Head(job[s].todo)
         list == Messages(s)
         k == IF target.number \in DOMAIN list /\ list[target.number].id = target.id
              THEN target.number
              ELSE CHOOSE i \in DOMAIN list : list[i].id = target.id
     IN /\ HardDelete(target.id)
        /\ selected' = [selected EXCEPT ![s].messages = RemoveAt(@, k)]
        /\ told' = [told EXCEPT ![s] = Forgets(@, k)]
        /\ fresh' = Gone(s, target.id)
  /\ Publish(Other) /\ Proceeds(s)
  /\ UNCHANGED <<folders, name, uidNext, ids, held, left>>

CloseOne(s) ==
  /\ job[s].kind = "close"
  /\ LET m == Head(job[s].todo).id
     IN /\ HardDelete(m)
        /\ IF Len(job[s].todo) = 1
           THEN /\ selected' = [selected EXCEPT ![s] = NotSelected]
                /\ told' = [told EXCEPT ![s] = <<>>]
                /\ fresh' = [Gone(s, m) EXCEPT ![s] = {}]
           ELSE /\ fresh' = Gone(s, m)
                /\ UNCHANGED <<selected, told>>
  /\ Proceeds(s)
  /\ UNCHANGED <<folders, name, uidNext, ids, held, left, idle>>

-----------------------------------------------------------------------------
(* COPY and MOVE. *)

BeginFile(s, kind, numbers, n) ==
  /\ Spend /\ Selects(s) /\ Free(s) /\ ~selected[s].read_only
  /\ numbers # {}
  /\ \E f \in Find(n) : Begin(s, kind, Reverse(Targets(s, numbers)), f)

(* require_by_id, relocate_message: the row wherever it is by now, into the *)
(* folder found at the beginning if that still has its name.                *)
Relocates(s, kind) ==
  /\ job[s].kind = kind
  /\ Head(job[s].todo).id \in Live
  /\ name[job[s].to] = job[s].as
  /\ uidNext[job[s].to] <= MaxUid

CopyOne(s) ==
  /\ Relocates(s, "copy")
  /\ \E m \in Message : NewRow(m, job[s].to, row[Head(job[s].todo).id].flags)
  /\ Publish(Announce(job[s].to)) /\ Proceeds(s)
  /\ UNCHANGED <<folders, name, held, left, selected, fresh, told>>

(* What is left when one number after the other is forgotten. *)
Dropping(seq, numbers) ==
  LET after[i \in 0..Len(numbers)] ==
        IF i = 0 THEN seq ELSE Forgets(after[i - 1], numbers[i])
  IN after[Len(numbers)]

(* The numbers are reported from the highest down once all are moved.       *)
Unlist_Upward(s, moved) ==
  LET down == Downward({k \in Numbers(s) : Messages(s)[k].id \in moved})
  IN /\ selected' = [selected EXCEPT ![s].messages = Dropping(@, down)]
     /\ told' = [told EXCEPT ![s] = Dropping(@, Reverse(down))]
Unlist(s, moved) ==
  LET down == Downward({k \in Numbers(s) : Messages(s)[k].id \in moved})
  IN /\ selected' = [selected EXCEPT ![s].messages = Dropping(@, down)]
     /\ told' = [told EXCEPT ![s] = Dropping(@, down)]

MovedRow_SameUid(m, f) == [row EXCEPT ![m].folder = f]
MovedRow_ThenDeleted(m, f) == [row EXCEPT ![m] = NoRow]
MovedRow(m, f) == Place(m, f, row[m].flags)

MoveOne(s) ==
  /\ Relocates(s, "move")
  /\ LET m == Head(job[s].todo).id
     IN /\ row' = MovedRow(m, job[s].to)
        /\ uidNext' = Bumped(job[s].to)
        /\ fresh' = Gone(s, m)
        /\ IF Len(job[s].todo) = 1
           THEN Unlist(s, job[s].done \cup {m}) /\ job' = [job EXCEPT ![s] = NoJob]
           ELSE /\ job' = [job EXCEPT ![s].todo = Tail(@), ![s].done = @ \cup {m}]
                /\ UNCHANGED <<selected, told>>
  /\ Publish(Other)
  /\ UNCHANGED <<folders, name, ids, held, left>>

-----------------------------------------------------------------------------
(* IDLE. Without a mailbox it is accepted too, and nothing is ever pushed.  *)

Idle(s) ==
  /\ s \in Watchers /\ Selects(s) /\ Free(s)
  /\ idle' = [idle EXCEPT ![s] = [NotIdle EXCEPT !.on = TRUE]]
  /\ UNCHANGED <<store, left, selected, fresh, job, told>>

(* refresh_selected: what is listed now, and EXISTS *)
Refresh_CountOnly(s) ==
  /\ told' = [told EXCEPT ![s] = Heard(@, Messages(s))]
  /\ UNCHANGED <<selected, fresh>>
Refresh(s) ==
  LET f == selected[s].folder
  IN /\ selected' = [selected EXCEPT ![s].messages = Listing(f)]
     /\ fresh' = [fresh EXCEPT ![s] = In(f)]
     /\ told' = [told EXCEPT ![s] = Heard(@, Listing(f))]

Push(s) ==
  /\ idle[s].on /\ ~idle[s].lagged /\ idle[s].queue # <<>>
  /\ idle' = [idle EXCEPT ![s].queue = Tail(@)]
  /\ IF Head(idle[s].queue) = selected[s].folder
     THEN Refresh(s)
     ELSE UNCHANGED <<selected, fresh, told>>
  /\ UNCHANGED <<store, left, job>>

(* Lagged: the count of the listing as it was *)
PushLagged(s) ==
  /\ idle[s].on /\ idle[s].lagged
  /\ idle' = [idle EXCEPT ![s].lagged = FALSE]
  /\ told' = [told EXCEPT ![s] = Heard(@, Messages(s))]
  /\ UNCHANGED <<store, left, selected, fresh, job>>

(* DONE, or anything else *)
EndIdle(s) ==
  /\ idle[s].on
  /\ idle' = [idle EXCEPT ![s] = NotIdle]
  /\ UNCHANGED <<store, left, selected, fresh, job, told>>

-----------------------------------------------------------------------------
Folders(s) ==
  \/ \E n \in Name : Create(s, n)
  \/ \E n \in Name : Delete(s, n)
  \/ \E from, to \in Name : Rename(s, from, to)

Opens(s) ==
  \/ Leave(s)
  \/ \E n \in Name, read_only \in BOOLEAN : Select(s, n, read_only)
  \/ Unselect(s)

Works(s) ==
  \/ \E n \in Name : AppendMessage(s, n, {Seen})
  \/ \E k \in Numbers(s), flags \in SUBSET Flag : Store(s, k, flags)
  \/ \E k \in Numbers(s) : Fetch(s, k)
  \/ \E numbers \in SUBSET Numbers(s) : BeginExpunge(s, numbers)
  \/ BeginClose(s)
  \/ \E numbers \in SUBSET Numbers(s), n \in Name : BeginFile(s, "copy", numbers, n)
  \/ \E numbers \in SUBSET Numbers(s), n \in Name : BeginFile(s, "move", numbers, n)

Proceed(s) == ExpungeOne(s) \/ CloseOne(s) \/ CopyOne(s) \/ MoveOne(s)

Idles(s) == Idle(s) \/ Push(s) \/ PushLagged(s) \/ EndIdle(s)

Others ==
  \/ \E f \in Folder, queued \in BOOLEAN : Arrive(f, queued)
  \/ \E m \in Message : Delivered(m)

Next ==
  \/ \E s \in Session :
       Folders(s) \/ Opens(s) \/ Works(s) \/ Proceed(s) \/ Abandon(s) \/ Idles(s)
  \/ Others

(* serve_idle waits for events and for the client at once.                  *)
Spec ==
  /\ Init /\ [][Next]_vars
  /\ \A s \in Session : WF_vars(Push(s)) /\ WF_vars(PushLagged(s))

-----------------------------------------------------------------------------
(* Properties. *)

Listed == [id : Message, uid : 1..MaxUid, flags : SUBSET Flag]

SessionTypes(s) ==
  /\ selected[s].folder \in {NoFolder} \cup 1..folders
  /\ \A k \in Numbers(s) : Messages(s)[k] \in Listed
  /\ fresh[s] \subseteq {Messages(s)[k].id : k \in Numbers(s)}
  /\ told[s] \in Seq(Message)
  /\ Len(idle[s].queue) <= Capacity
  /\ idle[s].on => job[s] = NoJob
  /\ job[s].kind \in {"none", "expunge", "close", "copy", "move"}

(* The tables and sessions hold what they should, and a listing is in the   *)
(* order of UIDs with no message twice, however it was put together.        *)
TypeOK ==
  /\ name \in [Folder -> Name \cup {None}] /\ folders \in Folder
  /\ uidNext \in [Folder -> 1..(MaxUid + 1)]
  /\ \A m \in Message : row[m].folder \in {NoFolder} \cup 1..folders
  /\ \A s \in Session : SessionTypes(s)
  /\ \A s \in Session : \A i, j \in Numbers(s) :
       i < j => Messages(s)[i].uid < Messages(s)[j].uid

(* STORE writes the flags it works out from its listing without reading the *)
(* row: that is sound because as long as the row names the path the listing *)
(* knows, the row is what the listing says.                                 *)
FreshIsTrue ==
  \A s \in Session : \A k \in Numbers(s) :
    LET e == Messages(s)[k]
    IN e.id \in fresh[s] => row[e.id] = [folder |-> selected[s].folder,
                                         uid |-> e.uid, flags |-> e.flags]

(* The mail an active delivery refers to is there, whichever way messages   *)
(* are removed: expunged, with their folder, or moved (reject_active_queue, *)
(* the trigger on messages).                                                *)
QueuedMailKept == held \subseteq Live

(* Two messages of a folder never share a UID, and each is below uid_next.  *)
UidsApart ==
  \A m, n \in Live :
    /\ row[m].uid < uidNext[row[m].folder]
    /\ m # n /\ row[m].folder = row[n].folder => row[m].uid # row[n].uid

(* The mailbox as its sessions know it is the mailbox as it is, as long as  *)
(* the path says so, and every message is found under one UID.              *)
ListingsAreTrue == TypeOK /\ FreshIsTrue /\ UidsApart

(* A client's number names the message the server has at that number.       *)
Agree(s) ==
  /\ Len(told[s]) <= Len(Messages(s))
  /\ \A k \in DOMAIN told[s] : told[s][k] = Messages(s)[k].id

(* All that is listed is still in the folder, and nothing lies unlisted      *)
(* among it. A message is unlisted among others when it came unannounced    *)
(* and the session's own APPEND joined the listing after it.                *)
UpToDate(s) ==
  /\ \A k \in Numbers(s) :
       LET e == Messages(s)[k] IN row[e.id].folder = selected[s].folder /\ row[e.id].uid = e.uid
  /\ \A m \in In(selected[s].folder) : \A k \in Numbers(s) :
       row[m].uid < Messages(s)[k].uid => \E j \in Numbers(s) : Messages(s)[j].id = m

(* The EXPUNGE and MOVE responses renumber as the server does (RFC 3501     *)
(* 7.4.1), in whatever order and over however stale a listing; only an      *)
(* IDLE that re-reads a listing which is not up to date can separate the    *)
(* two: it drops what others removed, or inserts what came unlisted.        *)
RenumberedAlike ==
  [][\A s \in Session :
       Agree(s) /\ (~idle[s].on \/ UpToDate(s)) => Agree(s)']_vars

(* What a client is told is expunged is gone: no message is to be found     *)
(* under the UID it had in that folder.                                     *)
ReportedIsGone ==
  [][\A s \in Session :
       selected[s].folder = selected'[s].folder /\ ~idle[s].on
         => \A k \in Numbers(s) :
              LET e == Messages(s)[k]
              IN e.id \notin {Messages(s)'[i].id : i \in DOMAIN Messages(s)'}
                   => row'[e.id].folder # selected[s].folder \/ row'[e.id].uid # e.uid]_vars

(* An untagged EXPUNGE says what happened, and under the number the client  *)
(* has for it.                                                              *)
ExpungesAreTrue == RenumberedAlike /\ ReportedIsGone

(* A message is destroyed only with its folder, or by the EXPUNGE or CLOSE  *)
(* of a session that has it marked \Deleted; never by moving or reading it. *)
DestroyedWasMarked ==
  [][\A m \in Live : row'[m].folder = NoFolder =>
       \/ name'[row[m].folder] = None
       \/ \E s \in Session :
            /\ job[s].kind \in {"expunge", "close"}
            /\ \E k \in Marked(s) : Messages(s)[k].id = m]_vars

(* A message that another session appends or copies into the folder a       *)
(* client waits on is among those the next EXISTS counts, unless the client *)
(* stops waiting, the message goes again, or the subscriber falls behind.   *)
IdleHears ==
  \A s \in Session : \A m \in Message :
    (/\ idle[s].on /\ selected[s].folder # NoFolder
     /\ row[m].folder = selected[s].folder
     /\ \E i \in DOMAIN idle[s].queue : idle[s].queue[i] = selected[s].folder)
    ~> \/ m \in Range(Ids(Messages(s)))
       \/ ~idle[s].on \/ idle[s].lagged \/ row[m].folder # selected[s].folder
=============================================================================
