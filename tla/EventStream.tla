----------------------------- MODULE EventStream -----------------------------
(***************************************************************************)
(* The event bus (ferroma-events) and the sockets that follow it            *)
(* (GET /api/v1/client/events, ws.rs): a bounded replay ring and a bounded  *)
(* broadcast channel behind one sequence that starts again with the process.*)
(* A client keeps the seq of the last frame it processed, reconnects with   *)
(* it, and falls back to GET /client/sync when told to (docs/fcp.md 8).     *)
(*                                                                         *)
(* An event is named by its place in published; seq counts from the start   *)
(* of the process that published it. A socket's writes are a hand-over: the *)
(* run loop waits until the client has taken the frame.                     *)
(***************************************************************************)
EXTENDS Naturals, SequencesExt, Order

CONSTANTS
  Users, Sockets, UserOf,  \* accounts, client devices and their accounts
  Kinds,                   \* "change": announced after its journal row; "delivery": has none
  HistoryCapacity,         \* EventBusConfig.history_capacity
  ChannelCapacity,         \* slots of the tokio broadcast channel
  MaxEvents,               \* bound: events published
  MaxRestarts,             \* bound: restarts of the server
  MaxDrops,                \* bound: connections lost
  MaxErrors                \* bound: heartbeats whose database lookup fails

ASSUME StreamAssumption == /\ Kinds \subseteq {"change", "delivery"}
                           /\ UserOf \in [Sockets -> Users]
                           /\ {HistoryCapacity, ChannelCapacity} \subseteq Nat \ {0}
                           /\ {MaxEvents, MaxRestarts, MaxDrops, MaxErrors} \subseteq Nat

VARIABLES
  lastSeq,    \* Shared.last_seq
  ring,       \* Shared.history: envelopes, oldest first
  base,       \* events published before this process started
  conn,       \* how far run_socket is
  next,       \* the seq that a socket's broadcast receiver reads next
  oldest,     \* the oldest buffered seq as replay read it, 0 for none
  gap,        \* what replay made of it
  outbox,     \* frames the run loop is waiting to have written
  careful,    \* the devices that sync after every hello, as fcp.md 8 asks: fixed
  revoked,    \* devices.revoked_at is set
  cursor,     \* the client's last processed seq
  owed,       \* the client was told to sync and has not yet
  known,      \* events the client has seen, by frame or by sync
  counts,     \* restarts, drops, errors
  (* History. *)
  published,  \* every event: its user, and whether the change journal has it too
  stale,      \* the client's cursor dates from an earlier process
  seam        \* a replay from a stale cursor, or with the ring moving under it

busVars == <<lastSeq, ring, base, published>>
socketVars == <<conn, next, oldest, gap, outbox>>
clientVars == <<cursor, owed, known, stale, seam>>
streamVars == <<busVars, socketVars, careful, revoked, clientVars, counts>>

Event == [user : Users, kind : Kinds]
Envelope == [seq : Nat, user : Users]
Frame == [type : {"hello", "replay_gap"}] \cup [type : {"event"}, seq : Nat]
Hello == [type |-> "hello"]
Gap == [type |-> "replay_gap"]
Frames(envelopes) ==
  [i \in DOMAIN envelopes |-> [type |-> "event", seq |-> envelopes[i].seq]]

StreamInit ==
  /\ lastSeq = 0
  /\ ring = <<>>
  /\ base = 0
  /\ conn = [s \in Sockets |-> "off"]
  /\ next = [s \in Sockets |-> 1]
  /\ oldest = [s \in Sockets |-> 0]
  /\ gap = [s \in Sockets |-> FALSE]
  /\ outbox = [s \in Sockets |-> <<>>]
  /\ careful \in SUBSET Sockets
  /\ revoked = [s \in Sockets |-> FALSE]
  /\ cursor = [s \in Sockets |-> 0]
  /\ owed = [s \in Sockets |-> FALSE]
  /\ known = [s \in Sockets |-> {}]
  /\ counts = [restarts |-> 0, drops |-> 0, errors |-> 0]
  /\ published = <<>>
  /\ stale = [s \in Sockets |-> FALSE]
  /\ seam = [s \in Sockets |-> FALSE]

Counted(k, max) == counts[k] < max /\ counts' = [counts EXCEPT ![k] = @ + 1]
-----------------------------------------------------------------------------
(* The bus.                                                                 *)

(* Keep the newest HistoryCapacity envelopes. *)
Trimmed_Never(r) == r
Trimmed(r) == IF Len(r) > HistoryCapacity
              THEN SubSeq(r, Len(r) - HistoryCapacity + 1, Len(r)) ELSE r

(* publish_nowait: the number, the ring and the channel under one lock. *)
PublishNowait(u, k) ==
  /\ Len(published) < MaxEvents
  /\ lastSeq' = lastSeq + 1
  /\ ring' = Trimmed(Append(ring, [seq |-> lastSeq', user |-> u]))
  /\ published' = Append(published, [user |-> u, kind |-> k])
  /\ UNCHANGED <<base, socketVars, careful, revoked, clientVars, counts>>

(* replay_since_for *)
ReplayFrom_NewestFirst(after, u) ==
  LET kept == {k \in DOMAIN ring : ring[k].seq > after /\ ring[k].user = u}
  IN [i \in 1..Cardinality(kept) |-> ring[InOrder([k \in kept |-> -k])[i]]]
ReplayFrom(after, u) ==
  LET kept == {k \in DOMAIN ring : ring[k].seq > after /\ ring[k].user = u}
  IN [i \in 1..Cardinality(kept) |-> ring[InOrder([k \in kept |-> k])[i]]]

(* The oldest seq the broadcast channel still holds. *)
ChannelTail == IF lastSeq > ChannelCapacity THEN lastSeq - ChannelCapacity + 1 ELSE 1
-----------------------------------------------------------------------------
(* One socket.                                                              *)

(* events_socket and the first step of run_socket: authenticate, subscribe. *)
Connect_AnyDevice(s) ==
  /\ conn[s] = "off"
  /\ conn' = [conn EXCEPT ![s] = "subscribed"]
  /\ next' = [next EXCEPT ![s] = lastSeq + 1]
  /\ UNCHANGED <<busVars, oldest, gap, outbox, careful, revoked, clientVars, counts>>
Connect(s) ==
  /\ conn[s] = "off"
  /\ ~revoked[s]
  /\ conn' = [conn EXCEPT ![s] = "subscribed"]
  /\ next' = [next EXCEPT ![s] = lastSeq + 1]
  /\ UNCHANGED <<busVars, oldest, gap, outbox, careful, revoked, clientVars, counts>>

(* A socket that is gone, and what its task held with it. *)
Close(S) ==
  /\ conn' = [s \in Sockets |-> IF s \in S THEN "off" ELSE conn[s]]
  /\ next' = [s \in Sockets |-> IF s \in S THEN 1 ELSE next[s]]
  /\ oldest' = [s \in Sockets |-> IF s \in S THEN 0 ELSE oldest[s]]
  /\ gap' = [s \in Sockets |-> gap[s] /\ s \notin S]
  /\ outbox' = [s \in Sockets |-> IF s \in S THEN <<>> ELSE outbox[s]]

(* The run loop does nothing else until its frames are written. *)
Ready(s, place) == conn[s] = place /\ outbox[s] = <<>>

SendHello(s) ==
  /\ Ready(s, "subscribed")
  /\ conn' = [conn EXCEPT ![s] = "greeted"]
  /\ outbox' = [outbox EXCEPT ![s] = <<Hello>>]
  /\ UNCHANGED <<busVars, next, oldest, gap, careful, revoked, clientVars, counts>>

(* Whether something before the oldest buffered seq was missed. *)
Behind_ByOne(c, old) == c + 2 < old
Behind(c, old) == c + 1 < old

(* FrameBuilder::replay takes the bus's lock once for the oldest seq, ...   *)
ReadOldest(s) ==
  /\ Ready(s, "greeted")
  /\ oldest' = [oldest EXCEPT ![s] = IF ring = <<>> THEN 0 ELSE Head(ring).seq]
  /\ gap' = [gap EXCEPT ![s] = Behind(cursor[s], oldest'[s])]
  /\ conn' = [conn EXCEPT ![s] = IF ring = <<>> THEN "empty" ELSE "measured"]
  /\ UNCHANGED <<busVars, next, outbox, careful, revoked, clientVars, counts>>

(* ... again for last_seq when the ring was empty, ...                      *)
ReadLast(s) ==
  /\ conn[s] = "empty"
  /\ gap' = [gap EXCEPT ![s] = 0 < cursor[s] /\ cursor[s] < lastSeq]
  /\ conn' = [conn EXCEPT ![s] = "measured"]
  /\ UNCHANGED <<busVars, next, oldest, outbox, careful, revoked, clientVars, counts>>

(* ... and again for the frames. *)
Replay(s) ==
  /\ conn[s] = "measured"
  /\ outbox' = [outbox EXCEPT ![s] = (IF gap[s] THEN <<Gap>> ELSE <<>>)
                                     \o Frames(ReplayFrom(cursor[s], UserOf[s]))]
  /\ conn' = [conn EXCEPT ![s] = "live"]
  /\ seam' = [seam EXCEPT ![s] = @ \/ stale[s]
                                    \/ (ring # <<>> /\ Head(ring).seq # oldest[s])]
  /\ oldest' = [oldest EXCEPT ![s] = 0]
  /\ gap' = [gap EXCEPT ![s] = FALSE]
  /\ UNCHANGED <<busVars, next, careful, revoked, cursor, owed, known, stale, counts>>

(* Subscription::recv and the arm of the loop it wakes: skip a lag to what  *)
(* the channel still holds and tell the client, else send what matches.     *)
Recv_Swallow(s) ==
  /\ Ready(s, "live")
  /\ next[s] <= lastSeq
  /\ LET lagged == next[s] < ChannelTail
         user == published[base + next[s]].user IN
     /\ next' = [next EXCEPT ![s] = IF lagged THEN ChannelTail ELSE @ + 1]
     /\ outbox' = [outbox EXCEPT ![s] =
          IF lagged \/ user # UserOf[s] THEN <<>> ELSE <<[type |-> "event", seq |-> next[s]]>>]
  /\ UNCHANGED <<busVars, conn, oldest, gap, careful, revoked, clientVars, counts>>
Recv(s) ==
  /\ Ready(s, "live")
  /\ next[s] <= lastSeq
  /\ LET lagged == next[s] < ChannelTail
         user == published[base + next[s]].user IN
     /\ next' = [next EXCEPT ![s] = IF lagged THEN ChannelTail ELSE @ + 1]
     /\ outbox' = [outbox EXCEPT ![s] =
          IF lagged THEN <<Gap>>
          ELSE IF user # UserOf[s] THEN <<>> ELSE <<[type |-> "event", seq |-> next[s]]>>]
  /\ UNCHANGED <<busVars, conn, oldest, gap, careful, revoked, clientVars, counts>>

(* The heartbeat finds the device revoked, or its row gone, and closes. *)
Heartbeat(s) ==
  /\ Ready(s, "live")
  /\ revoked[s]
  /\ Close({s})
  /\ UNCHANGED <<busVars, careful, revoked, clientVars, counts>>

(* The lookup fails: the socket stays, the tick is spent. *)
HeartbeatBlind(s) ==
  /\ Ready(s, "live")
  /\ revoked[s]
  /\ Counted("errors", MaxErrors)
  /\ UNCHANGED <<busVars, socketVars, careful, revoked, clientVars>>
-----------------------------------------------------------------------------
(* The client and its surroundings.                                         *)

(* The client takes one frame. *)
Deliver(s) ==
  /\ outbox[s] # <<>>
  /\ outbox' = [outbox EXCEPT ![s] = Tail(@)]
  /\ LET f == Head(outbox[s]) IN
     /\ owed' = [owed EXCEPT ![s] = @ \/ f = Gap \/ (f = Hello /\ s \in careful)]
     /\ cursor' = [cursor EXCEPT ![s] = IF f.type = "event" THEN f.seq ELSE @]
     /\ stale' = [stale EXCEPT ![s] = @ /\ f.type # "event"]
     /\ known' = [known EXCEPT ![s] = IF f.type = "event" THEN @ \cup {base + f.seq} ELSE @]
  /\ UNCHANGED <<busVars, conn, next, oldest, gap, careful, revoked, seam, counts>>

(* The events of s's account that a sync can tell it about. *)
Journaled(s) ==
  {i \in DOMAIN published : published[i] = [user |-> UserOf[s], kind |-> "change"]}

(* A sync to the end of the journal: each publisher commits its change first. *)
Sync(s) ==
  /\ owed[s]
  /\ ~revoked[s]
  /\ known' = [known EXCEPT ![s] = @ \cup Journaled(s)]
  /\ owed' = [owed EXCEPT ![s] = FALSE]
  /\ seam' = [seam EXCEPT ![s] = FALSE]
  /\ UNCHANGED <<busVars, socketVars, careful, revoked, cursor, stale, counts>>

(* The connection breaks with whatever was not yet taken. *)
Drop(s) ==
  /\ conn[s] # "off"
  /\ Counted("drops", MaxDrops)
  /\ Close({s})
  /\ UNCHANGED <<busVars, careful, revoked, clientVars>>

(* DELETE /client/devices/{id}, or the account's deletion. *)
Revoke(s) ==
  /\ ~revoked[s]
  /\ revoked' = [revoked EXCEPT ![s] = TRUE]
  /\ UNCHANGED <<busVars, socketVars, careful, clientVars, counts>>

(* The process ends and starts: a new bus, numbering from 1. *)
Restart ==
  /\ Counted("restarts", MaxRestarts)
  /\ lastSeq' = 0
  /\ ring' = <<>>
  /\ base' = Len(published)
  /\ Close(Sockets)
  /\ stale' = [s \in Sockets |-> TRUE]
  /\ UNCHANGED <<published, careful, revoked, cursor, owed, known, seam>>

StreamNext ==
  \/ \E u \in Users, k \in Kinds : PublishNowait(u, k)
  \/ \E s \in Sockets :
       \/ Connect(s) \/ SendHello(s) \/ ReadOldest(s) \/ ReadLast(s) \/ Replay(s)
       \/ Recv(s) \/ Heartbeat(s) \/ HeartbeatBlind(s)
       \/ Deliver(s) \/ Sync(s) \/ Drop(s) \/ Revoke(s)
  \/ Restart

(* A connected client reads, reconnects and syncs; the runtime polls each   *)
(* ready arm of the loop in the end (tokio::select! picks at random, so the *)
(* heartbeat is not starved by events: strong fairness).                    *)
Fairness == \A s \in Sockets :
  /\ WF_streamVars(Connect(s)) /\ WF_streamVars(SendHello(s)) /\ WF_streamVars(ReadOldest(s)) /\ WF_streamVars(ReadLast(s))
  /\ WF_streamVars(Replay(s)) /\ WF_streamVars(Recv(s)) /\ SF_streamVars(Heartbeat(s))
  /\ WF_streamVars(Deliver(s)) /\ WF_streamVars(Sync(s))

StreamSpec == StreamInit /\ [][StreamNext]_streamVars /\ Fairness
-----------------------------------------------------------------------------
(* Every variable holds a value of its kind and the ring its bound. *)
StreamTypeOK ==
  /\ lastSeq \in Nat /\ base \in Nat
  /\ ring \in Seq(Envelope) /\ Len(ring) <= HistoryCapacity
  /\ conn \in [Sockets -> {"off", "subscribed", "greeted", "empty", "measured", "live"}]
  /\ next \in [Sockets -> Nat \ {0}] /\ oldest \in [Sockets -> Nat] /\ gap \in [Sockets -> BOOLEAN]
  /\ outbox \in [Sockets -> Seq(Frame)]
  /\ careful \subseteq Sockets /\ revoked \in [Sockets -> BOOLEAN]
  /\ cursor \in [Sockets -> Nat] /\ owed \in [Sockets -> BOOLEAN]
  /\ known \in [Sockets -> SUBSET (Nat \ {0})]
  /\ published \in Seq(Event) /\ {stale, seam} \subseteq [Sockets -> BOOLEAN]

(* The journaled events of s's account that the socket has gone past. *)
Passed(s) == {i \in Journaled(s) : i < base + next[s]}

(* A socket that is up to date with what it has been sent: live, nothing    *)
(* in flight, no sync owed.                                                 *)
Settled(s) == Ready(s, "live") /\ ~owed[s]

(* A client that syncs after every hello and on every replay_gap knows each *)
(* journaled change of its account that its socket has gone past, whatever  *)
(* lag, ring, drop or restart came between (fcp.md 8: the client            *)
(* obligations suffice).                                                    *)
CarefulKnows == \A s \in careful : Settled(s) => Passed(s) \subseteq known[s]

(* A client that trusts cursor and replay_gap alone misses a change without *)
(* being told only at the two seams of ws.rs: its cursor was numbered by an *)
(* earlier process, or the ring moved between the two reads of replay().    *)
SilentLossOnlyAtSeams ==
  \A s \in Sockets : Settled(s) /\ ~seam[s] => Passed(s) \subseteq known[s]

(* A cursor claims nothing the client does not know, so that reconnecting   *)
(* with it skips nothing: the frames of one connection may repeat (replay   *)
(* and live overlap) but never leave a hole behind them.                    *)
CursorClaimsNoMore ==
  \A s \in Sockets : ~owed[s] /\ ~stale[s] /\ ~seam[s] =>
    \A i \in Journaled(s) : base < i /\ i <= base + cursor[s] => i \in known[s]

(* What a client does not know, it knows that it does not know, or it lies  *)
(* at one of the two seams; and its cursor admits as much.                  *)
NothingMissed == StreamTypeOK /\ CarefulKnows /\ SilentLossOnlyAtSeams /\ CursorClaimsNoMore

(* A missed delivery.updated is found by the next sync, as docs/sync.md 10  *)
(* says of a client that lost the frame.                                    *)
DeliveryFoundBySync ==
  \A s \in careful : Settled(s) =>
    \A i \in DOMAIN published : i < base + next[s] /\ published[i].user = UserOf[s] => i \in known[s]

(* Each journaled change reaches every careful client of its account that   *)
(* keeps its device.                                                        *)
EventuallyKnown ==
  \A s \in Sockets : \A i \in 1..MaxEvents :
    (s \in careful /\ i \in Journaled(s)) ~> (i \in known[s] \/ revoked[s])

(* A revoked device's socket is closed, and stays so (ws.rs: "dropped       *)
(* within client.ws_heartbeat_secs"): here, once the client takes its       *)
(* frames and the database answers.                                         *)
RevokedIsClosed == \A s \in Sockets : revoked[s] ~> [](conn[s] = "off")
=============================================================================
