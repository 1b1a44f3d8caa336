------------------------------ MODULE ClientViewProofs ------------------------------
(***************************************************************************)
(* Proofs about what a client sees of a mailbox that others change: the     *)
(* event stream (EventStream) and the IMAP session (ImapSession). Both rest *)
(* on what sorting does (Order).                                            *)
(***************************************************************************)
EXTENDS EventStream, ImapSession, FiniteSetTheorems, SequenceTheorems,
        NaturalsInduction, TLAPS

-----------------------------------------------------------------------------
(* Sorting. Different keys give different places, and every place is taken. *)
Sortable(key) ==
  /\ IsFiniteSet(DOMAIN key)
  /\ \A x \in DOMAIN key : key[x] \in Int
  /\ \A x, y \in DOMAIN key : key[x] = key[y] => x = y

LEMMA BelowGrows ==
  ASSUME NEW key, Sortable(key), NEW x \in DOMAIN key, NEW y \in DOMAIN key, key[x] < key[y]
  PROVE  Below(key, x) < Below(key, y)
<1> DEFINE D == DOMAIN key
           Under(z) == {u \in D : key[u] < key[z]}
<1>1. \A u \in D : key[u] \in Int /\ IsFiniteSet(D)
  BY DEF Sortable
<1>2. Under(x) \subseteq Under(y) /\ x \in Under(y) /\ x \notin Under(x)
  BY <1>1
<1>3. IsFiniteSet(Under(y))
  BY <1>1, FS_Subset
<1>4. /\ IsFiniteSet(Under(x)) /\ Cardinality(Under(x)) <= Cardinality(Under(y))
      /\ Cardinality(Under(y)) = Cardinality(Under(x)) => Under(y) = Under(x)
  BY <1>2, <1>3, FS_Subset
<1>5. Cardinality(Under(x)) \in Nat /\ Cardinality(Under(y)) \in Nat
  BY <1>3, <1>4, FS_CardinalityType
<1>6. Cardinality(Under(x)) # Cardinality(Under(y))
  BY <1>2, <1>4
<1> QED
  BY <1>4, <1>5, <1>6 DEF Below

LEMMA BelowPlaces ==
  ASSUME NEW key, Sortable(key)
  PROVE  /\ Cardinality(DOMAIN key) \in Nat
         /\ \A x \in DOMAIN key : Below(key, x) \in 0..(Cardinality(DOMAIN key) - 1)
         /\ \A x, y \in DOMAIN key : Below(key, x) = Below(key, y) => x = y
<1> DEFINE D == DOMAIN key
           Under(z) == {u \in D : key[u] < key[z]}
<1>1. IsFiniteSet(D) /\ Cardinality(D) \in Nat /\ \A u \in D : key[u] \in Int
  BY FS_CardinalityType DEF Sortable
<1>2. ASSUME NEW x \in D PROVE Below(key, x) \in 0..(Cardinality(D) - 1)
  <2>1. Under(x) \subseteq D /\ x \notin Under(x)
    BY <1>1
  <2>2. /\ IsFiniteSet(Under(x)) /\ Cardinality(Under(x)) <= Cardinality(D)
        /\ Cardinality(D) = Cardinality(Under(x)) => D = Under(x)
    BY <1>1, <2>1, FS_Subset
  <2>3. Cardinality(Under(x)) \in Nat
    BY <2>2, FS_CardinalityType
  <2>4. Cardinality(Under(x)) # Cardinality(D)
    BY <2>1, <2>2
  <2> QED
    BY <1>1, <2>2, <2>3, <2>4 DEF Below
<1>3. ASSUME NEW x \in D, NEW y \in D, Below(key, x) = Below(key, y) PROVE x = y
  <2>1. Below(key, x) \in Int /\ Below(key, y) \in Int
    BY <1>1, <1>2
  <2>2. ~(key[x] < key[y]) /\ ~(key[y] < key[x])
    BY <1>3, <2>1, BelowGrows
  <2>3. key[x] = key[y]
    BY <1>1, <2>2
  <2> QED
    BY <2>3 DEF Sortable
<1> QED
  BY <1>1, <1>2, <1>3

LEMMA BelowOnto ==
  ASSUME NEW key, Sortable(key), NEW k \in 0..(Cardinality(DOMAIN key) - 1)
  PROVE  \E x \in DOMAIN key : Below(key, x) = k
<1> DEFINE D == DOMAIN key
           n == Cardinality(D)
           T == 0..(n - 1)
           f == [x \in D |-> Below(key, x)]
<1>1. IsFiniteSet(D) /\ n \in Nat
  BY FS_CardinalityType DEF Sortable
<1>2. IsFiniteSet(T) /\ Cardinality(T) = n
  <2>1. 0 \in Int /\ n - 1 \in Int
    BY <1>1
  <2>2. IsFiniteSet(T) /\ Cardinality(T) = IF 0 > n - 1 THEN 0 ELSE (n - 1) - 0 + 1
    BY <2>1, FS_Interval
  <2> QED
    BY <1>1, <2>2
<1>3. f \in Injection(D, T)
  <2>1. \A x \in D : Below(key, x) \in T
    BY BelowPlaces
  <2>2. \A x, y \in D : f[x] = f[y] => x = y
    BY BelowPlaces
  <2> QED
    BY <2>1, <2>2 DEF Injection, IsInjective
<1> HIDE DEF f, T, D
<1>4. f \in Surjection(D, T)
  BY <1>1, <1>2, <1>3, FS_Injection
<1>5. k \in T
  BY DEF T, D
<1>6. \E x \in D : f[x] = k
  BY <1>4, <1>5 DEF Surjection
<1> QED
  BY <1>6 DEF f, D

(* The sorted sequence has every element once, in the order of the keys.    *)
LEMMA Sorted ==
  ASSUME NEW key, Sortable(key)
  PROVE  /\ Cardinality(DOMAIN key) \in Nat
         /\ InOrder(key) \in Seq(DOMAIN key) /\ Len(InOrder(key)) = Cardinality(DOMAIN key)
         /\ DOMAIN InOrder(key) = 1..Cardinality(DOMAIN key)
         /\ \A i \in 1..Cardinality(DOMAIN key) : InOrder(key)[i] \in DOMAIN key
         /\ \A x \in DOMAIN key : \E i \in 1..Cardinality(DOMAIN key) : InOrder(key)[i] = x
         /\ \A i, j \in 1..Cardinality(DOMAIN key) :
              i < j => key[InOrder(key)[i]] < key[InOrder(key)[j]]
<1> DEFINE D == DOMAIN key
           n == Cardinality(D)
           o == InOrder(key)
<1>1. /\ n \in Nat
      /\ \A x \in D : Below(key, x) \in 0..(n - 1)
      /\ \A x, y \in D : Below(key, x) = Below(key, y) => x = y
  BY BelowPlaces
<1>2. o = [i \in 1..n |-> CHOOSE x \in D : Below(key, x) = i - 1]
  BY DEF InOrder
<1>3. ASSUME NEW i \in 1..n PROVE o[i] \in D /\ Below(key, o[i]) = i - 1
  <2>1. i - 1 \in 0..(n - 1)
    BY <1>1
  <2>2. \E x \in D : Below(key, x) = i - 1
    BY <2>1, BelowOnto
  <2> QED
    BY <1>2, <2>2
<1>4. ASSUME NEW x \in D PROVE \E i \in 1..n : o[i] = x
  <2>1. Below(key, x) + 1 \in 1..n /\ (Below(key, x) + 1) - 1 = Below(key, x)
    BY <1>1
  <2>2. o[Below(key, x) + 1] \in D /\ Below(key, o[Below(key, x) + 1]) = Below(key, x)
    BY <1>3, <2>1
  <2> QED
    BY <1>1, <2>1, <2>2
<1>5. ASSUME NEW i \in 1..n, NEW j \in 1..n, i < j PROVE key[o[i]] < key[o[j]]
  <2>1. /\ o[i] \in D /\ o[j] \in D
        /\ Below(key, o[i]) = i - 1 /\ Below(key, o[j]) = j - 1
    BY <1>3
  <2> HIDE DEF o
  <2>2. Below(key, o[i]) < Below(key, o[j])
    BY <1>1, <1>5, <2>1
  <2>3. key[o[i]] \in Int /\ key[o[j]] \in Int
    BY <2>1 DEF Sortable
  <2>4. ~(key[o[j]] < key[o[i]])
    <3>1. SUFFICES ASSUME key[o[j]] < key[o[i]] PROVE FALSE
      OBVIOUS
    <3>2. Below(key, o[j]) < Below(key, o[i])
      BY <2>1, <3>1, BelowGrows
    <3> QED
      BY <1>1, <2>1, <2>2, <3>2
  <2>5. key[o[i]] # key[o[j]]
    <3>1. SUFFICES ASSUME key[o[i]] = key[o[j]] PROVE FALSE
      OBVIOUS
    <3>2. o[i] = o[j]
      BY <2>1, <3>1 DEF Sortable
    <3> QED
      BY <1>1, <2>2, <2>1, <3>2
  <2> QED
    BY <2>3, <2>4, <2>5
<1>6. o \in [1..n -> D]
  BY <1>2, <1>3
<1>7. o \in Seq(D) /\ Len(o) = n /\ DOMAIN o = 1..n
  BY <1>1, <1>6
<1> QED
  BY <1>1, <1>3, <1>4, <1>5, <1>7
-----------------------------------------------------------------------------
(* The sequence of the bus counts what this process published, and the ring *)
(* is the newest stretch of it.                                             *)
Bus ==
  /\ base + lastSeq = Len(published)
  /\ Len(ring) <= lastSeq
  /\ lastSeq > 0 => Len(ring) > 0
  /\ \A k \in DOMAIN ring : /\ ring[k].seq = lastSeq - Len(ring) + k
                            /\ ring[k].user = published[base + ring[k].seq].user

IsEvent(f) == f.type = "event"
Events(s) == {k \in DOMAIN outbox[s] : IsEvent(outbox[s][k])}
NoGap(s) == \A k \in DOMAIN outbox[s] : outbox[s][k] # Gap

(* What may be in flight: a hello, or frames of events in the order of their *)
(* seq, behind the gap frame if there is one.                                *)
Flight(s) ==
  /\ conn[s] \in {"off", "subscribed", "empty", "measured"} => outbox[s] = <<>>
  /\ conn[s] = "greeted" => outbox[s] \in {<<>>, <<Hello>>}
  /\ conn[s] = "live" => \A k \in DOMAIN outbox[s] :
                           IsEvent(outbox[s][k]) \/ (k = 1 /\ outbox[s][k] = Gap)
  /\ \A k \in Events(s) : outbox[s][k].seq \in 1..lastSeq
  /\ \A j, k \in Events(s) : j < k => outbox[s][j].seq < outbox[s][k].seq

(* How far a socket and its client's cursor are, and what the gap frame of a *)
(* replay under way is decided by.                                           *)
Places(s) ==
  /\ conn[s] # "off" => next[s] <= lastSeq + 1
  /\ ~stale[s] => cursor[s] <= lastSeq
  /\ conn[s] = "empty" => oldest[s] = 0
  /\ conn[s] = "measured" /\ oldest[s] # 0 => gap[s] = Behind(cursor[s], oldest[s])

Coming(s, i) == \E k \in Events(s) : base + outbox[s][k].seq = i
Trusting(s) == ~owed[s] /\ ~seam[s]

(* A live socket without a gap in flight: what it has gone past or is about  *)
(* to send of this process's events is known, or in flight.                  *)
LiveTells(s) ==
  conn[s] = "live" /\ NoGap(s) /\ Trusting(s) =>
    \A i \in Journaled(s) :
      base < i /\ (i < base + next[s] \/ \E k \in Events(s) : i <= base + outbox[s][k].seq)
        => i \in known[s] \/ Coming(s, i)

(* Up to the cursor, all of this process's events are known.                 *)
CursorTells(s) ==
  Trusting(s) /\ ~stale[s] =>
    \A i \in Journaled(s) : base < i /\ i <= base + cursor[s] => i \in known[s]

(* With a cursor of this process, or live again, what earlier processes      *)
(* published is known, unless the replay was one from a stale cursor.        *)
EarlierTold(s) ==
  ~seam[s] /\ (~stale[s] \/ conn[s] = "live") => \A i \in Journaled(s) : i <= base => i \in known[s]

(* A careful client that was greeted has synced since, or still owes it.     *)
Greeted(s) == conn[s] \in {"empty", "measured", "live"} \/ (conn[s] = "greeted" /\ outbox[s] = <<>>)
CarefulTold(s) ==
  s \in careful /\ Greeted(s) /\ ~owed[s] /\ NoGap(s) =>
    \A i \in Journaled(s) : i < base + next[s] => i \in known[s] \/ Coming(s, i)

Socket(s) == /\ Flight(s) /\ Places(s) /\ LiveTells(s)
             /\ CursorTells(s) /\ EarlierTold(s) /\ CarefulTold(s)

StreamInv == Bus /\ \A s \in Sockets : Socket(s)

(* What replay hands over: the kept envelopes of the ring, in its order.    *)
LEMMA ReplayKeeps ==
  ASSUME StreamTypeOK, Bus, NEW after \in Nat, NEW u \in Users
  PROVE  LET frames == ReplayFrom(after, u)
         IN /\ frames \in Seq(Envelope)
            /\ \A i \in DOMAIN frames : \E k \in DOMAIN ring : frames[i] = ring[k] /\ ring[k].seq > after
            /\ \A k \in DOMAIN ring : ring[k].seq > after /\ ring[k].user = u
                 => \E i \in DOMAIN frames : frames[i] = ring[k]
            /\ \A i, j \in DOMAIN frames : i < j => frames[i].seq < frames[j].seq
<1> DEFINE kept == {k \in DOMAIN ring : ring[k].seq > after /\ ring[k].user = u}
           key == [k \in kept |-> k]
           n == Cardinality(kept)
           frames == [i \in 1..n |-> ring[InOrder(key)[i]]]
<1>1. ring \in Seq(Envelope) /\ lastSeq \in Nat /\ Len(ring) \in Nat /\ DOMAIN ring = 1..Len(ring)
  BY DEF StreamTypeOK
<1>2. ReplayFrom(after, u) = frames
  BY DEF ReplayFrom
<1>3. DOMAIN key = kept /\ kept \subseteq 1..Len(ring)
  BY <1>1
<1>4. Sortable(key)
  <2>1. IsFiniteSet(1..Len(ring))
    BY <1>1, FS_Interval
  <2>2. IsFiniteSet(kept)
    BY <1>3, <2>1, FS_Subset
  <2> QED
    BY <1>1, <1>3, <2>2 DEF Sortable
<1> HIDE DEF kept, key, frames
<1>5. /\ n \in Nat
      /\ \A i \in 1..n : InOrder(key)[i] \in kept
      /\ \A x \in kept : \E i \in 1..n : InOrder(key)[i] = x
      /\ \A i, j \in 1..n : i < j => key[InOrder(key)[i]] < key[InOrder(key)[j]]
  BY <1>3, <1>4, Sorted
<1>6. /\ DOMAIN frames = 1..n
      /\ \A i \in 1..n : frames[i] = ring[InOrder(key)[i]] /\ InOrder(key)[i] \in DOMAIN ring
                         /\ ring[InOrder(key)[i]].seq > after
  BY <1>5 DEF frames, kept
<1>7. frames \in Seq(Envelope)
  <2>1. frames \in [1..n -> Envelope]
    BY <1>1, <1>5, <1>6 DEF frames
  <2> QED
    BY <1>5, <2>1
<1>8. \A i, j \in 1..n : i < j => frames[i].seq < frames[j].seq
  <2> SUFFICES ASSUME NEW i \in 1..n, NEW j \in 1..n, i < j PROVE frames[i].seq < frames[j].seq
    OBVIOUS
  <2>1. InOrder(key)[i] \in kept /\ InOrder(key)[j] \in kept /\ key[InOrder(key)[i]] < key[InOrder(key)[j]]
    BY <1>5
  <2>2. InOrder(key)[i] < InOrder(key)[j]
    BY <2>1 DEF key
  <2>3. /\ ring[InOrder(key)[i]].seq = lastSeq - Len(ring) + InOrder(key)[i]
        /\ ring[InOrder(key)[j]].seq = lastSeq - Len(ring) + InOrder(key)[j]
    BY <1>6 DEF Bus
  <2>4. InOrder(key)[i] \in Nat /\ InOrder(key)[j] \in Nat
    BY <1>1, <1>6
  <2> QED
    BY <1>1, <1>6, <2>2, <2>3, <2>4
<1>9. \A k \in DOMAIN ring : ring[k].seq > after /\ ring[k].user = u => \E i \in 1..n : frames[i] = ring[k]
  <2> SUFFICES ASSUME NEW k \in DOMAIN ring, ring[k].seq > after, ring[k].user = u
               PROVE  \E i \in 1..n : frames[i] = ring[k]
    OBVIOUS
  <2>1. k \in kept
    BY DEF kept
  <2>2. PICK i \in 1..n : InOrder(key)[i] = k
    BY <1>5, <2>1
  <2> QED
    BY <1>6, <2>2
<1> QED
  BY <1>2, <1>6, <1>7, <1>8, <1>9

LEMMA TrimmedRing ==
  ASSUME NEW r \in Seq(Envelope), NEW m \in Nat, Len(r) <= m + 1
  PROVE  /\ Trimmed(r) \in Seq(Envelope) /\ Len(Trimmed(r)) <= HistoryCapacity
         /\ Len(Trimmed(r)) <= Len(r) /\ (Len(r) > 0 => Len(Trimmed(r)) > 0)
         /\ \A k \in DOMAIN Trimmed(r) : /\ k + Len(r) - Len(Trimmed(r)) \in DOMAIN r
                                         /\ Trimmed(r)[k] = r[k + Len(r) - Len(Trimmed(r))]
<1>1. HistoryCapacity \in Nat /\ HistoryCapacity # 0
  BY StreamAssumption DEF StreamAssumption
<1>2. CASE Len(r) <= HistoryCapacity
  BY <1>1, <1>2 DEF Trimmed
<1>3. CASE Len(r) > HistoryCapacity
  <2> DEFINE a == Len(r) - HistoryCapacity + 1
             t == SubSeq(r, a, Len(r))
  <2>1. a \in 1..Len(r) /\ Len(r) \in Nat
    BY <1>1, <1>3
  <2>2. t \in Seq(Envelope) /\ Len(t) = HistoryCapacity
    BY <1>1, <1>3, <2>1
  <2>3. \A k \in 1..HistoryCapacity : t[k] = r[a + k - 1]
    BY <1>1, <1>3, <2>1
  <2>4. Trimmed(r) = t
    BY <1>3 DEF Trimmed
  <2> HIDE DEF t
  <2>5. \A k \in 1..HistoryCapacity : a + k - 1 = k + Len(r) - HistoryCapacity
                                      /\ k + Len(r) - HistoryCapacity \in 1..Len(r)
    BY <1>1, <1>3, <2>1
  <2>6. DOMAIN t = 1..HistoryCapacity
    BY <1>1, <2>2
  <2>7. \A k \in DOMAIN t : k + Len(r) - Len(t) \in DOMAIN r /\ t[k] = r[k + Len(r) - Len(t)]
    BY <2>2, <2>3, <2>5, <2>6
  <2> QED
    BY <1>1, <1>3, <2>2, <2>4, <2>7
<1> QED
  BY <1>1, <1>2, <1>3

LEMMA CloseTypes ==
  ASSUME StreamTypeOK, NEW S, Close(S)
  PROVE  /\ conn' \in [Sockets -> {"off", "subscribed", "greeted", "empty", "measured", "live"}]
         /\ next' \in [Sockets -> Nat \ {0}] /\ oldest' \in [Sockets -> Nat]
         /\ gap' \in [Sockets -> BOOLEAN] /\ outbox' \in [Sockets -> Seq(Frame)]
<1>1. <<>> \in Seq(Frame)
  OBVIOUS
<1>2. outbox' \in [Sockets -> Seq(Frame)]
  BY <1>1 DEF StreamTypeOK, Close
<1>3. gap' \in [Sockets -> BOOLEAN]
  BY DEF StreamTypeOK, Close
<1> QED
  BY <1>2, <1>3 DEF StreamTypeOK, Close

LEMMA EventFrames ==
  /\ Hello \in Frame /\ Gap \in Frame /\ Hello # Gap /\ ~IsEvent(Hello) /\ ~IsEvent(Gap)
  /\ \A n \in Nat : [type |-> "event", seq |-> n] \in Frame /\ IsEvent([type |-> "event", seq |-> n])
BY DEF Hello, Gap, Frame, IsEvent

LEMMA FrameIsEvent ==
  ASSUME NEW f \in Frame, IsEvent(f)
  PROVE  f.seq \in Nat /\ f = [type |-> "event", seq |-> f.seq] /\ f # Gap /\ f # Hello
BY DEF Frame, IsEvent, Gap, Hello

(* The frames that replay hands over. *)
LEMMA ReplayFrames ==
  ASSUME StreamTypeOK, Bus, NEW s \in Sockets
  PROVE  LET frames == Frames(ReplayFrom(cursor[s], UserOf[s]))
         IN /\ frames \in Seq(Frame)
            /\ \A i \in DOMAIN frames : IsEvent(frames[i]) /\ frames[i].seq \in 1..lastSeq
            /\ \A k \in DOMAIN ring : ring[k].seq > cursor[s] /\ ring[k].user = UserOf[s]
                 => \E i \in DOMAIN frames : frames[i].seq = ring[k].seq
            /\ \A i, j \in DOMAIN frames : i < j => frames[i].seq < frames[j].seq
<1> DEFINE r == ReplayFrom(cursor[s], UserOf[s])
           frames == Frames(r)
<1>1. cursor[s] \in Nat /\ UserOf[s] \in Users
  BY StreamAssumption DEF StreamTypeOK, StreamAssumption
<1>2. /\ r \in Seq(Envelope)
      /\ \A i \in DOMAIN r : \E k \in DOMAIN ring : r[i] = ring[k] /\ ring[k].seq > cursor[s]
      /\ \A k \in DOMAIN ring : ring[k].seq > cursor[s] /\ ring[k].user = UserOf[s]
           => \E i \in DOMAIN r : r[i] = ring[k]
      /\ \A i, j \in DOMAIN r : i < j => r[i].seq < r[j].seq
  BY <1>1, ReplayKeeps
<1>3. ring \in Seq(Envelope) /\ lastSeq \in Nat
  BY DEF StreamTypeOK
<1> HIDE DEF r
<1>4. DOMAIN frames = DOMAIN r /\ \A i \in DOMAIN r : frames[i] = [type |-> "event", seq |-> r[i].seq]
  BY DEF Frames
<1>5. \A i \in DOMAIN r : r[i].seq \in 1..lastSeq
  <2> SUFFICES ASSUME NEW i \in DOMAIN r PROVE r[i].seq \in 1..lastSeq
    OBVIOUS
  <2>1. PICK k \in DOMAIN ring : r[i] = ring[k] /\ ring[k].seq > cursor[s]
    BY <1>2
  <2>2. ring[k].seq = lastSeq - Len(ring) + k /\ k \in 1..Len(ring) /\ Len(ring) <= lastSeq
    BY <1>3 DEF Bus
  <2> QED
    BY <1>3, <2>1, <2>2
<1>6. frames \in Seq(Frame)
  <2>1. frames = [i \in 1..Len(r) |-> [type |-> "event", seq |-> r[i].seq]]
    BY <1>2 DEF Frames
  <2>2. \A i \in 1..Len(r) : [type |-> "event", seq |-> r[i].seq] \in Frame
    BY <1>2, <1>3, <1>5, EventFrames
  <2>3. Len(r) \in Nat
    BY <1>2
  <2> HIDE DEF frames
  <2>4. frames \in [1..Len(r) -> Frame]
    BY <2>1, <2>2
  <2> QED
    BY <2>3, <2>4
<1>7. \A i \in DOMAIN frames : IsEvent(frames[i]) /\ frames[i].seq = r[i].seq
  BY <1>4 DEF IsEvent
<1> HIDE DEF frames
<1>8. \A i \in DOMAIN frames : IsEvent(frames[i]) /\ frames[i].seq \in 1..lastSeq
  BY <1>4, <1>5, <1>7
<1>9. \A k \in DOMAIN ring : ring[k].seq > cursor[s] /\ ring[k].user = UserOf[s]
         => \E i \in DOMAIN frames : frames[i].seq = ring[k].seq
  BY <1>2, <1>4, <1>7
<1>10. \A i, j \in DOMAIN frames : i < j => frames[i].seq < frames[j].seq
  BY <1>2, <1>4, <1>7
<1> QED
  BY <1>6, <1>8, <1>9, <1>10 DEF frames, r

LEMMA InitStreamTypes == StreamInit => StreamTypeOK
<1> SUFFICES ASSUME StreamInit PROVE StreamTypeOK
  OBVIOUS
<1>1. HistoryCapacity \in Nat
  BY StreamAssumption DEF StreamAssumption
<1>2. <<>> \in Seq(Envelope) /\ <<>> \in Seq(Frame) /\ <<>> \in Seq(Event) /\ Len(<<>>) = 0
  OBVIOUS
<1> QED
  BY <1>1, <1>2 DEF StreamInit, StreamTypeOK

LEMMA StreamTypesStep ==
  ASSUME StreamTypeOK, StreamInv, [StreamNext]_streamVars
  PROVE  StreamTypeOK'
<1>0. Bus
  BY DEF StreamInv
<1> USE DEF busVars, socketVars, clientVars
<1>1. ASSUME NEW u \in Users, NEW k \in Kinds, PublishNowait(u, k) PROVE StreamTypeOK'
  <2> DEFINE e == [seq |-> lastSeq + 1, user |-> u]
             r == Append(ring, e)
  <2>1. e \in Envelope /\ [user |-> u, kind |-> k] \in Event
    BY DEF StreamTypeOK, Envelope, Event
  <2>2. r \in Seq(Envelope) /\ Len(r) <= Len(ring) + 1 /\ Len(ring) \in Nat
    BY <2>1 DEF StreamTypeOK
  <2> HIDE DEF e, r
  <2>3. Trimmed(r) \in Seq(Envelope) /\ Len(Trimmed(r)) <= HistoryCapacity
    BY <2>2, TrimmedRing
  <2>4. ring' = Trimmed(r) /\ lastSeq' = lastSeq + 1
    BY <1>1 DEF PublishNowait, r, e
  <2>5. published' \in Seq(Event)
    BY <1>1, <2>1 DEF PublishNowait, StreamTypeOK
  <2> QED
    BY <1>1, <2>3, <2>4, <2>5 DEF PublishNowait, StreamTypeOK
<1>2. ASSUME NEW s \in Sockets, Connect(s) \/ SendHello(s) \/ ReadOldest(s) \/ ReadLast(s) PROVE StreamTypeOK'
  <2>1. CASE Connect(s)
    BY <2>1 DEF Connect, StreamTypeOK
  <2>2. CASE SendHello(s)
    <3>1. <<Hello>> \in Seq(Frame)
      BY EventFrames
    <3> QED
      BY <2>2, <3>1 DEF SendHello, StreamTypeOK
  <2>3. CASE ReadOldest(s)
    <3>1. (IF ring = <<>> THEN 0 ELSE Head(ring).seq) \in Nat
      <4>1. ring \in Seq(Envelope)
        BY DEF StreamTypeOK
      <4>2. ring # <<>> => Head(ring) \in Envelope
        BY <4>1
      <4> QED
        BY <4>2 DEF Envelope
    <3>2. oldest' \in [Sockets -> Nat]
      BY <2>3, <3>1 DEF ReadOldest, StreamTypeOK
    <3>3. gap' \in [Sockets -> BOOLEAN]
      BY <2>3 DEF ReadOldest, StreamTypeOK, Behind
    <3> QED
      BY <2>3, <3>2, <3>3 DEF ReadOldest, StreamTypeOK
  <2>4. CASE ReadLast(s)
    BY <2>4 DEF ReadLast, StreamTypeOK
  <2> QED
    BY <1>2, <2>1, <2>2, <2>3, <2>4
<1>3. ASSUME NEW s \in Sockets, Replay(s) PROVE StreamTypeOK'
  <2> DEFINE frames == Frames(ReplayFrom(cursor[s], UserOf[s]))
             head == IF gap[s] THEN <<Gap>> ELSE <<>>
  <2>1. frames \in Seq(Frame)
    BY <1>0, ReplayFrames
  <2>2. head \in Seq(Frame)
    BY EventFrames
  <2> HIDE DEF frames, head
  <2>3. head \o frames \in Seq(Frame)
    BY <2>1, <2>2
  <2>4. outbox' = [outbox EXCEPT ![s] = head \o frames]
    BY <1>3 DEF Replay, head, frames
  <2>5. outbox' \in [Sockets -> Seq(Frame)]
    BY <2>3, <2>4 DEF StreamTypeOK
  <2>6. seam' \in [Sockets -> BOOLEAN]
    BY <1>3 DEF Replay, StreamTypeOK
  <2> QED
    BY <1>3, <2>5, <2>6 DEF Replay, StreamTypeOK
<1>4. ASSUME NEW s \in Sockets, Recv(s) PROVE StreamTypeOK'
  <2>1. next[s] \in Nat \ {0} /\ lastSeq \in Nat
    BY DEF StreamTypeOK
  <2>2. ChannelTail \in Nat \ {0}
    BY <2>1, StreamAssumption DEF ChannelTail, StreamAssumption
  <2>3. next' \in [Sockets -> Nat \ {0}]
    BY <1>4, <2>1, <2>2 DEF Recv, StreamTypeOK
  <2>4. outbox' \in [Sockets -> Seq(Frame)]
    <3>1. /\ <<Gap>> \in Seq(Frame) /\ <<>> \in Seq(Frame)
          /\ <<[type |-> "event", seq |-> next[s]]>> \in Seq(Frame)
      BY <2>1, EventFrames
    <3> QED
      BY <1>4, <3>1 DEF Recv, StreamTypeOK
  <2> QED
    BY <1>4, <2>3, <2>4 DEF Recv, StreamTypeOK
<1>5. ASSUME NEW s \in Sockets, Deliver(s) PROVE StreamTypeOK'
  <2> DEFINE f == Head(outbox[s])
  <2>1. f \in Frame /\ outbox[s] \in Seq(Frame) /\ outbox[s] # <<>>
    BY <1>5 DEF Deliver, StreamTypeOK
  <2>2. Tail(outbox[s]) \in Seq(Frame)
    BY <2>1
  <2>3. f.type = "event" => f.seq \in Nat /\ base + f.seq \in Nat \ {0}
    <3>1. SUFFICES ASSUME f.type = "event" PROVE f.seq \in Nat /\ base + f.seq \in Nat \ {0}
      OBVIOUS
    <3>2. 1 \in Events(s) /\ f = outbox[s][1]
      BY <2>1, <3>1 DEF Events, IsEvent
    <3>3. f.seq \in 1..lastSeq
      BY <3>2 DEF StreamInv, Socket, Flight
    <3>4. base \in Nat /\ lastSeq \in Nat
      BY DEF StreamTypeOK
    <3> HIDE DEF f
    <3> QED
      BY <3>3, <3>4
  <2>4. owed' \in [Sockets -> BOOLEAN] /\ stale' \in [Sockets -> BOOLEAN]
    BY <1>5 DEF Deliver, StreamTypeOK
  <2>5. cursor' \in [Sockets -> Nat] /\ known' \in [Sockets -> SUBSET (Nat \ {0})]
    BY <1>5, <2>3 DEF Deliver, StreamTypeOK
  <2>6. outbox' \in [Sockets -> Seq(Frame)]
    BY <1>5, <2>2 DEF Deliver, StreamTypeOK
  <2> QED
    BY <1>5, <2>4, <2>5, <2>6 DEF Deliver, StreamTypeOK
<1>6. ASSUME NEW s \in Sockets, Heartbeat(s) \/ HeartbeatBlind(s) \/ Drop(s) \/ Revoke(s) PROVE StreamTypeOK'
  <2>1. CASE Heartbeat(s) \/ Drop(s)
    <3>1. Close({s})
      BY <2>1 DEF Heartbeat, Drop
    <3>2. UNCHANGED <<busVars, careful, revoked, clientVars>>
      BY <2>1 DEF Heartbeat, Drop
    <3> QED
      BY <3>1, <3>2, CloseTypes DEF StreamTypeOK
  <2>2. CASE HeartbeatBlind(s)
    BY <2>2 DEF HeartbeatBlind, StreamTypeOK
  <2>3. CASE Revoke(s)
    BY <2>3 DEF Revoke, StreamTypeOK
  <2> QED
    BY <1>6, <2>1, <2>2, <2>3
<1>7. ASSUME NEW s \in Sockets, Sync(s) PROVE StreamTypeOK'
  <2>1. Journaled(s) \subseteq Nat \ {0}
    BY DEF Journaled, StreamTypeOK
  <2>2. known' \in [Sockets -> SUBSET (Nat \ {0})]
    BY <1>7, <2>1 DEF Sync, StreamTypeOK
  <2> QED
    BY <1>7, <2>2 DEF Sync, StreamTypeOK
<1>8. CASE Restart
  <2>1. Close(Sockets) /\ UNCHANGED <<published, careful, revoked, cursor, owed, known, seam>>
    BY <1>8 DEF Restart
  <2>2. base' \in Nat /\ lastSeq' \in Nat /\ ring' = <<>> /\ stale' \in [Sockets -> BOOLEAN]
    BY <1>8 DEF Restart, StreamTypeOK
  <2>3. ring' \in Seq(Envelope) /\ Len(ring') <= HistoryCapacity
    BY <2>2, StreamAssumption DEF StreamAssumption
  <2> QED
    BY <2>1, <2>2, <2>3, CloseTypes DEF StreamTypeOK
<1>9. CASE UNCHANGED streamVars
  BY <1>9 DEF streamVars, StreamTypeOK
<1> QED
  BY <1>1, <1>2, <1>3, <1>4, <1>5, <1>6, <1>7, <1>8, <1>9 DEF StreamNext

LEMMA BusStep ==
  ASSUME StreamTypeOK, Bus, [StreamNext]_streamVars
  PROVE  Bus'
<1>1. ASSUME NEW u \in Users, NEW kind \in Kinds, PublishNowait(u, kind) PROVE Bus'
  <2> DEFINE e == [seq |-> lastSeq + 1, user |-> u]
             r == Append(ring, e)
             p == [user |-> u, kind |-> kind]
  <2>1. e \in Envelope /\ p \in Event
    BY DEF StreamTypeOK, Envelope, Event
  <2>2. /\ ring \in Seq(Envelope) /\ published \in Seq(Event)
        /\ lastSeq \in Nat /\ base \in Nat /\ Len(ring) \in Nat /\ Len(published) \in Nat
    BY DEF StreamTypeOK
  <2>0. base + lastSeq = Len(published) /\ Len(ring) <= lastSeq
    BY DEF Bus
  <2>3. /\ r \in Seq(Envelope) /\ Len(r) = Len(ring) + 1
        /\ \A j \in 1..Len(ring) : r[j] = ring[j]
        /\ r[Len(ring) + 1] = e
    BY <2>1, <2>2
  <2>4. /\ ring' = Trimmed(r) /\ lastSeq' = lastSeq + 1 /\ base' = base
        /\ published' = Append(published, p)
    BY <1>1 DEF PublishNowait, busVars
  <2>5. e.seq = lastSeq + 1 /\ e.user = u /\ p.user = u
    OBVIOUS
  <2> HIDE DEF e, r, p
  <2>6. /\ ring' \in Seq(Envelope) /\ Len(ring') <= Len(r) /\ (Len(r) > 0 => Len(ring') > 0)
        /\ \A k \in DOMAIN ring' : k + Len(r) - Len(ring') \in DOMAIN r
                                   /\ ring'[k] = r[k + Len(r) - Len(ring')]
    BY <2>2, <2>3, <2>4, TrimmedRing
  <2>7. Len(ring') \in Nat /\ DOMAIN ring' = 1..Len(ring')
    BY <2>6
  <2>8. /\ Len(published') = Len(published) + 1
        /\ \A i \in 1..Len(published) : published'[i] = published[i]
        /\ published'[Len(published) + 1] = p
    BY <2>1, <2>2, <2>4
  <2>9. ASSUME NEW k \in DOMAIN ring'
        PROVE  /\ ring'[k].seq = lastSeq' - Len(ring') + k
               /\ ring'[k].user = published'[base' + ring'[k].seq].user
    <3> DEFINE j == k + Len(r) - Len(ring')
    <3>1. j \in 1..(Len(ring) + 1) /\ ring'[k] = r[j] /\ k \in Nat
      BY <2>3, <2>6, <2>7
    <3>2. lastSeq' - Len(ring') + k = lastSeq - Len(ring) + j
      BY <2>2, <2>3, <2>4, <2>7, <3>1
    <3> HIDE DEF j
    <3>3. CASE j <= Len(ring)
      <4>1. j \in DOMAIN ring /\ ring'[k] = ring[j]
        BY <2>2, <2>3, <3>1, <3>3
      <4>2. ring[j].seq = lastSeq - Len(ring) + j /\ ring[j].user = published[base + ring[j].seq].user
        BY <4>1 DEF Bus
      <4>3. base + ring[j].seq \in 1..Len(published)
        BY <2>2, <3>1, <3>3, <4>2 DEF Bus
      <4> QED
        BY <2>4, <2>8, <3>2, <4>1, <4>2, <4>3
    <3>4. CASE j > Len(ring)
      <4>1. j = Len(ring) + 1 /\ ring'[k] = e
        BY <2>2, <2>3, <3>1, <3>4
      <4>2. ring'[k].seq = lastSeq + 1 /\ base' + ring'[k].seq = Len(published) + 1
        <5>1. ring'[k].seq = lastSeq + 1 /\ base' = base
          BY <2>4, <2>5, <4>1
        <5>2. base + (lastSeq + 1) = Len(published) + 1
          BY <2>0, <2>2
        <5> QED
          BY <5>1, <5>2
      <4>3. lastSeq' - Len(ring') + k = lastSeq + 1
        BY <2>2, <3>2, <4>1
      <4> QED
        BY <2>5, <2>8, <4>1, <4>2, <4>3
    <3> QED
      BY <2>2, <3>1, <3>3, <3>4
  <2>10. base' + lastSeq' = Len(published') /\ Len(ring') <= lastSeq' /\ Len(ring') > 0
    BY <2>0, <2>2, <2>3, <2>4, <2>6, <2>7, <2>8
  <2> QED
    BY <2>9, <2>10 DEF Bus
<1>2. CASE Restart
  <2>1. lastSeq' = 0 /\ ring' = <<>> /\ base' = Len(published) /\ published' = published
    BY <1>2 DEF Restart
  <2>2. Len(published) \in Nat /\ Len(<<>>) = 0 /\ DOMAIN <<>> = {}
    BY DEF StreamTypeOK
  <2> QED
    BY <2>1, <2>2 DEF Bus
<1>3. CASE UNCHANGED busVars
  BY <1>3 DEF busVars, Bus
<1> QED
  BY <1>1, <1>2, <1>3
     DEF StreamNext, Connect, SendHello, ReadOldest, ReadLast, Replay, Recv, Heartbeat, HeartbeatBlind,
         Deliver, Sync, Drop, Revoke, streamVars

(* A step that leaves a socket, its client and the bus alone. *)
LEMMA SocketStays ==
  ASSUME NEW s \in Sockets, Socket(s), UNCHANGED <<busVars, careful>>,
         conn'[s] = conn[s], next'[s] = next[s], oldest'[s] = oldest[s], gap'[s] = gap[s],
         outbox'[s] = outbox[s], cursor'[s] = cursor[s], owed'[s] = owed[s], known'[s] = known[s],
         stale'[s] = stale[s], seam'[s] = seam[s]
  PROVE  Socket(s)'
<1>1. Journaled(s)' = Journaled(s) /\ base' = base /\ lastSeq' = lastSeq /\ careful' = careful
  BY DEF Journaled, busVars
<1>2. Events(s)' = Events(s) /\ NoGap(s)' = NoGap(s)
  BY DEF Events, NoGap
<1>3. Flight(s)' /\ Places(s)'
  BY <1>1, <1>2 DEF Socket, Flight, Places
<1>4. \A i : Coming(s, i)' = Coming(s, i)
  BY <1>1, <1>2 DEF Coming
<1>5. LiveTells(s)'
  BY <1>1, <1>2, <1>4 DEF Socket, LiveTells, Trusting
<1>6. CursorTells(s)' /\ EarlierTold(s)'
  BY <1>1 DEF Socket, CursorTells, EarlierTold, Trusting
<1>7. CarefulTold(s)'
  BY <1>1, <1>2, <1>4 DEF Socket, CarefulTold, Greeted
<1> QED
  BY <1>3, <1>5, <1>6, <1>7 DEF Socket

(* A new event is beyond everything a socket claims.                        *)
LEMMA SocketPublish ==
  ASSUME StreamTypeOK, Bus, NEW s \in Sockets, Socket(s), NEW u \in Users, NEW kind \in Kinds, PublishNowait(u, kind)
  PROVE  Socket(s)'
<1>1. /\ lastSeq' = lastSeq + 1 /\ base' = base
      /\ UNCHANGED <<conn, next, oldest, gap, outbox, careful, cursor, owed, known, stale, seam>>
  BY DEF PublishNowait, socketVars, clientVars
<1>2. /\ lastSeq \in Nat /\ base \in Nat /\ Len(published) \in Nat /\ next[s] \in Nat /\ cursor[s] \in Nat
      /\ base + lastSeq = Len(published) /\ published \in Seq(Event) /\ outbox[s] \in Seq(Frame)
  BY DEF StreamTypeOK, Bus
<1>3. ASSUME NEW i \in Journaled(s)', i \notin Journaled(s) PROVE i = base + lastSeq + 1
  <2>1. published' = Append(published, [user |-> u, kind |-> kind])
    BY DEF PublishNowait
  <2>2. i \in 1..(Len(published) + 1) /\ (i \in 1..Len(published) => published'[i] = published[i])
    BY <1>2, <1>3, <2>1 DEF Journaled
  <2>3. i \notin 1..Len(published)
    BY <1>2, <1>3, <2>2 DEF Journaled
  <2> QED
    BY <1>2, <2>2, <2>3
<1>4. Events(s)' = Events(s) /\ NoGap(s)' = NoGap(s)
  BY <1>1 DEF Events, NoGap
<1>5. \A i : Coming(s, i)' = Coming(s, i)
  BY <1>1, <1>4 DEF Coming
<1>6. \A k \in Events(s) : outbox[s][k].seq \in 1..lastSeq
  BY DEF Socket, Flight
<1>7. Flight(s)'
  <2>1. \A k \in Events(s) : outbox[s][k].seq \in 1..(lastSeq + 1)
    BY <1>2, <1>6
  <2> QED
    BY <1>1, <1>4, <2>1 DEF Socket, Flight
<1>8. Places(s)'
  BY <1>1, <1>2 DEF Socket, Places
<1>9. LiveTells(s)'
  <2> SUFFICES ASSUME conn[s] = "live", NoGap(s), Trusting(s), NEW i \in Journaled(s)', base < i,
                      i < base + next[s] \/ \E k \in Events(s) : i <= base + outbox[s][k].seq
               PROVE  i \in known[s] \/ Coming(s, i)
    BY <1>1, <1>4, <1>5 DEF LiveTells, Trusting
  <2>1. next[s] <= lastSeq + 1
    BY DEF Socket, Places
  <2>2. i # base + lastSeq + 1
    BY SMTT(30), <1>2, <1>6, <2>1
  <2>3. i \in Journaled(s)
    BY <1>3, <2>2
  <2> QED
    BY <2>3 DEF Socket, LiveTells
<1>10. CursorTells(s)'
  <2> SUFFICES ASSUME Trusting(s), ~stale[s], NEW i \in Journaled(s)', base < i, i <= base + cursor[s]
               PROVE  i \in known[s]
    BY <1>1 DEF CursorTells, Trusting
  <2>1. cursor[s] <= lastSeq
    BY DEF Socket, Places
  <2>2. i \in Journaled(s)
    BY <1>2, <1>3, <2>1
  <2> QED
    BY <2>2 DEF Socket, CursorTells
<1>11. EarlierTold(s)'
  <2> SUFFICES ASSUME ~seam[s], ~stale[s] \/ conn[s] = "live", NEW i \in Journaled(s)', i <= base
               PROVE  i \in known[s]
    BY <1>1 DEF EarlierTold
  <2>1. i \in Journaled(s)
    BY <1>2, <1>3
  <2> QED
    BY <2>1 DEF Socket, EarlierTold
<1>12. CarefulTold(s)'
  <2> SUFFICES ASSUME s \in careful, Greeted(s), ~owed[s], NoGap(s), NEW i \in Journaled(s)', i < base + next[s]
               PROVE  i \in known[s] \/ Coming(s, i)
    BY <1>1, <1>4, <1>5 DEF CarefulTold, Greeted
  <2>1. next[s] <= lastSeq + 1
    BY DEF Socket, Places, Greeted
  <2>2. i \in Journaled(s)
    BY <1>2, <1>3, <2>1
  <2> QED
    BY <2>2 DEF Socket, CarefulTold
<1> QED
  BY <1>7, <1>8, <1>9, <1>10, <1>11, <1>12 DEF Socket

(* Before a socket is live again it says nothing of events.                 *)
LEMMA SocketOpens ==
  ASSUME StreamTypeOK, NEW s \in Sockets, Socket(s), Connect(s) \/ SendHello(s) \/ ReadOldest(s) \/ ReadLast(s)
  PROVE  Socket(s)'
<1>1. /\ UNCHANGED <<busVars, careful, clientVars>> /\ conn'[s] # "live"
      /\ lastSeq' = lastSeq /\ base' = base /\ cursor' = cursor /\ stale' = stale
      /\ owed' = owed /\ seam' = seam /\ known' = known /\ careful' = careful
  BY DEF Connect, SendHello, ReadOldest, ReadLast, busVars, clientVars, StreamTypeOK
<1>2. Journaled(s)' = Journaled(s)
  BY <1>1 DEF Journaled, busVars
<1>3. lastSeq \in Nat
  BY DEF StreamTypeOK
<1>4. Flight(s)' /\ Places(s)' /\ (Greeted(s)' => Greeted(s) /\ outbox'[s] = outbox[s] /\ next'[s] = next[s])
  <2>1. CASE Connect(s)
    <3>1. conn'[s] = "subscribed" /\ outbox'[s] = <<>> /\ next'[s] = lastSeq + 1
      BY <2>1 DEF Connect, StreamTypeOK, Socket, Flight
    <3> QED
      BY <1>1, <1>3, <3>1 DEF Socket, Flight, Places, Events, Greeted
  <2>2. CASE SendHello(s)
    <3>1. conn'[s] = "greeted" /\ outbox'[s] = <<Hello>> /\ next' = next
      BY <2>2 DEF SendHello, StreamTypeOK
    <3>2. conn[s] = "subscribed"
      BY <2>2 DEF SendHello, Ready
    <3>3. Events(s)' = {}
      BY <3>1, EventFrames DEF Events
    <3> QED
      BY <1>1, <3>1, <3>2, <3>3 DEF Socket, Flight, Places, Greeted
  <2>3. CASE ReadOldest(s)
    <3>1. conn[s] = "greeted" /\ outbox[s] = <<>> /\ outbox'[s] = <<>> /\ next' = next
      BY <2>3 DEF ReadOldest, Ready
    <3>2. \/ conn'[s] = "empty" /\ oldest'[s] = 0
          \/ conn'[s] = "measured" /\ gap'[s] = Behind(cursor[s], oldest'[s])
      BY <2>3 DEF ReadOldest, StreamTypeOK
    <3>3. Events(s)' = {}
      BY <3>1 DEF Events
    <3> QED
      BY <1>1, <3>1, <3>2, <3>3 DEF Socket, Flight, Places, Greeted
  <2>4. CASE ReadLast(s)
    <3>1. conn[s] = "empty" /\ conn'[s] = "measured" /\ oldest' = oldest /\ next' = next /\ outbox' = outbox
      BY <2>4 DEF ReadLast, StreamTypeOK
    <3>2. oldest'[s] = 0 /\ outbox[s] = <<>> /\ Events(s)' = {}
      BY <3>1 DEF Socket, Places, Flight, Events
    <3> QED
      BY <1>1, <3>1, <3>2 DEF Socket, Flight, Places, Greeted
  <2> QED
    BY <2>1, <2>2, <2>3, <2>4
<1>5. LiveTells(s)' /\ CursorTells(s)' /\ EarlierTold(s)'
  BY <1>1, <1>2 DEF Socket, LiveTells, CursorTells, EarlierTold, Trusting
<1>6. CarefulTold(s)'
  <2> SUFFICES ASSUME s \in careful, Greeted(s)', ~owed[s], NoGap(s)', NEW i \in Journaled(s), i < base + next'[s]
               PROVE  i \in known[s] \/ Coming(s, i)'
    BY <1>1, <1>2 DEF CarefulTold
  <2>1. Greeted(s) /\ outbox'[s] = outbox[s] /\ next'[s] = next[s]
    BY <1>4
  <2>2. NoGap(s) /\ Coming(s, i)' = Coming(s, i)
    BY <1>1, <2>1 DEF NoGap, Coming, Events
  <2> QED
    BY <2>1, <2>2 DEF Socket, CarefulTold
<1> QED
  BY <1>4, <1>5, <1>6 DEF Socket

(* The replay hands over all that the cursor does not claim, or its gap is   *)
(* announced, or it is one of the two seams.                                *)
LEMMA SocketReplays ==
  ASSUME StreamTypeOK, Bus, NEW s \in Sockets, Socket(s), Replay(s)
  PROVE  Socket(s)'
<1> DEFINE frames == Frames(ReplayFrom(cursor[s], UserOf[s]))
           head == IF gap[s] THEN <<Gap>> ELSE <<>>
           n == Len(head)
<1>1. /\ UNCHANGED <<busVars, careful, next, cursor, owed, known, stale>>
      /\ lastSeq' = lastSeq /\ base' = base /\ published' = published /\ ring' = ring
      /\ conn[s] = "measured" /\ conn'[s] = "live"
      /\ seam'[s] = (seam[s] \/ stale[s] \/ (ring # <<>> /\ Head(ring).seq # oldest[s]))
  BY DEF Replay, busVars, StreamTypeOK
<1>2. outbox'[s] = head \o frames
  BY DEF Replay, StreamTypeOK
<1>3. /\ frames \in Seq(Frame)
      /\ \A i \in DOMAIN frames : IsEvent(frames[i]) /\ frames[i].seq \in 1..lastSeq
      /\ \A k \in DOMAIN ring : ring[k].seq > cursor[s] /\ ring[k].user = UserOf[s]
           => \E i \in DOMAIN frames : frames[i].seq = ring[k].seq
      /\ \A i, j \in DOMAIN frames : i < j => frames[i].seq < frames[j].seq
  BY ReplayFrames
<1>4. /\ n \in Nat /\ head \in Seq(Frame) /\ (gap[s] => n = 1 /\ head[1] = Gap) /\ (~gap[s] => n = 0)
  BY EventFrames
<1>5. Journaled(s)' = Journaled(s)
  BY <1>1 DEF Journaled
<1>6. /\ lastSeq \in Nat /\ base \in Nat /\ cursor[s] \in Nat /\ next[s] \in Nat /\ oldest[s] \in Nat
      /\ ring \in Seq(Envelope) /\ published \in Seq(Event) /\ base + lastSeq = Len(published)
      /\ outbox[s] = <<>>
  BY <1>1 DEF StreamTypeOK, Bus, Socket, Flight
<1> HIDE DEF frames, head
<1>7. /\ DOMAIN outbox'[s] = 1..(n + Len(frames)) /\ Len(frames) \in Nat /\ DOMAIN frames = 1..Len(frames)
      /\ \A k \in 1..n : outbox'[s][k] = head[k]
      /\ \A k \in 1..Len(frames) : outbox'[s][n + k] = frames[k]
  BY <1>2, <1>3, <1>4
<1>8. \A k \in DOMAIN outbox'[s] : (k \in 1..n) \/ (k - n \in 1..Len(frames) /\ outbox'[s][k] = frames[k - n])
  <2> SUFFICES ASSUME NEW k \in 1..(n + Len(frames)), k \notin 1..n
               PROVE  k - n \in 1..Len(frames) /\ outbox'[s][k] = frames[k - n]
    BY <1>7
  <2>1. k - n \in 1..Len(frames) /\ n + (k - n) = k
    BY <1>4, <1>7
  <2> QED
    BY <1>7, <2>1
<1>9. \A k \in 1..n : k = 1 /\ outbox'[s][k] = Gap
  BY <1>4, <1>7
<1>10. \A k \in Events(s)' : k - n \in 1..Len(frames) /\ outbox'[s][k] = frames[k - n] /\ k \in Nat
  BY <1>7, <1>8, <1>9, EventFrames DEF Events
<1>11. Flight(s)'
  <2>1. \A k \in DOMAIN outbox'[s] : IsEvent(outbox'[s][k]) \/ (k = 1 /\ outbox'[s][k] = Gap)
    BY <1>3, <1>7, <1>8, <1>9
  <2>2. \A k \in Events(s)' : outbox'[s][k].seq \in 1..lastSeq
    BY <1>3, <1>7, <1>10
  <2>3. \A j, k \in Events(s)' : j < k => outbox'[s][j].seq < outbox'[s][k].seq
    <3> SUFFICES ASSUME NEW j \in Events(s)', NEW k \in Events(s)', j < k
                 PROVE  outbox'[s][j].seq < outbox'[s][k].seq
      OBVIOUS
    <3>1. j - n < k - n /\ j - n \in DOMAIN frames /\ k - n \in DOMAIN frames
      BY <1>4, <1>7, <1>10
    <3> QED
      BY <1>3, <1>10, <3>1
  <2> QED
    BY <1>1, <2>1, <2>2, <2>3 DEF Flight
<1>12. Places(s)'
  BY <1>1, <1>6 DEF Places, Socket
<1>13. ~seam'[s] => ~seam[s] /\ ~stale[s] /\ (ring # <<>> => Head(ring).seq = oldest[s])
  BY <1>1
<1>14. LiveTells(s)'
  <2> SUFFICES ASSUME NoGap(s)', ~owed[s], ~seam'[s], NEW i \in Journaled(s), base < i, i \notin known[s]
               PROVE  Coming(s, i)'
    BY <1>1, <1>5 DEF LiveTells, Trusting
  <2>1. ~gap[s]
    <3>1. SUFFICES ASSUME gap[s] PROVE FALSE
      OBVIOUS
    <3>2. n = 1 /\ head[1] = Gap
      BY <1>4, <3>1
    <3>3. 1 \in 1..n /\ 1 \in 1..(n + Len(frames))
      BY <1>7, <3>2
    <3>4. 1 \in DOMAIN outbox'[s] /\ outbox'[s][1] = Gap
      BY <1>7, <3>2, <3>3
    <3> QED
      BY <3>4 DEF NoGap
  <2>2. i \in 1..Len(published) /\ published[i].user = UserOf[s]
    BY <1>6 DEF Journaled
  <2> DEFINE q == i - base
  <2>3. q \in 1..lastSeq /\ base + q = i
    BY <1>6, <2>2
  <2>4. q > cursor[s]
    <3>1. ~(i <= base + cursor[s])
      BY <1>13 DEF Socket, CursorTells, Trusting
    <3> QED
      BY <1>6, <2>3, <3>1
  <2> HIDE DEF q
  <2>5. Len(ring) \in Nat /\ Len(ring) > 0 /\ Len(ring) <= lastSeq /\ DOMAIN ring = 1..Len(ring)
    BY <1>6, <2>3 DEF Bus
  <2>6. ring # <<>> /\ Head(ring) = ring[1]
    BY <1>6, <2>5
  <2>7. ring[1].seq = lastSeq - Len(ring) + 1
    BY <2>5 DEF Bus
  <2>8. oldest[s] = lastSeq - Len(ring) + 1 /\ oldest[s] # 0
    BY <1>6, <1>13, <2>5, <2>6, <2>7
  <2>9. ~(cursor[s] + 1 < oldest[s])
    BY <1>1, <2>1, <2>8 DEF Socket, Places, Behind
  <2> DEFINE k == q - (lastSeq - Len(ring))
  <2>10. k \in DOMAIN ring /\ lastSeq - Len(ring) + k = q
    <3>1. cursor[s] \in Nat /\ lastSeq \in Nat
      BY <1>6
    <3>2. q > cursor[s] /\ q \in Int /\ q <= lastSeq
      BY <1>6, <2>3, <2>4
    <3>3. ~(cursor[s] + 1 < lastSeq - Len(ring) + 1)
      BY <2>8, <2>9
    <3>4. lastSeq - Len(ring) < q
      BY <2>5, <3>1, <3>2, <3>3
    <3> QED
      BY <2>5, <3>1, <3>2, <3>4
  <2> HIDE DEF k
  <2>11. ring[k].seq = q /\ ring[k].user = published[i].user
    BY <2>3, <2>10 DEF Bus
  <2>12. PICK j \in DOMAIN frames : frames[j].seq = q
    BY <1>3, <2>2, <2>4, <2>10, <2>11
  <2>13. j \in 1..Len(frames) /\ outbox'[s][n + j] = frames[j] /\ n + j \in DOMAIN outbox'[s]
    BY <1>4, <1>7
  <2>14. IsEvent(outbox'[s][n + j]) /\ base + outbox'[s][n + j].seq = i
    BY <1>3, <2>3, <2>12, <2>13
  <2>15. n + j \in Events(s)'
    BY <2>13, <2>14 DEF Events
  <2> QED
    BY <1>1, <2>14, <2>15 DEF Coming
<1>15. CursorTells(s)' /\ EarlierTold(s)'
  BY <1>1, <1>5, <1>13 DEF Socket, CursorTells, EarlierTold, Trusting
<1>16. CarefulTold(s)'
  <2>1. NoGap(s) /\ ~(\E i : Coming(s, i))
    BY <1>6 DEF NoGap, Coming, Events
  <2>2. Greeted(s)
    BY <1>1 DEF Greeted
  <2> QED
    BY <1>1, <1>5, <2>1, <2>2 DEF Socket, CarefulTold
<1> QED
  BY <1>11, <1>12, <1>14, <1>15, <1>16 DEF Socket

LEMMA SocketReceives ==
  ASSUME StreamTypeOK, Bus, NEW s \in Sockets, Socket(s), Recv(s)
  PROVE  Socket(s)'
<1> DEFINE e == [type |-> "event", seq |-> next[s]]
           user == published[base + next[s]].user
<1>1. /\ UNCHANGED <<busVars, conn, oldest, gap, careful, cursor, owed, known, stale, seam>>
      /\ lastSeq' = lastSeq /\ base' = base /\ published' = published
      /\ conn[s] = "live" /\ outbox[s] = <<>> /\ next[s] <= lastSeq
  BY DEF Recv, Ready, busVars, clientVars
<1>2. Journaled(s)' = Journaled(s)
  BY <1>1 DEF Journaled
<1>3. /\ lastSeq \in Nat /\ base \in Nat /\ next[s] \in Nat \ {0}
      /\ published \in Seq(Event) /\ base + lastSeq = Len(published)
  BY DEF StreamTypeOK, Bus
<1>4. NoGap(s) /\ Events(s) = {} /\ ~(\E i : Coming(s, i)) /\ Greeted(s)
  BY <1>1 DEF NoGap, Coming, Events, Greeted
<1>5. CASE next[s] < ChannelTail
  <2>1. next'[s] = ChannelTail /\ outbox'[s] = <<Gap>>
    BY <1>5 DEF Recv, StreamTypeOK
  <2>2. ChannelTail <= lastSeq + 1
    BY <1>3, StreamAssumption DEF ChannelTail, StreamAssumption
  <2>3. Events(s)' = {} /\ ~NoGap(s)'
    BY <2>1, EventFrames DEF Events, NoGap
  <2> QED
    BY <1>1, <1>2, <2>1, <2>2, <2>3
       DEF Socket, Flight, Places, LiveTells, CursorTells, EarlierTold, CarefulTold, Trusting
<1>6. CASE ~(next[s] < ChannelTail)
  <2>1. next'[s] = next[s] + 1 /\ outbox'[s] = IF user # UserOf[s] THEN <<>> ELSE <<e>>
    BY <1>6 DEF Recv, StreamTypeOK
  <2>2. IsEvent(e) /\ e.seq = next[s]
    BY DEF IsEvent
  <2>3. /\ \A k \in DOMAIN outbox'[s] : k = 1 /\ outbox'[s][k] = e
        /\ user = UserOf[s] => 1 \in DOMAIN outbox'[s]
    BY <2>1
  <2> HIDE DEF e
  <2>4. \A k \in Events(s)' : k = 1 /\ outbox'[s][k].seq = next[s]
    BY <2>2, <2>3 DEF Events
  <2>5. Flight(s)'
    BY <1>1, <1>3, <2>2, <2>3, <2>4 DEF Flight
  <2>6. Places(s)'
    BY <1>1, <1>3, <2>1 DEF Socket, Places
  <2>7. ASSUME NEW i \in Journaled(s), i = base + next[s] PROVE Coming(s, i)'
    <3>1. user = UserOf[s]
      BY <2>7 DEF Journaled
    <3>2. 1 \in Events(s)' /\ outbox'[s][1].seq = next[s]
      BY <2>2, <2>3, <3>1 DEF Events
    <3> QED
      BY <1>1, <2>7, <3>2 DEF Coming
  <2>8. LiveTells(s)'
    <3> SUFFICES ASSUME Trusting(s), NEW i \in Journaled(s), base < i,
                        i < base + (next[s] + 1) \/ \E k \in Events(s)' : i <= base + outbox'[s][k].seq
                 PROVE  i \in known[s] \/ Coming(s, i)'
      BY <1>1, <1>2, <2>1 DEF LiveTells, Trusting
    <3>1. i \in Nat
      BY <1>3 DEF Journaled
    <3>2. i < base + next[s] \/ i = base + next[s]
      <4>1. i < base + (next[s] + 1) \/ i <= base + next[s]
        BY <2>4
      <4>2. base \in Nat /\ next[s] \in Nat
        BY <1>3
      <4> QED
        BY <3>1, <4>1, <4>2
    <3>3. CASE i < base + next[s]
      BY <1>1, <1>4, <3>3 DEF Socket, LiveTells
    <3>4. CASE i = base + next[s]
      BY <2>7, <3>4
    <3> QED
      BY <3>2, <3>3, <3>4
  <2>9. CursorTells(s)' /\ EarlierTold(s)'
    BY <1>1, <1>2 DEF Socket, CursorTells, EarlierTold, Trusting
  <2>10. CarefulTold(s)'
    <3> SUFFICES ASSUME s \in careful, ~owed[s], NEW i \in Journaled(s), i < base + (next[s] + 1)
                 PROVE  i \in known[s] \/ Coming(s, i)'
      BY <1>1, <1>2, <2>1 DEF CarefulTold
    <3>1. i \in Nat
      BY <1>3 DEF Journaled
    <3>2. i < base + next[s] \/ i = base + next[s]
      BY <1>3, <3>1
    <3>3. CASE i < base + next[s]
      BY <1>4, <3>3 DEF Socket, CarefulTold
    <3>4. CASE i = base + next[s]
      BY <2>7, <3>4
    <3> QED
      BY <3>2, <3>3, <3>4
  <2> QED
    BY <2>5, <2>6, <2>8, <2>9, <2>10 DEF Socket
<1> QED
  BY <1>5, <1>6

(* A socket that closes keeps what its client knows. *)
LEMMA SocketCloses ==
  ASSUME StreamTypeOK, NEW s \in Sockets, Socket(s), UNCHANGED <<busVars, careful, clientVars>>,
         NEW S, s \in S, Close(S)
  PROVE  Socket(s)'
<1>1. /\ conn'[s] = "off" /\ outbox'[s] = <<>>
      /\ lastSeq' = lastSeq /\ base' = base /\ published' = published
      /\ cursor' = cursor /\ owed' = owed /\ known' = known /\ stale' = stale /\ seam' = seam
  BY DEF Close, busVars, clientVars
<1>2. Events(s)' = {} /\ Journaled(s)' = Journaled(s) /\ ~Greeted(s)'
  BY <1>1 DEF Events, Journaled, Greeted
<1> QED
  BY <1>1, <1>2 DEF Socket, Flight, Places, LiveTells, CursorTells, EarlierTold, CarefulTold, Trusting

LEMMA SocketSyncs ==
  ASSUME StreamTypeOK, NEW s \in Sockets, Socket(s), Sync(s)
  PROVE  Socket(s)'
<1>1. /\ UNCHANGED <<busVars, socketVars, careful, cursor, stale>>
      /\ lastSeq' = lastSeq /\ base' = base /\ published' = published
      /\ conn' = conn /\ outbox' = outbox /\ next' = next /\ oldest' = oldest /\ gap' = gap
      /\ known'[s] = known[s] \cup Journaled(s)
  BY DEF Sync, busVars, socketVars, StreamTypeOK
<1>2. Journaled(s)' = Journaled(s) /\ Events(s)' = Events(s)
  BY <1>1 DEF Journaled, Events
<1> QED
  BY <1>1, <1>2 DEF Socket, Flight, Places, LiveTells, CursorTells, EarlierTold, CarefulTold

LEMMA SocketRestarts ==
  ASSUME StreamTypeOK, NEW s \in Sockets, Restart
  PROVE  Socket(s)'
<1>1. conn'[s] = "off" /\ outbox'[s] = <<>> /\ stale'[s]
  BY DEF Restart, Close
<1>2. Events(s)' = {} /\ ~Greeted(s)'
  BY <1>1 DEF Events, Greeted
<1> QED
  BY <1>1, <1>2 DEF Socket, Flight, Places, LiveTells, CursorTells, EarlierTold, CarefulTold

(* The frame that is taken is the first of those in flight. *)
LEMMA Taken ==
  ASSUME NEW q \in Seq(Frame), q # <<>>
  PROVE  /\ Head(q) = q[1] /\ 1 \in DOMAIN q /\ Head(q) \in Frame /\ Tail(q) \in Seq(Frame)
         /\ \A k \in DOMAIN Tail(q) : k \in Nat \ {0} /\ k + 1 \in DOMAIN q /\ Tail(q)[k] = q[k + 1]
         /\ \A k \in DOMAIN q : k = 1 \/ (k - 1 \in DOMAIN Tail(q) /\ Tail(q)[k - 1] = q[k])
<1>1. Len(q) \in Nat /\ Len(q) > 0 /\ DOMAIN q = 1..Len(q)
  OBVIOUS
<1>2. Tail(q) \in Seq(Frame) /\ Len(Tail(q)) = Len(q) - 1 /\ DOMAIN Tail(q) = 1..(Len(q) - 1)
  BY <1>1
<1>3. \A k \in 1..(Len(q) - 1) : Tail(q)[k] = q[k + 1]
  BY <1>1, <1>2
<1>4. \A k \in 1..(Len(q) - 1) : k \in Nat \ {0} /\ k + 1 \in 1..Len(q)
  BY <1>1
<1>5. ASSUME NEW k \in 1..Len(q), k # 1 PROVE k - 1 \in 1..(Len(q) - 1) /\ Tail(q)[k - 1] = q[k]
  <2>1. k - 1 \in 1..(Len(q) - 1) /\ (k - 1) + 1 = k
    BY <1>1, <1>5
  <2> QED
    BY <1>3, <2>1
<1> QED
  BY <1>1, <1>2, <1>3, <1>4, <1>5

(* A frame that is taken becomes knowledge: the cursor moves over nothing    *)
(* that was not told before it.                                             *)
LEMMA SocketDelivers ==
  ASSUME StreamTypeOK, Bus, NEW s \in Sockets, Socket(s), Deliver(s)
  PROVE  Socket(s)'
<1> DEFINE f == Head(outbox[s])
           q == outbox[s]
           t == Tail(outbox[s])
<1>1. /\ q \in Seq(Frame) /\ q # <<>>
      /\ UNCHANGED <<busVars, conn, next, oldest, gap, careful, seam>>
      /\ lastSeq' = lastSeq /\ base' = base /\ published' = published
      /\ outbox'[s] = t
      /\ owed'[s] = (owed[s] \/ f = Gap \/ (f = Hello /\ s \in careful))
      /\ cursor'[s] = (IF f.type = "event" THEN f.seq ELSE cursor[s])
      /\ stale'[s] = (stale[s] /\ f.type # "event")
      /\ known'[s] = (IF f.type = "event" THEN known[s] \cup {base + f.seq} ELSE known[s])
  BY DEF Deliver, StreamTypeOK, busVars
<1>2. Journaled(s)' = Journaled(s) /\ Greeted(s)' = (Greeted(s) \/ (conn[s] = "greeted" /\ t = <<>>))
  BY <1>1 DEF Journaled, Greeted
<1>3. conn[s] \in {"greeted", "live"}
  BY <1>1 DEF Socket, Flight, StreamTypeOK
<1>4. /\ f = q[1] /\ 1 \in DOMAIN q /\ f \in Frame /\ t \in Seq(Frame)
      /\ \A k \in DOMAIN t : k \in Nat \ {0} /\ k + 1 \in DOMAIN q /\ t[k] = q[k + 1]
      /\ \A k \in DOMAIN q : k = 1 \/ (k - 1 \in DOMAIN t /\ t[k - 1] = q[k])
  BY <1>1, Taken
<1>5. /\ lastSeq \in Nat /\ base \in Nat /\ next[s] \in Nat /\ published \in Seq(Event)
  BY DEF StreamTypeOK
<1>6. CASE conn[s] = "greeted"
  <2>1. q = <<Hello>>
    BY <1>1, <1>6 DEF Socket, Flight
  <2>2. f = Hello /\ t = <<>> /\ f.type # "event" /\ f # Gap
    BY <2>1, EventFrames DEF Hello, Gap
  <2>3. /\ cursor'[s] = cursor[s] /\ stale'[s] = stale[s] /\ known'[s] = known[s] /\ outbox'[s] = <<>>
        /\ owed'[s] = (owed[s] \/ s \in careful) /\ seam' = seam /\ conn' = conn /\ careful' = careful
        /\ next' = next /\ oldest' = oldest /\ gap' = gap
    BY <1>1, <2>2 DEF StreamTypeOK
  <2>4. Events(s)' = {}
    BY <2>3 DEF Events
  <2>5. Flight(s)' /\ Places(s)'
    BY <1>1, <1>6, <2>3, <2>4 DEF Socket, Flight, Places
  <2>6. LiveTells(s)' /\ CursorTells(s)' /\ EarlierTold(s)' /\ CarefulTold(s)'
    BY <1>1, <1>2, <1>6, <2>3 DEF Socket, LiveTells, CursorTells, EarlierTold, CarefulTold, Trusting
  <2> QED
    BY <2>5, <2>6 DEF Socket
<1>7. CASE conn[s] = "live"
  <2>1. /\ conn'[s] = "live" /\ Greeted(s) /\ Greeted(s)' /\ next' = next /\ seam' = seam /\ careful' = careful
        /\ oldest' = oldest /\ gap' = gap
    BY <1>1, <1>2, <1>7 DEF Greeted
  <2>2. IsEvent(f) \/ f = Gap
    BY <1>4, <1>7 DEF Socket, Flight
  <2>3. /\ \A k \in Events(s)' : k \in Nat \ {0} /\ k + 1 \in Events(s) /\ outbox'[s][k] = q[k + 1]
        /\ \A k \in Events(s) : k = 1 \/ (k - 1 \in Events(s)' /\ outbox'[s][k - 1] = q[k])
    BY <1>1, <1>4 DEF Events
  <2>4. \A k \in DOMAIN t : IsEvent(t[k])
    <3> SUFFICES ASSUME NEW k \in DOMAIN t PROVE IsEvent(t[k])
      OBVIOUS
    <3>1. k \in Nat \ {0} /\ k + 1 \in DOMAIN q /\ t[k] = q[k + 1]
      BY <1>4
    <3>2. k + 1 # 1
      BY <3>1
    <3> QED
      BY <1>7, <3>1, <3>2 DEF Socket, Flight
  <2>5. /\ \A k \in Events(s) : q[k].seq \in 1..lastSeq
        /\ \A j, k \in Events(s) : j < k => q[j].seq < q[k].seq
    BY DEF Socket, Flight
  <2> HIDE DEF f, q, t
  <2>6. Flight(s)'
    <3>1. \A k \in Events(s)' : outbox'[s][k].seq \in 1..lastSeq
      BY <2>3, <2>5
    <3>2. ASSUME NEW j \in Events(s)', NEW k \in Events(s)', j < k
          PROVE  outbox'[s][j].seq < outbox'[s][k].seq
      <4>1. /\ j \in Nat /\ k \in Nat /\ j + 1 \in Events(s) /\ k + 1 \in Events(s)
            /\ outbox'[s][j] = q[j + 1] /\ outbox'[s][k] = q[k + 1]
        BY <2>3
      <4>2. j + 1 < k + 1
        BY <3>2, <4>1
      <4> QED
        BY <2>5, <4>1, <4>2
    <3>3. \A k \in DOMAIN outbox'[s] : IsEvent(outbox'[s][k])
      BY <1>1, <2>4
    <3> QED
      BY <1>1, <2>1, <3>1, <3>2, <3>3 DEF Flight
  <2>7. CASE f = Gap
    <3>1. owed'[s] /\ cursor'[s] = cursor[s] /\ stale'[s] = stale[s] /\ known'[s] = known[s]
      BY <1>1, <2>7, EventFrames DEF IsEvent, StreamTypeOK
    <3>2. Places(s)'
      BY <1>1, <2>1, <3>1 DEF Socket, Places
    <3>3. EarlierTold(s)'
      BY <1>1, <1>2, <2>1, <3>1 DEF Socket, EarlierTold
    <3> QED
      BY <2>6, <3>1, <3>2, <3>3 DEF Socket, LiveTells, CursorTells, CarefulTold, Trusting
  <2>8. CASE IsEvent(f)
    <3>1. /\ owed'[s] = owed[s] /\ cursor'[s] = f.seq /\ ~stale'[s] /\ known'[s] = known[s] \cup {base + f.seq}
      BY <1>1, <1>4, <2>8, FrameIsEvent DEF IsEvent, StreamTypeOK
    <3>2. 1 \in Events(s) /\ f.seq \in 1..lastSeq /\ q[1] = f
      BY <1>4, <2>5, <2>8 DEF Events, q
    <3>3. Places(s)'
      BY <1>1, <1>5, <2>1, <3>1, <3>2 DEF Socket, Places
    <3>4. NoGap(s)
      <4> SUFFICES ASSUME NEW k \in DOMAIN q PROVE q[k] # Gap
        BY DEF NoGap, q
      <4>1. IsEvent(q[k])
        BY <1>4, <2>4, <2>8
      <4> QED
        BY <4>1, EventFrames
    <3>5. ASSUME NEW i, Coming(s, i) PROVE i = base + f.seq \/ Coming(s, i)'
      <4>1. PICK k \in Events(s) : base + q[k].seq = i
        BY <3>5 DEF Coming, q
      <4>2. CASE k = 1
        BY <3>2, <4>1, <4>2
      <4>3. CASE k - 1 \in Events(s)' /\ outbox'[s][k - 1] = q[k]
        BY <1>1, <4>1, <4>3 DEF Coming
      <4> QED
        BY <2>3, <4>2, <4>3
    <3>6. LiveTells(s)'
      <4> SUFFICES ASSUME Trusting(s), NEW i \in Journaled(s), base < i,
                          i < base + next[s] \/ \E k \in Events(s)' : i <= base + outbox'[s][k].seq
                   PROVE  i \in known'[s] \/ Coming(s, i)'
        BY <1>1, <1>2, <2>1, <3>1 DEF LiveTells, Trusting
      <4>1. i < base + next[s] \/ \E k \in Events(s) : i <= base + q[k].seq
        BY <2>3
      <4>2. i \in known[s] \/ Coming(s, i)
        BY <1>7, <3>4, <4>1 DEF Socket, LiveTells, q
      <4> QED
        BY <3>1, <3>5, <4>2
    <3>7. CursorTells(s)'
      <4> SUFFICES ASSUME Trusting(s), NEW i \in Journaled(s), base < i, i <= base + f.seq
                   PROVE  i \in known'[s]
        BY <1>1, <1>2, <2>1, <3>1 DEF CursorTells, Trusting
      <4>1. \E k \in Events(s) : i <= base + q[k].seq
        BY <3>2
      <4>2. i \in known[s] \/ Coming(s, i)
        BY <1>7, <3>4, <4>1 DEF Socket, LiveTells, q
      <4>3. ASSUME Coming(s, i) PROVE i = base + f.seq
        <5>1. PICK k \in Events(s) : base + q[k].seq = i
          BY <4>3 DEF Coming, q
        <5>2. k \in 1..Len(q)
          BY <1>1 DEF Events, q
        <5>3. q[k].seq \in 1..lastSeq /\ (1 < k => f.seq < q[k].seq)
          BY <2>5, <3>2
        <5>4. k = 1 \/ 1 < k
          BY <5>2
        <5>5. CASE k = 1
          BY <3>2, <5>1, <5>5
        <5>6. CASE 1 < k
          <6>1. f.seq < q[k].seq /\ q[k].seq \in Nat /\ f.seq \in Nat
            BY <1>5, <3>2, <5>3, <5>6
          <6> QED
            BY <1>5, <5>1, <6>1
        <5> QED
          BY <5>4, <5>5, <5>6
      <4> QED
        BY <3>1, <4>2, <4>3
    <3>8. EarlierTold(s)'
      BY <1>1, <1>2, <1>7, <2>1, <3>1 DEF Socket, EarlierTold
    <3>9. CarefulTold(s)'
      <4> SUFFICES ASSUME s \in careful, ~owed[s], NEW i \in Journaled(s), i < base + next[s]
                   PROVE  i \in known'[s] \/ Coming(s, i)'
        BY <1>1, <1>2, <2>1, <3>1 DEF CarefulTold
      <4>1. i \in known[s] \/ Coming(s, i)
        BY <2>1, <3>4 DEF Socket, CarefulTold
      <4> QED
        BY <3>1, <3>5, <4>1
    <3> QED
      BY <2>6, <3>3, <3>6, <3>7, <3>8, <3>9 DEF Socket
  <2> QED
    BY <2>2, <2>7, <2>8
<1> QED
  BY <1>3, <1>6, <1>7

LEMMA InitStreamInv == StreamInit => StreamInv
<1> SUFFICES ASSUME StreamInit PROVE StreamInv
  OBVIOUS
<1>1. Bus
  BY DEF StreamInit, Bus
<1>2. ASSUME NEW s \in Sockets PROVE Socket(s)
  <2>1. conn[s] = "off" /\ outbox[s] = <<>> /\ cursor[s] = 0 /\ lastSeq = 0 /\ published = <<>> /\ ~owed[s]
    BY DEF StreamInit
  <2>2. Events(s) = {} /\ Journaled(s) = {} /\ ~Greeted(s)
    BY <2>1 DEF Events, Journaled, Greeted
  <2> QED
    BY <2>1, <2>2 DEF Socket, Flight, Places, LiveTells, CursorTells, EarlierTold, CarefulTold
<1> QED
  BY <1>1, <1>2 DEF StreamInv

(* A step of one socket leaves every other one as it was. *)
LEMMA OthersStay ==
  ASSUME StreamTypeOK, NEW t \in Sockets, NEW s \in Sockets, s # t, Socket(s),
         \/ Connect(t) \/ SendHello(t) \/ ReadOldest(t) \/ ReadLast(t) \/ Replay(t) \/ Recv(t)
         \/ Heartbeat(t) \/ HeartbeatBlind(t) \/ Deliver(t) \/ Sync(t) \/ Drop(t) \/ Revoke(t)
  PROVE  Socket(s)'
<1>1. UNCHANGED <<busVars, careful>>
  BY DEF Connect, SendHello, ReadOldest, ReadLast, Replay, Recv, Heartbeat, HeartbeatBlind, Deliver,
         Sync, Drop, Revoke
<1>2. /\ conn'[s] = conn[s] /\ next'[s] = next[s] /\ oldest'[s] = oldest[s] /\ gap'[s] = gap[s]
      /\ outbox'[s] = outbox[s]
  <2>1. CASE Close({t})
    BY <2>1 DEF Close, StreamTypeOK
  <2>2. CASE ~Close({t})
    BY <2>2 DEF Connect, SendHello, ReadOldest, ReadLast, Replay, Recv, Heartbeat, HeartbeatBlind,
                Deliver, Sync, Drop, Revoke, socketVars, StreamTypeOK
  <2> QED
    BY <2>1, <2>2
<1>3. /\ cursor'[s] = cursor[s] /\ owed'[s] = owed[s] /\ known'[s] = known[s]
      /\ stale'[s] = stale[s] /\ seam'[s] = seam[s]
  BY DEF Connect, SendHello, ReadOldest, ReadLast, Replay, Recv, Heartbeat, HeartbeatBlind,
         Deliver, Sync, Drop, Revoke, clientVars, StreamTypeOK
<1> QED
  BY <1>1, <1>2, <1>3, SocketStays

LEMMA StreamInvStep ==
  ASSUME StreamTypeOK, StreamInv, [StreamNext]_streamVars
  PROVE  StreamInv'
<1>1. Bus /\ \A s \in Sockets : Socket(s)
  BY DEF StreamInv
<1>2. Bus'
  BY <1>1, BusStep
<1>3. ASSUME NEW s \in Sockets PROVE Socket(s)'
  <2>1. Socket(s)
    BY <1>1
  <2>2. ASSUME NEW u \in Users, NEW k \in Kinds, PublishNowait(u, k) PROVE Socket(s)'
    BY <1>1, <2>1, <2>2, SocketPublish
  <2>3. ASSUME NEW t \in Sockets,
               \/ Connect(t) \/ SendHello(t) \/ ReadOldest(t) \/ ReadLast(t) \/ Replay(t) \/ Recv(t)
               \/ Heartbeat(t) \/ HeartbeatBlind(t) \/ Deliver(t) \/ Sync(t) \/ Drop(t) \/ Revoke(t)
        PROVE  Socket(s)'
    <3>1. CASE s # t
      BY <2>1, <2>3, <3>1, OthersStay
    <3>2. CASE s = t
      <4>1. CASE Connect(s) \/ SendHello(s) \/ ReadOldest(s) \/ ReadLast(s)
        BY <2>1, <4>1, SocketOpens
      <4>2. CASE Replay(s)
        BY <1>1, <2>1, <4>2, SocketReplays
      <4>3. CASE Recv(s)
        BY <1>1, <2>1, <4>3, SocketReceives
      <4>4. CASE Heartbeat(s) \/ Drop(s)
        <5>1. Close({s}) /\ UNCHANGED <<busVars, careful, clientVars>> /\ s \in {s}
          BY <4>4 DEF Heartbeat, Drop
        <5> QED
          BY <2>1, <5>1, SocketCloses
      <4>5. CASE HeartbeatBlind(s) \/ Revoke(s)
        <5>1. UNCHANGED <<busVars, socketVars, careful, clientVars>>
          BY <4>5 DEF HeartbeatBlind, Revoke
        <5> QED
          BY <2>1, <5>1, SocketStays DEF socketVars, clientVars
      <4>6. CASE Deliver(s)
        BY <1>1, <2>1, <4>6, SocketDelivers
      <4>7. CASE Sync(s)
        BY <2>1, <4>7, SocketSyncs
      <4> QED
        BY <2>3, <3>2, <4>1, <4>2, <4>3, <4>4, <4>5, <4>6, <4>7
    <3> QED
      BY <3>1, <3>2
  <2>4. CASE Restart
    BY <2>4, SocketRestarts
  <2>5. CASE UNCHANGED streamVars
    BY <2>1, <2>5, SocketStays DEF streamVars, socketVars, clientVars
  <2> QED
    BY <2>2, <2>3, <2>4, <2>5 DEF StreamNext
<1> QED
  BY <1>2, <1>3 DEF StreamInv

(* What the invariant says of a client that is up to date.                  *)
LEMMA StreamInvTells ==
  ASSUME StreamTypeOK, StreamInv
  PROVE  NothingMissed
<1>1. /\ base \in Nat /\ published \in Seq(Event) /\ \A s \in Sockets : Socket(s) /\ next[s] \in Nat
  BY DEF StreamInv, StreamTypeOK
<1>2. ASSUME NEW s \in Sockets, Settled(s)
      PROVE  conn[s] = "live" /\ ~owed[s] /\ Greeted(s) /\ NoGap(s) /\ ~(\E i : Coming(s, i))
  BY <1>2 DEF Settled, Ready, Greeted, NoGap, Coming, Events
<1>3. CarefulKnows
  <2> SUFFICES ASSUME NEW s \in careful, Settled(s), NEW i \in Passed(s) PROVE i \in known[s]
    BY DEF CarefulKnows
  <2>1. s \in Sockets /\ i \in Journaled(s) /\ i < base + next[s]
    BY DEF StreamTypeOK, Passed
  <2>2. i \in known[s] \/ Coming(s, i)
    BY <1>1, <1>2, <2>1 DEF Socket, CarefulTold
  <2> QED
    BY <1>2, <2>1, <2>2
<1>4. SilentLossOnlyAtSeams
  <2> SUFFICES ASSUME NEW s \in Sockets, Settled(s), ~seam[s], NEW i \in Passed(s) PROVE i \in known[s]
    BY DEF SilentLossOnlyAtSeams
  <2>1. i \in Journaled(s) /\ i < base + next[s] /\ i \in Nat
    BY <1>1 DEF Passed, Journaled
  <2>2. CASE i <= base
    BY <1>1, <1>2, <2>1, <2>2 DEF Socket, EarlierTold
  <2>3. CASE base < i
    BY <1>1, <1>2, <2>1, <2>3 DEF Socket, LiveTells, Trusting
  <2> QED
    BY <1>1, <2>1, <2>2, <2>3
<1>5. CursorClaimsNoMore
  BY <1>1 DEF CursorClaimsNoMore, Socket, CursorTells, Trusting
<1> QED
  BY <1>3, <1>4, <1>5 DEF NothingMissed

(* For any number of accounts, devices, events and restarts, and for every   *)
(* capacity of the ring and the channel: what a client of                    *)
(* GET /api/v1/client/events does not know it knows that it does not know,   *)
(* or it lies at one of the two seams of FrameBuilder::replay; and a careful *)
(* client (fcp.md 8) misses nothing at all (ws.rs, ferroma-events lib.rs).   *)
THEOREM NothingIsMissed == StreamSpec => []NothingMissed
<1>1. StreamInit => StreamTypeOK /\ StreamInv
  BY InitStreamTypes, InitStreamInv
<1>2. StreamTypeOK /\ StreamInv /\ [StreamNext]_streamVars => StreamTypeOK' /\ StreamInv'
  BY StreamTypesStep, StreamInvStep
<1>3. StreamTypeOK /\ StreamInv => NothingMissed
  BY StreamInvTells
<1> QED
  BY <1>1, <1>2, <1>3, PTL DEF StreamSpec
-----------------------------------------------------------------------------
(* Counting up. *)
LEMMA Counting ==
  ASSUME NEW n \in Nat, NEW S, 0 \in S, \A i \in 0..(n - 1) : i \in S => i + 1 \in S
  PROVE  \A i \in 0..n : i \in S
<1> SUFFICES ASSUME NEW bad \in 0..n, bad \notin S PROVE FALSE
  OBVIOUS
<1> DEFINE T == {i \in 0..n : i \notin S}
           R == OpToRel(<, Nat)
<1>1. T \subseteq Nat /\ T # {}
  OBVIOUS
<1>2. IsWellFoundedOn(R, Nat)
  BY NatLessThanWellFounded
<1>3. PICK x \in T : \A y \in T : ~(<<y, x>> \in R)
  <2> HIDE DEF T, R
  <2> QED
    BY <1>1, <1>2, WFMin
<1>4. x \in 0..n /\ x \notin S /\ x # 0
  OBVIOUS
<1>5. x - 1 \in 0..(n - 1) /\ (x - 1) + 1 = x /\ x - 1 \in 0..n
  BY <1>4
<1>6. x - 1 \notin S
  BY <1>4, <1>5
<1>7. x - 1 \in T /\ x - 1 \in Nat /\ x \in Nat /\ x - 1 < x
  BY <1>4, <1>5, <1>6
<1>8. <<x - 1, x>> \in R
  BY <1>7 DEF OpToRel
<1> QED
  BY <1>3, <1>7, <1>8

(* A number is forgotten: the others move up and stay in their order.       *)
LEMMA Forgotten ==
  ASSUME NEW T, NEW q \in Seq(T), NEW k \in Nat \ {0}
  PROVE  LET r == Forgets(q, k)
         IN /\ r \in Seq(T)
            /\ k \in 1..Len(q) => Len(r) = Len(q) - 1
            /\ k \notin 1..Len(q) => r = q
            /\ \A i \in DOMAIN r : IF i < k THEN i \in DOMAIN q /\ r[i] = q[i]
                                            ELSE i + 1 \in DOMAIN q /\ r[i] = q[i + 1]
            /\ \A i \in DOMAIN q : /\ i < k => i \in DOMAIN r /\ r[i] = q[i]
                                   /\ i > k => i - 1 \in DOMAIN r /\ r[i - 1] = q[i]
<1> DEFINE r == Forgets(q, k)
           n == Len(q)
<1>1. n \in Nat /\ DOMAIN q = 1..n
  OBVIOUS
<1>2. CASE k \notin 1..n
  <2>1. r = q
    BY <1>1, <1>2 DEF Forgets
  <2>2. \A i \in 1..n : i < k /\ ~(i > k)
    BY <1>1, <1>2
  <2> QED
    BY <1>1, <1>2, <2>1, <2>2
<1>3. CASE k \in 1..n
  <2> DEFINE a == SubSeq(q, 1, k - 1)
             b == SubSeq(q, k + 1, n)
  <2>1. r = a \o b
    BY <1>1, <1>3 DEF Forgets, RemoveAt
  <2>2. a \in Seq(T) /\ Len(a) = k - 1 /\ \A i \in 1..(k - 1) : a[i] = q[i]
    BY <1>1, <1>3
  <2>3. b \in Seq(T) /\ Len(b) = n - k /\ \A i \in 1..(n - k) : b[i] = q[k + i]
    <3>0. k + 1 \in Int /\ n \in Int /\ \A i \in (k + 1)..n : q[i] \in T
      BY <1>1, <1>3
    <3>1. /\ b \in Seq(T) /\ Len(b) = IF k + 1 <= n THEN n - (k + 1) + 1 ELSE 0
          /\ \A i \in 1..(n - (k + 1) + 1) : b[i] = q[(k + 1) + i - 1]
      BY <3>0, SubSeqProperties
    <3> HIDE DEF b
    <3>4. Len(b) = IF k + 1 <= n THEN n - (k + 1) + 1 ELSE 0
      BY <3>1
    <3>5. k \in Nat /\ n \in Nat /\ k <= n
      BY <1>1, <1>3
    <3>6. n - (k + 1) + 1 = n - k /\ (k + 1 <= n \/ n - k = 0)
      BY <3>5
    <3>2. Len(b) = n - k /\ n - (k + 1) + 1 = n - k
      BY <3>4, <3>6
    <3>3. \A i \in 1..(n - k) : (k + 1) + i - 1 = k + i
      BY <1>1, <1>3
    <3> QED
      BY <3>1, <3>2, <3>3
  <2>9. r \in Seq(T) /\ Len(r) = Len(a) + Len(b)
    BY <2>1, <2>2, <2>3, ConcatProperties
  <2> HIDE DEF a, b, r
  <2>4. r \in Seq(T) /\ Len(r) = n - 1 /\ DOMAIN r = 1..(n - 1)
    <3>1. r \in Seq(T) /\ Len(r) = Len(a) + Len(b) /\ DOMAIN r = 1..Len(r)
      BY <2>9
    <3>2. Len(a) + Len(b) = n - 1
      BY <1>1, <1>3, <2>2, <2>3
    <3> QED
      BY <3>1, <3>2
  <2>5. \A i \in 1..(n - 1) : i < k => r[i] = q[i]
    <3> SUFFICES ASSUME NEW i \in 1..(n - 1), i < k PROVE r[i] = q[i]
      OBVIOUS
    <3>1. i \in 1..Len(a) /\ i \in 1..(k - 1)
      BY <1>1, <1>3, <2>2
    <3>2. r[i] = a[i]
      BY <2>1, <2>2, <2>3, <3>1
    <3> QED
      BY <2>2, <3>1, <3>2
  <2>6. \A i \in 1..(n - 1) : ~(i < k) => r[i] = q[i + 1]
    <3> SUFFICES ASSUME NEW i \in 1..(n - 1), ~(i < k) PROVE r[i] = q[i + 1]
      OBVIOUS
    <3>1. i - (k - 1) \in 1..(n - k) /\ k + (i - (k - 1)) = i + 1 /\ i \notin 1..Len(a) /\ i - Len(a) = i - (k - 1)
      BY <1>1, <1>3, <2>2
    <3>2. r[i] = b[i - Len(a)]
      <4>1. i \in 1..(Len(a) + Len(b))
        BY <1>1, <1>3, <2>2, <2>3
      <4> QED
        BY <2>1, <2>2, <2>3, <3>1, <4>1
    <3> QED
      BY <2>3, <3>1, <3>2
  <2>7. \A i \in 1..(n - 1) : IF i < k THEN i \in 1..n /\ r[i] = q[i] ELSE i + 1 \in 1..n /\ r[i] = q[i + 1]
    BY <1>1, <1>3, <2>5, <2>6
  <2>8. ASSUME NEW i \in 1..n
        PROVE  /\ i < k => i \in 1..(n - 1) /\ r[i] = q[i]
               /\ i > k => i - 1 \in 1..(n - 1) /\ r[i - 1] = q[i]
    <3>1. i < k => i \in 1..(n - 1)
      BY <1>1, <1>3
    <3>2. i > k => i - 1 \in 1..(n - 1) /\ ~(i - 1 < k) /\ (i - 1) + 1 = i
      BY <1>1, <1>3
    <3> QED
      BY <2>5, <2>6, <3>1, <3>2
  <2> QED
    BY <1>1, <1>3, <2>4, <2>7, <2>8 DEF r
<1> QED
  BY <1>2, <1>3

(* Dropping forgets one number after the other. *)
LEMMA DroppingSteps ==
  ASSUME NEW T, NEW q \in Seq(T), NEW numbers \in Seq(Nat \ {0})
  PROVE  \E after \in [0..Len(numbers) -> Seq(T)] :
           /\ after[0] = q
           /\ \A i \in 1..Len(numbers) : after[i] = Forgets(after[i - 1], numbers[i])
           /\ Dropping(q, numbers) = after[Len(numbers)]
<1> DEFINE n == Len(numbers)
           Walks(f, j) == f[0] = q /\ \A i \in 1..j : f[i] = Forgets(f[i - 1], numbers[i])
           S == {j \in 0..n : \E f \in [0..j -> Seq(T)] : Walks(f, j)}
<1>1. n \in Nat
  OBVIOUS
<1>2. 0 \in S
  <2> DEFINE f == [x \in 0..0 |-> q]
  <2>1. f \in [0..0 -> Seq(T)] /\ f[0] = q /\ 0 \in 0..n /\ 1..0 = {}
    BY <1>1
  <2> HIDE DEF f
  <2>2. Walks(f, 0)
    BY <2>1
  <2> HIDE DEF Walks
  <2> QED
    BY <2>1, <2>2
<1>3. ASSUME NEW j \in 0..(n - 1), j \in S PROVE j + 1 \in S
  <2>1. PICK f \in [0..j -> Seq(T)] : Walks(f, j)
    BY <1>3
  <2> DEFINE g == [i \in 0..(j + 1) |-> IF i <= j THEN f[i] ELSE Forgets(f[j], numbers[j + 1])]
  <2>2. j \in Nat /\ j + 1 \in 1..n /\ numbers[j + 1] \in Nat \ {0} /\ f[j] \in Seq(T)
    BY <1>1
  <2>3. Forgets(f[j], numbers[j + 1]) \in Seq(T)
    BY <2>2, Forgotten
  <2>4. \A i \in 0..(j + 1) : i <= j => i \in 0..j
    BY <2>2
  <2>5. g \in [0..(j + 1) -> Seq(T)]
    BY <2>3, <2>4
  <2>6. g[0] = q
    BY <2>1, <2>2
  <2>7. ASSUME NEW i \in 1..(j + 1) PROVE g[i] = Forgets(g[i - 1], numbers[i])
    <3>1. i - 1 \in 0..(j + 1) /\ i - 1 <= j /\ i \in 0..(j + 1) /\ (i <= j => i \in 1..j)
          /\ (~(i <= j) => i = j + 1 /\ i - 1 = j)
      BY <2>2
    <3>2. g[i - 1] = f[i - 1]
      BY <3>1
    <3>3. CASE i <= j
      BY <2>1, <3>1, <3>2, <3>3
    <3>4. CASE ~(i <= j)
      BY <3>1, <3>2, <3>4
    <3> QED
      BY <3>3, <3>4
  <2> HIDE DEF g
  <2>8. Walks(g, j + 1)
    BY <2>6, <2>7
  <2>9. j + 1 \in 0..n
    BY <1>1, <2>2
  <2> HIDE DEF Walks
  <2> QED
    BY <2>5, <2>8, <2>9
<1>4. n \in S
  <2> HIDE DEF S
  <2>1. \A i \in 0..n : i \in S
    BY <1>1, <1>2, <1>3, Counting
  <2> QED
    BY <1>1, <2>1
<1>5. PICK f \in [0..n -> Seq(T)] : Walks(f, n)
  BY <1>4
<1> DEFINE Def(g) == g = [i \in 0..n |-> IF i = 0 THEN q ELSE Forgets(g[i - 1], numbers[i])]
           after == CHOOSE g : Def(g)
<1>6. Def(f)
  <2>1. \A i \in 0..n : f[i] = IF i = 0 THEN q ELSE Forgets(f[i - 1], numbers[i])
    BY <1>1, <1>5
  <2> QED
    BY <1>5, <2>1
<1>7. Def(after)
  <2> HIDE DEF Def
  <2> QED
    BY <1>6
<1>8. Dropping(q, numbers) = after[n]
  BY DEF Dropping
<1>9. after[0] = q /\ \A i \in 1..n : after[i] = Forgets(after[i - 1], numbers[i])
  <2> HIDE DEF after
  <2>1. \A i \in 0..n : after[i] = IF i = 0 THEN q ELSE Forgets(after[i - 1], numbers[i])
    BY <1>7
  <2> QED
    BY <1>1, <2>1
<1>10. after \in [0..n -> Seq(T)]
  <2> DEFINE U == {i \in 0..n : after[i] \in Seq(T)}
  <2> HIDE DEF after
  <2>1. 0 \in U
    BY <1>1, <1>9
  <2>2. ASSUME NEW i \in 0..(n - 1), i \in U PROVE i + 1 \in U
    <3>1. i + 1 \in 1..n /\ (i + 1) - 1 = i /\ i + 1 \in 0..n
      BY <1>1
    <3>2. after[i + 1] = Forgets(after[i], numbers[i + 1]) /\ numbers[i + 1] \in Nat \ {0} /\ after[i] \in Seq(T)
      BY <1>9, <2>2, <3>1
    <3> DEFINE h == after[i]
               k == numbers[i + 1]
    <3> HIDE DEF h, k
    <3>3. h \in Seq(T) /\ k \in Nat \ {0}
      BY <3>2 DEF h, k
    <3>4. Forgets(h, k) \in Seq(T)
      BY <3>3, Forgotten
    <3>5. after[i + 1] \in Seq(T)
      BY <3>2, <3>4 DEF h, k
    <3> QED
      BY <3>1, <3>5
  <2> HIDE DEF U
  <2>3. \A i \in 0..n : i \in U
    BY <1>1, <2>1, <2>2, Counting
  <2>4. \A i \in 0..n : after[i] \in Seq(T)
    BY <2>3 DEF U
  <2>5. after = [i \in 0..n |-> IF i = 0 THEN q ELSE Forgets(after[i - 1], numbers[i])]
    BY <1>7
  <2> QED
    BY <2>4, <2>5
<1> HIDE DEF after
<1> QED
  BY <1>8, <1>9, <1>10

Shifted(r, q, k) ==
  \A j \in DOMAIN q : /\ j < k => j \in DOMAIN r /\ r[j] = q[j]
                      /\ j > k => j - 1 \in DOMAIN r /\ r[j - 1] = q[j]
LEMMA Shifts ==
  ASSUME NEW T, NEW q \in Seq(T), NEW k \in Nat \ {0}
  PROVE  Forgets(q, k) \in Seq(T) /\ Shifted(Forgets(q, k), q, k)
BY ZenonT(60), Forgotten DEF Shifted

(* A sequence with some of q's entries, in their order. *)
Within(r, q) ==
  \E place \in [DOMAIN r -> DOMAIN q] :
    /\ \A i \in DOMAIN r : r[i] = q[place[i]]
    /\ \A i, j \in DOMAIN r : i < j => place[i] < place[j]

LEMMA ForgottenWithin ==
  ASSUME NEW T, NEW q \in Seq(T), NEW k \in Nat \ {0}
  PROVE  Within(Forgets(q, k), q)
<1> DEFINE r == Forgets(q, k)
           place == [i \in DOMAIN r |-> IF i < k THEN i ELSE i + 1]
<1>1. /\ r \in Seq(T)
      /\ \A i \in DOMAIN r : IF i < k THEN i \in DOMAIN q /\ r[i] = q[i]
                                      ELSE i + 1 \in DOMAIN q /\ r[i] = q[i + 1]
  BY Forgotten
<1> HIDE DEF r
<1>2. DOMAIN r \subseteq Nat
  BY <1>1
<1>3. place \in [DOMAIN r -> DOMAIN q] /\ \A i \in DOMAIN r : r[i] = q[place[i]]
  BY <1>1
<1>4. \A i, j \in DOMAIN r : i < j => place[i] < place[j]
  BY <1>2
<1> HIDE DEF place
<1> QED
  BY <1>3, <1>4 DEF Within, r

LEMMA WithinSelf ==
  ASSUME NEW T, NEW q \in Seq(T)
  PROVE  Within(q, q)
<1> DEFINE place == [i \in DOMAIN q |-> i]
<1>1. /\ place \in [DOMAIN q -> DOMAIN q] /\ \A i \in DOMAIN q : q[i] = q[place[i]]
      /\ \A i, j \in DOMAIN q : i < j => place[i] < place[j]
  OBVIOUS
<1> HIDE DEF place
<1> QED
  BY <1>1 DEF Within

LEMMA WithinWithin ==
  ASSUME NEW p, NEW r, NEW q, Within(p, r), Within(r, q)
  PROVE  Within(p, q)
<1>1. PICK f \in [DOMAIN p -> DOMAIN r] :
        /\ \A i \in DOMAIN p : p[i] = r[f[i]]
        /\ \A i, j \in DOMAIN p : i < j => f[i] < f[j]
  BY DEF Within
<1>2. PICK g \in [DOMAIN r -> DOMAIN q] :
        /\ \A i \in DOMAIN r : r[i] = q[g[i]]
        /\ \A i, j \in DOMAIN r : i < j => g[i] < g[j]
  BY DEF Within
<1> DEFINE h == [i \in DOMAIN p |-> g[f[i]]]
<1>3. h \in [DOMAIN p -> DOMAIN q] /\ \A i \in DOMAIN p : p[i] = q[h[i]]
  BY <1>1, <1>2
<1>4. \A i, j \in DOMAIN p : i < j => h[i] < h[j]
  BY <1>1, <1>2
<1> HIDE DEF h
<1> QED
  BY <1>3, <1>4 DEF Within

(* From the highest down, a set of numbers. *)
LEMMA DownwardNumbers ==
  ASSUME NEW T, NEW q \in Seq(T), NEW N, N \subseteq DOMAIN q
  PROVE  LET d == Downward(N)
         IN /\ d \in Seq(Nat \ {0}) /\ Len(d) = Cardinality(N) /\ Cardinality(N) \in Nat
            /\ \A i \in DOMAIN d : d[i] \in N
            /\ \A k \in N : \E i \in DOMAIN d : d[i] = k
            /\ \A i, j \in DOMAIN d : i < j => d[i] > d[j]
<1> DEFINE key == [k \in N |-> -k]
           d == InOrder(key)
           n == Cardinality(N)
<1>1. DOMAIN q = 1..Len(q) /\ Len(q) \in Nat /\ N \subseteq Nat \ {0} /\ DOMAIN key = N
  OBVIOUS
<1>2. Sortable(key)
  <2>1. IsFiniteSet(1..Len(q))
    BY <1>1, FS_Interval
  <2>2. IsFiniteSet(N)
    BY <1>1, <2>1, FS_Subset
  <2> QED
    BY <1>1, <2>2 DEF Sortable
<1> HIDE DEF key
<1>3. /\ n \in Nat /\ d \in Seq(N) /\ Len(d) = n /\ DOMAIN d = 1..n
      /\ \A i \in 1..n : d[i] \in N
      /\ \A k \in N : \E i \in 1..n : d[i] = k
      /\ \A i, j \in 1..n : i < j => key[d[i]] < key[d[j]]
  BY <1>1, <1>2, Sorted
<1>4. Downward(N) = d
  BY DEF Downward, key
<1> HIDE DEF d
<1>5. \A i, j \in 1..n : i < j => d[i] > d[j]
  <2> SUFFICES ASSUME NEW i \in 1..n, NEW j \in 1..n, i < j PROVE d[i] > d[j]
    OBVIOUS
  <2>1. d[i] \in N /\ d[j] \in N /\ key[d[i]] < key[d[j]]
    BY <1>3
  <2>2. -d[i] < -d[j]
    BY <2>1 DEF key
  <2>3. d[i] \in Nat /\ d[j] \in Nat
    BY <1>1, <2>1
  <2> QED
    BY <2>2, <2>3
<1>6. d \in Seq(Nat \ {0})
  BY <1>1, <1>3
<1> QED
  BY <1>3, <1>4, <1>5, <1>6

(* Dropping numbers from the highest down drops just the entries that had    *)
(* them when the numbers were taken.                                        *)
Drops(r, q, N) == Within(r, q) /\ \A k \in DOMAIN q \ N : \E i \in DOMAIN r : r[i] = q[k]
LEMMA DroppingKeeps ==
  ASSUME NEW T, NEW q \in Seq(T), \A i, j \in DOMAIN q : q[i] = q[j] => i = j, NEW N \in SUBSET DOMAIN q
  PROVE  Dropping(q, Downward(N)) \in Seq(T) /\ Drops(Dropping(q, Downward(N)), q, N)
<1> DEFINE d == Downward(N)
           n == Len(d)
<1>1. /\ d \in Seq(Nat \ {0}) /\ n \in Nat /\ DOMAIN d = 1..n
      /\ \A i \in DOMAIN d : d[i] \in N
      /\ \A i, j \in DOMAIN d : i < j => d[i] > d[j]
  BY DownwardNumbers
<1> HIDE DEF d
<1>2. PICK after \in [0..n -> Seq(T)] :
        /\ after[0] = q
        /\ \A i \in 1..n : after[i] = Forgets(after[i - 1], d[i])
        /\ Dropping(q, d) = after[n]
  <2>1. d \in Seq(Nat \ {0})
    BY <1>1
  <2> QED
    BY <2>1, DroppingSteps
<1> DEFINE Untouched(i) == \A k \in DOMAIN q : i = 0 \/ k < d[i] => k \in DOMAIN after[i] /\ after[i][k] = q[k]
           Kept(i) == \A k \in DOMAIN q \ N : \E j \in DOMAIN after[i] : after[i][j] = q[k]
           S == {i \in 0..n : Within(after[i], q) /\ Untouched(i) /\ Kept(i)}
<1>3. 0 \in S
  <2>1. Within(after[0], q)
    BY <1>2, WithinSelf
  <2>2. Untouched(0) /\ Kept(0)
    BY <1>2
  <2>3. 0 \in 0..n
    BY <1>1
  <2> HIDE DEF Untouched, Kept
  <2> QED
    BY <2>1, <2>2, <2>3
<1>4. ASSUME NEW i \in 0..(n - 1), i \in S PROVE i + 1 \in S
  <2> DEFINE a == after[i]
             b == after[i + 1]
             k == d[i + 1]
  <2>1. /\ i \in Nat /\ i + 1 \in 1..n /\ (i + 1) - 1 = i /\ i + 1 \in 0..n /\ i \in 0..n
        /\ i = 0 \/ (i \in DOMAIN d /\ i < i + 1)
    BY <1>1
  <2>2. a \in Seq(T) /\ b = Forgets(a, k) /\ k \in N /\ k \in Nat \ {0} /\ (i = 0 \/ k < d[i])
    <3>1. after[i + 1] = Forgets(after[i], d[i + 1]) /\ after[i] \in Seq(T)
      BY <1>2, <2>1
    <3>2. i + 1 \in DOMAIN d
      BY <1>1, <2>1
    <3>3. d[i + 1] \in N /\ d[i + 1] \in Nat \ {0}
      BY <1>1, <3>2
    <3>4. i = 0 \/ d[i + 1] < d[i]
      <4>1. CASE i = 0
        BY <4>1
      <4>2. CASE i \in DOMAIN d /\ i < i + 1
        <5>1. d[i] > d[i + 1] /\ d[i] \in Nat
          BY <1>1, <3>2, <4>2
        <5> QED
          BY <3>3, <5>1
      <4> QED
        BY <2>1, <4>1, <4>2
    <3> QED
      BY <3>1, <3>3, <3>4
  <2>3. Within(a, q) /\ Untouched(i) /\ Kept(i)
    BY <1>4
  <2>4. k \in DOMAIN a /\ a[k] = q[k]
    BY <2>2, <2>3
  <2> HIDE DEF a, b, k
  <2>5. b \in Seq(T) /\ Shifted(b, a, k)
    <3>1. a \in Seq(T)
      BY <2>2
    <3>2. k \in Nat \ {0}
      BY <2>2
    <3>3. b = Forgets(a, k)
      BY <2>2
    <3> QED
      BY <3>1, <3>2, <3>3, Shifts
  <2>6. Within(b, q)
    <3>1. Within(b, a)
      BY <2>2, ForgottenWithin
    <3> QED
      BY <2>3, <3>1, WithinWithin
  <2>7. Untouched(i + 1)
    <3> SUFFICES ASSUME NEW j \in DOMAIN q, j < k PROVE j \in DOMAIN b /\ b[j] = q[j]
      BY <2>1 DEF b, k
    <3>1. i = 0 \/ j < d[i]
      <4>1. CASE i = 0
        BY <4>1
      <4>2. CASE i \in DOMAIN d
        <5>1. j \in Nat /\ k \in Nat /\ d[i] \in Nat /\ (i = 0 \/ k < d[i])
          BY <1>1, <2>2, <4>2
        <5> QED
          BY <5>1
      <4> QED
        BY <2>1, <4>1, <4>2
    <3>2. j \in DOMAIN a /\ a[j] = q[j]
      BY <2>3, <3>1 DEF a
    <3> QED
      BY <2>5, <3>2 DEF Shifted
  <2>8. Kept(i + 1)
    <3> SUFFICES ASSUME NEW m \in DOMAIN q \ N PROVE \E j \in DOMAIN b : b[j] = q[m]
      BY DEF b
    <3>1. PICK j \in DOMAIN a : a[j] = q[m]
      BY <2>3 DEF a
    <3>2. j # k
      <4>1. SUFFICES ASSUME j = k PROVE FALSE
        OBVIOUS
      <4>2. q[m] = q[k] /\ k \in DOMAIN q /\ m \in DOMAIN q
        BY <2>2, <2>4, <3>1, <4>1
      <4>3. m = k
        BY <4>2
      <4> QED
        BY <2>2, <4>3
    <3>3. j \in Nat /\ k \in Nat
      BY <2>2
    <3>4. j < k \/ j > k
      BY <3>2, <3>3
    <3> QED
      BY <2>5, <3>1, <3>4 DEF Shifted
  <2> HIDE DEF Untouched, Kept
  <2> QED
    BY <2>1, <2>6, <2>7, <2>8 DEF b
<1>5. n \in S
  <2> HIDE DEF S
  <2>1. \A i \in 0..n : i \in S
    BY <1>1, <1>3, <1>4, Counting
  <2> QED
    BY <1>1, <2>1
<1>6. after[n] \in Seq(T)
  BY <1>1, <1>2
<1>7. Within(after[n], q) /\ Kept(n)
  BY <1>5
<1> QED
  BY <1>2, <1>6, <1>7 DEF d, Drops

(* A client's numbering that is what the server lists, as far as it goes.   *)
Matches(t, list) == Len(t) <= Len(list) /\ \A k \in DOMAIN t : t[k] = list[k].id

LEMMA ForgettingMatches ==
  ASSUME NEW T, NEW U, NEW t \in Seq(T), NEW list \in Seq(U), NEW k \in Nat \ {0}, Matches(t, list)
  PROVE  Matches(Forgets(t, k), Forgets(list, k))
<1> DEFINE a == Forgets(t, k)
           b == Forgets(list, k)
<1>1. /\ a \in Seq(T) /\ (k \in 1..Len(t) => Len(a) = Len(t) - 1) /\ (k \notin 1..Len(t) => a = t)
      /\ \A i \in DOMAIN a : IF i < k THEN i \in DOMAIN t /\ a[i] = t[i]
                                      ELSE i + 1 \in DOMAIN t /\ a[i] = t[i + 1]
  BY Forgotten
<1>2. /\ b \in Seq(U) /\ (k \in 1..Len(list) => Len(b) = Len(list) - 1) /\ (k \notin 1..Len(list) => b = list)
      /\ \A i \in DOMAIN list : /\ i < k => i \in DOMAIN b /\ b[i] = list[i]
                                /\ i > k => i - 1 \in DOMAIN b /\ b[i - 1] = list[i]
  BY ZenonT(60), Forgotten
<1> HIDE DEF a, b
<1>3. /\ Len(t) \in Nat /\ Len(list) \in Nat /\ DOMAIN t = 1..Len(t) /\ DOMAIN list = 1..Len(list)
      /\ Len(t) <= Len(list)
  BY DEF Matches
<1>4. Len(a) <= Len(b)
  <2>1. CASE k \in 1..Len(t)
    <3>1. k \in 1..Len(list)
      BY <1>3, <2>1
    <3> QED
      BY <1>1, <1>2, <1>3, <2>1, <3>1
  <2>2. CASE k \notin 1..Len(t) /\ k \in 1..Len(list)
    <3>1. a = t /\ Len(b) = Len(list) - 1
      BY <1>1, <1>2, <2>2
    <3>2. Len(t) <= Len(list) - 1
      BY <1>3, <2>2
    <3> QED
      BY <3>1, <3>2
  <2>3. CASE k \notin 1..Len(t) /\ k \notin 1..Len(list)
    <3>1. a = t /\ b = list
      BY <1>1, <1>2, <2>3
    <3> QED
      BY <1>3, <3>1
  <2> QED
    BY <2>1, <2>2, <2>3
<1>5. ASSUME NEW i \in DOMAIN a PROVE a[i] = b[i].id
  <2>0. i \in Nat \ {0}
    <3>1. a \in Seq(T)
      BY <1>1
    <3> QED
      BY <3>1
  <2>1. i \in Nat \ {0} /\ \A j \in DOMAIN t : j \in DOMAIN list /\ t[j] = list[j].id
    <3>1. \A j \in DOMAIN t : j \in DOMAIN list
      BY <1>3
    <3> QED
      BY <2>0, <3>1 DEF Matches
  <2>2. CASE i < k
    <3>1. i \in DOMAIN t /\ a[i] = t[i]
      BY <1>1, <2>2
    <3> QED
      BY <1>2, <2>1, <2>2, <3>1
  <2>3. CASE ~(i < k)
    <3>1. i + 1 \in DOMAIN t /\ a[i] = t[i + 1]
      BY <1>1, <2>3
    <3>2. i + 1 > k /\ (i + 1) - 1 = i
      BY <2>1, <2>3
    <3>3. i + 1 \in DOMAIN list /\ t[i + 1] = list[i + 1].id
      BY <2>1, <3>1
    <3>4. b[(i + 1) - 1] = list[i + 1]
      BY <1>2, <3>2, <3>3
    <3> QED
      BY <3>1, <3>2, <3>3, <3>4
  <2> QED
    BY <2>2, <2>3
<1> QED
  BY <1>4, <1>5 DEF Matches, a, b

LEMMA DroppingMatches ==
  ASSUME NEW T, NEW t \in Seq(T), NEW list \in Seq(T), NEW d \in Seq(Nat \ {0}), Matches(t, list)
  PROVE  Matches(Dropping(t, d), Dropping(list, d))
<1> DEFINE n == Len(d)
<1>1. n \in Nat /\ DOMAIN d = 1..n
  OBVIOUS
<1>2. PICK f \in [0..n -> Seq(T)] :
        f[0] = t /\ (\A i \in 1..n : f[i] = Forgets(f[i - 1], d[i])) /\ Dropping(t, d) = f[n]
  <2>1. \E after \in [0..Len(d) -> Seq(T)] :
           /\ after[0] = t
           /\ \A i \in 1..Len(d) : after[i] = Forgets(after[i - 1], d[i])
           /\ Dropping(t, d) = after[Len(d)]
    BY DroppingSteps
  <2> QED
    BY <2>1
<1>3. PICK g \in [0..n -> Seq(T)] :
        g[0] = list /\ (\A i \in 1..n : g[i] = Forgets(g[i - 1], d[i])) /\ Dropping(list, d) = g[n]
  <2>1. \E after \in [0..Len(d) -> Seq(T)] :
           /\ after[0] = list
           /\ \A i \in 1..Len(d) : after[i] = Forgets(after[i - 1], d[i])
           /\ Dropping(list, d) = after[Len(d)]
    BY DroppingSteps
  <2> QED
    BY <2>1
<1> DEFINE S == {i \in 0..n : Matches(f[i], g[i])}
<1>4. 0 \in S
  BY <1>1, <1>2, <1>3
<1>5. ASSUME NEW i \in 0..(n - 1), i \in S PROVE i + 1 \in S
  <2>1. i \in 0..n /\ i + 1 \in 0..n /\ i + 1 \in 1..n /\ (i + 1) - 1 = i
    BY <1>1
  <2> DEFINE p == f[i]
             q == g[i]
             k == d[i + 1]
  <2>2. p \in Seq(T) /\ q \in Seq(T) /\ k \in Nat \ {0} /\ Matches(p, q)
    BY SMTT(30), <1>1, <1>2, <1>3, <1>5, <2>1
  <2>3. f[i + 1] = Forgets(p, k) /\ g[i + 1] = Forgets(q, k)
    BY <1>2, <1>3, <2>1
  <2> HIDE DEF p, q, k
  <2>4. Matches(f[i + 1], g[i + 1])
    BY <2>2, <2>3, ForgettingMatches
  <2> QED
    BY <2>1, <2>4
<1> HIDE DEF S
<1>6. \A i \in 0..n : i \in S
  BY <1>1, <1>4, <1>5, Counting
<1>7. Matches(f[n], g[n])
  BY <1>1, <1>6 DEF S
<1> QED
  BY <1>2, <1>3, <1>7
-----------------------------------------------------------------------------
(* The tables of an account's mail.                                         *)
Row == [folder : {NoFolder} \cup Folder, uid : 0..MaxUid, flags : SUBSET Flag]
Tables ==
  /\ name \in [Folder -> Name \cup {None}] /\ folders \in Folder
  /\ uidNext \in [Folder -> 1..(MaxUid + 1)]
  /\ row \in [Message -> Row]
  /\ ids \subseteq Message /\ IsFiniteSet(ids) /\ held \subseteq Message
  /\ \A f \in Folder : name[f] # None => f <= folders
  /\ \A m \in Message : row[m].folder <= folders

(* A message that is somewhere has been numbered, once.                     *)
Placed ==
  /\ \A m \in Live : m \in ids /\ row[m].uid # 0
  /\ UidsApart
  /\ QueuedMailKept

(* What a session holds. *)
Viewed == [folder : {NoFolder} \cup Folder, read_only : BOOLEAN, messages : Seq(Listed)]
Waited == [on : BOOLEAN, queue : Seq({Other} \cup Folder), lagged : BOOLEAN]
Target == [number : Nat \ {0}, id : Message]
Job == [kind : {"none", "expunge", "close", "copy", "move"}, todo : Seq(Target),
        done : SUBSET Message, to : {NoFolder} \cup Folder, as : Name \cup {None}]
SessionsHold ==
  /\ selected \in [Session -> Viewed] /\ fresh \in [Session -> SUBSET Message]
  /\ idle \in [Session -> Waited] /\ job \in [Session -> Job] /\ told \in [Session -> Seq(Message)]

(* Where a listing says a message is. *)
At(m, f, u) == row[m].folder = f /\ row[m].uid = u

(* A listing is of numbered messages, in the order of their UIDs, all below  *)
(* what the folder hands out next.                                          *)
Ascends(list) ==
  /\ \A i, j \in DOMAIN list : i < j => list[i].uid < list[j].uid
  /\ \A i, j \in DOMAIN list : list[i].id = list[j].id => i = j
ListingSound(s) ==
  /\ selected[s].folder <= folders
  /\ Selects(s) \/ Messages(s) = <<>>
  /\ Ascends(Messages(s))
  /\ \A k \in Numbers(s) : /\ Messages(s)[k].id \in ids
                           /\ Messages(s)[k].uid < uidNext[selected[s].folder]

(* A path that is still the row's is that of a listed message, which is as   *)
(* the listing says.                                                        *)
FreshSound(s) ==
  \A m \in fresh[s] : \E k \in Numbers(s) :
    /\ Messages(s)[k].id = m
    /\ row[m] = [folder |-> selected[s].folder, uid |-> Messages(s)[k].uid, flags |-> Messages(s)[k].flags]

(* IDLE and a command at work exclude each other; what is to be expunged is  *)
(* marked in the listing; what has been moved is nowhere the listing says.  *)
IdleSound(s) ==
  /\ idle[s].on => Selects(s) /\ job[s] = NoJob
  /\ Len(idle[s].queue) <= Capacity
TodoSound(s) ==
  /\ job[s].kind = "none" => job[s] = NoJob
  /\ job[s].kind # "none" => job[s].todo # <<>>
  /\ job[s].kind \in {"copy", "move"} => job[s].to \in Folder /\ job[s].as # None
  /\ job[s].kind \in {"expunge", "close"} =>
       \A i \in DOMAIN job[s].todo : \E k \in Marked(s) : Messages(s)[k].id = job[s].todo[i].id
  /\ job[s].kind = "expunge" =>
       \A i, j \in DOMAIN job[s].todo : job[s].todo[i].id = job[s].todo[j].id => i = j
DoneSound(s) ==
  \A k \in Numbers(s) : Messages(s)[k].id \in job[s].done =>
    Messages(s)[k].id \notin fresh[s] /\ ~At(Messages(s)[k].id, selected[s].folder, Messages(s)[k].uid)

Seat(s) == ListingSound(s) /\ FreshSound(s) /\ IdleSound(s) /\ TodoSound(s) /\ DoneSound(s)
SessionInv == Tables /\ Placed /\ SessionsHold /\ \A s \in Session : Seat(s)

(* What no step does: hand out a number again, or put a message back where   *)
(* it was listed before.                                                    *)
NeverBack ==
  /\ ids \subseteq ids' /\ folders <= folders' /\ folders' \in Nat
  /\ \A f \in Folder : uidNext[f] <= uidNext'[f] /\ uidNext'[f] \in Nat
  /\ \A m \in ids : \A f \in Folder : \A u \in Nat : u < uidNext[f] /\ At(m, f, u)' => At(m, f, u)

LEMMA Kinds0 ==
  /\ MaxFolders \in Nat \ {0} /\ MaxUid \in Nat /\ Capacity \in Nat \ {0}
  /\ Folder \subseteq Nat \ {0} /\ NoFolder = 0 /\ NoFolder \notin Folder
  /\ Inbox \in Name /\ None \notin Name /\ NoRow \in Row /\ NoRow.folder = 0
BY ImapAssumption DEF ImapAssumption, Folder, NoFolder, NoRow, Row

(* A message that is new, or new in a folder, gets the folder's next UID.   *)
LEMMA PlaceStep ==
  ASSUME Tables, Placed, NEW m \in Message, NEW f \in Folder, name[f] # None, uidNext[f] <= MaxUid,
         NEW flags \in SUBSET Flag, row' = Place(m, f, flags), uidNext' = Bumped(f),
         m \in ids \/ m \notin Live, ids' = ids \cup {m},
         held' \subseteq held \cup {m}, name' = name, folders' = folders
  PROVE  /\ Tables' /\ Placed' /\ NeverBack
         /\ row'[m] = [folder |-> f, uid |-> uidNext[f], flags |-> flags]
         /\ \A n \in Message : n # m => row'[n] = row[n]
<1>1. /\ row'[m] = [folder |-> f, uid |-> uidNext[f], flags |-> flags]
      /\ \A n \in Message : n # m => row'[n] = row[n]
      /\ row' \in [Message -> Row]
  <2>1. [folder |-> f, uid |-> uidNext[f], flags |-> flags] \in Row
    BY Kinds0 DEF Tables, Row
  <2> QED
    BY <2>1 DEF Place, Tables
<1>2. /\ \A g \in Folder : uidNext'[g] = IF g = f THEN uidNext[f] + 1 ELSE uidNext[g]
      /\ uidNext' \in [Folder -> 1..(MaxUid + 1)]
      /\ \A g \in Folder : uidNext[g] \in Nat \ {0}
  BY Kinds0 DEF Bumped, Tables
<1>3. f <= folders /\ f # NoFolder /\ folders \in Nat
  BY Kinds0 DEF Tables
<1>4. IsFiniteSet(ids')
  BY FS_AddElement DEF Tables
<1>5. Tables'
  <2>1. \A n \in Message : row'[n].folder <= folders'
    BY <1>1, <1>3 DEF Tables
  <2> QED
    BY <1>1, <1>2, <1>4, <2>1 DEF Tables
<1>6. Live' = Live \cup {m} /\ \A n \in Message : row[n].uid \in Nat /\ row[n].folder \in {0} \cup Folder
  BY <1>1, <1>3, Kinds0 DEF Live, Tables, Row
<1>7. ASSUME NEW n \in Live' PROVE n \in ids' /\ row'[n].uid # 0
  <2>1. CASE n = m
    BY <1>1, <1>2, <2>1
  <2>2. CASE n # m
    <3>1. n \in Live /\ n \in Message /\ row'[n] = row[n]
      BY <1>1, <1>6, <2>2 DEF Live
    <3> QED
      BY <3>1 DEF Placed
  <2> QED
    BY <2>1, <2>2
<1>8. UidsApart'
  <2>1. ASSUME NEW n \in Live' PROVE row'[n].uid < uidNext'[row'[n].folder]
    <3>1. CASE n = m
      BY <1>1, <1>2, <3>1
    <3>2. CASE n # m
      <4>1. n \in Live /\ row'[n] = row[n] /\ row[n].folder \in Folder /\ row[n].uid \in Nat
        BY <1>1, <1>6, <3>2 DEF Live, NoFolder
      <4>2. row[n].uid < uidNext[row[n].folder]
        BY <4>1 DEF Placed, UidsApart
      <4> QED
        BY <1>2, <4>1, <4>2
    <3> QED
      BY <3>1, <3>2
  <2>2. ASSUME NEW n \in Live, n # m, row[n].folder = f PROVE row[n].uid # uidNext[f]
    <3>1. row[n].uid < uidNext[f] /\ row[n].uid \in Nat
      BY <1>6, <2>2 DEF Placed, UidsApart, Live
    <3> QED
      BY <1>2, <3>1
  <2>3. ASSUME NEW a \in Live', NEW b \in Live', a # b, row'[a].folder = row'[b].folder
        PROVE  row'[a].uid # row'[b].uid
    <3>1. CASE a = m
      <4>1. b \in Live /\ b \in Message /\ row'[b] = row[b] /\ row'[m].folder = f /\ row'[m].uid = uidNext[f]
        BY <1>1, <1>6, <2>3, <3>1 DEF Live
      <4> QED
        BY <2>2, <2>3, <3>1, <4>1
    <3>2. CASE b = m
      <4>1. a \in Live /\ a \in Message /\ row'[a] = row[a] /\ row'[m].folder = f /\ row'[m].uid = uidNext[f]
        BY <1>1, <1>6, <2>3, <3>2 DEF Live
      <4> QED
        BY <2>2, <2>3, <3>2, <4>1
    <3>3. CASE a # m /\ b # m
      BY <1>1, <1>6, <2>3, <3>3 DEF Placed, UidsApart, Live
    <3> QED
      BY <3>1, <3>2, <3>3
  <2> QED
    BY <2>1, <2>3 DEF UidsApart
<1>9. Placed'
  BY <1>6, <1>7, <1>8 DEF Placed, QueuedMailKept
<1>10. NeverBack
  <2> SUFFICES ASSUME NEW n \in ids, NEW g \in Folder, NEW u \in Nat, u < uidNext[g], At(n, g, u)'
               PROVE  At(n, g, u)
    BY <1>2, <1>3 DEF NeverBack
  <2>1. row'[n].folder = g /\ row'[n].uid = u /\ n \in Message
    BY DEF At, Tables
  <2>2. n # m
    BY <1>1, <1>2, <2>1
  <2> QED
    BY <1>1, <2>1, <2>2 DEF At
<1> QED
  BY <1>1, <1>5, <1>9, <1>10

(* Flags change nothing about where a message is. *)
LEMMA FlagStep ==
  ASSUME Tables, Placed, NEW m \in Message, NEW flags \in SUBSET Flag, row' = [row EXCEPT ![m].flags = flags],
         UNCHANGED <<folders, name, uidNext, ids, held>>
  PROVE  /\ Tables' /\ Placed' /\ NeverBack
         /\ row'[m] = [row[m] EXCEPT !.flags = flags]
         /\ \A n \in Message : n # m => row'[n] = row[n]
<1>1. /\ row'[m] = [row[m] EXCEPT !.flags = flags]
      /\ \A n \in Message : n # m => row'[n] = row[n]
      /\ row' \in [Message -> Row]
  BY DEF Tables, Row
<1>2. \A n \in Message : row'[n].folder = row[n].folder /\ row'[n].uid = row[n].uid
  BY <1>1 DEF Tables, Row
<1>3. Tables'
  BY <1>1, <1>2 DEF Tables
<1>4. Live' = Live
  BY <1>2 DEF Live
<1>5. Placed'
  <2>1. UidsApart'
    BY <1>2, <1>4 DEF Placed, UidsApart, Live
  <2> QED
    BY <1>2, <1>4, <2>1 DEF Placed, QueuedMailKept, Live
<1>6. NeverBack
  <2>1. \A f \in Folder : uidNext[f] \in Nat
    BY DEF Tables
  <2> QED
    BY <1>2, <2>1, Kinds0 DEF NeverBack, At, Tables
<1> QED
  BY <1>1, <1>3, <1>5, <1>6

(* Rows go, none that the queue needs. *)
LEMMA GoneStep ==
  ASSUME Tables, Placed, NEW gone \in SUBSET Message, Unqueued(gone),
         row' = [m \in Message |-> IF m \in gone THEN NoRow ELSE row[m]],
         name' \in [Folder -> Name \cup {None}], \A f \in Folder : name'[f] # None => name[f] # None,
         UNCHANGED <<folders, uidNext, ids, held>>
  PROVE  Tables' /\ Placed' /\ NeverBack
<1>1. /\ \A m \in Message : row'[m] = IF m \in gone THEN NoRow ELSE row[m]
      /\ row' \in [Message -> Row]
  BY Kinds0 DEF Tables
<1>2. folders \in Nat /\ \A f \in Folder : uidNext[f] \in Nat \ {0}
  BY Kinds0 DEF Tables
<1>3. Tables'
  <2>1. \A m \in Message : row'[m].folder <= folders
    BY <1>1, <1>2, Kinds0 DEF Tables
  <2> QED
    BY <1>1, <2>1 DEF Tables
<1>4. Live' = Live \ gone /\ \A m \in Live' : row'[m] = row[m]
  BY <1>1, Kinds0 DEF Live
<1>5. Placed'
  <2>1. UidsApart'
    BY <1>4 DEF Placed, UidsApart
  <2>2. QueuedMailKept'
    BY <1>4 DEF Placed, QueuedMailKept, Unqueued
  <2> QED
    BY <1>4, <2>1, <2>2 DEF Placed
<1>6. NeverBack
  <2> SUFFICES ASSUME NEW m \in ids, NEW f \in Folder, NEW u \in Nat, At(m, f, u)' PROVE At(m, f, u)
    BY <1>2 DEF NeverBack
  <2>1. m \in Message /\ row'[m].folder = f /\ f # 0
    BY Kinds0 DEF At, Tables
  <2>2. row'[m] = row[m]
    BY <1>1, <2>1, Kinds0
  <2> QED
    BY <2>2 DEF At
<1> QED
  BY <1>3, <1>5, <1>6

(* Nothing but a folder's name changes, or what the queue holds. *)
LEMMA NamesStep ==
  ASSUME Tables, Placed, UNCHANGED <<uidNext, ids, row>>, held' \subseteq held,
         name' \in [Folder -> Name \cup {None}], folders' \in Folder, folders <= folders',
         \A f \in Folder : name'[f] # None => f <= folders'
  PROVE  Tables' /\ Placed' /\ NeverBack
<1>1. folders \in Nat /\ folders' \in Nat /\ (\A f \in Folder : uidNext[f] \in Nat)
      /\ \A m \in Message : row[m].folder \in Nat
  <2>1. \A m \in Message : row[m].folder \in {0} \cup Folder
    BY Kinds0 DEF Tables, Row
  <2>2. folders \in Folder /\ folders' \in Folder /\ \A f \in Folder : uidNext[f] \in 1..(MaxUid + 1)
    BY DEF Tables
  <2> QED
    BY <2>1, <2>2, Kinds0
<1>2. \A m \in Message : row[m].folder <= folders'
  BY <1>1 DEF Tables
<1>3. Live' = Live
  BY DEF Live
<1> QED
  BY <1>1, <1>2, <1>3 DEF Tables, Placed, UidsApart, QueuedMailKept, NeverBack, At, Live

LEMMA JobHead ==
  ASSUME SessionsHold, NEW s \in Session, Seat(s), job[s].kind # "none"
  PROVE  LET q == job[s].todo
         IN /\ q \in Seq(Target) /\ q # <<>> /\ 1 \in DOMAIN q /\ Head(q) = q[1] /\ Head(q) \in Target
            /\ Head(q).id \in Message /\ Tail(q) \in Seq(Target) /\ (Len(q) # 1 => Tail(q) # <<>>)
            /\ \A i \in DOMAIN Tail(q) : i + 1 \in DOMAIN q /\ Tail(q)[i] = q[i + 1] /\ i \in Nat \ {0}
<1> DEFINE q == job[s].todo
<1>1. q \in Seq(Target) /\ q # <<>>
  BY DEF SessionsHold, Job, Seat, TodoSound
<1> HIDE DEF q
<1>2. Len(q) \in Nat /\ Len(q) > 0 /\ DOMAIN q = 1..Len(q)
  BY <1>1
<1>3. 1 \in DOMAIN q /\ Head(q) = q[1] /\ Head(q) \in Target
  BY <1>1, <1>2
<1>4. Tail(q) \in Seq(Target) /\ Len(Tail(q)) = Len(q) - 1 /\ DOMAIN Tail(q) = 1..(Len(q) - 1)
  BY <1>1, <1>2
<1>5. \A i \in 1..(Len(q) - 1) : i + 1 \in DOMAIN q /\ Tail(q)[i] = q[i + 1] /\ i \in Nat \ {0}
  BY <1>1, <1>2, <1>4
<1>6. Len(q) # 1 => Tail(q) # <<>>
  <2>1. Len(q) # 1 => Len(Tail(q)) # 0
    BY <1>2, <1>4
  <2>2. Len(<<>>) = 0
    OBVIOUS
  <2> QED
    BY <2>1, <2>2
<1>7. Head(q).id \in Message
  BY <1>3 DEF Target
<1> QED
  BY <1>1, <1>3, <1>4, <1>5, <1>6, <1>7 DEF q

LEMMA ListedKinds ==
  ASSUME SessionsHold, NEW s \in Session, NEW k \in Numbers(s)
  PROVE  /\ Messages(s) \in Seq(Listed) /\ Messages(s)[k] \in Listed
         /\ Messages(s)[k].id \in Message /\ Messages(s)[k].uid \in 1..MaxUid
         /\ Messages(s)[k].flags \in SUBSET Flag /\ k \in Nat \ {0}
         /\ selected[s].folder \in {NoFolder} \cup Folder
<1>1. Messages(s) \in Seq(Listed) /\ selected[s].folder \in {NoFolder} \cup Folder
  BY DEF SessionsHold, Viewed, Messages
<1>2. k \in DOMAIN Messages(s)
  BY DEF Numbers
<1> HIDE DEF Messages
<1>3. Messages(s)[k] \in Listed /\ k \in Nat \ {0}
  BY <1>1, <1>2
<1> QED
  BY <1>1, <1>3 DEF Listed

LEMMA HardDeleteStep ==
  ASSUME Tables, Placed, NEW m \in Message, HardDelete(m), UNCHANGED <<folders, name, uidNext, ids, held>>
  PROVE  /\ Tables' /\ Placed' /\ NeverBack
         /\ row' = [n \in Message |-> IF n \in {m} THEN NoRow ELSE row[n]]
<1>1. row' = [n \in Message |-> IF n \in {m} THEN NoRow ELSE row[n]]
  BY DEF HardDelete, Tables
<1>2. {m} \in SUBSET Message /\ Unqueued({m})
  BY DEF HardDelete
<1>3. name' \in [Folder -> Name \cup {None}] /\ \A f \in Folder : name'[f] # None => name[f] # None
  BY DEF Tables
<1> QED
  BY <1>1, <1>2, <1>3, GoneStep

LEMMA StoreStays ==
  ASSUME Tables, Placed, UNCHANGED store
  PROVE  Tables' /\ Placed' /\ NeverBack
<1>1. UNCHANGED <<uidNext, ids, row>> /\ held' \subseteq held /\ folders' \in Folder /\ folders <= folders'
      /\ name' \in [Folder -> Name \cup {None}] /\ \A f \in Folder : name'[f] # None => f <= folders'
  BY Kinds0 DEF store, Tables
<1> QED
  BY <1>1, NamesStep

(* The folder that a COPY or a MOVE goes to, and what it files. *)
LEMMA RelocatesTo ==
  ASSUME Tables, Placed, SessionsHold, NEW s \in Session, Seat(s), NEW kind \in {"copy", "move"}, Relocates(s, kind)
  PROVE  /\ Head(job[s].todo).id \in Live /\ Head(job[s].todo).id \in Message /\ Head(job[s].todo).id \in ids
         /\ job[s].to \in Folder /\ name[job[s].to] # None /\ uidNext[job[s].to] <= MaxUid
         /\ row[Head(job[s].todo).id].flags \in SUBSET Flag
         /\ job[s].kind # "none"
<1>1. job[s].kind = kind /\ kind # "none" /\ kind \in {"copy", "move"}
  BY DEF Relocates
<1>2. Head(job[s].todo).id \in Live /\ Head(job[s].todo).id \in Message
  BY DEF Relocates, Live
<1>3. name[job[s].to] # None /\ uidNext[job[s].to] <= MaxUid
  BY <1>1 DEF Relocates, Seat, TodoSound
<1>4. job[s].to \in Folder
  BY <1>1 DEF SessionsHold, Job, Seat, TodoSound
<1> QED
  BY <1>1, <1>2, <1>3, <1>4 DEF Placed, Tables, Row

LEMMA StoreStep ==
  ASSUME SessionInv, [Next]_vars
  PROVE  Tables' /\ Placed' /\ NeverBack
<1>0. Tables /\ Placed /\ SessionsHold /\ \A s \in Session : Seat(s)
  BY DEF SessionInv
<1>1. ASSUME NEW s \in Session, Folders(s) PROVE Tables' /\ Placed' /\ NeverBack
  <2>1. ASSUME NEW n \in Name, Create(s, n) PROVE Tables' /\ Placed' /\ NeverBack
    <3>1. folders + 1 \in Folder /\ folders' = folders + 1 /\ name' = [name EXCEPT ![folders + 1] = n]
          /\ held' = held /\ UNCHANGED <<uidNext, ids, row>>
      BY <1>0, <2>1, Kinds0 DEF Create, Tables, Folder
    <3>2. folders \in Nat
      BY <1>0, Kinds0 DEF Tables
    <3>3. name' \in [Folder -> Name \cup {None}] /\ \A f \in Folder : name'[f] # None => f <= folders'
      BY <1>0, <3>1, <3>2, Kinds0 DEF Tables
    <3> QED
      BY <1>0, <3>1, <3>2, <3>3, NamesStep
  <2>2. ASSUME NEW n \in Name, Delete(s, n) PROVE Tables' /\ Placed' /\ NeverBack
    <3>1. PICK f \in Find(n) :
            /\ Unqueued(In(f))
            /\ name' = [name EXCEPT ![f] = None]
            /\ row' = [m \in Message |-> IF m \in In(f) THEN NoRow ELSE row[m]]
      BY <2>2 DEF Delete
    <3>2. In(f) \in SUBSET Message /\ UNCHANGED <<folders, uidNext, ids, held>>
      BY <2>2 DEF Delete, In
    <3>3. name' \in [Folder -> Name \cup {None}] /\ \A g \in Folder : name'[g] # None => name[g] # None
      BY <1>0, <3>1 DEF Tables
    <3> QED
      BY <1>0, <3>1, <3>2, <3>3, GoneStep
  <2>3. ASSUME NEW from \in Name, NEW to \in Name, Rename(s, from, to) PROVE Tables' /\ Placed' /\ NeverBack
    <3>1. PICK f \in Find(from) : name' = [name EXCEPT ![f] = to]
      BY <2>3 DEF Rename
    <3>2. f \in Folder /\ name[f] # None
      BY Kinds0 DEF Find
    <3>3. name' \in [Folder -> Name \cup {None}] /\ \A g \in Folder : name'[g] # None => g <= folders
      BY <1>0, <3>1, <3>2 DEF Tables
    <3>4. UNCHANGED <<uidNext, ids, row>> /\ held' \subseteq held /\ folders' = folders /\ folders' \in Folder
          /\ folders <= folders'
      BY <1>0, <2>3, Kinds0 DEF Rename, Tables
    <3> QED
      BY <1>0, <3>3, <3>4, NamesStep
  <2> QED
    BY <1>1, <2>1, <2>2, <2>3 DEF Folders
<1>2. ASSUME NEW s \in Session,
             Opens(s) \/ Abandon(s) \/ Idles(s) \/ BeginClose(s)
             \/ (\E numbers : BeginExpunge(s, numbers)) \/ (\E kind, numbers, n : BeginFile(s, kind, numbers, n))
      PROVE  Tables' /\ Placed' /\ NeverBack
  <2>1. UNCHANGED store
    BY <1>2 DEF Opens, Leave, Select, Unselect, Abandon, Idles, Idle, Push, PushLagged, EndIdle,
                BeginClose, BeginExpunge, BeginFile, Begin
  <2> QED
    BY <1>0, <2>1, StoreStays
<1>3. ASSUME NEW f \in Folder, NEW m \in Message, NEW flags \in SUBSET Flag, NewRow(m, f, flags), name[f] # None,
             held' \subseteq held \cup {m}, UNCHANGED <<name, folders>>
      PROVE  Tables' /\ Placed' /\ NeverBack
  <2>1. /\ uidNext[f] <= MaxUid /\ row' = Place(m, f, flags) /\ uidNext' = Bumped(f) /\ ids' = ids \cup {m}
        /\ m = NextId /\ ids # Message
    BY <1>3 DEF NewRow
  <2>2. m \notin ids
    <3>1. ids \subseteq Message
      BY <1>0 DEF Tables
    <3>2. \E n \in Message : n \notin ids
      BY <2>1, <3>1
    <3> QED
      BY <2>1, <3>2 DEF NextId
  <2>3. m \notin Live
    BY <1>0, <2>2 DEF Placed
  <2> QED
    BY <1>0, <1>3, <2>1, <2>3, PlaceStep
<1>4. ASSUME NEW s \in Session, NEW n \in Name, AppendMessage(s, n, {Seen}) PROVE Tables' /\ Placed' /\ NeverBack
  <2>1. PICK f \in Find(n), m \in Message : NewRow(m, f, {Seen})
    BY <1>4 DEF AppendMessage
  <2>2. f \in Folder /\ name[f] # None /\ {Seen} \in SUBSET Flag
    BY Kinds0 DEF Find, Flag
  <2>3. held' \subseteq held \cup {m} /\ UNCHANGED <<name, folders>>
    BY <1>4 DEF AppendMessage
  <2> QED
    BY <1>3, <2>1, <2>2, <2>3
<1>5. ASSUME NEW s \in Session, NEW k \in Numbers(s), NEW flags \in SUBSET Flag, SetFlags(s, k, flags)
      PROVE  Tables' /\ Placed' /\ NeverBack
  <2>1. Messages(s)[k].id \in Message
    BY <1>0, ListedKinds
  <2>2. row' = [row EXCEPT ![Messages(s)[k].id].flags = flags] /\ UNCHANGED <<folders, name, uidNext, ids, held>>
    BY <1>5 DEF SetFlags
  <2> QED
    BY <1>0, <2>1, <2>2, FlagStep
<1>6. ASSUME NEW s \in Session, ExpungeOne(s) \/ CloseOne(s) PROVE Tables' /\ Placed' /\ NeverBack
  <2>1. job[s].kind # "none" /\ UNCHANGED <<folders, name, uidNext, ids, held>> /\ HardDelete(Head(job[s].todo).id)
    BY <1>6 DEF ExpungeOne, CloseOne
  <2>2. Head(job[s].todo).id \in Message
    BY <1>0, <2>1, JobHead
  <2> QED
    BY <1>0, <2>1, <2>2, HardDeleteStep
<1>7. ASSUME NEW s \in Session, CopyOne(s) PROVE Tables' /\ Placed' /\ NeverBack
  <2>1. PICK m \in Message : NewRow(m, job[s].to, row[Head(job[s].todo).id].flags)
    BY <1>7 DEF CopyOne
  <2>2. /\ job[s].to \in Folder /\ name[job[s].to] # None
        /\ row[Head(job[s].todo).id].flags \in SUBSET Flag
    BY <1>0, <1>7, RelocatesTo DEF CopyOne
  <2>3. held' \subseteq held \cup {m} /\ UNCHANGED <<name, folders>>
    BY <1>7 DEF CopyOne
  <2> QED
    BY <1>3, <2>1, <2>2, <2>3
<1>8. ASSUME NEW s \in Session, MoveOne(s) PROVE Tables' /\ Placed' /\ NeverBack
  <2> DEFINE m == Head(job[s].todo).id
             f == job[s].to
  <2>1. /\ m \in Message /\ m \in ids /\ f \in Folder /\ name[f] # None /\ uidNext[f] <= MaxUid
        /\ row[m].flags \in SUBSET Flag
    BY <1>0, <1>8, RelocatesTo DEF MoveOne
  <2>2. /\ row' = Place(m, f, row[m].flags) /\ uidNext' = Bumped(f)
        /\ UNCHANGED <<folders, name, ids, held>>
    BY <1>8 DEF MoveOne, MovedRow
  <2> HIDE DEF m, f
  <2>3. ids' = ids \cup {m} /\ held' \subseteq held \cup {m}
    BY <2>1, <2>2
  <2> QED
    BY <1>0, <2>1, <2>2, <2>3, PlaceStep
<1>9. CASE Others
  <2>1. ASSUME NEW f \in Folder, NEW queued \in BOOLEAN, Arrive(f, queued) PROVE Tables' /\ Placed' /\ NeverBack
    <3>1. PICK m \in Message : NewRow(m, f, {}) /\ held' = IF queued THEN held \cup {m} ELSE held
      BY <2>1 DEF Arrive
    <3>2. name[f] # None /\ UNCHANGED <<name, folders>> /\ {} \in SUBSET Flag /\ held' \subseteq held \cup {m}
      BY <2>1, <3>1 DEF Arrive
    <3> QED
      BY <1>3, <3>1, <3>2
  <2>2. ASSUME NEW m \in Message, Delivered(m) PROVE Tables' /\ Placed' /\ NeverBack
    <3>1. UNCHANGED <<uidNext, ids, row>> /\ held' \subseteq held /\ folders' \in Folder /\ folders <= folders'
          /\ name' \in [Folder -> Name \cup {None}] /\ \A f \in Folder : name'[f] # None => f <= folders'
      BY <1>0, <2>2, Kinds0 DEF Delivered, Tables
    <3> QED
      BY <1>0, <3>1, NamesStep
  <2> QED
    BY <1>9, <2>1, <2>2 DEF Others
<1>10. ASSUME NEW s \in Session, NEW k \in Numbers(s), Fetch(s, k) PROVE Tables' /\ Placed' /\ NeverBack
  <2>1. Messages(s)[k].flags \cup {Seen} \in SUBSET Flag
    BY <1>0, ListedKinds DEF Flag
  <2> QED
    BY <1>5, <1>10, <2>1 DEF Fetch
<1>11. CASE UNCHANGED vars
  BY <1>0, <1>11, StoreStays DEF vars, store
<1>12. ASSUME NEW s \in Session, Works(s) PROVE Tables' /\ Placed' /\ NeverBack
  BY <1>2, <1>4, <1>5, <1>10, <1>12 DEF Works, Store
<1>13. ASSUME NEW s \in Session, Proceed(s) PROVE Tables' /\ Placed' /\ NeverBack
  BY <1>6, <1>7, <1>8, <1>13 DEF Proceed
<1> QED
  BY <1>1, <1>2, <1>9, <1>11, <1>12, <1>13 DEF Next
-----------------------------------------------------------------------------
(* What a session holds after a step. *)
LEMMA ListingLists ==
  ASSUME Tables, Placed, NEW f \in Folder
  PROVE  LET list == Listing(f)
         IN /\ list \in Seq(Listed) /\ Ascends(list)
            /\ \A k \in DOMAIN list : list[k].id \in In(f) /\ list[k] = Entry(list[k].id)
            /\ \A m \in In(f) : \E k \in DOMAIN list : list[k] = Entry(m)
            /\ Cardinality(In(f)) \in Nat /\ Len(list) = Cardinality(In(f))
<1> DEFINE E == {Entry(m) : m \in In(f)}
           key == [e \in E |-> e.uid]
           n == Cardinality(E)
           list == InOrder(key)
<1>1. /\ f # NoFolder /\ In(f) \subseteq Live /\ In(f) \subseteq Message
      /\ \A m \in In(f) : row[m].folder = f /\ row[m].uid \in 1..MaxUid /\ row[m].flags \in SUBSET Flag
  <2>1. f # NoFolder
    BY Kinds0
  <2>2. \A m \in In(f) : row[m] \in Row /\ m \in Live /\ row[m].folder = f
    BY <2>1 DEF In, Live, Tables
  <2>3. \A m \in In(f) : row[m].uid \in 0..MaxUid /\ row[m].uid # 0 /\ row[m].flags \in SUBSET Flag
    BY <2>2 DEF Placed, Row
  <2>4. \A m \in In(f) : row[m].uid \in 1..MaxUid
    BY <2>3, Kinds0
  <2> QED
    BY <2>1, <2>2, <2>3, <2>4 DEF In
<1>2. IsFiniteSet(In(f))
  <2>1. In(f) \subseteq ids /\ IsFiniteSet(ids)
    BY <1>1 DEF Placed, Tables
  <2> QED
    BY <2>1, FS_Subset
<1>3. \A m \in In(f) : Entry(m).id = m /\ Entry(m).uid = row[m].uid /\ Entry(m) \in Listed
  BY <1>1 DEF Entry, Listed
<1>4. IsFiniteSet(E) /\ Cardinality(E) = Cardinality(In(f))
  <2> DEFINE g == [m \in In(f) |-> Entry(m)]
  <2>1. g \in Bijection(In(f), E)
    <3>1. \A a, b \in In(f) : g[a] = g[b] => a = b
      BY <1>3
    <3>2. g \in [In(f) -> E] /\ \A e \in E : \E m \in In(f) : g[m] = e
      OBVIOUS
    <3> QED
      BY <3>1, <3>2 DEF Bijection, Injection, Surjection, IsInjective
  <2>2. ExistsBijection(In(f), E)
    BY <2>1 DEF ExistsBijection
  <2> QED
    BY <1>2, <2>2, FS_Bijection
<1>5. DOMAIN key = E /\ \A e \in E : key[e] = e.uid
  OBVIOUS
<1>6. Sortable(key)
  <2>1. \A m \in In(f) : Entry(m).uid \in Int
    BY <1>1, <1>3
  <2>2. \A a, b \in In(f) : Entry(a).uid = Entry(b).uid => a = b
    BY <1>1, <1>3 DEF Placed, UidsApart
  <2> QED
    BY <1>4, <1>5, <2>1, <2>2 DEF Sortable
<1> HIDE DEF key
<1>7. /\ n \in Nat /\ list \in Seq(E) /\ Len(list) = n /\ DOMAIN list = 1..n
      /\ \A i \in 1..n : list[i] \in E
      /\ \A x \in E : \E i \in 1..n : list[i] = x
      /\ \A i, j \in 1..n : i < j => key[list[i]] < key[list[j]]
  <2> HIDE DEF E
  <2> QED
    BY <1>5, <1>6, Sorted
<1>8. Listing(f) = list
  BY DEF Listing, key
<1> HIDE DEF list
<1>9. \A i, j \in 1..n : i < j => list[i].uid < list[j].uid
  BY <1>5, <1>7
<1>10. ASSUME NEW k \in 1..n PROVE list[k].id \in In(f) /\ list[k] = Entry(list[k].id) /\ list[k] \in Listed
  <2>1. PICK m \in In(f) : list[k] = Entry(m)
    BY <1>7
  <2> QED
    BY <1>3, <2>1
<1>11. ASSUME NEW i \in 1..n, NEW j \in 1..n, list[i].id = list[j].id PROVE i = j
  <2>1. list[i].uid = list[j].uid /\ list[i].uid \in 1..MaxUid
    BY <1>10, <1>11 DEF Listed
  <2>2. ~(i < j) /\ ~(j < i)
    BY <1>9, <2>1
  <2> QED
    BY <1>7, <2>2
<1>12. list \in Seq(Listed)
  BY <1>7, <1>10
<1>13. \A m \in In(f) : \E k \in 1..n : list[k] = Entry(m)
  BY <1>7
<1> QED
  BY <1>4, <1>7, <1>8, <1>9, <1>10, <1>11, <1>12, <1>13 DEF Ascends

(* Entries that are left, whatever became of their flags. *)
Thins(r, q) ==
  \E place \in [DOMAIN r -> DOMAIN q] :
    /\ \A i \in DOMAIN r : r[i].id = q[place[i]].id /\ r[i].uid = q[place[i]].uid
    /\ \A i, j \in DOMAIN r : i < j => place[i] < place[j]

LEMMA WithinThins == ASSUME NEW r, NEW q, Within(r, q) PROVE Thins(r, q)
BY DEF Within, Thins

LEMMA ListingThins ==
  ASSUME SessionInv, SessionsHold', NeverBack, NEW s \in Session, selected'[s].folder = selected[s].folder,
         Thins(Messages(s)', Messages(s))
  PROVE  ListingSound(s)'
<1> DEFINE q == Messages(s)
           r == Messages(s)'
<1>1. PICK place \in [DOMAIN r -> DOMAIN q] :
        /\ \A i \in DOMAIN r : r[i].id = q[place[i]].id /\ r[i].uid = q[place[i]].uid
        /\ \A i, j \in DOMAIN r : i < j => place[i] < place[j]
  BY DEF Thins
<1>2. /\ Seat(s) /\ ListingSound(s) /\ Tables /\ SessionsHold /\ Numbers(s) = DOMAIN q /\ Numbers(s)' = DOMAIN r
  BY DEF SessionInv, Seat, Numbers
<1>3. r \in Seq(Listed)
  BY DEF SessionsHold, Viewed, Messages
<1>4. \A k \in DOMAIN q : q[k].id \in ids /\ q[k].uid < uidNext[selected[s].folder] /\ q[k].uid \in 1..MaxUid
  BY <1>2, ListedKinds DEF ListingSound
<1>5. selected[s].folder \in {0} \cup Folder /\ folders \in Nat /\ (DOMAIN q # {} => selected[s].folder \in Folder)
      /\ (~Selects(s) => q = <<>>) /\ selected[s].folder <= folders
  <2>1. selected[s].folder \in {0} \cup Folder
    BY <1>2, Kinds0 DEF SessionsHold, Viewed
  <2>2. folders \in Nat
    BY <1>2, Kinds0 DEF Tables
  <2>3. ~Selects(s) => q = <<>>
    BY <1>2 DEF ListingSound
  <2>4. DOMAIN q # {} => Selects(s)
    BY <2>3
  <2> QED
    BY <1>2, <2>1, <2>2, <2>3, <2>4, Kinds0 DEF Selects, ListingSound
<1> HIDE DEF q, r
<1>6. DOMAIN q = {} => DOMAIN r = {}
  BY <1>1
<1>7. selected'[s].folder <= folders'
  <2>1. selected[s].folder \in Nat /\ folders \in Nat
    <3>1. selected[s].folder \in {0} \cup Folder
      BY <1>5
    <3>2. \A f \in {0} \cup Folder : f \in Nat
      BY Kinds0
    <3>3. selected[s].folder \in Nat
      BY <3>1, <3>2
    <3> QED
      BY <1>5, <3>3
  <2>2. folders <= folders' /\ folders' \in Nat
    BY DEF NeverBack
  <2> QED
    BY <1>5, <2>1, <2>2
<1>8. Selects(s)' \/ r = <<>>
  <2>1. SUFFICES ASSUME ~Selects(s)' PROVE r = <<>>
    OBVIOUS
  <2>2. ~Selects(s)
    BY <2>1 DEF Selects
  <2>3. DOMAIN r = {}
    BY <1>5, <1>6, <2>2
  <2> QED
    BY <1>3, <2>3
<1>9. Ascends(r)
  <2>1. ASSUME NEW i \in DOMAIN r, NEW j \in DOMAIN r, i < j PROVE r[i].uid < r[j].uid
    <3>1. place[i] < place[j] /\ place[i] \in DOMAIN q /\ place[j] \in DOMAIN q
      BY <1>1, <2>1
    <3>2. q[place[i]].uid < q[place[j]].uid
      BY <1>2, <3>1 DEF ListingSound, Ascends, q
    <3> QED
      BY <1>1, <3>2
  <2>2. ASSUME NEW i \in DOMAIN r, NEW j \in DOMAIN r, r[i].id = r[j].id PROVE i = j
    <3>1. place[i] = place[j]
      BY <1>1, <1>2, <2>2 DEF ListingSound, Ascends, q
    <3>2. i \in Nat /\ j \in Nat /\ place[i] \in Nat
      <4>1. Messages(s) \in Seq(Listed)
        BY <1>2 DEF SessionsHold, Viewed, Messages
      <4>2. DOMAIN q \subseteq Nat /\ DOMAIN r \subseteq Nat
        BY <1>3, <4>1 DEF q
      <4> QED
        BY <1>1, <4>2
    <3>3. ~(i < j) /\ ~(j < i)
      BY <1>1, <3>1, <3>2
    <3> QED
      BY <3>2, <3>3
  <2> QED
    BY <2>1, <2>2 DEF Ascends
<1>10. ASSUME NEW k \in DOMAIN r PROVE r[k].id \in ids' /\ r[k].uid < uidNext'[selected'[s].folder]
  <2>1. place[k] \in DOMAIN q /\ r[k].id = q[place[k]].id /\ r[k].uid = q[place[k]].uid
    BY <1>1
  <2>2. selected[s].folder \in Folder /\ r[k].id \in ids /\ r[k].uid < uidNext[selected[s].folder] /\ r[k].uid \in Nat
    BY <1>4, <1>5, <2>1
  <2>3. uidNext[selected[s].folder] <= uidNext'[selected[s].folder] /\ uidNext'[selected[s].folder] \in Nat
        /\ uidNext[selected[s].folder] \in Nat
    BY <1>2, <2>2 DEF NeverBack, Tables
  <2>4. r[k].uid < uidNext'[selected[s].folder]
    BY <2>2, <2>3
  <2> QED
    BY <2>2, <2>4 DEF NeverBack
<1> QED
  BY <1>2, <1>7, <1>8, <1>9, <1>10 DEF ListingSound, r

(* A message that was moved away stays away from where it was listed. *)
LEMMA DoneStays ==
  ASSUME SessionInv, NeverBack, NEW s \in Session, selected'[s].folder = selected[s].folder,
         Thins(Messages(s)', Messages(s)), job'[s].done \subseteq job[s].done, fresh'[s] \subseteq fresh[s]
  PROVE  DoneSound(s)'
<1>1. PICK place \in [DOMAIN Messages(s)' -> DOMAIN Messages(s)] :
        \A i \in DOMAIN Messages(s)' : /\ Messages(s)'[i].id = Messages(s)[place[i]].id
                                       /\ Messages(s)'[i].uid = Messages(s)[place[i]].uid
  BY DEF Thins
<1>2. Seat(s) /\ SessionsHold
  BY DEF SessionInv
<1> SUFFICES ASSUME NEW k \in Numbers(s)', Messages(s)'[k].id \in job'[s].done
             PROVE  Messages(s)'[k].id \notin fresh'[s]
                    /\ ~(row'[Messages(s)'[k].id].folder = selected'[s].folder
                         /\ row'[Messages(s)'[k].id].uid = Messages(s)'[k].uid)
  BY DEF DoneSound, At
<1>3. PICK m, f, u : m = Messages(s)'[k].id /\ f = selected[s].folder /\ u = Messages(s)'[k].uid
  OBVIOUS
<1>4. PICK j \in Numbers(s) : Messages(s)[j].id = m /\ Messages(s)[j].uid = u
  BY <1>1, <1>3 DEF Numbers
<1>5. m \in job[s].done /\ m \notin fresh[s] /\ ~At(m, f, u)
  BY <1>2, <1>3, <1>4 DEF Seat, DoneSound
<1>6. m \in ids /\ u < uidNext[f] /\ u \in Nat /\ f \in Folder
  <2>1. m \in ids /\ u < uidNext[f] /\ f # NoFolder
    BY <1>2, <1>3, <1>4 DEF Seat, ListingSound, Selects, Numbers
  <2>2. u \in 1..MaxUid /\ f \in {NoFolder} \cup Folder
    BY <1>2, <1>3, <1>4, ListedKinds
  <2> QED
    BY <2>1, <2>2
<1>7. ~At(m, f, u)'
  BY <1>5, <1>6 DEF NeverBack
<1>8. ~(row'[m].folder = f /\ row'[m].uid = u)
  BY <1>7 DEF At
<1> QED
  BY <1>3, <1>5, <1>8

LEMMA FreshStays ==
  ASSUME SessionInv, SessionsHold', NEW s \in Session, selected'[s].folder = selected[s].folder,
         fresh'[s] \subseteq fresh[s],
         \A m \in fresh'[s] : row'[m] = row[m],
         \A k \in Numbers(s) : Messages(s)[k].id \in fresh'[s] =>
           \E j \in Numbers(s)' : Messages(s)'[j] = Messages(s)[k]
  PROVE  FreshSound(s)'
<1>1. FreshSound(s)
  BY DEF SessionInv, Seat
<1> SUFFICES ASSUME NEW m \in fresh'[s]
             PROVE  \E j \in Numbers(s)' :
                      /\ Messages(s)'[j].id = m
                      /\ row'[m] = [folder |-> selected'[s].folder, uid |-> Messages(s)'[j].uid,
                                    flags |-> Messages(s)'[j].flags]
  BY DEF FreshSound
<1>2. PICK k \in Numbers(s) :
        /\ Messages(s)[k].id = m
        /\ row[m] = [folder |-> selected[s].folder, uid |-> Messages(s)[k].uid, flags |-> Messages(s)[k].flags]
  BY <1>1 DEF FreshSound
<1>3. PICK j \in Numbers(s)' : Messages(s)'[j] = Messages(s)[k]
  BY <1>2
<1> QED
  BY <1>2, <1>3

LEMMA MessagesWithin ==
  ASSUME SessionsHold, NEW s \in Session
  PROVE  Within(Messages(s), Messages(s)) /\ Thins(Messages(s), Messages(s))
<1>1. Messages(s) \in Seq(Listed)
  BY DEF SessionsHold, Viewed, Messages
<1> HIDE DEF Messages
<1>2. Within(Messages(s), Messages(s))
  BY <1>1, WithinSelf
<1> QED
  BY <1>2, WithinThins

(* A session that keeps its listing, whatever others do: they take from it   *)
(* the paths of the messages that they touch.                               *)
LEMMA ViewStays ==
  ASSUME SessionInv, SessionsHold', NeverBack, NEW s \in Session,
         selected'[s] = selected[s], job'[s].done \subseteq job[s].done, fresh'[s] \subseteq fresh[s],
         \A m \in fresh'[s] : row'[m] = row[m]
  PROVE  /\ ListingSound(s)' /\ FreshSound(s)' /\ DoneSound(s)'
         /\ Messages(s)' = Messages(s) /\ Numbers(s)' = Numbers(s) /\ Marked(s)' = Marked(s)
         /\ Selects(s)' = Selects(s)
<1>1. Seat(s) /\ SessionsHold
  BY DEF SessionInv
<1>2. Messages(s)' = Messages(s) /\ Numbers(s)' = Numbers(s) /\ Marked(s)' = Marked(s) /\ Selects(s)' = Selects(s)
  BY DEF Messages, Numbers, Marked, Selects
<1>3. Thins(Messages(s)', Messages(s))
  <2>1. Thins(Messages(s), Messages(s))
    BY <1>1, MessagesWithin
  <2> QED
    BY <1>2, <2>1
<1>4. ListingSound(s)'
  BY <1>3, ListingThins
<1>5. FreshSound(s)'
  BY <1>2, FreshStays
<1>6. DoneSound(s)'
  BY <1>3, DoneStays
<1> QED
  BY <1>2, <1>4, <1>5, <1>6

LEMMA SeatStays ==
  ASSUME SessionInv, SessionsHold', NeverBack, NEW s \in Session,
         selected'[s] = selected[s], job'[s] = job[s], fresh'[s] \subseteq fresh[s],
         \A m \in fresh'[s] : row'[m] = row[m],
         idle'[s].on => idle[s].on, Len(idle'[s].queue) <= Capacity
  PROVE  Seat(s)'
<1>1. Seat(s)
  BY DEF SessionInv
<1>2. /\ ListingSound(s)' /\ FreshSound(s)' /\ DoneSound(s)' /\ Messages(s)' = Messages(s)
      /\ Marked(s)' = Marked(s) /\ Selects(s)' = Selects(s)
  BY ViewStays
<1>3. IdleSound(s)'
  BY <1>1, <1>2 DEF Seat, IdleSound
<1>4. TodoSound(s)'
  BY <1>1, <1>2 DEF Seat, TodoSound
<1> QED
  BY <1>2, <1>3, <1>4 DEF Seat

(* A session with no mailbox and nothing to do. *)
LEMMA SeatEmpty ==
  ASSUME SessionInv, SessionsHold', NeverBack, NEW s \in Session,
         selected'[s] = NotSelected, job'[s] = NoJob, fresh'[s] = {},
         ~idle'[s].on, Len(idle'[s].queue) <= Capacity
  PROVE  Seat(s)'
<1>1. Messages(s)' = <<>> /\ selected'[s].folder = 0 /\ Numbers(s)' = {}
  BY DEF Messages, NotSelected, Numbers, NoFolder
<1>2. folders \in Nat
  BY Kinds0 DEF SessionInv, Tables
<1>3. ListingSound(s)'
  BY <1>1, <1>2 DEF ListingSound, Ascends, NeverBack
<1>4. NoJob.kind = "none"
  BY DEF NoJob
<1>5. FreshSound(s)' /\ IdleSound(s)' /\ TodoSound(s)' /\ DoneSound(s)'
  BY <1>1, <1>4 DEF FreshSound, IdleSound, TodoSound, DoneSound
<1> QED
  BY <1>3, <1>5 DEF Seat

(* A session that has just read its folder. *)
LEMMA SeatListed ==
  ASSUME SessionInv, SessionsHold', UNCHANGED store, NEW s \in Session, NEW f \in Folder, f <= folders,
         selected'[s].folder = f, Messages(s)' = Listing(f), fresh'[s] = In(f), job'[s] = NoJob,
         Len(idle'[s].queue) <= Capacity
  PROVE  Seat(s)'
<1> DEFINE list == Listing(f)
<1>1. Tables /\ Placed /\ row' = row /\ ids' = ids /\ uidNext' = uidNext /\ folders' = folders
  BY DEF SessionInv, store
<1>2. /\ list \in Seq(Listed) /\ Ascends(list)
      /\ \A k \in DOMAIN list : list[k].id \in In(f) /\ list[k] = Entry(list[k].id)
      /\ \A m \in In(f) : \E k \in DOMAIN list : list[k] = Entry(m)
  BY <1>1, ListingLists
<1>3. f # NoFolder /\ NoJob.kind = "none" /\ NoJob.done = {}
  BY Kinds0 DEF NoJob
<1> HIDE DEF list
<1>4. Messages(s)' = list /\ Numbers(s)' = DOMAIN list
  BY DEF list, Numbers
<1>5. \A k \in DOMAIN list : list[k].uid = row[list[k].id].uid /\ list[k].id \in Live /\ row[list[k].id].folder = f
  <2>1. \A m \in In(f) : m \in Live /\ row[m].folder = f
    BY <1>3 DEF In, Live
  <2>2. \A m \in In(f) : Entry(m).uid = row[m].uid
    BY DEF Entry
  <2> QED
    BY <1>2, <2>1, <2>2
<1>6. ListingSound(s)'
  <2>1. \A k \in DOMAIN list : list[k].id \in ids /\ list[k].uid < uidNext[f]
    BY <1>1, <1>5 DEF Placed, UidsApart
  <2> QED
    BY <1>1, <1>2, <1>3, <1>4, <2>1 DEF ListingSound, Selects
<1>7. FreshSound(s)'
  <2> SUFFICES ASSUME NEW m \in In(f)
               PROVE  \E k \in DOMAIN list : /\ list[k].id = m
                                             /\ row[m] = [folder |-> f, uid |-> list[k].uid, flags |-> list[k].flags]
    BY <1>1, <1>4 DEF FreshSound
  <2>1. PICK k \in DOMAIN list : list[k] = Entry(m)
    BY <1>2
  <2>2. list[k].id = m /\ list[k].uid = row[m].uid /\ list[k].flags = row[m].flags
    BY <2>1 DEF Entry
  <2>3. row[m] \in Row /\ row[m].folder = f
    BY <1>1 DEF In, Tables
  <2> QED
    BY <2>2, <2>3 DEF Row
<1>8. IdleSound(s)' /\ TodoSound(s)' /\ DoneSound(s)'
  BY <1>3 DEF IdleSound, TodoSound, DoneSound, Selects
<1> QED
  BY <1>6, <1>7, <1>8 DEF Seat

(* Every event of a folder reaches whoever waits, or pushes out an older one. *)
LEMMA PublishStep ==
  ASSUME SessionsHold, NEW event \in {Other} \cup Folder, Publish(event)
  PROVE  /\ idle' \in [Session -> Waited]
         /\ \A s \in Session : /\ idle'[s].on = idle[s].on
                               /\ Len(idle[s].queue) <= Capacity => Len(idle'[s].queue) <= Capacity
                               /\ ~idle[s].on => idle'[s] = idle[s]
<1>1. ASSUME NEW s \in Session
      PROVE  LET i == Queued(idle[s], event)
             IN i \in Waited /\ i.on = idle[s].on /\ (Len(idle[s].queue) <= Capacity => Len(i.queue) <= Capacity)
  <2>1. idle[s] \in Waited /\ idle[s].queue \in Seq({Other} \cup Folder) /\ Len(idle[s].queue) \in Nat
    BY DEF SessionsHold, Waited
  <2>2. CASE Len(idle[s].queue) < Capacity
    <3> DEFINE q == Append(idle[s].queue, event)
    <3>1. q \in Seq({Other} \cup Folder) /\ Len(q) = Len(idle[s].queue) + 1
      BY <2>1
    <3> HIDE DEF q
    <3>2. Queued(idle[s], event) = [idle[s] EXCEPT !.queue = q]
      BY <2>2 DEF Queued, q
    <3> QED
      BY <2>1, <2>2, <3>1, <3>2, Kinds0 DEF Waited
  <2>3. CASE ~(Len(idle[s].queue) < Capacity)
    <3> DEFINE t == Tail(idle[s].queue)
               q == Append(t, event)
    <3>1. Len(idle[s].queue) > 0
      BY <2>1, <2>3, Kinds0
    <3>2. t \in Seq({Other} \cup Folder) /\ Len(t) = Len(idle[s].queue) - 1
      BY <2>1, <3>1
    <3>3. q \in Seq({Other} \cup Folder) /\ Len(q) = Len(idle[s].queue)
      BY <2>1, <3>2
    <3> HIDE DEF t, q
    <3>4. Queued(idle[s], event) = [idle[s] EXCEPT !.queue = q, !.lagged = TRUE]
      BY <2>3 DEF Queued, q, t
    <3> QED
      BY <2>1, <3>3, <3>4 DEF Waited
  <2> QED
    BY <2>2, <2>3
<1>2. idle' = [s \in Session |-> IF idle[s].on THEN Queued(idle[s], event) ELSE idle[s]]
  BY DEF Publish
<1>3. \A s \in Session : idle[s] \in Waited
  BY DEF SessionsHold
<1> QED
  BY <1>1, <1>2, <1>3

LEMMA ProceedsTo ==
  ASSUME SessionsHold, NEW s \in Session, Seat(s), job[s].kind # "none", Proceeds(s)
  PROVE  /\ job' \in [Session -> Job] /\ \A t \in Session : t # s => job'[t] = job[t]
         /\ \/ Len(job[s].todo) = 1 /\ job'[s] = NoJob
            \/ /\ Len(job[s].todo) # 1 /\ Tail(job[s].todo) # <<>>
               /\ job'[s].kind = job[s].kind /\ job'[s].todo = Tail(job[s].todo)
               /\ job'[s].done = job[s].done /\ job'[s].to = job[s].to /\ job'[s].as = job[s].as
<1>1. Tail(job[s].todo) \in Seq(Target) /\ (Len(job[s].todo) # 1 => Tail(job[s].todo) # <<>>)
  BY JobHead
<1>2. NoJob \in Job /\ job[s] \in Job /\ job \in [Session -> Job]
  BY DEF NoJob, Job, SessionsHold
<1> DEFINE rest == [job[s] EXCEPT !.todo = Tail(job[s].todo)]
           coming == IF Len(job[s].todo) = 1 THEN NoJob ELSE rest
<1>4. rest \in Job /\ rest.kind = job[s].kind /\ rest.todo = Tail(job[s].todo)
      /\ rest.done = job[s].done /\ rest.to = job[s].to /\ rest.as = job[s].as
  BY <1>1, <1>2 DEF Job
<1>5. job' = [job EXCEPT ![s] = coming]
  BY DEF Proceeds
<1> HIDE DEF rest
<1>6. coming \in Job
  BY <1>2, <1>4
<1>7. (Len(job[s].todo) = 1 /\ coming = NoJob) \/ (Len(job[s].todo) # 1 /\ coming = rest)
  OBVIOUS
<1> HIDE DEF coming
<1>8. job'[s] = coming /\ job' \in [Session -> Job] /\ \A t \in Session : t # s => job'[t] = job[t]
  BY <1>2, <1>5, <1>6
<1> QED
  BY <1>1, <1>4, <1>7, <1>8

(* What is left to be done of a command is as sound as it was. *)
LEMMA TailSound ==
  ASSUME SessionsHold, NEW s \in Session, Seat(s), job[s].kind # "none", Proceeds(s),
         job[s].kind \in {"expunge", "close"} =>
           \A k \in Marked(s) : \/ Messages(s)[k].id = Head(job[s].todo).id /\ job[s].kind = "expunge"
                                \/ \E j \in Marked(s)' : Messages(s)'[j].id = Messages(s)[k].id
  PROVE  TodoSound(s)'
<1> DEFINE q == job[s].todo
           t == Tail(q)
<1>1. /\ q # <<>> /\ 1 \in DOMAIN q /\ Head(q) = q[1]
      /\ \A i \in DOMAIN t : i + 1 \in DOMAIN q /\ t[i] = q[i + 1] /\ i \in Nat \ {0}
  BY JobHead
<1>2. TodoSound(s)
  BY DEF Seat
<1>3. \/ job'[s] = NoJob
      \/ t # <<>> /\ job'[s].kind = job[s].kind /\ job'[s].todo = t
         /\ job'[s].to = job[s].to /\ job'[s].as = job[s].as
  BY ProceedsTo
<1>4. CASE job'[s] = NoJob
  BY <1>4 DEF TodoSound, NoJob
<1>5. CASE t # <<>> /\ job'[s].kind = job[s].kind /\ job'[s].todo = t
           /\ job'[s].to = job[s].to /\ job'[s].as = job[s].as
  <2> HIDE DEF t, q
  <2>1. ASSUME job[s].kind \in {"expunge", "close"}, NEW i \in DOMAIN t
        PROVE  \E j \in Marked(s)' : Messages(s)'[j].id = t[i].id
    <3>1. i + 1 \in DOMAIN q /\ t[i] = q[i + 1] /\ i + 1 # 1
      BY <1>1, <2>1
    <3>2. PICK k \in Marked(s) : Messages(s)[k].id = q[i + 1].id
      BY <1>2, <2>1, <3>1 DEF TodoSound, q
    <3>3. ~(Messages(s)[k].id = Head(q).id /\ job[s].kind = "expunge")
      <4>1. SUFFICES ASSUME q[i + 1].id = q[1].id, job[s].kind = "expunge" PROVE FALSE
        BY <1>1, <3>2
      <4> QED
        BY <1>1, <1>2, <3>1, <4>1 DEF TodoSound, q
    <3>4. PICK j \in Marked(s)' : Messages(s)'[j].id = Messages(s)[k].id
      BY <2>1, <3>3 DEF q
    <3> QED
      BY <3>1, <3>2, <3>4
  <2>2. ASSUME job[s].kind = "expunge", NEW i \in DOMAIN t, NEW j \in DOMAIN t, t[i].id = t[j].id PROVE i = j
    <3>1. i + 1 = j + 1
      BY <1>1, <1>2, <2>2 DEF TodoSound, q
    <3> QED
      BY <1>1, <3>1
  <2> QED
    BY <1>2, <1>5, <2>1, <2>2 DEF TodoSound
<1> QED
  BY <1>3, <1>4, <1>5

(* What every step leaves a session that does not take it. *)
Keeps(t) ==
  /\ selected'[t] = selected[t] /\ job'[t] = job[t]
  /\ fresh'[t] \subseteq fresh[t] /\ \A m \in fresh'[t] : row'[m] = row[m]
  /\ idle'[t].on = idle[t].on /\ Len(idle'[t].queue) <= Capacity
Sessions == SessionsHold' /\ \A t \in Session : Seat(t)'

LEMMA OneSession ==
  ASSUME SessionInv, SessionsHold', NeverBack, NEW s \in Session, Seat(s)',
         \A t \in Session : t # s => Keeps(t)
  PROVE  Sessions
<1>1. ASSUME NEW t \in Session, t # s PROVE Seat(t)'
  BY <1>1, SeatStays DEF Keeps
<1> QED
  BY <1>1 DEF Sessions

LEMMA EverySession ==
  ASSUME SessionInv, SessionsHold', NeverBack, \A t \in Session : Keeps(t)
  PROVE  Sessions
<1>1. ASSUME NEW t \in Session PROVE Seat(t)'
  BY SeatStays DEF Keeps
<1> QED
  BY <1>1 DEF Sessions

(* A session's mailbox is replaced, or its listing. *)
LEMMA ViewSet ==
  ASSUME SessionsHold, NEW s \in Session, NEW v \in Viewed, selected' = [selected EXCEPT ![s] = v]
  PROVE  /\ selected' \in [Session -> Viewed] /\ selected'[s] = v /\ Messages(s)' = v.messages
         /\ \A t \in Session : t # s => selected'[t] = selected[t]
BY DEF SessionsHold, Messages

LEMMA MessagesSet ==
  ASSUME SessionsHold, NEW s \in Session, NEW list \in Seq(Listed),
         selected' = [selected EXCEPT ![s].messages = list]
  PROVE  /\ selected' \in [Session -> Viewed] /\ Messages(s)' = list /\ selected'[s].folder = selected[s].folder
         /\ \A t \in Session : t # s => selected'[t] = selected[t]
<1> DEFINE v == [selected[s] EXCEPT !.messages = list]
<1>1. selected[s] \in Viewed
  BY DEF SessionsHold
<1>2. v \in Viewed /\ v.messages = list /\ v.folder = selected[s].folder
  BY <1>1 DEF Viewed
<1>3. selected' = [selected EXCEPT ![s] = v]
  OBVIOUS
<1> HIDE DEF v
<1> QED
  BY <1>2, <1>3, ViewSet

(* The numbers a client has, by the listing: those it is told of.           *)
LEMMA IdsKinds ==
  ASSUME NEW list \in Seq(Listed)
  PROVE  /\ Ids(list) \in Seq(Message) /\ Len(Ids(list)) = Len(list) /\ DOMAIN Ids(list) = DOMAIN list
         /\ \A k \in DOMAIN list : Ids(list)[k] = list[k].id
<1>0. DOMAIN list = 1..Len(list) /\ Len(list) \in Nat /\ \A k \in DOMAIN list : list[k] \in Listed
  OBVIOUS
<1>1. DOMAIN list = 1..Len(list) /\ Len(list) \in Nat /\ \A k \in DOMAIN list : list[k].id \in Message
  <2>1. \A e \in Listed : e.id \in Message
    BY DEF Listed
  <2> QED
    BY <1>0, <2>1
<1> QED
  BY <1>1 DEF Ids

LEMMA HeardKinds ==
  ASSUME NEW t \in Seq(Message), NEW list \in Seq(Listed)
  PROVE  /\ Heard(t, list) \in Seq(Message) /\ Len(Heard(t, list)) = Len(list) /\ DOMAIN Heard(t, list) = DOMAIN list
         /\ \A k \in DOMAIN list : Heard(t, list)[k] = IF k \in DOMAIN t THEN t[k] ELSE list[k].id
<1>0. DOMAIN list = 1..Len(list) /\ Len(list) \in Nat /\ \A k \in DOMAIN list : list[k] \in Listed
  OBVIOUS
<1>1. DOMAIN list = 1..Len(list) /\ Len(list) \in Nat /\ \A k \in DOMAIN list : list[k].id \in Message
  <2>1. \A e \in Listed : e.id \in Message
    BY DEF Listed
  <2> QED
    BY <1>0, <2>1
<1>2. \A k \in DOMAIN t : t[k] \in Message
  OBVIOUS
<1> DEFINE h == [k \in DOMAIN list |-> IF k \in DOMAIN t THEN t[k] ELSE list[k].id]
<1>3. Heard(t, list) = h
  BY DEF Heard
<1>4. \A k \in DOMAIN list : h[k] \in Message
  BY <1>1, <1>2
<1>5. h \in Seq(Message) /\ Len(h) = Len(list) /\ DOMAIN h = DOMAIN list
  BY <1>1, <1>4
<1> QED
  BY <1>3, <1>5

(* A path that has changed is forgotten by everyone. *)
LEMMA FreshKeeps ==
  ASSUME SessionInv, NEW X, fresh' = [c \in Session |-> fresh[c] \ X]
  PROVE  /\ fresh' \in [Session -> SUBSET Message]
         /\ \A t \in Session : fresh'[t] \subseteq fresh[t] /\ fresh'[t] \cap X = {} /\ fresh'[t] \subseteq Message
<1>1. \A t \in Session : fresh[t] \in SUBSET Message
  BY DEF SessionInv, SessionsHold
<1> QED
  BY <1>1

(* The paths a session knows are those of messages that were numbered.      *)
LEMMA FreshNumbered ==
  ASSUME SessionInv, NEW t \in Session, NEW m \in fresh[t]
  PROVE  m \in ids /\ m \in Message /\ row[m].folder = selected[t].folder
<1>1. PICK k \in Numbers(t) : Messages(t)[k].id = m /\ row[m].folder = selected[t].folder
  <2>1. FreshSound(t)
    BY DEF SessionInv, Seat
  <2>2. PICK k \in Numbers(t) :
          /\ Messages(t)[k].id = m
          /\ row[m] = [folder |-> selected[t].folder, uid |-> Messages(t)[k].uid, flags |-> Messages(t)[k].flags]
    BY <2>1 DEF FreshSound
  <2> QED
    BY <2>2
<1>2. m \in ids
  BY <1>1 DEF SessionInv, Seat, ListingSound
<1> QED
  BY <1>1, <1>2 DEF SessionInv, Tables

LEMMA Untouched ==
  ASSUME SessionInv, NEW t \in Session, selected'[t] = selected[t], job'[t] = job[t],
         fresh'[t] \subseteq fresh[t], \A m \in fresh'[t] : row'[m] = row[m], idle'[t] = idle[t]
  PROVE  Keeps(t)
<1>1. Len(idle[t].queue) <= Capacity
  BY DEF SessionInv, Seat, IdleSound
<1> QED
  BY <1>1 DEF Keeps

LEMMA FoldersStep ==
  ASSUME SessionInv, NeverBack, NEW s \in Session, Folders(s)
  PROVE  Sessions
<1>1. UNCHANGED <<selected, idle, job, told>>
  BY DEF Folders, Create, Delete, Rename
<1>2. CASE UNCHANGED <<fresh, row>>
  <2>1. SessionsHold'
    BY <1>1, <1>2 DEF SessionInv, SessionsHold
  <2>2. \A t \in Session : Keeps(t)
    BY <1>1, <1>2, Untouched
  <2> QED
    BY <2>1, <2>2, EverySession
<1>3. ASSUME NEW f \in Folder, fresh' = [c \in Session |-> fresh[c] \ In(f)],
             row' = row \/ row' = [m \in Message |-> IF m \in In(f) THEN NoRow ELSE row[m]]
      PROVE  Sessions
  <2>1. /\ fresh' \in [Session -> SUBSET Message]
        /\ \A t \in Session : fresh'[t] \subseteq fresh[t] /\ fresh'[t] \cap In(f) = {} /\ fresh'[t] \subseteq Message
    BY <1>3, FreshKeeps
  <2>2. SessionsHold'
    BY <1>1, <2>1 DEF SessionInv, SessionsHold
  <2>3. \A t \in Session : \A m \in fresh'[t] : row'[m] = row[m]
    BY <1>3, <2>1
  <2>4. \A t \in Session : Keeps(t)
    BY <1>1, <2>1, <2>3, Untouched
  <2> QED
    BY <2>2, <2>4, EverySession
<1>4. ASSUME NEW n \in Name, Create(s, n) PROVE Sessions
  BY <1>2, <1>4 DEF Create
<1>5. ASSUME NEW n \in Name, Delete(s, n) PROVE Sessions
  <2>1. PICK f \in Find(n) : /\ row' = [m \in Message |-> IF m \in In(f) THEN NoRow ELSE row[m]]
                             /\ fresh' = [c \in Session |-> fresh[c] \ In(f)]
    BY <1>5 DEF Delete
  <2> QED
    BY <1>3, <2>1 DEF Find
<1>6. ASSUME NEW from \in Name, NEW to \in Name, Rename(s, from, to) PROVE Sessions
  <2>1. PICK f \in Find(from) : fresh' = [c \in Session |-> fresh[c] \ In(f)]
    BY <1>6 DEF Rename
  <2>2. row' = row
    BY <1>6 DEF Rename
  <2> QED
    BY <1>3, <2>1, <2>2 DEF Find
<1> QED
  BY <1>4, <1>5, <1>6 DEF Folders

(* The mailbox is given up. *)
LEMMA DeselectStep ==
  ASSUME SessionsHold, NEW s \in Session, Deselect(s)
  PROVE  /\ selected' \in [Session -> Viewed] /\ fresh' \in [Session -> SUBSET Message] /\ told' \in [Session -> Seq(Message)]
         /\ selected'[s] = NotSelected /\ fresh'[s] = {}
         /\ \A t \in Session : t # s => selected'[t] = selected[t] /\ fresh'[t] = fresh[t]
<1>1. <<>> \in Seq(Listed) /\ <<>> \in Seq(Message)
  OBVIOUS
<1>2. NotSelected \in Viewed
  BY <1>1, Kinds0 DEF NotSelected, Viewed
<1>3. selected' = [selected EXCEPT ![s] = NotSelected] /\ fresh' = [fresh EXCEPT ![s] = {}] /\ told' = [told EXCEPT ![s] = <<>>]
  BY DEF Deselect
<1> QED
  BY <1>1, <1>2, <1>3 DEF SessionsHold

LEMMA OpensStep ==
  ASSUME SessionInv, NeverBack, NEW s \in Session, Opens(s)
  PROVE  Sessions
<1>0. SessionsHold /\ Seat(s) /\ Tables /\ Placed
  BY DEF SessionInv
<1>1. UNCHANGED store /\ job' = job /\ row' = row
  BY DEF Opens, Leave, Select, Unselect, store
<1>2. job[s].kind = "none" /\ job[s] = NoJob
  <2>1. job[s].kind = "none"
    BY DEF Opens, Leave, Select, Unselect, Free
  <2> QED
    BY <1>0, <2>1 DEF Seat, TodoSound
<1>3. NotIdle \in Waited /\ ~NotIdle.on /\ Len(NotIdle.queue) <= Capacity
  <2>1. <<>> \in Seq({Other} \cup Folder) /\ Len(<<>>) = 0
    OBVIOUS
  <2> QED
    BY <2>1, Kinds0 DEF NotIdle, Waited
<1>4. ASSUME Deselect(s), idle' \in [Session -> Waited], ~idle'[s].on, Len(idle'[s].queue) <= Capacity,
             \A t \in Session : t # s => idle'[t] = idle[t]
      PROVE  Sessions
  <2>1. /\ selected' \in [Session -> Viewed] /\ fresh' \in [Session -> SUBSET Message] /\ told' \in [Session -> Seq(Message)]
        /\ selected'[s] = NotSelected /\ fresh'[s] = {}
        /\ \A t \in Session : t # s => selected'[t] = selected[t] /\ fresh'[t] = fresh[t]
    BY <1>0, <1>4, DeselectStep
  <2>2. SessionsHold'
    BY <1>0, <1>1, <1>4, <2>1 DEF SessionsHold
  <2>3. Seat(s)'
    BY <1>1, <1>2, <1>4, <2>1, <2>2, SeatEmpty
  <2>4. \A t \in Session : t # s => Keeps(t)
    BY <1>1, <1>4, <2>1, Untouched
  <2> QED
    BY <2>2, <2>3, <2>4, OneSession
<1>5. CASE Leave(s)
  <2>1. idle' = [idle EXCEPT ![s] = NotIdle] /\ Deselect(s)
    BY <1>5 DEF Leave
  <2>2. idle' \in [Session -> Waited] /\ idle'[s] = NotIdle /\ \A t \in Session : t # s => idle'[t] = idle[t]
    BY <1>0, <1>3, <2>1 DEF SessionsHold
  <2> QED
    BY <1>3, <1>4, <2>1, <2>2
<1>6. CASE Unselect(s)
  <2>1. idle' = idle /\ ~idle[s].on /\ Deselect(s) /\ idle \in [Session -> Waited] /\ Len(idle[s].queue) <= Capacity
    BY <1>0, <1>6 DEF Unselect, Free, SessionsHold, Seat, IdleSound
  <2> QED
    BY <1>4, <2>1
<1>7. ASSUME NEW n \in Name, NEW read_only \in BOOLEAN, Select(s, n, read_only) PROVE Sessions
  <2>1. PICK f \in Find(n) :
       /\ selected' = [selected EXCEPT ![s] =
            [folder |-> f, read_only |-> read_only, messages |-> Listing(f)]]
       /\ fresh' = [fresh EXCEPT ![s] = In(f)]
       /\ told' = [told EXCEPT ![s] = Ids(Listing(f))]
    BY <1>7 DEF Select
  <2>2. f \in Folder /\ f <= folders
    BY <1>0, Kinds0 DEF Find, Tables
  <2> DEFINE list == Listing(f)
             v == [folder |-> f, read_only |-> read_only, messages |-> list]
  <2>3. list \in Seq(Listed)
    BY <1>0, <2>2, ListingLists
  <2>4. Ids(list) \in Seq(Message) /\ In(f) \in SUBSET Message
    BY <2>3, IdsKinds DEF In
  <2>5. v \in Viewed /\ v.messages = list /\ v.folder = f
    <3> HIDE DEF list
    <3> QED
      BY <2>2, <2>3 DEF Viewed
  <2>6. selected' = [selected EXCEPT ![s] = v]
    BY <2>1
  <2> HIDE DEF v
  <2>7. /\ selected' \in [Session -> Viewed] /\ selected'[s] = v /\ Messages(s)' = v.messages
        /\ \A t \in Session : t # s => selected'[t] = selected[t]
    BY <1>0, <2>5, <2>6, ViewSet
  <2>8. /\ fresh' \in [Session -> SUBSET Message] /\ fresh'[s] = In(f) /\ told' \in [Session -> Seq(Message)]
        /\ \A t \in Session : t # s => fresh'[t] = fresh[t]
    <3> HIDE DEF list
    <3> QED
      BY <1>0, <2>1, <2>4 DEF SessionsHold, list
  <2>9. idle' = idle /\ Len(idle[s].queue) <= Capacity
    BY <1>0, <1>7 DEF Select, Seat, IdleSound
  <2>10. SessionsHold'
    BY <1>0, <1>1, <2>7, <2>8, <2>9 DEF SessionsHold
  <2>11. Seat(s)'
    BY <1>1, <1>2, <2>2, <2>5, <2>7, <2>8, <2>9, <2>10, SeatListed
  <2>12. \A t \in Session : t # s => Keeps(t)
    BY <1>1, <2>7, <2>8, <2>9, Untouched
  <2> QED
    BY <2>10, <2>11, <2>12, OneSession
<1> QED
  BY <1>5, <1>6, <1>7 DEF Opens

LEMMA IdlesStep ==
  ASSUME SessionInv, NeverBack, NEW s \in Session, Idles(s)
  PROVE  Sessions
<1>0. SessionsHold /\ Seat(s) /\ Tables /\ Placed
  BY DEF SessionInv
<1>1. UNCHANGED store /\ job' = job /\ row' = row
  BY DEF Idles, Idle, Push, PushLagged, EndIdle, store
<1>2. idle[s] \in Waited /\ Len(idle[s].queue) <= Capacity /\ idle \in [Session -> Waited]
  BY <1>0 DEF SessionsHold, Seat, IdleSound
<1>3. ASSUME NEW i \in Waited, idle' = [idle EXCEPT ![s] = i], Len(i.queue) <= Capacity, UNCHANGED <<selected, fresh>>,
             told' \in [Session -> Seq(Message)], i.on => Selects(s) /\ job[s] = NoJob
      PROVE  Sessions
  <2>1. idle' \in [Session -> Waited] /\ idle'[s] = i /\ \A t \in Session : t # s => idle'[t] = idle[t]
    BY <1>2, <1>3
  <2>2. SessionsHold'
    BY <1>0, <1>1, <1>3, <2>1 DEF SessionsHold
  <2>3. /\ ListingSound(s)' /\ FreshSound(s)' /\ DoneSound(s)' /\ Messages(s)' = Messages(s)
        /\ Marked(s)' = Marked(s) /\ Selects(s)' = Selects(s)
    BY <1>1, <1>3, <2>2, ViewStays
  <2>4. IdleSound(s)'
    BY <1>1, <1>3, <2>1, <2>3 DEF IdleSound
  <2>5. TodoSound(s)'
    BY <1>0, <1>1, <2>3 DEF Seat, TodoSound
  <2>6. Seat(s)'
    BY <2>3, <2>4, <2>5 DEF Seat
  <2>7. \A t \in Session : t # s => Keeps(t)
    BY <1>1, <1>3, <2>1, Untouched
  <2> QED
    BY <2>2, <2>6, <2>7, OneSession
<1>4. NotIdle \in Waited /\ ~NotIdle.on /\ Len(NotIdle.queue) <= Capacity
  <2>1. <<>> \in Seq({Other} \cup Folder) /\ Len(<<>>) = 0
    OBVIOUS
  <2> QED
    BY <2>1, Kinds0 DEF NotIdle, Waited
<1>5. told \in [Session -> Seq(Message)] /\ Messages(s) \in Seq(Listed) /\ told[s] \in Seq(Message)
  BY <1>0 DEF SessionsHold, Viewed, Messages
<1>6. CASE Idle(s)
  <2> DEFINE i == [NotIdle EXCEPT !.on = TRUE]
  <2>1. idle' = [idle EXCEPT ![s] = i] /\ UNCHANGED <<selected, fresh, told>> /\ Selects(s) /\ job[s].kind = "none"
    BY <1>6 DEF Idle, Free
  <2>2. i \in Waited /\ i.queue = NotIdle.queue
    BY <1>4 DEF Waited
  <2>3. job[s] = NoJob
    BY <1>0, <2>1 DEF Seat, TodoSound
  <2> HIDE DEF i
  <2> QED
    BY <1>3, <1>4, <1>5, <2>1, <2>2, <2>3
<1>7. CASE EndIdle(s)
  <2>1. idle' = [idle EXCEPT ![s] = NotIdle] /\ UNCHANGED <<selected, fresh, told>>
    BY <1>7 DEF EndIdle
  <2> QED
    BY <1>3, <1>4, <1>5, <2>1
<1>8. CASE PushLagged(s)
  <2> DEFINE i == [idle[s] EXCEPT !.lagged = FALSE]
             h == Heard(told[s], Messages(s))
  <2>1. idle' = [idle EXCEPT ![s] = i] /\ UNCHANGED <<selected, fresh>> /\ told' = [told EXCEPT ![s] = h] /\ idle[s].on
    BY <1>8 DEF PushLagged
  <2>2. i \in Waited /\ Len(i.queue) <= Capacity
    BY <1>2 DEF Waited
  <2>3. h \in Seq(Message)
    BY <1>5, HeardKinds
  <2> HIDE DEF i, h
  <2>4. told' \in [Session -> Seq(Message)]
    BY <1>5, <2>1, <2>3
  <2>5. Selects(s) /\ job[s] = NoJob
    BY <1>0, <2>1 DEF Seat, IdleSound
  <2> QED
    BY <1>3, <2>1, <2>2, <2>4, <2>5
<1>9. CASE Push(s)
  <2> DEFINE q == Tail(idle[s].queue)
             i == [idle[s] EXCEPT !.queue = q]
  <2>1. idle' = [idle EXCEPT ![s] = i] /\ idle[s].on /\ idle[s].queue # <<>>
    BY <1>9 DEF Push
  <2>2. Selects(s) /\ job[s] = NoJob
    BY <1>0, <2>1 DEF Seat, IdleSound
  <2>3. i \in Waited /\ Len(i.queue) <= Capacity
    <3>1. idle[s].queue \in Seq({Other} \cup Folder) /\ Len(idle[s].queue) \in Nat
      BY <1>2 DEF Waited
    <3>2. q \in Seq({Other} \cup Folder) /\ Len(q) = Len(idle[s].queue) - 1
      BY <2>1, <3>1
    <3> HIDE DEF q
    <3>3. i \in Waited /\ i.queue = q
      BY <1>2, <3>2 DEF Waited
    <3>4. Len(q) <= Capacity
      BY <1>2, <3>1, <3>2, Kinds0
    <3> QED
      BY <3>3, <3>4
  <2> HIDE DEF i
  <2>4. CASE UNCHANGED <<selected, fresh, told>>
    BY <1>3, <1>5, <2>1, <2>2, <2>3, <2>4
  <2>5. CASE Refresh(s)
    <3> DEFINE f == selected[s].folder
               list == Listing(f)
               h == Heard(told[s], list)
    <3>1. f \in Folder /\ f <= folders
      BY <1>0, <2>2, Kinds0 DEF SessionsHold, Viewed, Selects, Seat, ListingSound
    <3>2. list \in Seq(Listed) /\ In(f) \in SUBSET Message
      BY <1>0, <3>1, ListingLists DEF In
    <3>3. selected' = [selected EXCEPT ![s].messages = list] /\ fresh' = [fresh EXCEPT ![s] = In(f)]
          /\ told' = [told EXCEPT ![s] = h]
      BY <2>5 DEF Refresh
    <3> HIDE DEF list
    <3>4. h \in Seq(Message)
      BY <1>5, <3>2, HeardKinds
    <3> HIDE DEF h
    <3>5. told' \in [Session -> Seq(Message)]
      BY <1>5, <3>3, <3>4
    <3>6. /\ selected' \in [Session -> Viewed] /\ Messages(s)' = list /\ selected'[s].folder = f
          /\ \A t \in Session : t # s => selected'[t] = selected[t]
      BY <1>0, <3>2, <3>3, MessagesSet
    <3>7. fresh' \in [Session -> SUBSET Message] /\ fresh'[s] = In(f) /\ \A t \in Session : t # s => fresh'[t] = fresh[t]
      <4>1. fresh \in [Session -> SUBSET Message]
        BY <1>0 DEF SessionsHold
      <4> HIDE DEF f
      <4> QED
        BY <3>2, <3>3, <4>1
    <3>8. idle' \in [Session -> Waited] /\ idle'[s] = i /\ \A t \in Session : t # s => idle'[t] = idle[t]
      BY <1>2, <2>1, <2>3
    <3>9. SessionsHold'
      BY <1>0, <1>1, <3>5, <3>6, <3>7, <3>8 DEF SessionsHold
    <3>10. Seat(s)'
      <4>1. job'[s] = NoJob /\ Len(idle'[s].queue) <= Capacity /\ Messages(s)' = Listing(f)
        BY <1>1, <2>2, <2>3, <3>6, <3>8 DEF list
      <4> QED
        BY <1>1, <3>1, <3>6, <3>7, <3>9, <4>1, SeatListed
    <3>11. \A t \in Session : t # s => Keeps(t)
      BY <1>1, <3>6, <3>7, <3>8, Untouched
    <3> QED
      BY <3>9, <3>10, <3>11, OneSession
  <2> QED
    BY <1>9, <2>4, <2>5 DEF Push
<1> QED
  BY <1>6, <1>7, <1>8, <1>9 DEF Idles

(* A command is begun, or given up. *)
LEMMA JobStep ==
  ASSUME SessionInv, NeverBack, NEW s \in Session, NEW j \in Job, job' = [job EXCEPT ![s] = j],
         UNCHANGED <<store, selected, fresh, idle, told>>, j.done = {}, idle[s].on => j = NoJob,
         j.kind = "none" => j = NoJob,
         j.kind # "none" => j.todo # <<>>,
         j.kind \in {"copy", "move"} => j.to \in Folder /\ j.as # None,
         j.kind \in {"expunge", "close"} =>
           \A i \in DOMAIN j.todo : \E k \in Marked(s) : Messages(s)[k].id = j.todo[i].id,
         j.kind = "expunge" => \A i, h \in DOMAIN j.todo : j.todo[i].id = j.todo[h].id => i = h
  PROVE  Sessions
<1>0. SessionsHold /\ Seat(s) /\ row' = row
  BY DEF SessionInv, store
<1>1. job' \in [Session -> Job] /\ job'[s] = j /\ \A t \in Session : t # s => job'[t] = job[t]
  BY <1>0 DEF SessionsHold
<1>2. SessionsHold'
  BY <1>0, <1>1 DEF SessionsHold
<1>3. /\ ListingSound(s)' /\ FreshSound(s)' /\ DoneSound(s)' /\ Messages(s)' = Messages(s)
      /\ Marked(s)' = Marked(s) /\ Selects(s)' = Selects(s)
  BY <1>0, <1>1, <1>2, ViewStays
<1>4. IdleSound(s)'
  BY <1>0, <1>1, <1>3 DEF Seat, IdleSound
<1>5. TodoSound(s)'
  BY <1>1, <1>3 DEF TodoSound
<1>6. Seat(s)'
  BY <1>3, <1>4, <1>5 DEF Seat
<1>7. \A t \in Session : t # s => Keeps(t)
  BY <1>0, <1>1, Untouched
<1> QED
  BY <1>2, <1>6, <1>7, OneSession

LEMMA AbandonStep ==
  ASSUME SessionInv, NeverBack, NEW s \in Session, Abandon(s)
  PROVE  Sessions
<1>1. NoJob \in Job /\ NoJob.done = {} /\ NoJob.kind = "none"
  <2>1. <<>> \in Seq(Target)
    OBVIOUS
  <2> QED
    BY <2>1 DEF NoJob, Job
<1>2. job' = [job EXCEPT ![s] = NoJob] /\ UNCHANGED <<store, selected, fresh, idle, told>>
  BY DEF Abandon
<1> QED
  BY <1>1, <1>2, JobStep

(* The numbers that a command works through, with the messages that have them. *)
LEMMA TargetsList ==
  ASSUME SessionInv, NEW s \in Session, NEW numbers \in SUBSET Numbers(s), numbers # {}
  PROVE  LET t == Targets(s, numbers)
         IN /\ t \in Seq(Target) /\ t # <<>>
            /\ \A i \in DOMAIN t : \E k \in numbers : Messages(s)[k].id = t[i].id
            /\ \A i, h \in DOMAIN t : t[i].id = t[h].id => i = h
<1> DEFINE list == Messages(s)
           d == Downward(numbers)
           t == [i \in DOMAIN d |-> [number |-> d[i], id |-> list[d[i]].id]]
<1>1. list \in Seq(Listed) /\ numbers \subseteq DOMAIN list /\ ListingSound(s)
  BY DEF SessionInv, SessionsHold, Viewed, Messages, Numbers, Seat
<1>2. Targets(s, numbers) = t
  BY DEF Targets
<1>3. \A k \in DOMAIN list : list[k].id \in Message
  <2>1. \A e \in Listed : e.id \in Message
    BY DEF Listed
  <2>2. \A k \in DOMAIN list : list[k] \in Listed
    <3> HIDE DEF list
    <3> QED
      BY <1>1
  <2> QED
    BY <2>1, <2>2
<1>4. \A i, h \in DOMAIN list : list[i].id = list[h].id => i = h
  BY <1>1 DEF ListingSound, Ascends
<1> HIDE DEF list
<1>5. /\ d \in Seq(Nat \ {0}) /\ Len(d) = Cardinality(numbers) /\ Cardinality(numbers) \in Nat
      /\ \A i \in DOMAIN d : d[i] \in numbers
      /\ \A k \in numbers : \E i \in DOMAIN d : d[i] = k
      /\ \A i, h \in DOMAIN d : i < h => d[i] > d[h]
  BY <1>1, DownwardNumbers
<1> HIDE DEF d
<1>6. DOMAIN d = 1..Len(d) /\ Len(d) \in Nat /\ \A i \in DOMAIN d : d[i] \in Nat \ {0} /\ i \in Nat
  BY <1>5
<1>7. \A i \in DOMAIN d : d[i] \in DOMAIN list /\ list[d[i]].id \in Message
  BY <1>1, <1>3, <1>5
<1>8. \A i \in DOMAIN d : t[i] \in Target
  BY <1>6, <1>7 DEF Target
<1>9. t \in Seq(Target) /\ DOMAIN t = DOMAIN d
  BY <1>6, <1>8
<1>10. t # <<>>
  <2>1. PICK i \in DOMAIN d : TRUE
    BY <1>5
  <2>2. DOMAIN t # {}
    BY <1>9, <2>1
  <2> QED
    BY <2>2
<1>11. ASSUME NEW i \in DOMAIN d, NEW h \in DOMAIN d, t[i].id = t[h].id PROVE i = h
  <2>1. d[i] = d[h]
    BY <1>4, <1>7, <1>11
  <2>2. ~(i < h) /\ ~(h < i)
    BY <1>5, <1>6, <2>1
  <2> QED
    BY <1>6, <2>2
<1>12. \A i \in DOMAIN d : d[i] \in numbers /\ t[i].id = list[d[i]].id
  BY <1>5
<1> QED
  BY <1>2, <1>9, <1>10, <1>11, <1>12 DEF list

LEMMA BeginStep ==
  ASSUME SessionInv, NeverBack, NEW s \in Session,
         \/ BeginClose(s)
         \/ \E numbers \in SUBSET Numbers(s) : BeginExpunge(s, numbers)
         \/ \E numbers \in SUBSET Numbers(s), n \in Name, kind \in {"copy", "move"} : BeginFile(s, kind, numbers, n)
  PROVE  Sessions
<1>1. ASSUME NEW kind \in {"expunge", "close"}, NEW numbers \in SUBSET Numbers(s), numbers # {}, numbers \subseteq Marked(s),
             Begin(s, kind, Targets(s, numbers), NoFolder), Free(s)
      PROVE  Sessions
  <2> DEFINE t == Targets(s, numbers)
             j == [kind |-> kind, todo |-> t, done |-> {}, to |-> NoFolder, as |-> None]
  <2>1. /\ t \in Seq(Target) /\ t # <<>>
        /\ \A i \in DOMAIN t : \E k \in numbers : Messages(s)[k].id = t[i].id
        /\ \A i, h \in DOMAIN t : t[i].id = t[h].id => i = h
    BY <1>1, TargetsList
  <2>2. job' = [job EXCEPT ![s] = j] /\ UNCHANGED <<store, selected, fresh, idle, told>> /\ ~idle[s].on
    BY <1>1 DEF Begin, Free
  <2> HIDE DEF t
  <2>3. j \in Job /\ j.kind = kind /\ j.todo = t /\ j.done = {} /\ kind # "none" /\ kind \notin {"copy", "move"}
    BY <2>1, Kinds0 DEF Job
  <2> HIDE DEF j
  <2>4. \A i \in DOMAIN t : \E k \in Marked(s) : Messages(s)[k].id = t[i].id
    BY <1>1, <2>1
  <2>5. \A i, h \in DOMAIN j.todo : j.todo[i].id = j.todo[h].id => i = h
    BY <2>1, <2>3
  <2>6. \A i \in DOMAIN j.todo : \E k \in Marked(s) : Messages(s)[k].id = j.todo[i].id
    BY <2>3, <2>4
  <2>7. j.todo # <<>>
    BY <2>1, <2>3
  <2> QED
    BY <2>2, <2>3, <2>5, <2>6, <2>7, JobStep
<1>2. CASE BeginClose(s)
  <2>1. Marked(s) \in SUBSET Numbers(s)
    BY DEF Marked
  <2> QED
    BY <1>1, <1>2, <2>1 DEF BeginClose
<1>3. ASSUME NEW numbers \in SUBSET Numbers(s), BeginExpunge(s, numbers) PROVE Sessions
  BY <1>1, <1>3 DEF BeginExpunge
<1>4. ASSUME NEW numbers \in SUBSET Numbers(s), NEW n \in Name, NEW kind \in {"copy", "move"}, BeginFile(s, kind, numbers, n)
      PROVE  Sessions
  <2> DEFINE t == Targets(s, numbers)
             r == Reverse(t)
  <2>1. PICK f \in Find(n) : Begin(s, kind, r, f)
    BY <1>4 DEF BeginFile
  <2>2. numbers # {} /\ Free(s)
    BY <1>4 DEF BeginFile
  <2>3. t \in Seq(Target) /\ t # <<>>
    BY <2>2, TargetsList
  <2>4. f \in Folder /\ name[f] # None /\ f # NoFolder /\ name[f] \in Name \cup {None}
    BY Kinds0 DEF Find
  <2> HIDE DEF t
  <2>5. r \in Seq(Target) /\ r # <<>>
    <3>1. Len(t) \in Nat /\ DOMAIN t = 1..Len(t) /\ Len(t) # 0
      BY <2>3
    <3>2. r = [i \in 1..Len(t) |-> t[(Len(t) - i) + 1]]
      BY DEF Reverse
    <3>3. \A i \in 1..Len(t) : (Len(t) - i) + 1 \in DOMAIN t /\ t[(Len(t) - i) + 1] \in Target
      BY <2>3, <3>1
    <3>4. r \in Seq(Target) /\ DOMAIN r = 1..Len(t)
      BY <3>1, <3>2, <3>3
    <3>5. 1 \in DOMAIN r
      BY <3>1, <3>4
    <3> QED
      BY <3>4, <3>5
  <2> HIDE DEF r
  <2> DEFINE j == [kind |-> kind, todo |-> r, done |-> {}, to |-> f, as |-> name[f]]
  <2>6. job' = [job EXCEPT ![s] = j] /\ UNCHANGED <<store, selected, fresh, idle, told>> /\ ~idle[s].on
    BY <2>1, <2>2, <2>4 DEF Begin, Free
  <2>7. /\ j \in Job /\ j.kind = kind /\ j.todo = r /\ j.done = {} /\ j.to = f /\ j.as = name[f]
        /\ kind # "none" /\ kind \notin {"expunge", "close"} /\ kind # "expunge"
    BY <2>4, <2>5, Kinds0 DEF Job
  <2> HIDE DEF j
  <2>8. j.todo # <<>> /\ j.to \in Folder /\ j.as # None /\ j.kind # "none" /\ j.kind \notin {"expunge", "close"}
        /\ j.kind # "expunge"
    BY <2>4, <2>5, <2>7
  <2> QED
    BY <2>6, <2>7, <2>8, JobStep
<1> QED
  BY <1>2, <1>3, <1>4

(* The row of a new message was nobody's. *)
LEMMA NewRowStep ==
  ASSUME SessionInv, NEW f \in Folder, NEW m \in Message, NEW flags, NewRow(m, f, flags)
  PROVE  /\ m \notin ids /\ \A t \in Session : m \notin fresh[t]
         /\ row'[m] = [folder |-> f, uid |-> uidNext[f], flags |-> flags]
         /\ \A n \in Message : n # m => row'[n] = row[n]
         /\ \A t \in Session : \A n \in fresh[t] : row'[n] = row[n]
         /\ ids' = ids \cup {m} /\ uidNext'[f] = uidNext[f] + 1
<1>1. /\ row' = Place(m, f, flags) /\ uidNext' = Bumped(f) /\ ids' = ids \cup {m} /\ m = NextId /\ ids # Message
  BY DEF NewRow
<1>2. ids \subseteq Message /\ row \in [Message -> Row] /\ uidNext \in [Folder -> 1..(MaxUid + 1)]
  BY DEF SessionInv, Tables
<1>3. m \notin ids
  <2>1. \E n \in Message : n \notin ids
    BY <1>1, <1>2
  <2> QED
    BY <1>1, <2>1 DEF NextId
<1>4. row'[m] = [folder |-> f, uid |-> uidNext[f], flags |-> flags] /\ \A n \in Message : n # m => row'[n] = row[n]
  BY <1>1, <1>2 DEF Place
<1>5. \A t \in Session : \A n \in fresh[t] : n \in ids /\ n \in Message
  BY FreshNumbered
<1>6. uidNext'[f] = uidNext[f] + 1
  BY <1>1, <1>2 DEF Bumped
<1> QED
  BY <1>1, <1>3, <1>4, <1>5, <1>6

LEMMA PublishKeeps ==
  ASSUME SessionInv, NEW event \in {Other} \cup Folder, Publish(event)
  PROVE  /\ idle' \in [Session -> Waited]
         /\ \A t \in Session : idle'[t].on = idle[t].on /\ Len(idle'[t].queue) <= Capacity
<1>1. \A t \in Session : Len(idle[t].queue) <= Capacity
  BY DEF SessionInv, Seat, IdleSound
<1> QED
  BY <1>1, PublishStep DEF SessionInv

LEMMA AnnouncedKinds ==
  /\ Other \in {Other} \cup Folder
  /\ \A f \in Folder : Announce(f) \in {Other} \cup Folder
BY DEF Announce

LEMMA OthersStep ==
  ASSUME SessionInv, NeverBack, Others
  PROVE  Sessions
<1>0. SessionsHold /\ UNCHANGED <<selected, fresh, job, told>>
  BY DEF SessionInv, Others, Arrive, Delivered
<1>1. ASSUME NEW f \in Folder, NEW queued \in BOOLEAN, Arrive(f, queued) PROVE Sessions
  <2>1. PICK m \in Message : NewRow(m, f, {})
    BY <1>1 DEF Arrive
  <2>2. Publish(Other)
    BY <1>1 DEF Arrive
  <2>3. idle' \in [Session -> Waited] /\ \A t \in Session : idle'[t].on = idle[t].on /\ Len(idle'[t].queue) <= Capacity
    BY <2>2, PublishKeeps
  <2>4. \A t \in Session : \A n \in fresh[t] : row'[n] = row[n]
    BY <2>1, NewRowStep
  <2>5. SessionsHold'
    BY <1>0, <2>3 DEF SessionsHold
  <2>6. \A t \in Session : Keeps(t)
    BY <1>0, <2>3, <2>4 DEF Keeps
  <2> QED
    BY <2>5, <2>6, EverySession
<1>2. ASSUME NEW m \in Message, Delivered(m) PROVE Sessions
  <2>1. row' = row /\ idle' = idle
    BY <1>2 DEF Delivered
  <2>2. SessionsHold'
    BY <1>0, <2>1 DEF SessionsHold
  <2>3. \A t \in Session : Keeps(t)
    BY <1>0, <2>1, Untouched
  <2> QED
    BY <2>2, <2>3, EverySession
<1> QED
  BY <1>1, <1>2 DEF Others

(* What is free has nothing to be done. *)
LEMMA FreeSeat ==
  ASSUME SessionInv, SessionsHold', NEW s \in Session, Free(s), job'[s] = job[s], idle'[s].on = idle[s].on,
         Len(idle'[s].queue) <= Capacity, ListingSound(s)', FreshSound(s)'
  PROVE  Seat(s)'
<1>1. job[s] = NoJob
  BY DEF SessionInv, Seat, TodoSound, Free
<1>2. ~idle[s].on
  BY DEF Free
<1>3. NoJob.kind = "none" /\ NoJob.done = {}
  BY DEF NoJob
<1>4. IdleSound(s)' /\ TodoSound(s)' /\ DoneSound(s)'
  BY <1>1, <1>2, <1>3 DEF IdleSound, TodoSound, DoneSound
<1> QED
  BY <1>4 DEF Seat

LEMMA AppendStep ==
  ASSUME SessionInv, Tables', NeverBack, NEW s \in Session, NEW n \in Name, NEW flags \in SUBSET Flag,
         AppendMessage(s, n, flags)
  PROVE  Sessions
<1>0. SessionsHold /\ Seat(s) /\ Tables /\ ListingSound(s) /\ FreshSound(s)
  BY DEF SessionInv, Seat
<1>1. PICK f \in Find(n), m \in Message :
       /\ NewRow(m, f, flags)
       /\ Publish(Announce(f))
       /\ IF selected[s].folder = f
          THEN /\ selected' = [selected EXCEPT ![s].messages = Append(@, Entry(m)')]
               /\ fresh' = [fresh EXCEPT ![s] = @ \cup {m}]
          ELSE UNCHANGED <<selected, fresh>>
  BY DEF AppendMessage
<1>2. f \in Folder /\ f # NoFolder
  BY Kinds0 DEF Find
<1>3. UNCHANGED <<job, told>> /\ Free(s)
  BY DEF AppendMessage
<1>4. /\ m \notin ids /\ (\A t \in Session : m \notin fresh[t])
      /\ row'[m] = [folder |-> f, uid |-> uidNext[f], flags |-> flags]
      /\ (\A x \in Message : x # m => row'[x] = row[x])
      /\ (\A t \in Session : \A x \in fresh[t] : row'[x] = row[x])
      /\ ids' = ids \cup {m} /\ uidNext'[f] = uidNext[f] + 1
  BY <1>1, <1>2, NewRowStep
<1>5. idle' \in [Session -> Waited] /\ \A t \in Session : idle'[t].on = idle[t].on /\ Len(idle'[t].queue) <= Capacity
  <2>1. Announce(f) \in {Other} \cup Folder /\ Publish(Announce(f))
    BY <1>1, <1>2, AnnouncedKinds
  <2> QED
    BY <2>1, PublishKeeps
<1>6. CASE selected[s].folder # f
  <2>1. UNCHANGED <<selected, fresh>>
    BY <1>1, <1>6
  <2>2. SessionsHold'
    BY <1>0, <1>3, <1>5, <2>1 DEF SessionsHold
  <2>3. \A t \in Session : Keeps(t)
    BY <1>3, <1>4, <1>5, <2>1 DEF Keeps
  <2> QED
    BY <2>2, <2>3, EverySession
<1>7. CASE selected[s].folder = f
  <2> DEFINE list == Messages(s)
             e == [id |-> m, uid |-> uidNext[f], flags |-> flags]
             q == Append(list, e)
  <2>1. e = Entry(m)'
    BY <1>4 DEF Entry
  <2>2. uidNext[f] \in 1..MaxUid
    <3>1. uidNext[f] \in 1..(MaxUid + 1) /\ uidNext[f] <= MaxUid
      BY <1>0, <1>1, <1>2 DEF Tables, NewRow
    <3> QED
      BY <3>1, Kinds0
  <2>3. e \in Listed /\ e.id = m /\ e.uid = uidNext[f] /\ e.flags = flags
    BY <2>2 DEF Listed
  <2>4. list \in Seq(Listed)
    BY <1>0 DEF SessionsHold, Viewed, Messages
  <2>5. \A k \in DOMAIN list : list[k].id \in ids /\ list[k].uid < uidNext[f] /\ list[k].uid \in Nat
    <3>1. \A k \in Numbers(s) : list[k].id \in ids /\ list[k].uid < uidNext[f]
      BY <1>0, <1>7 DEF ListingSound
    <3>2. \A k \in Numbers(s) : list[k].uid \in 1..MaxUid
      BY <1>0, ListedKinds
    <3> QED
      BY <3>1, <3>2 DEF Numbers
  <2>6. Ascends(list)
    BY <1>0 DEF ListingSound
  <2>7. selected' = [selected EXCEPT ![s].messages = q] /\ fresh' = [fresh EXCEPT ![s] = fresh[s] \cup {m}]
    <3>1. selected' = [selected EXCEPT ![s].messages = Append(selected[s].messages, Entry(m)')]
      BY <1>1, <1>7
    <3>2. fresh' = [fresh EXCEPT ![s] = fresh[s] \cup {m}]
      BY <1>1, <1>7
    <3> QED
      BY <2>1, <3>1, <3>2 DEF Messages
  <2>8. Numbers(s) = DOMAIN list
    BY DEF Numbers
  <2> HIDE DEF list, e
  <2>9. /\ q \in Seq(Listed) /\ Len(q) = Len(list) + 1 /\ Len(list) \in Nat /\ DOMAIN list = 1..Len(list)
        /\ DOMAIN q = 1..(Len(list) + 1) /\ q[Len(list) + 1] = e /\ \A k \in DOMAIN list : q[k] = list[k]
    BY <2>3, <2>4
  <2> HIDE DEF q
  <2>10. /\ selected' \in [Session -> Viewed] /\ Messages(s)' = q /\ selected'[s].folder = selected[s].folder
         /\ \A t \in Session : t # s => selected'[t] = selected[t]
    BY <1>0, <2>7, <2>9, MessagesSet
  <2>11. /\ fresh' \in [Session -> SUBSET Message] /\ fresh'[s] = fresh[s] \cup {m}
         /\ \A t \in Session : t # s => fresh'[t] = fresh[t]
    BY <1>0, <2>7 DEF SessionsHold
  <2>12. SessionsHold'
    BY <1>0, <1>3, <1>5, <2>10, <2>11 DEF SessionsHold
  <2>13. \A k \in DOMAIN q : (k \in DOMAIN list /\ q[k] = list[k]) \/ (k = Len(list) + 1 /\ q[k] = e)
    BY <2>9
  <2>14. Ascends(q)
    <3>1. ASSUME NEW i \in DOMAIN q, NEW j \in DOMAIN q, i < j PROVE q[i].uid < q[j].uid
      <4>1. i \in DOMAIN list
        BY <2>9, <3>1
      <4>2. CASE j \in DOMAIN list
        BY <2>6, <2>9, <3>1, <4>1, <4>2 DEF Ascends
      <4>3. CASE j = Len(list) + 1
        BY <2>3, <2>5, <2>9, <4>1, <4>3
      <4> QED
        BY <2>13, <4>2, <4>3
    <3>2. ASSUME NEW i \in DOMAIN q, NEW j \in DOMAIN q, q[i].id = q[j].id PROVE i = j
      <4>1. \A k \in DOMAIN list : q[k].id # m
        BY <1>4, <2>5, <2>9
      <4>2. q[Len(list) + 1].id = m
        BY <2>3, <2>9
      <4>3. CASE i \in DOMAIN list /\ j \in DOMAIN list
        BY <2>6, <2>9, <3>2, <4>3 DEF Ascends
      <4> QED
        BY <2>13, <3>2, <4>1, <4>2, <4>3
    <3> QED
      BY <3>1, <3>2 DEF Ascends
  <2>15. ListingSound(s)'
    <3>1. \A k \in DOMAIN q : q[k].id \in ids' /\ q[k].uid < uidNext'[f]
      <4>1. uidNext[f] \in Nat /\ uidNext'[f] = uidNext[f] + 1
        BY <1>4, <2>2
      <4>2. \A k \in DOMAIN list : list[k].uid < uidNext'[f] /\ list[k].id \in ids'
        BY <1>4, <2>5, <4>1
      <4>3. e.uid < uidNext'[f] /\ e.id \in ids'
        BY <1>4, <2>3, <4>1
      <4> QED
        BY <2>13, <4>2, <4>3
    <3>2. selected'[s].folder = f /\ Numbers(s)' = DOMAIN q
      BY <1>7, <2>10 DEF Numbers
    <3>3. f <= folders'
      <4>1. name[f] # None /\ name' = name
        BY <1>1, Kinds0 DEF AppendMessage, Find
      <4> QED
        BY <1>2, <4>1 DEF Tables
    <3> QED
      BY <1>2, <2>10, <2>14, <3>1, <3>2, <3>3 DEF ListingSound, Selects
  <2>16. FreshSound(s)'
    <3>0. /\ Messages(s)' = q /\ Numbers(s)' = DOMAIN q /\ fresh'[s] = fresh[s] \cup {m}
          /\ selected'[s].folder = f
      BY <1>7, <2>10, <2>11 DEF Numbers
    <3> SUFFICES ASSUME NEW x \in fresh[s] \cup {m}
                 PROVE  \E k \in DOMAIN q : /\ q[k].id = x
                                            /\ row'[x] = [folder |-> f, uid |-> q[k].uid, flags |-> q[k].flags]
      BY <3>0 DEF FreshSound
    <3>1. CASE x = m
      <4>1. Len(list) + 1 \in DOMAIN q /\ q[Len(list) + 1] = e
        BY <2>9
      <4> QED
        BY <1>4, <2>3, <3>1, <4>1
    <3>2. CASE x \in fresh[s]
      <4>1. PICK k \in Numbers(s) :
              list[k].id = x /\ row[x] = [folder |-> f, uid |-> list[k].uid, flags |-> list[k].flags]
        BY <1>0, <1>7, <3>2 DEF FreshSound, list
      <4>2. k \in DOMAIN q /\ q[k] = list[k]
        BY <2>8, <2>9, <4>1
      <4> QED
        BY <1>4, <3>2, <4>1, <4>2
    <3> QED
      BY <3>1, <3>2
  <2>17. Seat(s)'
    BY <1>3, <1>5, <2>12, <2>15, <2>16, FreeSeat
  <2>18. \A t \in Session : t # s => Keeps(t)
    BY <1>3, <1>4, <1>5, <2>10, <2>11 DEF Keeps
  <2> QED
    BY <2>12, <2>17, <2>18, OneSession
<1> QED
  BY <1>6, <1>7

LEMMA FlagsStep ==
  ASSUME SessionInv, NeverBack, NEW s \in Session, NEW k \in Numbers(s), NEW flags \in SUBSET Flag,
         Free(s), SetFlags(s, k, flags)
  PROVE  Sessions
<1> DEFINE list == Messages(s)
           m == list[k].id
           e == [list[k] EXCEPT !.flags = flags]
           q == [list EXCEPT ![k] = e]
<1>0. SessionsHold /\ Seat(s) /\ Tables /\ ListingSound(s) /\ FreshSound(s)
  BY DEF SessionInv, Seat
<1>1. list \in Seq(Listed) /\ list[k] \in Listed /\ m \in Message /\ Numbers(s) = DOMAIN list /\ k \in DOMAIN list
  BY <1>0, ListedKinds DEF Numbers
<1>2. /\ row' = [row EXCEPT ![m].flags = flags] /\ fresh' = Restaged(s, m) /\ Publish(Other)
      /\ UNCHANGED <<folders, name, uidNext, ids, held, job, told>> /\ m \in fresh[s]
  BY DEF SetFlags
<1>3. selected' = [selected EXCEPT ![s].messages = q]
  BY DEF SetFlags, Messages
<1>4. row'[m] = [row[m] EXCEPT !.flags = flags] /\ \A n \in Message : n # m => row'[n] = row[n]
  BY <1>0, <1>1, <1>2, FlagStep DEF SessionInv
<1>5. e \in Listed /\ e.id = list[k].id /\ e.uid = list[k].uid /\ e.flags = flags
  BY <1>1 DEF Listed
<1>6. \A i, j \in DOMAIN list : list[i].id = list[j].id => i = j
  BY <1>0 DEF ListingSound, Ascends
<1>7. FreshSound(s) /\ row[m] \in Row
  BY <1>0, <1>1 DEF Tables
<1> HIDE DEF e
<1>8. q \in Seq(Listed) /\ DOMAIN q = DOMAIN list /\ q[k] = e /\ \A i \in DOMAIN list : i # k => q[i] = list[i]
  <2> HIDE DEF list
  <2> QED
    BY <1>1, <1>5
<1> HIDE DEF q
<1>9. /\ selected' \in [Session -> Viewed] /\ Messages(s)' = q /\ selected'[s].folder = selected[s].folder
      /\ \A t \in Session : t # s => selected'[t] = selected[t]
  BY <1>0, <1>3, <1>8, MessagesSet
<1>10. /\ fresh' \in [Session -> SUBSET Message] /\ fresh'[s] = fresh[s]
       /\ \A t \in Session : t # s => fresh'[t] = fresh[t] \ {m}
  BY <1>0, <1>2 DEF SessionsHold, Restaged
<1>11. idle' \in [Session -> Waited] /\ \A t \in Session : idle'[t].on = idle[t].on /\ Len(idle'[t].queue) <= Capacity
  BY <1>2, PublishKeeps
<1>12. SessionsHold'
  BY <1>0, <1>2, <1>9, <1>10, <1>11 DEF SessionsHold
<1>13. Thins(Messages(s)', Messages(s))
  <2>1. Thins(q, list)
    <3> DEFINE place == [i \in DOMAIN q |-> i]
    <3>1. place \in [DOMAIN q -> DOMAIN list]
      BY <1>8
    <3>2. \A i \in DOMAIN q : q[i].id = list[place[i]].id /\ q[i].uid = list[place[i]].uid
      BY <1>5, <1>8
    <3>3. \A i, j \in DOMAIN q : i < j => place[i] < place[j]
      OBVIOUS
    <3> HIDE DEF place
    <3> QED
      BY <3>1, <3>2, <3>3 DEF Thins
  <2> QED
    BY <1>9, <2>1
<1>14. ListingSound(s)'
  BY <1>9, <1>12, <1>13, ListingThins
<1>15. FreshSound(s)'
  <2>0. Messages(s)' = q /\ Numbers(s)' = DOMAIN q /\ fresh'[s] = fresh[s] /\ selected'[s].folder = selected[s].folder
    BY <1>9, <1>10 DEF Numbers
  <2> SUFFICES ASSUME NEW x \in fresh[s]
               PROVE  \E i \in DOMAIN q :
                        /\ q[i].id = x
                        /\ row'[x] = [folder |-> selected[s].folder, uid |-> q[i].uid, flags |-> q[i].flags]
    BY <2>0 DEF FreshSound
  <2>1. PICK i \in DOMAIN list :
          /\ list[i].id = x
          /\ row[x] = [folder |-> selected[s].folder, uid |-> list[i].uid, flags |-> list[i].flags]
    BY <1>1, <1>7 DEF FreshSound
  <2>2. CASE i = k
    <3>1. row'[x] = [row[x] EXCEPT !.flags = flags]
      BY <1>4, <2>1, <2>2
    <3>2. row'[x] = [folder |-> selected[s].folder, uid |-> list[i].uid, flags |-> flags]
      BY <2>1, <3>1
    <3> QED
      BY <1>5, <1>8, <2>1, <2>2, <3>2
  <2>3. CASE i # k
    <3>1. x # m /\ x \in Message
      BY <1>1, <1>6, <2>1, <2>3, FreshNumbered
    <3> QED
      BY <1>4, <1>8, <2>1, <2>3, <3>1
  <2> QED
    BY <2>2, <2>3
<1>16. Seat(s)'
  BY <1>2, <1>11, <1>12, <1>14, <1>15, FreeSeat
<1>17. \A t \in Session : t # s => Keeps(t)
  <2>1. \A t \in Session : fresh[t] \subseteq Message
    BY <1>0 DEF SessionsHold
  <2> HIDE DEF m
  <2> QED
    BY <1>2, <1>4, <1>9, <1>10, <1>11, <2>1 DEF Keeps
<1> QED
  BY <1>12, <1>16, <1>17, OneSession

(* A session at work does not wait. *)
LEMMA WorkingSeat ==
  ASSUME SessionInv, NEW s \in Session, job[s].kind # "none", idle'[s].on = idle[s].on, Len(idle'[s].queue) <= Capacity,
         ListingSound(s)', FreshSound(s)', TodoSound(s)', DoneSound(s)'
  PROVE  Seat(s)'
<1>1. ~idle[s].on
  BY DEF SessionInv, Seat, IdleSound, NoJob
<1>2. IdleSound(s)'
  BY <1>1 DEF IdleSound
<1> QED
  BY <1>2 DEF Seat

LEMMA CopyStep ==
  ASSUME SessionInv, NeverBack, NEW s \in Session, CopyOne(s)
  PROVE  Sessions
<1>0. SessionsHold /\ Seat(s) /\ Tables /\ Placed
  BY DEF SessionInv
<1>1. /\ Publish(Announce(job[s].to)) /\ Proceeds(s) /\ UNCHANGED <<selected, fresh, told>>
      /\ Relocates(s, "copy") /\ job[s].kind = "copy"
  BY DEF CopyOne, Relocates
<1>2. PICK m \in Message : NewRow(m, job[s].to, row[Head(job[s].todo).id].flags)
  BY DEF CopyOne
<1>3. job[s].to \in Folder /\ job[s].kind # "none"
  BY <1>0, <1>1, RelocatesTo
<1>4. \A t \in Session : \A x \in fresh[t] : row'[x] = row[x]
  <2>1. PICK f, flags : f = job[s].to /\ flags = row[Head(job[s].todo).id].flags
    OBVIOUS
  <2>2. f \in Folder /\ NewRow(m, f, flags)
    BY <1>2, <1>3, <2>1
  <2> QED
    BY <2>2, NewRowStep
<1>5. idle' \in [Session -> Waited] /\ \A t \in Session : idle'[t].on = idle[t].on /\ Len(idle'[t].queue) <= Capacity
  <2>1. Announce(job[s].to) \in {Other} \cup Folder
    BY <1>3, AnnouncedKinds
  <2> QED
    BY <1>1, <2>1, PublishKeeps
<1>6. /\ job' \in [Session -> Job] /\ (\A t \in Session : t # s => job'[t] = job[t])
      /\ job'[s] = NoJob \/ job'[s].done = job[s].done
  BY <1>0, <1>1, <1>3, ProceedsTo
<1>7. job'[s].done \subseteq job[s].done
  BY <1>6 DEF NoJob
<1>8. SessionsHold'
  BY <1>0, <1>1, <1>5, <1>6 DEF SessionsHold
<1>9. ListingSound(s)' /\ FreshSound(s)' /\ DoneSound(s)'
  BY <1>1, <1>4, <1>7, <1>8, ViewStays
<1>10. TodoSound(s)'
  BY <1>0, <1>1, <1>3, TailSound
<1>11. Seat(s)'
  BY <1>3, <1>5, <1>9, <1>10, WorkingSeat
<1>12. \A t \in Session : t # s => Keeps(t)
  BY <1>1, <1>4, <1>5, <1>6 DEF Keeps
<1> QED
  BY <1>8, <1>11, <1>12, OneSession

(* An entry leaves a listing, and so does the row. *)
LEMMA GoneKeeps ==
  ASSUME SessionInv, NEW s \in Session, NEW m \in Message, HardDelete(m), fresh' = Gone(s, m)
  PROVE  /\ fresh' \in [Session -> SUBSET Message]
         /\ \A t \in Session : fresh'[t] = fresh[t] \ {m}
         /\ \A t \in Session : \A x \in fresh'[t] : row'[x] = row[x]
         /\ row'[m] = NoRow
<1>1. row' = [row EXCEPT ![m] = NoRow] /\ row \in [Message -> Row] /\ fresh \in [Session -> SUBSET Message]
  BY DEF HardDelete, SessionInv, Tables, SessionsHold
<1>2. fresh' = [c \in Session |-> fresh[c] \ {m}]
  BY DEF Gone
<1> QED
  BY <1>1, <1>2

LEMMA ExpungeStep ==
  ASSUME SessionInv, NeverBack, NEW s \in Session, ExpungeOne(s)
  PROVE  /\ Sessions
         /\ \E k \in Numbers(s) : /\ Messages(s)[k].id = Head(job[s].todo).id
                                  /\ Messages(s)' = Forgets(Messages(s), k) /\ told'[s] = Forgets(told[s], k)
                                  /\ selected'[s].folder = selected[s].folder
         /\ \A t \in Session : t # s => selected'[t] = selected[t] /\ told'[t] = told[t]
<1> DEFINE list == Messages(s)
           m == Head(job[s].todo).id
           target == Head(job[s].todo)
           number == IF target.number \in DOMAIN list /\ list[target.number].id = target.id
                     THEN target.number
                     ELSE CHOOSE i \in DOMAIN list : list[i].id = target.id
<1>0. SessionsHold /\ Seat(s) /\ Tables /\ Placed
  BY DEF SessionInv
<1>1. /\ job[s].kind = "expunge" /\ job[s].kind # "none" /\ HardDelete(m) /\ fresh' = Gone(s, m)
      /\ Publish(Other) /\ Proceeds(s)
  BY DEF ExpungeOne
<1>2. selected' = [selected EXCEPT ![s].messages = RemoveAt(@, number)] /\ told' = [told EXCEPT ![s] = Forgets(@, number)]
  BY DEF ExpungeOne
<1>3. target \in Target /\ m \in Message
  BY <1>0, <1>1, JobHead
<1>4. \E i \in DOMAIN list : list[i].id = m
  <2>1. 1 \in DOMAIN job[s].todo /\ Head(job[s].todo) = job[s].todo[1]
    BY <1>0, <1>1, JobHead
  <2>2. TodoSound(s)
    BY <1>0 DEF Seat
  <2>3. PICK i \in Marked(s) : Messages(s)[i].id = job[s].todo[1].id
    BY <1>1, <2>1, <2>2 DEF TodoSound
  <2> QED
    BY <2>1, <2>3 DEF Marked, Numbers
<1>5. number \in DOMAIN list /\ list[number].id = m
  BY <1>4
<1>6. PICK k : k = number /\ k \in DOMAIN list /\ list[k].id = m
  <2> HIDE DEF number, m, list
  <2> QED
    BY <1>5
<1> HIDE DEF number, target
<1>7. list \in Seq(Listed) /\ told[s] \in Seq(Message) /\ told \in [Session -> Seq(Message)]
  BY <1>0 DEF SessionsHold, Viewed, Messages
<1>8. k \in Nat \ {0}
  <2> HIDE DEF list
  <2> QED
    BY <1>6, <1>7
<1> DEFINE q == Forgets(list, k)
           t == Forgets(told[s], k)
<1>9. q \in Seq(Listed) /\ Shifted(q, list, k) /\ Within(q, list) /\ t \in Seq(Message)
  <2> HIDE DEF list
  <2> QED
    BY <1>7, <1>8, Shifts, ForgottenWithin
<1>10. selected' = [selected EXCEPT ![s].messages = q] /\ told' = [told EXCEPT ![s] = t]
  BY <1>2, <1>6 DEF Forgets, Messages
<1> HIDE DEF q, t
<1>11. /\ selected' \in [Session -> Viewed] /\ Messages(s)' = q /\ selected'[s].folder = selected[s].folder
       /\ \A c \in Session : c # s => selected'[c] = selected[c]
  BY <1>0, <1>9, <1>10, MessagesSet
<1>12. told' \in [Session -> Seq(Message)] /\ told'[s] = t /\ \A c \in Session : c # s => told'[c] = told[c]
  BY <1>7, <1>9, <1>10
<1>13. /\ fresh' \in [Session -> SUBSET Message] /\ \A c \in Session : fresh'[c] = fresh[c] \ {m}
       /\ \A c \in Session : \A x \in fresh'[c] : row'[x] = row[x]
  BY <1>1, <1>3, GoneKeeps
<1>14. idle' \in [Session -> Waited] /\ \A c \in Session : idle'[c].on = idle[c].on /\ Len(idle'[c].queue) <= Capacity
  BY <1>1, PublishKeeps
<1>15. /\ job' \in [Session -> Job] /\ (\A c \in Session : c # s => job'[c] = job[c])
       /\ job'[s] = NoJob \/ job'[s].done = job[s].done
  BY <1>0, <1>1, ProceedsTo
<1>16. SessionsHold'
  BY <1>11, <1>12, <1>13, <1>14, <1>15 DEF SessionsHold
<1>17. Thins(Messages(s)', Messages(s))
  BY <1>9, <1>11, WithinThins
<1>18. ListingSound(s)'
  BY <1>11, <1>16, <1>17, ListingThins
<1>19. ASSUME NEW i \in Numbers(s), list[i].id # m PROVE \E j \in Numbers(s)' : Messages(s)'[j] = list[i]
  <2>1. i # k /\ i \in DOMAIN list /\ i \in Nat
    <3>1. i \in DOMAIN list /\ i # k
      BY <1>6, <1>19 DEF Numbers
    <3>2. DOMAIN list \subseteq Nat
      <4> HIDE DEF list
      <4> QED
        BY <1>7
    <3> QED
      BY <3>1, <3>2
  <2>2. i < k \/ i > k
    BY <1>8, <2>1
  <2>3. \E j \in DOMAIN q : q[j] = list[i]
    BY <1>9, <2>1, <2>2 DEF Shifted
  <2> QED
    BY <1>11, <2>3 DEF Numbers
<1>20. FreshSound(s)'
  <2>1. \A i \in Numbers(s) : Messages(s)[i].id \in fresh'[s] => \E j \in Numbers(s)' : Messages(s)'[j] = Messages(s)[i]
    BY <1>13, <1>19
  <2> QED
    BY <1>11, <1>13, <1>16, <2>1, FreshStays
<1>21. job'[s].done \subseteq job[s].done
  BY <1>15 DEF NoJob
<1>22. DoneSound(s)'
  BY <1>11, <1>13, <1>17, <1>21, DoneStays
<1>23. TodoSound(s)'
  <2>1. ASSUME NEW i \in Marked(s), list[i].id # m PROVE \E j \in Marked(s)' : Messages(s)'[j].id = Messages(s)[i].id
    <3>1. i \in Numbers(s) /\ Deleted \in list[i].flags
      BY DEF Marked
    <3>2. PICK j \in Numbers(s)' : Messages(s)'[j] = list[i]
      BY <1>19, <2>1, <3>1
    <3> QED
      BY <3>1, <3>2 DEF Marked
  <2> QED
    BY <1>0, <1>1, <2>1, TailSound
<1>24. Seat(s)'
  BY <1>1, <1>14, <1>18, <1>20, <1>22, <1>23, WorkingSeat
<1>25. \A c \in Session : c # s => Keeps(c)
  BY <1>11, <1>13, <1>14, <1>15 DEF Keeps
<1>26. Sessions
  BY <1>16, <1>24, <1>25, OneSession
<1> QED
  BY <1>6, <1>11, <1>12, <1>26 DEF Numbers, q, t

LEMMA CloseStep ==
  ASSUME SessionInv, NeverBack, NEW s \in Session, CloseOne(s)
  PROVE  Sessions
<1> DEFINE m == Head(job[s].todo).id
<1>0. SessionsHold /\ Seat(s) /\ Tables /\ Placed
  BY DEF SessionInv
<1>1. /\ job[s].kind = "close" /\ job[s].kind # "none" /\ HardDelete(m) /\ Proceeds(s) /\ idle' = idle
      /\ IF Len(job[s].todo) = 1
           THEN /\ selected' = [selected EXCEPT ![s] = NotSelected]
                /\ told' = [told EXCEPT ![s] = <<>>]
                /\ fresh' = [Gone(s, m) EXCEPT ![s] = {}]
           ELSE /\ fresh' = Gone(s, m)
                /\ UNCHANGED <<selected, told>>
  BY DEF CloseOne
<1>2. m \in Message
  BY <1>0, <1>1, JobHead
<1>3. /\ job' \in [Session -> Job] /\ (\A c \in Session : c # s => job'[c] = job[c])
      /\ \/ Len(job[s].todo) = 1 /\ job'[s] = NoJob
         \/ Len(job[s].todo) # 1 /\ job'[s].done = job[s].done
  BY <1>0, <1>1, ProceedsTo
<1>4. Len(idle[s].queue) <= Capacity /\ ~idle[s].on
  BY <1>0, <1>1 DEF Seat, IdleSound, NoJob
<1>5. row' = [row EXCEPT ![m] = NoRow] /\ \A c \in Session : fresh[c] \in SUBSET Message
  BY <1>0, <1>1 DEF HardDelete, SessionsHold
<1> HIDE DEF m
<1>6. \A c \in Session : \A x \in fresh[c] \ {m} : row'[x] = row[x]
  BY <1>0, <1>2, <1>5 DEF Tables
<1>7. CASE Len(job[s].todo) = 1
  <2>1. /\ selected' = [selected EXCEPT ![s] = NotSelected] /\ told' = [told EXCEPT ![s] = <<>>]
        /\ fresh' = [Gone(s, m) EXCEPT ![s] = {}] /\ job'[s] = NoJob
    BY <1>1, <1>3, <1>7
  <2>2. NotSelected \in Viewed
    <3>1. <<>> \in Seq(Listed)
      OBVIOUS
    <3> QED
      BY <3>1, Kinds0 DEF NotSelected, Viewed
  <2>3. /\ selected' \in [Session -> Viewed] /\ selected'[s] = NotSelected
        /\ \A c \in Session : c # s => selected'[c] = selected[c]
    BY <1>0, <2>1, <2>2, ViewSet
  <2>4. told' \in [Session -> Seq(Message)]
    <3>1. <<>> \in Seq(Message)
      OBVIOUS
    <3> QED
      BY <1>0, <2>1, <3>1 DEF SessionsHold
  <2>5. fresh' \in [Session -> SUBSET Message] /\ fresh'[s] = {} /\ \A c \in Session : c # s => fresh'[c] = fresh[c] \ {m}
    BY <1>0, <1>5, <2>1 DEF Gone
  <2>6. SessionsHold'
    BY <1>0, <1>1, <1>3, <2>3, <2>4, <2>5 DEF SessionsHold
  <2>7. Seat(s)'
    BY <1>1, <1>4, <2>1, <2>3, <2>5, <2>6, SeatEmpty
  <2>8. \A c \in Session : c # s => Keeps(c)
    BY <1>1, <1>3, <1>6, <2>3, <2>5, Untouched
  <2> QED
    BY <2>6, <2>7, <2>8, OneSession
<1>8. CASE Len(job[s].todo) # 1
  <2>1. fresh' = Gone(s, m) /\ UNCHANGED <<selected, told>> /\ job'[s].done = job[s].done
    BY <1>1, <1>3, <1>8
  <2>2. fresh' \in [Session -> SUBSET Message] /\ \A c \in Session : fresh'[c] = fresh[c] \ {m}
    BY <1>5, <2>1 DEF Gone
  <2>3. SessionsHold'
    BY <1>0, <1>1, <1>3, <2>1, <2>2 DEF SessionsHold
  <2>4. /\ ListingSound(s)' /\ FreshSound(s)' /\ DoneSound(s)' /\ Messages(s)' = Messages(s) /\ Marked(s)' = Marked(s)
    BY <1>6, <2>1, <2>2, <2>3, ViewStays
  <2>5. TodoSound(s)'
    BY <1>0, <1>1, <2>4, TailSound
  <2>6. Seat(s)'
    BY <1>1, <1>4, <2>4, <2>5, WorkingSeat
  <2>7. \A c \in Session : c # s => Keeps(c)
    BY <1>1, <1>3, <1>6, <2>1, <2>2, Untouched
  <2> QED
    BY <2>3, <2>6, <2>7, OneSession
<1> QED
  BY <1>7, <1>8

(* The numbers under which a session lists some messages. *)
Numbering(s, moved) == {k \in Numbers(s) : Messages(s)[k].id \in moved}

LEMMA UnlistStep ==
  ASSUME SessionsHold, NEW s \in Session, ListingSound(s), NEW moved, Unlist(s, moved)
  PROVE  LET d == Downward(Numbering(s, moved))
         IN /\ selected' \in [Session -> Viewed] /\ told' \in [Session -> Seq(Message)]
            /\ selected'[s].folder = selected[s].folder
            /\ Messages(s)' = Dropping(Messages(s), d) /\ told'[s] = Dropping(told[s], d) /\ d \in Seq(Nat \ {0})
            /\ \A c \in Session : c # s => selected'[c] = selected[c] /\ told'[c] = told[c]
            /\ Thins(Messages(s)', Messages(s))
            /\ \A k \in Numbers(s) : Messages(s)[k].id \notin moved =>
                 \E j \in Numbers(s)' : Messages(s)'[j] = Messages(s)[k]
<1> DEFINE list == Messages(s)
           N == Numbering(s, moved)
           d == Downward(N)
           q == Dropping(list, d)
           t == Dropping(told[s], d)
<1>1. list \in Seq(Listed) /\ told[s] \in Seq(Message) /\ told \in [Session -> Seq(Message)] /\ N \subseteq DOMAIN list
  BY DEF SessionsHold, Viewed, Messages, Numbering, Numbers
<1>2. \A i, j \in DOMAIN list : list[i] = list[j] => i = j
  BY DEF ListingSound, Ascends
<1>3. selected' = [selected EXCEPT ![s].messages = q] /\ told' = [told EXCEPT ![s] = t]
  BY DEF Unlist, Numbering, Messages
<1>4. \A k \in Numbers(s) : k \in DOMAIN list /\ (Messages(s)[k].id \notin moved => k \notin N)
  BY DEF Numbers, Numbering
<1> HIDE DEF list, N
<1>5. d \in Seq(Nat \ {0})
  BY <1>1, DownwardNumbers
<1>6. q \in Seq(Listed) /\ Within(q, list) /\ \A k \in DOMAIN list \ N : \E i \in DOMAIN q : q[i] = list[k]
  <2>1. list \in Seq(Listed) /\ N \in SUBSET DOMAIN list
    BY <1>1
  <2>2. q \in Seq(Listed) /\ Drops(q, list, N)
    BY <1>2, <2>1, DroppingKeeps
  <2> HIDE DEF q
  <2> QED
    BY <2>2 DEF Drops
<1>7. t \in Seq(Message)
  <2> HIDE DEF d
  <2>1. PICK u : u = told[s]
    OBVIOUS
  <2>2. u \in Seq(Message)
    BY <1>1, <2>1
  <2>3. \E after \in [0..Len(d) -> Seq(Message)] : Dropping(u, d) = after[Len(d)]
    BY <1>5, <2>2, DroppingSteps
  <2>4. Len(d) \in 0..Len(d)
    BY <1>5
  <2>5. Dropping(u, d) \in Seq(Message)
    BY <2>3, <2>4
  <2> QED
    BY <2>1, <2>5
<1> HIDE DEF q, t
<1>8. /\ selected' \in [Session -> Viewed] /\ Messages(s)' = q /\ selected'[s].folder = selected[s].folder
      /\ \A c \in Session : c # s => selected'[c] = selected[c]
  BY <1>3, <1>6, MessagesSet
<1>9. told' \in [Session -> Seq(Message)] /\ told'[s] = t /\ \A c \in Session : c # s => told'[c] = told[c]
  BY <1>1, <1>3, <1>7
<1>10. Thins(Messages(s)', Messages(s))
  BY <1>6, <1>8, WithinThins DEF list
<1>11. \A k \in Numbers(s) : Messages(s)[k].id \notin moved => \E j \in Numbers(s)' : Messages(s)'[j] = Messages(s)[k]
  <2>1. Numbers(s)' = DOMAIN q
    BY <1>8 DEF Numbers
  <2>2. ASSUME NEW k \in Numbers(s), Messages(s)[k].id \notin moved PROVE \E j \in DOMAIN q : q[j] = Messages(s)[k]
    BY <1>4, <1>6, <2>2 DEF list
  <2> QED
    BY <1>8, <2>1, <2>2
<1> QED
  BY <1>5, <1>8, <1>9, <1>10, <1>11 DEF q, t, list, N

LEMMA MoveStep ==
  ASSUME SessionInv, NeverBack, NEW s \in Session, MoveOne(s)
  PROVE  Sessions
<1> DEFINE m == Head(job[s].todo).id
           f == job[s].to
<1>0. SessionsHold /\ Seat(s) /\ Tables /\ Placed /\ ListingSound(s)
  BY DEF SessionInv, Seat
<1>1. /\ Relocates(s, "move") /\ job[s].kind = "move" /\ row' = Place(m, f, row[m].flags) /\ fresh' = Gone(s, m)
      /\ Publish(Other)
      /\ IF Len(job[s].todo) = 1
           THEN Unlist(s, job[s].done \cup {m}) /\ job' = [job EXCEPT ![s] = NoJob]
           ELSE /\ job' = [job EXCEPT ![s].todo = Tail(@), ![s].done = @ \cup {m}]
                /\ UNCHANGED <<selected, told>>
  BY DEF MoveOne, Relocates, MovedRow
<1>2. m \in Message /\ f \in Folder /\ job[s].kind # "none"
  BY <1>0, <1>1, RelocatesTo
<1>3. /\ job[s].todo \in Seq(Target) /\ Tail(job[s].todo) \in Seq(Target)
      /\ (Len(job[s].todo) # 1 => Tail(job[s].todo) # <<>>)
  BY <1>0, <1>2, JobHead
<1> HIDE DEF m
<1>4. row'[m] = [folder |-> f, uid |-> uidNext[f], flags |-> row[m].flags] /\ \A x \in Message : x # m => row'[x] = row[x]
  BY <1>0, <1>1, <1>2 DEF Place, Tables
<1>5. fresh' \in [Session -> SUBSET Message] /\ \A c \in Session : fresh'[c] = fresh[c] \ {m} /\ fresh[c] \subseteq Message
  BY <1>0, <1>1 DEF Gone, SessionsHold
<1>6. \A c \in Session : \A x \in fresh'[c] : row'[x] = row[x]
  BY <1>4, <1>5
<1>7. idle' \in [Session -> Waited] /\ \A c \in Session : idle'[c].on = idle[c].on /\ Len(idle'[c].queue) <= Capacity
  BY <1>1, PublishKeeps
<1>8. job \in [Session -> Job] /\ job[s] \in Job /\ DoneSound(s) /\ TodoSound(s)
  BY <1>0 DEF SessionsHold, Seat
<1>9. CASE Len(job[s].todo) = 1
  <2>1. Unlist(s, job[s].done \cup {m}) /\ job' = [job EXCEPT ![s] = NoJob]
    BY <1>1, <1>9
  <2>2. /\ selected' \in [Session -> Viewed] /\ told' \in [Session -> Seq(Message)]
        /\ selected'[s].folder = selected[s].folder
        /\ \A c \in Session : c # s => selected'[c] = selected[c] /\ told'[c] = told[c]
        /\ Thins(Messages(s)', Messages(s))
        /\ \A k \in Numbers(s) : Messages(s)[k].id \notin job[s].done \cup {m} =>
             \E j \in Numbers(s)' : Messages(s)'[j] = Messages(s)[k]
    BY <1>0, <2>1, UnlistStep
  <2>3. NoJob \in Job /\ NoJob.done = {} /\ NoJob.kind = "none"
    <3>1. <<>> \in Seq(Target)
      OBVIOUS
    <3> QED
      BY <3>1 DEF NoJob, Job
  <2>4. job' \in [Session -> Job] /\ job'[s] = NoJob /\ \A c \in Session : c # s => job'[c] = job[c]
    BY <1>8, <2>1, <2>3
  <2>5. SessionsHold'
    BY <1>5, <1>7, <2>2, <2>4 DEF SessionsHold
  <2>6. ListingSound(s)'
    BY <2>2, <2>5, ListingThins
  <2>7. FreshSound(s)'
    <3>1. \A k \in Numbers(s) : Messages(s)[k].id \in fresh'[s] => \E j \in Numbers(s)' : Messages(s)'[j] = Messages(s)[k]
      BY <1>5, <1>8, <2>2 DEF DoneSound
    <3> QED
      BY <1>5, <1>6, <2>2, <2>5, <3>1, FreshStays
  <2>8. DoneSound(s)' /\ TodoSound(s)'
    BY <2>3, <2>4 DEF DoneSound, TodoSound
  <2>9. Seat(s)'
    BY <1>2, <1>7, <2>6, <2>7, <2>8, WorkingSeat
  <2>10. \A c \in Session : c # s => Keeps(c)
    BY <1>5, <1>6, <1>7, <2>2, <2>4 DEF Keeps
  <2> QED
    BY <2>5, <2>9, <2>10, OneSession
<1>10. CASE Len(job[s].todo) # 1
  <2> DEFINE j == [job[s] EXCEPT !.todo = Tail(job[s].todo), !.done = job[s].done \cup {m}]
  <2>1. UNCHANGED <<selected, told>> /\ job' = [job EXCEPT ![s] = j]
    <3>1. UNCHANGED <<selected, told>> /\ job' = [job EXCEPT ![s].todo = Tail(@), ![s].done = @ \cup {m}]
      BY <1>1, <1>10
    <3> QED
      BY <1>8, <3>1 DEF Job
  <2>2. j \in Job /\ j.todo = Tail(job[s].todo) /\ j.done = job[s].done \cup {m} /\ j.kind = "move"
        /\ j.to = job[s].to /\ j.as = job[s].as
    BY <1>1, <1>2, <1>3, <1>8 DEF Job
  <2> HIDE DEF j
  <2>3. job' \in [Session -> Job] /\ job'[s] = j /\ \A c \in Session : c # s => job'[c] = job[c]
    BY <1>8, <2>1, <2>2
  <2>4. SessionsHold'
    BY <1>0, <1>5, <1>7, <2>1, <2>3 DEF SessionsHold
  <2>5. Messages(s)' = Messages(s) /\ Numbers(s)' = Numbers(s) /\ selected'[s].folder = selected[s].folder
    BY <2>1 DEF Messages, Numbers
  <2>6. Thins(Messages(s)', Messages(s))
    <3>1. Thins(Messages(s), Messages(s))
      BY <1>0, MessagesWithin
    <3> QED
      BY <2>5, <3>1
  <2>7. ListingSound(s)'
    BY <2>4, <2>5, <2>6, ListingThins
  <2>8. FreshSound(s)'
    BY <1>5, <1>6, <2>4, <2>5, FreshStays
  <2>9. TodoSound(s)'
    <3>1. /\ job[s].to \in Folder /\ job[s].as # None /\ Tail(job[s].todo) # <<>>
      BY <1>1, <1>3, <1>8, <1>10 DEF TodoSound
    <3>2. job'[s].todo # <<>> /\ job'[s].kind = "move" /\ job'[s].to \in Folder /\ job'[s].as # None
      BY <2>2, <2>3, <3>1
    <3> QED
      BY <3>2 DEF TodoSound
  <2>10. DoneSound(s)'
    <3> SUFFICES ASSUME NEW k \in Numbers(s), Messages(s)[k].id \in job[s].done \cup {m}
                 PROVE  /\ Messages(s)[k].id \notin fresh'[s]
                        /\ ~(row'[Messages(s)[k].id].folder = selected[s].folder
                             /\ row'[Messages(s)[k].id].uid = Messages(s)[k].uid)
      BY <2>2, <2>3, <2>5 DEF DoneSound, At
    <3>1. PICK x, g, u : x = Messages(s)[k].id /\ g = selected[s].folder /\ u = Messages(s)[k].uid
      OBVIOUS
    <3>2. x \in ids /\ x \in Message /\ g \in Folder /\ u \in Nat /\ u < uidNext[g] /\ uidNext[g] \in Nat
      <4>1. x \in ids /\ u < uidNext[g] /\ g # NoFolder
        BY <1>0, <3>1 DEF ListingSound, Selects, Numbers
      <4>2. u \in 1..MaxUid /\ g \in {NoFolder} \cup Folder /\ x \in Message
        BY <1>0, <3>1, ListedKinds
      <4>3. g \in Folder
        BY <4>1, <4>2
      <4>4. uidNext[g] \in Nat
        BY <1>0, <4>3 DEF Tables
      <4> QED
        BY <4>1, <4>2, <4>3, <4>4
    <3>3. CASE x = m
      <4>1. x \notin fresh'[s]
        BY <1>5, <3>3
      <4>2. row'[x].folder = f /\ row'[x].uid = uidNext[f]
        BY <1>4, <3>3
      <4>3. g = f => u # uidNext[f]
        BY <3>2
      <4>4. ~(row'[x].folder = g /\ row'[x].uid = u)
        BY <4>2, <4>3
      <4> QED
        BY <3>1, <4>1, <4>4
    <3>4. CASE x # m
      <4>1. x \in job[s].done
        BY <3>1, <3>4
      <4>2. x \notin fresh[s] /\ ~(row[x].folder = g /\ row[x].uid = u)
        BY <1>8, <3>1, <4>1 DEF DoneSound, At
      <4>3. row'[x] = row[x] /\ x \notin fresh'[s]
        BY <1>4, <1>5, <3>2, <3>4, <4>2
      <4> QED
        BY <3>1, <4>2, <4>3
    <3> QED
      BY <3>3, <3>4
  <2>11. Seat(s)'
    BY <1>2, <1>7, <2>7, <2>8, <2>9, <2>10, WorkingSeat
  <2>12. \A c \in Session : c # s => Keeps(c)
    BY <1>5, <1>6, <1>7, <2>1, <2>3 DEF Keeps
  <2> QED
    BY <2>4, <2>11, <2>12, OneSession
<1> QED
  BY <1>9, <1>10

LEMMA InitSessionInv == Init => SessionInv
<1> SUFFICES ASSUME Init PROVE SessionInv
  OBVIOUS
<1>1. IsFiniteSet(Range(Initial)) /\ Range(Initial) \subseteq Message /\ Len(Initial) \in Nat /\ Len(Initial) <= MaxUid
      /\ DOMAIN Initial = 1..Len(Initial)
  <2>1. Initial \in Seq(Message) /\ Len(Initial) <= MaxUid
    BY ImapAssumption DEF ImapAssumption
  <2>2. Len(Initial) \in Nat /\ DOMAIN Initial = 1..Len(Initial) /\ IsFiniteSet(1..Len(Initial))
    BY <2>1, FS_Interval
  <2>3. Range(Initial) = {Initial[x] : x \in DOMAIN Initial}
    BY DEF Range
  <2>4. IsFiniteSet(DOMAIN Initial)
    BY <2>2
  <2>5. IsFiniteSet({Initial[x] : x \in DOMAIN Initial})
    <3> DEFINE D == DOMAIN Initial
               I == {Initial[x] : x \in D}
               g == [x \in D |-> Initial[x]]
    <3>1. g \in Surjection(D, I)
      BY DEF Surjection
    <3> HIDE DEF g, D, I
    <3>2. IsFiniteSet(D)
      BY <2>4 DEF D
    <3>3. IsFiniteSet(I)
      BY <3>1, <3>2, FS_Surjection
    <3> QED
      BY <3>3 DEF I, D
  <2>6. {Initial[x] : x \in DOMAIN Initial} \subseteq Message
    BY <2>1
  <2> QED
    BY <2>1, <2>2, <2>3, <2>5, <2>6
<1> DEFINE uids == [m \in Message |-> CHOOSE u \in DOMAIN Initial : Initial[u] = m]
<1>2. \A m \in Range(Initial) : uids[m] \in DOMAIN Initial /\ Initial[uids[m]] = m
  <2>1. \A m \in Range(Initial) : \E u \in DOMAIN Initial : Initial[u] = m
    BY DEF Range
  <2>2. \A m \in Range(Initial) : uids[m] = CHOOSE u \in DOMAIN Initial : Initial[u] = m
    BY <1>1
  <2> QED
    BY <2>1, <2>2
<1>3. folders = 1 /\ ids = Range(Initial) /\ held = {}
  BY DEF Init
<1>4. /\ selected = [s \in Session |-> NotSelected] /\ fresh = [s \in Session |-> {}]
      /\ idle = [s \in Session |-> NotIdle] /\ job = [s \in Session |-> NoJob] /\ told = [s \in Session |-> <<>>]
  BY DEF Init
<1>5. 1 \in Folder /\ (\A f \in Folder : f >= 1) /\ MaxUid \in Nat
  BY Kinds0 DEF Folder
<1>6. ASSUME NEW m \in Message
      PROVE  /\ m \in ids => row[m] = [folder |-> 1, uid |-> uids[m], flags |-> {}]
             /\ m \notin ids => row[m] = NoRow
  <2>1. uids[m] = CHOOSE u \in DOMAIN Initial : Initial[u] = m
    OBVIOUS
  <2>2. row[m] = IF m \in ids
                 THEN [NoRow EXCEPT !.folder = 1, !.uid = CHOOSE u \in DOMAIN Initial : Initial[u] = m]
                 ELSE NoRow
    BY DEF Init
  <2> HIDE DEF uids
  <2>3. row[m] = IF m \in ids THEN [NoRow EXCEPT !.folder = 1, !.uid = uids[m]] ELSE NoRow
    BY <2>1, <2>2
  <2> QED
    BY <2>3 DEF NoRow
<1> HIDE DEF uids
<1>6a. \A m \in ids : uids[m] \in 1..Len(Initial) /\ Initial[uids[m]] = m
  BY <1>1, <1>2, <1>3
<1>6b. /\ name \in [Folder -> Name \cup {None}] /\ \A f \in Folder : name[f] # None => f = 1
  <2>1. name = [f \in Folder |-> IF f = 1 THEN Inbox ELSE None]
    BY DEF Init
  <2>2. Inbox \in Name
    BY Kinds0
  <2> QED
    BY <2>1, <2>2
<1>6c. uidNext \in [Folder -> 1..(MaxUid + 1)] /\ uidNext[1] = Len(Initial) + 1
  <2>1. uidNext = [f \in Folder |-> IF f = 1 THEN Len(Initial) + 1 ELSE 1]
    BY DEF Init
  <2>2. Len(Initial) + 1 \in 1..(MaxUid + 1) /\ 1 \in 1..(MaxUid + 1)
    BY <1>1, <1>5
  <2> QED
    BY <1>5, <2>1, <2>2
<1>7. row \in [Message -> Row] /\ \A m \in Message : row[m].folder \in {0, 1}
  <2>1. \A u \in 1..Len(Initial) : [folder |-> 1, uid |-> u, flags |-> {}] \in Row
    BY <1>1, <1>5 DEF Row
  <2>2. NoRow \in Row /\ NoRow.folder = 0
    BY Kinds0
  <2>3. ASSUME NEW m \in Message PROVE row[m] \in Row /\ row[m].folder \in {0, 1}
    <3>1. CASE m \in ids
      <4>1. row[m] = [folder |-> 1, uid |-> uids[m], flags |-> {}] /\ uids[m] \in 1..Len(Initial)
        BY <1>6, <1>6a, <3>1
      <4>2. [folder |-> 1, uid |-> uids[m], flags |-> {}] \in Row
        BY <2>1, <4>1
      <4> QED
        BY <4>1, <4>2
    <3>2. CASE m \notin ids
      BY <1>6, <2>2, <3>2
    <3> QED
      BY <3>1, <3>2
  <2> DEFINE e(m) == IF m \in ids
                     THEN [NoRow EXCEPT !.folder = 1, !.uid = CHOOSE u \in DOMAIN Initial : Initial[u] = m]
                     ELSE NoRow
  <2>4. row = [m \in Message |-> e(m)]
    BY DEF Init
  <2> HIDE DEF e
  <2>5. \A m \in Message : e(m) \in Row
    BY <2>3, <2>4
  <2> QED
    BY <2>3, <2>4, <2>5
<1>8. Tables
  <2>1. \A m \in Message : row[m].folder <= folders
    BY <1>3, <1>7
  <2>2. \A f \in Folder : name[f] # None => f <= folders
    BY <1>3, <1>6b
  <2>3. ids \subseteq Message /\ IsFiniteSet(ids) /\ held \subseteq Message /\ folders \in Folder
    BY <1>1, <1>3, <1>5
  <2> QED
    BY <1>6b, <1>6c, <1>7, <2>1, <2>2, <2>3 DEF Tables
<1>9. Live = ids /\ ids \subseteq Message
  <2>1. ASSUME NEW m \in Message PROVE m \in ids <=> row[m].folder # NoFolder
    <3>1. NoRow.folder = NoFolder /\ NoFolder = 0
      BY Kinds0
    <3>2. ASSUME m \in ids PROVE row[m].folder = 1
      <4>1. row[m] = [folder |-> 1, uid |-> uids[m], flags |-> {}]
        BY <1>6, <3>2
      <4> QED
        BY <4>1
    <3>3. m \notin ids => row[m] = NoRow
      BY <1>6
    <3> QED
      BY <3>1, <3>2, <3>3
  <2> QED
    BY <1>1, <1>3, <2>1 DEF Live
<1>10. Placed
  <2>1. ASSUME NEW m \in ids PROVE row[m].uid = uids[m] /\ row[m].folder = 1
    <3>1. row[m] = [folder |-> 1, uid |-> uids[m], flags |-> {}]
      BY <1>6, <1>9
    <3> QED
      BY <3>1
  <2>2. \A m \in ids : uids[m] # 0 /\ uids[m] < uidNext[1]
    BY <1>1, <1>6a, <1>6c
  <2>3. \A m, n \in ids : m # n => uids[m] # uids[n]
    BY <1>6a
  <2>4. UidsApart
    BY <1>9, <2>1, <2>2, <2>3 DEF UidsApart
  <2>5. QueuedMailKept
    BY <1>3 DEF QueuedMailKept
  <2> QED
    BY <1>9, <2>1, <2>2, <2>4, <2>5 DEF Placed
<1>11. <<>> \in Seq(Listed) /\ <<>> \in Seq(Message) /\ <<>> \in Seq(Target) /\ <<>> \in Seq({Other} \cup Folder)
       /\ Len(<<>>) = 0
  OBVIOUS
<1>12. NotSelected \in Viewed /\ NoJob \in Job
  BY <1>11, Kinds0 DEF NotSelected, Viewed, NoJob, Job
<1>13. NotIdle \in Waited /\ ~NotIdle.on /\ Len(NotIdle.queue) <= Capacity
  BY <1>11, Kinds0 DEF NotIdle, Waited
<1>14. SessionsHold
  BY <1>4, <1>11, <1>12, <1>13 DEF SessionsHold
<1>15. ASSUME NEW s \in Session PROVE Seat(s)
  <2>1. selected[s] = NotSelected /\ fresh[s] = {} /\ idle[s] = NotIdle /\ job[s] = NoJob
    BY <1>4
  <2>2. Messages(s) = <<>> /\ Numbers(s) = {} /\ selected[s].folder = 0
    BY <2>1 DEF Messages, NotSelected, Numbers, NoFolder
  <2>3. ListingSound(s)
    BY <1>3, <2>2 DEF ListingSound, Ascends
  <2>4. NoJob.kind = "none"
    BY DEF NoJob
  <2> QED
    BY <1>13, <2>1, <2>2, <2>3, <2>4 DEF Seat, FreshSound, IdleSound, TodoSound, DoneSound
<1> QED
  BY <1>8, <1>10, <1>14, <1>15 DEF SessionInv

LEMMA SessionInvStep == SessionInv /\ [Next]_vars => SessionInv'
<1> SUFFICES ASSUME SessionInv, [Next]_vars PROVE SessionInv'
  OBVIOUS
<1>1. Tables' /\ Placed' /\ NeverBack
  BY StoreStep
<1>2. ASSUME NEW s \in Session, Works(s) PROVE Sessions
  <2>1. {Seen} \in SUBSET Flag
    BY DEF Flag
  <2>2. ASSUME NEW n \in Name, AppendMessage(s, n, {Seen}) PROVE Sessions
    BY <1>1, <2>1, <2>2, AppendStep
  <2>3. ASSUME NEW k \in Numbers(s), NEW flags \in SUBSET Flag, Store(s, k, flags) PROVE Sessions
    BY <1>1, <2>3, FlagsStep DEF Store
  <2>4. ASSUME NEW k \in Numbers(s), Fetch(s, k) PROVE Sessions
    <3>1. Messages(s)[k].flags \cup {Seen} \in SUBSET Flag
      BY <2>1, <2>4, ListedKinds DEF SessionInv
    <3> QED
      BY <1>1, <2>4, <3>1, FlagsStep DEF Fetch
  <2>5. ASSUME NEW numbers \in SUBSET Numbers(s), BeginExpunge(s, numbers) PROVE Sessions
    BY <1>1, <2>5, BeginStep
  <2>6. ASSUME BeginClose(s) PROVE Sessions
    BY <1>1, <2>6, BeginStep
  <2>7. ASSUME NEW numbers \in SUBSET Numbers(s), NEW n \in Name,
               BeginFile(s, "copy", numbers, n) \/ BeginFile(s, "move", numbers, n)
        PROVE  Sessions
    BY <1>1, <2>7, BeginStep
  <2> QED
    BY <1>2, <2>2, <2>3, <2>4, <2>5, <2>6, <2>7 DEF Works
<1>3. ASSUME NEW s \in Session, Proceed(s) PROVE Sessions
  BY <1>1, <1>3, ExpungeStep, CloseStep, CopyStep, MoveStep DEF Proceed
<1>4. CASE UNCHANGED vars
  <2>1. UNCHANGED <<selected, fresh, idle, job, told, row>>
    BY <1>4 DEF vars
  <2>2. SessionsHold'
    BY <2>1 DEF SessionInv, SessionsHold
  <2>3. \A t \in Session : Keeps(t)
    BY <2>1, Untouched
  <2> QED
    BY <1>1, <2>2, <2>3, EverySession DEF Sessions, SessionInv
<1>5. CASE Next
  <2>1. Sessions
    BY <1>1, <1>2, <1>3, <1>5, FoldersStep, OpensStep, AbandonStep, IdlesStep, OthersStep DEF Next
  <2> QED
    BY <1>1, <2>1 DEF Sessions, SessionInv
<1> QED
  BY <1>4, <1>5
-----------------------------------------------------------------------------
LEMMA SessionInvTells == SessionInv => ListingsAreTrue /\ QueuedMailKept
<1> SUFFICES ASSUME SessionInv PROVE ListingsAreTrue /\ QueuedMailKept
  OBVIOUS
<1>0. Tables /\ Placed /\ SessionsHold /\ \A s \in Session : Seat(s)
  BY DEF SessionInv
<1>1. ASSUME NEW s \in Session PROVE SessionTypes(s)
  <2>0. ListingSound(s) /\ FreshSound(s) /\ IdleSound(s)
    BY <1>0 DEF Seat
  <2>1. selected[s].folder \in {NoFolder} \cup 1..folders
    <3>1. selected[s].folder \in {NoFolder} \cup Folder /\ selected[s].folder <= folders /\ folders \in Nat
      BY <1>0, <2>0, Kinds0 DEF SessionsHold, Viewed, ListingSound, Tables
    <3>2. \A f \in Folder : f \in Nat \ {0}
      BY Kinds0
    <3> QED
      BY <3>1, <3>2
  <2>2. \A k \in Numbers(s) : Messages(s)[k] \in Listed
    BY <1>0, ListedKinds
  <2>3. fresh[s] \subseteq {Messages(s)[k].id : k \in Numbers(s)}
    BY <2>0 DEF FreshSound
  <2>4. told[s] \in Seq(Message) /\ job[s].kind \in {"none", "expunge", "close", "copy", "move"}
    BY <1>0 DEF SessionsHold, Job
  <2> QED
    BY <2>0, <2>1, <2>2, <2>3, <2>4 DEF SessionTypes, IdleSound
<1>2. TypeOK
  <2>1. ASSUME NEW m \in Message PROVE row[m].folder \in {NoFolder} \cup 1..folders
    <3>1. row[m].folder \in {NoFolder} \cup Folder /\ row[m].folder <= folders /\ folders \in Nat
      BY <1>0, Kinds0 DEF Tables, Row
    <3>2. \A f \in Folder : f \in Nat \ {0}
      BY Kinds0
    <3> QED
      BY <3>1, <3>2
  <2>2. \A s \in Session : \A i, j \in Numbers(s) : i < j => Messages(s)[i].uid < Messages(s)[j].uid
    BY <1>0 DEF Seat, ListingSound, Ascends, Numbers
  <2> QED
    BY <1>0, <1>1, <2>1, <2>2 DEF TypeOK, Tables
<1>3. FreshIsTrue
  <2> SUFFICES ASSUME NEW s \in Session, NEW k \in Numbers(s), Messages(s)[k].id \in fresh[s]
               PROVE  row[Messages(s)[k].id] = [folder |-> selected[s].folder, uid |-> Messages(s)[k].uid,
                                                flags |-> Messages(s)[k].flags]
    BY DEF FreshIsTrue
  <2>1. FreshSound(s) /\ ListingSound(s)
    BY <1>0 DEF Seat
  <2>2. PICK j \in Numbers(s) :
          /\ Messages(s)[j].id = Messages(s)[k].id
          /\ row[Messages(s)[k].id] = [folder |-> selected[s].folder, uid |-> Messages(s)[j].uid,
                                       flags |-> Messages(s)[j].flags]
    BY <2>1 DEF FreshSound
  <2>3. j = k
    BY <2>1, <2>2 DEF ListingSound, Ascends, Numbers
  <2> QED
    BY <2>2, <2>3
<1> QED
  BY <1>0, <1>2, <1>3 DEF ListingsAreTrue, Placed

(* Whatever sessions, arrivals and deliveries interleave: the listings are   *)
(* typed and in the order of UIDs, a path a session still knows is that of   *)
(* a row that is as listed (what STORE relies on when it writes flags it     *)
(* worked out from its listing), and no two messages of a folder share a UID.*)
THEOREM ListingsStayTrue == Spec => []ListingsAreTrue
<1>1. Spec => []SessionInv
  BY InitSessionInv, SessionInvStep, PTL DEF Spec
<1> QED
  BY <1>1, SessionInvTells, PTL

(* No EXPUNGE, CLOSE, MOVE or DELETE loses a message the mail queue needs.   *)
THEOREM QueuedMailStays == Spec => []QueuedMailKept
<1>1. Spec => []SessionInv
  BY InitSessionInv, SessionInvStep, PTL DEF Spec
<1> QED
  BY <1>1, SessionInvTells, PTL

-----------------------------------------------------------------------------
(* What is destroyed. *)
Destroyed(m) == row'[m].folder = NoFolder
WasMarked(m) ==
  \/ name'[row[m].folder] = None
  \/ \E s \in Session :
       /\ job[s].kind \in {"expunge", "close"}
       /\ \E k \in Marked(s) : Messages(s)[k].id = m

LEMMA DestroyStep ==
  ASSUME SessionInv, [Next]_vars, NEW m \in Live, Destroyed(m)
  PROVE  WasMarked(m)
<1>0. Tables /\ Placed /\ SessionsHold /\ (\A s \in Session : Seat(s)) /\ m \in Message /\ row[m].folder # NoFolder
  BY DEF SessionInv, Live
<1>1. ASSUME row' = row PROVE FALSE
  BY <1>0, <1>1 DEF Destroyed
<1>2. ASSUME NEW f \in Folder, NEW x \in Message, NEW flags, row' = Place(x, f, flags) PROVE FALSE
  <2>1. row'[m].folder = f \/ row'[m] = row[m]
    BY <1>0, <1>2 DEF Place, Tables
  <2> QED
    BY <1>0, <2>1, Kinds0 DEF Destroyed
<1>3. ASSUME NEW x \in Message, NEW flags, row' = [row EXCEPT ![x].flags = flags] PROVE FALSE
  <2>1. row'[m].folder = row[m].folder
    BY <1>0, <1>3 DEF Tables, Row
  <2> QED
    BY <1>0, <2>1 DEF Destroyed
<1>4. ASSUME NEW s \in Session, ExpungeOne(s) \/ CloseOne(s) PROVE WasMarked(m)
  <2>1. job[s].kind \in {"expunge", "close"} /\ job[s].kind # "none" /\ HardDelete(Head(job[s].todo).id)
    BY <1>4 DEF ExpungeOne, CloseOne
  <2>2. Head(job[s].todo) = job[s].todo[1] /\ 1 \in DOMAIN job[s].todo
    BY <1>0, <2>1, JobHead
  <2>3. m = Head(job[s].todo).id
    <3>1. PICK x : x = Head(job[s].todo).id
      OBVIOUS
    <3>2. row' = [row EXCEPT ![x] = NoRow]
      BY <2>1, <3>1 DEF HardDelete
    <3>3. m # x => row'[m] = row[m]
      BY <1>0, <3>2 DEF Tables
    <3> QED
      BY <1>0, <3>1, <3>3 DEF Destroyed
  <2>4. TodoSound(s)
    BY <1>0 DEF Seat
  <2>5. \E k \in Marked(s) : Messages(s)[k].id = m
    BY <2>1, <2>2, <2>3, <2>4 DEF TodoSound
  <2> QED
    BY <2>1, <2>5 DEF WasMarked
<1>5. ASSUME NEW s \in Session, NEW n \in Name, Delete(s, n) PROVE WasMarked(m)
  <2>1. PICK f \in Find(n) : /\ name' = [name EXCEPT ![f] = None]
                             /\ row' = [x \in Message |-> IF x \in In(f) THEN NoRow ELSE row[x]]
    BY <1>5 DEF Delete
  <2>2. m \in In(f)
    BY <1>0, <2>1 DEF Destroyed
  <2>3. row[m].folder = f /\ f \in Folder
    BY <2>2 DEF In, Find
  <2>4. name'[row[m].folder] = None
    BY <1>0, <2>1, <2>3 DEF Tables
  <2> QED
    BY <2>4 DEF WasMarked
<1>6. ASSUME NEW s \in Session,
             Opens(s) \/ Abandon(s) \/ Idles(s) \/ BeginClose(s)
             \/ (\E numbers : BeginExpunge(s, numbers)) \/ (\E kind, numbers, n : BeginFile(s, kind, numbers, n))
             \/ (\E n \in Name : Create(s, n)) \/ (\E from, to \in Name : Rename(s, from, to))
      PROVE  FALSE
  <2>1. row' = row
    BY <1>6 DEF Opens, Leave, Select, Unselect, Abandon, Idles, Idle, Push, PushLagged, EndIdle,
                BeginClose, BeginExpunge, BeginFile, Begin, store, Create, Rename
  <2> QED
    BY <1>1, <2>1
<1>7. ASSUME NEW s \in Session, NEW n \in Name, AppendMessage(s, n, {Seen}) PROVE FALSE
  <2>1. PICK f \in Find(n), x \in Message : NewRow(x, f, {Seen})
    BY <1>7 DEF AppendMessage
  <2> QED
    BY <1>2, <2>1 DEF NewRow, Find
<1>8. ASSUME NEW s \in Session, NEW k \in Numbers(s), NEW flags, SetFlags(s, k, flags) PROVE FALSE
  <2>1. Messages(s)[k].id \in Message
    BY <1>0, ListedKinds
  <2>2. row' = [row EXCEPT ![Messages(s)[k].id].flags = flags]
    BY <1>8 DEF SetFlags
  <2> QED
    BY <1>3, <2>1, <2>2
<1>9. ASSUME NEW s \in Session, CopyOne(s) PROVE FALSE
  <2>1. PICK x \in Message : NewRow(x, job[s].to, row[Head(job[s].todo).id].flags)
    BY <1>9 DEF CopyOne
  <2>2. job[s].to \in Folder
    BY <1>0, <1>9, RelocatesTo DEF CopyOne
  <2> QED
    BY <1>2, <2>1, <2>2 DEF NewRow
<1>10. ASSUME NEW s \in Session, MoveOne(s) PROVE FALSE
  <2>1. job[s].to \in Folder /\ Head(job[s].todo).id \in Message
    BY <1>0, <1>10, RelocatesTo DEF MoveOne
  <2>2. row' = Place(Head(job[s].todo).id, job[s].to, row[Head(job[s].todo).id].flags)
    BY <1>10 DEF MoveOne, MovedRow
  <2> QED
    BY <1>2, <2>1, <2>2
<1>11. CASE Others
  <2>1. ASSUME NEW f \in Folder, NEW queued \in BOOLEAN, Arrive(f, queued) PROVE FALSE
    <3>1. PICK x \in Message : NewRow(x, f, {})
      BY <2>1 DEF Arrive
    <3> QED
      BY <1>2, <3>1 DEF NewRow
  <2>2. ASSUME NEW x \in Message, Delivered(x) PROVE FALSE
    BY <1>1, <2>2 DEF Delivered
  <2> QED
    BY <1>11, <2>1, <2>2 DEF Others
<1>12. ASSUME NEW s \in Session, Works(s) PROVE FALSE
  BY <1>6, <1>7, <1>8, <1>12 DEF Works, Store, Fetch
<1>13. CASE UNCHANGED vars
  BY <1>1, <1>13 DEF vars
<1> QED
  BY <1>4, <1>5, <1>6, <1>9, <1>10, <1>11, <1>12, <1>13 DEF Next, Folders, Proceed

(* A row goes only with its folder, or because a session that has the        *)
(* message marked \Deleted expunges it: no MOVE, COPY, STORE or IDLE loses   *)
(* a message, whatever the sessions' listings say by then.                  *)
THEOREM OnlyMarkedMailGoes == Spec => DestroyedWasMarked
<1>1. Spec => []SessionInv
  BY InitSessionInv, SessionInvStep, PTL DEF Spec
<1>2. SessionInv /\ [Next]_vars =>
        [\A m \in Live : row'[m].folder = NoFolder =>
           \/ name'[row[m].folder] = None
           \/ \E s \in Session :
                /\ job[s].kind \in {"expunge", "close"}
                /\ \E k \in Marked(s) : Messages(s)[k].id = m]_vars
  BY DestroyStep DEF Destroyed, WasMarked
<1>3. Spec => [][Next]_vars
  BY PTL DEF Spec
<1> QED
  BY <1>1, <1>2, <1>3, PTL DEF DestroyedWasMarked

-----------------------------------------------------------------------------
(* What a step does to what a session lists and its client was told.        *)
Stays(s) == selected'[s] = selected[s] /\ told'[s] = told[s]
Closes(s) == selected'[s] = NotSelected /\ told'[s] = <<>>
Reads(s) ==
  \E f \in Folder : /\ selected'[s].folder = f /\ Messages(s)' = Listing(f) /\ row' = row
                    /\ \/ told'[s] = Ids(Listing(f))
                       \/ told'[s] = Heard(told[s], Listing(f)) /\ idle[s].on /\ selected[s].folder = f
Joins(s) ==
  \E e \in Listed : selected'[s].folder = selected[s].folder /\ Messages(s)' = Append(Messages(s), e) /\ told'[s] = told[s]
Flags(s) ==
  \E k \in Numbers(s), e \in Listed :
    /\ e.id = Messages(s)[k].id /\ Messages(s)' = [Messages(s) EXCEPT ![k] = e]
    /\ selected'[s].folder = selected[s].folder /\ told'[s] = told[s]
Expunges(s) ==
  \E k \in Numbers(s) :
    /\ Messages(s)' = Forgets(Messages(s), k) /\ told'[s] = Forgets(told[s], k)
    /\ Selects(s) /\ selected'[s].folder = selected[s].folder /\ row'[Messages(s)[k].id] = NoRow
Lost(s, m, u) == row'[m].folder # selected[s].folder \/ row'[m].uid # u
Moves(s) ==
  \E moved \in SUBSET Message :
    /\ Unlist(s, moved)
    /\ \A k \in Numbers(s) : Messages(s)[k].id \in moved => Lost(s, Messages(s)[k].id, Messages(s)[k].uid)
Counts(s) == idle[s].on /\ selected'[s] = selected[s] /\ told'[s] = Heard(told[s], Messages(s))
ViewMoves(s) ==
  \/ Stays(s) \/ Closes(s) \/ Reads(s) \/ Joins(s) \/ Flags(s) \/ Expunges(s) \/ Moves(s) \/ Counts(s)

LEMMA MovedAway ==
  ASSUME SessionInv, NEW s \in Session, MoveOne(s), NEW k \in Numbers(s),
         Messages(s)[k].id \in job[s].done \cup {Head(job[s].todo).id}
  PROVE  Lost(s, Messages(s)[k].id, Messages(s)[k].uid)
<1>0. SessionsHold /\ Seat(s) /\ Tables /\ Placed /\ ListingSound(s) /\ DoneSound(s)
  BY DEF SessionInv, Seat
<1>1. PICK x, g, u, m, f : /\ x = Messages(s)[k].id /\ g = selected[s].folder /\ u = Messages(s)[k].uid
                           /\ m = Head(job[s].todo).id /\ f = job[s].to
  OBVIOUS
<1>2. row' = Place(m, f, row[m].flags)
  BY <1>1 DEF MoveOne, MovedRow
<1>3. m \in Message /\ f \in Folder
  BY <1>0, <1>1, RelocatesTo DEF MoveOne
<1>4. row'[m].folder = f /\ row'[m].uid = uidNext[f] /\ \A n \in Message : n # m => row'[n] = row[n]
  BY <1>0, <1>2, <1>3 DEF Place, Tables
<1>5. x \in Message /\ u \in Nat /\ g \in Folder /\ u < uidNext[g] /\ uidNext[g] \in Nat
  <2>1. u < uidNext[g] /\ g # NoFolder
    BY <1>0, <1>1 DEF ListingSound, Selects, Numbers
  <2>2. u \in 1..MaxUid /\ g \in {NoFolder} \cup Folder /\ x \in Message
    BY <1>0, <1>1, ListedKinds
  <2>3. g \in Folder
    BY <2>1, <2>2
  <2>4. uidNext[g] \in Nat
    BY <1>0, <2>3 DEF Tables
  <2> QED
    BY <2>1, <2>2, <2>3, <2>4
<1>6. row'[x].folder # g \/ row'[x].uid # u
  <2>1. CASE x = m
    <3>1. g = f => uidNext[f] # u
      BY <1>5
    <3> QED
      BY <1>4, <2>1, <3>1
  <2>2. CASE x # m
    <3>1. ~(row[x].folder = g /\ row[x].uid = u)
      BY <1>0, <1>1, <2>2 DEF DoneSound, At
    <3> QED
      BY <1>4, <1>5, <2>2, <3>1
  <2> QED
    BY <2>1, <2>2
<1> QED
  BY <1>1, <1>6 DEF Lost

LEMMA ViewStep ==
  ASSUME SessionInv, [Next]_vars, NEW s \in Session
  PROVE  ViewMoves(s)
<1>0. Tables /\ Placed /\ SessionsHold /\ NeverBack /\ (\A c \in Session : Seat(c))
      /\ selected \in [Session -> Viewed] /\ told \in [Session -> Seq(Message)]
  BY StoreStep DEF SessionInv, SessionsHold
<1>1. ASSUME UNCHANGED <<selected, told>> PROVE Stays(s)
  BY <1>1 DEF Stays
<1>2. ASSUME NEW a \in Session, Opens(a) PROVE ViewMoves(s)
  <2>1. ASSUME Deselect(a) PROVE Stays(s) \/ Closes(s)
    <3>1. selected' = [selected EXCEPT ![a] = NotSelected] /\ told' = [told EXCEPT ![a] = <<>>]
      BY <2>1 DEF Deselect
    <3> QED
      BY <1>0, <3>1 DEF Stays, Closes
  <2>2. ASSUME NEW n \in Name, NEW read_only \in BOOLEAN, Select(a, n, read_only) PROVE Stays(s) \/ Reads(s)
    <3>1. PICK f \in Find(n) :
         /\ selected' = [selected EXCEPT ![a] = [folder |-> f, read_only |-> read_only, messages |-> Listing(f)]]
         /\ told' = [told EXCEPT ![a] = Ids(Listing(f))]
      BY <2>2 DEF Select
    <3>2. row' = row /\ f \in Folder
      BY <2>2 DEF Select, store, Find
    <3>3. CASE a = s
      <4>1. selected'[s].folder = f /\ Messages(s)' = Listing(f) /\ told'[s] = Ids(Listing(f))
        BY <1>0, <3>1, <3>3 DEF Messages
      <4> QED
        BY <3>2, <4>1 DEF Reads
    <3>4. CASE a # s
      BY <1>0, <3>1, <3>4 DEF Stays
    <3> QED
      BY <3>3, <3>4
  <2> QED
    BY <1>2, <2>1, <2>2 DEF Opens, Leave, Unselect, ViewMoves
<1>3. ASSUME NEW a \in Session, NEW n \in Name, AppendMessage(a, n, {Seen}) PROVE ViewMoves(s)
  <2>1. PICK f \in Find(n), m \in Message :
       /\ NewRow(m, f, {Seen})
       /\ IF selected[a].folder = f
          THEN /\ selected' = [selected EXCEPT ![a].messages = Append(@, Entry(m)')]
               /\ fresh' = [fresh EXCEPT ![a] = @ \cup {m}]
          ELSE UNCHANGED <<selected, fresh>>
    BY <1>3 DEF AppendMessage
  <2>2. told' = told
    BY <1>3 DEF AppendMessage
  <2>3. CASE selected[a].folder = f /\ a = s
    <3> DEFINE e == [id |-> m, uid |-> row'[m].uid, flags |-> row'[m].flags]
    <3>1. f \in Folder /\ row'[m] = [folder |-> f, uid |-> uidNext[f], flags |-> {Seen}]
      <4>1. f \in Folder
        BY <2>1 DEF Find
      <4>2. NewRow(m, f, {Seen})
        BY <2>1
      <4>3. row' = Place(m, f, {Seen})
        BY <4>2 DEF NewRow
      <4> QED
        BY <1>0, <4>1, <4>3 DEF Place, Tables
    <3>2. uidNext[f] \in 1..MaxUid
      <4>1. uidNext[f] \in 1..(MaxUid + 1) /\ uidNext[f] <= MaxUid
        BY <1>0, <2>1, <3>1 DEF Tables, NewRow
      <4> QED
        BY <4>1, Kinds0
    <3>3. row'[m].uid \in 1..MaxUid /\ row'[m].flags \in SUBSET Flag
      BY <3>1, <3>2 DEF Flag
    <3>4. e \in Listed
      BY <3>3 DEF Listed
    <3>5. e = Entry(m)'
      BY DEF Entry
    <3> HIDE DEF e
    <3>6. selected' = [selected EXCEPT ![s].messages = Append(selected[s].messages, e)]
      BY <2>1, <2>3, <3>5
    <3>7. Messages(s)' = Append(Messages(s), e) /\ selected'[s].folder = selected[s].folder
      BY <1>0, <3>6 DEF Messages, Viewed
    <3> QED
      BY <2>2, <3>4, <3>7 DEF Joins, ViewMoves
  <2>4. CASE selected[a].folder = f /\ a # s
    BY <1>0, <2>1, <2>2, <2>4 DEF Stays, ViewMoves
  <2>5. CASE selected[a].folder # f
    BY <2>1, <2>2, <2>5 DEF Stays, ViewMoves
  <2> QED
    BY <2>3, <2>4, <2>5
<1>4. ASSUME NEW a \in Session, NEW k \in Numbers(a), NEW flags \in SUBSET Flag, SetFlags(a, k, flags) PROVE ViewMoves(s)
  <2>1. selected' = [selected EXCEPT ![a].messages[k].flags = flags] /\ told' = told
    BY <1>4 DEF SetFlags
  <2>2. CASE a = s
    <3> DEFINE e == [Messages(s)[k] EXCEPT !.flags = flags]
    <3>1. Messages(s)[k] \in Listed /\ k \in Numbers(s)
      BY <1>0, <2>2, ListedKinds
    <3>2. e \in Listed /\ e.id = Messages(s)[k].id
      BY <3>1 DEF Listed
    <3>3. selected' = [selected EXCEPT ![s].messages = [Messages(s) EXCEPT ![k] = e]]
      BY <2>1, <2>2 DEF Messages
    <3> HIDE DEF e
    <3>4. Messages(s)' = [Messages(s) EXCEPT ![k] = e] /\ selected'[s].folder = selected[s].folder
      BY <1>0, <3>3 DEF Messages, Viewed
    <3> QED
      BY <2>1, <3>1, <3>2, <3>4 DEF Flags, ViewMoves
  <2>3. CASE a # s
    BY <1>0, <2>1, <2>3 DEF Stays, ViewMoves
  <2> QED
    BY <2>2, <2>3
<1>5. ASSUME NEW a \in Session, NEW k \in Numbers(a), Fetch(a, k) PROVE ViewMoves(s)
  <2>1. Messages(a)[k].flags \cup {Seen} \in SUBSET Flag
    BY <1>0, ListedKinds DEF Flag
  <2> QED
    BY <1>4, <1>5, <2>1 DEF Fetch
<1>6. ASSUME NEW a \in Session, ExpungeOne(a) PROVE ViewMoves(s)
  <2>1. PICK k \in Numbers(a) : /\ Messages(a)[k].id = Head(job[a].todo).id
                                /\ Messages(a)' = Forgets(Messages(a), k) /\ told'[a] = Forgets(told[a], k)
                                /\ selected'[a].folder = selected[a].folder
    BY <1>0, <1>6, ExpungeStep
  <2>2. a # s => Stays(s)
    BY <1>0, <1>6, ExpungeStep DEF Stays
  <2>3. row'[Messages(a)[k].id] = NoRow
    <3>1. Messages(a)[k].id \in Message
      BY <1>0, ListedKinds
    <3>2. row' = [row EXCEPT ![Messages(a)[k].id] = NoRow]
      BY <1>6, <2>1 DEF ExpungeOne, HardDelete
    <3> QED
      BY <1>0, <3>1, <3>2 DEF Tables
  <2>4. Selects(a)
    BY <1>0 DEF Seat, ListingSound, Numbers
  <2>5. a = s => Expunges(s)
    BY <2>1, <2>3, <2>4 DEF Expunges
  <2> QED
    BY <2>2, <2>5 DEF ViewMoves
<1>7. ASSUME NEW a \in Session, CloseOne(a) PROVE ViewMoves(s)
  <2>1. \/ selected' = [selected EXCEPT ![a] = NotSelected] /\ told' = [told EXCEPT ![a] = <<>>]
        \/ UNCHANGED <<selected, told>>
    BY <1>7 DEF CloseOne
  <2>2. Stays(s) \/ Closes(s)
    BY <1>0, <2>1 DEF Stays, Closes
  <2> QED
    BY <2>2 DEF ViewMoves
<1>8. ASSUME NEW a \in Session, MoveOne(a) PROVE ViewMoves(s)
  <2> DEFINE moved == job[a].done \cup {Head(job[a].todo).id}
  <2>1. Unlist(a, moved) \/ UNCHANGED <<selected, told>>
    BY <1>8 DEF MoveOne
  <2>2. \A k \in Numbers(a) : Messages(a)[k].id \in moved => Lost(a, Messages(a)[k].id, Messages(a)[k].uid)
    BY <1>8, MovedAway
  <2>3. moved \in SUBSET Message
    <3>1. Head(job[a].todo).id \in Message
      BY <1>0, <1>8, RelocatesTo DEF MoveOne
    <3> QED
      BY <1>0, <3>1 DEF SessionsHold, Job
  <2> HIDE DEF moved
  <2>4. CASE Unlist(a, moved) /\ a = s
    BY <2>2, <2>3, <2>4 DEF Moves, ViewMoves
  <2>5. CASE Unlist(a, moved) /\ a # s
    <3>1. ListingSound(a)
      BY <1>0 DEF Seat
    <3>2. \A c \in Session : c # a => selected'[c] = selected[c] /\ told'[c] = told[c]
      BY <1>0, <2>5, <3>1, UnlistStep
    <3> QED
      BY <2>5, <3>2 DEF Stays, ViewMoves
  <2> QED
    BY <1>1, <2>1, <2>4, <2>5 DEF ViewMoves
<1>9. ASSUME NEW a \in Session, Idles(a) PROVE ViewMoves(s)
  <2>1. CASE PushLagged(a)
    <3>1. selected' = selected /\ told' = [told EXCEPT ![a] = Heard(told[a], Messages(a))] /\ idle[a].on
      BY <2>1 DEF PushLagged
    <3> QED
      BY <1>0, <3>1 DEF Stays, Counts, ViewMoves
  <2>2. CASE Push(a) /\ Refresh(a)
    <3>1. PICK f : f = selected[a].folder
      OBVIOUS
    <3>2. /\ selected' = [selected EXCEPT ![a].messages = Listing(f)]
          /\ told' = [told EXCEPT ![a] = Heard(told[a], Listing(f))]
      BY <2>2, <3>1 DEF Refresh
    <3>3. idle[a].on /\ row' = row
      BY <2>2 DEF Push, store
    <3>4. f \in Folder
      BY <1>0, <3>1, <3>3 DEF Seat, IdleSound, Selects, Viewed
    <3>5. CASE a = s
      <4>1. Messages(s)' = Listing(f) /\ selected'[s].folder = selected[s].folder /\ told'[s] = Heard(told[s], Listing(f))
        BY <1>0, <3>2, <3>5 DEF Messages, Viewed
      <4> QED
        BY <3>1, <3>3, <3>4, <3>5, <4>1 DEF Reads, ViewMoves
    <3>6. CASE a # s
      BY <1>0, <3>2, <3>6 DEF Stays, ViewMoves
    <3> QED
      BY <3>5, <3>6
  <2>3. CASE UNCHANGED <<selected, told>>
    BY <1>1, <2>3 DEF ViewMoves
  <2> QED
    BY <1>9, <2>1, <2>2, <2>3 DEF Idles, Idle, EndIdle, Push
<1>10. ASSUME NEW a \in Session,
              \/ Folders(a) \/ Abandon(a) \/ BeginClose(a) \/ (\E numbers : BeginExpunge(a, numbers))
              \/ (\E kind, numbers, n : BeginFile(a, kind, numbers, n)) \/ CopyOne(a)
       PROVE  ViewMoves(s)
  <2>1. UNCHANGED <<selected, told>>
    BY <1>10 DEF Folders, Create, Delete, Rename, Abandon, BeginClose, BeginExpunge, BeginFile, Begin, CopyOne
  <2> QED
    BY <1>1, <2>1 DEF ViewMoves
<1>11. CASE Others
  <2>1. UNCHANGED <<selected, told>>
    BY <1>11 DEF Others, Arrive, Delivered
  <2> QED
    BY <1>1, <2>1 DEF ViewMoves
<1>12. ASSUME NEW a \in Session, Works(a) PROVE ViewMoves(s)
  BY <1>3, <1>4, <1>5, <1>10, <1>12 DEF Works, Store
<1>13. ASSUME NEW a \in Session, Proceed(a) PROVE ViewMoves(s)
  BY <1>6, <1>7, <1>8, <1>10, <1>13 DEF Proceed
<1>14. CASE UNCHANGED vars
  BY <1>1, <1>14 DEF vars, ViewMoves
<1> QED
  BY <1>2, <1>9, <1>10, <1>11, <1>12, <1>13, <1>14 DEF Next

(* An increasing numbering without gaps numbers each by its place.          *)
LEMMA Initials ==
  ASSUME NEW n \in Nat, NEW g \in [1..n -> Nat \ {0}],
         \A i, j \in 1..n : i < j => g[i] < g[j],
         \A k \in 1..n : \A j \in 1..(g[k] - 1) : \E a \in 1..n : g[a] = j
  PROVE  \A k \in 1..n : g[k] = k
<1> DEFINE S == {i \in 0..n : \A j \in 1..i : g[j] = j}
<1>1. 0 \in S
  OBVIOUS
<1>2. ASSUME NEW i \in 0..(n - 1), i \in S PROVE i + 1 \in S
  <2>1. i \in Nat /\ i + 1 \in 1..n /\ i + 1 \in 0..n /\ \A j \in 1..i : j \in 1..n /\ g[j] = j
    BY <1>2
  <2>2. g[i + 1] \in Nat /\ g[i + 1] >= i + 1
    <3>1. CASE i = 0
      <4>1. g[i + 1] \in Nat \ {0}
        BY <2>1
      <4> QED
        BY <3>1, <4>1
    <3>2. CASE i # 0
      <4>1. i \in 1..i /\ i \in 1..n /\ i < i + 1
        BY <2>1, <3>2
      <4>2. g[i] = i /\ g[i] < g[i + 1] /\ g[i + 1] \in Nat
        BY <2>1, <4>1
      <4> QED
        BY <2>1, <4>2
    <3> QED
      BY <3>1, <3>2
  <2>3. ASSUME g[i + 1] # i + 1 PROVE FALSE
    <3>1. i + 1 \in 1..(g[i + 1] - 1)
      BY <2>1, <2>2, <2>3
    <3>2. PICK a \in 1..n : g[a] = i + 1
      BY <2>1, <3>1
    <3>3. CASE a \in 1..i
      BY <2>1, <3>2, <3>3
    <3>4. CASE a = i + 1
      BY <2>3, <3>2, <3>4
    <3>5. CASE i + 1 < a
      <4>1. g[i + 1] < g[a] /\ g[a] \in Nat
        BY <2>1, <3>5
      <4> QED
        BY <2>1, <2>2, <3>2, <4>1
    <3> QED
      BY <2>1, <3>3, <3>4, <3>5
  <2>4. \A j \in 1..(i + 1) : j \in 1..i \/ j = i + 1
    BY <2>1
  <2> QED
    BY <2>1, <2>3, <2>4
<1> HIDE DEF S
<1>3. \A i \in 0..n : i \in S
  BY <1>1, <1>2, Counting
<1>4. n \in S /\ n \in 0..n
  BY <1>3
<1> QED
  BY <1>4 DEF S

(* An up-to-date listing is where reading the folder again begins.          *)
LEMMA UpToDateReads ==
  ASSUME SessionInv, NEW s \in Session, UpToDate(s), NEW f \in Folder, selected[s].folder = f
  PROVE  \A k \in Numbers(s) : k \in DOMAIN Listing(f) /\ Listing(f)[k].id = Messages(s)[k].id
<1> DEFINE list == Listing(f)
           own == Messages(s)
<1>0. Tables /\ Placed /\ SessionsHold /\ ListingSound(s)
  BY DEF SessionInv, Seat
<1>1. /\ list \in Seq(Listed) /\ Ascends(list)
      /\ \A k \in DOMAIN list : list[k].id \in In(f) /\ list[k] = Entry(list[k].id)
      /\ \A m \in In(f) : \E k \in DOMAIN list : list[k] = Entry(m)
  BY <1>0, ListingLists
<1>2. own \in Seq(Listed) /\ Ascends(own)
  BY <1>0 DEF SessionsHold, Viewed, Messages, ListingSound
<1>3. \A e \in Listed : e.id \in Message /\ e.uid \in 1..MaxUid
  BY DEF Listed
<1>4. /\ \A k \in DOMAIN own : row[own[k].id].folder = f /\ row[own[k].id].uid = own[k].uid
      /\ \A m \in In(f) : \A k \in DOMAIN own : row[m].uid < own[k].uid => \E j \in DOMAIN own : own[j].id = m
  BY DEF UpToDate, Numbers
<1>5. Numbers(s) = DOMAIN own
  BY DEF Numbers
<1> HIDE DEF list, own
<1> DEFINE n == Len(own)
<1>6. n \in Nat /\ DOMAIN own = 1..n /\ DOMAIN list = 1..Len(list) /\ Len(list) \in Nat
  BY <1>1, <1>2
<1>7. ASSUME NEW k \in 1..n
      PROVE  \E i \in DOMAIN list : list[i].id = own[k].id /\ list[i].uid = own[k].uid
  <2>1. own[k] \in Listed /\ k \in DOMAIN own
    BY <1>2, <1>6
  <2>2. own[k].id \in In(f) /\ row[own[k].id].uid = own[k].uid
    BY <1>3, <1>4, <2>1 DEF In
  <2>3. PICK i \in DOMAIN list : list[i] = Entry(own[k].id)
    BY <1>1, <2>2
  <2> QED
    BY <2>2, <2>3 DEF Entry
<1> DEFINE Found(k, i) == i \in DOMAIN list /\ list[i].id = own[k].id /\ list[i].uid = own[k].uid
           g == [k \in 1..n |-> CHOOSE i \in DOMAIN list : Found(k, i)]
<1>8. \A k \in 1..n : g[k] \in DOMAIN list /\ Found(k, g[k])
  BY <1>7
<1>9. g \in [1..n -> Nat \ {0}]
  <2>1. DOMAIN list \subseteq Nat \ {0}
    BY <1>6
  <2> QED
    BY <1>8, <2>1
<1> HIDE DEF g
<1>10. \A i \in DOMAIN list : list[i] \in Listed /\ list[i].uid \in Nat
  BY <1>1, <1>3
<1>11. ASSUME NEW i \in 1..n, NEW j \in 1..n, i < j PROVE g[i] < g[j]
  <2>1. own[i].uid < own[j].uid
    BY <1>2, <1>6, <1>11 DEF Ascends
  <2>2. g[i] \in DOMAIN list /\ g[j] \in DOMAIN list /\ list[g[i]].uid < list[g[j]].uid
    BY <1>8, <2>1
  <2>3. list[g[i]].uid \in Nat /\ list[g[j]].uid \in Nat
    BY <1>10, <2>2
  <2>4. ~(g[j] < g[i]) /\ g[i] # g[j]
    <3>1. g[j] < g[i] => list[g[j]].uid < list[g[i]].uid
      BY <1>1, <2>2 DEF Ascends
    <3> QED
      BY <2>2, <2>3, <3>1
  <2>5. g[i] \in Nat /\ g[j] \in Nat
    BY <1>9
  <2> QED
    BY <2>4, <2>5
<1>12. ASSUME NEW k \in 1..n, NEW j \in 1..(g[k] - 1) PROVE \E a \in 1..n : g[a] = j
  <2>1. g[k] \in DOMAIN list /\ g[k] \in Nat /\ list[g[k]].uid = own[k].uid
    BY <1>8, <1>9
  <2>2. j \in DOMAIN list /\ j < g[k]
    BY <1>6, <2>1
  <2>3. list[j].uid < own[k].uid
    BY <1>1, <2>1, <2>2 DEF Ascends
  <2>4. list[j].id \in In(f) /\ list[j].uid = row[list[j].id].uid
    BY <1>1, <2>2 DEF Entry
  <2>5. PICK a \in 1..n : own[a].id = list[j].id
    BY <1>4, <1>6, <2>3, <2>4
  <2>6. list[g[a]].id = list[j].id /\ g[a] \in DOMAIN list
    BY <1>8, <2>5
  <2>7. g[a] = j
    BY <1>1, <2>2, <2>6 DEF Ascends
  <2> QED
    BY <2>7
<1>13. \A k \in 1..n : g[k] = k
  BY <1>6, <1>9, <1>11, <1>12, Initials
<1>14. \A k \in DOMAIN own : k \in DOMAIN list /\ list[k].id = own[k].id
  BY <1>6, <1>8, <1>13
<1> QED
  BY <1>5, <1>14 DEF list, own

(* What the client has for a number is what the server has, after a step.   *)
LEMMA AgreeStep ==
  ASSUME SessionInv, NEW s \in Session, ViewMoves(s), Agree(s), ~idle[s].on \/ UpToDate(s)
  PROVE  Agree(s)'
<1> DEFINE t == told[s]
           own == Messages(s)
<1>0. SessionsHold /\ ListingSound(s) /\ t \in Seq(Message) /\ own \in Seq(Listed)
  BY DEF SessionInv, Seat, SessionsHold, Viewed, Messages
<1>1. Matches(t, own)
  BY DEF Agree, Matches
<1>2. SUFFICES ASSUME NEW t1, NEW q1, told'[s] = t1, Messages(s)' = q1 PROVE Matches(t1, q1)
  <2>1. Matches(told'[s], Messages(s)')
    BY <1>2
  <2> QED
    BY <2>1 DEF Agree, Matches
<1>3. CASE Stays(s)
  <2>1. q1 = own /\ t1 = t
    BY <1>2, <1>3 DEF Stays, Messages
  <2> QED
    BY <1>1, <2>1
<1>4. CASE Closes(s)
  <2>1. q1 = <<>> /\ t1 = <<>>
    BY <1>2, <1>4 DEF Closes, Messages, NotSelected
  <2> QED
    BY <2>1 DEF Matches
<1>5. CASE Reads(s)
  <2>1. PICK f \in Folder :
          /\ q1 = Listing(f)
          /\ \/ t1 = Ids(Listing(f))
             \/ t1 = Heard(t, Listing(f)) /\ idle[s].on /\ selected[s].folder = f
    BY <1>2, <1>5 DEF Reads
  <2>2. Listing(f) \in Seq(Listed)
    BY ListingLists DEF SessionInv
  <2>3. CASE t1 = Ids(Listing(f))
    <3> DEFINE list == Listing(f)
    <3> HIDE DEF list
    <3>1. list \in Seq(Listed) /\ q1 = list /\ t1 = Ids(list)
      BY <2>1, <2>2, <2>3 DEF list
    <3>2. Len(t1) = Len(list) /\ DOMAIN t1 = DOMAIN list /\ \A k \in DOMAIN list : t1[k] = list[k].id
      BY <3>1, IdsKinds
    <3>3. Len(list) \in Nat
      BY <3>1
    <3> QED
      BY <3>1, <3>2, <3>3 DEF Matches
  <2>4. CASE t1 = Heard(t, Listing(f)) /\ idle[s].on /\ selected[s].folder = f
    <3> DEFINE list == Listing(f)
    <3>1. \A k \in DOMAIN own : k \in DOMAIN list /\ list[k].id = own[k].id
      BY <2>4, UpToDateReads DEF Numbers
    <3> HIDE DEF list
    <3>2. list \in Seq(Listed) /\ q1 = list /\ t1 = Heard(t, list)
      BY <2>1, <2>2, <2>4 DEF list
    <3> HIDE DEF t, own
    <3>3. /\ Len(t1) = Len(list) /\ DOMAIN t1 = DOMAIN list
          /\ \A k \in DOMAIN list : t1[k] = IF k \in DOMAIN t THEN t[k] ELSE list[k].id
      BY <1>0, <3>2, HeardKinds
    <3>4. \A k \in DOMAIN t : k \in DOMAIN own /\ t[k] = own[k].id
      <4>1. DOMAIN t = 1..Len(t) /\ DOMAIN own = 1..Len(own) /\ Len(t) \in Nat /\ Len(own) \in Nat
        BY <1>0
      <4> QED
        BY <1>1, <4>1 DEF Matches
    <3>5. \A k \in DOMAIN list : t1[k] = list[k].id
      BY <3>1, <3>3, <3>4
    <3>6. Len(list) \in Nat
      BY <3>2
    <3> QED
      BY <3>2, <3>3, <3>5, <3>6 DEF Matches
  <2> QED
    BY <2>1, <2>3, <2>4
<1>6. CASE Joins(s)
  <2>1. PICK e \in Listed : q1 = Append(own, e) /\ t1 = t
    BY <1>2, <1>6 DEF Joins
  <2> HIDE DEF t, own
  <2>2. /\ Len(q1) = Len(own) + 1 /\ \A k \in 1..Len(own) : q1[k] = own[k]
        /\ Len(t) \in Nat /\ Len(own) \in Nat /\ DOMAIN t = 1..Len(t)
    BY <1>0, <2>1
  <2>3. Len(t) <= Len(q1) /\ \A k \in DOMAIN t : k \in 1..Len(own)
    BY <1>1, <2>2 DEF Matches
  <2> QED
    BY <1>1, <2>1, <2>2, <2>3 DEF Matches
<1>7. CASE Flags(s)
  <2>1. PICK k \in Numbers(s), e \in Listed : e.id = own[k].id /\ q1 = [own EXCEPT ![k] = e] /\ t1 = t
    BY <1>2, <1>7 DEF Flags
  <2>2. k \in DOMAIN own
    BY DEF Numbers
  <2> HIDE DEF t, own
  <2>3. Len(q1) = Len(own) /\ \A i \in DOMAIN own : q1[i].id = own[i].id
    BY <1>0, <2>1, <2>2
  <2>4. \A i \in DOMAIN t : i \in DOMAIN own
    <3>1. DOMAIN t = 1..Len(t) /\ DOMAIN own = 1..Len(own) /\ Len(t) \in Nat /\ Len(own) \in Nat
      BY <1>0
    <3> QED
      BY <1>1, <3>1 DEF Matches
  <2> QED
    BY <1>1, <2>1, <2>3, <2>4 DEF Matches
<1>8. CASE Expunges(s)
  <2>1. PICK k \in Numbers(s) : q1 = Forgets(own, k) /\ t1 = Forgets(t, k)
    BY <1>2, <1>8 DEF Expunges
  <2>2. k \in Nat \ {0}
    BY <1>0, ListedKinds
  <2> HIDE DEF t, own
  <2> QED
    BY <1>0, <1>1, <2>1, <2>2, ForgettingMatches
<1>9. CASE Moves(s)
  <2>1. PICK moved \in SUBSET Message : Unlist(s, moved)
    BY <1>9 DEF Moves
  <2> DEFINE d == Downward(Numbering(s, moved))
  <2>2. q1 = Dropping(own, d) /\ t1 = Dropping(t, d) /\ d \in Seq(Nat \ {0})
    BY <1>0, <1>2, <2>1, UnlistStep
  <2> HIDE DEF t, own, d
  <2> DEFINE All == Message \cup Listed
  <2>3. t \in Seq(All) /\ own \in Seq(All)
    BY <1>0
  <2> HIDE DEF All
  <2> QED
    BY <1>1, <2>2, <2>3, DroppingMatches
<1>10. CASE Counts(s)
  <2>1. t1 = Heard(t, own) /\ q1 = own
    BY <1>2, <1>10 DEF Counts, Messages
  <2> HIDE DEF t, own
  <2>2. /\ Len(t1) = Len(own) /\ DOMAIN t1 = DOMAIN own
        /\ \A k \in DOMAIN own : t1[k] = IF k \in DOMAIN t THEN t[k] ELSE own[k].id
    BY <1>0, <2>1, HeardKinds
  <2>3. Len(own) \in Nat
    BY <1>0
  <2> QED
    BY <1>1, <2>1, <2>2, <2>3 DEF Matches
<1> QED
  BY <1>3, <1>4, <1>5, <1>6, <1>7, <1>8, <1>9, <1>10 DEF ViewMoves

(* A message that leaves a listing otherwise than by reading the folder      *)
(* again is not where it was listed.                                        *)
LEMMA ReportedStep ==
  ASSUME SessionInv, NEW s \in Session, ViewMoves(s), NEW q1, Messages(s)' = q1,
         selected[s].folder = selected'[s].folder, ~idle[s].on, NEW k \in Numbers(s),
         \A i \in DOMAIN q1 : q1[i].id # Messages(s)[k].id
  PROVE  Lost(s, Messages(s)[k].id, Messages(s)[k].uid)
<1> DEFINE own == Messages(s)
           m == own[k].id
<1>0. Tables /\ Placed /\ SessionsHold /\ ListingSound(s) /\ own \in Seq(Listed) /\ k \in DOMAIN own /\ k \in Nat \ {0}
      /\ m \in Message
  BY ListedKinds DEF SessionInv, Seat, Numbers
<1>1. Selects(s) /\ \A i, j \in DOMAIN own : own[i].id = own[j].id => i = j
  BY <1>0 DEF ListingSound, Ascends, Numbers
<1>2. ASSUME q1 = own PROVE FALSE
  BY <1>0, <1>2
<1>3. CASE Stays(s) \/ Counts(s)
  <2>1. q1 = own
    BY <1>3 DEF Stays, Counts, Messages
  <2> QED
    BY <1>2, <2>1
<1>4. CASE Closes(s)
  BY <1>1, <1>4 DEF Closes, Selects, NotSelected
<1>5. CASE Reads(s)
  <2>1. PICK f \in Folder : selected'[s].folder = f /\ q1 = Listing(f) /\ row' = row
    BY <1>5 DEF Reads
  <2>2. f = selected[s].folder
    BY <2>1
  <2>3. m \notin In(f)
    <3>1. \A x \in In(f) : \E i \in DOMAIN Listing(f) : Listing(f)[i] = Entry(x)
      BY <1>0, ListingLists
    <3>2. Entry(m).id = m
      BY DEF Entry
    <3> QED
      BY <2>1, <3>1, <3>2
  <2>4. row[m].folder # f
    BY <1>0, <2>3 DEF In
  <2> QED
    BY <2>1, <2>2, <2>4 DEF Lost
<1>6. CASE Joins(s)
  <2>1. PICK e \in Listed : q1 = Append(own, e)
    BY <1>6 DEF Joins
  <2> HIDE DEF own
  <2>2. k \in DOMAIN q1 /\ q1[k] = own[k]
    BY <1>0, <2>1
  <2> QED
    BY <2>2 DEF own
<1>7. CASE Flags(s)
  <2>1. PICK i \in Numbers(s), e \in Listed : e.id = own[i].id /\ q1 = [own EXCEPT ![i] = e]
    BY <1>7 DEF Flags
  <2>2. i \in DOMAIN own
    BY DEF Numbers
  <2> HIDE DEF own
  <2>3. k \in DOMAIN q1 /\ q1[k].id = own[k].id
    BY <1>0, <2>1, <2>2
  <2> QED
    BY <2>3 DEF own
<1>8. CASE Expunges(s)
  <2>1. PICK i \in Numbers(s) : q1 = Forgets(own, i) /\ row'[own[i].id] = NoRow
    BY <1>8 DEF Expunges
  <2>2. i \in Nat \ {0}
    BY <1>0, ListedKinds
  <2>3. CASE i = k
    <3>1. row'[m].folder = NoFolder
      BY <2>1, <2>3 DEF NoRow
    <3> QED
      BY <1>1, <3>1 DEF Lost, Selects
  <2>4. CASE i # k
    <3> HIDE DEF own
    <3>1. \A j \in DOMAIN own : /\ j < i => j \in DOMAIN q1 /\ q1[j] = own[j]
                                /\ j > i => j - 1 \in DOMAIN q1 /\ q1[j - 1] = own[j]
      <4>1. own \in Seq(Listed)
        BY <1>0
      <4>2. q1 = Forgets(own, i)
        BY <2>1
      <4>3. Shifted(q1, own, i)
        BY <2>2, <4>1, <4>2, Shifts
      <4> QED
        BY <4>3 DEF Shifted
    <3>2. k < i \/ k > i
      BY <1>0, <2>2, <2>4
    <3>3. \E j \in DOMAIN q1 : q1[j] = own[k]
      BY <1>0, <3>1, <3>2
    <3> QED
      BY <3>3 DEF own
  <2> QED
    BY <2>3, <2>4
<1>9. CASE Moves(s)
  <2>1. PICK moved \in SUBSET Message :
          /\ Unlist(s, moved)
          /\ \A i \in Numbers(s) : own[i].id \in moved => Lost(s, own[i].id, own[i].uid)
    BY <1>9 DEF Moves
  <2>2. CASE own[k].id \in moved
    BY <2>1, <2>2
  <2>3. CASE own[k].id \notin moved
    <3>1. \E j \in Numbers(s)' : Messages(s)'[j] = own[k]
      BY <1>0, <2>1, <2>3, UnlistStep
    <3>2. Numbers(s)' = DOMAIN q1
      BY DEF Numbers
    <3> QED
      BY <3>1, <3>2
  <2> QED
    BY <2>2, <2>3
<1> QED
  BY <1>3, <1>4, <1>5, <1>6, <1>7, <1>8, <1>9 DEF ViewMoves

(* An untagged EXPUNGE, of an EXPUNGE or a MOVE, is about a message that is  *)
(* gone, and leaves the client's numbers where the server's are.            *)
THEOREM ExpungesStayTrue == Spec => ExpungesAreTrue
<1> DEFINE Alike == \A s \in Session : Agree(s) /\ (~idle[s].on \/ UpToDate(s)) => Agree(s)'
           Told == \A s \in Session :
             selected[s].folder = selected'[s].folder /\ ~idle[s].on
               => \A k \in Numbers(s) :
                    LET e == Messages(s)[k]
                    IN e.id \notin {Messages(s)'[i].id : i \in DOMAIN Messages(s)'}
                         => row'[e.id].folder # selected[s].folder \/ row'[e.id].uid # e.uid
<1>1. SessionInv /\ [Next]_vars => [Alike]_vars
  BY ViewStep, AgreeStep
<1>2. SessionInv /\ [Next]_vars => [Told]_vars
  <2> SUFFICES ASSUME SessionInv, [Next]_vars, NEW s \in Session,
                      selected[s].folder = selected'[s].folder, ~idle[s].on, NEW k \in Numbers(s),
                      Messages(s)[k].id \notin {Messages(s)'[i].id : i \in DOMAIN Messages(s)'}
               PROVE  row'[Messages(s)[k].id].folder # selected[s].folder
                      \/ row'[Messages(s)[k].id].uid # Messages(s)[k].uid
    OBVIOUS
  <2>1. PICK q1 : Messages(s)' = q1
    OBVIOUS
  <2>2. \A i \in DOMAIN q1 : q1[i].id # Messages(s)[k].id
    BY <2>1
  <2>3. Lost(s, Messages(s)[k].id, Messages(s)[k].uid)
    BY <2>1, <2>2, ViewStep, ReportedStep
  <2> QED
    BY <2>3 DEF Lost
<1>3. Spec => []SessionInv
  BY InitSessionInv, SessionInvStep, PTL DEF Spec
<1>4. Spec => [][Next]_vars
  BY PTL DEF Spec
<1>5. Spec => [][Alike]_vars
  BY <1>1, <1>3, <1>4, PTL
<1>6. Spec => [][Told]_vars
  BY <1>2, <1>3, <1>4, PTL
<1> QED
  BY <1>5, <1>6, PTL DEF ExpungesAreTrue, RenumberedAlike, ReportedIsGone
=============================================================================
