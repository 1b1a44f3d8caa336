-------------------------- MODULE SmtpServerProofs --------------------------
(* What is proved of the SMTP server.                                       *)
(*                                                                         *)
(* Of its listeners: that the limiter counts exactly the connections it     *)
(* admitted and never goes over its caps or below zero, for any number of   *)
(* connections, addresses and restarts of the listener, and that the admin  *)
(* switch says what is so.                                                  *)
(*                                                                         *)
(* Of a session: that mail is relayed only for an account proved on this    *)
(* connection, that the envelope is the one the peer was told of, and that  *)
(* quarantined mail stays out of INBOX, for any addresses, mailboxes and    *)
(* settings; that the greylist keeps nothing waiting beyond its delay; and  *)
(* that the policy's verdict is what the peer and the mailbox see.          *)
EXTENDS Listeners, SmtpInbound, FiniteSetTheorems, TLAPS

(* One element more, one less. *)
LEMMA OneMore ==
  ASSUME NEW S, IsFiniteSet(S), NEW x, x \notin S
  PROVE  IsFiniteSet(S \cup {x}) /\ Cardinality(S \cup {x}) = Cardinality(S) + 1
BY FS_AddElement

LEMMA OneLess ==
  ASSUME NEW S, IsFiniteSet(S), NEW x \in S
  PROVE  /\ IsFiniteSet(S \ {x})
         /\ Cardinality(S \ {x}) = Cardinality(S) - 1
         /\ Cardinality(S) \in Nat \ {0}
<1>1. IsFiniteSet(S \ {x}) /\ Cardinality(S \ {x}) = Cardinality(S) - 1
  BY FS_RemoveElement
<1>2. Cardinality(S) \in Nat
  BY FS_CardinalityType
<1>3. Cardinality(S) # 0
  BY FS_EmptySet
<1> QED
  BY <1>1, <1>2, <1>3

LEMMA CountedFinite ==
  ASSUME NEW g \in Servers
  PROVE  IsFiniteSet(Counted(g)) /\ \A ip \in Ips : IsFiniteSet(CountedOf(g, ip))
BY FS_Subset, ListenersAssumption DEF ListenersAssumption, Counted, CountedOf

Caps == ListenersTypeOK /\ SlotsExact

LEMMA InitCaps == ListenersInit => Caps
<1> SUFFICES ASSUME ListenersInit PROVE Caps
  OBVIOUS
<1>1. ListenersTypeOK
  BY ListenersAssumption DEF ListenersAssumption, ListenersInit, ListenersTypeOK, Job, Loops, Places, Held, Serving, Waiting, Servers, Families, Idle
<1>2. \A g \in Servers : Counted(g) = {} /\ \A ip \in Ips : CountedOf(g, ip) = {}
  BY DEF ListenersInit, Counted, CountedOf, Held, Serving, Waiting
<1>3. SlotsExact
  BY <1>2, FS_EmptySet DEF ListenersInit, SlotsExact
<1> QED
  BY <1>1, <1>3 DEF Caps

(* The supervisor and the accept loops leave the limiter alone. *)
LEMMA SupervisorType ==
  ASSUME ListenersTypeOK, SupervisorNext \/ LoopNext
                 \/ (\E f \in Families, want \in BOOLEAN : Ask(f, want))
                 \/ (\E g \in Servers : ImapAcceptFails(g))
  PROVE  ListenersTypeOK' /\ UNCHANGED connVars
<1> USE ListenersAssumption DEF ListenersAssumption, ListenersTypeOK, connVars, Families, Servers
<1>1. CASE Keep
  BY <1>1 DEF Keep, Job
<1>2. CASE Start
  <2> DEFINE f == supervisor.family
  <2>1. f \in Families
    BY <1>2 DEF Start, Job, Idle
  <2>2. supervisor' \in Job
    BY <1>2 DEF Start, Job
  <2>3. loop' \in [Families -> [Servers -> Loops]]
    BY <1>2, <2>1 DEF Start, Loops
  <2>4. enabled' \in [Families -> BOOLEAN]
    <3>1. (f = "imap" \/ ~PortTaken(f)) \in BOOLEAN
      BY DEF PortTaken
    <3> QED
      BY <1>2, <2>1, <3>1 DEF Start
  <2>5. server' \in [Families -> 0 .. MaxStarts]
    BY <1>2, <2>1 DEF Start
  <2> QED
    BY <1>2, <2>2, <2>3, <2>4, <2>5 DEF Start
<1>3. CASE Stop
  <2>1. supervisor.family \in Families /\ supervisor' \in Job
    BY <1>3 DEF Stop, Job, Idle
  <2> QED
    BY <1>3, <2>1 DEF Stop
<1>4. CASE Stopped
  <2>1. supervisor.family \in Families
    BY <1>4 DEF Stopped, Job, Idle
  <2> QED
    BY <1>4, <2>1 DEF Stopped, Job
<1>5. ASSUME NEW f \in Families, NEW g \in Servers, LoopStops(f, g)
      PROVE  ListenersTypeOK' /\ UNCHANGED connVars
  BY <1>5 DEF LoopStops, LoopBecomes, Loops
<1>6. ASSUME NEW g \in Servers, ImapBinds(g)
      PROVE  ListenersTypeOK' /\ UNCHANGED connVars
  BY <1>6 DEF ImapBinds, LoopBecomes, Loops
<1>7. ASSUME NEW f \in Families, NEW want \in BOOLEAN, Ask(f, want)
      PROVE  ListenersTypeOK' /\ UNCHANGED connVars
  BY <1>7 DEF Ask, Job
<1>8. ASSUME NEW g \in Servers, ImapAcceptFails(g)
      PROVE  ListenersTypeOK' /\ UNCHANGED connVars
  BY <1>8 DEF ImapAcceptFails, LoopBecomes, Loops
<1> QED
  BY <1>1, <1>2, <1>3, <1>4, <1>5, <1>6, <1>7, <1>8 DEF SupervisorNext, LoopNext

(* A step within a session moves no count. *)
LEMMA WithinSession ==
  ASSUME Caps, NEW c \in Conns, at[c] \in Held,
         at' = [at EXCEPT ![c] = at'[c]], at'[c] \in Held,
         of' = of, global' = global, active' = active
  PROVE  SlotsExact'
<1>1. \A g \in Servers : Counted(g)' = Counted(g)
  BY DEF Caps, ListenersTypeOK, Counted, Held, Serving, Waiting
<1>2. \A g \in Servers, ip \in Ips : CountedOf(g, ip)' = CountedOf(g, ip)
  BY DEF Caps, ListenersTypeOK, CountedOf
<1> QED
  BY <1>1, <1>2 DEF Caps, SlotsExact

LEMMA MovesKeeps ==
  ASSUME Caps, NEW c \in Conns, NEW from, NEW to, from \subseteq Held, to \subseteq Held,
         Moves(c, from, to)
  PROVE  Caps'
<1>1. PICK place \in to : Goes(c, place)
  BY DEF Moves
<1>2. at' = [at EXCEPT ![c] = place] /\ at'[c] = place /\ at[c] \in Held /\ place \in Held
  BY <1>1 DEF Goes, Moves, Caps, ListenersTypeOK
<1>3. SlotsExact'
  BY <1>2, WithinSession DEF Moves
<1>4. at' \in [Conns -> Places]
  BY <1>2 DEF Caps, ListenersTypeOK, Places
<1> QED
  BY <1>3, <1>4 DEF Caps, ListenersTypeOK, Moves, supervisorVars

LEMMA ClaimKeeps ==
  ASSUME Caps, NEW c \in Conns, NEW g \in Servers, Claim(c, g)
  PROVE  Caps'
<1> USE DEF Caps
<1>1. at[c] = "away" /\ at' = [at EXCEPT ![c] = "claimed"] /\ of' = [of EXCEPT ![c] = g]
  BY DEF Claim, Goes
<1>2. at' \in [Conns -> Places] /\ of' \in [Conns -> Servers]
  BY <1>1 DEF ListenersTypeOK, Places
<1>3. Counted(g)' = Counted(g) \cup {c} /\ c \notin Counted(g)
  BY <1>1 DEF ListenersTypeOK, Counted
<1>4. \A h \in Servers \ {g} : Counted(h)' = Counted(h)
  BY <1>1 DEF ListenersTypeOK, Counted
<1>5. \A h \in Servers, ip \in Ips : CountedOf(h, ip)' = CountedOf(h, ip)
  BY <1>1 DEF ListenersTypeOK, CountedOf, Held, Serving, Waiting
<1>6. Cardinality(Counted(g)') = global[g] + 1
  BY <1>3, OneMore, CountedFinite DEF SlotsExact
<1>7. global' = [global EXCEPT ![g] = global[g] + 1] /\ global[g] < MaxConnections
  BY DEF Claim
<1>8. global' \in [Servers -> 0 .. MaxConnections]
  BY <1>7, ListenersAssumption DEF ListenersTypeOK, ListenersAssumption
<1>9. \A h \in Servers : global'[h] = Cardinality(Counted(h)')
  BY <1>4, <1>6, <1>7 DEF ListenersTypeOK, SlotsExact
<1>10. SlotsExact'
  BY <1>5, <1>9 DEF SlotsExact, Claim
<1>11. talking' \in [Conns -> BOOLEAN]
  BY DEF Claim, ListenersTypeOK
<1> QED
  BY <1>2, <1>8, <1>10, <1>11 DEF ListenersTypeOK, Claim, supervisorVars

LEMMA AdmitKeeps ==
  ASSUME Caps, NEW c \in Conns, Admit(c)
  PROVE  Caps'
<1> DEFINE g == of[c]
           ip == IpOf[c]
<1> USE DEF Caps
<1>1. g \in Servers /\ ip \in Ips /\ IpOf \in [Conns -> Ips]
  BY ListenersAssumption DEF ListenersTypeOK, ListenersAssumption
<1>2. PICK place \in {"reading", "handshake"} : Goes(c, place)
  BY DEF Admit
<1>3. at' = [at EXCEPT ![c] = place] /\ at[c] = "claimed" /\ of' = of
  BY <1>2 DEF Goes, Admit
<1>4. at' \in [Conns -> Places]
  BY <1>3 DEF ListenersTypeOK, Places, Held, Serving, Waiting
<1>5. \A h \in Servers : Counted(h)' = Counted(h)
  BY <1>3 DEF ListenersTypeOK, Counted
<1>6. CountedOf(g, ip)' = CountedOf(g, ip) \cup {c} /\ c \notin CountedOf(g, ip)
  BY <1>3 DEF ListenersTypeOK, CountedOf, Held, Serving, Waiting
<1>7. \A h \in Servers, i \in Ips : h # g \/ i # ip => CountedOf(h, i)' = CountedOf(h, i)
  BY <1>3 DEF ListenersTypeOK, CountedOf
<1>8. Cardinality(CountedOf(g, ip)') = active[g][ip] + 1
  BY <1>1, <1>6, OneMore, CountedFinite DEF SlotsExact
<1>9. active' = [active EXCEPT ![g][ip] = active[g][ip] + 1] /\ active[g][ip] < MaxPerIp
  BY DEF Admit
<1>10. active'[g][ip] = active[g][ip] + 1
  BY <1>1, <1>9 DEF ListenersTypeOK
<1>11. \A h \in Servers, i \in Ips : h # g \/ i # ip => active'[h][i] = active[h][i]
  BY <1>1, <1>9 DEF ListenersTypeOK
<1>12. active' \in [Servers -> [Ips -> 0 .. MaxPerIp]]
  <2>1. active[g][ip] + 1 \in 0 .. MaxPerIp
    BY <1>1, <1>9, ListenersAssumption DEF ListenersTypeOK, ListenersAssumption
  <2> QED
    BY <1>1, <1>9, <2>1 DEF ListenersTypeOK
<1>13. \A h \in Servers, i \in Ips : active'[h][i] = Cardinality(CountedOf(h, i)')
  <2> SUFFICES ASSUME NEW h \in Servers, NEW i \in Ips
               PROVE  active'[h][i] = Cardinality(CountedOf(h, i)')
    OBVIOUS
  <2>1. CASE h = g /\ i = ip
    <3>1. active'[g][ip] = Cardinality(CountedOf(g, ip)')
      BY <1>8, <1>10
    <3>2. active'[h][i] = active'[g][ip] /\ CountedOf(h, i)' = CountedOf(g, ip)'
      BY <2>1, <1>3 DEF CountedOf
    <3> QED
      BY <3>1, <3>2
  <2>2. CASE h # g \/ i # ip
    <3>1. active'[h][i] = active[h][i] /\ CountedOf(h, i)' = CountedOf(h, i)
      BY <2>2, <1>7, <1>11
    <3>2. active[h][i] = Cardinality(CountedOf(h, i))
      BY DEF SlotsExact
    <3> QED
      BY <3>1, <3>2
  <2> QED
    BY <2>1, <2>2
<1>14. SlotsExact'
  BY <1>5, <1>13 DEF SlotsExact, Admit
<1> QED
  BY <1>4, <1>12, <1>14 DEF ListenersTypeOK, Admit, supervisorVars

(* A connection that is counted leaves: the number is positive before. *)
LEMMA LeaveGlobal ==
  ASSUME Caps, NEW c \in Conns, at[c] # "away", of' = of,
         at' = [at EXCEPT ![c] = "away"],
         global' = [global EXCEPT ![of[c]] = @ - 1]
  PROVE  /\ global' \in [Servers -> 0 .. MaxConnections]
         /\ \A h \in Servers : global'[h] = Cardinality(Counted(h)')
<1> DEFINE g == of[c]
<1> USE DEF Caps
<1>1. g \in Servers /\ global[g] \in 0 .. MaxConnections
  BY DEF ListenersTypeOK
<1>2. Counted(g)' = Counted(g) \ {c} /\ c \in Counted(g)
  BY DEF ListenersTypeOK, Counted
<1>3. \A h \in Servers \ {g} : Counted(h)' = Counted(h)
  BY DEF ListenersTypeOK, Counted
<1>4. Cardinality(Counted(g)') = global[g] - 1 /\ global[g] \in Nat \ {0}
  BY <1>1, <1>2, OneLess, CountedFinite DEF SlotsExact
<1>5. global[g] - 1 \in 0 .. MaxConnections
  BY <1>1, <1>4, ListenersAssumption DEF ListenersAssumption
<1>6. global' \in [Servers -> 0 .. MaxConnections]
  BY <1>1, <1>5 DEF ListenersTypeOK
<1>7. \A h \in Servers : global'[h] = Cardinality(Counted(h)')
  BY <1>3, <1>4 DEF ListenersTypeOK, SlotsExact
<1> QED
  BY <1>6, <1>7

LEMMA RefuseKeeps ==
  ASSUME Caps, NEW c \in Conns, Refuse(c)
  PROVE  Caps'
<1> USE DEF Caps
<1>1. at[c] = "claimed" /\ at' = [at EXCEPT ![c] = "away"] /\ of' = of
  BY DEF Refuse, Goes
<1>2. /\ global' \in [Servers -> 0 .. MaxConnections]
      /\ \A h \in Servers : global'[h] = Cardinality(Counted(h)')
  BY <1>1, LeaveGlobal DEF Refuse
<1>3. \A h \in Servers, i \in Ips : CountedOf(h, i)' = CountedOf(h, i)
  BY <1>1 DEF ListenersTypeOK, CountedOf, Held, Serving, Waiting
<1>4. SlotsExact'
  BY <1>2, <1>3 DEF SlotsExact, Refuse
<1>5. at' \in [Conns -> Places]
  BY <1>1 DEF ListenersTypeOK, Places
<1> QED
  BY <1>2, <1>4, <1>5 DEF ListenersTypeOK, Refuse, supervisorVars

LEMMA ReleaseKeeps ==
  ASSUME Caps, NEW c \in Conns, Release(c)
  PROVE  Caps'
<1> DEFINE g == of[c]
           ip == IpOf[c]
<1> USE DEF Caps
<1>1. g \in Servers /\ ip \in Ips /\ IpOf \in [Conns -> Ips]
  BY ListenersAssumption DEF ListenersTypeOK, ListenersAssumption
<1>2. at[c] = "closing" /\ at' = [at EXCEPT ![c] = "away"] /\ of' = of
  BY DEF Release, Goes
<1>3. /\ global' \in [Servers -> 0 .. MaxConnections]
      /\ \A h \in Servers : global'[h] = Cardinality(Counted(h)')
  BY <1>2, LeaveGlobal DEF Release
<1>4. CountedOf(g, ip)' = CountedOf(g, ip) \ {c} /\ c \in CountedOf(g, ip)
  BY <1>1, <1>2 DEF ListenersTypeOK, CountedOf, Held, Serving, Waiting
<1>5. \A h \in Servers, i \in Ips : h # g \/ i # ip => CountedOf(h, i)' = CountedOf(h, i)
  BY <1>2 DEF ListenersTypeOK, CountedOf
<1>6. Cardinality(CountedOf(g, ip)') = active[g][ip] - 1 /\ active[g][ip] \in Nat \ {0}
  BY <1>1, <1>4, OneLess, CountedFinite DEF SlotsExact
<1>7. active' = [active EXCEPT ![g][ip] = active[g][ip] - 1]
  BY DEF Release
<1>8. active'[g][ip] = active[g][ip] - 1
  BY <1>1, <1>7 DEF ListenersTypeOK
<1>9. \A h \in Servers, i \in Ips : h # g \/ i # ip => active'[h][i] = active[h][i]
  BY <1>1, <1>7 DEF ListenersTypeOK
<1>10. active' \in [Servers -> [Ips -> 0 .. MaxPerIp]]
  <2>0. active[g][ip] \in 0 .. MaxPerIp
    BY <1>1 DEF ListenersTypeOK
  <2>1. active[g][ip] - 1 \in 0 .. MaxPerIp
    BY <2>0, <1>6, ListenersAssumption DEF ListenersAssumption
  <2> QED
    BY <1>1, <1>7, <2>1 DEF ListenersTypeOK
<1>11. \A h \in Servers, i \in Ips : active'[h][i] = Cardinality(CountedOf(h, i)')
  <2> SUFFICES ASSUME NEW h \in Servers, NEW i \in Ips
               PROVE  active'[h][i] = Cardinality(CountedOf(h, i)')
    OBVIOUS
  <2>1. CASE h = g /\ i = ip
    <3>1. active'[g][ip] = Cardinality(CountedOf(g, ip)')
      BY <1>6, <1>8
    <3>2. active'[h][i] = active'[g][ip] /\ CountedOf(h, i)' = CountedOf(g, ip)'
      BY <2>1, <1>2 DEF CountedOf
    <3> QED
      BY <3>1, <3>2
  <2>2. CASE h # g \/ i # ip
    <3>1. active'[h][i] = active[h][i] /\ CountedOf(h, i)' = CountedOf(h, i)
      BY <2>2, <1>5, <1>9
    <3>2. active[h][i] = Cardinality(CountedOf(h, i))
      BY DEF SlotsExact
    <3> QED
      BY <3>1, <3>2
  <2> QED
    BY <2>1, <2>2
<1>12. SlotsExact'
  BY <1>3, <1>11 DEF SlotsExact
<1>13. at' \in [Conns -> Places]
  BY <1>2 DEF ListenersTypeOK, Places
<1> QED
  BY <1>3, <1>10, <1>12, <1>13 DEF ListenersTypeOK, Release, supervisorVars

LEMMA NothingMoves ==
  ASSUME SlotsExact, UNCHANGED <<at, of, global, active>>
  PROVE  SlotsExact'
BY DEF SlotsExact, Counted, CountedOf

(* Every step of a connection keeps the counts. *)
LEMMA ConnectionKeeps ==
  ASSUME Caps, NEW c \in Conns, TaskNext(c) \/ PeerNext(c) \/ Timeout(c) \/ Notice(c)
  PROVE  Caps'
<1> DEFINE Within == \E from, to \in SUBSET Held : Moves(c, from, to)
<1>1. CASE Admit(c) \/ Refuse(c) \/ Release(c)
  BY <1>1, AdmitKeeps, RefuseKeeps, ReleaseKeeps
<1>2. CASE \E g \in Servers : Claim(c, g)
  BY <1>2, ClaimKeeps
<1>3. CASE Within
  BY <1>3, MovesKeeps
<1>4. CASE Vanish(c)
  <2>1. SlotsExact'
    BY <1>4, NothingMoves DEF Vanish, Caps
  <2> QED
    BY <1>4, <2>1 DEF Vanish, Caps, ListenersTypeOK, supervisorVars
<1>5. Work(c) \/ DataTimeout(c) \/ Handshake(c) \/ Line(c) \/ Eof(c) \/ Body(c)
      \/ Timeout(c) \/ Notice(c) => Within
  BY DEF Work, DataTimeout, Handshake, Line, Eof, Body, Timeout, Notice, Held, Serving, Waiting
<1> HIDE DEF Within
<1> QED
  BY <1>1, <1>2, <1>3, <1>4, <1>5 DEF TaskNext, PeerNext

(* The caps and the counts of the limiter hold in every reachable state,    *)
(* whatever the sessions, the switch and the peers do (connection.rs        *)
(* try_acquire_at, release).                                                *)
THEOREM CapsHold == LimiterSpec => []Caps
<1>1. Caps /\ [ListenersNext]_listenersVars => Caps'
  <2> SUFFICES ASSUME Caps, [ListenersNext]_listenersVars PROVE Caps'
    OBVIOUS
  <2>1. CASE SupervisorNext \/ LoopNext
             \/ (\E f \in Families, want \in BOOLEAN : Ask(f, want))
             \/ (\E g \in Servers : ImapAcceptFails(g))
    <3>1. ListenersTypeOK' /\ UNCHANGED connVars
      BY <2>1, SupervisorType DEF Caps
    <3> QED
      BY <3>1, NothingMoves DEF connVars, Caps
  <2>2. CASE \E c \in Conns : TaskNext(c) \/ PeerNext(c) \/ Timeout(c) \/ Notice(c)
    BY <2>2, ConnectionKeeps
  <2>3. CASE UNCHANGED listenersVars
    BY <2>3, NothingMoves DEF listenersVars, connVars, supervisorVars, Caps, ListenersTypeOK
  <2> QED
    BY <2>1, <2>2, <2>3 DEF ListenersNext
<1> QED
  BY <1>1, InitCaps, PTL DEF LimiterSpec

(* The caps of the configuration are never exceeded and no count underflows. *)
THEOREM LimitsTyped == LimiterSpec => []ListenersTypeOK
BY CapsHold, PTL DEF Caps

(* No slot is lost on any way out of a connection, and none given back twice. *)
THEOREM SlotsNeverLeak == LimiterSpec => []SlotsExact
BY CapsHold, PTL DEF Caps
-----------------------------------------------------------------------------
(* The SMTP switch. Only the newest server can be accepting, only while the *)
(* switch is published as on, and it is until it is told to stop.           *)

StoppingSmtp == supervisor.step = "stopping" /\ supervisor.family = "smtp"

SwitchInv ==
  /\ \A g \in Servers : loop["smtp"][g] = "accepting" => g = server["smtp"] /\ enabled["smtp"]
  /\ \A g \in Servers : g > server["smtp"] => ~stop["smtp"][g]
  /\ enabled["smtp"] => server["smtp"] \in Servers
  /\ enabled["smtp"] /\ ~StoppingSmtp =>
       loop["smtp"][server["smtp"]] = "accepting" /\ ~stop["smtp"][server["smtp"]]

LEMMA SwitchAsPublished ==
  ASSUME ListenersTypeOK, SwitchInv
  PROVE  SwitchIsTrue
<1> SUFFICES ASSUME supervisor = Idle PROVE enabled["smtp"] <=> PortTaken("smtp")
  BY DEF SwitchIsTrue
<1>1. ~StoppingSmtp
  BY DEF StoppingSmtp, Idle
<1>2. enabled["smtp"] \in BOOLEAN
  BY DEF ListenersTypeOK, Families
<1> QED
  BY <1>1, <1>2 DEF SwitchInv, PortTaken

LEMMA SwitchStep ==
  ASSUME ListenersTypeOK, SwitchInv, [ListenersNext]_listenersVars
  PROVE  SwitchInv'
<1> USE ListenersAssumption DEF ListenersAssumption, Servers, Families
<1>0. /\ "smtp" \in Families /\ "imap" \in Families
      /\ loop \in [Families -> [Servers -> Loops]] /\ stop \in [Families -> [Servers -> BOOLEAN]]
      /\ server \in [Families -> 0 .. MaxStarts] /\ enabled \in [Families -> BOOLEAN]
  BY DEF ListenersTypeOK
<1>1. CASE UNCHANGED supervisorVars
  BY <1>1 DEF SwitchInv, StoppingSmtp, supervisorVars
<1>2. CASE Keep
  BY <1>2 DEF Keep, SwitchInv, StoppingSmtp, Idle
<1>3. CASE Start
  <2> DEFINE f == supervisor.family
             g == server[f] + 1
  <2>1. f \in Families /\ supervisor.step = "decide" /\ ~enabled[f] /\ ~StoppingSmtp'
    BY <1>3 DEF Start, ListenersTypeOK, Job, Idle, StoppingSmtp
  <2>2. CASE f = "imap"
    <3>1. /\ loop'["smtp"] = loop["smtp"] /\ server'["smtp"] = server["smtp"]
          /\ enabled'["smtp"] = enabled["smtp"] /\ stop' = stop
      BY <1>0, <1>3, <2>2 DEF Start
    <3> QED
      BY <2>1, <3>1 DEF SwitchInv, StoppingSmtp
  <2>3. CASE f = "smtp"
    <3>1. ~PortTaken("smtp")
      BY <2>1, <2>3 DEF SwitchInv, PortTaken
    <3>2. g \in Servers /\ stop' = stop
      BY <1>3 DEF Start
    <3>3. /\ server' = [server EXCEPT !["smtp"] = g]
          /\ loop' = [loop EXCEPT !["smtp"][g] = "accepting"]
          /\ enabled' = [enabled EXCEPT !["smtp"] = TRUE]
      BY <1>3, <2>3, <3>1 DEF Start
    <3>4. server'["smtp"] = g /\ enabled'["smtp"] /\ loop'["smtp"][g] = "accepting"
      BY <1>0, <3>2, <3>3
    <3>5. \A h \in Servers : h # g => loop'["smtp"][h] = loop["smtp"][h]
      BY <1>0, <3>3
    <3>6. \A h \in Servers : loop'["smtp"][h] = "accepting" => h = g
      BY <3>1, <3>5 DEF PortTaken
    <3>7. server["smtp"] \in 0 .. MaxStarts /\ g = server["smtp"] + 1
      BY <1>0, <2>3
    <3>8. ~stop["smtp"][g] /\ \A h \in Servers : h > g => ~stop["smtp"][h]
      BY <3>2, <3>7 DEF SwitchInv
    <3> QED
      BY <3>2, <3>4, <3>6, <3>8 DEF SwitchInv
  <2> QED
    BY <2>1, <2>2, <2>3
<1>4. CASE Stop
  <2> DEFINE f == supervisor.family
  <2>1. /\ f \in Families /\ enabled[f] /\ supervisor'.step = "stopping" /\ supervisor'.family = f
        /\ ~StoppingSmtp
    BY <1>4 DEF Stop, ListenersTypeOK, Job, Idle, StoppingSmtp
  <2>2. stop' = [stop EXCEPT ![f][server[f]] = TRUE] /\ UNCHANGED <<enabled, server, loop>>
    BY <1>4 DEF Stop
  <2>3. CASE f = "imap"
    <3>1. stop'["smtp"] = stop["smtp"]
      BY <1>0, <2>2, <2>3
    <3> QED
      BY <2>1, <2>2, <3>1 DEF SwitchInv
  <2>4. CASE f = "smtp"
    <3>0. \A g \in Servers : g > server["smtp"] => g # server["smtp"]
      BY <1>0
    <3>1. \A g \in Servers : g > server["smtp"] => stop'["smtp"][g] = stop["smtp"][g]
      BY <1>0, <2>2, <2>4, <3>0
    <3> QED
      BY <2>1, <2>2, <2>4, <3>1 DEF SwitchInv, StoppingSmtp
  <2> QED
    BY <2>1, <2>3, <2>4
<1>5. CASE Stopped
  <2> DEFINE f == supervisor.family
  <2>1. f \in Families /\ ~StoppingSmtp'
    BY <1>5 DEF Stopped, ListenersTypeOK, Job, Idle, StoppingSmtp
  <2>2. /\ enabled' = [enabled EXCEPT ![f] = FALSE] /\ UNCHANGED <<server, loop, stop>>
        /\ loop[f][server[f]] \in {"stopped", "failed"}
    BY <1>5 DEF Stopped
  <2>3. CASE f = "imap"
    <3>1. enabled'["smtp"] = enabled["smtp"] /\ ~StoppingSmtp
      BY <1>0, <2>2, <2>3 DEF StoppingSmtp
    <3> QED
      BY <2>2, <3>1 DEF SwitchInv
  <2>4. CASE f = "smtp"
    <3>1. ~enabled'["smtp"]
      BY <1>0, <2>2, <2>4
    <3>2. \A g \in Servers : loop["smtp"][g] # "accepting"
      BY <2>2, <2>4 DEF SwitchInv
    <3> QED
      BY <2>2, <3>1, <3>2 DEF SwitchInv
  <2> QED
    BY <2>1, <2>3, <2>4
<1>6. ASSUME NEW f \in Families, NEW g \in Servers, LoopStops(f, g)
      PROVE  SwitchInv'
  <2>1. /\ loop' = [loop EXCEPT ![f][g] = "stopped"] /\ loop[f][g] = "accepting" /\ stop[f][g]
        /\ UNCHANGED <<supervisor, enabled, server, stop>>
    BY <1>6 DEF LoopStops, LoopBecomes
  <2>2. CASE f = "imap"
    <3>1. loop'["smtp"] = loop["smtp"]
      BY <1>0, <2>1, <2>2
    <3> QED
      BY <2>1, <3>1 DEF SwitchInv, StoppingSmtp
  <2>3. CASE f = "smtp"
    <3>1. g = server["smtp"] /\ StoppingSmtp
      BY <2>1, <2>3 DEF SwitchInv
    <3>2. \A h \in Servers : loop'["smtp"][h] = "accepting" => loop["smtp"][h] = "accepting"
      BY <1>0, <2>1, <2>3
    <3> QED
      BY <2>1, <3>1, <3>2 DEF SwitchInv, StoppingSmtp
  <2> QED
    BY <2>2, <2>3
<1>7. ASSUME NEW g \in Servers, ImapBinds(g) \/ ImapAcceptFails(g)
      PROVE  SwitchInv'
  <2>1. loop'["smtp"] = loop["smtp"] /\ UNCHANGED <<supervisor, enabled, server, stop>>
    BY <1>0, <1>7 DEF ImapBinds, ImapAcceptFails, LoopBecomes
  <2> QED
    BY <2>1 DEF SwitchInv, StoppingSmtp
<1>8. ASSUME NEW f \in Families, NEW want \in BOOLEAN, Ask(f, want)
      PROVE  SwitchInv'
  <2>1. ~StoppingSmtp /\ ~StoppingSmtp'
    BY <1>8 DEF Ask, StoppingSmtp, Idle
  <2> QED
    BY <1>8, <2>1 DEF Ask, SwitchInv
<1>9. ASSUME NEW c \in Conns, TaskNext(c) \/ PeerNext(c) \/ Timeout(c) \/ Notice(c)
      PROVE  UNCHANGED supervisorVars
  BY <1>9 DEF TaskNext, PeerNext, Timeout, Notice, Admit, Refuse, Work, DataTimeout, Release, Claim,
              Handshake, Line, Eof, Body, Vanish, Moves
<1>10. CASE UNCHANGED listenersVars
  BY <1>1, <1>10 DEF listenersVars
<1> QED
  BY <1>1, <1>2, <1>3, <1>4, <1>5, <1>6, <1>7, <1>8, <1>9, <1>10 DEF ListenersNext, SupervisorNext, LoopNext

(* What the admin page says of SMTP is so: on means that a loop accepts,    *)
(* off that the port is free, whenever the supervisor is not at work        *)
(* (listeners.rs apply, SmtpServerHandle::shutdown_and_wait).               *)
THEOREM SwitchTellsTheTruth == LimiterSpec => []SwitchIsTrue
<1>1. ListenersInit => SwitchInv
  BY DEF ListenersInit, SwitchInv, Families
<1>2. ListenersTypeOK /\ SwitchInv /\ [ListenersNext]_listenersVars => SwitchInv'
  BY SwitchStep
<1>3. ListenersTypeOK /\ SwitchInv => SwitchIsTrue
  BY SwitchAsPublished
<1> QED
  BY <1>1, <1>2, <1>3, LimitsTyped, PTL DEF LimiterSpec

-----------------------------------------------------------------------------
(* A session and the greylist. *)

(* A session that is not in a transaction holds none. *)
Tidy ==
  /\ session.state \notin {"MailFrom", "RcptTo", "Data"} => session.transaction = NoTransaction
  /\ session.state \in {"MailFrom", "RcptTo", "Data"} => session.transaction.sender \in Senders
  /\ session.auth # "none" => /\ session.state \notin {"MailFrom", "RcptTo", "Data", "Closed"}
                              /\ RequireTls => session.tls

(* What the session believes is what the peer was told. *)
Agrees ==
  session.state # "Closed" =>
    /\ session.transaction.listed = heard.listed
    /\ session.transaction.listed => ~session.user
    /\ heard.proven = "clear" => ~RequireTls
    /\ ~session.user => session.transaction.rcpts \subseteq Local

IInv == TypeOK /\ Tidy /\ EnvelopeIsHeard /\ Agrees /\ NoRelayUnproven /\ QuarantineKept
        /\ AllOrNothing

USE SmtpAssumption DEF SmtpAssumption

LEMMA Types == NoTransaction \in Transaction /\ Nothing \in Heard /\ NoEffect \in Effect
               /\ (\A tls \in BOOLEAN : New(tls) \in Session)
BY DEF NoTransaction, Transaction, Nothing, Heard, NoEffect, NoCopies, Effect, New, Session,
       States, Senders, Rcpts

LEMMA NewSession ==
  ASSUME NEW tls \in BOOLEAN
  PROVE  /\ New(tls) \in Session
         /\ New(tls).state = "Connected" /\ New(tls).auth = "none"
         /\ ~New(tls).user /\ New(tls).transaction = NoTransaction
BY Types DEF New

LEMMA InitInv == Init => IInv
<1> SUFFICES ASSUME Init PROVE IInv
  OBVIOUS
<1>1. TypeOK
  <2>1. session \in Session /\ session.auth = "none"
    <3>1. New(FALSE) \in Session /\ New(FALSE).auth = "none"
      BY NewSession
    <3> QED
      BY <3>1 DEF Init, Session, States
  <2>2. waited \in [since : 0 .. Delay + 1, deferred : 0 .. Delay + 1]
    BY DEF Init, NoWait
  <2> QED
    BY <2>1, <2>2, Types DEF Init, TypeOK, Kinds
<1>2. Tidy /\ EnvelopeIsHeard /\ Agrees
  BY DEF Init, Tidy, EnvelopeIsHeard, Agrees, New
<1>3. NoRelayUnproven /\ QuarantineKept /\ AllOrNothing
  BY DEF Init, NoEffect, NoRelayUnproven, QuarantineKept, AllOrNothing, Nothing, NoCopies
<1> QED
  BY <1>1, <1>2, <1>3 DEF IInv

(* The part of the invariant that is about the session and what was heard. *)
Sessions == /\ session \in Session /\ heard \in Heard
            /\ session.auth # "none" => session.transaction = NoTransaction
            /\ Tidy /\ EnvelopeIsHeard /\ Agrees

(* The part about the effect of the last message. *)
Effects == effect \in Effect /\ NoRelayUnproven /\ QuarantineKept /\ AllOrNothing

(* The part about the greylist. *)
Listing == /\ grey = NoRow \/ grey \in [of : (Senders \X Local), age : 0 .. Delay + 1]
           /\ waited \in [since : 0 .. Delay + 1, deferred : 0 .. Delay + 1]

LEMMA Parts == IInv <=> kind \in Kinds /\ Sessions /\ Effects /\ Listing
BY DEF IInv, TypeOK, Sessions, Effects, Listing

LEMMA EffectsStay == Effects /\ UNCHANGED effect => Effects'
BY DEF Effects, NoRelayUnproven, QuarantineKept, AllOrNothing, NoCopies

LEMMA EffectsGone == effect' = NoEffect => Effects'
BY Types DEF Effects, NoRelayUnproven, QuarantineKept, AllOrNothing, NoEffect, Nothing, NoCopies

LEMMA SessionsStay == Sessions /\ UNCHANGED <<session, heard>> => Sessions'
BY DEF Sessions, Tidy, EnvelopeIsHeard, Agrees

LEMMA ConnectionSteps ==
  ASSUME Sessions, (\E k \in Kinds : Connect(k)) \/ Close \/ Hello \/ Rset \/ StartTls
  PROVE  Sessions'
<1> USE DEF Sessions, Tidy, EnvelopeIsHeard, Agrees, Session, States, Heard, Transaction,
            NoTransaction, Nothing, New, Senders
<1>1. CASE \E k \in Kinds : Connect(k)
  <2> HIDE DEF Session, New, Heard
  <2>1. PICK k \in Kinds : Connect(k)
    BY <1>1
  <2>2. CASE k = "smtps"
    <3>1. session' = New(TRUE)
      BY <2>1, <2>2, (k = "smtps") = TRUE DEF Connect
    <3>2. /\ session' \in Session /\ session'.state = "Connected" /\ session'.auth = "none"
          /\ ~session'.user /\ session'.transaction = NoTransaction
      BY <3>1, NewSession
    <3>3. heard' = Nothing /\ Nothing \in Heard
      BY <2>1, Types DEF Connect
    <3> QED
      BY <3>2, <3>3 DEF Tidy, EnvelopeIsHeard, Agrees, Nothing, NoTransaction
  <2>3. CASE k # "smtps"
    <3>1. session' = New(FALSE)
      BY <2>1, <2>3, (k = "smtps") = FALSE DEF Connect
    <3>2. /\ session' \in Session /\ session'.state = "Connected" /\ session'.auth = "none"
          /\ ~session'.user /\ session'.transaction = NoTransaction
      BY <3>1, NewSession
    <3>3. heard' = Nothing /\ Nothing \in Heard
      BY <2>1, Types DEF Connect
    <3> QED
      BY <3>2, <3>3 DEF Tidy, EnvelopeIsHeard, Agrees, Nothing, NoTransaction
  <2> QED
    BY <2>2, <2>3
<1>2. CASE Close
  BY <1>2 DEF Close
<1>3. CASE Hello
  BY <1>3 DEF Hello, Command, Greet
<1>4. CASE Rset
  BY ZenonT(60), <1>4 DEF Rset, Command, Reset
<1>5. CASE StartTls
  BY <1>5 DEF StartTls, Command
<1> QED
  BY <1>1, <1>2, <1>3, <1>4, <1>5

LEMMA AuthSteps ==
  ASSUME Sessions,
         (\E right \in BOOLEAN : AuthPlain(right) \/ AuthPassword(right))
         \/ AuthBegin \/ AuthUsername \/ AuthCancel
  PROVE  Sessions'
<1> USE DEF Sessions, Tidy, EnvelopeIsHeard, Agrees, Session, States, Heard, Transaction,
            NoTransaction, Nothing, Senders, BeginAuth, AbortAuth
<1>1. ASSUME NEW right \in BOOLEAN, AuthPlain(right) PROVE Sessions'
  BY ZenonT(60), <1>1 DEF AuthPlain, FinishAuth, Command, MayAuth, Reset, Authenticate
<1>2. ASSUME NEW right \in BOOLEAN, AuthPassword(right) PROVE Sessions'
  <2>1. session.auth = "password" /\ session.state # "Closed"
        /\ session.state \notin {"MailFrom", "RcptTo", "Data"}
    BY <1>2 DEF AuthPassword
  <2>2. CASE right /\ session.pending
    <3>1. RequireTls => session.tls
      BY <2>1 DEF Tidy
    <3> QED
      BY <1>2, <2>1, <2>2, <3>1 DEF AuthPassword, FinishAuth, Reset, Authenticate
  <2>3. CASE ~(right /\ session.pending)
    BY <1>2, <2>1, <2>3 DEF AuthPassword, FinishAuth
  <2> QED
    BY <2>2, <2>3
<1>3. CASE AuthBegin
  <2>1. /\ session.auth = "none" /\ session.transaction = NoTransaction
        /\ session.state \in {"Connected", "Greeted", "Authenticated"}
        /\ RequireTls => session.tls
    BY <1>3 DEF AuthBegin, Command, MayAuth
  <2>2. PICK auth \in {"password", "username"}, pending \in BOOLEAN :
          session' = [session EXCEPT !.auth = auth, !.pending = pending]
    <3>1. CASE session' = BeginAuth(session, "password")
      BY <3>1
    <3>2. CASE session' = BeginAuth(session, "username")
      BY <3>2
    <3>3. CASE session' = [BeginAuth(session, "password") EXCEPT !.pending = TRUE]
      BY <3>3
    <3> QED
      BY <1>3, <3>1, <3>2, <3>3 DEF AuthBegin
  <2>3. /\ session' \in Session /\ session'.state = session.state
        /\ session'.transaction = NoTransaction /\ session'.user = session.user
        /\ session'.tls = session.tls /\ heard' = heard
    BY <1>3, <2>1, <2>2 DEF AuthBegin
  <2> QED
    BY ZenonT(60), <2>1, <2>3
<1>4. CASE AuthUsername
  BY ZenonT(60), <1>4 DEF AuthUsername
<1>5. CASE AuthCancel
  BY <1>5 DEF AuthCancel
<1> QED
  BY <1>1, <1>2, <1>3, <1>4, <1>5

LEMMA EnvelopeSteps ==
  ASSUME Sessions,
         (\E sender \in Senders, listed \in BOOLEAN : MailFrom(sender, listed))
         \/ (\E r \in Remote : RcptRemote(r))
         \/ (\E r \in Local : RcptAsked(r) \/ \E failed \in BOOLEAN : RcptUnasked(r, failed))
         \/ Data
  PROVE  Sessions'
<1> USE DEF Sessions, Tidy, EnvelopeIsHeard, Agrees, Session, States, Heard, Transaction,
            NoTransaction, Senders, Rcpts, Command
<1>1. ASSUME NEW sender \in Senders, NEW listed \in BOOLEAN, MailFrom(sender, listed)
      PROVE  Sessions'
  BY ZenonT(60), <1>1 DEF MailFrom, MayMailFrom, BeginTransaction
<1>2. ASSUME NEW r \in Rcpts, MayRcptTo(session), Command, Accepted(r),
             r \in Local \/ session.user
      PROVE  Sessions'
  BY <1>2 DEF MayRcptTo, Accepted, AddRecipient
<1>3. ASSUME NEW r \in Remote, RcptRemote(r) PROVE Sessions'
  BY <1>2, <1>3 DEF RcptRemote, MayRelay
<1>4. ASSUME NEW r \in Local, RcptAsked(r) PROVE Sessions'
  <2>1. CASE Accepted(r)
    BY <1>2, <1>4, <2>1 DEF RcptAsked
  <2>2. CASE UNCHANGED <<session, heard>>
    BY <2>2, SessionsStay
  <2> QED
    BY <1>4, <2>1, <2>2 DEF RcptAsked
<1>5. ASSUME NEW r \in Local, NEW failed \in BOOLEAN, RcptUnasked(r, failed) PROVE Sessions'
  BY <1>2, <1>5 DEF RcptUnasked
<1>6. CASE Data
  BY <1>6 DEF Data, MayData
<1> QED
  BY <1>1, <1>3, <1>4, <1>5, <1>6

(* The end of a message: the envelope is gone from both sides. *)
LEMMA EndSteps ==
  ASSUME Sessions, NEW said, NEW inbox, NEW junk, NEW queued,
         Ends(said, inbox, junk, queued)
  PROVE  Sessions'
BY DEF Ends, EndTransaction, Sessions, Tidy, EnvelopeIsHeard, Agrees, Session, States, Heard,
       Transaction, NoTransaction, Senders

LEMMA RefusedEffect == Sessions /\ Refused => Effects'
<1> SUFFICES ASSUME Sessions, Refused PROVE Effects'
  OBVIOUS
<1>1. effect' = [said |-> "refused", inbox |-> NoCopies, junk |-> NoCopies,
                 queued |-> {}, heard |-> heard]
  BY DEF Refused, Ends
<1> QED
  BY <1>1 DEF Effects, Effect, NoRelayUnproven, QuarantineKept, AllOrNothing, NoCopies, Sessions

LEMMA InboundEffect ==
  ASSUME Sessions, NEW quarantine \in BOOLEAN, NEW blocked \in SUBSET Boxes,
         Inbound(quarantine, blocked)
  PROVE  Effects'
<1> DEFINE copies == PerMailbox(Reached(session.transaction.rcpts))
           aside == IF quarantine \/ session.transaction.listed THEN Boxes ELSE blocked
           inbox == [b \in Boxes |-> IF b \in aside THEN 0 ELSE copies[b]]
           junk == [b \in Boxes |-> IF b \in aside THEN copies[b] ELSE 0]
<1>1. effect' = [said |-> "accepted", inbox |-> inbox, junk |-> junk,
                 queued |-> {}, heard |-> heard]
  BY DEF Inbound, Ends
<1>2. \A b \in Boxes : copies[b] \in 0 .. 1
  BY DEF PerMailbox
<1>3. inbox \in [Boxes -> 0 .. 1] /\ junk \in [Boxes -> 0 .. 1]
  BY <1>2
<1>4. heard.listed => inbox = NoCopies
  <2> SUFFICES ASSUME heard.listed PROVE inbox = NoCopies
    OBVIOUS
  <2>1. session.transaction.listed
    BY DEF Inbound, Sessions, Agrees
  <2> QED
    BY <2>1 DEF NoCopies
<1>5. \A b \in Boxes : inbox[b] + junk[b] = copies[b]
  BY <1>2
<1>6. heard.proven = "no" =>
        \A b \in Boxes : copies[b] = IF b \in {BoxOf(r) : r \in heard.rcpts \cap Local} THEN 1 ELSE 0
  <2>1. /\ session.transaction.rcpts = heard.rcpts
        /\ session.transaction.rcpts \cap Local = session.transaction.rcpts
    BY DEF Inbound, Sessions, EnvelopeIsHeard, Agrees
  <2> QED
    BY <2>1 DEF PerMailbox, Reached
<1> HIDE DEF inbox, junk, copies
<1>7. effect' \in Effect
  BY <1>1, <1>3 DEF Effect, Sessions
<1>8. AllOrNothing'
  BY <1>1, <1>5, <1>6 DEF AllOrNothing
<1> QED
  BY <1>1, <1>4, <1>7, <1>8 DEF Effects, NoRelayUnproven, QuarantineKept, NoCopies

LEMMA SubmissionEffect ==
  ASSUME Sessions, NEW got \in SUBSET Boxes, NEW staged \in BOOLEAN,
         NEW committed \in BOOLEAN, Submission(got, staged, committed)
  PROVE  Effects'
<1> DEFINE out == session.transaction.rcpts \cap Remote
           queued == IF committed THEN out ELSE {}
           failed == staged /\ out # {} /\ ~committed
           said == Reply(failed, got, queued)
<1>1. effect' = [said |-> said, inbox |-> PerMailbox(got), junk |-> NoCopies,
                 queued |-> queued, heard |-> heard]
  BY DEF Submission, Ends
<1>2. session.user /\ session.state = "Data"
  BY DEF Submission
<1>3. /\ heard.proven \in {"clear", "tls"}
      /\ heard.proven = "clear" => ~RequireTls
      /\ ~heard.listed /\ session.transaction.rcpts = heard.rcpts
      /\ session.transaction.sender = heard.sender
  BY <1>2 DEF Sessions, EnvelopeIsHeard, Agrees, Heard, Session, Transaction
<1>4. queued # {} => heard.sender = "own"
  BY <1>3 DEF Submission, Staged, Committed
<1>5. queued \subseteq heard.rcpts /\ queued \in SUBSET Remote
  BY <1>3
<1>6. PerMailbox(got) \in [Boxes -> 0 .. 1] /\ NoCopies \in [Boxes -> 0 .. 1]
  BY DEF PerMailbox, NoCopies
<1>7. said \in {"accepted", "refused"} /\ (said = "refused" => queued = {})
  BY DEF Reply, Submission, Committed
<1> HIDE DEF queued, said
<1>8. effect' \in Effect
  BY <1>1, <1>5, <1>6, <1>7 DEF Effect, Sessions
<1> QED
  <2>1. NoRelayUnproven'
    <3>1. effect'.queued = queued /\ effect'.heard = heard
      BY <1>1
    <3>2. heard.proven = "tls" \/ (~RequireTls /\ heard.proven = "clear")
      BY <1>3
    <3> QED
      BY <3>1, <3>2, <1>4, <1>5 DEF NoRelayUnproven
  <2>2. QuarantineKept'
    BY <1>1, <1>3 DEF QuarantineKept
  <2>3. AllOrNothing'
    BY <1>1, <1>3, <1>7 DEF AllOrNothing
  <2> QED
    BY <1>8, <2>1, <2>2, <2>3 DEF Effects

(* Every step of the dialogue keeps the session, the effect and the row.    *)
LEMMA ListingStays ==
  ASSUME Listing, Sessions, UNCHANGED <<grey, waited>> \/ (\E r \in Local : RcptAsked(r)) \/ Tick \/ Prune
  PROVE  Listing'
<1>1. CASE UNCHANGED <<grey, waited>>
  BY <1>1 DEF Listing
<1>2. ASSUME NEW r \in Local, RcptAsked(r) PROVE Listing'
  <2>1. Triplet(r) \in Senders \X Local
    BY <1>2 DEF RcptAsked, Triplet, Sessions, Session, Transaction, Tidy, MayRcptTo,
                EnvelopeIsHeard
  <2> QED
    BY <1>2, <2>1 DEF RcptAsked, Sighting, Listing
<1>3. CASE Tick
  BY <1>3 DEF Tick, Listing, NoRow
<1>4. CASE Prune
  BY <1>4 DEF Prune, Listing, NoWait
<1> QED
  BY <1>1, <1>2, <1>3, <1>4

LEMMA StepInv ==
  ASSUME IInv, [Next]_vars
  PROVE  IInv'
<1>0. kind \in Kinds /\ Sessions /\ Effects /\ Listing
  BY Parts
<1> SUFFICES kind' \in Kinds /\ Sessions' /\ Effects' /\ Listing'
  BY DEF IInv, TypeOK, Sessions, Effects, Listing
<1>1. CASE (\E k \in Kinds : Connect(k)) \/ Close
  <2>1. kind' \in Kinds /\ effect' = NoEffect /\ UNCHANGED <<grey, waited>>
    BY <1>0, <1>1 DEF Connect, Close
  <2> QED
    BY <1>0, <1>1, <2>1, ConnectionSteps, EffectsGone, ListingStays
<1>2. CASE Hello \/ Rset \/ StartTls
  <2>1. UNCHANGED <<kind, effect, grey, waited>>
    BY <1>2 DEF Hello, Rset, StartTls
  <2> QED
    BY <1>0, <1>2, <2>1, ConnectionSteps, EffectsStay, ListingStays
<1>3. CASE (\E right \in BOOLEAN : AuthPlain(right) \/ AuthPassword(right))
           \/ AuthBegin \/ AuthUsername \/ AuthCancel
  <2>1. UNCHANGED <<kind, effect, grey, waited>>
    BY <1>3 DEF AuthPlain, AuthPassword, FinishAuth, AuthBegin, AuthUsername, AuthCancel
  <2> QED
    BY <1>0, <1>3, <2>1, AuthSteps, EffectsStay, ListingStays
<1>4. CASE \E sender \in Senders, listed \in BOOLEAN : MailFrom(sender, listed)
  <2>1. UNCHANGED <<kind, grey, waited>> /\ effect' = NoEffect
    BY <1>4 DEF MailFrom
  <2> QED
    BY <1>0, <1>4, <2>1, EnvelopeSteps, EffectsGone, ListingStays
<1>5. CASE \/ \E r \in Remote : RcptRemote(r)
           \/ \E r \in Local : RcptAsked(r) \/ \E failed \in BOOLEAN : RcptUnasked(r, failed)
           \/ Data
  <2>1. UNCHANGED <<kind, effect>>
    BY <1>5 DEF RcptRemote, RcptAsked, RcptUnasked, Accepted, Data
  <2>2. UNCHANGED <<grey, waited>> \/ \E r \in Local : RcptAsked(r)
    BY <1>5 DEF RcptRemote, RcptUnasked, Data
  <2> QED
    BY <1>0, <1>5, <2>1, <2>2, EnvelopeSteps, EffectsStay, ListingStays
<1>6. CASE Tick \/ Prune
  <2>1. UNCHANGED <<kind, session, heard, effect>>
    BY <1>6 DEF Tick, Prune
  <2> QED
    BY <1>0, <1>6, <2>1, SessionsStay, EffectsStay, ListingStays
<1>7. CASE Refused
  <2>1. UNCHANGED <<kind, grey, waited>>
    BY <1>7 DEF Refused, Ends
  <2>2. Sessions'
    BY <1>0, <1>7, EndSteps DEF Refused
  <2> QED
    BY <1>0, <1>7, <2>1, <2>2, RefusedEffect, ListingStays
<1>8. ASSUME NEW quarantine \in BOOLEAN, NEW blocked \in SUBSET Boxes,
             Inbound(quarantine, blocked)
      PROVE  kind' \in Kinds /\ Sessions' /\ Effects' /\ Listing'
  <2>1. UNCHANGED <<kind, grey, waited>>
    BY <1>8 DEF Inbound, Ends
  <2>2. Sessions'
    BY <1>0, <1>8, EndSteps DEF Inbound
  <2> QED
    BY <1>0, <1>8, <2>1, <2>2, InboundEffect, ListingStays
<1>9. ASSUME NEW got \in SUBSET Boxes, NEW staged \in BOOLEAN, NEW committed \in BOOLEAN,
             Submission(got, staged, committed)
      PROVE  kind' \in Kinds /\ Sessions' /\ Effects' /\ Listing'
  <2>1. UNCHANGED <<kind, grey, waited>>
    BY <1>9 DEF Submission, Ends
  <2>2. Sessions'
    BY <1>0, <1>9, EndSteps DEF Submission
  <2> QED
    BY <1>0, <1>9, <2>1, <2>2, SubmissionEffect, ListingStays
<1>10. CASE UNCHANGED vars
  BY <1>0, <1>10, SessionsStay, EffectsStay, ListingStays DEF vars
<1> QED
  BY <1>1, <1>2, <1>3, <1>4, <1>5, <1>6, <1>7, <1>8, <1>9, <1>10 DEF Next, Dialogue

LEMMA Invariant == Spec => []IInv
BY InitInv, StepInv, PTL DEF Spec

(* Every reachable state is well typed, for any addresses and settings. *)
THEOREM TypeCorrect == Spec => []TypeOK
BY Invariant, PTL DEF IInv

(* The envelope the server holds is the one the peer was told of. *)
THEOREM EnvelopeHeard == Spec => []EnvelopeIsHeard
BY Invariant, PTL DEF IInv

(* No mail is relayed but for an account proved on this connection. *)
THEOREM NeverAnOpenRelay == Spec => []NoRelayUnproven
BY Invariant, PTL DEF IInv

(* The mail of a listed peer reaches no INBOX. *)
THEOREM ListedGoesToJunk == Spec => []QuarantineKept
BY Invariant, PTL DEF IInv

(* A message from another server is in every accepted mailbox once, or in   *)
(* none, as the peer was told; a refused submission has queued nothing.     *)
THEOREM AllOrNone == Spec => []AllOrNothing
BY Invariant, PTL DEF IInv

(* An accepted message is in its mailboxes, and in the folder, it should be *)
(* in.                                                                      *)
THEOREM KeptAsSaid == Spec => []CopiesAsSaid
BY ListedGoesToJunk, AllOrNone, PTL DEF CopiesAsSaid
-----------------------------------------------------------------------------
(* The greylist, and what the inbound policy makes of a message.            *)

(* The watch runs with the row: it was started when the row was made, and   *)
(* starts anew when the row is pruned.                                      *)
Clock ==
  /\ grey = NoRow => waited.since = 0
  /\ grey # NoRow => waited.since = grey.age
  /\ GreylistClock

LEMMA InitClock == Init => Clock
BY DEF Init, Clock, GreylistClock, NoWait

LEMMA AskedClock ==
  ASSUME IInv, Clock, NEW r \in Local, RcptAsked(r)
  PROVE  Clock'
<1>1. Listing
  BY Parts
<1>2. grey' # NoRow
  <2>1. Triplet(r) # <<>>
    BY DEF Triplet
  <2>2. grey'.of = Triplet(r)
    BY DEF RcptAsked, Sighting
  <2> QED
    BY <2>1, <2>2 DEF NoRow
<1>3. grey'.age = waited.since
  <2>1. CASE grey = NoRow
    <3>1. grey.of # Triplet(r)
      BY <2>1 DEF NoRow, Triplet
    <3>2. grey'.age = 0
      BY <3>1 DEF RcptAsked, Sighting
    <3> QED
      BY <2>1, <3>2 DEF Clock
  <2>2. CASE grey # NoRow
    <3>1. grey' = grey
      BY <2>2 DEF RcptAsked, Sighting
    <3> QED
      BY <2>2, <3>1 DEF Clock
  <2> QED
    BY <2>1, <2>2
<1>4. waited'.since = waited.since
  BY <1>1 DEF RcptAsked, Listing
<1>5. GreylistClock'
  <2>1. CASE grey'.age >= Delay
    BY <2>1 DEF RcptAsked, Clock, GreylistClock
  <2>2. CASE ~(grey'.age >= Delay)
    <3>1. waited'.deferred = waited.since
      BY <1>1, <2>2 DEF RcptAsked, Listing
    <3>2. waited.since < Delay
      BY <1>1, <1>3, <2>2 DEF Listing
    <3> QED
      BY <3>1, <3>2 DEF GreylistClock
  <2> QED
    BY <2>1, <2>2
<1> QED
  BY <1>2, <1>3, <1>4, <1>5 DEF Clock

LEMMA StepClock ==
  ASSUME IInv, Clock, [Next]_vars
  PROVE  Clock'
<1>1. Listing
  BY Parts
<1>2. CASE UNCHANGED <<grey, waited>>
  BY <1>2 DEF Clock, GreylistClock
<1>3. CASE \E r \in Local : RcptAsked(r)
  BY <1>3, AskedClock
<1>4. CASE Tick
  <2>1. grey \in [of : (Senders \X Local), age : 0 .. Delay + 1] /\ grey.age <= Delay
    BY <1>1, <1>4 DEF Tick, Listing
  <2>2. grey' # NoRow /\ grey'.age = grey.age + 1
    BY <1>4, <2>1 DEF Tick, NoRow
  <2>3. waited'.since = waited.since + 1 /\ waited'.deferred = waited.deferred
    BY <1>1, <1>4, <2>1 DEF Tick, Listing, Clock
  <2> QED
    BY <1>4, <2>1, <2>2, <2>3 DEF Tick, Clock, GreylistClock
<1>5. CASE Prune
  BY <1>5 DEF Prune, Clock, GreylistClock, NoWait
<1> QED
  BY <1>2, <1>3, <1>4, <1>5
     DEF Next, Dialogue, Connect, Close, Hello, Rset, StartTls, AuthPlain, AuthPassword, FinishAuth,
         AuthBegin, AuthUsername, AuthCancel, MailFrom, RcptRemote, RcptUnasked, Data, Refused, Ends,
         Submission, Inbound, vars

LEMMA ClockKept == Spec => []Clock
BY InitInv, StepInv, InitClock, StepClock, PTL DEF Spec

(* A triplet is deferred only while the delay since it was first deferred   *)
(* has not passed, however often the peer tries again, for any delay.       *)
THEOREM WaitIsBounded == Spec => []GreylistClock
BY ClockKept, PTL DEF Clock

(* What the policy decided is what the peer and the mailbox see.            *)
Heeds ==
  /\ verdict.action = "reject" => effect.said = "refused"
  /\ verdict.action = "quarantine" => effect.inbox = NoCopies

(* A message that the policy judges is a message from another server.       *)
LEMMA PolicyRefines == InboundSpec => Spec
<1>1. InboundInit => Init
  BY DEF InboundInit
<1>2. [InboundNext]_judged => [Next]_vars
  <2> SUFFICES ASSUME InboundNext PROVE Next
    BY DEF judged, vars
  <2>1. CASE Dialogue
    BY <2>1 DEF Next
  <2>2. ASSUME NEW v, Rejected(v) PROVE Next
    BY <2>2 DEF Rejected, Next, Dialogue
  <2>3. ASSUME NEW v, NEW blocked \in SUBSET Boxes, Judged(v, blocked) PROVE Next
    <3>1. (v.action = "quarantine") \in BOOLEAN /\ Inbound(v.action = "quarantine", blocked)
      BY <2>3 DEF Judged
    <3> QED
      BY <3>1 DEF Next
  <2> QED
    BY <2>1, <2>2, <2>3 DEF InboundNext
<1> QED
  BY <1>1, <1>2, PTL DEF InboundSpec, Spec

LEMMA StepHeeds ==
  ASSUME Heeds, verdict.due, [InboundNext]_judged,
         \A null \in BOOLEAN : \A v \in Verdicts[null] : v.due
  PROVE  Heeds' /\ verdict'.due
<1>1. CASE UNCHANGED judged
  BY <1>1 DEF judged, vars, Heeds, NoCopies
<1>2. CASE Dialogue /\ verdict' = IF effect' = effect THEN verdict ELSE Unjudged
  <2>1. CASE effect' = effect
    BY <1>2, <2>1 DEF Heeds, NoCopies
  <2>2. CASE effect' # effect
    BY <1>2, <2>2 DEF Heeds, Unjudged
  <2> QED
    BY <2>1, <2>2
<1>3. ASSUME NEW v \in Evaluated[session.transaction.sender = "null"] PROVE v.due
  <2>1. PICK null \in BOOLEAN : null = (session.transaction.sender = "null")
    OBVIOUS
  <2>2. v \in Verdicts[null] \/ v = Unjudged
    BY <1>3, <2>1 DEF Evaluated
  <2> QED
    BY <2>2 DEF Unjudged
<1>4. ASSUME NEW v \in Evaluated[session.transaction.sender = "null"], Rejected(v)
      PROVE  Heeds' /\ verdict'.due
  <2>1. verdict' = v /\ v.action = "reject" /\ effect'.said = "refused"
    BY <1>4 DEF Rejected, Refused, Ends
  <2> QED
    BY <1>3, <2>1 DEF Heeds
<1>5. ASSUME NEW v \in Evaluated[session.transaction.sender = "null"],
             NEW blocked \in SUBSET Boxes, Judged(v, blocked)
      PROVE  Heeds' /\ verdict'.due
  <2>1. verdict' = v /\ v.action # "reject" /\ Inbound(v.action = "quarantine", blocked)
    BY <1>5 DEF Judged
  <2>2. v.action = "quarantine" => effect'.inbox = NoCopies
    BY <2>1 DEF Inbound, Ends, NoCopies
  <2> QED
    BY <1>3, <2>1, <2>2 DEF Heeds, NoCopies
<1> QED
  BY <1>1, <1>2, <1>4, <1>5 DEF InboundNext

(* Mail from outside waits no longer than the greylist says, and a refusal  *)
(* or a quarantine that the policy decides is what happens to the message,  *)
(* and nothing else is, for any dialogue. That a decision is due is the     *)
(* hypothesis: the policy is a recursive evaluation, and TLC checks it.     *)
THEOREM OutsideMailIsFair ==
  ASSUME \A null \in BOOLEAN : \A v \in Verdicts[null] : v.due
  PROVE  InboundSpec => []InboundIsFair
<1>1. InboundInit => Heeds /\ verdict.due
  BY DEF InboundInit, Heeds, Unjudged
<1>2. Heeds /\ verdict.due /\ [InboundNext]_judged => (Heeds /\ verdict.due)'
  BY StepHeeds
<1>3. Heeds /\ verdict.due /\ GreylistClock => InboundIsFair
  BY DEF Heeds, InboundIsFair, VerdictIsDue
<1> QED
  BY <1>1, <1>2, <1>3, PolicyRefines, WaitIsBounded, PTL DEF InboundSpec
=============================================================================
