---------------------------- MODULE SmtpClientProofs ----------------------------
(***************************************************************************)
(* What holds of the outbound client for any zones, names and number of     *)
(* attempts: no verdict that no peer spoke, no copy that no lost answer     *)
(* explains, nothing in the clear that TLS was asked for. None of the three *)
(* is inductive: what an attempt may conclude depends on what the phase it  *)
(* is in says of the dialogue so far.                                       *)
(***************************************************************************)
EXTENDS SmtpClient, TLAPS

(* What is known of the variables the three properties read. *)
Typed ==
  /\ config \in Config
  /\ phase \in Phase
  /\ encrypted \in BOOLEAN
  /\ reply \in Reply \cup {"none"}
  /\ took \in BOOLEAN /\ copies \in Nat /\ lost \in Nat

(* While an attempt runs it has no outcome. *)
Open == phase # "idle" => outcome = "none"

(* A connection's peer has not taken the message before the body, and after *)
(* it has if its reply says so.                                             *)
Untaken == phase \in {"greet in tls", "handshake"} \cup (Asked \ {"quit"}) => ~took
Answered == phase = "quit" => reply \in Reply /\ (took <=> reply \in {"asked", "ok"})

(* The acceptances so far: those nobody heard of, and one more at most. *)
Acceptances ==
  /\ copies <= lost + 1
  /\ ~(phase = "quit" /\ took) /\ outcome # "delivered" => copies <= lost

(* From where on the channel is known to be encrypted. *)
Private ==
  /\ phase \in {"ehlo again", "login", "auth"} => encrypted
  /\ IsRequired /\ phase \in {"mail", "rcpt", "data", "body"} => encrypted

Dialogue == Untaken /\ Answered /\ Private
IInv == Typed /\ Open /\ Dialogue /\ Acceptances /\ VerdictIsHeard /\ NothingInClear

LEMMA InitInv == Init => IInv
<1> SUFFICES ASSUME Init PROVE IInv
  OBVIOUS
<1>1. /\ phase = "idle" /\ outcome = "none" /\ reply = "none" /\ bare = {}
      /\ config \in Config /\ encrypted = FALSE /\ took = FALSE /\ copies = 0 /\ lost = 0
  BY DEF Init
<1>2. Typed /\ Open
  BY <1>1 DEF Typed, Phase, Open
<1>5. Acceptances
  BY <1>1 DEF Acceptances
<1>3. Dialogue
  BY <1>1 DEF Dialogue, Untaken, Answered, Private, Asked
<1>4. VerdictIsHeard /\ NothingInClear
  BY <1>1 DEF VerdictIsHeard, NothingInClear
<1> QED BY <1>2, <1>3, <1>4, <1>5 DEF IInv
-----------------------------------------------------------------------------
(* A step that leaves the dialogue alone and does not begin one. *)
LEMMA Elsewhere ==
  ASSUME IInv, phase' \in {"idle", "stopped", "mx", "addresses", "hosts", "connect"},
         phase # "quit",
         phase' # "idle" => outcome' = "none",
         outcome' \in {outcome, "temporary", "none"},
         outcome' = outcome \/ outcome # "delivered",
         UNCHANGED <<config, encrypted, reply, took, copies, lost, bare>>
  PROVE  IInv'
<1>1. Typed'
  BY DEF IInv, Typed, Phase, Connecting
<1>2. Open' /\ Dialogue'
  BY DEF IInv, Open, Dialogue, Untaken, Answered, Private, Asked
<1>3. Acceptances'
  BY DEF IInv, Acceptances
<1>4. VerdictIsHeard'
  BY DEF IInv, VerdictIsHeard
<1>5. NothingInClear'
  BY DEF IInv, NothingInClear, IsRequired
<1> QED BY <1>1, <1>2, <1>3, <1>4, <1>5 DEF IInv

(* An attempt whose address is given up without an answer: the peer may     *)
(* have taken the message all the same.                                     *)
LEMMA GivenUp ==
  ASSUME IInv, phase \in Connecting \cup Asked,
         phase' \in {"stopped", "connect", "hosts"},
         reply' = "none",
         IF phase = "quit" THEN lost' = lost + (IF took THEN 1 ELSE 0) /\ UNCHANGED <<took, copies>>
         ELSE Unheard,
         UNCHANGED <<config, encrypted, outcome, bare>>
  PROVE  IInv'
<1>1. outcome = "none"
  BY DEF IInv, Open, Connecting, Asked
<1>2. /\ took' \in BOOLEAN /\ copies' \in Nat /\ lost' \in Nat
      /\ copies' <= lost'
  <2>1. CASE phase = "quit"
    <3>1. ~took => copies <= lost BY <1>1 DEF IInv, Acceptances
    <3>2. copies <= lost + 1 BY DEF IInv, Acceptances
    <3>3. took \in BOOLEAN /\ copies \in Nat /\ lost \in Nat BY DEF IInv, Typed
    <3> QED BY <2>1, <3>1, <3>2, <3>3
  <2>2. CASE phase # "quit"
    <3>1. copies <= lost BY <1>1, <2>2 DEF IInv, Acceptances
    <3>2. took \in BOOLEAN /\ copies \in Nat /\ lost \in Nat BY DEF IInv, Typed
    <3>3. Unheard BY <2>2
    <3>4. CASE UNCHANGED <<took, copies, lost>> BY <3>1, <3>2, <3>4
    <3>5. CASE took' = TRUE /\ copies' = copies + 1 /\ lost' = lost + 1 BY <3>1, <3>2, <3>5
    <3> QED BY <3>3, <3>4, <3>5 DEF Unheard
  <2> QED BY <2>1, <2>2
<1>3. Typed'
  BY <1>2 DEF IInv, Typed, Phase, Connecting
<1>4. Open' /\ Dialogue'
  BY <1>1 DEF Open, Dialogue, Untaken, Answered, Private, Asked
<1>5. Acceptances'
  <2>1. \A m, n \in Nat : m <= n => m <= n + 1 OBVIOUS
  <2> QED BY <1>2, <2>1 DEF Acceptances
<1>6. VerdictIsHeard' /\ NothingInClear'
  BY <1>1 DEF IInv, VerdictIsHeard, NothingInClear, IsRequired
<1> QED BY <1>3, <1>4, <1>5, <1>6 DEF IInv

(* A reply before the end of the message that ends the dialogue: its        *)
(* verdict, or temporary whatever it says.                                  *)
LEMMA Concluded ==
  ASSUME IInv, phase \in Asked \ {"quit"}, NEW a \in Reply, NEW v,
         v = "temporary" \/ (v = Classify(a) /\ a # "asked"),
         Conclude(v),
         reply' = a,
         UNCHANGED <<config, encrypted, took, copies, lost>>
  PROVE  IInv'
<1>1. outcome = "none" /\ ~took
  BY DEF IInv, Open, Dialogue, Untaken, Asked
<1>2. copies <= lost
  BY <1>1 DEF IInv, Acceptances
<1>3. phase' \in {"idle", "connect", "hosts"} /\ bare' = bare
      /\ (phase' # "idle" => outcome' = "none")
  BY <1>1 DEF Conclude
<1>4. /\ outcome' = "delivered" => a = "ok"
      /\ outcome' = "permanent" => a \in {"no", "more"}
  BY <1>1 DEF Conclude, Classify, Reply
<1>5. Typed'
  BY <1>3 DEF IInv, Typed, Phase, Connecting
<1>6. Open' /\ Dialogue'
  BY <1>3 DEF Open, Dialogue, Untaken, Answered, Private, Asked
<1>7. Acceptances'
  BY <1>2 DEF IInv, Typed, Acceptances
<1>8. VerdictIsHeard' /\ NothingInClear'
  BY <1>1, <1>3, <1>4 DEF IInv, VerdictIsHeard, NothingInClear, IsRequired
<1> QED BY <1>5, <1>6, <1>7, <1>8 DEF IInv

(* The next command, or the handshake. *)
LEMMA Sent ==
  ASSUME IInv, phase \in Asked \ {"quit"}, NEW a \in Reply,
         NEW p \in {"ehlo", "helo", "starttls", "handshake", "login", "auth",
                    "mail", "rcpt", "data", "body"},
         p \in {"login", "auth"} => encrypted,
         IsRequired /\ p \in {"mail", "rcpt", "data", "body"} => encrypted,
         Send(p),
         reply' = a,
         UNCHANGED <<config, encrypted, took, copies, lost>>
  PROVE  IInv'
<1>1. phase' = p /\ outcome' = outcome
  BY DEF Send
<1>2. outcome = "none" /\ ~took
  BY DEF IInv, Open, Dialogue, Untaken, Asked
<1>3. bare' = bare \cup IF encrypted THEN {} ELSE Carries(p)
  BY DEF Send
<1>4. /\ IsRequired /\ ~encrypted => Carries(p) = {}
      /\ ~encrypted => "credentials" \notin Carries(p)
  BY DEF Carries
<1>5. Typed'
  BY <1>1 DEF IInv, Typed, Phase, Connecting, Asked
<1>6. Open' /\ Dialogue'
  BY <1>1, <1>2 DEF Open, Dialogue, Untaken, Answered, Private, Asked, IsRequired
<1>7. Acceptances' /\ VerdictIsHeard'
  BY <1>1, <1>2 DEF IInv, Acceptances, VerdictIsHeard
<1>8. NothingInClear'
  BY <1>3, <1>4 DEF IInv, NothingInClear, IsRequired
<1> QED BY <1>5, <1>6, <1>7, <1>8 DEF IInv
-----------------------------------------------------------------------------
(* The envelope, or AUTH before it, on a channel fit for it. *)
LEMMA TransactionKeeps ==
  ASSUME IInv, phase \in Asked \ {"quit"}, NEW a \in Reply, NEW offers,
         IsRequired => encrypted,
         Transaction(offers),
         reply' = a,
         UNCHANGED <<config, encrypted, took, copies, lost>>
  PROVE  IInv'
<1>1. CASE Conclude("temporary")
  BY <1>1, Concluded
<1>2. CASE Send("mail")
  BY <1>2, Sent
<1>3. CASE encrypted /\ Send("login")
  BY <1>3, Sent
<1>4. CASE encrypted /\ Send("auth")
  BY <1>4, Sent
<1> QED
  BY <1>1, <1>2, <1>3, <1>4 DEF Transaction, IInv, Typed

LEMMA SecureKeeps ==
  ASSUME IInv, phase \in Asked \ {"quit"}, NEW a \in Reply, NEW offers,
         Secure(offers),
         reply' = a,
         UNCHANGED <<config, encrypted, took, copies, lost>>
  PROVE  IInv'
<1>1. CASE Send("starttls")
  BY <1>1, Sent
<1>2. CASE Conclude("temporary")
  BY <1>2, Concluded
<1>3. CASE ~IsRequired /\ Transaction(offers)
  BY <1>3, TransactionKeeps
<1> QED
  BY <1>1, <1>2, <1>3 DEF Secure

LEMMA ExchangeKeeps ==
  ASSUME IInv, NEW a \in Reply, Exchange(a)
  PROVE  IInv'
<1>0. reply' = a /\ UNCHANGED <<config, encrypted, took, copies, lost>>
  BY DEF Exchange, worldVars
<1> DEFINE Ended == \E v : /\ v = "temporary" \/ (v = Classify(a) /\ a # "asked")
                           /\ Conclude(v)
<1>1. ASSUME phase \in Asked \ {"quit"}, Ended PROVE IInv'
  BY <1>0, <1>1, Concluded
<1> HIDE DEF Ended
<1>2. CASE Banner(a)
  <2>1. phase \in Asked \ {"quit"} /\ (Send("ehlo") \/ Ended)
    BY <1>2 DEF Banner, Asked, Ended
  <2> QED BY <1>0, <1>1, <2>1, Sent
<1>3. CASE Ehlo(a)
  <2>1. /\ phase \in Asked \ {"quit"}
        /\ Send("helo") \/ \E offers \in Offer : Secure(offers)
    BY <1>3 DEF Ehlo, Asked
  <2> QED BY <1>0, <2>1, Sent, SecureKeeps
<1>4. CASE Helo(a)
  <2>1. phase \in Asked \ {"quit"} /\ (Secure({}) \/ Ended)
    BY <1>4 DEF Helo, Asked, Ended
  <2> QED BY <1>0, <1>1, <2>1, SecureKeeps
<1>5. CASE StartTls(a)
  <2>1. phase \in Asked \ {"quit"} /\ (Send("handshake") \/ Ended)
    BY <1>5 DEF StartTls, Asked, Ended
  <2> QED BY <1>0, <1>1, <2>1, Sent
<1>6. CASE EhloAgain(a)
  <2>1. /\ phase \in Asked \ {"quit"} /\ encrypted
        /\ Ended \/ \E offers \in Offer : Transaction(offers)
    BY <1>6 DEF EhloAgain, Asked, Ended, IInv, Dialogue, Private
  <2> QED BY <1>0, <1>1, <2>1, TransactionKeeps
<1>7. CASE Login(a) \/ Auth(a)
  <2>1. /\ phase \in Asked \ {"quit"} /\ encrypted
        /\ Send("auth") \/ Send("mail") \/ Ended
    BY <1>7 DEF Login, Auth, Asked, Ended, IInv, Dialogue, Private
  <2> QED BY <1>0, <1>1, <2>1, Sent
<1>8. CASE Mail(a) \/ Rcpt(a) \/ Data(a)
  <2>1. /\ phase \in Asked \ {"quit"} /\ (IsRequired => encrypted)
        /\ Send("rcpt") \/ Send("data") \/ Send("body") \/ Ended
    BY <1>8 DEF Mail, Rcpt, Data, Asked, Ended, IInv, Dialogue, Private, Classify
  <2> QED BY <1>0, <1>1, <2>1, Sent
<1> QED
  BY <1>2, <1>3, <1>4, <1>5, <1>6, <1>7, <1>8 DEF Exchange

LEMMA BodyKeeps ==
  ASSUME IInv, NEW a \in Reply, Body(a)
  PROVE  IInv'
<1>1. /\ phase = "body" /\ phase' = "quit" /\ bare' = bare /\ outcome' = outcome
      /\ reply' = a /\ UNCHANGED <<config, encrypted, lost>>
  BY DEF Body, Send, Carries, worldVars
<1>2. outcome = "none" /\ copies <= lost
  BY <1>1 DEF IInv, Open, Acceptances
<1>3. CASE a \in {"asked", "ok"}
  <2>1. took' = TRUE /\ copies' = copies + 1
    BY <1>3 DEF Body
  <2> QED
    BY <1>1, <1>2, <1>3, <2>1 DEF IInv, Typed, Phase, Asked, Open, Dialogue, Untaken, Answered,
      Private, Acceptances, VerdictIsHeard, NothingInClear, IsRequired
<1>4. CASE a \notin {"asked", "ok"}
  <2>1. took' = FALSE /\ copies' = copies
    BY <1>4 DEF Body
  <2> QED
    BY <1>1, <1>2, <1>4, <2>1 DEF IInv, Typed, Phase, Asked, Open, Dialogue, Untaken, Answered,
      Private, Acceptances, VerdictIsHeard, NothingInClear, IsRequired
<1> QED BY <1>3, <1>4

LEMMA QuitKeeps ==
  ASSUME IInv, Quit
  PROVE  IInv'
<1>1. phase = "quit" /\ UNCHANGED <<config, encrypted, reply, took, copies, lost, bare>>
  BY DEF Quit, Conclude, worldVars, sessionVars
<1>2. outcome = "none" /\ reply \in Reply /\ (took <=> reply \in {"asked", "ok"})
  BY <1>1 DEF IInv, Open, Dialogue, Answered
<1>3. phase' \in {"idle", "connect", "hosts"} /\ (phase' # "idle" => outcome' = "none")
  BY <1>2 DEF Quit, Conclude
<1>4. /\ outcome' = "delivered" => took
      /\ outcome' = "permanent" => reply \in {"no", "more"}
      /\ outcome' # "delivered" => ~took
  BY <1>2 DEF Quit, Conclude, Classify, Reply
<1>5. Typed'
  BY <1>1, <1>3 DEF IInv, Typed, Phase, Connecting
<1>6. Open' /\ Dialogue'
  BY <1>3 DEF Open, Dialogue, Untaken, Answered, Private, Asked
<1>7. Acceptances'
  BY <1>1, <1>2, <1>4 DEF IInv, Acceptances
<1>8. VerdictIsHeard'
  BY <1>1, <1>2, <1>4 DEF VerdictIsHeard
<1>9. NothingInClear'
  BY <1>1 DEF IInv, NothingInClear, IsRequired
<1> QED BY <1>5, <1>6, <1>7, <1>8, <1>9 DEF IInv
-----------------------------------------------------------------------------
LEMMA StepInv == IInv /\ [Next]_vars => IInv'
<1> SUFFICES ASSUME IInv, [Next]_vars PROVE IInv'
  OBVIOUS
<1>1. CASE Begin
  <2>1. outcome = "none" \/ outcome = "temporary" BY <1>1 DEF Begin
  <2>2. /\ phase' \in {"mx", "addresses"} /\ outcome' = "none" /\ phase = "idle"
        /\ UNCHANGED <<config, encrypted, reply, took, copies, lost, bare>>
    BY <1>1 DEF Begin, worldVars, sessionVars
  <2> QED BY <2>1, <2>2, Elsewhere
<1>2. CASE Resolve
  <2>1. outcome = "none" BY <1>2 DEF IInv, Open, Resolve, LookupMx, LookupAddresses, NextHost
  <2>2. UNCHANGED <<config, encrypted, reply, took, copies, lost, bare>>
    BY <1>2 DEF Resolve, LookupMx, LookupAddresses, NextHost, Defer, worldVars, sessionVars
  <2>3. /\ phase' \in {"idle", "addresses", "hosts", "connect"} /\ phase # "quit"
        /\ phase' # "idle" => outcome' = outcome
        /\ outcome' \in {outcome, "temporary"}
    BY <1>2 DEF Resolve, LookupMx, LookupAddresses, NextHost, Defer
  <2> QED BY <2>1, <2>2, <2>3, Elsewhere
<1>3. CASE Dial
  <2>1. outcome = "none" /\ copies <= lost
    BY <1>3 DEF IInv, Open, Acceptances, Dial
  <2> QED
    BY <1>3, <2>1 DEF Dial, worldVars, IInv, Typed, Phase, Connecting, Asked, Open, Dialogue,
      Untaken, Answered, Private, Acceptances, VerdictIsHeard, NothingInClear, IsRequired
<1>4. CASE Handshake
  <2>1. outcome = "none" /\ copies <= lost /\ ~took
    BY <1>4 DEF IInv, Open, Acceptances, Dialogue, Untaken, Handshake
  <2> QED
    BY <1>4, <2>1 DEF Handshake, worldVars, IInv, Typed, Phase, Connecting, Asked, Open, Dialogue,
      Untaken, Answered, Private, Acceptances, VerdictIsHeard, NothingInClear, IsRequired
<1>5. CASE Quit
  BY <1>5, QuitKeeps
<1>6. CASE Fail \/ Deadline
  <2>1. /\ phase \in Connecting \cup Asked
        /\ phase' \in {"connect", "hosts"} /\ reply' = "none"
        /\ UNCHANGED <<config, encrypted, outcome, bare>>
    BY <1>6 DEF Fail, Deadline, Conclude, worldVars
  <2>2. IF phase = "quit" THEN lost' = lost + (IF took THEN 1 ELSE 0) /\ UNCHANGED <<took, copies>>
        ELSE Unheard
    BY <1>6 DEF Fail, Deadline, Connecting
  <2> QED BY <2>1, <2>2, GivenUp
<1>7. CASE Panic
  <2>1. /\ phase \in Connecting \cup Asked
        /\ phase' = "stopped" /\ reply' = "none"
        /\ UNCHANGED <<config, encrypted, outcome, bare>>
    BY <1>7 DEF Panic, worldVars
  <2>2. IF phase = "quit" THEN lost' = lost + (IF took THEN 1 ELSE 0) /\ UNCHANGED <<took, copies>>
        ELSE Unheard
    BY <1>7 DEF Panic
  <2> QED BY <2>1, <2>2, GivenUp
<1>8. CASE Restart
  <2>1. /\ phase' = "idle" /\ phase # "quit" /\ outcome' = outcome
        /\ UNCHANGED <<config, encrypted, reply, took, copies, lost, bare>>
    BY <1>8 DEF Restart, worldVars, sessionVars
  <2> QED BY <2>1, Elsewhere
<1>9. CASE \E a \in Reply : Exchange(a) \/ Body(a)
  BY <1>9, ExchangeKeeps, BodyKeeps
<1>10. CASE UNCHANGED vars
  BY <1>10 DEF vars, IInv, Typed, Open, Dialogue, Untaken, Answered, Private, Acceptances,
    VerdictIsHeard, NothingInClear, IsRequired
<1> QED
  BY <1>1, <1>2, <1>3, <1>4, <1>5, <1>6, <1>7, <1>8, <1>9, <1>10 DEF Next, Attempt

LEMMA Invariant == Spec => []IInv
BY InitInv, StepInv, PTL DEF Spec

(* No mail counts as delivered or as refused but for what a peer answered.  *)
THEOREM VerdictsAreHeard == Spec => []VerdictIsHeard
BY Invariant, PTL DEF IInv

(* No second copy but for an acceptance whose answer was lost. *)
THEOREM CopiesAreExplained == Spec => []CopiesExplained
<1>1. IInv => CopiesExplained
  BY DEF IInv, Typed, Acceptances, CopiesExplained
<1> QED BY <1>1, Invariant, PTL

(* Nothing goes out in the clear that a required policy protects, and no    *)
(* credentials under any.                                                   *)
THEOREM NothingLeavesInClear == Spec => []NothingInClear
BY Invariant, PTL DEF IInv
=============================================================================
