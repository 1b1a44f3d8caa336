------------------------------ MODULE SmtpClient ------------------------------
(***************************************************************************)
(* How an outbound message leaves: the queue worker resolves the mail       *)
(* exchangers of the recipient's domain, or the configured relay, and       *)
(* SmtpClient::deliver tries their addresses in turn until one answers for  *)
(* good. One row of the queue, attempt after attempt; the queue around it   *)
(* is MailQueue.                                                            *)
(*                                                                         *)
(* Data: of an exchanger only how many addresses it has matters, of a reply *)
(* only how it stands to what its step asks for ("asked": the very code,    *)
(* "ok": another 2yz, "more": 1yz or 3yz, "later": 4yz, "no": 5yz).         *)
(***************************************************************************)
EXTENDS Naturals, Sequences

CONSTANTS
  Names,        \* host names
  Domain,       \* the recipient's domain
  Relay,        \* queue.relay_host
  Null,         \* the null MX, "."
  Zones,        \* what the DNS may say
  MaxAttempts   \* bound: claims of the row (its max_attempts)

ASSUME NamesAssumption == {Domain, Relay} \subseteq Names /\ Null \notin Names
ASSUME ZonesAssumption == Zones \subseteq [mx : Seq(Names \cup {Null}), addr : [Names -> Nat]]
ASSUME BoundAssumption == MaxAttempts \in Nat

VARIABLES
  config,       \* the client's configuration for this row
  zone,         \* the DNS
  willing,      \* whether resolver, network and peers do all that is asked of them
  phase,        \* what the attempt waits for
  unresolved,   \* exchangers whose addresses are still to be looked up
  targets,      \* the number of addresses of each host still to be tried
  left,         \* addresses left of the host being tried, this one included
  late,         \* session_timeout has passed for this host
  encrypted,    \* Session::encrypted
  reply,        \* the last reply, but for that to QUIT
  outcome,      \* DeliveryOutcome of the last finished attempt
  attempts,     \* claims so far
  (* History. *)
  took,         \* the peer of this connection took the message
  copies,       \* how often a peer took the message
  lost,         \* how often it did and its answer did not come through
  bare          \* what was sent in the clear

worldVars == <<config, zone, willing>>
planVars == <<unresolved, targets, attempts>>
sessionVars == <<late, encrypted, reply, took, copies, lost>>
vars == <<config, zone, willing, phase, unresolved, targets, left, late, encrypted, reply,
          outcome, attempts, took, copies, lost, bare>>

TlsPolicy == {"opportunistic", "required", "implicit", "disabled"}
IsRequired == config.policy \in {"required", "implicit"}
AllowsTls == config.policy # "disabled"

(* Mail to an exchanger is opportunistic and never authenticates; a relay   *)
(* has any policy, with credentials or without.                             *)
Config ==
  {c \in [relay : BOOLEAN, policy : TlsPolicy, auth : BOOLEAN, big : BOOLEAN] :
     ~c.relay => c.policy = "opportunistic" /\ ~c.auth}

Reply == {"asked", "ok", "more", "later", "no"}
Verdict == {"delivered", "temporary", "permanent"}
Extension == {"STARTTLS", "AUTH", "LOGIN", "PLAIN"}
Asked == {"banner", "ehlo", "helo", "starttls", "ehlo again", "login", "auth",
          "mail", "rcpt", "data", "body", "quit"}
Connecting == {"connect", "greet in tls", "handshake"}
Phase == {"idle", "stopped", "mx", "addresses", "hosts"} \cup Connecting \cup Asked

Init ==
  /\ config \in Config
  /\ zone \in Zones
  /\ willing \in BOOLEAN
  /\ phase = "idle"
  /\ unresolved = <<>> /\ targets = <<>> /\ left = 0
  /\ late = FALSE /\ encrypted = FALSE /\ reply = "none"
  /\ outcome = "none" /\ attempts = 0
  /\ took = FALSE /\ copies = 0 /\ lost = 0 /\ bare = {}
-----------------------------------------------------------------------------
(* The queue worker: where to.                                              *)

Begin ==
  /\ phase = "idle" /\ outcome \in {"none", "temporary"}
  /\ attempts < MaxAttempts
  /\ attempts' = attempts + 1
  /\ outcome' = "none"
  /\ phase' = IF config.relay THEN "addresses" ELSE "mx"
  /\ unresolved' = IF config.relay THEN <<Relay>> ELSE <<>>
  /\ targets' = <<>>
  /\ UNCHANGED <<worldVars, sessionVars, left, bare>>

(* Nothing more to try: the attempt is put off. *)
Defer ==
  /\ outcome' = "temporary" /\ phase' = "idle"
  /\ UNCHANGED <<worldVars, planVars, sessionVars, left, bare>>

(* build_lookup, and the domain itself where that leaves no exchanger. *)
Exchangers_Honoured(mx) == IF \E i \in DOMAIN mx : mx[i] = Null THEN <<>> ELSE mx
Exchangers(mx) ==
  LET real == SelectSeq(mx, LAMBDA n : n # Null) IN
  IF mx = <<Null>> THEN <<>>
  ELSE IF real = <<>> /\ zone.addr[Domain] > 0 THEN <<Domain>> ELSE real

(* map_resolve_error makes an error of "no such record" too, so that mx()   *)
(* returns before it comes to the implicit exchanger.                       *)
LookupMx ==
  /\ phase = "mx"
  /\ \/ (~willing \/ zone.mx = <<>> \/ Exchangers(zone.mx) = <<>>) /\ Defer
     \/ /\ zone.mx # <<>> /\ Exchangers(zone.mx) # <<>>
        /\ unresolved' = Exchangers(zone.mx)
        /\ phase' = "addresses"
        /\ UNCHANGED <<worldVars, sessionVars, targets, attempts, left, outcome, bare>>

(* One host without an address, or a lookup that fails, is the end of the   *)
(* whole lookup (delivery_targets: `?`).                                    *)
LookupAddresses ==
  /\ phase = "addresses"
  /\ \/ (~willing \/ zone.addr[Head(unresolved)] = 0) /\ Defer
     \/ /\ zone.addr[Head(unresolved)] > 0
        /\ targets' = Append(targets, zone.addr[Head(unresolved)])
        /\ unresolved' = Tail(unresolved)
        /\ phase' = IF Len(unresolved) = 1 THEN "hosts" ELSE "addresses"
        /\ UNCHANGED <<worldVars, sessionVars, attempts, left, outcome, bare>>

(* Preference order; SmtpClient::deliver has one deadline for all addresses *)
(* of a host.                                                               *)
NextHost ==
  /\ phase = "hosts"
  /\ \/ targets = <<>> /\ Defer
     \/ /\ targets # <<>>
        /\ left' = Head(targets)
        /\ targets' = Tail(targets)
        /\ late' = FALSE
        /\ phase' = "connect"
        /\ UNCHANGED <<worldVars, unresolved, attempts, encrypted, reply, took, copies, lost,
                       outcome, bare>>
-----------------------------------------------------------------------------
(* SmtpClient: one address.                                                 *)

Classify(a) ==
  CASE a \in {"asked", "ok"} -> "delivered"
    [] a = "later" -> "temporary"
    [] OTHER -> "permanent"

(* A temporary outcome moves on to the next address of the host, and then   *)
(* to the next host; any other is the answer.                               *)
Conclude_SameAddress(v) ==
  /\ IF v = "temporary"
     THEN phase' = "connect" /\ UNCHANGED <<left, outcome>>
     ELSE outcome' = v /\ phase' = "idle" /\ UNCHANGED left
  /\ UNCHANGED bare
Conclude(v) ==
  /\ IF v = "temporary"
     THEN /\ left' = left - 1
          /\ phase' = IF left > 1 THEN "connect" ELSE "hosts"
          /\ UNCHANGED outcome
     ELSE /\ outcome' = v
          /\ phase' = "idle"
          /\ UNCHANGED left
  /\ UNCHANGED bare

(* What a command carries. *)
Carries(p) ==
  CASE p \in {"login", "auth"} -> {"credentials"}
    [] p \in {"mail", "rcpt"} -> {"envelope"}
    [] p = "body" -> {"message"}
    [] OTHER -> {}

Send(p) ==
  /\ phase' = p
  /\ bare' = bare \cup IF encrypted THEN {} ELSE Carries(p)
  /\ UNCHANGED <<left, outcome>>

Dial ==
  /\ phase = "connect" /\ ~late
  /\ phase' = IF config.policy = "implicit" THEN "greet in tls" ELSE "banner"
  /\ encrypted' = FALSE /\ reply' = "none" /\ took' = FALSE
  /\ UNCHANGED <<worldVars, planVars, left, late, outcome, copies, lost, bare>>

Handshake ==
  /\ phase \in {"greet in tls", "handshake"}
  /\ phase' = IF phase = "handshake" THEN "ehlo again" ELSE "banner"
  /\ encrypted' = TRUE
  /\ UNCHANGED <<worldVars, planVars, left, late, outcome, reply, took, copies, lost, bare>>

(* The envelope, behind AUTH where there are credentials. *)
Transaction(offers) ==
  IF ~config.auth THEN Send("mail")
  ELSE IF ~encrypted \/ "AUTH" \notin offers THEN Conclude("temporary")
  ELSE IF offers \cap {"LOGIN", "PLAIN"} = {"LOGIN"} THEN Send("login") ELSE Send("auth")

(* STARTTLS is asked for inside an implicit channel, too. *)
Secure_Downgraded(offers) ==
  IF AllowsTls /\ "STARTTLS" \in offers THEN Send("starttls") ELSE Transaction(offers)
Secure(offers) ==
  IF AllowsTls /\ "STARTTLS" \in offers THEN Send("starttls")
  ELSE IF IsRequired THEN Conclude("temporary")
  ELSE Transaction(offers)

(* What a peer may advertise; a willing one has AUTH, and STARTTLS as long  *)
(* as the channel is in the clear.                                          *)
Offer == IF willing THEN {{"AUTH"} \cup IF encrypted THEN {} ELSE {"STARTTLS"}}
         ELSE SUBSET Extension

Banner(a) ==
  phase = "banner" /\ IF a = "asked" THEN Send("ehlo") ELSE Conclude(Classify(a))
Ehlo(a) ==
  phase = "ehlo" /\ IF a = "asked" THEN \E offers \in Offer : Secure(offers) ELSE Send("helo")
Helo(a) ==
  phase = "helo" /\ IF a = "asked" THEN Secure({}) ELSE Conclude(Classify(a))
StartTls(a) ==
  /\ phase = "starttls"
  /\ IF a = "asked" THEN Send("handshake")
     ELSE Conclude(IF IsRequired THEN Classify(a) ELSE "temporary")
EhloAgain(a) ==
  /\ phase = "ehlo again"
  /\ IF a = "asked" THEN \E offers \in Offer : Transaction(offers) ELSE Conclude(Classify(a))
(* Refused credentials never bounce the message. *)
Login(a) == phase = "login" /\ IF a = "asked" THEN Send("auth") ELSE Conclude("temporary")
Auth(a) == phase = "auth" /\ IF a = "asked" THEN Send("mail") ELSE Conclude("temporary")
Mail(a) ==
  phase = "mail" /\ IF a \in {"asked", "ok"} THEN Send("rcpt") ELSE Conclude(Classify(a))
Rcpt(a) ==
  phase = "rcpt" /\ IF a \in {"asked", "ok"} THEN Send("data") ELSE Conclude(Classify(a))
Data(a) ==
  /\ phase = "data"
  /\ IF a # "asked" THEN Conclude(Classify(a))
     ELSE IF config.big THEN Conclude("temporary") ELSE Send("body")

(* A reply to anything before the end of the message. *)
Exchange(a) ==
  /\ Banner(a) \/ Ehlo(a) \/ Helo(a) \/ StartTls(a) \/ EhloAgain(a) \/ Login(a) \/ Auth(a)
       \/ Mail(a) \/ Rcpt(a) \/ Data(a)
  /\ willing => a = "asked"
  /\ reply' = a
  /\ UNCHANGED <<worldVars, planVars, late, encrypted, took, copies, lost>>

(* The reply to the message; QUIT follows whatever it is. *)
Body(a) ==
  /\ phase = "body"
  /\ willing => a = "asked"
  /\ Send("quit")
  /\ reply' = a
  /\ IF a \in {"asked", "ok"} THEN took' = TRUE /\ copies' = copies + 1
     ELSE took' = FALSE /\ UNCHANGED copies
  /\ UNCHANGED <<worldVars, planVars, late, encrypted, lost>>

(* The peer takes the message (or not) and its answer is lost. *)
Unheard ==
  \/ UNCHANGED <<took, copies, lost>>
  \/ /\ phase = "body"
     /\ took' = TRUE /\ copies' = copies + 1 /\ lost' = lost + 1

(* Answered, closed, broken or timed out: the QUIT changes nothing. *)
Quit_Counts ==
  /\ phase = "quit"
  /\ \/ Conclude(Classify(reply))
     \/ ~willing /\ Conclude("temporary")
  /\ UNCHANGED <<worldVars, planVars, sessionVars>>
Quit ==
  /\ phase = "quit"
  /\ Conclude(Classify(reply))
  /\ UNCHANGED <<worldVars, planVars, sessionVars>>

(* transport_failure: no connection or handshake, a peer that closes, stays *)
(* silent for read_timeout or talks nonsense.                               *)
Fail_Bounces ==
  /\ ~willing
  /\ phase \in Connecting \cup (Asked \ {"quit"})
  /\ Conclude(IF phase \in {"rcpt", "data"} THEN "permanent" ELSE "temporary")
  /\ reply' = "none"
  /\ Unheard
  /\ UNCHANGED <<worldVars, planVars, late, encrypted>>
Fail ==
  /\ ~willing
  /\ phase \in Connecting \cup (Asked \ {"quit"})
  /\ Conclude("temporary")
  /\ reply' = "none"
  /\ Unheard
  /\ UNCHANGED <<worldVars, planVars, late, encrypted>>

(* session_timeout cuts the dialogue off wherever it is, in the QUIT too,   *)
(* and with it the host's other addresses.                                  *)
Deadline ==
  /\ ~willing
  /\ phase \in Connecting \cup Asked
  /\ Conclude("temporary")
  /\ late' = TRUE
  /\ reply' = "none"
  /\ IF phase = "quit" THEN lost' = lost + (IF took THEN 1 ELSE 0) /\ UNCHANGED <<took, copies>>
     ELSE Unheard
  /\ UNCHANGED <<worldVars, planVars, encrypted>>

(* split_reply cuts the line after its third and its fourth byte, and       *)
(* panics when a character lies across: the task of the queue worker ends,  *)
(* and with it all delivery until the process is started again.             *)
Panic ==
  /\ ~willing
  /\ phase \in Asked
  /\ phase' = "stopped"
  /\ reply' = "none"
  /\ IF phase = "quit" THEN lost' = lost + (IF took THEN 1 ELSE 0) /\ UNCHANGED <<took, copies>>
     ELSE Unheard
  /\ UNCHANGED <<worldVars, planVars, left, late, encrypted, outcome, bare>>

(* At its start the worker takes back every claim. *)
Restart ==
  /\ phase = "stopped"
  /\ phase' = "idle"
  /\ UNCHANGED <<worldVars, planVars, sessionVars, left, outcome, bare>>
-----------------------------------------------------------------------------
Resolve == LookupMx \/ LookupAddresses \/ NextHost
Attempt ==
  \/ Resolve
  \/ Dial \/ Handshake \/ Quit \/ Fail \/ Deadline \/ Panic
  \/ \E a \in Reply : Exchange(a) \/ Body(a)

Next == Begin \/ Attempt \/ Restart

Spec == Init /\ [][Next]_vars

(* The queue claims what is due; no wait of the client is without a limit   *)
(* (the resolver's timeout, connect_timeout, read_timeout, session_timeout);*)
(* and who is willing answers.                                              *)
Fairness ==
  /\ WF_vars(Begin) /\ WF_vars(Resolve) /\ WF_vars(Fail) /\ WF_vars(Deadline) /\ WF_vars(Quit)
  /\ WF_vars(willing /\ Attempt)
FairSpec == Spec /\ Fairness
-----------------------------------------------------------------------------
(* Properties. *)

(* Every variable stays in its type. *)
TypeOK ==
  /\ config \in Config /\ zone \in Zones /\ willing \in BOOLEAN
  /\ phase \in Phase
  /\ unresolved \in Seq(Names) /\ targets \in Seq(Nat \ {0}) /\ left \in Nat
  /\ late \in BOOLEAN /\ encrypted \in BOOLEAN
  /\ reply \in Reply \cup {"none"}
  /\ outcome \in Verdict \cup {"none"}
  /\ attempts \in Nat
  /\ took \in BOOLEAN /\ copies \in Nat /\ lost \in Nat
  /\ bare \subseteq {"credentials", "envelope", "message"}

(* Mail is only reported delivered when a peer took it, and only bounced    *)
(* when a peer refused it (client.rs, "The classification rule": getting it *)
(* wrong loses mail). Two replies are misread: a 2yz that is not the one    *)
(* its step asks for ("ok") counts as a delivery, 1yz and 3yz as a refusal. *)
VerdictIsHeard ==
  /\ outcome = "delivered" => took \/ reply = "ok"
  /\ outcome = "permanent" => ~took /\ reply \in {"no", "more"}

(* A recipient gets one copy, and another only for every acceptance whose   *)
(* answer was lost: whichever addresses, hosts and attempts follow.         *)
CopiesExplained ==
  copies <= lost + IF phase = "quit" \/ outcome = "delivered" THEN 1 ELSE 0

(* With a policy that requires TLS nothing but the greeting is ever sent in *)
(* the clear, and credentials are not with any, whichever address, host or  *)
(* reply the dialogue comes to.                                             *)
NothingInClear ==
  /\ IsRequired => bare = {}
  /\ "credentials" \notin bare

(* Every attempt ends, however the peers and the resolver behave: with an   *)
(* outcome, or with the worker.                                             *)
AttemptEnds == phase \notin {"idle", "stopped"} ~> phase \in {"idle", "stopped"}

(* Mail for a domain whose exchangers all have an address is delivered when *)
(* nothing fails on the way. Not so for a domain without an MX record and   *)
(* not over implicit TLS, where a STARTTLS is waited for that no peer has.  *)
Deliverable ==
  /\ ~config.big /\ config.policy # "implicit"
  /\ config.auth => config.policy # "disabled"
  /\ IF config.relay THEN zone.addr[Relay] > 0
     ELSE /\ \E i \in DOMAIN zone.mx : zone.mx[i] # Null
          /\ \A i \in DOMAIN zone.mx : zone.mx[i] # Null => zone.addr[zone.mx[i]] > 0
WillingTakesIt ==
  attempts = 0 /\ willing /\ Deliverable /\ MaxAttempts > 0
    ~> outcome = "delivered" /\ copies = 1
=============================================================================
