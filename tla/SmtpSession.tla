----------------------------- MODULE SmtpSession -----------------------------
(***************************************************************************)
(* The dialogue of one SMTP connection: the session (session.rs), the       *)
(* handlers that read and write it (server.rs), the greylist a recipient    *)
(* passes (repository/greylist.rs), and what a message at the end of DATA   *)
(* becomes: copies in mailboxes or rows of the queue (delivery.rs).         *)
(*                                                                         *)
(* The peer says anything in any order. A reply that changes nothing (501,  *)
(* 503, a refused command) is a step that leaves everything as it is and is *)
(* not written down. Delivering one message is one step here: what happens  *)
(* inside the store and the queue is in MessageStore and MailQueue.         *)
(***************************************************************************)
EXTENDS Naturals, FiniteSets

CONSTANTS
  Local, Remote,  \* addresses of the local domains that resolve, and of others
  Boxes, Direct,  \* mailboxes, and the addresses of their rows
  Alias,          \* the target of a forwarding address
  CatchAll,       \* the mailbox for the rest of the domain
  HeloRequired,   \* smtp.helo_required
  RequireTls,     \* smtp.require_tls_for_auth
  RequireAuth,    \* smtp.require_auth_on_submission
  Delay           \* policy.greylist.delay_secs

ASSUME SmtpAssumption ==
  /\ Local \cap Remote = {}
  /\ DOMAIN Direct \subseteq Local /\ \A r \in DOMAIN Direct : Direct[r] \in Boxes
  /\ CatchAll \in Boxes
  /\ {HeloRequired, RequireTls, RequireAuth} \subseteq BOOLEAN
  /\ Delay \in Nat

Kinds == {"mx", "submission", "smtps"}
Rcpts == Local \cup Remote
Senders == {"own", "other", "null"}  \* an address of the account, another, <>

(* resolve_recipient: the address itself, an alias followed one hop to an   *)
(* address that exists, or the catch-all.                                   *)
BoxOf(r) ==
  CASE r \in DOMAIN Direct -> Direct[r]
    [] r \in DOMAIN Alias \ DOMAIN Direct /\ Alias[r] \in DOMAIN Direct -> Direct[Alias[r]]
    [] OTHER -> CatchAll

NoTransaction == [sender |-> "none", rcpts |-> {}, listed |-> FALSE]
Transaction == [sender : Senders \cup {"none"}, rcpts : SUBSET Rcpts, listed : BOOLEAN]

(* SmtpSession::new *)
New(tls) == [state |-> "Connected", helo |-> FALSE, user |-> FALSE, tls |-> tls,
             auth |-> "none", pending |-> FALSE, transaction |-> NoTransaction]

VARIABLES
  kind,     \* the listener of the connection
  session,  \* SmtpSession; state "Closed" when there is no connection
  grey,     \* the greylist row under watch: its triplet and its age
  (* history *)
  heard,    \* what the peer was told of its transaction, and how it proved itself
  effect,   \* what the last DATA did, and what was then heard
  waited    \* ticks since a triplet was first deferred, and until its last deferral

vars == <<kind, session, grey, heard, effect, waited>>

NoCopies == [b \in Boxes |-> 0]
Nothing == [sender |-> "none", rcpts |-> {}, proven |-> "no", listed |-> FALSE]
NoEffect == [said |-> "nothing", inbox |-> NoCopies, junk |-> NoCopies,
             queued |-> {}, heard |-> Nothing]
NoRow == [of |-> <<>>]
NoWait == [since |-> 0, deferred |-> 0]

Init ==
  /\ kind = "mx"
  /\ session = [New(FALSE) EXCEPT !.state = "Closed"]
  /\ grey = NoRow
  /\ heard = Nothing
  /\ effect = NoEffect
  /\ waited = NoWait
-----------------------------------------------------------------------------
(* session.rs                                                               *)

Greet_KeepsTransaction(s) ==
  [s EXCEPT !.helo = TRUE, !.auth = "none", !.pending = FALSE,
            !.state = IF @ = "Authenticated" THEN @ ELSE "Greeted"]
Greet(s) ==
  [s EXCEPT !.helo = TRUE, !.auth = "none", !.pending = FALSE, !.transaction = NoTransaction,
            !.state = IF @ = "Authenticated" THEN @ ELSE "Greeted"]

BeginTransaction(s, sender) ==
  [s EXCEPT !.state = "MailFrom", !.transaction = [NoTransaction EXCEPT !.sender = sender]]
AddRecipient(s, rcpt) ==
  [s EXCEPT !.state = "RcptTo", !.transaction.rcpts = @ \cup {rcpt}]
EndTransaction(s) ==
  [s EXCEPT !.state = IF s.user THEN "Authenticated" ELSE "Greeted",
            !.transaction = NoTransaction]
Reset(s) ==
  [s EXCEPT !.state = IF s.user THEN "Authenticated"
                      ELSE IF s.helo THEN "Greeted" ELSE "Connected",
            !.transaction = NoTransaction, !.auth = "none", !.pending = FALSE]
BeginAuth(s, auth) == [s EXCEPT !.auth = auth, !.pending = FALSE]
AbortAuth(s) == BeginAuth(s, "none")
Authenticate(s) == [AbortAuth(s) EXCEPT !.user = TRUE, !.state = "Authenticated"]

MayMailFrom(s) == s.state # "Data" /\ (HeloRequired => s.state # "Connected")
MayRcptTo(s) == s.state \in {"MailFrom", "RcptTo"}
MayData(s) == s.state = "RcptTo"
MayStartTls(s) == ~s.tls /\ s.state # "Data"
MayAuth_InClear(s) ==
  ~s.user /\ s.auth = "none" /\ s.state \notin {"Data", "MailFrom", "RcptTo"}
MayAuth(s) ==
  /\ ~s.user /\ s.auth = "none"
  /\ s.state \notin {"Data", "MailFrom", "RcptTo"}
  /\ RequireTls => s.tls
MayRelay(s) == s.user

(* The next line is a command. *)
Command == session.state \notin {"Closed", "Data"} /\ session.auth = "none"
-----------------------------------------------------------------------------
(* The connection.                                                          *)

Connect(k) ==
  /\ session.state = "Closed"
  /\ kind' = k
  /\ session' = New(k = "smtps")
  /\ heard' = Nothing
  /\ effect' = NoEffect
  /\ UNCHANGED <<grey, waited>>

(* QUIT, a timeout, an error, the switch, or a peer that goes away. *)
Close ==
  /\ session.state # "Closed"
  /\ session' = [New(FALSE) EXCEPT !.state = "Closed"]
  /\ heard' = Nothing
  /\ effect' = NoEffect
  /\ UNCHANGED <<kind, grey, waited>>

Hello ==
  /\ Command
  /\ session' = Greet(session)
  /\ heard' = [heard EXCEPT !.rcpts = {}, !.sender = "none", !.listed = FALSE]
  /\ UNCHANGED <<kind, grey, effect, waited>>

Rset ==
  /\ Command
  /\ session' = Reset(session)
  /\ heard' = [heard EXCEPT !.rcpts = {}, !.sender = "none", !.listed = FALSE]
  /\ UNCHANGED <<kind, grey, effect, waited>>

(* The handshake is made and the session is a new one. *)
StartTls ==
  /\ Command
  /\ MayStartTls(session)
  /\ session' = New(TRUE)
  /\ heard' = Nothing
  /\ UNCHANGED <<kind, grey, effect, waited>>
-----------------------------------------------------------------------------
(* AUTH                                                                     *)

(* finish_auth: the credentials are the account's, they are not, or the     *)
(* check failed.                                                            *)
FinishAuth(right) ==
  /\ session' = IF right THEN Reset(Authenticate(session)) ELSE AbortAuth(session)
  /\ heard' = IF right THEN [Nothing EXCEPT !.proven = IF session.tls THEN "tls" ELSE "clear"]
              ELSE heard
  /\ UNCHANGED <<kind, grey, effect, waited>>

(* AUTH PLAIN with its payload on the same line. *)
AuthPlain(right) ==
  /\ Command
  /\ MayAuth(session)
  /\ FinishAuth(right)

(* AUTH PLAIN alone, AUTH LOGIN alone, or AUTH LOGIN with the user name. *)
AuthBegin ==
  /\ Command
  /\ MayAuth(session)
  /\ session' \in {BeginAuth(session, "password"), BeginAuth(session, "username"),
                   [BeginAuth(session, "password") EXCEPT !.pending = TRUE]}
  /\ UNCHANGED <<kind, grey, heard, effect, waited>>

AuthUsername ==
  /\ session.auth = "username"
  /\ session' = [session EXCEPT !.auth = "password", !.pending = TRUE]
  /\ UNCHANGED <<kind, grey, heard, effect, waited>>

(* The line is the password. There is no user of the empty name. *)
AuthPassword(right) ==
  /\ session.auth = "password"
  /\ FinishAuth(right /\ session.pending)

(* "*", or something that is no answer. *)
AuthCancel ==
  /\ session.auth # "none"
  /\ session' = AbortAuth(session)
  /\ UNCHANGED <<kind, grey, heard, effect, waited>>
-----------------------------------------------------------------------------
(* The envelope.                                                            *)

(* handle_mail_from. A refusal (sequence, 530, SIZE, a block list that      *)
(* rejects) leaves the session as it was.                                   *)
MailFrom_MarkLost(sender, listed) ==
  /\ Command
  /\ MayMailFrom(session)
  /\ RequireAuth /\ kind = "submission" => session.user
  /\ listed => ~session.user
  /\ session' = BeginTransaction(session, sender)
  /\ heard' = [heard EXCEPT !.sender = sender, !.rcpts = {}, !.listed = listed]
  /\ effect' = NoEffect
  /\ UNCHANGED <<kind, grey, waited>>
MailFrom(sender, listed) ==
  /\ Command
  /\ MayMailFrom(session)
  /\ RequireAuth /\ kind = "submission" => session.user
  /\ listed => ~session.user
  /\ session' = [BeginTransaction(session, sender) EXCEPT !.transaction.listed = listed]
  /\ heard' = [heard EXCEPT !.sender = sender, !.rcpts = {}, !.listed = listed]
  /\ effect' = NoEffect
  /\ UNCHANGED <<kind, grey, waited>>

Accepted(rcpt) ==
  /\ session' = AddRecipient(session, rcpt)
  /\ heard' = [heard EXCEPT !.rcpts = @ \cup {rcpt}]
  /\ UNCHANGED <<kind, effect>>

RcptRemote(rcpt) ==
  /\ Command
  /\ MayRcptTo(session)
  /\ rcpt \notin session.transaction.rcpts
  /\ MayRelay(session)
  /\ Accepted(rcpt)
  /\ UNCHANGED <<grey, waited>>

(* skip_reason, and a database error, which accepts. *)
RcptUnasked(rcpt, failed) ==
  /\ Command
  /\ MayRcptTo(session)
  /\ rcpt \notin session.transaction.rcpts
  /\ session.user \/ session.transaction.sender = "null" \/ failed
  /\ Accepted(rcpt)
  /\ UNCHANGED <<grey, waited>>

(* check_and_record: the row is made or found, and its first sighting is    *)
(* never moved.                                                             *)
Triplet(rcpt) == <<session.transaction.sender, rcpt>>
Sighting_Restarts(rcpt) == [of |-> Triplet(rcpt), age |-> 0]
Sighting(rcpt) == IF grey.of = Triplet(rcpt) THEN grey ELSE [of |-> Triplet(rcpt), age |-> 0]

RcptAsked(rcpt) ==
  /\ Command
  /\ MayRcptTo(session)
  /\ rcpt \notin session.transaction.rcpts
  /\ ~session.user /\ session.transaction.sender # "null"
  /\ grey = NoRow \/ grey.of = Triplet(rcpt)
  /\ grey' = Sighting(rcpt)
  /\ IF grey'.age >= Delay
     THEN Accepted(rcpt) /\ UNCHANGED waited
     ELSE /\ waited' = [waited EXCEPT !.deferred = waited.since]
          /\ UNCHANGED <<kind, session, heard, effect>>

(* Time passes for the triplet. *)
Tick ==
  /\ grey # NoRow
  /\ grey.age <= Delay
  /\ grey' = [grey EXCEPT !.age = @ + 1]
  /\ waited' = [waited EXCEPT !.since = IF @ > Delay THEN @ ELSE @ + 1]
  /\ UNCHANGED <<kind, session, heard, effect>>

(* prune_older_than, from `ferroma storage gc`. *)
Prune ==
  /\ grey # NoRow
  /\ grey' = NoRow
  /\ waited' = NoWait
  /\ UNCHANGED <<kind, session, heard, effect>>
-----------------------------------------------------------------------------
(* DATA                                                                     *)

(* The limits of a submission refuse it before this and change nothing. *)
Data ==
  /\ Command
  /\ MayData(session)
  /\ session' = [session EXCEPT !.state = "Data"]
  /\ UNCHANGED <<kind, grey, heard, effect, waited>>

(* What DATA ends in. The reply may be lost, and the connection with it. *)
Ends(said, inbox, junk, queued) ==
  /\ session.state = "Data"
  /\ session' = EndTransaction(session)
  /\ effect' = [said |-> said, inbox |-> inbox, junk |-> junk, queued |-> queued,
                heard |-> heard]
  /\ heard' = [heard EXCEPT !.sender = "none", !.rcpts = {}, !.listed = FALSE]
  /\ UNCHANGED <<kind, grey, waited>>

(* Too large, a timeout, unparseable, a policy that rejects, a recipient    *)
(* that resolves no more, or a failed statement of a batch.                 *)
Refused == Ends("refused", NoCopies, NoCopies, {})

(* One copy for every mailbox that the addresses reach. *)
Reached(rcpts) == {BoxOf(r) : r \in rcpts}
PerAddress(rcpts) == [b \in Boxes |-> Cardinality({r \in rcpts : BoxOf(r) = b})]
PerMailbox(boxes) == [b \in Boxes |-> IF b \in boxes THEN 1 ELSE 0]

(* deliver_inbound_batch: one transaction for all accepted recipients. A    *)
(* listed peer, a quarantine by the policy or a sender that the owner has   *)
(* blocked turn INBOX into Junk.                                            *)
Inbound_PerAddress(quarantine, blocked) ==
  /\ session.state = "Data" /\ ~session.user
  /\ LET copies == PerAddress(session.transaction.rcpts)
         aside == IF quarantine \/ session.transaction.listed THEN Boxes ELSE blocked
     IN Ends("accepted", [b \in Boxes |-> IF b \in aside THEN 0 ELSE copies[b]],
                         [b \in Boxes |-> IF b \in aside THEN copies[b] ELSE 0], {})
Inbound(quarantine, blocked) ==
  /\ session.state = "Data" /\ ~session.user
  /\ LET copies == PerMailbox(Reached(session.transaction.rcpts))
         aside == IF quarantine \/ session.transaction.listed THEN Boxes ELSE blocked
     IN Ends("accepted", [b \in Boxes |-> IF b \in aside THEN 0 ELSE copies[b]],
                         [b \in Boxes |-> IF b \in aside THEN copies[b] ELSE 0], {})

(* deliver_for with a submitter: each mailbox on its own (some are full or  *)
(* fail), and the recipients elsewhere in one transaction with the Sent     *)
(* copy, if the sender is an address of the account.                        *)
DeliverEach(got) == got \subseteq Reached(session.transaction.rcpts \cap Local)
Staged(staged) == staged => session.transaction.sender = "own"
Committed(staged, committed) == committed => staged

(* DeliveryReport::reply, and the error of a commit that failed. *)
Reply(failed, got, queued) ==
  IF ~failed /\ (got # {} \/ queued # {}) THEN "accepted" ELSE "refused"

Submission(got, staged, committed) ==
  /\ session.state = "Data" /\ session.user
  /\ DeliverEach(got) /\ Staged(staged) /\ Committed(staged, committed)
  /\ LET out == session.transaction.rcpts \cap Remote
         queued == IF committed THEN out ELSE {}
         failed == staged /\ out # {} /\ ~committed
     IN Ends(Reply(failed, got, queued), PerMailbox(got), NoCopies, queued)
-----------------------------------------------------------------------------
(* Everything but the delivery of a message from another server. *)
Dialogue ==
  \/ \E k \in Kinds : Connect(k)
  \/ Close \/ Hello \/ Rset \/ StartTls
  \/ \E right \in BOOLEAN : AuthPlain(right) \/ AuthPassword(right)
  \/ AuthBegin \/ AuthUsername \/ AuthCancel
  \/ \E sender \in Senders, listed \in BOOLEAN : MailFrom(sender, listed)
  \/ \E r \in Remote : RcptRemote(r)
  \/ \E r \in Local : RcptAsked(r) \/ \E failed \in BOOLEAN : RcptUnasked(r, failed)
  \/ Tick \/ Prune
  \/ Data \/ Refused
  \/ \E got \in SUBSET Boxes, staged, committed \in BOOLEAN : Submission(got, staged, committed)

Next ==
  \/ Dialogue
  \/ \E quarantine \in BOOLEAN, blocked \in SUBSET Boxes : Inbound(quarantine, blocked)

Spec == Init /\ [][Next]_vars
-----------------------------------------------------------------------------
States == {"Closed", "Connected", "Greeted", "MailFrom", "RcptTo", "Data", "Authenticated"}
Session == [state : States, helo : BOOLEAN, user : BOOLEAN, tls : BOOLEAN,
            auth : {"none", "username", "password"}, pending : BOOLEAN,
            transaction : Transaction]
Heard == [sender : Senders \cup {"none"}, rcpts : SUBSET Rcpts,
          proven : {"no", "clear", "tls"}, listed : BOOLEAN]
Effect == [said : {"nothing", "accepted", "refused"}, inbox : [Boxes -> 0 .. 1],
           junk : [Boxes -> 0 .. 1], queued : SUBSET Remote, heard : Heard]

(* Every variable has its type, no mailbox gets a message twice from one    *)
(* transaction, and an AUTH exchange is never inside a transaction.         *)
TypeOK ==
  /\ kind \in Kinds
  /\ session \in Session
  /\ session.auth # "none" => session.transaction = NoTransaction
  /\ grey = NoRow \/ grey \in [of : (Senders \X Local), age : 0 .. Delay + 1]
  /\ heard \in Heard
  /\ effect \in Effect
  /\ waited \in [since : 0 .. Delay + 1, deferred : 0 .. Delay + 1]

(* The envelope the server would deliver is the one the peer was told of:   *)
(* the sender and the recipients of the last MAIL it accepted, and nothing  *)
(* from before an EHLO, a RSET, a STARTTLS, an AUTH or the end of a message *)
(* (session.rs: greet, reset, end_transaction, reset_for_starttls).         *)
EnvelopeIsHeard ==
  session.state # "Closed" =>
    /\ session.transaction.rcpts = heard.rcpts
    /\ session.transaction.sender = heard.sender
    /\ session.user <=> heard.proven # "no"

(* Mail goes to another server only for a peer that proved an account on    *)
(* this connection, over TLS where the configuration asks for it, and only  *)
(* in the name of that account (docs/smtp.md 6: "never an open relay").     *)
NoRelayUnproven ==
  effect.queued # {} => /\ effect.heard.proven = "tls" \/ (~RequireTls /\ effect.heard.proven = "clear")
                        /\ effect.heard.sender = "own"
                        /\ effect.queued \subseteq effect.heard.rcpts

(* A message from another server is in every mailbox that its accepted      *)
(* recipients reach, once, or in none, and 250 says which. A refused        *)
(* submission has queued nothing (delivery.rs: "all previously accepted     *)
(* RCPTs share one database transaction").                                  *)
AllOrNothing ==
  LET copies(b) == effect.inbox[b] + effect.junk[b]
      reached == {BoxOf(r) : r \in effect.heard.rcpts \cap Local}
  IN /\ effect.said = "refused" => effect.queued = {}
     /\ effect.said # "nothing" /\ effect.heard.proven = "no" =>
          \A b \in Boxes :
            copies(b) = IF effect.said = "accepted" /\ b \in reached THEN 1 ELSE 0

(* A message of a peer that a block list names is in no INBOX (server.rs:   *)
(* "the message will go to Junk").                                          *)
QuarantineKept == effect.heard.listed => effect.inbox = NoCopies

(* Every accepted message is where it should be, as often as it should be.  *)
CopiesAsSaid == AllOrNothing /\ QuarantineKept

(* A triplet is deferred only while the delay since its first deferral has  *)
(* not passed: a peer that retries early does not push its own deadline     *)
(* forward (greylist.rs check_and_record).                                  *)
GreylistClock == waited.deferred = 0 \/ waited.deferred < Delay

(* A client that answers the empty challenge of AUTH PLAIN with its account *)
(* is let in (docs/smtp.md 8). It fails: the answer is read as a password.  *)
PlainContinues ==
  [][session.auth = "password" /\ ~session.pending /\ AuthPassword(TRUE) => session'.user]_vars
=============================================================================
