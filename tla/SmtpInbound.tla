----------------------------- MODULE SmtpInbound -----------------------------
(***************************************************************************)
(* SmtpSession with the policy that judges a message from another server    *)
(* before its reply (DefaultMessageSink in delivery.rs): the quarantine and *)
(* the rejection that SmtpSession leaves open are what InboundPolicy makes  *)
(* of what the message says and DNS answers.                                *)
(***************************************************************************)
EXTENDS SmtpSession

(* The judgements of the worlds considered, without a sender and with one:  *)
(* what is done, and whether that is due (InboundPolicy's Judgement).       *)
CONSTANT Verdicts

VARIABLE verdict     \* history: what was done with the last message, and whether it was due

judged == <<vars, verdict>>

(* The whole evaluation is given a time; a message whose time is up is      *)
(* accepted, and one that was not evaluated is as well.                     *)
Unjudged == [action |-> "accept", due |-> TRUE]
Evaluated == [null \in BOOLEAN |-> Verdicts[null] \cup {Unjudged}]

InboundInit == Init /\ verdict = Unjudged

Judged(v, blocked) ==
  /\ v.action # "reject"
  /\ Inbound(v.action = "quarantine", blocked)
  /\ verdict' = v

Rejected(v) ==
  /\ session.state = "Data" /\ ~session.user
  /\ v.action = "reject"
  /\ Refused
  /\ verdict' = v

InboundNext ==
  \/ Dialogue /\ verdict' = IF effect' = effect THEN verdict ELSE Unjudged
  \/ \E v \in Evaluated[session.transaction.sender = "null"] :
        Rejected(v) \/ \E blocked \in SUBSET Boxes : Judged(v, blocked)

InboundSpec == InboundInit /\ [][InboundNext]_judged
-----------------------------------------------------------------------------
(* What is done with a message is what the domains involved publish and ask *)
(* for, whatever the lookups that failed would have brought: SPF's limit of *)
(* lookups, its includes and redirects, the fallback to the organizational  *)
(* domain and the operator's setting never turn into a refusal or a         *)
(* quarantine nobody asked for, and only a temporary error that is reported *)
(* puts off one that is due (inbound.rs: "Never lose mail because a lookup  *)
(* failed"). What is done is also what the peer and the mailbox see.        *)
VerdictIsDue ==
  /\ verdict.due
  /\ verdict.action = "reject" => effect.said = "refused"
  /\ verdict.action = "quarantine" => effect.inbox = NoCopies

(* Mail from outside is kept waiting no longer than the greylist says, and  *)
(* refused or put aside only when it is due.                                *)
InboundIsFair == GreylistClock /\ VerdictIsDue
=============================================================================
