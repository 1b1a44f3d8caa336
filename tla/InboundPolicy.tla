---------------------------- MODULE InboundPolicy ----------------------------
(***************************************************************************)
(* What the server does with a message from another server: SPF (spf.rs),   *)
(* DKIM (DkimVerifier::verify), DMARC (dmarc.rs) and the decision over them *)
(* (inbound.rs). Pure functions of a world: what the message says, what the *)
(* configuration says, and what DNS answers.                                *)
(*                                                                         *)
(* An answer is a record of how the lookup went ("answered", "absent" for   *)
(* a name without records of the type, "down") and the records it brought.  *)
(* A domain is the sequence of its labels. Parsing, macros and cryptography *)
(* are abstracted to their outcome: "garbled", a target, `holds`.           *)
(***************************************************************************)
EXTENDS Naturals, Sequences, FiniteSets

CONSTANTS
  MaxLookups,        \* policy.spf_max_lookups
  MaxDepth,          \* MAX_DEPTH
  MaxSignatures,     \* MAX_SIGNATURES_EVALUATED
  TwoLabelSuffixes   \* TWO_LABEL_SUFFIXES

NoDomain == <<>>
Absent == [how |-> "absent", records |-> <<>>]
At(zone, d) == IF d \in DOMAIN zone THEN zone[d] ELSE Absent

(* HickoryResolver, map_resolve_error: a name without records of the type   *)
(* is an error, like a server that does not answer.                         *)
Fails(how) == how # "answered"
FirstOf(S) == CHOOSE k \in S : \A j \in S : k <= j
-----------------------------------------------------------------------------
(* spf.rs. A record has terms (the result of a match, the mechanism, its    *)
(* target, how the lookup of its names went, and where each name leads) and *)
(* a redirect. The counter of lookups passes through the whole evaluation.  *)

Outcome(result, lookups) == [result |-> result, lookups |-> lookups]

Charge_OffByOne(spent) == spent + 1 < MaxLookups
Charge(spent) == spent + 1 <= MaxLookups

(* a, mx, exists and ptr: the first name that is not just somewhere else    *)
(* decides; a name of ptr that does not resolve is passed over.             *)
Asked(t) ==
  LET heeded == IF t.kind = "ptr" THEN SelectSeq(t.hosts, LAMBDA h : ~Fails(h.how)) ELSE t.hosts
      telling == {k \in DOMAIN heeded : Fails(heeded[k].how) \/ heeded[k].here}
  IN IF Fails(t.how) THEN "temperror"
     ELSE IF telling = {} THEN "no"
     ELSE IF Fails(heeded[FirstOf(telling)].how) THEN "temperror" ELSE "yes"

(* RFC 7208 5.2 as the code has it: only a pass of the included domain      *)
(* matches, and one without a policy is an error of the record.             *)
Included_NoneIsNo(result) ==
  CASE result = "pass" -> "yes"
    [] result \in {"fail", "softfail", "neutral", "none"} -> "no"
    [] OTHER -> result
Included(result) ==
  CASE result = "pass" -> "yes"
    [] result \in {"fail", "softfail", "neutral"} -> "no"
    [] result = "none" -> "permerror"
    [] OTHER -> result

RECURSIVE Evaluate(_, _, _, _, _), Terms(_, _, _, _, _, _)

Match(zone, t, stack, spent, depth) ==
  CASE t.kind = "all" -> Outcome("yes", spent)
    [] t.kind = "ip" -> Outcome(IF t.here THEN "yes" ELSE "no", spent)
    [] OTHER ->
         IF ~Charge(spent) \/ t.garbled THEN Outcome("permerror", spent + 1)
         ELSE IF t.kind # "include" THEN Outcome(Asked(t), spent + 1)
         ELSE LET inner == Evaluate(zone, t.target, stack, spent + 1, depth + 1)
              IN Outcome(Included(inner.result), inner.lookups)

Terms(zone, record, i, stack, spent, depth) ==
  IF i <= Len(record.terms)
  THEN LET m == Match(zone, record.terms[i], stack, spent, depth)
       IN CASE m.result = "yes" -> Outcome(record.terms[i].says, m.lookups)
            [] m.result = "no" -> Terms(zone, record, i + 1, stack, m.lookups, depth)
            [] OTHER -> m
  ELSE IF record.redirect = NoDomain THEN Outcome("neutral", spent)
  ELSE IF ~Charge(spent) THEN Outcome("permerror", spent + 1)
  ELSE LET inner == Evaluate(zone, record.redirect, stack, spent + 1, depth + 1)
       IN IF inner.result = "none" THEN Outcome("permerror", inner.lookups) ELSE inner

(* `stack` holds the domains between the sender's and this one.             *)
Evaluate(zone, d, stack, spent, depth) ==
  LET answer == At(zone, d)
  IN CASE depth > MaxDepth \/ d \in stack -> Outcome("permerror", spent)
       [] Fails(answer.how) -> Outcome("temperror", spent)
       [] answer.records = <<>> -> Outcome("none", spent)
       [] Len(answer.records) > 1 \/ answer.records[1].garbled -> Outcome("permerror", spent)
       [] OTHER -> Terms(zone, answer.records[1], 1, stack \cup {d}, spent, depth)

CheckSpf(w) ==
  IF ~w.config.spf \/ w.sender = NoDomain THEN "none"
  ELSE Evaluate(w.spf, w.sender, {}, 0, 0).result
-----------------------------------------------------------------------------
(* dkim.rs. A signature has its d= domain, whether its tags can be used,    *)
(* whether the body hash matches, whether it has expired, how the lookup of *)
(* its key went and whether the key can be used, and whether it holds.      *)

VerifyOne(s) ==
  CASE s.garbled -> "permerror"
    [] ~s.body -> "fail"
    [] s.expired -> "policy"
    [] Fails(s.key) -> "temperror"
    [] ~s.usable -> "permerror"
    [] ~s.holds -> "fail"
    [] OTHER -> "pass"

Heeded(signatures) == {k \in DOMAIN signatures : k <= MaxSignatures}

(* The first signature that passes, or else the topmost failure. *)
Reported(signatures) ==
  LET passing == {k \in Heeded(signatures) : VerifyOne(signatures[k]) = "pass"}
  IN IF passing = {} THEN 1 ELSE FirstOf(passing)

Verify(w) ==
  IF ~w.config.dkim \/ w.signatures = <<>> THEN [result |-> "none", domain |-> NoDomain]
  ELSE LET s == w.signatures[Reported(w.signatures)]
       IN [result |-> VerifyOne(s), domain |-> s.domain]
-----------------------------------------------------------------------------
(* dmarc.rs *)

Organizational(d) ==
  LET n == Len(d)
      lastTwo == SubSeq(d, n - 1, n)
  IN IF n <= 2 THEN d
     ELSE IF lastTwo \in TwoLabelSuffixes THEN SubSeq(d, n - 2, n) ELSE lastTwo

Aligns(mode, from, d) ==
  /\ from # NoDomain /\ d # NoDomain
  /\ IF mode = "strict" THEN from = d ELSE Organizational(from) = Organizational(d)

(* The record at _dmarc.<d>, or why there is none. *)
Fetch(w, d) ==
  LET answer == At(w.dmarc, d)
  IN CASE Fails(answer.how) -> "temperror"
       [] answer.records = <<>> -> "none"
       [] Len(answer.records) > 1 \/ answer.records[1].garbled -> "permerror"
       [] OTHER -> "found"

PolicyFor(record, subdomain) ==
  IF subdomain /\ record.sp # "unset" THEN record.sp ELSE record.p
AppliesTo(record, draw) == draw < record.pct

DmarcVerdict(result, policy) == [result |-> result, policy |-> policy]

EvaluateDmarc(w, record, subdomain, spf, dkim) ==
  LET aligned == \/ spf = "pass" /\ Aligns(record.aspf, w.from, w.sender)
                 \/ dkim.result = "pass" /\ Aligns(record.adkim, w.from, dkim.domain)
  IN IF aligned THEN DmarcVerdict("pass", PolicyFor(record, subdomain))
     ELSE DmarcVerdict("fail", IF AppliesTo(record, w.draw) THEN PolicyFor(record, subdomain)
                               ELSE "none")

CheckDmarc(w, spf, dkim) ==
  LET org == Organizational(w.from)
      here == Fetch(w, w.from)
      above == Fetch(w, org)
  IN CASE ~w.config.dmarc \/ w.from = NoDomain -> DmarcVerdict("none", "none")
       [] here = "found" -> EvaluateDmarc(w, w.dmarc[w.from].records[1], FALSE, spf, dkim)
       [] here # "none" \/ org = w.from -> DmarcVerdict(here, "none")
       [] above = "found" -> EvaluateDmarc(w, w.dmarc[org].records[1], TRUE, spf, dkim)
       [] OTHER -> DmarcVerdict(above, "none")
-----------------------------------------------------------------------------
(* inbound.rs *)

Rank(policy) == CASE policy = "none" -> 0 [] policy = "quarantine" -> 1 [] policy = "reject" -> 2
LessSevere_Swapped(a, b) == IF Rank(a) >= Rank(b) THEN a ELSE b
LessSevere(a, b) == IF Rank(a) <= Rank(b) THEN a ELSE b
Effective(w, published) ==
  IF w.config.local = "unset" THEN published ELSE LessSevere(published, w.config.local)
ActionOf(policy) == IF policy = "none" THEN "accept" ELSE policy

(* A lookup that fails ends the checks: what follows is not attempted and   *)
(* reported as a temporary error, too.                                      *)
Stages(w) ==
  LET spf == CheckSpf(w)
      dkim == IF w.config.dkim /\ spf = "temperror"
              THEN [result |-> "temperror", domain |-> NoDomain] ELSE Verify(w)
      unavailable == spf = "temperror" \/ dkim.result = "temperror"
  IN [spf |-> spf, dkim |-> dkim.result,
      dmarc |-> IF unavailable /\ w.from # NoDomain THEN DmarcVerdict("temperror", "none")
                ELSE CheckDmarc(w, spf, dkim)]

Transient(stages) == "temperror" \in {stages.spf, stages.dkim, stages.dmarc.result}

Decide(w, stages) ==
  IF Transient(stages) \/ stages.dmarc.result # "fail" THEN "accept"
  ELSE ActionOf(Effective(w, stages.dmarc.policy))

Action(w) == Decide(w, Stages(w))
-----------------------------------------------------------------------------
(* The reference: what the published policies ask for, as a set, because a  *)
(* lookup that is down could have brought anything. It is written without   *)
(* the counter, the order of names and the short cuts of the code.          *)

Reading(result, cost) == [result |-> result, cost |-> cost]
Answers(t) ==
  LET here == \E k \in DOMAIN t.hosts : t.hosts[k].how = "answered" /\ t.hosts[k].here
      maybe == \E k \in DOMAIN t.hosts : t.hosts[k].how = "down"
  IN CASE t.how = "down" -> {"yes", "no"}
       [] t.how = "absent" -> {"no"}
       [] OTHER -> IF here THEN {"yes"} ELSE IF maybe THEN {"yes", "no"} ELSE {"no"}

RECURSIVE Readings(_, _, _), ReadingsFrom(_, _, _, _)

ReadingsOfTerm(zone, t, above) ==
  CASE t.kind = "all" -> {Reading("yes", 0)}
    [] t.kind = "ip" -> {Reading(IF t.here THEN "yes" ELSE "no", 0)}
    [] t.garbled -> {Reading("permerror", 1)}
    [] t.kind = "include" ->
         {Reading(IF r.result = "pass" THEN "yes"
                  ELSE IF r.result \in {"none", "permerror"} THEN "permerror" ELSE "no",
                  r.cost + 1) : r \in Readings(zone, t.target, above)}
    [] OTHER -> {Reading(a, 1) : a \in Answers(t)}

ReadingsFrom(zone, record, i, above) ==
  IF i > Len(record.terms)
  THEN IF record.redirect = NoDomain THEN {Reading("neutral", 0)}
       ELSE {Reading(IF r.result = "none" THEN "permerror" ELSE r.result, r.cost + 1) :
               r \in Readings(zone, record.redirect, above)}
  ELSE LET here == ReadingsOfTerm(zone, record.terms[i], above)
       IN {Reading(record.terms[i].says, m.cost) : m \in {m \in here : m.result = "yes"}}
          \cup {m \in here : m.result = "permerror"}
          \cup UNION {{Reading(r.result, r.cost + m.cost) :
                         r \in ReadingsFrom(zone, record, i + 1, above)} :
                        m \in {m \in here : m.result = "no"}}

Readings(zone, d, above) ==
  LET answer == At(zone, d)
  IN CASE d \in above -> {Reading("permerror", 0)}
       [] answer.how = "down" -> {Reading(r, 0) : r \in {"pass", "fail", "none", "permerror"}}
       [] answer.records = <<>> -> {Reading("none", 0)}
       [] Len(answer.records) > 1 \/ answer.records[1].garbled -> {Reading("permerror", 0)}
       [] OTHER -> ReadingsFrom(zone, answer.records[1], 1, above \cup {d})

(* SPF may, or does, authorize the peer. *)
Authorized(w) ==
  IF ~w.config.spf \/ w.sender = NoDomain THEN {FALSE}
  ELSE {r.result = "pass" /\ r.cost <= MaxLookups : r \in Readings(w.spf, w.sender, {})}

MayPass(s) == ~s.garbled /\ s.body /\ ~s.expired
              /\ (s.key = "down" \/ (s.key = "answered" /\ s.usable /\ s.holds))
Signatures(w) == IF w.config.dkim THEN {w.signatures[k] : k \in DOMAIN w.signatures} ELSE {}

Asks(w, record, subdomain) ==
  LET sender == Aligns(record.aspf, w.from, w.sender)
      vouched == {s \in Signatures(w) : MayPass(s) /\ Aligns(record.adkim, w.from, s.domain)}
      may == (sender /\ TRUE \in Authorized(w)) \/ vouched # {}
      does == (sender /\ Authorized(w) = {TRUE}) \/ \E s \in vouched : s.key # "down"
  IN (IF may THEN {"accept"} ELSE {})
     \cup (IF does THEN {}
           ELSE IF w.draw >= record.pct THEN {"accept"}
           ELSE {ActionOf(Effective(w, PolicyFor(record, subdomain)))})

Actions == {"accept", "quarantine", "reject"}
AsksAt(w, d, subdomain, otherwise) ==
  LET answer == At(w.dmarc, d)
  IN CASE answer.how = "down" -> Actions
       [] answer.records = <<>> -> otherwise
       [] Len(answer.records) > 1 \/ answer.records[1].garbled -> {"accept"}
       [] OTHER -> Asks(w, answer.records[1], subdomain)

AskedFor(w) ==
  IF ~w.config.dmarc \/ w.from = NoDomain THEN {"accept"}
  ELSE LET org == Organizational(w.from)
           above == IF org = w.from THEN {"accept"} ELSE AsksAt(w, org, TRUE, {"accept"})
       IN AsksAt(w, w.from, FALSE, above)

(* What the checks do not look at, although it could vouch for the message: *)
(* a signature below the reported one, and a name of ptr that is down.      *)
Overlooked(w) ==
  \/ w.config.dkim /\ \E k \in DOMAIN w.signatures :
                        k # Reported(w.signatures) /\ MayPass(w.signatures[k])
  \/ \E d \in DOMAIN w.spf : \E r \in DOMAIN w.spf[d].records :
       \E i \in DOMAIN w.spf[d].records[r].terms :
         LET t == w.spf[d].records[r].terms[i]
         IN t.kind = "ptr" /\ \E k \in DOMAIN t.hosts : t.hosts[k].how = "down"

(* The actions that may be taken: the one that every completion of the      *)
(* answers asks for, and to accept when a stage reports a temporary error   *)
(* (or when the whole evaluation times out).                                *)
Due(w) ==
  IF Overlooked(w) THEN Actions
  ELSE (IF Cardinality(AskedFor(w)) = 1 THEN AskedFor(w) ELSE {})
       \cup (IF Transient(Stages(w)) THEN {"accept"} ELSE {})

(* What is done with a message, and whether that is due, which is there for *)
(* the property and takes no part in what happens.                          *)
Judgement(w) == [action |-> Action(w), due |-> Action(w) \in Due(w)]
=============================================================================
