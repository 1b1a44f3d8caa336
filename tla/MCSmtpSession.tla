---------------------------- MODULE MCSmtpSession ----------------------------
(* Instance of SmtpSession and of its inbound policy for TLC.               *)
EXTENDS SmtpInbound, InboundPolicy, TLC

CONSTANTS a, alias, b, postmaster, A, B

(* An address, an alias of it, and one that only the catch-all takes. *)
Rows == a :> A @@ postmaster :> B
Aliases == alias :> a

(* Mail comes from an address at mail.corp.co.uk, whose organization is     *)
(* corp.co.uk, by way of esp.test.                                          *)
Corp == <<"corp", "co", "uk">>
Mail == <<"mail", "corp", "co", "uk">>
Esp == <<"esp", "test">>
Suffixes == {<<"co", "uk">>}

Answered(records) == [how |-> "answered", records |-> records]
Down == [how |-> "down", records |-> <<>>]
Garbled == [garbled |-> TRUE, terms |-> <<>>, redirect |-> NoDomain]
Record(terms, redirect) == Answered(<<[garbled |-> FALSE, terms |-> terms, redirect |-> redirect]>>)

(* The terms of an SPF record: where the names of a mechanism lead.         *)
Host(how, here) == [how |-> how, here |-> here]
Here == Host("answered", TRUE)
There == Host("answered", FALSE)
Gone == Host("down", FALSE)
Void == Host("absent", FALSE)
Term(says, mechanism) == [says |-> says, kind |-> mechanism, here |-> FALSE, target |-> NoDomain,
                          garbled |-> FALSE, how |-> "answered", hosts |-> <<>>]
Hosts(mechanism, hosts) == [Term("pass", mechanism) EXCEPT !.hosts = hosts]
All == Term("fail", "all")
Peer == [Term("pass", "ip") EXCEPT !.here = TRUE]
SomeTerms ==
  {All, Peer, [Term("pass", "a") EXCEPT !.garbled = TRUE],
   Hosts("a", <<Here>>), Hosts("a", <<There>>), Hosts("a", <<Gone>>),
   Hosts("mx", <<There, Here, Gone>>), Hosts("mx", <<Gone, Here>>),
   [Term("pass", "mx") EXCEPT !.how = "absent"],
   Hosts("ptr", <<Void, Here>>), Hosts("ptr", <<Gone>>)}
  \cup {[Term(says, "include") EXCEPT !.target = d] : says \in {"pass", "fail"}, d \in {Esp, Corp}}

Troubles == {Down, Absent, Answered(<<>>), Answered(<<Garbled>>), Answered(<<Garbled, Garbled>>)}
TermLists == {<<t, u>> : t, u \in SomeTerms} \cup {<<t, u, Peer>> : t, u \in SomeTerms}
Zones == {Mail :> m @@ Esp :> e @@ Corp :> Record(<<[Term("pass", "include") EXCEPT !.target = Esp]>>, NoDomain) :
            m \in Troubles \cup {Record(ts, d) : ts \in TermLists, d \in {NoDomain, Esp}},
            e \in Troubles \cup {Record(<<t>>, NoDomain) : t \in SomeTerms} \cup {Record(<<>>, Mail)}}

(* What a domain asks for. *)
Wish(p, sp, mode) == [garbled |-> FALSE, p |-> p, sp |-> sp, aspf |-> mode, adkim |-> mode, pct |-> 50]
Reject == Answered(<<Wish("reject", "unset", "relaxed")>>)
Wishes == {Down, Absent, Answered(<<>>), Answered(<<[garbled |-> TRUE]>>)}
          \cup {Answered(<<Wish(p, sp, mode)>>) :
                  p \in {"quarantine", "reject"}, sp \in {"unset", "none"}, mode \in {"strict", "relaxed"}}

Signed(d, key, holds) == [domain |-> d, garbled |-> FALSE, body |-> TRUE, expired |-> FALSE,
                          key |-> key, usable |-> TRUE, holds |-> holds]
Good == Signed(Corp, "answered", TRUE)
SomeSignatures ==
  {<<>>, <<Good>>} \cup {<<Signed(d, key, FALSE)>> : d \in {Corp, Esp}, key \in {"answered", "down", "absent"}}
  \cup {<<[Good EXCEPT !.expired = TRUE]>>, <<[Good EXCEPT !.body = FALSE]>>,
        <<[Good EXCEPT !.garbled = TRUE]>>, <<[Good EXCEPT !.usable = FALSE]>>,
        <<Signed(Esp, "answered", FALSE), Good>>, <<Good, Signed(Esp, "down", TRUE)>>}

Checks(local) == [spf |-> TRUE, dkim |-> TRUE, dmarc |-> TRUE, local |-> local]
World(sender, spf, signatures, from, dmarc, draw, local) ==
  [sender |-> sender, spf |-> spf, signatures |-> signatures, from |-> from, dmarc |-> dmarc,
   draw |-> draw, config |-> Checks(local)]

(* Any SPF records under one wish, and any wishes and signatures under a few *)
(* SPF records.                                                              *)
SomeVerdicts ==
  [null \in BOOLEAN |->
     {Judgement(World(Mail, z, <<>>, Mail, Mail :> Reject, 49, "unset")) :
        z \in IF null THEN {} ELSE Zones}
     \cup
     {LET sender == IF null THEN NoDomain ELSE Corp
      IN Judgement(World(sender, sender :> m, g, from, Mail :> here @@ Corp :> org, draw, local)) :
        m \in {Absent, Record(<<Peer>>, NoDomain), Record(<<All>>, NoDomain)},
        g \in SomeSignatures, from \in {Mail, NoDomain}, here \in {Answered(<<>>), Reject},
        org \in Wishes, draw \in {49, 50}, local \in {"unset", "quarantine"}}]
==============================================================================
