---------------------------- MODULE MCChangeLog ----------------------------
EXTENDS ChangeLogRefinement, TLC

CONSTANTS i1, i2, i3, b1, b2, b3, u1, u2, c1, c2, absent, a

Items3 == {i1, i2, i3}
Items1 == {i1}
Items2 == {i1, i2}
TheMailboxOf == [i \in Items |-> CASE i = i1 -> b1 [] i = i2 -> b2 [] OTHER -> b3]
TheOwnerOf == [b \in Mailboxes |-> IF b = b3 THEN u2 ELSE u1]
TheUserOf == [c \in Clients |-> u1]
(* c1 follows one address, c2 the whole account. *)
TheScopeOf == [c \in Clients |-> IF c = c1 THEN {b1} ELSE Mailboxes \ {b3}]
=============================================================================
