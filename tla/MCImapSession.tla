--------------------------- MODULE MCImapSession ---------------------------
(* Instance of ImapSession for TLC. *)
EXTENDS ImapSession, TLC

CONSTANTS s1, s2, m1, m2, m3, inbox, work, old

TwoMessages == <<m1, m2>>
=============================================================================
