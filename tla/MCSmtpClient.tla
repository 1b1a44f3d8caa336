---------------------------- MODULE MCSmtpClient ----------------------------
EXTENDS SmtpClient, TLC

CONSTANTS d, h1, h2, r

(* Two exchangers, one exchanger beside a null MX, one of two without an    *)
(* address, only null ones, the null MX, and no MX record at all.           *)
SomeZones ==
  {[mx |-> m, addr |-> d :> 1 @@ h1 :> 2 @@ h2 :> a @@ r :> 2] :
     m \in {<<h1, h2>>, <<Null, h2>>, <<Null, Null>>, <<Null>>, <<>>}, a \in 0..1}
=============================================================================
