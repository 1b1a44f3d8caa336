------------------------------ MODULE MCAccounts ------------------------------
(* Instances of Accounts for TLC. *)
EXTENDS Accounts, TLC

CONSTANTS d1, p1, p2

Symmetry == Permutations(Procs)
=============================================================================
