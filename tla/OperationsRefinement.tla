------------------------- MODULE OperationsRefinement -------------------------
(* Operations keeps the promise of Once. *)
EXTENDS Operations

Promise == INSTANCE Once

(* The claim, the replay and the record implement "at most once, and no     *)
(* false acknowledgement" (docs/sync.md 8).                                 *)
KeepsPromise == Promise!Spec
=============================================================================
