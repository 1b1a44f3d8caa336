--------------------------- MODULE MCMessageStore ---------------------------
(* Instances of MessageStore for TLC. *)
EXTENDS MessageStore, TLC

CONSTANTS p1, p2

(* Processes are interchangeable, and so are the folders. *)
Symmetric == Permutations(Procs) \cup Permutations(Folders) \cup Permutations(Messages) \cup Permutations(Folders)
=============================================================================
