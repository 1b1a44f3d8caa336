---------------------------- MODULE ChangeStream ----------------------------
(***************************************************************************)
(* What the journal promises a syncing client: each account has one growing *)
(* sequence of changes, and a client's copy is always the result of a       *)
(* prefix of it, restricted to the client's scope. A client may start over. *)
(***************************************************************************)
EXTENDS Naturals, Sequences, SequencesExt

CONSTANTS Users, Clients, UserOf, Nothing,
          Replay(_, _)   \* the copy that a client's scope of a sequence of changes makes

VARIABLES stream, position, copy

StreamInit ==
  /\ stream = [u \in Users |-> <<>>]
  /\ position = [c \in Clients |-> 0]
  /\ copy = [c \in Clients |-> Nothing]

(* A transaction adds its changes at the end of its user's stream. *)
Publish(u) ==
  /\ stream'[u] # stream[u]
  /\ IsPrefix(stream[u], stream'[u])
  /\ \A v \in Users \ {u} : stream'[v] = stream[v]
  /\ UNCHANGED <<position, copy>>

(* A page takes a client forward to a later prefix. *)
Advance(c) ==
  /\ position'[c] \in position[c]..Len(stream[UserOf[c]])
  /\ copy'[c] = Replay(c, SubSeq(stream[UserOf[c]], 1, position'[c]))
  /\ \A d \in Clients \ {c} : position'[d] = position[d] /\ copy'[d] = copy[d]
  /\ UNCHANGED stream

(* A client drops its copy and starts over. *)
StartOver(c) ==
  /\ position'[c] = 0
  /\ copy'[c] = Nothing
  /\ \A d \in Clients \ {c} : position'[d] = position[d] /\ copy'[d] = copy[d]
  /\ UNCHANGED stream

StreamNext == \/ \E u \in Users : Publish(u)
              \/ \E c \in Clients : Advance(c) \/ StartOver(c)

StreamSpec == StreamInit /\ [][StreamNext]_<<stream, position, copy>>
=============================================================================
