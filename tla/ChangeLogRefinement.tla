------------------------- MODULE ChangeLogRefinement -------------------------
(* The journal implements ChangeStream where nothing is pruned, deleted or   *)
(* restored: seq order is commit order, and a cursor is a prefix.            *)
EXTENDS ChangeLog, SequencesExt

Rank(R, r) == Cardinality({s \in R : s.seq < r.seq})
InSeqOrder(R) == [k \in 1..Cardinality(R) |-> CHOOSE r \in R : Rank(R, r) = k - 1]

(* The copy that the changes in a client's scope make. *)
ReplayOf(c, s) == [i \in Items |-> Settle(i, InScope(c, Range(s)), Absent)]

StreamOf(u) == InSeqOrder(RowsOf(u, history))
PositionOf(c) == Cardinality({r \in RowsOf(UserOf[c], history) : r.seq <= cursor[c]})

Stream == INSTANCE ChangeStream WITH
  Replay <- ReplayOf,
  stream <- [u \in Users |-> StreamOf(u)],
  position <- [c \in Clients |-> PositionOf(c)],
  copy <- cache

(* A client's copy is always a prefix of the changes of its account. *)
KeepsStream == Stream!StreamSpec
=============================================================================
