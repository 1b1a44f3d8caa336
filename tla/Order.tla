-------------------------------- MODULE Order --------------------------------
(* Sorting, written so that it can be reasoned about: an element's place is  *)
(* one more than the number of elements with a smaller key.                  *)
EXTENDS Integers, FiniteSets

Below(key, x) == Cardinality({y \in DOMAIN key : key[y] < key[x]})

(* The domain of key, which gives its elements different integers, as a      *)
(* sequence in the order of the keys.                                        *)
InOrder(key) ==
  [i \in 1..Cardinality(DOMAIN key) |-> CHOOSE x \in DOMAIN key : Below(key, x) = i - 1]
==============================================================================
