---------------------------- MODULE MC_ListBuffer ----------------------------
(* Elements are interchangeable, and so are lists.  A list alone may grow to  *)
(* MaxLen elements, past the growth of a full buffer of four slots; several   *)
(* lists, and a list that is walked over, have SharedLen elements in all, and *)
(* no buffer of more than four slots.                                         *)
EXTENDS ListBuffer, TLC

CONSTANT SharedLen  \* bound: elements while there are several lists or a walk

Symmetry == Permutations(Elem) \union Permutations(ListId)

Small == Cardinality(DOMAIN lists) > 1 \/ Walking =>
             /\ Total <= SharedLen
             /\ \A l \in DOMAIN lists : Len(lists[l].buf) <= 4

MCSpec == Init /\ [][Next /\ Small']_vars
==============================================================================
