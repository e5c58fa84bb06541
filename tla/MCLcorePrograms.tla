--------------------------- MODULE MCLcorePrograms ---------------------------
(* LcorePrograms with lists of four numbers for reorder_packet2. *)
EXTENDS LcorePrograms

\* Numbers inside the window of four, up to twice as far, farther, and behind it.
ShortLists ==
  {l \in [1..4 -> {9, 10, 11, 12, 14, 15, 17, 35}] :
     Cardinality({l[k] : k \in 1..4}) = 4 /\ l[1] \in {10, 12}}
===============================================================================
