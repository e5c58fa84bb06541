--------------------------- MODULE SafeReclamation ---------------------------
(***************************************************************************)
(* What RCU promises, without saying how: there is one current version,    *)
(* readers borrow the version that is current when they ask, and a version *)
(* is reclaimed at most once, when it is no longer current and nobody has  *)
(* borrowed it.  The last version goes when the cell is closed, after      *)
(* which nobody can borrow anything.                                       *)
(***************************************************************************)
EXTENDS Naturals

CONSTANTS Readers, None

VARIABLES
  current,     \* the version a reader would borrow now
  borrowed,    \* the version each reader has borrowed, or None
  reclaimed,   \* the versions given back to the allocator
  closed

cellVars == <<current, borrowed, reclaimed, closed>>

Init ==
  /\ current = 0
  /\ borrowed = [r \in Readers |-> None]
  /\ reclaimed = {}
  /\ closed = FALSE

Publish ==
  /\ ~closed
  /\ current' = current + 1
  /\ UNCHANGED <<borrowed, reclaimed, closed>>

Borrow(r) ==
  /\ ~closed
  /\ borrowed[r] = None
  /\ borrowed' = [borrowed EXCEPT ![r] = current]
  /\ UNCHANGED <<current, reclaimed, closed>>

Return(r) ==
  /\ borrowed[r] # None
  /\ borrowed' = [borrowed EXCEPT ![r] = None]
  /\ UNCHANGED <<current, reclaimed, closed>>

Reclaim(v) ==
  /\ v < current
  /\ v \notin reclaimed
  /\ \A r \in Readers : borrowed[r] # v
  /\ reclaimed' = reclaimed \cup {v}
  /\ UNCHANGED <<current, borrowed, closed>>

Close ==
  /\ ~closed
  /\ current \notin reclaimed
  /\ \A r \in Readers : borrowed[r] = None
  /\ reclaimed' = reclaimed \cup {current}
  /\ closed' = TRUE
  /\ UNCHANGED <<current, borrowed>>

Next ==
  \/ Publish
  \/ \E r \in Readers : Borrow(r) \/ Return(r)
  \/ \E v \in 0..current : Reclaim(v)
  \/ Close

Spec == Init /\ [][Next]_cellVars
==============================================================================
