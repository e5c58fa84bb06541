---------------------------- MODULE ReorderBuffer ----------------------------
(***************************************************************************)
(* The library's reorder buffer, as reorder_2, reorder_packet and          *)
(* reorder_packet2 use it.  External: a window of `size` sequence numbers  *)
(* from min on, and the ready buffer with what the window was moved past.  *)
(* An mbuf is its sequence number.  The numbers do not wrap, and a list is *)
(* not longer than the window, so the ready buffer is never full.  The pools   *)
(* hold more mbufs than the lists, so no allocation fails.                 *)
(***************************************************************************)
EXTENDS Naturals, Sequences, FiniteSets, FiniteSetsExt

\* rte_reorder_create: min is set by the first insert.
rte_reorder_create(size) ==
  [size |-> size, started |-> FALSE, min |-> 0, order |-> {}, ready |-> <<>>]

\* The first number from x on that is not in the window.
FirstGap(b, x) == Min({y \in x..(x + 2 * b.size) : y \notin b.order})

InOrder(set) ==
  [k \in 1..Cardinality(set) |-> CHOOSE y \in set : Cardinality({z \in set : z < y}) = k - 1]

\* Moves the window at least n numbers on, up to a gap, past what is in it.
fill_overflow(b, n) ==
  LET to == FirstGap(b, b.min + n)
      past == {y \in b.order : y < to}
  IN [b EXCEPT !.min = to, !.order = @ \ past, !.ready = @ \o InOrder(past)]

\* The window after the first number, moved for s if s is too far ahead, is what it is
\* for a number that is refused too.
Moved(b, s) ==
  LET c == IF b.started THEN b ELSE [b EXCEPT !.started = TRUE, !.min = s]
  IN IF s >= c.min + c.size /\ s < c.min + 2 * c.size
     THEN fill_overflow(c, s + 1 - c.min - c.size) ELSE c

\* Whether rte_reorder_insert takes s: a number behind the window is, in unsigned
\* arithmetic, one far ahead of it.
Takes(b, s) == LET c == Moved(b, s) IN s >= c.min /\ s < c.min + c.size

rte_reorder_insert(b, s) ==
  IF Takes(b, s) THEN [Moved(b, s) EXCEPT !.order = @ \cup {s}] ELSE Moved(b, s)

\* rte_reorder_drain, of a buffer with less in it than the caller takes: what is ready,
\* and the window's numbers up to a gap.
Drainable(b) == IF b.started THEN {y \in b.order : y < FirstGap(b, b.min)} ELSE {}

Drained(b) == b.ready \o InOrder(Drainable(b))

rte_reorder_drain(b) ==
  [b EXCEPT !.ready = <<>>, !.min = FirstGap(b, @), !.order = @ \ Drainable(b)]

-------------------------------------------------------------------------------
\* The windows of the three programs, and the numbers in the order they are inserted.
reorder_2_demo == [size |-> 8, arrivals |-> <<0, 2, 1, 4, 3, 6, 5, 7>>]
reorder_packet_demo == [size |-> 16, arrivals |-> <<0, 2, 1, 4, 3>>]
reorder_packet2_demo == [size |-> 4, arrivals |-> <<10, 35, 11, 12>>]
===============================================================================
