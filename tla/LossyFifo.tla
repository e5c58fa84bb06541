------------------------------ MODULE LossyFifo ------------------------------
(***************************************************************************)
(* What a chain of bursts and rings promises about the packets it carries: *)
(* packets enter with increasing numbers, some may be dropped on the way,  *)
(* and those that leave do so in the order in which they entered, each at  *)
(* most once.  The stages of the chain are not visible here.               *)
(***************************************************************************)
EXTENDS Naturals, Sequences

VARIABLES
  accepted,    \* how many packets have entered; they are numbered 1..accepted
  transit,     \* the packets inside, oldest first
  delivered    \* the packets that have left, oldest first

fifoVars == <<accepted, transit, delivered>>

Init ==
  /\ accepted = 0
  /\ transit = <<>>
  /\ delivered = <<>>

\* A burst of fresh packets enters.
Accept ==
  /\ accepted' \in Nat
  /\ accepted' > accepted
  /\ transit' = transit \o [k \in 1..(accepted' - accepted) |-> accepted + k]
  /\ UNCHANGED delivered

\* A contiguous run of packets inside disappears.
Lose ==
  \E i \in 1..Len(transit) : \E j \in i..Len(transit) :
    /\ transit' = SubSeq(transit, 1, i - 1) \o SubSeq(transit, j + 1, Len(transit))
    /\ UNCHANGED <<accepted, delivered>>

\* The m oldest packets go; the first n of them are delivered, the others are dropped.
Deliver ==
  \E m \in 1..Len(transit) : \E n \in 0..m :
    /\ delivered' = delivered \o SubSeq(transit, 1, n)
    /\ transit' = SubSeq(transit, m + 1, Len(transit))
    /\ UNCHANGED accepted

Next == Accept \/ Lose \/ Deliver

Spec == Init /\ [][Next]_fifoVars
==============================================================================
