---------------------------- MODULE PacketPipeline ----------------------------
(***************************************************************************)
(* The three-lcore pipeline of packet_parseer_ring/:                       *)
(*                                                                         *)
(*   NIC -> receive_packet -> rx_to_parser -> packet_parser                *)
(*                          -> parse_to_tx -> transmit_packet -> NIC       *)
(*                                                                         *)
(* Each lcore polls, keeps a local burst `packets`, passes it on, and      *)
(* returns when its own counter reaches LIMIT.  main returns when the      *)
(* three lcores have.  A packet is the number of its arrival; an mbuf is   *)
(* owned by exactly one burst, ring or device at a time, or has been given *)
(* to rte_pktmbuf_free, or is referred to by nobody (lost).  Polls that    *)
(* find nothing change no state and are stuttering steps.                  *)
(*                                                                         *)
(* A definition commented "Fault" is a bug this code could have had; it is *)
(* part of no behaviour, and shows that a property can tell it apart.      *)
(***************************************************************************)
EXTENDS Naturals, Sequences, Functions

CONSTANTS
  BURST_SIZE,   \* length of the local arrays (32 in ring.h)
  LIMIT,        \* the 25 each lcore compares its counter with
  Capacities,   \* usable slots a ring may have (RX_RING_SIZE - 1 = 1023)
  MaxArrivals   \* bound: how many packets the NIC ever hands over

ASSUME PipelineAssumption ==
  /\ BURST_SIZE \in Nat \ {0}
  /\ LIMIT \in Nat \ {0}
  /\ Capacities \subseteq Nat \ {0}
  /\ MaxArrivals \in Nat

VARIABLES
  arrived,        \* packets numbered 1..arrived have come out of the NIC
  rxBuf,          \* `packets` of receive_packet
  rx_to_parser,   \* the first ring
  parserBuf,      \* `packets` of packet_parser
  parse_to_tx,    \* the second ring
  txBuf,          \* `packets` of transmit_packet
  sent,           \* what the NIC accepted for transmission, in order
  freed,          \* what the code gave to rte_pktmbuf_free
  capacity,       \* usable slots of each ring, chosen when they are created
  rx_packet, pars_packet, tx_packet,
  rxPc, parserPc, txPc, mainPc

rxVars     == <<arrived, rxBuf, rx_packet, rxPc>>
parserVars == <<parserBuf, pars_packet, parserPc>>
txVars     == <<txBuf, tx_packet, txPc, sent>>
vars == <<rxVars, rx_to_parser, parserVars, parse_to_tx, txVars, freed, mainPc, capacity>>

Lesser(a, b) == IF a <= b THEN a ELSE b
Take(s, n) == SubSeq(s, 1, n)
Drop(s, n) == SubSeq(s, n + 1, Len(s))

\* How many of n packets rte_ring_enqueue_burst takes: as many as there is room for.
EnqueueCount(ring, n) == Lesser(n, capacity - Len(ring))

\* Fault: the array's length is not passed to rte_ring_dequeue_burst.
DequeueAll(ring) == Len(ring)

\* How many packets rte_ring_dequeue_burst returns into an array of BURST_SIZE.
DequeueCount(ring) == Lesser(BURST_SIZE, Len(ring))

\* Fault: the loop is missing, as it is in the parser.
FreeNothing(burst, n) == {}

\* The loop that frees packets[n..], after n of a burst were taken.
Refused(burst, n) == Range(Drop(burst, n))

\* Faults in the test that ends each lcore's loop.
ReachedLate(n) == n > LIMIT
ReachedExactly(n) == n = LIMIT

Reached(n) == n >= LIMIT

Init ==
  /\ arrived = 0 /\ freed = {} /\ sent = <<>>
  /\ rxBuf = <<>> /\ parserBuf = <<>> /\ txBuf = <<>>
  /\ capacity \in Capacities
  /\ rx_to_parser = <<>> /\ parse_to_tx = <<>>
  /\ rx_packet = 0 /\ pars_packet = 0 /\ tx_packet = 0
  /\ rxPc = "poll" /\ parserPc = "poll" /\ txPc = "poll"
  /\ mainPc = "waiting"

-------------------------------------------------------------------------------
(* receive_packet, lcore 1 *)

\* rte_eth_rx_burst returns nb_rx > 0 packets.
RxBurst ==
  /\ rxPc = "poll"
  /\ \E nb_rx \in 1..BURST_SIZE :
       /\ arrived + nb_rx <= MaxArrivals
       /\ rxBuf' = [k \in 1..nb_rx |-> arrived + k]
       /\ arrived' = arrived + nb_rx
  /\ rxPc' = "forward"
  /\ UNCHANGED <<rx_packet, rx_to_parser, parserVars, parse_to_tx, txVars, freed, mainPc, capacity>>

\* Enqueue what fits, free the rest, count what was enqueued, stop at LIMIT.
RxForward ==
  /\ rxPc = "forward"
  /\ LET enq == EnqueueCount(rx_to_parser, Len(rxBuf))
     IN /\ rx_to_parser' = rx_to_parser \o Take(rxBuf, enq)
        /\ freed' = freed \cup Refused(rxBuf, enq)
        /\ rx_packet' = rx_packet + enq
        /\ rxPc' = IF Reached(rx_packet + enq) THEN "done" ELSE "poll"
  /\ rxBuf' = <<>>
  /\ UNCHANGED <<arrived, parserVars, parse_to_tx, txVars, mainPc, capacity>>

-------------------------------------------------------------------------------
(* packet_parser, lcore 2 *)

\* rte_ring_dequeue_burst returns nb_pr > 0 packets, which are counted at once.
ParserDequeue ==
  /\ parserPc = "poll"
  /\ rx_to_parser # <<>>
  /\ LET nb_pr == DequeueCount(rx_to_parser)
     IN /\ parserBuf' = Take(rx_to_parser, nb_pr)
        /\ rx_to_parser' = Drop(rx_to_parser, nb_pr)
        /\ pars_packet' = pars_packet + nb_pr
  /\ parserPc' = "forward"
  /\ UNCHANGED <<rxVars, parse_to_tx, txVars, freed, mainPc, capacity>>

\* Fault: after a short enqueue the whole burst is tried again.
ParserResend ==
  /\ parserPc = "forward"
  /\ LET nb_tx == EnqueueCount(parse_to_tx, Len(parserBuf))
         complete == nb_tx = Len(parserBuf)
     IN /\ parse_to_tx' = parse_to_tx \o Take(parserBuf, nb_tx)
        /\ parserBuf' = IF complete THEN <<>> ELSE parserBuf
        /\ parserPc' = CASE ~complete -> "forward"
                         [] complete /\ Reached(pars_packet) -> "done"
                         [] OTHER -> "poll"
  /\ UNCHANGED <<rxVars, rx_to_parser, pars_packet, txVars, freed, mainPc, capacity>>

\* Enqueue what fits.  The code that would free the rest is commented out, so
\* what does not fit is referred to by nobody afterwards.
ParserForward ==
  /\ parserPc = "forward"
  /\ LET nb_tx == EnqueueCount(parse_to_tx, Len(parserBuf))
     IN parse_to_tx' = parse_to_tx \o Take(parserBuf, nb_tx)
  /\ parserBuf' = <<>>
  /\ parserPc' = IF Reached(pars_packet) THEN "done" ELSE "poll"
  /\ UNCHANGED <<rxVars, rx_to_parser, pars_packet, txVars, freed, mainPc, capacity>>

-------------------------------------------------------------------------------
(* transmit_packet, lcore 3 *)

TxDequeue ==
  /\ txPc = "poll"
  /\ parse_to_tx # <<>>
  /\ LET nb_tx == DequeueCount(parse_to_tx)
     IN /\ txBuf' = Take(parse_to_tx, nb_tx)
        /\ parse_to_tx' = Drop(parse_to_tx, nb_tx)
  /\ txPc' = "send"
  /\ UNCHANGED <<rxVars, rx_to_parser, parserVars, tx_packet, sent, freed, mainPc, capacity>>

\* Fault: packets are counted when dequeued, as in the commented-out version.
TxCountsDequeued ==
  /\ txPc = "send"
  /\ \E nb_sent \in 0..Len(txBuf) :
       /\ sent' = sent \o Take(txBuf, nb_sent)
       /\ freed' = freed \cup Refused(txBuf, nb_sent)
  /\ tx_packet' = tx_packet + Len(txBuf)
  /\ txPc' = IF Reached(tx_packet + Len(txBuf)) THEN "done" ELSE "poll"
  /\ txBuf' = <<>>
  /\ UNCHANGED <<rxVars, rx_to_parser, parserVars, parse_to_tx, mainPc, capacity>>

\* rte_eth_tx_burst accepts a prefix of the burst; the rest is freed.  Only
\* accepted packets count towards LIMIT.
TxSend ==
  /\ txPc = "send"
  /\ \E nb_sent \in 0..Len(txBuf) :
       /\ sent' = sent \o Take(txBuf, nb_sent)
       /\ freed' = freed \cup Refused(txBuf, nb_sent)
       /\ tx_packet' = tx_packet + nb_sent
       /\ txPc' = IF Reached(tx_packet + nb_sent) THEN "done" ELSE "poll"
  /\ txBuf' = <<>>
  /\ UNCHANGED <<rxVars, rx_to_parser, parserVars, parse_to_tx, mainPc, capacity>>

-------------------------------------------------------------------------------
\* rte_eal_mp_wait_lcore returns once the three lcores have, and main with it.
MainReturn ==
  /\ mainPc = "waiting"
  /\ rxPc = "done" /\ parserPc = "done" /\ txPc = "done"
  /\ mainPc' = "returned"
  /\ UNCHANGED <<rxVars, rx_to_parser, parserVars, parse_to_tx, txVars, freed, capacity>>

Rx == RxBurst \/ RxForward
Parser == ParserDequeue \/ ParserForward
Tx == TxDequeue \/ TxSend

Next == Rx \/ Parser \/ Tx \/ MainReturn

Spec == Init /\ [][Next]_vars

\* Every lcore is a busy loop on a core of its own, and traffic keeps coming
\* while receive_packet polls.
Fairness == WF_vars(Rx) /\ WF_vars(Parser) /\ WF_vars(Tx) /\ WF_vars(MainReturn)
FairSpec == Spec /\ Fairness

-------------------------------------------------------------------------------
(* Properties *)

Ids == 1..arrived

TypeOK ==
  /\ arrived \in Nat /\ capacity \in Capacities
  /\ rxBuf \in Seq(Ids) /\ Len(rxBuf) <= BURST_SIZE
  /\ parserBuf \in Seq(Ids) /\ Len(parserBuf) <= BURST_SIZE
  /\ txBuf \in Seq(Ids) /\ Len(txBuf) <= BURST_SIZE
  /\ rx_to_parser \in Seq(Ids) /\ Len(rx_to_parser) <= capacity
  /\ parse_to_tx \in Seq(Ids) /\ Len(parse_to_tx) <= capacity
  /\ sent \in Seq(Ids)
  /\ freed \in SUBSET Ids
  /\ rx_packet \in Nat /\ pars_packet \in Nat /\ tx_packet \in Nat
  /\ rxPc \in {"poll", "forward", "done"}
  /\ parserPc \in {"poll", "forward", "done"}
  /\ txPc \in {"poll", "send", "done"}
  /\ mainPc \in {"waiting", "returned"}

\* Everything between the two NIC queues, oldest packet first.
InTransit == txBuf \o parse_to_tx \o parserBuf \o rx_to_parser \o rxBuf

\* Everything that left or is inside, in the order in which it left or will.
Flow == sent \o InTransit

\* The burst, ring or wire position of a packet is unique and order is that of
\* arrival: no lcore hands on a packet another one still holds, twice, or out of
\* turn (receive.c:21-30, parser.c:97-108, transmit.c:57-76).  A packet given to
\* rte_pktmbuf_free is in none of these places any more: neither free loop
\* (receive.c:28-30, transmit.c:74-76) is off by one.
OrderedSingleOwner ==
  /\ \A i, j \in 1..Len(Flow) : i < j => Flow[i] < Flow[j]
  /\ freed \cap Range(Flow) = {}

\* LIMIT - 1 + BURST_SIZE is the most receive_packet can enqueue.
RoomyRings == LIMIT - 1 + BURST_SIZE <= capacity

\* Every mbuf is owned by somebody or was freed.  The parser ignores a short
\* enqueue (parser.c:108-114), so this needs rings that hold all RX can accept.
NothingLost == RoomyRings => freed \cup Range(Flow) = Ids

\* With roomy rings no enqueue in the program is ever short, and the
\* freeing code missing from parser.c:110-114 is never needed.
EnqueueNeverShort ==
  RoomyRings =>
    /\ rxPc = "forward" => Len(rx_to_parser) + Len(rxBuf) <= capacity
    /\ parserPc = "forward" => Len(parse_to_tx) + Len(parserBuf) <= capacity

\* When main returns, what was received and not transmitted (left in a ring by
\* lcores that stop at different moments, or refused by the NIC) is less than
\* one burst.
StrandedBounded ==
  (RoomyRings /\ mainPc = "returned") => arrived - Len(sent) < BURST_SIZE

\* transmit_packet waits for more packets than will ever reach it: the parser has
\* returned, and the NIC refused so many that LIMIT is out of reach
\* (transmit.c:71,78 counts only accepted packets).
TxStarved ==
  /\ parserPc = "done"
  /\ tx_packet + Len(txBuf) + Len(parse_to_tx) < LIMIT

\* Once starved the program hangs, main never gets past rte_eal_mp_wait_lcore; and
\* starvation is the only way for main not to return (with smaller rings receive_packet,
\* which counts what it enqueued, may also use up the MaxArrivals packets of the model).
ReturnsUnlessStarved ==
  /\ RoomyRings => <>(mainPc = "returned" \/ TxStarved)
  /\ [](TxStarved => [](mainPc # "returned"))

\* Seen from the two NIC queues the pipeline is a FIFO that may drop packets.
Fifo == INSTANCE LossyFifo WITH
          accepted <- arrived, transit <- InTransit, delivered <- sent
ImplementsFifo == Fifo!Spec
===============================================================================
