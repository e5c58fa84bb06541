------------------------ MODULE PacketPipeline_proofs ------------------------
(***************************************************************************)
(* For every BURST_SIZE, LIMIT and ring capacity, and however many packets *)
(* arrive: the pipeline keeps its bursts and rings within bounds; when the *)
(* rings are roomy no enqueue is short and less than a burst is left when  *)
(* main returns; packets stay in order, each in one place; and the whole   *)
(* is a FIFO that may lose some.                                           *)
(*                                                                         *)
(* The first two are counting (CountInv): as long as no enqueue was short, *)
(* what receive_packet counted is in the first ring or was counted by the  *)
(* parser, and receive_packet stops before it has counted LIMIT packets    *)
(* plus a burst.                                                           *)
(*                                                                         *)
(* The others are about Flow, what has left and what is under way in one   *)
(* list (FlowInv).  A step adds the newest packets behind the others,      *)
(* takes a piece out of it, or leaves it as it is (FlowMoves).             *)
(***************************************************************************)
EXTENDS PacketPipeline, SequenceFacts

(* A burst cut at n. *)
LEMMA Cut ==
  ASSUME NEW S, NEW s \in Seq(S), NEW n \in 0..Len(s)
  PROVE  /\ Take(s, n) \in Seq(S) /\ Len(Take(s, n)) = n
         /\ Drop(s, n) \in Seq(S) /\ Len(Drop(s, n)) = Len(s) - n
<1>1. Len(s) \in Nat /\ \A k \in 1..Len(s) : s[k] \in S
  BY LenProperties, ElementOfSeq
<1>2. /\ SubSeq(s, 1, n) \in Seq(S)
      /\ Len(SubSeq(s, 1, n)) = IF 1 <= n THEN n - 1 + 1 ELSE 0
  BY <1>1, SubSeqProperties
<1>3. /\ SubSeq(s, n + 1, Len(s)) \in Seq(S)
      /\ Len(SubSeq(s, n + 1, Len(s))) = IF n + 1 <= Len(s) THEN Len(s) - (n + 1) + 1 ELSE 0
  BY <1>1, SubSeqProperties
<1> QED
  BY <1>1, <1>2, <1>3 DEF Take, Drop

(* A ring that takes the first n packets of a burst. *)
LEMMA Appended ==
  ASSUME NEW S, NEW ring \in Seq(S), NEW burst \in Seq(S), NEW n \in 0..Len(burst)
  PROVE  /\ ring \o Take(burst, n) \in Seq(S)
         /\ Len(ring \o Take(burst, n)) = Len(ring) + n
<1>1. Take(burst, n) \in Seq(S) /\ Len(Take(burst, n)) = n
  BY Cut
<1> HIDE DEF Take
<1> QED
  BY <1>1, ConcatProperties

(* What is given to rte_pktmbuf_free is part of the burst. *)
LEMMA RefusedSubset ==
  ASSUME NEW S, NEW s \in Seq(S), NEW n \in 0..Len(s)
  PROVE  Refused(s, n) \in SUBSET S
  BY Cut, RangeOfSeq DEF Refused

(* Counts returned by the ring are between 0 and what was asked for. *)
LEMMA Counts ==
  ASSUME NEW S, NEW ring \in Seq(S), capacity \in Capacities, Len(ring) <= capacity,
         NEW n \in Nat
  PROVE  /\ EnqueueCount(ring, n) \in 0..n
         /\ EnqueueCount(ring, n) <= capacity - Len(ring)
         /\ Len(ring) + n <= capacity => EnqueueCount(ring, n) = n
         /\ DequeueCount(ring) \in 0..Len(ring)
         /\ DequeueCount(ring) <= BURST_SIZE
<1>1. Len(ring) \in Nat
  BY LenProperties
<1> QED
  BY <1>1, PipelineAssumption DEF EnqueueCount, DequeueCount, Lesser

(* The rings keep their size. *)
LEMMA SameRings == [Next]_vars => capacity' = capacity /\ RoomyRings' = RoomyRings
<1> SUFFICES ASSUME [Next]_vars PROVE capacity' = capacity
  BY DEF RoomyRings
<1> QED
  BY DEF Next, Rx, Parser, Tx, RxBurst, RxForward, ParserDequeue, ParserForward, TxDequeue,
     TxSend, MainReturn, vars

(* Sequences of packets stay such when more packets have arrived. *)
LEMMA MoreArrived ==
  ASSUME NEW m \in Nat, NEW n \in Nat, m <= n
  PROVE  /\ \A s \in Seq(1..m) : s \in Seq(1..n)
         /\ \A S \in SUBSET (1..m) : S \in SUBSET (1..n)
<1>1. 1..m \subseteq 1..n
  OBVIOUS
<1> QED
  BY <1>1, SeqMonotonic

LEMMA TypeInit == Init => TypeOK
<1> SUFFICES ASSUME Init PROVE TypeOK
  OBVIOUS
<1>1. <<>> \in Seq(Ids) /\ Len(<<>>) = 0
  BY EmptySeq
<1> QED
  BY <1>1, PipelineAssumption DEF Init, TypeOK

(* Every lcore keeps the types and the bounds. *)
LEMMA TypeInductive == TypeOK /\ [Next]_vars => TypeOK'
<1> SUFFICES ASSUME TypeOK, [Next]_vars PROVE TypeOK'
  OBVIOUS
<1>9. capacity' = capacity
  BY SameRings
<1>10. capacity \in Nat
  BY PipelineAssumption DEF TypeOK
<1> USE PipelineAssumption, <1>9, <1>10
<1>0. <<>> \in Seq(Ids) /\ Len(<<>>) = 0
  BY EmptySeq
<1>1. CASE UNCHANGED vars
  BY <1>1 DEF vars, rxVars, parserVars, txVars, TypeOK, Ids
<1>2. CASE RxBurst
  <2>1. PICK nb_rx \in 1..BURST_SIZE :
          /\ rxBuf' = [k \in 1..nb_rx |-> arrived + k]
          /\ arrived' = arrived + nb_rx
    BY <1>2 DEF RxBurst
  <2>2. arrived \in Nat /\ arrived' \in Nat /\ arrived <= arrived'
    BY <2>1 DEF TypeOK
  <2>3. rxBuf' \in Seq(Ids') /\ Len(rxBuf') = nb_rx
    BY <2>1, <2>2 DEF Ids
  <2> QED
    BY <1>2, <2>1, <2>2, <2>3, MoreArrived DEF RxBurst, parserVars, txVars, TypeOK, Ids
<1>3. CASE RxForward
  <2> DEFINE enq == EnqueueCount(rx_to_parser, Len(rxBuf))
  <2>1. Len(rxBuf) \in Nat /\ Len(rx_to_parser) \in Nat
    BY LenProperties DEF TypeOK
  <2>2. enq \in 0..Len(rxBuf) /\ enq <= capacity - Len(rx_to_parser)
    BY <2>1, Counts DEF TypeOK
  <2> HIDE DEF enq
  <2>3. /\ rx_to_parser \o Take(rxBuf, enq) \in Seq(Ids)
        /\ Len(rx_to_parser \o Take(rxBuf, enq)) = Len(rx_to_parser) + enq
    BY <2>2, Appended DEF TypeOK
  <2>4. freed \cup Refused(rxBuf, enq) \in SUBSET Ids
    <3>1. Refused(rxBuf, enq) \in SUBSET Ids
      BY <2>2, RefusedSubset DEF TypeOK
    <3> QED
      BY <3>1 DEF TypeOK
  <2>5. /\ rx_to_parser' = rx_to_parser \o Take(rxBuf, enq)
        /\ freed' = freed \cup Refused(rxBuf, enq)
        /\ rx_packet' = rx_packet + enq
        /\ rxPc' \in {"done", "poll"}
        /\ rxBuf' = <<>>
        /\ UNCHANGED <<arrived, parserVars, parse_to_tx, txVars, mainPc>>
    BY <1>3 DEF RxForward, enq
  <2>6. Ids' = Ids /\ arrived' = arrived
    BY <2>5 DEF Ids
  <2>7. rx_to_parser' \in Seq(Ids) /\ Len(rx_to_parser') <= capacity
    BY <2>1, <2>2, <2>3, <2>5
  <2>8. rx_packet' \in Nat
    BY <2>1, <2>2, <2>5 DEF TypeOK
  <2> QED
    BY <1>0, <2>4, <2>5, <2>6, <2>7, <2>8 DEF parserVars, txVars, TypeOK
<1>4. CASE ParserDequeue
  <2> DEFINE nb_pr == DequeueCount(rx_to_parser)
  <2>1. nb_pr \in 0..Len(rx_to_parser) /\ nb_pr <= BURST_SIZE
    BY Counts DEF TypeOK
  <2> HIDE DEF nb_pr
  <2>2. /\ Take(rx_to_parser, nb_pr) \in Seq(Ids) /\ Len(Take(rx_to_parser, nb_pr)) = nb_pr
        /\ Drop(rx_to_parser, nb_pr) \in Seq(Ids)
        /\ Len(Drop(rx_to_parser, nb_pr)) = Len(rx_to_parser) - nb_pr
    BY <2>1, Cut DEF TypeOK
  <2>3. /\ parserBuf' = Take(rx_to_parser, nb_pr)
        /\ rx_to_parser' = Drop(rx_to_parser, nb_pr)
        /\ pars_packet' = pars_packet + nb_pr
        /\ parserPc' = "forward"
        /\ UNCHANGED <<rxVars, parse_to_tx, txVars, freed, mainPc>>
    BY <1>4 DEF ParserDequeue, nb_pr
  <2>4. Ids' = Ids /\ arrived' = arrived
    BY <2>3 DEF rxVars, Ids
  <2>5. Len(rx_to_parser') <= capacity /\ pars_packet' \in Nat
    BY <2>1, <2>2, <2>3, LenProperties DEF TypeOK
  <2>6. Len(parserBuf') <= BURST_SIZE
    BY <2>1, <2>2, <2>3
  <2> QED
    BY <2>2, <2>3, <2>4, <2>5, <2>6 DEF rxVars, txVars, TypeOK
<1>5. CASE ParserForward
  <2> DEFINE nb_tx == EnqueueCount(parse_to_tx, Len(parserBuf))
  <2>1. Len(parserBuf) \in Nat /\ Len(parse_to_tx) \in Nat
    BY LenProperties DEF TypeOK
  <2>2. nb_tx \in 0..Len(parserBuf) /\ nb_tx <= capacity - Len(parse_to_tx)
    BY <2>1, Counts DEF TypeOK
  <2> HIDE DEF nb_tx
  <2>3. /\ parse_to_tx \o Take(parserBuf, nb_tx) \in Seq(Ids)
        /\ Len(parse_to_tx \o Take(parserBuf, nb_tx)) = Len(parse_to_tx) + nb_tx
    BY <2>2, Appended DEF TypeOK
  <2>4. /\ parse_to_tx' = parse_to_tx \o Take(parserBuf, nb_tx)
        /\ parserPc' \in {"done", "poll"}
        /\ parserBuf' = <<>>
        /\ UNCHANGED <<rxVars, rx_to_parser, pars_packet, txVars, freed, mainPc>>
    BY <1>5 DEF ParserForward, nb_tx
  <2>5. Ids' = Ids /\ arrived' = arrived
    BY <2>4 DEF rxVars, Ids
  <2>6. parse_to_tx' \in Seq(Ids) /\ Len(parse_to_tx') <= capacity
    BY <2>1, <2>2, <2>3, <2>4
  <2> QED
    BY <1>0, <2>4, <2>5, <2>6 DEF rxVars, txVars, TypeOK
<1>6. CASE TxDequeue
  <2> DEFINE nb_tx == DequeueCount(parse_to_tx)
  <2>1. nb_tx \in 0..Len(parse_to_tx) /\ nb_tx <= BURST_SIZE
    BY Counts DEF TypeOK
  <2> HIDE DEF nb_tx
  <2>2. /\ Take(parse_to_tx, nb_tx) \in Seq(Ids) /\ Len(Take(parse_to_tx, nb_tx)) = nb_tx
        /\ Drop(parse_to_tx, nb_tx) \in Seq(Ids)
        /\ Len(Drop(parse_to_tx, nb_tx)) = Len(parse_to_tx) - nb_tx
    BY <2>1, Cut DEF TypeOK
  <2>3. /\ txBuf' = Take(parse_to_tx, nb_tx)
        /\ parse_to_tx' = Drop(parse_to_tx, nb_tx)
        /\ txPc' = "send"
        /\ UNCHANGED <<rxVars, rx_to_parser, parserVars, tx_packet, sent, freed, mainPc>>
    BY <1>6 DEF TxDequeue, nb_tx
  <2>4. Ids' = Ids /\ arrived' = arrived
    BY <2>3 DEF rxVars, Ids
  <2>5. Len(parse_to_tx') <= capacity
    BY <2>1, <2>2, <2>3, LenProperties DEF TypeOK
  <2>6. Len(txBuf') <= BURST_SIZE
    BY <2>1, <2>2, <2>3
  <2> QED
    BY <2>2, <2>3, <2>4, <2>5, <2>6 DEF rxVars, parserVars, TypeOK
<1>7. CASE TxSend
  <2>1. PICK nb_sent \in 0..Len(txBuf) :
          /\ sent' = sent \o Take(txBuf, nb_sent)
          /\ freed' = freed \cup Refused(txBuf, nb_sent)
          /\ tx_packet' = tx_packet + nb_sent
          /\ txPc' \in {"done", "poll"}
          /\ txBuf' = <<>>
          /\ UNCHANGED <<rxVars, rx_to_parser, parserVars, parse_to_tx, mainPc>>
    BY <1>7 DEF TxSend
  <2>2. sent' \in Seq(Ids)
    BY <2>1, Appended DEF TypeOK
  <2>3. freed' \in SUBSET Ids
    <3>1. Refused(txBuf, nb_sent) \in SUBSET Ids
      BY RefusedSubset DEF TypeOK
    <3> QED
      BY <2>1, <3>1 DEF TypeOK
  <2>4. Ids' = Ids /\ arrived' = arrived
    BY <2>1 DEF rxVars, Ids
  <2>5. tx_packet' \in Nat
    BY <2>1, LenProperties DEF TypeOK
  <2> QED
    BY <1>0, <2>1, <2>2, <2>3, <2>4, <2>5 DEF rxVars, parserVars, TypeOK
<1>8. CASE MainReturn
  BY <1>8 DEF MainReturn, rxVars, parserVars, txVars, TypeOK, Ids
<1> QED
  BY <1>1, <1>2, <1>3, <1>4, <1>5, <1>6, <1>7, <1>8 DEF Next, Rx, Parser, Tx

(* Local bursts never exceed BURST_SIZE nor rings their capacity, and every packet *)
(* handled is one that arrived (receive.c, parser.c, transmit.c).                  *)
THEOREM TypeCorrect == Spec => []TypeOK
  BY TypeInit, TypeInductive, PTL DEF Spec

-------------------------------------------------------------------------------
(* Counting *)

\* A burst is held only between the two halves of a loop body.
BurstInv ==
  /\ rxPc # "forward" => rxBuf = <<>>
  /\ parserPc # "forward" => parserBuf = <<>>
  /\ txPc # "send" => txBuf = <<>>

\* Where the counted packets are, if nothing was refused by a ring.
CountInv ==
  /\ rx_packet = Len(rx_to_parser) + pars_packet
  /\ rxPc # "done" => rx_packet < LIMIT
  /\ rx_packet <= LIMIT - 1 + BURST_SIZE
  /\ Len(parse_to_tx) + Len(parserBuf) <= pars_packet
  /\ tx_packet = Len(sent)
  /\ txPc = "done" => tx_packet >= LIMIT
  /\ mainPc = "returned" => rxPc = "done" /\ txPc = "done"
  /\ RoomyRings => arrived = rx_packet + Len(rxBuf)

CInv == TypeOK /\ BurstInv /\ CountInv

(* The initial states satisfy the counting invariant. *)
LEMMA CountInit == Init => CInv
<1> SUFFICES ASSUME Init PROVE CInv
  OBVIOUS
<1>1. Len(<<>>) = 0
  BY EmptySeq
<1> QED
  BY <1>1, TypeInit, PipelineAssumption DEF Init, CInv, BurstInv, CountInv

(* Counting is why no enqueue is short when the rings are roomy. *)
LEMMA CountShort == CInv => EnqueueNeverShort
<1> SUFFICES ASSUME CInv, RoomyRings
             PROVE  /\ rxPc = "forward" => Len(rx_to_parser) + Len(rxBuf) <= capacity
                    /\ parserPc = "forward" => Len(parse_to_tx) + Len(parserBuf) <= capacity
  BY DEF EnqueueNeverShort
<1>1. /\ Len(rx_to_parser) \in Nat /\ Len(rxBuf) \in Nat
      /\ Len(parse_to_tx) \in Nat /\ Len(parserBuf) \in Nat
      /\ rx_packet \in Nat /\ pars_packet \in Nat /\ Len(rxBuf) <= BURST_SIZE
  BY LenProperties DEF CInv, TypeOK
<1>2. /\ rx_packet = Len(rx_to_parser) + pars_packet
      /\ rxPc # "done" => rx_packet < LIMIT
      /\ rx_packet <= LIMIT - 1 + BURST_SIZE
      /\ Len(parse_to_tx) + Len(parserBuf) <= pars_packet
  BY DEF CInv, CountInv
<1>3. LIMIT - 1 + BURST_SIZE <= capacity /\ capacity \in Nat
  BY PipelineAssumption DEF RoomyRings, CInv, TypeOK
<1>4. rxPc = "forward" => Len(rx_to_parser) + Len(rxBuf) <= capacity
  BY <1>1, <1>2, <1>3, PipelineAssumption
<1>5. Len(parse_to_tx) + Len(parserBuf) <= capacity
  BY <1>1, <1>2, <1>3, PipelineAssumption
<1> QED
  BY <1>4, <1>5

(* Every step of every lcore keeps the counts in agreement. *)
LEMMA CountInductive == CInv /\ [Next]_vars => CInv'
<1> SUFFICES ASSUME CInv, [Next]_vars PROVE CInv'
  OBVIOUS
<1> USE PipelineAssumption
<1>1. TypeOK'
  BY TypeInductive DEF CInv
<1>2. Len(<<>>) = 0
  BY EmptySeq
<1>3. /\ Len(rx_to_parser) \in Nat /\ Len(rxBuf) \in Nat /\ Len(parse_to_tx) \in Nat
      /\ Len(parserBuf) \in Nat /\ Len(txBuf) \in Nat /\ Len(sent) \in Nat
      /\ rx_packet \in Nat /\ pars_packet \in Nat /\ tx_packet \in Nat /\ arrived \in Nat
      /\ Len(rxBuf) <= BURST_SIZE
  BY LenProperties DEF CInv, TypeOK
<1> SUFFICES BurstInv' /\ CountInv'
  BY <1>1 DEF CInv
<1>4. BurstInv /\ CountInv /\ (RoomyRings' <=> RoomyRings)
  BY SameRings DEF CInv
<1>5. CASE UNCHANGED vars
  BY <1>4, <1>5 DEF vars, rxVars, parserVars, txVars, BurstInv, CountInv
<1>6. CASE RxBurst
  <2>1. PICK nb_rx \in 1..BURST_SIZE :
          /\ rxBuf' = [k \in 1..nb_rx |-> arrived + k]
          /\ arrived' = arrived + nb_rx
    BY <1>6 DEF RxBurst
  <2>2. Len(rxBuf') = nb_rx /\ arrived' = arrived + nb_rx
    BY <2>1
  <2>3. /\ rxPc = "poll" /\ rxPc' = "forward"
        /\ UNCHANGED <<rx_packet, rx_to_parser, parserVars, parse_to_tx, txVars, mainPc>>
    BY <1>6 DEF RxBurst
  <2>4. BurstInv'
    BY <1>4, <2>3 DEF parserVars, txVars, BurstInv
  <2>5. rxBuf = <<>> /\ Len(rxBuf) = 0
    BY <1>2, <1>4, <2>3 DEF BurstInv
  <2>6. RoomyRings => arrived' = rx_packet' + Len(rxBuf')
    BY <1>3, <1>4, <2>2, <2>3, <2>5 DEF CountInv
  <2>7. CountInv'
    BY <1>3, <1>4, <2>3, <2>6 DEF parserVars, txVars, CountInv
  <2> QED
    BY <2>4, <2>7
<1>7. CASE RxForward
  <2> DEFINE enq == EnqueueCount(rx_to_parser, Len(rxBuf))
  <2>1. /\ enq \in 0..Len(rxBuf)
        /\ RoomyRings => enq = Len(rxBuf)
    BY <1>3, <1>7, CountShort, Counts DEF CInv, TypeOK, EnqueueNeverShort, RxForward
  <2> HIDE DEF enq
  <2>2. Len(rx_to_parser \o Take(rxBuf, enq)) = Len(rx_to_parser) + enq
    BY <2>1, Appended DEF CInv, TypeOK
  <2>3. /\ rx_to_parser' = rx_to_parser \o Take(rxBuf, enq)
        /\ rx_packet' = rx_packet + enq
        /\ rxPc' = IF rx_packet + enq >= LIMIT THEN "done" ELSE "poll"
        /\ rxBuf' = <<>>
        /\ UNCHANGED <<arrived, parserVars, parse_to_tx, txVars, mainPc>>
        /\ rxPc = "forward"
    BY <1>7 DEF RxForward, enq, Reached
  <2>4. BurstInv'
    BY <1>4, <2>3 DEF parserVars, txVars, BurstInv
  <2>5. Len(rxBuf') = 0 /\ rx_packet' = rx_packet + enq /\ arrived' = arrived
    BY <1>2, <2>3
  <2>6. RoomyRings => arrived' = rx_packet' + Len(rxBuf')
    <3>1. RoomyRings => arrived = rx_packet + Len(rxBuf)
      BY <1>4 DEF CountInv
    <3> QED
      BY <1>3, <2>1, <2>5, <3>1
  <2>7. /\ rxPc' # "done" => rx_packet' < LIMIT
        /\ rx_packet' <= LIMIT - 1 + BURST_SIZE
    <3>1. rx_packet < LIMIT
      BY <1>4, <2>3 DEF CountInv
    <3> QED
      BY <1>3, <2>1, <2>3, <3>1
  <2>8. rx_packet' = Len(rx_to_parser') + pars_packet'
    <3>1. rx_packet = Len(rx_to_parser) + pars_packet
      BY <1>4 DEF CountInv
    <3>2. Len(rx_to_parser') = Len(rx_to_parser) + enq
      BY <2>2, <2>3
    <3>3. pars_packet' = pars_packet
      BY <2>3 DEF parserVars
    <3> QED
      BY <1>3, <2>1, <2>5, <3>1, <3>2, <3>3
  <2>9. /\ Len(parse_to_tx') + Len(parserBuf') <= pars_packet'
        /\ tx_packet' = Len(sent')
        /\ txPc' = "done" => tx_packet' >= LIMIT
    BY <1>4, <2>3 DEF parserVars, txVars, CountInv
  <2>10. mainPc' # "returned"
    BY <1>4, <2>3 DEF CountInv
  <2>11. CountInv'
    BY <1>4, <2>6, <2>7, <2>8, <2>9, <2>10 DEF CountInv
  <2> QED
    BY <2>4, <2>11
<1>8. CASE ParserDequeue
  <2> DEFINE nb_pr == DequeueCount(rx_to_parser)
  <2>1. nb_pr \in 0..Len(rx_to_parser)
    BY Counts DEF CInv, TypeOK
  <2> HIDE DEF nb_pr
  <2>2. /\ Len(Take(rx_to_parser, nb_pr)) = nb_pr
        /\ Len(Drop(rx_to_parser, nb_pr)) = Len(rx_to_parser) - nb_pr
    BY <2>1, Cut DEF CInv, TypeOK
  <2>3. /\ parserBuf' = Take(rx_to_parser, nb_pr)
        /\ rx_to_parser' = Drop(rx_to_parser, nb_pr)
        /\ pars_packet' = pars_packet + nb_pr
        /\ parserPc = "poll" /\ parserPc' = "forward"
        /\ UNCHANGED <<rxVars, parse_to_tx, txVars, mainPc>>
    BY <1>8 DEF ParserDequeue, nb_pr
  <2>4. BurstInv'
    BY <1>4, <2>3 DEF rxVars, txVars, BurstInv
  <2>5. parserBuf = <<>> /\ Len(parserBuf) = 0
    BY <1>2, <1>4, <2>3 DEF BurstInv
  <2>6. /\ rx_packet = Len(rx_to_parser) + pars_packet
        /\ Len(parse_to_tx) + Len(parserBuf) <= pars_packet
    BY <1>4 DEF CountInv
  <2>7. /\ rx_packet' = Len(rx_to_parser') + pars_packet'
        /\ Len(parse_to_tx') + Len(parserBuf') <= pars_packet'
    <3>1. /\ Len(rx_to_parser') = Len(rx_to_parser) - nb_pr /\ Len(parserBuf') = nb_pr
          /\ rx_packet' = rx_packet /\ parse_to_tx' = parse_to_tx
          /\ pars_packet' = pars_packet + nb_pr
      BY <2>2, <2>3 DEF rxVars
    <3> QED
      BY <1>3, <2>1, <2>5, <2>6, <3>1
  <2>8. CountInv'
    BY <1>4, <2>3, <2>7 DEF rxVars, txVars, CountInv
  <2> QED
    BY <2>4, <2>8
<1>9. CASE ParserForward
  <2> DEFINE nb_tx == EnqueueCount(parse_to_tx, Len(parserBuf))
  <2>1. nb_tx \in 0..Len(parserBuf)
    BY <1>3, Counts DEF CInv, TypeOK
  <2> HIDE DEF nb_tx
  <2>2. Len(parse_to_tx \o Take(parserBuf, nb_tx)) = Len(parse_to_tx) + nb_tx
    BY <2>1, Appended DEF CInv, TypeOK
  <2>3. /\ parse_to_tx' = parse_to_tx \o Take(parserBuf, nb_tx)
        /\ parserBuf' = <<>>
        /\ UNCHANGED <<rxVars, rx_to_parser, pars_packet, txVars, mainPc>>
    BY <1>9 DEF ParserForward, nb_tx
  <2>4. BurstInv'
    BY <1>4, <2>3 DEF rxVars, txVars, BurstInv
  <2>5. Len(parse_to_tx') + Len(parserBuf') <= pars_packet'
    <3>1. Len(parse_to_tx) + Len(parserBuf) <= pars_packet
      BY <1>4 DEF CountInv
    <3>2. /\ Len(parse_to_tx') = Len(parse_to_tx) + nb_tx
          /\ Len(parserBuf') = 0 /\ pars_packet' = pars_packet
      BY <1>2, <2>2, <2>3
    <3> QED
      BY <1>3, <2>1, <3>1, <3>2
  <2>6. CountInv'
    BY <1>4, <2>3, <2>5 DEF rxVars, txVars, CountInv
  <2> QED
    BY <2>4, <2>6
<1>10. CASE TxDequeue
  <2> DEFINE nb_tx == DequeueCount(parse_to_tx)
  <2>1. nb_tx \in 0..Len(parse_to_tx)
    BY Counts DEF CInv, TypeOK
  <2> HIDE DEF nb_tx
  <2>2. Len(Drop(parse_to_tx, nb_tx)) = Len(parse_to_tx) - nb_tx
    BY <2>1, Cut DEF CInv, TypeOK
  <2>3. /\ parse_to_tx' = Drop(parse_to_tx, nb_tx)
        /\ txPc = "poll" /\ txPc' = "send"
        /\ UNCHANGED <<rxVars, rx_to_parser, parserVars, tx_packet, sent, mainPc>>
    BY <1>10 DEF TxDequeue, nb_tx
  <2>4. BurstInv'
    BY <1>4, <2>3 DEF rxVars, parserVars, BurstInv
  <2>5. Len(parse_to_tx') + Len(parserBuf') <= pars_packet'
    <3>1. Len(parse_to_tx) + Len(parserBuf) <= pars_packet
      BY <1>4 DEF CountInv
    <3>2. /\ Len(parse_to_tx') = Len(parse_to_tx) - nb_tx
          /\ parserBuf' = parserBuf /\ pars_packet' = pars_packet
      BY <2>2, <2>3 DEF parserVars
    <3> QED
      BY <1>3, <2>1, <3>1, <3>2
  <2>6. CountInv'
    BY <1>4, <2>3, <2>5 DEF rxVars, parserVars, CountInv
  <2> QED
    BY <2>4, <2>6
<1>11. CASE TxSend
  <2>1. PICK nb_sent \in 0..Len(txBuf) :
          /\ sent' = sent \o Take(txBuf, nb_sent)
          /\ tx_packet' = tx_packet + nb_sent
          /\ txPc' = IF tx_packet + nb_sent >= LIMIT THEN "done" ELSE "poll"
    BY <1>11 DEF TxSend, Reached
  <2>2. Len(sent') = Len(sent) + nb_sent
    BY <2>1, Appended DEF CInv, TypeOK
  <2>3. /\ txBuf' = <<>> /\ txPc = "send"
        /\ UNCHANGED <<rxVars, rx_to_parser, parserVars, parse_to_tx, mainPc>>
    BY <1>11 DEF TxSend
  <2>4. BurstInv'
    BY <1>4, <2>3 DEF rxVars, parserVars, BurstInv
  <2>5. tx_packet' = Len(sent') /\ (txPc' = "done" => tx_packet' >= LIMIT)
    <3>1. tx_packet = Len(sent)
      BY <1>4 DEF CountInv
    <3> QED
      BY <1>3, <2>1, <2>2, <3>1
  <2>6. mainPc' # "returned"
    BY <1>4, <2>3 DEF CountInv
  <2>7. CountInv'
    BY <1>4, <2>3, <2>5, <2>6 DEF rxVars, parserVars, CountInv
  <2> QED
    BY <2>4, <2>7
<1>12. CASE MainReturn
  BY <1>4, <1>12 DEF MainReturn, rxVars, parserVars, txVars, BurstInv, CountInv
<1> QED
  BY <1>5, <1>6, <1>7, <1>8, <1>9, <1>10, <1>11, <1>12 DEF Next, Rx, Parser, Tx

(* CInv is an invariant of the pipeline. *)
THEOREM Counting == Spec => []CInv
  BY CountInit, CountInductive, PTL DEF Spec

(* With rings that hold LIMIT - 1 + BURST_SIZE packets no enqueue is ever short,  *)
(* whatever the three lcores' speeds (receive.c:22, parser.c:108).                *)
THEOREM NoShortEnqueue == Spec => []EnqueueNeverShort
  BY Counting, CountShort, PTL

(* When main returns, less than one burst of what arrived was not transmitted. *)
THEOREM StrandedLessThanBurst == Spec => []StrandedBounded
<1>1. CInv => StrandedBounded
  <2> SUFFICES ASSUME CInv, RoomyRings, mainPc = "returned"
               PROVE  arrived - Len(sent) < BURST_SIZE
    BY DEF StrandedBounded
  <2>1. rxBuf = <<>> /\ Len(<<>>) = 0
    BY EmptySeq DEF CInv, BurstInv, CountInv
  <2>2. Len(sent) \in Nat
    BY LenProperties DEF CInv, TypeOK
  <2> QED
    BY <2>1, <2>2, PipelineAssumption DEF CInv, TypeOK, CountInv
<1> QED
  BY <1>1, Counting, PTL
-------------------------------------------------------------------------------
(* Order, ownership and the FIFO *)

(* Concatenations of packets, regrouped. *)
LEMMA Regroup ==
  /\ \A s, t \in Seq(Nat) : s \o t \in Seq(Nat)
  /\ \A s, t, u \in Seq(Nat) : (s \o t) \o u = s \o (t \o u)
  /\ \A s \in Seq(Nat) : s \o <<>> = s /\ <<>> \o s = s
<1>1. ASSUME NEW s \in Seq(Nat), NEW t \in Seq(Nat) PROVE s \o t \in Seq(Nat)
  BY ConcatProperties
<1>2. ASSUME NEW s \in Seq(Nat), NEW t \in Seq(Nat), NEW u \in Seq(Nat)
      PROVE  (s \o t) \o u = s \o (t \o u)
  BY ConcatAssociative, SMTT(60)
<1>3. ASSUME NEW s \in Seq(Nat) PROVE s \o <<>> = s /\ <<>> \o s = s
  BY ConcatEmptySeq
<1> QED
  BY <1>1, <1>2, <1>3

\* Concatenation under a name, which the provers do not take apart.
Cat(s, t) == s \o t

(* Concatenation is associative and the empty sequence is its unit. *)
LEMMA CatFacts ==
  /\ \A s, t \in Seq(Nat) : Cat(s, t) \in Seq(Nat)
  /\ \A s, t, u \in Seq(Nat) : Cat(Cat(s, t), u) = Cat(s, Cat(t, u))
  /\ \A s \in Seq(Nat) : Cat(s, <<>>) = s /\ Cat(<<>>, s) = s
  BY Regroup, Zenon DEF Cat

(* The five places of InTransit when one of them is cut into t and d: what a lcore *)
(* takes from a ring or puts into it moves from one side of a cut to the other.    *)
Cat3(a, b, c) == Cat(Cat(a, b), c)
Cat5(a, b, c, d, e) == Cat(Cat(Cat3(a, b, c), d), e)

(* Of a burst of receive_packet t goes into the first ring and d is freed. *)
LEMMA TakenFromRx ==
  ASSUME NEW tx \in Seq(Nat), NEW p \in Seq(Nat), NEW b \in Seq(Nat), NEW r \in Seq(Nat),
         NEW t \in Seq(Nat), NEW d \in Seq(Nat)
  PROVE  /\ Cat5(tx, p, b, r, t) \in Seq(Nat)
         /\ Cat5(tx, p, b, r, Cat(t, d)) = Cat3(Cat5(tx, p, b, r, t), d, <<>>)
         /\ Cat5(tx, p, b, Cat(r, t), <<>>) = Cat(Cat5(tx, p, b, r, t), <<>>)
<1>1. Cat3(tx, p, b) \in Seq(Nat)
  BY CatFacts DEF Cat3
<1>2. Cat(Cat3(tx, p, b), r) \in Seq(Nat) /\ Cat5(tx, p, b, r, t) \in Seq(Nat)
  BY <1>1, CatFacts DEF Cat5
<1>3. Cat5(tx, p, b, Cat(r, t), <<>>) = Cat(Cat5(tx, p, b, r, t), <<>>)
  BY <1>1, CatFacts DEF Cat5
<1>4. Cat5(tx, p, b, r, Cat(t, d)) = Cat(Cat5(tx, p, b, r, t), d)
  BY <1>2, CatFacts DEF Cat5
<1>5. Cat3(Cat5(tx, p, b, r, t), d, <<>>) = Cat(Cat5(tx, p, b, r, t), d)
  BY <1>2, CatFacts DEF Cat3
<1> QED
  BY <1>2, <1>3, <1>4, <1>5

(* The parser takes t from the first ring and leaves d in it. *)
LEMMA TakenFromRing ==
  ASSUME NEW tx \in Seq(Nat), NEW p \in Seq(Nat), NEW t \in Seq(Nat), NEW d \in Seq(Nat),
         NEW rx \in Seq(Nat)
  PROVE  Cat5(tx, p, t, d, rx) = Cat5(tx, p, <<>>, Cat(t, d), rx)
<1>1. Cat(tx, p) \in Seq(Nat)
  BY CatFacts
<1>2. Cat(Cat(Cat(tx, p), t), d) = Cat(Cat(Cat(tx, p), <<>>), Cat(t, d))
  BY <1>1, CatFacts
<1> QED
  BY <1>2 DEF Cat3, Cat5

(* Of a burst of the parser t goes into the second ring and d is dropped. *)
LEMMA TakenFromParser ==
  ASSUME NEW tx \in Seq(Nat), NEW p \in Seq(Nat), NEW r \in Seq(Nat), NEW b \in Seq(Nat),
         NEW t \in Seq(Nat), NEW d \in Seq(Nat)
  PROVE  /\ Cat3(tx, p, t) \in Seq(Nat) /\ Cat(r, b) \in Seq(Nat)
         /\ Cat5(tx, p, Cat(t, d), r, b) = Cat3(Cat3(tx, p, t), d, Cat(r, b))
         /\ Cat5(tx, Cat(p, t), <<>>, r, b) = Cat(Cat3(tx, p, t), Cat(r, b))
<1>1. Cat(tx, p) \in Seq(Nat) /\ Cat3(tx, p, t) \in Seq(Nat) /\ Cat(r, b) \in Seq(Nat)
  BY CatFacts DEF Cat3
<1>2. Cat3(tx, Cat(p, t), <<>>) = Cat3(tx, p, t)
  BY <1>1, CatFacts DEF Cat3
<1>3. Cat3(tx, p, Cat(t, d)) = Cat(Cat3(tx, p, t), d) /\ Cat3(tx, p, Cat(t, d)) \in Seq(Nat)
  BY <1>1, CatFacts DEF Cat3
<1>4. ASSUME NEW w \in Seq(Nat) PROVE Cat(Cat(w, r), b) = Cat(w, Cat(r, b))
  BY CatFacts
<1>5. Cat5(tx, p, Cat(t, d), r, b) = Cat(Cat3(tx, p, Cat(t, d)), Cat(r, b))
  BY <1>3, <1>4 DEF Cat5
<1>6. Cat5(tx, Cat(p, t), <<>>, r, b) = Cat(Cat3(tx, Cat(p, t), <<>>), Cat(r, b))
  BY <1>1, <1>2, <1>4 DEF Cat5
<1>7. Cat3(Cat3(tx, p, t), d, Cat(r, b)) = Cat(Cat(Cat3(tx, p, t), d), Cat(r, b))
  BY DEF Cat3
<1> QED
  BY <1>1, <1>2, <1>3, <1>5, <1>6, <1>7

(* What transmit_packet holds is the oldest of all. *)
LEMMA TakenFromTx ==
  ASSUME NEW tx \in Seq(Nat), NEW p \in Seq(Nat), NEW b \in Seq(Nat), NEW r \in Seq(Nat),
         NEW rx \in Seq(Nat)
  PROVE  /\ Cat5(<<>>, p, b, r, rx) \in Seq(Nat)
         /\ Cat5(tx, p, b, r, rx) = Cat(tx, Cat5(<<>>, p, b, r, rx))
<1>1. Cat(<<>>, p) = p /\ Cat(p, b) \in Seq(Nat) /\ Cat(Cat(p, b), r) \in Seq(Nat)
  BY CatFacts
<1>2. Cat5(<<>>, p, b, r, rx) = Cat(Cat(Cat(p, b), r), rx)
  BY <1>1 DEF Cat3, Cat5
<1>3. Cat3(tx, p, b) = Cat(tx, Cat(p, b))
  BY CatFacts DEF Cat3
<1>4. Cat(Cat3(tx, p, b), r) = Cat(tx, Cat(Cat(p, b), r))
  BY <1>1, <1>3, CatFacts
<1>5. Cat5(tx, p, b, r, rx) = Cat(tx, Cat(Cat(Cat(p, b), r), rx))
  BY <1>1, <1>4, CatFacts DEF Cat5
<1> QED
  BY <1>1, <1>2, <1>5, CatFacts

(* The places of the packets hold numbers. *)
LEMMA Numbers ==
  ASSUME TypeOK
  PROVE  /\ txBuf \in Seq(Nat) /\ parse_to_tx \in Seq(Nat) /\ parserBuf \in Seq(Nat)
         /\ rx_to_parser \in Seq(Nat) /\ rxBuf \in Seq(Nat) /\ sent \in Seq(Nat)
         /\ InTransit \in Seq(Nat)
<1>1. Ids \subseteq Nat
  BY DEF Ids, TypeOK
<1>2. /\ txBuf \in Seq(Nat) /\ parse_to_tx \in Seq(Nat) /\ parserBuf \in Seq(Nat)
      /\ rx_to_parser \in Seq(Nat) /\ rxBuf \in Seq(Nat) /\ sent \in Seq(Nat)
  BY <1>1, SeqMonotonic DEF TypeOK
<1> QED
  BY <1>2, Regroup, Zenon DEF InTransit

(* What a burst or ring gives when it is cut, as two sequences of numbers. *)
LEMMA CutNumbers ==
  ASSUME NEW s \in Seq(Nat), NEW n \in 0..Len(s)
  PROVE  /\ Take(s, n) \in Seq(Nat) /\ Drop(s, n) \in Seq(Nat)
         /\ s = Take(s, n) \o Drop(s, n)
         /\ n = Len(s) => Drop(s, n) = <<>>
<1>1. /\ Take(s, n) \in Seq(Nat) /\ Drop(s, n) \in Seq(Nat)
      /\ s = Take(s, n) \o Drop(s, n)
  BY CutInTwo DEF Take, Drop
<1>2. Len(s) \in Nat
  BY LenProperties
<1>3. n = Len(s) => Drop(s, n) = <<>>
  BY <1>2, SubSeqEmpty DEF Drop
<1> QED
  BY <1>1, <1>3

\* What a step of any lcore does to the packets, seen from the two NIC queues.
Accepts ==
  \E n \in Nat \ {0} :
    /\ arrived' = arrived + n
    /\ InTransit' = Cat(InTransit, [k \in 1..n |-> arrived + k])
    /\ UNCHANGED <<sent, freed>>

Drops ==
  \E x, d, z \in Seq(Nat) :
    /\ InTransit = Cat3(x, d, z)
    /\ InTransit' = Cat(x, z)
    /\ \/ freed' = freed \cup Range(d)
       \/ freed' = freed /\ (RoomyRings => d = <<>>)
    /\ UNCHANGED <<arrived, sent>>

Delivers ==
  \E t, d, r \in Seq(Nat) :
    /\ InTransit = Cat3(t, d, r)
    /\ InTransit' = r
    /\ sent' = Cat(sent, t)
    /\ freed' = freed \cup Range(d)
    /\ UNCHANGED arrived

Stays == UNCHANGED <<arrived, InTransit, sent, freed>>

(* Each of the seven actions is one of these. *)
LEMMA Moves == CInv /\ [Next]_vars => Accepts \/ Drops \/ Delivers \/ Stays
<1> SUFFICES ASSUME CInv, [Next]_vars PROVE Accepts \/ Drops \/ Delivers \/ Stays
  OBVIOUS
<1>0. /\ InTransit = Cat5(txBuf, parse_to_tx, parserBuf, rx_to_parser, rxBuf)
      /\ InTransit' = Cat5(txBuf', parse_to_tx', parserBuf', rx_to_parser', rxBuf')
  BY Zenon DEF InTransit, Cat, Cat3, Cat5
<1>1. /\ txBuf \in Seq(Nat) /\ parse_to_tx \in Seq(Nat) /\ parserBuf \in Seq(Nat)
      /\ rx_to_parser \in Seq(Nat) /\ rxBuf \in Seq(Nat) /\ sent \in Seq(Nat)
      /\ InTransit \in Seq(Nat)
  BY Numbers DEF CInv
<1>2. <<>> \in Seq(Nat)
  BY EmptyOrdered
<1>3. CASE UNCHANGED vars
  BY <1>3 DEF vars, rxVars, parserVars, txVars, Stays, InTransit
<1>4. CASE RxBurst
  <2>1. PICK nb_rx \in 1..BURST_SIZE :
          /\ rxBuf' = [k \in 1..nb_rx |-> arrived + k]
          /\ arrived' = arrived + nb_rx
    BY <1>4 DEF RxBurst
  <2>2. rxBuf = <<>>
    BY <1>4 DEF RxBurst, CInv, BurstInv
  <2>3. InTransit' = Cat(InTransit, rxBuf')
    <3> DEFINE rest == Cat(Cat3(txBuf, parse_to_tx, parserBuf), rx_to_parser)
    <3>1. UNCHANGED <<txBuf, parse_to_tx, parserBuf, rx_to_parser>>
      BY <1>4 DEF RxBurst, parserVars, txVars
    <3>2. Cat3(txBuf, parse_to_tx, parserBuf) \in Seq(Nat)
      BY <1>1, CatFacts DEF Cat3
    <3>3. rest \in Seq(Nat)
      BY <1>1, <3>2, CatFacts
    <3>4. InTransit = Cat(rest, <<>>) /\ InTransit' = Cat(rest, rxBuf')
      BY <1>0, <2>2, <3>1, Zenon DEF Cat5
    <3> HIDE DEF rest
    <3> QED
      BY <3>3, <3>4, CatFacts
  <2>4. nb_rx \in Nat \ {0} /\ UNCHANGED <<sent, freed>>
    BY <1>4, PipelineAssumption DEF RxBurst, txVars
  <2> QED
    BY <2>1, <2>3, <2>4, Zenon DEF Accepts
<1>5. CASE RxForward
  <2> DEFINE enq == EnqueueCount(rx_to_parser, Len(rxBuf))
             t == Take(rxBuf, enq)
             d == Drop(rxBuf, enq)
             x == Cat5(txBuf, parse_to_tx, parserBuf, rx_to_parser, t)
  <2>1. enq \in 0..Len(rxBuf)
    BY Counts, LenProperties DEF CInv, TypeOK
  <2>2. /\ rx_to_parser' = rx_to_parser \o t
        /\ freed' = freed \cup Range(d)
        /\ rxBuf' = <<>>
        /\ UNCHANGED <<arrived, parserVars, parse_to_tx, txVars>>
    BY <1>5 DEF RxForward, Refused
  <2> HIDE DEF enq
  <2>3. t \in Seq(Nat) /\ d \in Seq(Nat) /\ rxBuf = t \o d
    BY <1>1, <2>1, CutNumbers
  <2> HIDE DEF t, d
  <2>4. InTransit = Cat5(txBuf, parse_to_tx, parserBuf, rx_to_parser, Cat(t, d))
    BY <1>0, <2>3, Zenon DEF Cat
  <2>5. InTransit' = Cat5(txBuf, parse_to_tx, parserBuf, Cat(rx_to_parser, t), <<>>)
    BY <1>0, <2>2, Zenon DEF parserVars, txVars, Cat
  <2>6. x \in Seq(Nat) /\ InTransit = Cat3(x, d, <<>>) /\ InTransit' = Cat(x, <<>>)
    <3>1. /\ x \in Seq(Nat)
          /\ Cat5(txBuf, parse_to_tx, parserBuf, rx_to_parser, Cat(t, d)) = Cat3(x, d, <<>>)
          /\ Cat5(txBuf, parse_to_tx, parserBuf, Cat(rx_to_parser, t), <<>>) = Cat(x, <<>>)
      BY <1>1, <2>3, TakenFromRx
    <3> QED
      BY <2>4, <2>5, <3>1, Zenon
  <2> HIDE DEF x
  <2>7. UNCHANGED <<arrived, sent>>
    BY <2>2 DEF txVars
  <2>8. Drops
    BY <1>2, <2>2, <2>3, <2>6, <2>7, Zenon DEF Drops
  <2> QED
    BY <2>8
<1>6. CASE ParserDequeue
  <2> DEFINE nb_pr == DequeueCount(rx_to_parser)
             t == Take(rx_to_parser, nb_pr)
             d == Drop(rx_to_parser, nb_pr)
  <2>1. nb_pr \in 0..Len(rx_to_parser)
    BY Counts DEF CInv, TypeOK
  <2>2. /\ parserBuf' = t /\ rx_to_parser' = d /\ parserBuf = <<>>
        /\ UNCHANGED <<rxVars, parse_to_tx, txVars, freed>>
    BY <1>6 DEF ParserDequeue, CInv, BurstInv
  <2> HIDE DEF nb_pr
  <2>3. t \in Seq(Nat) /\ d \in Seq(Nat) /\ rx_to_parser = t \o d
    BY <1>1, <2>1, CutNumbers
  <2> HIDE DEF t, d
  <2>4. InTransit = Cat5(txBuf, parse_to_tx, <<>>, Cat(t, d), rxBuf)
    BY <1>0, <2>2, <2>3, Zenon DEF Cat
  <2>5. InTransit' = Cat5(txBuf, parse_to_tx, t, d, rxBuf)
    BY <1>0, <2>2, Zenon DEF rxVars, txVars
  <2>6. InTransit' = InTransit
    BY <1>1, <2>3, <2>4, <2>5, TakenFromRing
  <2> QED
    BY <2>2, <2>6 DEF rxVars, txVars, Stays
<1>7. CASE ParserForward
  <2> DEFINE nb_tx == EnqueueCount(parse_to_tx, Len(parserBuf))
             t == Take(parserBuf, nb_tx)
             d == Drop(parserBuf, nb_tx)
             x == Cat3(txBuf, parse_to_tx, t)
             z == Cat(rx_to_parser, rxBuf)
  <2>1. /\ nb_tx \in 0..Len(parserBuf)
        /\ RoomyRings => nb_tx = Len(parserBuf)
    BY <1>7, CountShort, Counts, LenProperties DEF CInv, TypeOK, EnqueueNeverShort, ParserForward
  <2>2. /\ parse_to_tx' = parse_to_tx \o t /\ parserBuf' = <<>>
        /\ UNCHANGED <<rxVars, rx_to_parser, txVars, freed>>
    BY <1>7 DEF ParserForward
  <2> HIDE DEF nb_tx
  <2>3. /\ t \in Seq(Nat) /\ d \in Seq(Nat) /\ parserBuf = t \o d
        /\ RoomyRings => d = <<>>
    BY <1>1, <2>1, CutNumbers
  <2> HIDE DEF t, d
  <2>4. InTransit = Cat5(txBuf, parse_to_tx, Cat(t, d), rx_to_parser, rxBuf)
    BY <1>0, <2>3, Zenon DEF Cat
  <2>5. InTransit' = Cat5(txBuf, Cat(parse_to_tx, t), <<>>, rx_to_parser, rxBuf)
    BY <1>0, <2>2, Zenon DEF rxVars, txVars, Cat
  <2>6. /\ x \in Seq(Nat) /\ z \in Seq(Nat)
        /\ InTransit = Cat3(x, d, z) /\ InTransit' = Cat(x, z)
    <3>1. /\ x \in Seq(Nat) /\ z \in Seq(Nat)
          /\ Cat5(txBuf, parse_to_tx, Cat(t, d), rx_to_parser, rxBuf) = Cat3(x, d, z)
          /\ Cat5(txBuf, Cat(parse_to_tx, t), <<>>, rx_to_parser, rxBuf) = Cat(x, z)
      BY <1>1, <2>3, TakenFromParser
    <3> QED
      BY <2>4, <2>5, <3>1, Zenon
  <2> HIDE DEF x, z
  <2>7. UNCHANGED <<arrived, sent>>
    BY <2>2 DEF rxVars, txVars
  <2>8. Drops
    BY <2>2, <2>3, <2>6, <2>7, Zenon DEF Drops
  <2> QED
    BY <2>8
<1>8. CASE TxDequeue
  <2> DEFINE nb_tx == DequeueCount(parse_to_tx)
             t == Take(parse_to_tx, nb_tx)
             d == Drop(parse_to_tx, nb_tx)
  <2>1. nb_tx \in 0..Len(parse_to_tx)
    BY Counts DEF CInv, TypeOK
  <2>2. /\ txBuf' = t /\ parse_to_tx' = d /\ txBuf = <<>>
        /\ UNCHANGED <<rxVars, rx_to_parser, parserVars, sent, freed>>
    BY <1>8 DEF TxDequeue, CInv, BurstInv
  <2> HIDE DEF nb_tx
  <2>3. t \in Seq(Nat) /\ d \in Seq(Nat) /\ parse_to_tx = t \o d
    BY <1>1, <2>1, CutNumbers
  <2> HIDE DEF t, d
  <2>4. InTransit = Cat5(<<>>, Cat(t, d), parserBuf, rx_to_parser, rxBuf)
    BY <1>0, <2>2, <2>3, Zenon DEF Cat
  <2>5. InTransit' = Cat5(t, d, parserBuf, rx_to_parser, rxBuf)
    BY <1>0, <2>2, Zenon DEF rxVars, parserVars
  <2>6. Cat(<<>>, Cat(t, d)) = Cat(t, d)
    BY <2>3, CatFacts
  <2>7. InTransit' = InTransit
    BY <2>4, <2>5, <2>6, Zenon DEF Cat3, Cat5
  <2> QED
    BY <2>2, <2>7 DEF rxVars, Stays
<1>9. CASE TxSend
  <2>1. PICK nb_sent \in 0..Len(txBuf) :
          /\ sent' = sent \o Take(txBuf, nb_sent)
          /\ freed' = freed \cup Refused(txBuf, nb_sent)
    BY <1>9 DEF TxSend
  <2> DEFINE t == Take(txBuf, nb_sent)
             d == Drop(txBuf, nb_sent)
             r == Cat5(<<>>, parse_to_tx, parserBuf, rx_to_parser, rxBuf)
  <2>2. txBuf' = <<>> /\ UNCHANGED <<rxVars, rx_to_parser, parserVars, parse_to_tx>>
    BY <1>9 DEF TxSend
  <2>3. sent' = Cat(sent, t) /\ freed' = freed \cup Range(d)
    BY <2>1 DEF Refused, Cat
  <2>4. t \in Seq(Nat) /\ d \in Seq(Nat) /\ txBuf = t \o d
    BY <1>1, CutNumbers
  <2> HIDE DEF t, d
  <2>5. InTransit' = r
    BY <1>0, <2>2, Zenon DEF rxVars, parserVars
  <2>6. r \in Seq(Nat) /\ InTransit = Cat3(t, d, r)
    <3>1. r \in Seq(Nat) /\ InTransit = Cat(txBuf, r)
      BY <1>0, <1>1, TakenFromTx
    <3> QED
      BY <2>4, <3>1, Zenon DEF Cat, Cat3
  <2> HIDE DEF r
  <2>7. Delivers
    BY <2>2, <2>3, <2>4, <2>5, <2>6, Zenon DEF rxVars, Delivers
  <2> QED
    BY <2>7
<1>10. CASE MainReturn
  BY <1>10 DEF MainReturn, rxVars, parserVars, txVars, Stays, InTransit
<1> QED
  BY <1>3, <1>4, <1>5, <1>6, <1>7, <1>8, <1>9, <1>10 DEF Next, Rx, Parser, Tx

(* Order and contents of a concatenation. *)
LEMMA CatOrdered ==
  ASSUME NEW s \in Seq(Nat), NEW t \in Seq(Nat)
  PROVE  /\ Cat(s, t) \in Seq(Nat)
         /\ Range(Cat(s, t)) = Range(s) \cup Range(t)
         /\ Increasing(Cat(s, t)) <=> Increasing(s) /\ Increasing(t) /\ Before(Range(s), Range(t))
<1>1. /\ s \o t \in Seq(Nat)
      /\ Range(s \o t) = Range(s) \cup Range(t)
      /\ Increasing(s \o t) <=> Increasing(s) /\ Increasing(t) /\ Before(Range(s), Range(t))
  BY ConcatOrdered
<1> QED
  BY <1>1, Zenon DEF Cat

(* What is left when d is taken out of the middle is in order, and d was nowhere else. *)
LEMMA TakenOut ==
  ASSUME NEW x \in Seq(Nat), NEW d \in Seq(Nat), NEW z \in Seq(Nat),
         Increasing(Cat3(x, d, z))
  PROVE  /\ Increasing(Cat(x, z))
         /\ Range(Cat3(x, d, z)) = Range(Cat(x, z)) \cup Range(d)
         /\ Range(Cat(x, z)) \cap Range(d) = {}
<1> DEFINE w == Cat(x, d)
<1>1. /\ w \in Seq(Nat) /\ Range(w) = Range(x) \cup Range(d)
      /\ Increasing(w) <=> Increasing(x) /\ Increasing(d) /\ Before(Range(x), Range(d))
  BY CatOrdered
<1> HIDE DEF w
<1>2. /\ Range(Cat(w, z)) = Range(w) \cup Range(z)
      /\ Increasing(Cat(w, z)) <=> Increasing(w) /\ Increasing(z) /\ Before(Range(w), Range(z))
  BY <1>1, CatOrdered
<1>3. /\ Range(Cat(x, z)) = Range(x) \cup Range(z)
      /\ Increasing(Cat(x, z)) <=> Increasing(x) /\ Increasing(z) /\ Before(Range(x), Range(z))
  BY CatOrdered
<1>4. Cat3(x, d, z) = Cat(w, z)
  BY DEF Cat3, w
<1>5. /\ Increasing(x) /\ Increasing(z)
      /\ Before(Range(x), Range(d)) /\ Before(Range(w), Range(z))
  BY <1>1, <1>2, <1>4
<1>6. Range(x) \subseteq Nat /\ Range(d) \subseteq Nat /\ Range(z) \subseteq Nat
  BY RangeOfSeq
<1>7. Before(Range(x), Range(z)) /\ Before(Range(d), Range(z))
  BY <1>1, <1>5 DEF Before
<1>8. (Range(x) \cup Range(z)) \cap Range(d) = {}
  <2>1. \A n \in Nat : ~(n < n)
    OBVIOUS
  <2> QED
    BY <1>5, <1>6, <1>7, <2>1 DEF Before
<1> QED
  BY <1>1, <1>2, <1>3, <1>4, <1>5, <1>7, <1>8

(* A burst that comes out of the NIC. *)
LEMMA FreshBurst ==
  ASSUME NEW a \in Nat, NEW n \in Nat
  PROVE  /\ [k \in 1..n |-> a + k] \in Seq(Nat)
         /\ Range([k \in 1..n |-> a + k]) = (a + 1)..(a + n)
         /\ Increasing([k \in 1..n |-> a + k])
<1> DEFINE f == [k \in 1..n |-> a + k]
<1>1. f \in Seq(Nat) /\ Len(f) = n
  BY SMTT(30)
<1>2. \A k \in 1..n : f[k] = a + k
  OBVIOUS
<1>3. Range(f) = {f[k] : k \in 1..n}
  BY <1>1, RangeEquality
<1>4. \A x \in (a + 1)..(a + n) : x - a \in 1..n /\ f[x - a] = x
  BY <1>2
<1> HIDE DEF f
<1>5. Range(f) = (a + 1)..(a + n)
  <2>1. \A x \in Range(f) : x \in (a + 1)..(a + n)
    BY <1>2, <1>3
  <2>2. \A x \in (a + 1)..(a + n) : x \in Range(f)
    BY <1>3, <1>4
  <2> QED
    BY <2>1, <2>2
<1>6. Increasing(f)
  BY <1>1, <1>2 DEF Increasing
<1> QED
  BY <1>1, <1>5, <1>6 DEF f

\* Packets leave in order of arrival and are in one place each; with roomy rings each is
\* in one place or freed.
FlowInv ==
  /\ Increasing(Flow)
  /\ Range(Flow) \cup freed \subseteq Ids
  /\ freed \cap Range(Flow) = {}
  /\ RoomyRings => Ids \subseteq freed \cup Range(Flow)

OInv == CInv /\ FlowInv

(* A step adds the newest packets behind the others, takes some out, or changes nothing. *)
LEMMA FlowMoves ==
  ASSUME CInv, Accepts \/ Drops \/ Delivers \/ Stays
  PROVE  \/ \E n \in Nat \ {0} :
              /\ arrived' = arrived + n
              /\ Flow' = Cat(Flow, [k \in 1..n |-> arrived + k])
              /\ UNCHANGED freed
         \/ \E x, d, z \in Seq(Nat) :
              /\ Flow = Cat3(x, d, z)
              /\ Flow' = Cat(x, z)
              /\ \/ freed' = freed \cup Range(d)
                 \/ freed' = freed /\ (RoomyRings => d = <<>>)
              /\ UNCHANGED arrived
         \/ UNCHANGED <<arrived, Flow, freed>>
<1>1. sent \in Seq(Nat) /\ InTransit \in Seq(Nat)
  BY Numbers DEF CInv
<1>2. Flow = Cat(sent, InTransit) /\ Flow' = Cat(sent', InTransit')
  BY DEF Flow, Cat
<1>3. ASSUME NEW x \in Seq(Nat), NEW d \in Seq(Nat), NEW z \in Seq(Nat)
      PROVE  /\ Cat(sent, x) \in Seq(Nat)
             /\ Cat(sent, Cat3(x, d, z)) = Cat3(Cat(sent, x), d, z)
             /\ Cat(sent, Cat(x, z)) = Cat(Cat(sent, x), z)
  <2>1. Cat(x, d) \in Seq(Nat)
    BY CatFacts
  <2>2. Cat(sent, Cat(Cat(x, d), z)) = Cat(Cat(sent, Cat(x, d)), z)
    BY <1>1, <2>1, CatFacts
  <2> QED
    BY <1>1, <2>2, CatFacts DEF Cat3
<1>9. ASSUME NEW b \in Seq(Nat)
      PROVE  Cat(Cat(sent, InTransit), b) = Cat(sent, Cat(InTransit, b))
  BY <1>1, CatFacts
<1>4. CASE Accepts
  <2>1. PICK n \in Nat \ {0} :
          /\ arrived' = arrived + n
          /\ InTransit' = Cat(InTransit, [k \in 1..n |-> arrived + k])
          /\ UNCHANGED <<sent, freed>>
    BY <1>4, Zenon DEF Accepts
  <2>2. arrived \in Nat
    BY DEF CInv, TypeOK
  <2>3. [k \in 1..n |-> arrived + k] \in Seq(Nat)
    BY <2>2, FreshBurst
  <2> DEFINE new == [k \in 1..n |-> arrived + k]
  <2> HIDE DEF new
  <2>4. Flow' = Cat(Flow, new)
    <3>1. new \in Seq(Nat)
      BY <2>3 DEF new
    <3>2. Cat(Cat(sent, InTransit), new) = Cat(sent, Cat(InTransit, new))
      BY <1>9, <3>1
    <3>3. Flow' = Cat(sent, Cat(InTransit, new))
      BY <1>2, <2>1 DEF new
    <3> QED
      BY <1>2, <3>2, <3>3
  <2> QED
    BY <2>1, <2>4, Zenon DEF new
<1>5. CASE Drops
  <2>1. PICK x, d, z \in Seq(Nat) :
          /\ InTransit = Cat3(x, d, z)
          /\ InTransit' = Cat(x, z)
          /\ \/ freed' = freed \cup Range(d)
             \/ freed' = freed /\ (RoomyRings => d = <<>>)
          /\ UNCHANGED <<arrived, sent>>
    BY <1>5, Zenon DEF Drops
  <2> DEFINE y == Cat(sent, x)
  <2>2. y \in Seq(Nat) /\ Flow = Cat3(y, d, z) /\ Flow' = Cat(y, z)
    <3>1. /\ y \in Seq(Nat) /\ Cat(sent, Cat3(x, d, z)) = Cat3(y, d, z)
          /\ Cat(sent, Cat(x, z)) = Cat(y, z)
      BY <1>3
    <3>2. Flow = Cat(sent, Cat3(x, d, z)) /\ Flow' = Cat(sent, Cat(x, z))
      BY <1>2, <2>1, Zenon
    <3> QED
      BY <3>1, <3>2, Zenon
  <2>3. UNCHANGED arrived
    BY <2>1
  <2> HIDE DEF y
  <2> QED
    BY <2>1, <2>2, <2>3, Zenon
<1>6. CASE Delivers
  <2>1. PICK t, d, r \in Seq(Nat) :
          /\ InTransit = Cat3(t, d, r)
          /\ InTransit' = r
          /\ sent' = Cat(sent, t)
          /\ freed' = freed \cup Range(d)
          /\ UNCHANGED arrived
    BY <1>6, Zenon DEF Delivers
  <2> DEFINE y == Cat(sent, t)
  <2>2. y \in Seq(Nat) /\ Flow = Cat3(y, d, r) /\ Flow' = Cat(y, r)
    <3>1. /\ y \in Seq(Nat) /\ Cat(sent, Cat3(t, d, r)) = Cat3(y, d, r)
          /\ Cat(sent, Cat(t, r)) = Cat(y, r)
      BY <1>3
    <3>2. Flow = Cat(sent, Cat3(t, d, r)) /\ Flow' = Cat(y, r)
      BY <1>2, <2>1, Zenon
    <3> QED
      BY <3>1, <3>2, Zenon
  <2> HIDE DEF y
  <2> QED
    BY <2>1, <2>2, Zenon
<1>7. CASE Stays
  BY <1>7, Zenon DEF Stays, Flow
<1> QED
  BY <1>4, <1>5, <1>6, <1>7

(* Every step keeps the packets in order and in one place. *)
LEMMA FlowInductive == OInv /\ [Next]_vars => OInv'
<1> SUFFICES ASSUME OInv, [Next]_vars PROVE OInv'
  OBVIOUS
<1>1. CInv'
  BY CountInductive DEF OInv
<1>2. arrived \in Nat /\ Flow \in Seq(Nat) /\ RoomyRings' = RoomyRings
  <2>1. sent \in Seq(Nat) /\ InTransit \in Seq(Nat)
    BY Numbers DEF OInv, CInv
  <2>2. arrived \in Nat /\ RoomyRings' = RoomyRings
    BY SameRings DEF OInv, CInv, TypeOK
  <2> QED
    BY <2>1, <2>2, CatFacts, Zenon DEF Flow, Cat
<1>3. CASE \E n \in Nat \ {0} :
             /\ arrived' = arrived + n
             /\ Flow' = Cat(Flow, [k \in 1..n |-> arrived + k])
             /\ UNCHANGED freed
  <2>1. PICK n \in Nat \ {0} :
          /\ arrived' = arrived + n
          /\ Flow' = Cat(Flow, [k \in 1..n |-> arrived + k])
          /\ UNCHANGED freed
    BY <1>3, Zenon
  <2> DEFINE fresh == [k \in 1..n |-> arrived + k]
  <2>2. /\ fresh \in Seq(Nat) /\ Increasing(fresh)
        /\ Range(fresh) = (arrived + 1)..(arrived + n)
    BY <1>2, FreshBurst
  <2> HIDE DEF fresh
  <2>3. /\ Range(Flow') = Range(Flow) \cup Range(fresh)
        /\ Increasing(Flow') <=> Increasing(Flow) /\ Increasing(fresh)
                                   /\ Before(Range(Flow), Range(fresh))
    <3>1. Flow' = Cat(Flow, fresh)
      BY <2>1 DEF fresh
    <3>2. /\ Range(Cat(Flow, fresh)) = Range(Flow) \cup Range(fresh)
          /\ Increasing(Cat(Flow, fresh)) <=> Increasing(Flow) /\ Increasing(fresh)
                                   /\ Before(Range(Flow), Range(fresh))
      BY <1>2, <2>2, CatOrdered
    <3> QED
      BY <3>1, <3>2, Zenon
  <2>4. /\ Ids' = Ids \cup (arrived + 1)..(arrived + n)
        /\ Ids \cap (arrived + 1)..(arrived + n) = {}
        /\ Before(Ids, (arrived + 1)..(arrived + n))
    BY <1>2, <2>1 DEF Ids, Before
  <2>5. Before(Range(Flow), Range(fresh))
    BY <2>2, <2>4 DEF Before, OInv, FlowInv
  <2>6. FlowInv'
    BY <1>2, <2>1, <2>2, <2>3, <2>4, <2>5 DEF OInv, FlowInv
  <2> QED
    BY <1>1, <2>6 DEF OInv
<1>4. CASE \E x, d, z \in Seq(Nat) :
             /\ Flow = Cat3(x, d, z)
             /\ Flow' = Cat(x, z)
             /\ \/ freed' = freed \cup Range(d)
                \/ freed' = freed /\ (RoomyRings => d = <<>>)
             /\ UNCHANGED arrived
  <2>1. PICK x, d, z \in Seq(Nat) :
          /\ Flow = Cat3(x, d, z)
          /\ Flow' = Cat(x, z)
          /\ \/ freed' = freed \cup Range(d)
             \/ freed' = freed /\ (RoomyRings => d = <<>>)
          /\ UNCHANGED arrived
    BY <1>4, Zenon
  <2>2. /\ Increasing(Flow')
        /\ Range(Flow) = Range(Flow') \cup Range(d)
        /\ Range(Flow') \cap Range(d) = {}
    <3>1. Increasing(Cat3(x, d, z))
      BY <2>1 DEF OInv, FlowInv
    <3>2. /\ Increasing(Cat(x, z))
          /\ Range(Cat3(x, d, z)) = Range(Cat(x, z)) \cup Range(d)
          /\ Range(Cat(x, z)) \cap Range(d) = {}
      BY <3>1, TakenOut
    <3> QED
      BY <2>1, <3>2, Zenon
  <2>3. Ids' = Ids
    BY <2>1 DEF Ids
  <2>4. d = <<>> => Range(d) = {}
    BY EmptyOrdered
  <2>5. FlowInv'
    BY <1>2, <2>1, <2>2, <2>3, <2>4 DEF OInv, FlowInv
  <2> QED
    BY <1>1, <2>5 DEF OInv
<1>5. CASE UNCHANGED <<arrived, Flow, freed>>
  BY <1>1, <1>2, <1>5 DEF OInv, FlowInv, Ids
<1> QED
  BY <1>3, <1>4, <1>5, Moves, FlowMoves DEF OInv

(* At the start there is no packet. *)
LEMMA FlowInit == Init => OInv
<1> SUFFICES ASSUME Init PROVE OInv
  OBVIOUS
<1>1. Flow = <<>>
  <2>1. <<>> \o <<>> = <<>>
    BY EmptyOrdered, ConcatEmptySeq
  <2> QED
    BY <2>1, Zenon DEF Init, Flow, InTransit
<1>2. Increasing(Flow) /\ Range(Flow) = {}
  BY <1>1, EmptyOrdered
<1>3. Ids = {}
  BY DEF Ids, Init
<1> QED
  BY <1>2, <1>3, CountInit DEF OInv, FlowInv, Init

(* OInv is an invariant of the pipeline. *)
THEOREM Ordering == Spec => []OInv
  BY FlowInit, FlowInductive, PTL DEF Spec

(* A packet is in one burst, ring or wire position, in order of arrival, and in none   *)
(* once it was freed: the hand-overs of receive.c:21-30, parser.c:97-114 and           *)
(* transmit.c:57-76, for all sizes and speeds of the lcores.                           *)
THEOREM OneOwnerInOrder == Spec => []OrderedSingleOwner
<1>1. OInv => OrderedSingleOwner
  BY DEF OInv, FlowInv, OrderedSingleOwner, Increasing
<1> QED
  BY <1>1, Ordering, PTL

(* With roomy rings no mbuf is lost: the freeing that parser.c:110-114 leaves out is   *)
(* needed by no behaviour.                                                             *)
THEOREM NothingLostIfRoomy == Spec => []NothingLost
<1>1. OInv => NothingLost
  BY DEF OInv, FlowInv, NothingLost
<1> QED
  BY <1>1, Ordering, PTL

-------------------------------------------------------------------------------
(* The refinement *)

(* Cutting the first and the last of three parts out again. *)
LEMMA CutCat3 ==
  ASSUME NEW x \in Seq(Nat), NEW d \in Seq(Nat), NEW z \in Seq(Nat)
  PROVE  /\ Len(Cat3(x, d, z)) = Len(x) + Len(d) + Len(z)
         /\ SubSeq(Cat3(x, d, z), 1, Len(x)) = x
         /\ SubSeq(Cat3(x, d, z), Len(x) + Len(d) + 1, Len(Cat3(x, d, z))) = z
<1>1. LET e == (x \o d) \o z IN
        /\ Len(e) = Len(x) + Len(d) + Len(z)
        /\ SubSeq(e, 1, Len(x)) = x
        /\ SubSeq(e, Len(x) + Len(d) + 1, Len(e)) = z
  BY CutOfThree
<1> QED
  BY <1>1, Zenon DEF Cat3, Cat

(* A step of the pipeline is a step of the lossy FIFO or changes nothing there. *)
LEMMA FifoStep == CInv /\ [Next]_vars => [Fifo!Next]_<<arrived, InTransit, sent>>
<1> SUFFICES ASSUME CInv, [Next]_vars PROVE [Fifo!Next]_<<arrived, InTransit, sent>>
  OBVIOUS
<1>1. InTransit \in Seq(Nat) /\ sent \in Seq(Nat) /\ arrived \in Nat
  BY Numbers DEF CInv, TypeOK
<1>2. CASE Accepts
  <2>1. PICK n \in Nat \ {0} :
          /\ arrived' = arrived + n
          /\ InTransit' = Cat(InTransit, [k \in 1..n |-> arrived + k])
          /\ UNCHANGED <<sent, freed>>
    BY <1>2, Zenon DEF Accepts
  <2>2. arrived' \in Nat /\ arrived' > arrived /\ arrived' - arrived = n
    BY <1>1, <2>1
  <2>3. Fifo!Accept
    BY <2>1, <2>2, Zenon DEF Fifo!Accept, Cat
  <2> QED
    BY <2>3 DEF Fifo!Next
<1>3. CASE Drops
  <2>1. PICK x, d, z \in Seq(Nat) :
          /\ InTransit = Cat3(x, d, z)
          /\ InTransit' = Cat(x, z)
          /\ UNCHANGED <<arrived, sent>>
    BY <1>3, Zenon DEF Drops
  <2>2. Len(x) \in Nat /\ Len(d) \in Nat /\ Len(z) \in Nat
    BY LenProperties
  <2>3. CASE d = <<>>
    <3>1. Cat(x, d) = x
      BY <2>3, CatFacts
    <3>2. InTransit' = InTransit
      BY <2>1, <3>1, Zenon DEF Cat3
    <3> QED
      BY <2>1, <3>2
  <2>4. CASE d # <<>>
    <3> DEFINE i == Len(x) + 1
               j == Len(x) + Len(d)
    <3>1. Len(d) > 0
      BY <2>2, <2>4, EmptySeq
    <3>2. /\ Len(InTransit) = Len(x) + Len(d) + Len(z)
          /\ SubSeq(InTransit, 1, Len(x)) = x
          /\ SubSeq(InTransit, j + 1, Len(InTransit)) = z
      <4>1. Len(Cat3(x, d, z)) = Len(x) + Len(d) + Len(z)
        BY CutCat3
      <4>2. SubSeq(Cat3(x, d, z), 1, Len(x)) = x
        BY CutCat3
      <4>3. SubSeq(Cat3(x, d, z), Len(x) + Len(d) + 1, Len(Cat3(x, d, z))) = z
        BY CutCat3
      <4> QED
        BY <2>1, <4>1, <4>2, <4>3, Zenon
    <3>3. i \in 1..Len(InTransit) /\ j \in i..Len(InTransit) /\ i - 1 = Len(x)
      BY <2>2, <3>1, <3>2
    <3> HIDE DEF i, j
    <3>4. InTransit' = SubSeq(InTransit, 1, i - 1) \o SubSeq(InTransit, j + 1, Len(InTransit))
      BY <2>1, <3>2, <3>3, Zenon DEF Cat
    <3>5. Fifo!Lose
      BY <2>1, <3>3, <3>4, Zenon DEF Fifo!Lose
    <3> QED
      BY <3>5 DEF Fifo!Next
  <2> QED
    BY <2>3, <2>4
<1>4. CASE Delivers
  <2>1. PICK t, d, r \in Seq(Nat) :
          /\ InTransit = Cat3(t, d, r)
          /\ InTransit' = r
          /\ sent' = Cat(sent, t)
          /\ UNCHANGED arrived
    BY <1>4, Zenon DEF Delivers
  <2> DEFINE m == Len(t) + Len(d)
             n == Len(t)
  <2>2. Len(t) \in Nat /\ Len(d) \in Nat /\ Len(r) \in Nat
    BY LenProperties
  <2>3. CASE m = 0
    <3>1. t = <<>> /\ d = <<>>
      BY <2>2, <2>3, EmptySeq
    <3>2. Cat(t, d) = <<>> /\ Cat(sent, t) = sent /\ Cat(<<>>, r) = r
      BY <1>1, <3>1, CatFacts
    <3>3. InTransit' = InTransit /\ sent' = sent
      BY <2>1, <3>2, Zenon DEF Cat3
    <3> QED
      BY <2>1, <3>3
  <2>4. CASE m # 0
    <3>1. /\ Len(InTransit) = Len(t) + Len(d) + Len(r)
          /\ SubSeq(InTransit, 1, n) = t
          /\ SubSeq(InTransit, m + 1, Len(InTransit)) = r
      <4>1. Len(Cat3(t, d, r)) = Len(t) + Len(d) + Len(r)
        BY CutCat3
      <4>2. SubSeq(Cat3(t, d, r), 1, Len(t)) = t
        BY CutCat3
      <4>3. SubSeq(Cat3(t, d, r), Len(t) + Len(d) + 1, Len(Cat3(t, d, r))) = r
        BY CutCat3
      <4> QED
        BY <2>1, <4>1, <4>2, <4>3, Zenon
    <3>2. m \in 1..Len(InTransit) /\ n \in 0..m
      BY <2>2, <2>4, <3>1
    <3>3. sent' = sent \o SubSeq(InTransit, 1, n)
      BY <2>1, <3>1, Zenon DEF Cat
    <3> HIDE DEF m, n
    <3>4. Fifo!Deliver
      BY <2>1, <3>1, <3>2, <3>3, Zenon DEF Fifo!Deliver
    <3> QED
      BY <3>4 DEF Fifo!Next
  <2> QED
    BY <2>3, <2>4
<1>5. CASE Stays
  BY <1>5 DEF Stays
<1> QED
  BY <1>2, <1>3, <1>4, <1>5, Moves

(* Seen from the two NIC queues the three lcores and their rings are a FIFO that may    *)
(* drop packets, never repeat or reorder them.                                          *)
THEOREM PipelineIsFifo == Spec => ImplementsFifo
<1>1. Init => Fifo!Init
  <2> SUFFICES ASSUME Init PROVE Fifo!Init
    OBVIOUS
  <2>1. <<>> \o <<>> = <<>>
    BY EmptyOrdered, ConcatEmptySeq
  <2> QED
    BY <2>1, Zenon DEF Init, InTransit, Fifo!Init
<1>2. CInv /\ [Next]_vars => [Fifo!Next]_Fifo!fifoVars
  BY FifoStep DEF Fifo!fifoVars
<1> QED
  BY <1>1, <1>2, Counting, PTL DEF Spec, ImplementsFifo, Fifo!Spec
===============================================================================
