-------------------------- MODULE RingDuplex_proofs --------------------------
(***************************************************************************)
(* For every heap, every number of rounds and every ring capacity: the two *)
(* processes of full_duplex_2_rings/ own each block once and free it once, *)
(* and the answers come in order.                                          *)
(*                                                                         *)
(* The argument is that the exchange runs in lock step although each       *)
(* process polls on its own: at most one block is in circulation, and the  *)
(* two program counters say where it is and what it holds (Exchange).      *)
(***************************************************************************)
EXTENDS RingDuplex, SequenceFacts

\* The secondary waits for a message, or for a ring, or has only its line to print.
SecWaits == secPc \in {"lookup_ring1", "lookup_ring2", "receive", "replied"}

\* Nothing is allocated or under way.
Quiet == allocated = {} /\ ring1 = <<>> /\ ring2 = <<>>

\* b is the only block there is, and holds v.
Only(b, v) == b \in Blocks /\ allocated = {b} /\ contents[b] = v

\* A block with v is in the first ring or has just been taken from it.
OnItsWay(v) ==
  /\ ring2 = <<>>
  /\ \/ SecWaits /\ \E b \in Blocks : ring1 = <<b>> /\ Only(b, v)
     \/ secPc = "test" /\ ring1 = <<>> /\ Only(val, v)

\* The answer a is being made, or is in the second ring.
Answering(a) ==
  /\ ring1 = <<>>
  /\ \/ secPc = "answer" /\ Quiet /\ res = a
     \/ secPc = "reply" /\ ring2 = <<>> /\ Only(reply, a)
     \/ SecWaits /\ \E b \in Blocks : ring2 = <<b>> /\ Only(b, a)

Exchange ==
  \/ primPc \in {"create", "loop"} /\ SecWaits /\ Quiet
  \/ primPc = "send" /\ SecWaits /\ ring1 = <<>> /\ ring2 = <<>> /\ Only(msg, i)
  \/ primPc \in {"sent", "await"} /\ (OnItsWay(i) \/ Answering(i * 10))
  \/ /\ primPc \in {"got", "free"} /\ SecWaits
     /\ ring1 = <<>> /\ ring2 = <<>> /\ Only(received, i * 10)
  \/ primPc = "stopped" /\ (OnItsWay(Stop) \/ (secPc = "stopped" /\ Quiet))

\* As many answers as rounds that are over, plus the one in hand.
Answered ==
  /\ Len(answers) = IF primPc \in {"got", "free"} THEN i + 1 ELSE i
  /\ \A k \in 1..Len(answers) : answers[k] = (k - 1) * 10

\* A round has begun only if there was one left.
InRound == primPc \in {"send", "sent", "await", "got", "free"} => i < ROUNDS

\* The pointers that are printed are set.
Named ==
  /\ primPc \in {"send", "sent", "await", "got"} => msg \in Blocks
  /\ secPc \in {"reply", "replied"} => reply \in Blocks

DInv == TypeOK /\ Exchange /\ Answered /\ InRound /\ Named

(* A ring that one block goes into and out of. *)
LEMMA OneBlock ==
  ASSUME NEW S, NEW b \in S
  PROVE  /\ <<>> \in Seq(S) /\ Len(<<>>) = 0
         /\ <<b>> \in Seq(S) /\ Len(<<b>>) = 1 /\ <<b>> # <<>>
         /\ Append(<<>>, b) = <<b>> /\ Head(<<b>>) = b /\ Tail(<<b>>) = <<>>
  OBVIOUS

(* The sizes are numbers. *)
LEMMA Sizes == ROUNDS \in Nat /\ CAPACITY \in Nat /\ CAPACITY >= 1
  BY DuplexAssumption

(* What a block may hold. *)
LEMMA ValueFacts == Garbage \in Values /\ Stop \in Int /\ \A v \in Int : v \in Values
  BY DEF Values, Stop

(* The heap after rte_malloc, rte_free and a line that prints a block. *)
LEMMA HeapSteps ==
  ASSUME TypeOK
  PROVE  /\ \A b \in Blocks, v \in Values :
              Malloc(b, v) => /\ allocated' \in SUBSET Blocks
                              /\ contents' \in [Blocks -> Values]
         /\ \A b \in Blocks \cup {NoBlock} :
              Free(b) => /\ allocated' \in SUBSET Blocks
                         /\ contents' \in [Blocks -> Values]
         /\ \A b \in Blocks, line \in {"sent", "got", "answered"} :
              Prints(line, b) => printed' \in [{"sent", "got", "answered"} -> Values]
<1>1. ASSUME NEW b \in Blocks, NEW v \in Values, Malloc(b, v)
      PROVE  allocated' \in SUBSET Blocks /\ contents' \in [Blocks -> Values]
  BY <1>1 DEF Malloc, TypeOK
<1>2. ASSUME NEW b \in Blocks \cup {NoBlock}, Free(b)
      PROVE  allocated' \in SUBSET Blocks /\ contents' \in [Blocks -> Values]
  BY <1>2, ValueFacts DEF Free, TypeOK
<1>3. ASSUME NEW b \in Blocks, NEW line \in {"sent", "got", "answered"}, Prints(line, b)
      PROVE  printed' \in [{"sent", "got", "answered"} -> Values]
  BY <1>3 DEF Prints, TypeOK
<1> QED
  BY <1>1, <1>2, <1>3

(* At the start nothing is under way. *)
LEMMA ExchangeInit == Init => DInv
<1> SUFFICES ASSUME Init PROVE DInv
  OBVIOUS
<1>1. <<>> \in Seq(Blocks) /\ <<>> \in Seq(Values) /\ Len(<<>>) = 0
  BY EmptySeq
<1>2. TypeOK
  <2>1. /\ contents \in [Blocks -> Values]
        /\ printed \in [{"sent", "got", "answered"} -> Values]
    BY ValueFacts DEF Init
  <2>2. 0 \in Values
    BY ValueFacts
  <2> QED
    BY <1>1, <2>1, <2>2, Sizes DEF Init, TypeOK
<1>3. Exchange
  BY DEF Init, Exchange, SecWaits, Quiet
<1>4. Answered /\ InRound /\ Named
  BY <1>1, Sizes DEF Init, Answered, InRound, Named
<1> QED
  BY <1>2, <1>3, <1>4 DEF DInv

(* Where the exchange stands when a process is about to touch a block. *)
LEMMA Standing ==
  ASSUME DInv
  PROVE  /\ primPc \in {"create", "loop"} => SecWaits /\ Quiet
         /\ primPc = "send" => SecWaits /\ ring1 = <<>> /\ ring2 = <<>> /\ Only(msg, i)
         /\ primPc = "await" /\ ring2 # <<>> =>
              /\ SecWaits /\ ring1 = <<>>
              /\ \E b \in Blocks : ring2 = <<b>> /\ Only(b, i * 10)
         /\ primPc \in {"got", "free"} =>
              SecWaits /\ ring1 = <<>> /\ ring2 = <<>> /\ Only(received, i * 10)
         /\ SecWaits /\ ring1 # <<>> =>
              /\ ring2 = <<>> /\ primPc \in {"sent", "await", "stopped"}
              /\ \E b \in Blocks : 
                   ring1 = <<b>> /\ Only(b, IF primPc = "stopped" THEN Stop ELSE i)
         /\ secPc = "test" =>
              /\ ring1 = <<>> /\ ring2 = <<>> /\ primPc \in {"sent", "await", "stopped"}
              /\ Only(val, IF primPc = "stopped" THEN Stop ELSE i)
         /\ secPc = "answer" => primPc \in {"sent", "await"} /\ Quiet /\ res = i * 10
         /\ secPc = "reply" =>
              /\ primPc \in {"sent", "await"} /\ ring1 = <<>> /\ ring2 = <<>>
              /\ Only(reply, i * 10)
  BY DEF DInv, TypeOK, Exchange, OnItsWay, Answering, SecWaits, Quiet

(* Every step of either process keeps the types. *)
LEMMA TypeStep == DInv /\ [Next]_vars => TypeOK'
<1> SUFFICES ASSUME DInv, [Next]_vars PROVE TypeOK'
  OBVIOUS
<1> USE DEF TypeOK, PrimGoes, SecGoes, heapVars, rings, primVars, secVars
<1>0. TypeOK
  BY DEF DInv
<1>1. CASE CreateRing
  BY <1>0, <1>1 DEF CreateRing
<1>2. CASE MakeMessage
  <2>1. PICK b \in Blocks : Malloc(b, i) /\ msg' = b
    BY <1>2 DEF MakeMessage
  <2>2. i \in Values
    <3>1. i \in Int
      BY <1>0, Sizes
    <3> QED
      BY <3>1, ValueFacts, Zenon
  <2>3. allocated' \in SUBSET Blocks /\ contents' \in [Blocks -> Values]
    BY <1>0, <2>1, <2>2, HeapSteps
  <2> QED
    BY <1>0, <1>2, <2>1, <2>3 DEF MakeMessage
<1>3. CASE SendMessage
  <2>1. ring1 = <<>> /\ msg \in Blocks
    BY <1>3, Standing DEF SendMessage, Only
  <2>2. ring1' \in Seq(Blocks) /\ Len(ring1') = 1
    BY <1>3, <2>1, OneBlock DEF SendMessage
  <2> QED
    BY <1>0, <1>3, <2>2, Sizes DEF SendMessage
<1>4. CASE PrintSent
  <2>1. printed' \in [{"sent", "got", "answered"} -> Values]
    BY <1>0, <1>4, HeapSteps DEF PrintSent, DInv, Named
  <2> QED
    BY <1>0, <1>4, <2>1 DEF PrintSent
<1>5. CASE AwaitReply
  <2>1. PICK b \in Blocks : ring2 = <<b>>
    BY <1>5, Standing DEF AwaitReply
  <2>2. ring2' \in Seq(Blocks) /\ Len(ring2') = 0 /\ received' = b /\ contents[b] \in Values
    BY <1>0, <1>5, <2>1, OneBlock DEF AwaitReply
  <2>3. answers' \in Seq(Values)
    BY <1>0, <1>5, <2>1, <2>2, AppendProperties, OneBlock DEF AwaitReply
  <2> QED
    BY <1>0, <1>5, <2>2, <2>3, Sizes DEF AwaitReply
<1>6. CASE PrintGot
  <2>1. printed' \in [{"sent", "got", "answered"} -> Values]
    BY <1>0, <1>6, HeapSteps DEF PrintGot, DInv, Named
  <2> QED
    BY <1>0, <1>6, <2>1 DEF PrintGot
<1>7. CASE FreeReceived
  <2>1. allocated' \in SUBSET Blocks /\ contents' \in [Blocks -> Values]
    BY <1>0, <1>7, HeapSteps DEF FreeReceived
  <2>2. i' \in 0..ROUNDS
    BY <1>0, <1>7, Sizes DEF FreeReceived, DInv, InRound
  <2> QED
    BY <1>0, <1>7, <2>1, <2>2 DEF FreeReceived
<1>8. CASE SendStop
  <2>1. PICK b \in Blocks :
          /\ Malloc(b, Stop)
          /\ ring1' = IF Len(ring1) < CAPACITY THEN Append(ring1, b) ELSE ring1
    BY <1>8 DEF SendStop
  <2>2. allocated' \in SUBSET Blocks /\ contents' \in [Blocks -> Values]
    BY <1>0, <2>1, HeapSteps, ValueFacts
  <2>3. ring1 = <<>>
    BY <1>8, Standing DEF SendStop, Quiet
  <2>4. ring1' \in Seq(Blocks) /\ Len(ring1') = 1
    BY <2>1, <2>3, OneBlock, Sizes
  <2> QED
    BY <1>0, <1>8, <2>2, <2>4, Sizes DEF SendStop
<1>9. CASE LookupRing1
  BY <1>0, <1>9 DEF LookupRing1
<1>10. CASE LookupRing2
  BY <1>0, <1>10 DEF LookupRing2
<1>11. CASE TakeMessage
  <2>1. PICK b \in Blocks : ring1 = <<b>>
    BY <1>11, Standing DEF TakeMessage, SecWaits
  <2>2. ring1' \in Seq(Blocks) /\ Len(ring1') = 0 /\ val' = b
    BY <1>11, <2>1, OneBlock DEF TakeMessage
  <2> QED
    BY <1>0, <1>11, <2>2, Sizes DEF TakeMessage
<1>12. CASE StopOnSentinel
  <2>1. allocated' \in SUBSET Blocks /\ contents' \in [Blocks -> Values]
    BY <1>0, <1>12, HeapSteps DEF StopOnSentinel
  <2> QED
    BY <1>0, <1>12, <2>1 DEF StopOnSentinel
<1>13. CASE Consume
  <2>1. allocated' \in SUBSET Blocks /\ contents' \in [Blocks -> Values]
    BY <1>0, <1>13, HeapSteps DEF Consume
  <2>2. contents[val] \in Int
    BY <1>0, <1>13, Standing, ValueFacts DEF Consume, Only
  <2>3. res' \in Values
    BY <1>13, <2>2, ValueFacts DEF Consume
  <2> QED
    BY <1>0, <1>13, <2>1, <2>3 DEF Consume
<1>14. CASE MakeReply
  <2>1. PICK b \in Blocks : Malloc(b, res) /\ reply' = b
    BY <1>14 DEF MakeReply
  <2>2. allocated' \in SUBSET Blocks /\ contents' \in [Blocks -> Values]
    BY <1>0, <2>1, HeapSteps
  <2> QED
    BY <1>0, <1>14, <2>1, <2>2 DEF MakeReply
<1>15. CASE SendReply
  <2>1. ring2 = <<>> /\ reply \in Blocks
    BY <1>15, Standing DEF SendReply, Only
  <2>2. ring2' \in Seq(Blocks) /\ Len(ring2') = 1
    BY <1>15, <2>1, OneBlock DEF SendReply
  <2> QED
    BY <1>0, <1>15, <2>2, Sizes DEF SendReply
<1>16. CASE PrintAnswered
  <2>1. printed' \in [{"sent", "got", "answered"} -> Values]
    BY <1>0, <1>16, HeapSteps DEF PrintAnswered, DInv, Named
  <2> QED
    BY <1>0, <1>16, <2>1 DEF PrintAnswered
<1>17. CASE UNCHANGED vars
  BY <1>0, <1>17 DEF vars
<1> QED
  BY <1>1, <1>2, <1>3, <1>4, <1>5, <1>6, <1>7, <1>8, <1>9, <1>10, <1>11, <1>12,
     <1>13, <1>14, <1>15, <1>16, <1>17 DEF Next, Primary, Secondary

(* Every step moves the one block on, or makes it, or frees it. *)
LEMMA ExchangeStep == DInv /\ [Next]_vars => Exchange'
<1> SUFFICES ASSUME DInv, [Next]_vars PROVE Exchange'
  OBVIOUS
<1> USE DEF PrimGoes, SecGoes, heapVars, rings, primVars, secVars
<1>0. Exchange /\ TypeOK
  BY DEF DInv
<1>1. CASE CreateRing
  BY <1>1, Standing DEF CreateRing, Exchange, SecWaits, Quiet
<1>2. CASE MakeMessage
  <2>1. PICK b \in Blocks : Malloc(b, i) /\ msg' = b
    BY <1>2 DEF MakeMessage
  <2>2. allocated = {} /\ SecWaits /\ ring1 = <<>> /\ ring2 = <<>>
    BY <1>2, Standing DEF MakeMessage, Quiet
  <2>3. allocated' = {b} /\ contents'[b] = i
    BY <1>0, <2>1, <2>2 DEF Malloc, TypeOK
  <2> QED
    BY <1>2, <2>1, <2>2, <2>3 DEF MakeMessage, Exchange, SecWaits, Only
<1>3. CASE SendMessage
  <2>1. SecWaits /\ ring1 = <<>> /\ ring2 = <<>> /\ Only(msg, i)
    BY <1>3, Standing DEF SendMessage
  <2>2. ring1' = <<msg>>
    BY <1>3, <2>1, OneBlock DEF SendMessage, Only
  <2>3. OnItsWay(i)'
    BY <1>3, <2>1, <2>2 DEF SendMessage, OnItsWay, SecWaits, Only
  <2> QED
    BY <1>3, <2>3 DEF SendMessage, Exchange
<1>4. CASE PrintSent
  <2>1. OnItsWay(i) \/ Answering(i * 10)
    BY <1>0, <1>4 DEF PrintSent, Exchange
  <2>2. (OnItsWay(i) \/ Answering(i * 10))'
    BY <1>4, <2>1 DEF PrintSent, OnItsWay, Answering, SecWaits, Only, Quiet
  <2> QED
    BY <1>4, <2>2 DEF PrintSent, Exchange
<1>5. CASE AwaitReply
  <2>1. SecWaits /\ ring1 = <<>>
    BY <1>5, Standing DEF AwaitReply
  <2>2. PICK b \in Blocks : ring2 = <<b>> /\ Only(b, i * 10)
    BY <1>5, Standing DEF AwaitReply
  <2>3. received' = b /\ ring2' = <<>>
    BY <1>5, <2>2, OneBlock DEF AwaitReply
  <2> QED
    BY <1>5, <2>1, <2>2, <2>3 DEF AwaitReply, Exchange, SecWaits, Only
<1>6. CASE PrintGot
  BY <1>6, Standing DEF PrintGot, Exchange, SecWaits, Only
<1>7. CASE FreeReceived
  <2>1. SecWaits /\ ring1 = <<>> /\ ring2 = <<>> /\ allocated = {received}
    BY <1>7, Standing DEF FreeReceived, Only
  <2>2. allocated' = {}
    BY <1>7, <2>1 DEF FreeReceived, Free
  <2> QED
    BY <1>7, <2>1, <2>2 DEF FreeReceived, Exchange, SecWaits, Quiet
<1>8. CASE SendStop
  <2>1. PICK b \in Blocks :
          /\ Malloc(b, Stop)
          /\ ring1' = IF Len(ring1) < CAPACITY THEN Append(ring1, b) ELSE ring1
    BY <1>8 DEF SendStop
  <2>2. SecWaits /\ allocated = {} /\ ring1 = <<>> /\ ring2 = <<>>
    BY <1>8, Standing DEF SendStop, Quiet
  <2>3. ring1' = <<b>>
    BY <2>1, <2>2, OneBlock, Sizes
  <2>4. allocated' = {b} /\ contents'[b] = Stop
    BY <1>0, <2>1, <2>2 DEF Malloc, TypeOK
  <2>5. OnItsWay(Stop)'
    BY <1>8, <2>2, <2>3, <2>4 DEF SendStop, OnItsWay, SecWaits, Only, Stop
  <2> QED
    BY <1>8, <2>5 DEF SendStop, Exchange
<1>9. CASE LookupRing1
  BY <1>0, <1>9 DEF LookupRing1, Exchange, OnItsWay, Answering, SecWaits, Only, Quiet
<1>10. CASE LookupRing2
  BY <1>0, <1>10 DEF LookupRing2, Exchange, OnItsWay, Answering, SecWaits, Only, Quiet
<1>11. CASE TakeMessage
  <2>1. ring2 = <<>> /\ primPc \in {"sent", "await", "stopped"}
    BY <1>11, Standing DEF TakeMessage, SecWaits
  <2>2. PICK b \in Blocks : ring1 = <<b>> /\ Only(b, IF primPc = "stopped" THEN Stop ELSE i)
    BY <1>11, Standing DEF TakeMessage, SecWaits
  <2>3. val' = b /\ ring1' = <<>>
    BY <1>11, <2>2, OneBlock DEF TakeMessage
  <2> QED
    BY <1>11, <2>1, <2>2, <2>3 DEF TakeMessage, Exchange, OnItsWay, Only, Stop
<1>12. CASE StopOnSentinel
  <2>1. /\ ring1 = <<>> /\ ring2 = <<>> /\ primPc \in {"sent", "await", "stopped"}
        /\ Only(val, IF primPc = "stopped" THEN Stop ELSE i)
    BY <1>12, Standing DEF StopOnSentinel
  <2>2. primPc = "stopped"
    BY <1>0, <1>12, <2>1, Sizes DEF StopOnSentinel, Only, Stop, TypeOK
  <2>3. allocated' = {}
    BY <1>12, <2>1 DEF StopOnSentinel, Free, Only
  <2> QED
    BY <1>12, <2>1, <2>2, <2>3 DEF StopOnSentinel, Exchange, Quiet
<1>13. CASE Consume
  <2>1. /\ ring1 = <<>> /\ ring2 = <<>> /\ primPc \in {"sent", "await", "stopped"}
        /\ Only(val, IF primPc = "stopped" THEN Stop ELSE i)
    BY <1>13, Standing DEF Consume
  <2>2. primPc \in {"sent", "await"} /\ contents[val] = i
    BY <1>13, <2>1 DEF Consume, Only
  <2>3. allocated' = {}
    BY <1>13, <2>1 DEF Consume, Free, Only
  <2> QED
    BY <1>13, <2>1, <2>2, <2>3 DEF Consume, Exchange, Answering, Quiet
<1>14. CASE MakeReply
  <2>1. PICK b \in Blocks : Malloc(b, res) /\ reply' = b
    BY <1>14 DEF MakeReply
  <2>2. primPc \in {"sent", "await"} /\ Quiet /\ res = i * 10
    BY <1>14, Standing DEF MakeReply
  <2>3. allocated' = {b} /\ contents'[b] = res
    BY <1>0, <2>1, <2>2 DEF Malloc, TypeOK, Quiet
  <2>4. Answering(i * 10)'
    BY <1>14, <2>1, <2>2, <2>3 DEF MakeReply, Answering, Quiet, Only
  <2> QED
    BY <1>14, <2>2, <2>4 DEF MakeReply, Exchange
<1>15. CASE SendReply
  <2>1. /\ primPc \in {"sent", "await"} /\ ring1 = <<>> /\ ring2 = <<>>
        /\ Only(reply, i * 10)
    BY <1>15, Standing DEF SendReply
  <2>2. ring2' = <<reply>>
    BY <1>15, <2>1, OneBlock DEF SendReply, Only
  <2>3. Answering(i * 10)'
    BY <1>15, <2>1, <2>2 DEF SendReply, Answering, SecWaits, Only
  <2> QED
    BY <1>15, <2>1, <2>3 DEF SendReply, Exchange
<1>16. CASE PrintAnswered
  BY <1>0, <1>16 DEF PrintAnswered, Exchange, OnItsWay, Answering, SecWaits, Only, Quiet
<1>17. CASE UNCHANGED vars
  BY <1>0, <1>17 DEF vars, Exchange, OnItsWay, Answering, SecWaits, Only, Quiet
<1> QED
  BY <1>1, <1>2, <1>3, <1>4, <1>5, <1>6, <1>7, <1>8, <1>9, <1>10, <1>11, <1>12,
     <1>13, <1>14, <1>15, <1>16, <1>17 DEF Next, Primary, Secondary

(* Rounds, answers and the pointers that are printed. *)
LEMMA RoundStep == DInv /\ [Next]_vars => Answered' /\ InRound' /\ Named'
<1> SUFFICES ASSUME DInv, [Next]_vars PROVE Answered' /\ InRound' /\ Named'
  OBVIOUS
<1> USE DEF PrimGoes, SecGoes, heapVars, rings, primVars, secVars, Answered, InRound, Named
<1>0. Answered /\ InRound /\ Named /\ TypeOK
  BY DEF DInv
<1>1. CASE CreateRing
  BY <1>0, <1>1 DEF CreateRing
<1>2. CASE MakeMessage
  BY <1>0, <1>2 DEF MakeMessage
<1>3. CASE SendMessage
  BY <1>0, <1>3 DEF SendMessage
<1>4. CASE PrintSent
  BY <1>0, <1>4 DEF PrintSent
<1>5. CASE AwaitReply
  <2>1. PICK b \in Blocks : ring2 = <<b>> /\ Only(b, i * 10)
    BY <1>5, Standing DEF AwaitReply
  <2>2. Head(ring2) = b
    BY <2>1, OneBlock
  <2>3. answers' = Append(answers, i * 10) /\ i * 10 \in Values
    BY <1>0, <1>5, <2>1, <2>2 DEF AwaitReply, Only, TypeOK
  <2>4. Len(answers) = i /\ i \in Nat
    BY <1>0, <1>5, Sizes DEF AwaitReply, TypeOK
  <2>5. /\ Len(answers') = i + 1
        /\ \A k \in 1..Len(answers) : answers'[k] = answers[k]
        /\ answers'[i + 1] = i * 10
    BY <1>0, <2>3, <2>4, AppendProperties DEF TypeOK
  <2>6. Answered'
    <3>1. \A k \in 1..i : answers'[k] = (k - 1) * 10
      BY <1>0, <1>5, <2>4, <2>5 DEF AwaitReply
    <3>2. answers'[i + 1] = ((i + 1) - 1) * 10 /\ 1..(i + 1) = 1..i \cup {i + 1}
      BY <2>4, <2>5
    <3>3. \A k \in 1..(i + 1) : answers'[k] = (k - 1) * 10
      BY <3>1, <3>2
    <3>4. primPc' = "got" /\ i' = i
      BY <1>5 DEF AwaitReply
    <3> QED
      BY <2>5, <3>3, <3>4
  <2> QED
    BY <1>0, <1>5, <2>6 DEF AwaitReply
<1>6. CASE PrintGot
  BY <1>0, <1>6 DEF PrintGot
<1>7. CASE FreeReceived
  BY <1>0, <1>7 DEF FreeReceived
<1>8. CASE SendStop
  BY <1>0, <1>8 DEF SendStop
<1>9. CASE LookupRing1
  BY <1>0, <1>9 DEF LookupRing1
<1>10. CASE LookupRing2
  BY <1>0, <1>10 DEF LookupRing2
<1>11. CASE TakeMessage
  BY <1>0, <1>11 DEF TakeMessage
<1>12. CASE StopOnSentinel
  BY <1>0, <1>12 DEF StopOnSentinel
<1>13. CASE Consume
  BY <1>0, <1>13 DEF Consume
<1>14. CASE MakeReply
  BY <1>0, <1>14 DEF MakeReply
<1>15. CASE SendReply
  BY <1>0, <1>15 DEF SendReply
<1>16. CASE PrintAnswered
  BY <1>0, <1>16 DEF PrintAnswered
<1>17. CASE UNCHANGED vars
  BY <1>0, <1>17 DEF vars
<1> QED
  BY <1>1, <1>2, <1>3, <1>4, <1>5, <1>6, <1>7, <1>8, <1>9, <1>10, <1>11, <1>12,
     <1>13, <1>14, <1>15, <1>16, <1>17 DEF Next, Primary, Secondary

(* DInv is an invariant of the exchange. *)
THEOREM LockStep == Spec => []DInv
<1>1. DInv /\ [Next]_vars => DInv'
  BY TypeStep, ExchangeStep, RoundStep DEF DInv
<1> QED
  BY <1>1, ExchangeInit, PTL DEF Spec

(* Rings within their capacity, pointers to blocks or unset (prim.c, sec.c). *)
THEOREM DuplexTypes == Spec => []TypeOK
<1>1. DInv => TypeOK
  BY DEF DInv
<1> QED
  BY <1>1, LockStep, PTL

(* The k-th block the primary receives holds ten times the k-th message, and the stop    *)
(* message, whose enqueue is not checked (prim.c:67), is never refused.                  *)
THEOREM AnswersComeInOrder == Spec => []AnswersInOrder
<1>1. DInv => AnswersInOrder
  <2> SUFFICES ASSUME DInv PROVE AnswersInOrder
    OBVIOUS
  <2>1. \A k \in 1..Len(answers) : answers[k] = 10 * (k - 1)
    <3>1. \A k \in 1..Len(answers) : answers[k] = (k - 1) * 10
      BY DEF DInv, Answered
    <3>2. \A k \in Int : (k - 1) * 10 = 10 * (k - 1)
      OBVIOUS
    <3>3. Len(answers) \in Nat
      BY LenProperties DEF DInv, TypeOK
    <3> QED
      BY <3>1, <3>2, <3>3
  <2>2. ASSUME primPc = "stopped", secPc # "stopped"
        PROVE  \E b \in Range(ring1) \cup (IF secPc = "test" THEN {val} ELSE {}) :
                 contents[b] = Stop
    <3>1. OnItsWay(Stop)
      BY <2>2 DEF DInv, Exchange
    <3>2. CASE secPc = "test" /\ Only(val, Stop)
      BY <3>2 DEF Only
    <3>3. CASE \E b \in Blocks : ring1 = <<b>> /\ Only(b, Stop)
      <4>1. PICK b \in Blocks : ring1 = <<b>> /\ contents[b] = Stop
        BY <3>3 DEF Only
      <4>2. b \in Range(ring1)
        <5>1. <<b>> \in Seq(Blocks) /\ Len(<<b>>) = 1 /\ <<b>>[1] = b
          OBVIOUS
        <5>2. Range(<<b>>) = {<<b>>[k] : k \in 1..1}
          BY <5>1, RangeEquality
        <5> QED
          BY <4>1, <5>1, <5>2
      <4> QED
        BY <4>1, <4>2
    <3> QED
      BY <3>1, <3>2, <3>3 DEF OnItsWay
  <2> QED
    BY <2>1, <2>2 DEF AnswersInOrder
<1> QED
  BY <1>1, LockStep, PTL

(* One block, or none, put behind nothing or before nothing. *)
LEMMA Empties ==
  ASSUME NEW s \in Seq(Blocks \cup {NoBlock})
  PROVE  s \o <<>> = s /\ <<>> \o s = s
  BY ConcatEmptySeq

(* A sequence of one block. *)
LEMMA OwnsOne ==
  ASSUME NEW b \in Blocks
  PROVE  Range(<<b>>) = {b} /\ IsInjective(<<b>>)
<1>1. <<b>> \in Seq(Blocks) /\ Len(<<b>>) = 1 /\ <<b>>[1] = b /\ DOMAIN <<b>> = 1..1
  OBVIOUS
<1>2. Range(<<b>>) = {<<b>>[k] : k \in 1..1}
  BY <1>1, RangeEquality
<1>3. IsInjective(<<b>>)
  BY <1>1 DEF IsInjective
<1> QED
  BY <1>1, <1>2, <1>3

(* The owners are nobody, or one place. *)
LEMMA WhoOwns ==
  ASSUME DInv
  PROVE  \/ Owners = <<>> /\ allocated = {}
         \/ \E b \in Blocks : Owners = <<b>> /\ allocated = {b}
<1> DEFINE p == Holds(primPc = "send", msg)
           t == Holds(secPc = "test", val)
           r == Holds(secPc = "reply", reply)
           g == Holds(primPc \in {"got", "free"}, received)
           S == Seq(Blocks \cup {NoBlock})
<1>1. Owners = p \o ring1 \o t \o r \o ring2 \o g
  BY DEF Owners
<1>2. <<>> \in S /\ \A b \in Blocks : <<b>> \in S
  OBVIOUS
<1>3. CASE p = <<>> /\ ring1 = <<>> /\ t = <<>> /\ r = <<>> /\ ring2 = <<>> /\ g = <<>>
           /\ allocated = {}
  <2>1. <<>> \o <<>> = <<>>
    BY <1>2, Empties
  <2> HIDE DEF p, t, r, g
  <2>2. Owners = <<>>
    BY <1>1, <1>3, <2>1, Zenon
  <2> QED
    BY <1>3, <2>2
<1>4. ASSUME NEW b \in Blocks, allocated = {b},
             \/ p = <<b>> /\ ring1 = <<>> /\ t = <<>> /\ r = <<>> /\ ring2 = <<>> /\ g = <<>>
             \/ p = <<>> /\ ring1 = <<b>> /\ t = <<>> /\ r = <<>> /\ ring2 = <<>> /\ g = <<>>
             \/ p = <<>> /\ ring1 = <<>> /\ t = <<b>> /\ r = <<>> /\ ring2 = <<>> /\ g = <<>>
             \/ p = <<>> /\ ring1 = <<>> /\ t = <<>> /\ r = <<b>> /\ ring2 = <<>> /\ g = <<>>
             \/ p = <<>> /\ ring1 = <<>> /\ t = <<>> /\ r = <<>> /\ ring2 = <<b>> /\ g = <<>>
             \/ p = <<>> /\ ring1 = <<>> /\ t = <<>> /\ r = <<>> /\ ring2 = <<>> /\ g = <<b>>
      PROVE  Owners = <<b>>
  <2> DEFINE o == <<b>>
  <2>1. o \in S
    BY <1>2
  <2>2. <<>> \o o = o /\ o \o <<>> = o /\ <<>> \o <<>> = <<>>
    BY <1>2, <2>1, Empties
  <2> HIDE DEF o, p, t, r, g
  <2>3. Owners = o
    BY <1>1, <1>4, <2>2, Zenon DEF o
  <2> QED
    BY <2>3 DEF o
<1>5. \/ /\ p = <<>> /\ ring1 = <<>> /\ t = <<>> /\ r = <<>> /\ ring2 = <<>> /\ g = <<>>
         /\ allocated = {}
      \/ \E b \in Blocks :
           /\ allocated = {b}
           /\ \/ p = <<b>> /\ ring1 = <<>> /\ t = <<>> /\ r = <<>> /\ ring2 = <<>> /\ g = <<>>
              \/ p = <<>> /\ ring1 = <<b>> /\ t = <<>> /\ r = <<>> /\ ring2 = <<>> /\ g = <<>>
              \/ p = <<>> /\ ring1 = <<>> /\ t = <<b>> /\ r = <<>> /\ ring2 = <<>> /\ g = <<>>
              \/ p = <<>> /\ ring1 = <<>> /\ t = <<>> /\ r = <<b>> /\ ring2 = <<>> /\ g = <<>>
              \/ p = <<>> /\ ring1 = <<>> /\ t = <<>> /\ r = <<>> /\ ring2 = <<b>> /\ g = <<>>
              \/ p = <<>> /\ ring1 = <<>> /\ t = <<>> /\ r = <<>> /\ ring2 = <<>> /\ g = <<b>>
  <2> USE DEF Holds
  <2>0. Exchange
    BY DEF DInv
  <2>1. CASE primPc \in {"create", "loop"} /\ SecWaits /\ Quiet
    BY <2>1 DEF SecWaits, Quiet
  <2>2. CASE primPc = "send" /\ SecWaits /\ ring1 = <<>> /\ ring2 = <<>> /\ Only(msg, i)
    BY <2>2 DEF SecWaits, Only
  <2>3. CASE primPc \in {"sent", "await"} /\ OnItsWay(i)
    BY <2>3 DEF OnItsWay, SecWaits, Only
  <2>4. CASE primPc \in {"sent", "await"} /\ Answering(i * 10)
    BY <2>4 DEF Answering, SecWaits, Only, Quiet
  <2>5. CASE /\ primPc \in {"got", "free"} /\ SecWaits
             /\ ring1 = <<>> /\ ring2 = <<>> /\ Only(received, i * 10)
    BY <2>5 DEF SecWaits, Only
  <2>6. CASE primPc = "stopped" /\ OnItsWay(Stop)
    BY <2>6 DEF OnItsWay, SecWaits, Only
  <2>7. CASE primPc = "stopped" /\ secPc = "stopped" /\ Quiet
    BY <2>7 DEF Quiet
  <2> QED
    BY <2>0, <2>1, <2>2, <2>3, <2>4, <2>5, <2>6, <2>7 DEF Exchange
<1> HIDE DEF p, t, r, g
<1> QED
  BY <1>3, <1>4, <1>5

(* No leak, no double free and no use after free by an owner: whatever block rte_malloc *)
(* returns, each allocated block is in one place (prim.c:61, sec.c:46, sec.c:54).       *)
THEOREM BlocksOwnedOnce == Spec => []OneOwner
<1>1. DInv => OneOwner
  <2> SUFFICES ASSUME DInv PROVE OneOwner
    OBVIOUS
  <2>1. CASE Owners = <<>> /\ allocated = {}
    <3>1. Range(<<>>) = {} /\ IsInjective(<<>>)
      BY EmptyOrdered DEF IsInjective
    <3> QED
      BY <2>1, <3>1 DEF OneOwner
  <2>2. CASE \E b \in Blocks : Owners = <<b>> /\ allocated = {b}
    BY <2>2, OwnsOne DEF OneOwner
  <2> QED
    BY <2>1, <2>2, WhoOwns
<1> QED
  BY <1>1, LockStep, PTL
===============================================================================
