------------------------ MODULE MpRequestReply_proofs ------------------------
(***************************************************************************)
(* For any number of secondaries, requests and attempts: what each         *)
(* secondary takes for answers is numbered in growing order and by no      *)
(* number another one gets; every message on its way beyond the pending    *)
(* one is the trace of an attempt that timed out; and an answer to an      *)
(* earlier iteration is taken only after a timeout.                        *)
(*                                                                         *)
(* The last follows from the one before: a secondary that never timed out  *)
(* and is between two requests has no message on its way, so whatever      *)
(* arrives while it waits was sent for the iteration it is in.             *)
(***************************************************************************)
EXTENDS MpRequestReply, SequenceFacts

\* The number of the k-th answer s took.
Answer(s, k) == accepted[s][k].reply.number

\* The numbers given to s.
Given(s) ==
  {Answer(s, k) : k \in 1..Len(accepted[s])}
    \cup {replies[s][k].number : k \in 1..Len(replies[s])}
    \cup (IF slot[s] = NoReply THEN {} ELSE {slot[s].number})

InOrder(s) ==
  /\ \A j, k \in 1..Len(accepted[s]) : j < k => Answer(s, j) < Answer(s, k)
  /\ \A j, k \in 1..Len(replies[s]) : j < k => replies[s][j].number < replies[s][k].number
  /\ \A j \in 1..Len(accepted[s]), k \in 1..Len(replies[s]) :
       Answer(s, j) < replies[s][k].number
  /\ slot[s] # NoReply =>
       /\ \A j \in 1..Len(accepted[s]) : Answer(s, j) < slot[s].number
       /\ \A k \in 1..Len(replies[s]) : slot[s].number < replies[s][k].number

NumInv ==
  /\ \A s \in Secondaries : InOrder(s) /\ \A n \in Given(s) : n <= request_count
  /\ \A s, t \in Secondaries : s # t => Given(s) \cap Given(t) = {}

\* Where the request loop stands.
LoopInv ==
  \A s \in Secondaries :
    /\ pc[s] \in {"attempt", "trying", "waiting"} => i[s] >= 1
    /\ pc[s] \in {"trying", "waiting"} => retry[s] < MAX_RETRIES[s]
    /\ slot[s] # NoReply => pc[s] = "waiting"

\* A message for this iteration, or for an earlier one if there was a timeout.
Timely(n, iteration, late) ==
  /\ n <= iteration
  /\ late = 0 => n = iteration

\* What is on the way to or from t is for t's iteration or an earlier one.
TimelyFor(t) ==
  /\ \A k \in 1..Len(requests) : requests[k].from = t => Timely(requests[k].iteration, i[t], timeouts[t])
  /\ \A k \in 1..Len(replies[t]) : Timely(replies[t][k].iteration, i[t], timeouts[t])
  /\ slot[t] # NoReply => Timely(slot[t].iteration, i[t], timeouts[t])

TimelyInv == \A t \in Secondaries : TimelyFor(t)

TInv == TypeOK /\ LoopInv /\ BacklogIsTimeouts /\ TimelyInv /\ StaleOnlyAfterTimeout
MInv == TInv /\ NumInv

Request == [from : Secondaries, iteration : Nat]
Accepted == [reply : Reply, iteration : Nat]

(* The bounds are numbers. *)
LEMMA Sizes ==
  /\ NREQUESTS \in [Secondaries -> Nat] /\ MAX_RETRIES \in [Secondaries -> Nat]
  /\ \A s \in Secondaries : NREQUESTS[s] \in Nat /\ MAX_RETRIES[s] \in Nat /\ MAX_RETRIES[s] >= 1
  BY MpAssumption

(* A counter of each secondary stays below its bound when one of them is changed. *)
LEMMA BoundKept ==
  ASSUME NEW S, NEW f \in [S -> Nat], NEW g \in [S -> Nat], NEW bound \in [S -> Nat], NEW s \in S,
         \A t \in S : f[t] <= bound[t],
         \A t \in S \ {s} : g[t] = f[t], g[s] <= bound[s]
  PROVE  \A t \in S : g[t] <= bound[t]
<1> SUFFICES ASSUME NEW t \in S PROVE g[t] <= bound[t]
  OBVIOUS
<1>1. CASE t = s
  BY <1>1
<1>2. CASE t # s
  BY <1>2
<1> QED
  BY <1>1, <1>2

(* At the start there is no message and no answer. *)
LEMMA TypeInit == Init => TypeOK /\ LoopInv
<1> SUFFICES ASSUME Init PROVE TypeOK /\ LoopInv
  OBVIOUS
<1>1. /\ <<>> \in Seq(Request) /\ <<>> \in Seq(Reply) /\ <<>> \in Seq(Accepted)
  BY EmptySeq
<1>2. /\ i \in [Secondaries -> Nat] /\ \A s \in Secondaries : i[s] <= NREQUESTS[s]
      /\ retry \in [Secondaries -> Nat] /\ \A s \in Secondaries : retry[s] <= MAX_RETRIES[s]
      /\ timeouts \in [Secondaries -> Nat] /\ request_count \in Nat
  BY Sizes DEF Init
<1>3. /\ pc \in [Secondaries -> {"for", "attempt", "trying", "waiting", "cleanup", "exited"}]
      /\ slot \in [Secondaries -> Reply \cup {NoReply}]
      /\ force_quit \in [Secondaries -> BOOLEAN] /\ registered \in BOOLEAN
  BY DEF Init
<1>4. /\ requests \in Seq(Request)
      /\ replies \in [Secondaries -> Seq(Reply)]
      /\ accepted \in [Secondaries -> Seq(Accepted)]
  BY <1>1 DEF Init
<1>5. LoopInv
  BY DEF Init, LoopInv
<1> QED
  BY <1>2, <1>3, <1>4, <1>5 DEF TypeOK, Request, Accepted

(* Every step keeps the types and the bounds of the request loop. *)
LEMMA TypeStep == TypeOK /\ LoopInv /\ [Next]_vars => TypeOK' /\ LoopInv'
<1> SUFFICES ASSUME TypeOK, LoopInv, [Next]_vars PROVE TypeOK' /\ LoopInv'
  OBVIOUS
<1> USE DEF TypeOK, LoopInv, Goes, primaryVars, loopVars
<1>1. CASE Register
  BY <1>1 DEF Register
<1>2. CASE Discard
  <2>1. requests' \in Seq(Request)
    BY <1>2, HeadTailProperties DEF Discard, Request
  <2> QED
    BY <1>2, <2>1 DEF Discard, Request
<1>3. CASE Serve
  <2> DEFINE req == Head(requests)
  <2>1. req \in Request /\ requests' \in Seq(Request)
    BY <1>3, HeadTailProperties DEF Serve, Request
  <2>2. ReplyTo(req) \in Reply
    BY <2>1, Sizes DEF ReplyTo, Reply, Request
  <2>3. /\ replies' \in {replies, [replies EXCEPT ![req.from] = Append(@, ReplyTo(req))]}
        /\ request_count' = request_count + 1
        /\ UNCHANGED <<registered, slot, pc, loopVars, timeouts, accepted>>
    BY <1>3 DEF Serve
  <2> HIDE DEF req
  <2>4. Append(replies[req.from], ReplyTo(req)) \in Seq(Reply)
    BY <2>1, <2>2, AppendProperties DEF Request
  <2>5. replies' \in [Secondaries -> Seq(Reply)]
    BY <2>3, <2>4
  <2>6. request_count' \in Nat
    BY <2>3
  <2> QED
    BY <2>1, <2>3, <2>5, <2>6 DEF Request
<1>4. ASSUME NEW s \in Secondaries, Secondary(s) \/ Signal(s) \/ Deliver(s)
      PROVE  TypeOK' /\ LoopInv'
  <2>1. CASE Iterate(s)
    <3>1. i[s] + 1 \in 1..NREQUESTS[s] /\ 0 \in 0..MAX_RETRIES[s]
      BY <2>1, Sizes DEF Iterate
    <3>2. /\ i' = [i EXCEPT ![s] = i[s] + 1] /\ retry' = [retry EXCEPT ![s] = 0]
          /\ pc' = [pc EXCEPT ![s] = "attempt"] /\ pc[s] = "for"
      BY <2>1 DEF Iterate
    <3>3. /\ i' \in [Secondaries -> Nat] /\ retry' \in [Secondaries -> Nat]
          /\ i'[s] \in 1..NREQUESTS[s] /\ retry'[s] \in 0..MAX_RETRIES[s]
          /\ \A t \in Secondaries \ {s} : i'[t] = i[t] /\ retry'[t] = retry[t]
      BY <3>1, <3>2
    <3>4. \A t \in Secondaries : i'[t] <= NREQUESTS[t] /\ retry'[t] <= MAX_RETRIES[t]
      <4>1. i'[s] <= NREQUESTS[s] /\ retry'[s] <= MAX_RETRIES[s]
        BY <3>3, Sizes
      <4>2. \A t \in Secondaries : i'[t] <= NREQUESTS[t]
        BY <3>3, <4>1, Sizes, BoundKept
      <4>3. \A t \in Secondaries : retry'[t] <= MAX_RETRIES[t]
        BY <3>3, <4>1, Sizes, BoundKept
      <4> QED
        BY <4>2, <4>3
    <3>5. \A t \in Secondaries : pc'[t] \in {"attempt", "trying", "waiting"} => i'[t] >= 1
      BY <3>2, <3>3
    <3> QED
      BY <2>1, <3>2, <3>3, <3>4, <3>5 DEF Iterate
  <2>2. CASE EndLoop(s)
    BY <2>2 DEF EndLoop
  <2>3. CASE Send(s)
    <3>1. [from |-> s, iteration |-> i[s]] \in Request
      BY <2>3, Sizes DEF Send, Request
    <3>2. requests' \in Seq(Request)
      BY <2>3, <3>1, AppendProperties DEF Send, Request
    <3> QED
      BY <2>3, <3>2, Sizes DEF Send, Request
  <2>4. CASE SendFails(s)
    <3>1. retry[s] + 1 \in 0..MAX_RETRIES[s]
      BY <2>4, Sizes DEF SendFails
    <3>2. retry' \in [Secondaries -> Nat] /\ retry'[s] = retry[s] + 1
      BY <2>4, <3>1 DEF SendFails
    <3>3. \A t \in Secondaries \ {s} : retry'[t] = retry[t]
      BY <2>4 DEF SendFails
    <3>4. \A t \in Secondaries : retry'[t] <= MAX_RETRIES[t]
      <4>1. retry'[s] <= MAX_RETRIES[s]
        BY <3>1, <3>2
      <4> QED
        BY <3>2, <3>3, <4>1, Sizes, BoundKept
    <3>5. pc' = [pc EXCEPT ![s] = "attempt"] /\ pc[s] \in {"trying", "waiting"} /\ i' = i
      BY <2>4 DEF SendFails
    <3> QED
      BY <2>4, <3>2, <3>4, <3>5 DEF SendFails
  <2>5. CASE GiveUp(s)
    BY <2>5 DEF GiveUp
  <2>6. CASE Timeout(s)
    <3>1. retry[s] + 1 \in 0..MAX_RETRIES[s] /\ timeouts[s] + 1 \in Nat
      BY <2>6, Sizes DEF Timeout
    <3>2. /\ retry' \in [Secondaries -> Nat] /\ retry'[s] = retry[s] + 1
          /\ timeouts' \in [Secondaries -> Nat]
      BY <2>6, <3>1 DEF Timeout
    <3>3. \A t \in Secondaries \ {s} : retry'[t] = retry[t]
      BY <2>6 DEF Timeout
    <3>4. \A t \in Secondaries : retry'[t] <= MAX_RETRIES[t]
      <4>1. retry'[s] <= MAX_RETRIES[s]
        BY <3>1, <3>2
      <4> QED
        BY <3>2, <3>3, <4>1, Sizes, BoundKept
    <3>5. pc' = [pc EXCEPT ![s] = "attempt"] /\ pc[s] \in {"trying", "waiting"} /\ i' = i
      BY <2>6 DEF Timeout
    <3> QED
      BY <2>6, <3>2, <3>4, <3>5 DEF Timeout
  <2>7. CASE Receive(s)
    <3>1. [reply |-> slot[s], iteration |-> i[s]] \in Accepted
      BY <2>7, Sizes DEF Receive, Accepted
    <3>2. Append(accepted[s], [reply |-> slot[s], iteration |-> i[s]]) \in Seq(Accepted)
      BY <3>1, AppendProperties DEF Accepted
    <3>3. accepted' \in [Secondaries -> Seq(Accepted)]
      BY <2>7, <3>2 DEF Receive, Accepted
    <3> QED
      BY <2>7, <3>3 DEF Receive, Accepted
  <2>8. CASE Exit(s)
    <3>1. <<>> \in Seq(Reply)
      BY EmptySeq
    <3> QED
      BY <2>8, <3>1 DEF Exit
  <2>9. CASE Signal(s)
    BY <2>9 DEF Signal
  <2>10. CASE Deliver(s)
    <3>1. Head(replies[s]) \in Reply /\ Tail(replies[s]) \in Seq(Reply)
      BY <2>10, HeadTailProperties DEF Deliver
    <3> QED
      BY <2>10, <3>1 DEF Deliver
  <2>11. CASE Try(s)
    BY <2>11, Sizes DEF Try, MayTry
  <2> QED
    BY <1>4, <2>1, <2>2, <2>3, <2>4, <2>5, <2>6, <2>7, <2>8, <2>9, <2>10, <2>11 DEF Secondary
<1>5. CASE UNCHANGED vars
  BY <1>5 DEF vars
<1> QED
  BY <1>1, <1>2, <1>3, <1>4, <1>5 DEF Next, Primary

-------------------------------------------------------------------------------
(* Messages on their way *)

\* How many requests of s are in the primary's socket.
Asked(s) == Cardinality(Where(requests, {r \in Request : r.from = s}))
Held(s) == IF slot[s] = NoReply THEN 0 ELSE 1
Allowed(s) == timeouts[s] + (IF pc[s] = "waiting" THEN 1 ELSE 0)

(* InFlight counts requests, replies and the reply in the buffer. *)
LEMMA Counted ==
  ASSUME TypeOK, NEW s \in Secondaries
  PROVE  /\ InFlight(s) = Asked(s) + Len(replies[s]) + Held(s)
         /\ Asked(s) \in Nat /\ Len(replies[s]) \in Nat /\ Held(s) \in Nat
         /\ Asked(s) = 0 => \A k \in 1..Len(requests) : requests[k].from # s
         /\ Allowed(s) \in Nat /\ timeouts[s] \in Nat
<1> DEFINE V == {r \in Request : r.from = s}
<1>1. requests \in Seq(Request)
  BY DEF TypeOK, Request
<1>2. \A k \in 1..Len(requests) : requests[k] \in Request
  BY <1>1, ElementOfSeq
<1>3. {k \in 1..Len(requests) : requests[k].from = s} = Where(requests, V)
  BY <1>2 DEF Where
<1>4. Asked(s) \in Nat /\ (Asked(s) = 0 => \A k \in 1..Len(requests) : requests[k] \notin V)
  BY <1>1, WhereFinite DEF Asked
<1>5. Len(replies[s]) \in Nat
  BY LenProperties DEF TypeOK
<1>6. Asked(s) = 0 => \A k \in 1..Len(requests) : requests[k].from # s
  BY <1>2, <1>4
<1>7. InFlight(s) = Asked(s) + Len(replies[s]) + Held(s)
  BY <1>3 DEF InFlight, Asked, Held
<1>8. Allowed(s) \in Nat /\ timeouts[s] \in Nat /\ Held(s) \in Nat
  BY DEF Allowed, Held, TypeOK
<1> QED
  BY <1>4, <1>5, <1>6, <1>7, <1>8

(* The same after a step. *)
LEMMA CountedNext ==
  TypeOK' =>
    \A s \in Secondaries :
      /\ InFlight(s)' = Asked(s)' + Len(replies'[s]) + Held(s)'
      /\ Asked(s)' \in Nat /\ Len(replies'[s]) \in Nat /\ Held(s)' \in Nat
      /\ Allowed(s)' \in Nat
<1>1. TypeOK =>
        \A s \in Secondaries :
          /\ InFlight(s) = Asked(s) + Len(replies[s]) + Held(s)
          /\ Asked(s) \in Nat /\ Len(replies[s]) \in Nat /\ Held(s) \in Nat
          /\ Allowed(s) \in Nat
  BY Counted
<1>2. TypeOK' =>
        (\A s \in Secondaries :
          /\ InFlight(s) = Asked(s) + Len(replies[s]) + Held(s)
          /\ Asked(s) \in Nat /\ Len(replies[s]) \in Nat /\ Held(s) \in Nat
          /\ Allowed(s) \in Nat)'
  BY <1>1, PTL
<1> QED
  BY <1>2

(* A request is put into the primary's socket, or taken from it. *)
LEMMA AskedSteps ==
  ASSUME TypeOK
  PROVE  /\ \A r \in Request : requests' = Append(requests, r) =>
              \A t \in Secondaries : Asked(t)' = Asked(t) + (IF r.from = t THEN 1 ELSE 0)
         /\ requests # <<>> /\ requests' = Tail(requests) =>
              \A t \in Secondaries :
                Asked(t) = Asked(t)' + (IF Head(requests).from = t THEN 1 ELSE 0)
<1>1. requests \in Seq(Request)
  BY DEF TypeOK, Request
<1>2. ASSUME NEW r \in Request, requests' = Append(requests, r), NEW t \in Secondaries
      PROVE  Asked(t)' = Asked(t) + (IF r.from = t THEN 1 ELSE 0)
  <2> DEFINE V == {x \in Request : x.from = t}
  <2>1. r \in V <=> r.from = t
    OBVIOUS
  <2> HIDE DEF V
  <2>2. Cardinality(Where(Append(requests, r), V))
          = Cardinality(Where(requests, V)) + (IF r \in V THEN 1 ELSE 0)
    BY <1>1, WhereAppend
  <2> QED
    BY <1>2, <2>1, <2>2 DEF Asked, V
<1>3. ASSUME requests # <<>>, requests' = Tail(requests), NEW t \in Secondaries
      PROVE  Asked(t) = Asked(t)' + (IF Head(requests).from = t THEN 1 ELSE 0)
  <2> DEFINE V == {x \in Request : x.from = t}
  <2>1. Head(requests) \in V <=> Head(requests).from = t
    BY <1>1, <1>3, HeadTailProperties
  <2> HIDE DEF V
  <2>2. Cardinality(Where(requests, V))
          = Cardinality(Where(Tail(requests), V)) + (IF Head(requests) \in V THEN 1 ELSE 0)
    BY <1>1, <1>3, WhereTail
  <2> QED
    BY <1>3, <2>1, <2>2 DEF Asked, V
<1> QED
  BY <1>2, <1>3

(* No step puts more on the way than a send, and only a timeout leaves it there. *)
LEMMA BacklogStep ==
  TypeOK /\ LoopInv /\ BacklogIsTimeouts /\ [Next]_vars => BacklogIsTimeouts'
<1> SUFFICES ASSUME TypeOK, LoopInv, BacklogIsTimeouts, [Next]_vars, NEW t \in Secondaries
             PROVE  InFlight(t)' <= Allowed(t)'
  BY DEF BacklogIsTimeouts, Allowed
<1>1. /\ InFlight(t) = Asked(t) + Len(replies[t]) + Held(t)
      /\ Asked(t) \in Nat /\ Len(replies[t]) \in Nat /\ Held(t) \in Nat
      /\ Allowed(t) \in Nat /\ timeouts[t] \in Nat
  BY Counted
<1>2. /\ InFlight(t)' = Asked(t)' + Len(replies'[t]) + Held(t)'
      /\ Asked(t)' \in Nat /\ Len(replies'[t]) \in Nat /\ Held(t)' \in Nat
      /\ Allowed(t)' \in Nat
  BY TypeStep, CountedNext
<1>3. Asked(t) + Len(replies[t]) + Held(t) <= Allowed(t)
  BY <1>1 DEF BacklogIsTimeouts, Allowed
<1>4. SUFFICES Asked(t)' + Len(replies'[t]) + Held(t)' <= Allowed(t)'
  BY <1>2
<1>5. UNCHANGED requests => Asked(t)' = Asked(t)
  BY DEF Asked
<1> USE DEF Goes, primaryVars, loopVars
<1>6. CASE Register
  BY <1>1, <1>3, <1>5, <1>6 DEF Register, Held, Allowed
<1>7. CASE Discard
  <2>1. Asked(t)' <= Asked(t)
    <3>1. Asked(t) = Asked(t)' + (IF Head(requests).from = t THEN 1 ELSE 0)
      BY <1>7, AskedSteps DEF Discard
    <3> QED
      BY <1>1, <1>2, <3>1
  <2> QED
    BY <1>1, <1>2, <1>3, <1>7, <2>1 DEF Discard, Held, Allowed
<1>8. CASE Serve
  <2> DEFINE req == Head(requests)
  <2>1. Asked(t) = Asked(t)' + (IF req.from = t THEN 1 ELSE 0)
    BY <1>8, AskedSteps DEF Serve
  <2>2. req \in Request
    BY <1>8, HeadTailProperties DEF Serve, TypeOK, Request
  <2>3. /\ replies' \in {replies, [replies EXCEPT ![req.from] = Append(@, ReplyTo(req))]}
        /\ UNCHANGED <<slot, pc, timeouts>>
    BY <1>8 DEF Serve
  <2> HIDE DEF req
  <2>4. Len(Append(replies[req.from], ReplyTo(req))) = Len(replies[req.from]) + 1
    <3>1. ReplyTo(req) \in Reply /\ replies[req.from] \in Seq(Reply)
      BY <2>2 DEF ReplyTo, Reply, Request, TypeOK
    <3> QED
      BY <3>1, AppendProperties
  <2>5. Len(replies'[t]) <= Len(replies[t]) + (IF req.from = t THEN 1 ELSE 0)
    <3>1. req.from \in Secondaries /\ replies \in [Secondaries -> Seq(Reply)]
      BY <2>2 DEF Request, TypeOK, Reply
    <3>2. CASE req.from = t
      <4>1. replies'[t] \in {replies[t], Append(replies[t], ReplyTo(req))}
        BY <2>3, <3>1, <3>2
      <4> QED
        BY <1>1, <2>4, <3>2, <4>1
    <3>3. CASE req.from # t
      BY <1>1, <2>3, <3>1, <3>3
    <3> QED
      BY <3>2, <3>3
  <2>6. Held(t)' = Held(t) /\ Allowed(t)' = Allowed(t)
    BY <2>3 DEF Held, Allowed
  <2>7. Asked(t)' + Len(replies'[t]) <= Asked(t) + Len(replies[t])
    <3>1. CASE req.from = t
      BY <1>1, <1>2, <2>1, <2>5, <3>1
    <3>2. CASE req.from # t
      BY <1>1, <1>2, <2>1, <2>5, <3>2
    <3> QED
      BY <3>1, <3>2
  <2> QED
    BY <1>1, <1>2, <1>3, <2>6, <2>7
<1>9. ASSUME NEW s \in Secondaries, Secondary(s) \/ Signal(s) \/ Deliver(s)
      PROVE  Asked(t)' + Len(replies'[t]) + Held(t)' <= Allowed(t)'
  <2> DEFINE Same == replies'[t] = replies[t] /\ slot'[t] = slot[t] /\ timeouts'[t] = timeouts[t]
  <2>1. CASE s # t
    <3>1. Same /\ pc'[t] = pc[t]
      BY <1>9, <2>1 DEF Secondary, Iterate, EndLoop, Try, Send, SendFails, GiveUp, Timeout, Receive,
         Exit, Signal, Deliver, TypeOK
    <3>2. Asked(t)' = Asked(t)
      <4>1. CASE Send(s)
        <5>1. [from |-> s, iteration |-> i[s]] \in Request
          BY <4>1, Sizes DEF Send, Request, TypeOK, LoopInv
        <5>2. requests' = Append(requests, [from |-> s, iteration |-> i[s]])
          BY <4>1 DEF Send
        <5>3. Asked(t)' = Asked(t) + (IF [from |-> s, iteration |-> i[s]].from = t THEN 1 ELSE 0)
          BY <5>1, <5>2, AskedSteps
        <5> QED
          BY <1>1, <2>1, <5>3
      <4>2. CASE ~Send(s)
        BY <1>5, <1>9, <4>2 DEF Secondary, Iterate, EndLoop, Try, SendFails, GiveUp, Timeout,
           Receive, Exit, Signal, Deliver
      <4> QED
        BY <4>1, <4>2
    <3> QED
      BY <1>1, <1>3, <3>1, <3>2 DEF Held, Allowed
  <2>2. CASE Iterate(t) \/ EndLoop(t) \/ Try(t) \/ SendFails(t) \/ GiveUp(t) \/ Signal(t)
    <3>1. /\ Same /\ UNCHANGED requests
          /\ (pc[t] # "waiting" /\ pc'[t] # "waiting") \/ pc'[t] = pc[t]
      BY <2>2 DEF Iterate, EndLoop, Try, SendFails, GiveUp, Signal, TypeOK
    <3> QED
      BY <1>1, <1>3, <1>5, <3>1 DEF Held, Allowed
  <2>3. CASE Send(t)
    <3>1. [from |-> t, iteration |-> i[t]] \in Request
      BY <2>3, Sizes DEF Send, Request, TypeOK, LoopInv
    <3>2. Asked(t)' = Asked(t) + 1
      BY <2>3, <3>1, AskedSteps DEF Send
    <3>3. /\ replies'[t] = replies[t] /\ timeouts'[t] = timeouts[t]
          /\ pc[t] = "trying" /\ pc'[t] = "waiting"
      BY <2>3 DEF Send, TypeOK
    <3>4. slot[t] = NoReply /\ slot'[t] = NoReply
      BY <2>3, <3>3 DEF Send, TypeOK, LoopInv
    <3> QED
      BY <1>1, <1>3, <3>2, <3>3, <3>4 DEF Held, Allowed
  <2>4. CASE Timeout(t)
    <3>1. /\ replies'[t] = replies[t] /\ slot'[t] = slot[t] /\ UNCHANGED requests
          /\ pc[t] = "waiting" /\ pc'[t] = "attempt"
      BY <2>4 DEF Timeout, TypeOK
    <3>2. timeouts'[t] = timeouts[t] + 1
      BY <2>4 DEF Timeout, TypeOK
    <3> QED
      BY <1>1, <1>3, <1>5, <3>1, <3>2 DEF Held, Allowed
  <2>5. CASE Receive(t)
    <3>1. /\ replies'[t] = replies[t] /\ timeouts'[t] = timeouts[t] /\ UNCHANGED requests
          /\ pc[t] = "waiting" /\ pc'[t] = "for"
      BY <2>5 DEF Receive, TypeOK
    <3>2. slot[t] # NoReply /\ slot'[t] = NoReply
      BY <2>5 DEF Receive, TypeOK
    <3> QED
      BY <1>1, <1>3, <1>5, <3>1, <3>2 DEF Held, Allowed
  <2>6. CASE Exit(t)
    <3>1. /\ slot'[t] = slot[t] /\ timeouts'[t] = timeouts[t] /\ UNCHANGED requests
          /\ pc[t] = "cleanup" /\ pc'[t] = "exited" /\ replies'[t] = <<>>
      BY <2>6 DEF Exit, TypeOK
    <3>2. Len(replies'[t]) = 0
      BY <3>1, EmptySeq
    <3> QED
      BY <1>1, <1>3, <1>5, <3>1, <3>2 DEF Held, Allowed
  <2>7. CASE Deliver(t)
    <3>1. /\ timeouts'[t] = timeouts[t] /\ UNCHANGED <<requests, pc>>
          /\ replies[t] # <<>> /\ replies'[t] = Tail(replies[t])
      BY <2>7 DEF Deliver, TypeOK
    <3>2. Len(replies'[t]) = Len(replies[t]) - 1
      BY <3>1, HeadTailProperties DEF TypeOK
    <3>3. Held(t)' <= Held(t) + 1
      BY DEF Held
    <3> QED
      BY <1>1, <1>2, <1>3, <1>5, <3>1, <3>2, <3>3 DEF Allowed
  <2> QED
    BY <1>9, <2>1, <2>2, <2>3, <2>4, <2>5, <2>6, <2>7 DEF Secondary
<1>10. CASE UNCHANGED vars
  BY <1>1, <1>3, <1>5, <1>10 DEF vars, Held, Allowed
<1> QED
  BY <1>6, <1>7, <1>8, <1>9, <1>10 DEF Next, Primary

-------------------------------------------------------------------------------
(* Which iteration a message is for *)

(* A step leaves t's messages for the iteration they are for. *)
LEMMA TimelyStep == TInv /\ [Next]_vars => TimelyInv'
<1> SUFFICES ASSUME TInv, [Next]_vars, NEW t \in Secondaries PROVE TimelyFor(t)'
  BY DEF TimelyInv, TimelyFor
<1>0. TypeOK /\ LoopInv /\ TimelyFor(t)
  BY DEF TInv, TimelyInv
<1>1. i[t] \in Nat /\ timeouts[t] \in Nat /\ requests \in Seq(Request) /\ replies[t] \in Seq(Reply)
  BY <1>0, Sizes DEF TypeOK, Request
<1>2. UNCHANGED <<i, timeouts>> => \A n \in Nat : Timely(n, i[t], timeouts[t]) => Timely(n, i'[t], timeouts'[t])
  BY Zenon
<1>3. /\ \A k \in 1..Len(requests) : requests[k] \in Request /\ requests[k].iteration \in Nat
      /\ \A k \in 1..Len(replies[t]) : replies[t][k] \in Reply /\ replies[t][k].iteration \in Nat
      /\ slot[t] # NoReply => slot[t].iteration \in Nat
  <2>1. /\ \A k \in 1..Len(requests) : requests[k] \in Request
        /\ \A k \in 1..Len(replies[t]) : replies[t][k] \in Reply
    BY <1>1, ElementOfSeq
  <2> QED
    BY <1>0, <2>1 DEF Request, Reply, TypeOK
<1> USE DEF Goes, primaryVars, loopVars
<1>4. CASE UNCHANGED <<i, timeouts, requests, replies, slot>>
  BY <1>0, <1>2, <1>3, <1>4 DEF TimelyFor
<1>5. CASE Discard
  <2>1. Len(requests') = Len(requests) - 1 /\ \A k \in 1..Len(requests') : requests'[k] = requests[k + 1]
    BY <1>1, <1>5, HeadTailProperties DEF Discard
  <2>2. Len(requests) \in Nat
    BY <1>1, LenProperties
  <2>3. \A k \in 1..Len(requests') : requests'[k].from = t => Timely(requests'[k].iteration, i'[t], timeouts'[t])
    BY <1>0, <1>2, <1>3, <1>5, <2>1, <2>2 DEF Discard, TimelyFor
  <2> QED
    BY <1>0, <1>2, <1>3, <1>5, <2>3 DEF Discard, TimelyFor
<1>6. CASE Serve
  <2> DEFINE req == Head(requests)
             r == ReplyTo(req)
  <2>1. /\ Len(requests') = Len(requests) - 1 /\ req = requests[1]
        /\ \A k \in 1..Len(requests') : requests'[k] = requests[k + 1]
        /\ Len(requests) \in Nat \ {0}
    <3>1. Len(requests) \in Nat \ {0}
      BY <1>1, <1>6, EmptySeq DEF Serve
    <3>2. /\ Len(requests') = Len(requests) - 1
          /\ \A k \in 1..Len(requests') : requests'[k] = requests[k + 1]
      BY <1>1, <1>6, HeadTailProperties DEF Serve
    <3> QED
      BY <3>1, <3>2
  <2>2. \A k \in 1..Len(requests') : requests'[k].from = t => Timely(requests'[k].iteration, i'[t], timeouts'[t])
    BY <1>0, <1>2, <1>3, <1>6, <2>1 DEF Serve, TimelyFor
  <2>3. /\ replies' \in {replies, [replies EXCEPT ![req.from] = Append(@, r)]}
        /\ UNCHANGED <<slot, i, timeouts>>
    BY <1>6 DEF Serve
  <2>4. req \in Request /\ r \in Reply /\ r.iteration = req.iteration
    <3>1. req \in Request /\ req.iteration \in Nat /\ request_count + 1 \in Nat
      <4>1. 1 \in 1..Len(requests)
        BY <2>1
      <4>2. requests[1] \in Request /\ requests[1].iteration \in Nat
        BY <1>3, <4>1
      <4>3. request_count + 1 \in Nat
        BY <1>0 DEF TypeOK
      <4> QED
        BY <2>1, <4>2, <4>3
    <3> QED
      BY <3>1 DEF ReplyTo, Reply
  <2>5. req.from = t => Timely(r.iteration, i[t], timeouts[t])
    BY <1>0, <2>1, <2>4 DEF TimelyFor
  <2> HIDE DEF req, r
  <2>6. /\ Len(Append(replies[t], r)) = Len(replies[t]) + 1 /\ Len(replies[t]) \in Nat
        /\ \A k \in 1..Len(replies[t]) : Append(replies[t], r)[k] = replies[t][k]
        /\ Append(replies[t], r)[Len(replies[t]) + 1] = r
    BY <1>1, <2>4, AppendProperties, LenProperties
  <2>7. CASE replies'[t] = replies[t]
    BY <1>0, <1>2, <1>3, <2>2, <2>3, <2>7 DEF TimelyFor
  <2>8. CASE req.from = t /\ replies'[t] = Append(replies[t], r)
    <3>1. Timely(r.iteration, i'[t], timeouts'[t])
      BY <1>2, <2>3, <2>4, <2>5, <2>8 DEF Reply
    <3>2. \A k \in 1..Len(replies'[t]) : k \in 1..Len(replies[t]) \/ k = Len(replies[t]) + 1
      BY <2>6, <2>8
    <3>3. \A k \in 1..Len(replies'[t]) : Timely(replies'[t][k].iteration, i'[t], timeouts'[t])
      BY <1>0, <1>2, <1>3, <2>3, <2>6, <2>8, <3>1, <3>2 DEF TimelyFor
    <3> QED
      BY <1>0, <1>2, <1>3, <2>2, <2>3, <3>3 DEF TimelyFor
  <2> QED
    BY <1>0, <2>3, <2>4, <2>7, <2>8 DEF Request, TypeOK
<1>7. ASSUME NEW s \in Secondaries, Secondary(s) \/ Signal(s) \/ Deliver(s)
      PROVE  TimelyFor(t)'
  <2>1. CASE Iterate(s)
    <3>1. CASE s # t
      BY <1>0, <1>2, <1>3, <2>1, <3>1 DEF Iterate, TimelyFor, Timely, TypeOK
    <3>2. CASE s = t
      <4>1. i'[t] = i[t] + 1 /\ UNCHANGED <<requests, replies, slot, timeouts>> /\ pc[t] = "for"
        BY <1>0, <2>1, <3>2 DEF Iterate, TypeOK
      <4>2. CASE timeouts[t] # 0
        <5>1. \A n \in Nat : Timely(n, i[t], timeouts[t]) => Timely(n, i'[t], timeouts'[t])
          BY <1>1, <4>1, <4>2 DEF Timely
        <5> QED
          BY <1>0, <1>3, <4>1, <5>1 DEF TimelyFor
      <4>3. CASE timeouts[t] = 0
        <5>1. InFlight(t) <= 0
          BY <4>1, <4>3 DEF TInv, BacklogIsTimeouts
        <5>2. /\ InFlight(t) = Asked(t) + Len(replies[t]) + Held(t)
              /\ Asked(t) \in Nat /\ Len(replies[t]) \in Nat /\ Held(t) \in Nat
              /\ Asked(t) = 0 => \A k \in 1..Len(requests) : requests[k].from # t
          BY <1>0, Counted
        <5>3. Asked(t) = 0 /\ Len(replies[t]) = 0 /\ Held(t) = 0
          BY <5>1, <5>2
        <5>4. slot[t] = NoReply
          BY <5>3 DEF Held
        <5> QED
          BY <4>1, <5>2, <5>3, <5>4 DEF TimelyFor
      <4> QED
        BY <4>2, <4>3
    <3> QED
      BY <3>1, <3>2
  <2>2. CASE EndLoop(s)
    BY <1>4, <2>2 DEF EndLoop
  <2>3. CASE Send(s)
    <3> DEFINE req == [from |-> s, iteration |-> i[s]]
    <3>1. req \in Request /\ req.from = s /\ req.iteration = i[s]
      BY <1>0, <2>3, Sizes DEF Send, Request, TypeOK, LoopInv
    <3>2. /\ requests' = Append(requests, req) /\ slot' = [slot EXCEPT ![s] = NoReply]
          /\ UNCHANGED <<i, timeouts, replies>>
      BY <2>3 DEF Send
    <3> HIDE DEF req
    <3>3. /\ Len(requests') = Len(requests) + 1 /\ Len(requests) \in Nat
          /\ \A k \in 1..Len(requests) : requests'[k] = requests[k]
          /\ requests'[Len(requests) + 1] = req
      BY <1>1, <3>1, <3>2, AppendProperties, LenProperties
    <3>4. \A k \in 1..Len(requests') : k \in 1..Len(requests) \/ k = Len(requests) + 1
      BY <3>3
    <3>5. s = t => Timely(req.iteration, i'[t], timeouts'[t])
      BY <1>1, <3>1, <3>2 DEF Timely
    <3>6. \A k \in 1..Len(requests') :
            requests'[k].from = t => Timely(requests'[k].iteration, i'[t], timeouts'[t])
      BY <1>0, <1>2, <1>3, <3>1, <3>2, <3>3, <3>4, <3>5 DEF TimelyFor
    <3>7. slot'[t] = NoReply \/ slot'[t] = slot[t]
      BY <1>0, <3>2 DEF TypeOK
    <3> QED
      BY <1>0, <1>2, <1>3, <3>2, <3>6, <3>7 DEF TimelyFor
  <2>4. CASE SendFails(s)
    BY <1>4, <2>4 DEF SendFails
  <2>5. CASE GiveUp(s)
    BY <1>4, <2>5 DEF GiveUp
  <2>6. CASE Timeout(s)
    <3>1. timeouts'[t] = timeouts[t] \/ timeouts'[t] # 0
      BY <1>0, <1>1, <2>6 DEF Timeout, TypeOK
    <3>2. \A n \in Nat : Timely(n, i[t], timeouts[t]) => Timely(n, i'[t], timeouts'[t])
      BY <2>6, <3>1 DEF Timeout, Timely
    <3> QED
      BY <1>0, <1>3, <2>6, <3>2 DEF Timeout, TimelyFor
  <2>7. CASE Receive(s)
    <3>1. slot'[t] = NoReply \/ slot'[t] = slot[t]
      BY <1>0, <2>7 DEF Receive, TypeOK
    <3> QED
      BY <1>0, <1>2, <1>3, <2>7, <3>1 DEF Receive, TimelyFor
  <2>8. CASE Exit(s)
    <3>1. replies'[t] = replies[t] \/ Len(replies'[t]) = 0
      BY <1>0, <2>8, EmptySeq DEF Exit, TypeOK
    <3> QED
      BY <1>0, <1>2, <1>3, <2>8, <3>1 DEF Exit, TimelyFor
  <2>9. CASE Signal(s)
    BY <1>4, <2>9 DEF Signal
  <2>10. CASE Deliver(s)
    <3>1. CASE s # t
      <4>1. replies'[t] = replies[t] /\ slot'[t] = slot[t] /\ UNCHANGED <<requests, i, timeouts>>
        BY <1>0, <2>10, <3>1 DEF Deliver, TypeOK
      <4> QED
        BY <1>0, <1>2, <1>3, <4>1 DEF TimelyFor
    <3>2. CASE s = t
      <4>1. /\ replies'[t] = Tail(replies[t]) /\ replies[t] # <<>>
            /\ slot'[t] \in {slot[t], Head(replies[t])}
            /\ UNCHANGED <<requests, i, timeouts>>
        BY <1>0, <2>10, <3>2 DEF Deliver, TypeOK
      <4>2. /\ Len(replies'[t]) = Len(replies[t]) - 1
            /\ \A k \in 1..Len(replies'[t]) : replies'[t][k] = replies[t][k + 1]
        BY <1>1, <4>1, HeadTailProperties
      <4>3. Len(replies[t]) \in Nat \ {0} /\ Head(replies[t]) = replies[t][1]
        BY <1>1, <4>1, EmptySeq
      <4>4. \A k \in 1..Len(replies'[t]) : Timely(replies'[t][k].iteration, i'[t], timeouts'[t])
        BY <1>0, <1>2, <1>3, <4>1, <4>2, <4>3 DEF TimelyFor
      <4>5. slot'[t] # NoReply => Timely(slot'[t].iteration, i'[t], timeouts'[t])
        BY <1>0, <1>2, <1>3, <4>1, <4>3 DEF TimelyFor
      <4> QED
        BY <1>0, <1>2, <1>3, <4>1, <4>4, <4>5 DEF TimelyFor
    <3> QED
      BY <3>1, <3>2
  <2>11. CASE Try(s)
    BY <1>4, <2>11 DEF Try
  <2> QED
    BY <1>7, <2>1, <2>2, <2>3, <2>4, <2>5, <2>6, <2>7, <2>8, <2>9, <2>10, <2>11 DEF Secondary
<1>8. CASE Register
  BY <1>4, <1>8 DEF Register
<1>9. CASE UNCHANGED vars
  BY <1>4, <1>9 DEF vars
<1> QED
  BY <1>5, <1>6, <1>7, <1>8, <1>9 DEF Next, Primary

(* An answer to an earlier iteration is taken only after a timeout. *)
LEMMA StaleStep == TInv /\ [Next]_vars => StaleOnlyAfterTimeout'
<1> SUFFICES ASSUME TInv, [Next]_vars, NEW t \in Secondaries, NEW k \in 1..Len(accepted'[t])
             PROVE  LET a == accepted'[t][k]
                    IN /\ a.reply.iteration <= a.iteration
                       /\ timeouts'[t] = 0 => a.reply.iteration = a.iteration
  BY DEF StaleOnlyAfterTimeout
<1>1. TypeOK /\ \A j \in 1..Len(accepted[t]) :
                  LET a == accepted[t][j]
                  IN /\ a.reply.iteration <= a.iteration
                     /\ timeouts[t] = 0 => a.reply.iteration = a.iteration
  BY DEF TInv, StaleOnlyAfterTimeout
<1> USE DEF Goes, primaryVars, loopVars
<1>2. CASE accepted'[t] = accepted[t] /\ (timeouts'[t] = 0 => timeouts[t] = 0)
  BY <1>1, <1>2
<1>3. CASE Receive(t)
  <2> DEFINE b == [reply |-> slot[t], iteration |-> i[t]]
  <2>1. b \in Accepted /\ b.reply = slot[t] /\ b.iteration = i[t]
    BY <1>1, <1>3, Sizes DEF Receive, Accepted, TypeOK, TInv, LoopInv
  <2>2. Timely(b.reply.iteration, i[t], timeouts[t])
    BY <1>3, <2>1 DEF Receive, TInv, TimelyInv, TimelyFor
  <2>3. accepted'[t] = Append(accepted[t], b) /\ UNCHANGED timeouts
    BY <1>1, <1>3 DEF Receive, TypeOK
  <2> HIDE DEF b
  <2>4. /\ Len(accepted'[t]) = Len(accepted[t]) + 1 /\ Len(accepted[t]) \in Nat
        /\ \A j \in 1..Len(accepted[t]) : accepted'[t][j] = accepted[t][j]
        /\ accepted'[t][Len(accepted[t]) + 1] = b
    <3>1. accepted[t] \in Seq(Accepted)
      BY <1>1 DEF TypeOK, Accepted
    <3> QED
      BY <2>1, <2>3, <3>1, AppendProperties, LenProperties
  <2>5. k \in 1..Len(accepted[t]) \/ k = Len(accepted[t]) + 1
    BY <2>4
  <2> QED
    BY <1>1, <2>1, <2>2, <2>3, <2>4, <2>5 DEF Timely
<1>4. CASE \E s \in Secondaries : Timeout(s)
  BY <1>1, <1>2, <1>4 DEF Timeout, TypeOK
<1>5. CASE \E s \in Secondaries \ {t} : Receive(s)
  BY <1>1, <1>2, <1>5 DEF Receive, TypeOK
<1>6. CASE UNCHANGED <<accepted, timeouts>>
  BY <1>2, <1>6
<1> QED
  BY <1>3, <1>4, <1>5, <1>6 DEF Next, Primary, Secondary, Register, Discard, Serve, Iterate,
     EndLoop, Try, Send, SendFails, GiveUp, Exit, Signal, Deliver, vars

-------------------------------------------------------------------------------
(* Response numbers *)

\* What a step does to the answers, the buffer and the socket of one secondary.
Keeps(t) == accepted'[t] = accepted[t] /\ slot'[t] = slot[t] /\ replies'[t] = replies[t]
Closes(t) == accepted'[t] = accepted[t] /\ slot'[t] = slot[t] /\ replies'[t] = <<>>
Takes(t) ==
  /\ slot[t] # NoReply /\ slot'[t] = NoReply
  /\ accepted'[t] = Append(accepted[t], [reply |-> slot[t], iteration |-> i[t]])
  /\ replies'[t] = replies[t]
Reads(t) ==
  /\ replies[t] # <<>> /\ replies'[t] = Tail(replies[t])
  /\ slot'[t] \in {slot[t], Head(replies[t])}
  /\ accepted'[t] = accepted[t]
Gets(t) ==
  /\ \E r \in Reply : r.number = request_count + 1 /\ replies'[t] = Append(replies[t], r)
  /\ accepted'[t] = accepted[t] /\ slot'[t] = slot[t]
  /\ request_count' = request_count + 1
  /\ \A u \in Secondaries \ {t} : Keeps(u)

(* Each step is one of these for every secondary, and no count is ever taken back. *)
LEMMA NumMoves ==
  ASSUME TypeOK, LoopInv, [Next]_vars
  PROVE  /\ request_count' \in Nat /\ request_count <= request_count'
         /\ \A t \in Secondaries : Keeps(t) \/ Closes(t) \/ Takes(t) \/ Reads(t) \/ Gets(t)
<1> USE DEF Goes, primaryVars, loopVars
<1>1. CASE UNCHANGED <<accepted, slot, replies, request_count>>
  BY <1>1 DEF Keeps, TypeOK
<1>2. CASE Serve
  <2> DEFINE req == Head(requests)
             r == ReplyTo(req)
  <2>1. req \in Request /\ req.iteration \in Nat
    <3>1. requests \in Seq(Request) /\ requests # <<>>
      BY <1>2 DEF Serve, TypeOK, Request
    <3>2. req \in Request
      BY <3>1, HeadTailProperties
    <3> HIDE DEF req
    <3> QED
      BY <3>2, Sizes DEF Request
  <2>2. /\ replies' \in {replies, [replies EXCEPT ![req.from] = Append(@, r)]}
        /\ request_count' = request_count + 1 /\ UNCHANGED <<slot, accepted>>
    BY <1>2 DEF Serve
  <2> HIDE DEF req
  <2>3. request_count' \in Nat /\ request_count <= request_count'
    BY <2>2 DEF TypeOK
  <2>4. r \in Reply /\ r.number = request_count + 1
    BY <2>1 DEF ReplyTo, Reply, TypeOK
  <2> HIDE DEF r
  <2>5. req.from \in Secondaries
    BY <2>1 DEF Request
  <2>6. ASSUME NEW t \in Secondaries, req.from # t \/ replies' = replies PROVE Keeps(t)
    BY <2>2, <2>5, <2>6 DEF Keeps, TypeOK
  <2>7. ASSUME NEW t \in Secondaries, req.from = t, replies' # replies PROVE Gets(t)
    BY <2>2, <2>4, <2>5, <2>6, <2>7 DEF Gets, TypeOK
  <2> QED
    BY <2>3, <2>6, <2>7
<1>3. ASSUME NEW s \in Secondaries, Send(s) \/ Receive(s) \/ Exit(s) \/ Deliver(s)
      PROVE  /\ request_count' \in Nat /\ request_count <= request_count'
             /\ \A t \in Secondaries : Keeps(t) \/ Closes(t) \/ Takes(t) \/ Reads(t) \/ Gets(t)
  <2>1. request_count' = request_count /\ request_count \in Nat
    BY <1>3 DEF Send, Receive, Exit, Deliver, TypeOK
  <2>2. CASE Send(s)
    <3>1. slot[s] = NoReply
      BY <2>2 DEF Send, LoopInv, TypeOK
    <3> QED
      BY <2>1, <2>2, <3>1 DEF Send, Keeps, TypeOK
  <2>3. CASE Receive(s)
    BY <2>1, <2>3 DEF Receive, Keeps, Takes, TypeOK
  <2>4. CASE Exit(s)
    BY <2>1, <2>4 DEF Exit, Keeps, Closes, TypeOK
  <2>5. CASE Deliver(s)
    BY <2>1, <2>5 DEF Deliver, Keeps, Reads, TypeOK
  <2> QED
    BY <1>3, <2>2, <2>3, <2>4, <2>5
<1> QED
  BY <1>1, <1>2, <1>3 DEF Next, Primary, Secondary, Register, Discard, Iterate, EndLoop,
     Try, SendFails, GiveUp, Timeout, Signal, vars

(* The numbers of one secondary stay in order, and the only new one is the count. *)
LEMMA InOrderStep ==
  ASSUME TypeOK, TypeOK', NEW t \in Secondaries, InOrder(t),
         \A n \in Given(t) : n <= request_count,
         Keeps(t) \/ Closes(t) \/ Takes(t) \/ Reads(t) \/ Gets(t)
  PROVE  /\ InOrder(t)'
         /\ \A n \in Given(t)' : n \in Given(t) \/ (Gets(t) /\ n = request_count + 1)
<1> DEFINE A == accepted[t]
           R == replies[t]
<1>1. /\ A \in Seq(Accepted) /\ R \in Seq(Reply) /\ request_count \in Nat
      /\ Len(A) \in Nat /\ Len(R) \in Nat
  BY LenProperties DEF TypeOK, Accepted
<1>2. /\ \A k \in 1..Len(A) : A[k].reply.number \in Nat
      /\ \A k \in 1..Len(R) : R[k].number \in Nat
      /\ slot[t] # NoReply => slot[t].number \in Nat
  <2>1. /\ \A k \in 1..Len(A) : A[k] \in Accepted
        /\ \A k \in 1..Len(R) : R[k] \in Reply
    BY <1>1, ElementOfSeq
  <2>2. slot[t] # NoReply => slot[t] \in Reply
    BY DEF TypeOK
  <2> QED
    BY <2>1, <2>2 DEF Accepted, Reply
<1>3. CASE Keeps(t)
  BY <1>3 DEF Keeps, InOrder, Given, Answer
<1>4. CASE Closes(t)
  <2>1. Len(replies'[t]) = 0
    BY <1>4, EmptySeq DEF Closes
  <2> QED
    BY <1>4, <2>1 DEF Closes, InOrder, Given, Answer
<1>5. CASE Takes(t)
  <2> DEFINE b == [reply |-> slot[t], iteration |-> i[t]]
             A1 == accepted'[t]
  <2>1. /\ Len(A1) = Len(A) + 1
        /\ \A k \in 1..Len(A) : A1[k].reply.number = A[k].reply.number
        /\ A1[Len(A) + 1].reply.number = slot[t].number
    <3>1. A1 = Append(A, b) /\ b.reply = slot[t] /\ A1 \in Seq(Accepted)
      BY <1>5 DEF Takes, TypeOK, Accepted
    <3> HIDE DEF b
    <3>2. /\ Len(Append(A, b)) = Len(A) + 1
          /\ \A k \in 1..Len(A) : Append(A, b)[k] = A[k]
          /\ Append(A, b)[Len(A) + 1] = b
      <4>1. A \in Seq(Accepted \cup {b}) /\ b \in Accepted \cup {b}
        BY <1>1, SeqMonotonic
      <4> QED
        BY <4>1, AppendProperties
    <3> QED
      BY <3>1, <3>2
  <2>2. /\ slot[t] # NoReply /\ slot'[t] = NoReply /\ replies'[t] = R
        /\ \A k \in 1..Len(A) : A[k].reply.number < slot[t].number
        /\ \A k \in 1..Len(R) : slot[t].number < R[k].number
    BY <1>5 DEF Takes, InOrder, Answer
  <2>3. \A k \in 1..Len(A1) : k \in 1..Len(A) \/ k = Len(A) + 1
    BY <1>1, <2>1
  <2> HIDE DEF A1
  <2>4. \A j, k \in 1..Len(A1) : j < k => A1[j].reply.number < A1[k].reply.number
    <3> SUFFICES ASSUME NEW j \in 1..Len(A1), NEW k \in 1..Len(A1), j < k
                 PROVE  A1[j].reply.number < A1[k].reply.number
      OBVIOUS
    <3>1. j \in 1..Len(A)
      BY <1>1, <2>1
    <3>2. CASE k \in 1..Len(A)
      BY <2>1, <3>1, <3>2 DEF InOrder, Answer
    <3>3. CASE k = Len(A) + 1
      BY <2>1, <2>2, <3>1, <3>3
    <3> QED
      BY <2>3, <3>2, <3>3
  <2>5. \A j \in 1..Len(A1), k \in 1..Len(R) : A1[j].reply.number < R[k].number
    BY <2>1, <2>2, <2>3 DEF InOrder, Answer
  <2>6. InOrder(t)'
    BY <2>2, <2>4, <2>5 DEF InOrder, Answer, A1
  <2>7. \A n \in Given(t)' : n \in Given(t)
    <3>1. \A k \in 1..Len(A1) : A1[k].reply.number \in Given(t)
      BY <2>1, <2>2, <2>3 DEF Given, Answer
    <3> QED
      BY <2>2, <3>1 DEF Given, Answer, A1
  <2> QED
    BY <2>6, <2>7
<1>6. CASE Reads(t)
  <2> DEFINE R1 == replies'[t]
  <2>1. /\ Len(R1) = Len(R) - 1 /\ \A k \in 1..Len(R1) : R1[k] = R[k + 1]
        /\ 1 \in 1..Len(R) /\ slot'[t] \in {slot[t], R[1]}
        /\ accepted'[t] = A
    <3>1. Len(R) \in Nat \ {0}
      BY <1>1, <1>6, EmptySeq DEF Reads
    <3>2. Len(R1) = Len(R) - 1 /\ \A k \in 1..Len(R1) : R1[k] = R[k + 1]
      BY <1>1, <1>6, HeadTailProperties DEF Reads
    <3> QED
      BY <1>6, <3>1, <3>2 DEF Reads
  <2> HIDE DEF R1
  <2>2. \A k \in 1..Len(R1) : k + 1 \in 1..Len(R) /\ 1 < k + 1
    BY <1>1, <2>1
  <2>3. \A j, k \in 1..Len(R1) : j < k => R1[j].number < R1[k].number
    <3> SUFFICES ASSUME NEW j \in 1..Len(R1), NEW k \in 1..Len(R1), j < k
                 PROVE  R1[j].number < R1[k].number
      OBVIOUS
    <3>1. j + 1 < k + 1 /\ j + 1 \in 1..Len(R) /\ k + 1 \in 1..Len(R)
      BY <2>2
    <3> QED
      BY <2>1, <3>1 DEF InOrder
  <2>4. \A j \in 1..Len(A), k \in 1..Len(R1) : A[j].reply.number < R1[k].number
    BY <2>1, <2>2 DEF InOrder, Answer
  <2>5. slot'[t] # NoReply =>
          /\ \A j \in 1..Len(A) : A[j].reply.number < slot'[t].number
          /\ \A k \in 1..Len(R1) : slot'[t].number < R1[k].number
    BY <2>1, <2>2 DEF InOrder, Answer
  <2>6. InOrder(t)'
    BY <2>1, <2>3, <2>4, <2>5 DEF InOrder, Answer, R1
  <2>7. \A n \in Given(t)' : n \in Given(t)
    <3>1. \A k \in 1..Len(R1) : R1[k].number \in Given(t)
      BY <2>1, <2>2 DEF Given
    <3>2. slot'[t] # NoReply => slot'[t].number \in Given(t)
      BY <2>1 DEF Given
    <3>3. \A k \in 1..Len(accepted'[t]) : accepted'[t][k].reply.number \in Given(t)
      BY <2>1 DEF Given, Answer
    <3> QED
      BY <3>1, <3>2, <3>3 DEF Given, Answer, R1
  <2> QED
    BY <2>6, <2>7
<1>7. CASE Gets(t)
  <2>1. PICK r \in Reply : r.number = request_count + 1 /\ replies'[t] = Append(R, r)
    BY <1>7 DEF Gets
  <2> DEFINE R1 == replies'[t]
  <2>2. /\ Len(R1) = Len(R) + 1 /\ \A k \in 1..Len(R) : R1[k] = R[k]
        /\ R1[Len(R) + 1] = r
    BY <1>1, <2>1, AppendProperties
  <2>3. accepted'[t] = A /\ slot'[t] = slot[t]
    BY <1>7 DEF Gets
  <2> HIDE DEF R1
  <2>4. \A k \in 1..Len(R1) : k \in 1..Len(R) \/ k = Len(R) + 1
    BY <1>1, <2>2
  <2>5. /\ \A k \in 1..Len(A) : A[k].reply.number < r.number
        /\ \A k \in 1..Len(R) : R[k].number < r.number
        /\ slot[t] # NoReply => slot[t].number < r.number
    <3>1. /\ \A k \in 1..Len(A) : A[k].reply.number \in Given(t)
          /\ \A k \in 1..Len(R) : R[k].number \in Given(t)
          /\ slot[t] # NoReply => slot[t].number \in Given(t)
      BY DEF Given, Answer
    <3> QED
      BY <1>1, <1>2, <2>1, <3>1
  <2>6. \A j, k \in 1..Len(R1) : j < k => R1[j].number < R1[k].number
    <3> SUFFICES ASSUME NEW j \in 1..Len(R1), NEW k \in 1..Len(R1), j < k
                 PROVE  R1[j].number < R1[k].number
      OBVIOUS
    <3>1. j \in 1..Len(R)
      BY <1>1, <2>2
    <3>2. CASE k \in 1..Len(R)
      BY <2>2, <3>1, <3>2 DEF InOrder
    <3>3. CASE k = Len(R) + 1
      BY <2>2, <2>5, <3>1, <3>3
    <3> QED
      BY <2>4, <3>2, <3>3
  <2>7. \A j \in 1..Len(A), k \in 1..Len(R1) : A[j].reply.number < R1[k].number
    BY <2>2, <2>4, <2>5 DEF InOrder, Answer
  <2>8. slot[t] # NoReply => \A k \in 1..Len(R1) : slot[t].number < R1[k].number
    BY <2>2, <2>4, <2>5 DEF InOrder
  <2>9. InOrder(t)'
    BY <2>3, <2>6, <2>7, <2>8 DEF InOrder, Answer, R1
  <2>10. \A n \in Given(t)' : n \in Given(t) \/ n = request_count + 1
    <3>1. \A k \in 1..Len(R1) : R1[k].number \in Given(t) \/ R1[k].number = request_count + 1
      BY <2>1, <2>2, <2>4 DEF Given
    <3>2. slot'[t] # NoReply => slot'[t].number \in Given(t)
      BY <2>3 DEF Given
    <3>3. \A k \in 1..Len(accepted'[t]) : accepted'[t][k].reply.number \in Given(t)
      BY <2>3 DEF Given, Answer
    <3>4. Given(t)' = {accepted'[t][k].reply.number : k \in 1..Len(accepted'[t])}
                        \cup {R1[k].number : k \in 1..Len(R1)}
                        \cup (IF slot'[t] = NoReply THEN {} ELSE {slot'[t].number})
      BY DEF Given, Answer, R1
    <3> QED
      BY <3>1, <3>2, <3>3, <3>4
  <2> QED
    BY <1>7, <2>9, <2>10
<1> QED
  BY <1>3, <1>4, <1>5, <1>6, <1>7

(* The numbers of every secondary stay in order and apart. *)
LEMMA NumStep == MInv /\ [Next]_vars => NumInv'
<1> SUFFICES ASSUME MInv, [Next]_vars PROVE NumInv'
  OBVIOUS
<1>1. TypeOK /\ LoopInv /\ TypeOK' /\ NumInv
  BY TypeStep DEF MInv, TInv
<1>2. /\ request_count \in Nat /\ request_count' \in Nat /\ request_count <= request_count'
      /\ \A t \in Secondaries : Keeps(t) \/ Closes(t) \/ Takes(t) \/ Reads(t) \/ Gets(t)
  BY <1>1, NumMoves DEF TypeOK
<1>3. ASSUME NEW t \in Secondaries
      PROVE  /\ InOrder(t)'
             /\ \A n \in Given(t)' : n \in Given(t) \/ (Gets(t) /\ n = request_count + 1)
  <2>1. InOrder(t) /\ \A n \in Given(t) : n <= request_count
    BY <1>1 DEF NumInv
  <2> QED
    BY <1>1, <1>2, <2>1, InOrderStep
<1>4. ASSUME NEW t \in Secondaries PROVE Given(t) \subseteq Nat
  <2>1. /\ accepted[t] \in Seq(Accepted) /\ replies[t] \in Seq(Reply)
        /\ slot[t] # NoReply => slot[t] \in Reply
    BY <1>1 DEF TypeOK, Accepted
  <2>2. /\ \A k \in 1..Len(accepted[t]) : accepted[t][k] \in Accepted
        /\ \A k \in 1..Len(replies[t]) : replies[t][k] \in Reply
    BY <2>1, ElementOfSeq
  <2> QED
    BY <2>1, <2>2 DEF Given, Answer, Accepted, Reply
<1>5. ASSUME NEW t \in Secondaries, NEW n \in Given(t)' PROVE n <= request_count'
  <2>1. CASE n \in Given(t)
    <3>1. n <= request_count /\ n \in Nat
      BY <1>1, <1>4, <2>1 DEF NumInv
    <3> QED
      BY <1>2, <3>1
  <2>2. CASE Gets(t) /\ n = request_count + 1
    BY <1>2, <2>2 DEF Gets
  <2> QED
    BY <1>3, <1>5, <2>1, <2>2
<1>6. ASSUME NEW s \in Secondaries, NEW t \in Secondaries, s # t,
             NEW n \in Given(s)', n \in Given(t)'
      PROVE  FALSE
  <2>1. n \in Given(s) \/ (Gets(s) /\ n = request_count + 1)
    BY <1>3
  <2>2. n \in Given(t) \/ (Gets(t) /\ n = request_count + 1)
    BY <1>3, <1>6
  <2>3. ~(n \in Given(s) /\ n \in Given(t))
    BY <1>1, <1>6 DEF NumInv
  <2>4. \A u \in Secondaries : ~(request_count + 1 \in Given(u))
    <3>1. ~(request_count + 1 <= request_count)
      BY <1>2
    <3> QED
      BY <1>1, <3>1 DEF NumInv
  <2>5. ASSUME NEW u \in Secondaries, Gets(u) PROVE \A v \in Secondaries \ {u} : Given(v)' = Given(v)
    BY <2>5 DEF Gets, Keeps, Given, Answer
  <2>6. ~(Gets(s) /\ n = request_count + 1)
    <3>1. Gets(s) => n \in Given(t)
      BY <1>6, <2>5
    <3> QED
      BY <2>4, <3>1
  <2>7. ~(Gets(t) /\ n = request_count + 1)
    <3>1. Gets(t) => n \in Given(s)
      BY <1>6, <2>5
    <3> QED
      BY <2>4, <3>1
  <2> QED
    BY <2>1, <2>2, <2>3, <2>6, <2>7
<1>7. \A s, t \in Secondaries : s # t => Given(s)' \cap Given(t)' = {}
  BY <1>6
<1> QED
  BY <1>3, <1>5, <1>7 DEF NumInv

(* At the start nothing is on its way and no number was given. *)
LEMMA MInit == Init => MInv
<1> SUFFICES ASSUME Init PROVE MInv
  OBVIOUS
<1>1. Len(<<>>) = 0
  BY EmptySeq
<1>2. TypeOK /\ LoopInv
  BY TypeInit
<1>3. ASSUME NEW s \in Secondaries
      PROVE  /\ Len(accepted[s]) = 0 /\ Len(replies[s]) = 0 /\ Len(requests) = 0
             /\ slot[s] = NoReply
  BY <1>1 DEF Init
<1>4. BacklogIsTimeouts
  <2> SUFFICES ASSUME NEW s \in Secondaries PROVE InFlight(s) <= Allowed(s)
    BY DEF BacklogIsTimeouts, Allowed
  <2>1. /\ InFlight(s) = Asked(s) + Len(replies[s]) + Held(s) /\ Asked(s) \in Nat
        /\ Allowed(s) \in Nat
    BY <1>2, Counted
  <2>2. Asked(s) <= Len(requests)
    <3>1. requests \in Seq(Request)
      BY <1>2 DEF TypeOK, Request
    <3> QED
      BY <3>1, WhereFinite DEF Asked
  <2>3. Asked(s) = 0 /\ Held(s) = 0
    BY <1>3, <2>1, <2>2 DEF Held
  <2> QED
    BY <1>3, <2>1, <2>3
<1>5. TimelyInv
  BY <1>3 DEF TimelyInv, TimelyFor
<1>6. StaleOnlyAfterTimeout
  BY <1>3 DEF StaleOnlyAfterTimeout
<1>7. \A s \in Secondaries : Given(s) = {} /\ InOrder(s)
  BY <1>3 DEF Given, InOrder
<1>8. NumInv
  BY <1>7 DEF NumInv
<1> QED
  BY <1>2, <1>4, <1>5, <1>6, <1>8 DEF MInv, TInv

(* MInv is an invariant of the senders, the channel and the primary. *)
THEOREM MessagesAccounted == Spec => []MInv
<1>1. MInv /\ [Next]_vars => MInv'
  BY TypeStep, BacklogStep, TimelyStep, StaleStep, NumStep DEF MInv, TInv
<1> QED
  BY <1>1, MInit, PTL DEF Spec

(* Requests and replies keep their form, retry and i their bounds (sec.c:66-106). *)
THEOREM MpTypes == Spec => []TypeOK
<1>1. MInv => TypeOK
  BY DEF MInv, TInv
<1> QED
  BY <1>1, MessagesAccounted, PTL

(* Nothing is duplicated on the way: what is on it beyond the pending message is left   *)
(* from attempts that timed out.                                                        *)
THEOREM BacklogFromTimeouts == Spec => []BacklogIsTimeouts
<1>1. MInv => BacklogIsTimeouts
  BY DEF MInv, TInv
<1> QED
  BY <1>1, MessagesAccounted, PTL

(* A secondary that never timed out printed for each iteration the answer to it         *)
(* (sec.c:79-98), for any number of attempts and of other secondaries.                  *)
THEOREM StaleNeedsTimeout == Spec => []StaleOnlyAfterTimeout
<1>1. MInv => StaleOnlyAfterTimeout
  BY DEF MInv, TInv
<1> QED
  BY <1>1, MessagesAccounted, PTL

(* After a signal a secondary that is not in an attempt begins none (sec.c:49, 72), and *)
(* one that is ends its loop with it, for any number of requests and attempts.          *)
THEOREM SignalEndsAttempts == Spec => NoAttemptAfterSignal
<1>1. TypeOK /\ [Next]_vars =>
        [\A s \in Secondaries :
           force_quit[s] /\ pc[s] \notin {"trying", "waiting"}
             => force_quit'[s] /\ pc'[s] \notin {"trying", "waiting"}]_vars
  <2> SUFFICES ASSUME TypeOK, Next, NEW s \in Secondaries,
                      force_quit[s], pc[s] \notin {"trying", "waiting"}
               PROVE  force_quit'[s] /\ pc'[s] \notin {"trying", "waiting"}
    OBVIOUS
  <2> USE DEF Goes, primaryVars, loopVars
  <2>1. CASE Primary
    BY <2>1 DEF Primary, Register, Discard, Serve
  <2>2. ASSUME NEW t \in Secondaries, Secondary(t) \/ Signal(t) \/ Deliver(t)
        PROVE  force_quit'[s] /\ pc'[s] \notin {"trying", "waiting"}
    BY <2>2 DEF Secondary, Iterate, EndLoop, Try, MayTry, Send, SendFails, GiveUp, Timeout,
       Receive, Exit, Signal, Deliver, TypeOK
  <2> QED
    BY <2>1, <2>2 DEF Next
<1> QED
  BY <1>1, MpTypes, PTL DEF Spec, NoAttemptAfterSignal

(* The numbers of a secondary as a sequence. *)
LEMMA NumbersOrdered ==
  ASSUME TypeOK, NEW s \in Secondaries, InOrder(s)
  PROVE  Numbers(s) \in Seq(Nat) /\ Range(Numbers(s)) = Given(s) /\ Increasing(Numbers(s))
<1> DEFINE taken == [k \in 1..Len(accepted[s]) |-> accepted[s][k].reply.number]
           held == IF slot[s] = NoReply THEN <<>> ELSE <<slot[s].number>>
           coming == [k \in 1..Len(replies[s]) |-> replies[s][k].number]
<1>1. /\ accepted[s] \in Seq(Accepted) /\ replies[s] \in Seq(Reply)
      /\ Len(accepted[s]) \in Nat /\ Len(replies[s]) \in Nat
      /\ slot[s] # NoReply => slot[s] \in Reply
  BY LenProperties DEF TypeOK, Accepted
<1>2. /\ \A k \in 1..Len(accepted[s]) : accepted[s][k].reply.number \in Nat
      /\ \A k \in 1..Len(replies[s]) : replies[s][k].number \in Nat
      /\ slot[s] # NoReply => slot[s].number \in Nat
  <2>1. /\ \A k \in 1..Len(accepted[s]) : accepted[s][k] \in Accepted
        /\ \A k \in 1..Len(replies[s]) : replies[s][k] \in Reply
    BY <1>1, ElementOfSeq
  <2> QED
    BY <1>1, <2>1 DEF Accepted, Reply
<1>3. /\ taken \in Seq(Nat) /\ Len(taken) = Len(accepted[s])
      /\ \A k \in 1..Len(accepted[s]) : taken[k] = Answer(s, k)
  BY <1>1, <1>2 DEF Answer
<1>4. /\ coming \in Seq(Nat) /\ Len(coming) = Len(replies[s])
      /\ \A k \in 1..Len(replies[s]) : coming[k] = replies[s][k].number
  BY <1>1, <1>2
<1>5. /\ held \in Seq(Nat) /\ Increasing(held)
      /\ Range(held) = IF slot[s] = NoReply THEN {} ELSE {slot[s].number}
  BY <1>2, EmptyOrdered, SingletonOrdered
<1> HIDE DEF taken, held, coming
<1>6. /\ Range(taken) = {Answer(s, k) : k \in 1..Len(accepted[s])}
      /\ Range(coming) = {replies[s][k].number : k \in 1..Len(replies[s])}
  <2>1. /\ Range(taken) = {taken[k] : k \in 1..Len(taken)}
        /\ Range(coming) = {coming[k] : k \in 1..Len(coming)}
    BY <1>3, <1>4, RangeEquality
  <2>2. Range(taken) = {Answer(s, k) : k \in 1..Len(accepted[s])}
    BY <1>3, <2>1
  <2>3. Range(coming) = {replies[s][k].number : k \in 1..Len(replies[s])}
    BY <1>4, <2>1
  <2> QED
    BY <2>2, <2>3
<1>7. Increasing(taken) /\ Increasing(coming)
  BY <1>3, <1>4 DEF Increasing, InOrder
<1>8. /\ Before(Range(taken), Range(held)) /\ Before(Range(taken), Range(coming))
      /\ Before(Range(held), Range(coming))
  BY <1>5, <1>6 DEF Before, InOrder
<1> DEFINE first == taken \o held
<1>9. /\ first \in Seq(Nat) /\ Range(first) = Range(taken) \cup Range(held) /\ Increasing(first)
  BY <1>3, <1>5, <1>7, <1>8, ConcatOrdered
<1> HIDE DEF first
<1>10. Before(Range(first), Range(coming))
  BY <1>8, <1>9 DEF Before
<1>11. /\ first \o coming \in Seq(Nat)
       /\ Range(first \o coming) = Range(first) \cup Range(coming)
       /\ Increasing(first \o coming)
  BY <1>4, <1>7, <1>9, <1>10, ConcatOrdered
<1>12. Numbers(s) = first \o coming
  BY DEF Numbers, first, taken, held, coming
<1> QED
  BY <1>5, <1>6, <1>9, <1>11, <1>12, Zenon DEF Given

(* Response numbers grow for every secondary and none is given to two of them           *)
(* (prim.c:14, sec.c:79), although replies overwrite each other in the buffer.          *)
THEOREM NumbersGrowAlways == Spec => []NumbersGrow
<1>1. MInv => NumbersGrow
  <2> SUFFICES ASSUME MInv PROVE NumbersGrow
    OBVIOUS
  <2>1. TypeOK /\ NumInv
    BY DEF MInv, TInv
  <2>2. ASSUME NEW s \in Secondaries
        PROVE  /\ Numbers(s) \in Seq(Nat) /\ Range(Numbers(s)) = Given(s)
               /\ Increasing(Numbers(s))
    BY <2>1, NumbersOrdered DEF NumInv
  <2>3. ASSUME NEW s \in Secondaries
        PROVE  \A k \in 1..Len(Numbers(s)) : Numbers(s)[k] \in Given(s)
    <3>1. \A k \in 1..Len(Numbers(s)) : Numbers(s)[k] \in Range(Numbers(s))
      BY <2>2, Holding
    <3> QED
      BY <2>2, <3>1
  <2>4. \A s, t \in Secondaries : s # t =>
          \A j \in 1..Len(Numbers(s)) : \A k \in 1..Len(Numbers(t)) :
            Numbers(s)[j] # Numbers(t)[k]
    BY <2>1, <2>3 DEF NumInv
  <2> QED
    BY <2>2, <2>4 DEF NumbersGrow, Increasing
<1> QED
  BY <1>1, MessagesAccounted, PTL
===============================================================================
