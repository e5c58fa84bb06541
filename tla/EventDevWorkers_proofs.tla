------------------------- MODULE EventDevWorkers_proofs -------------------------
(***************************************************************************)
(* What is proved of eventdev/main.c for any number of events, workers and *)
(* ports.  Two facts carry the proofs.                                     *)
(*                                                                         *)
(* Every event delivered and not yet released counts for its port: in the  *)
(* ring to the worker, in the worker's hands, or as the release on its way *)
(* back.  Only the port the flow is pinned to can have any, and the device *)
(* counts at least as many.  A worker that returned keeps its event, so it *)
(* keeps the flow, and no other worker can have an event at all.           *)
(*                                                                         *)
(* The events sent stand in line: processed, in a port's ring, queued, on  *)
(* the way to the scheduler.  Each stage is in order and all of it is      *)
(* before the next stage; none but the lost ones is missing.               *)
(***************************************************************************)
EXTENDS EventDevWorkers, SequenceFacts

\* The events delivered to port p and not yet released there.
InHand(p) == IF p \in Workers /\ workerPc[p] # "idle" THEN 1 ELSE 0
Releases(p) == Cardinality(Where(rx[p], {Release}))
Held(p) == Len(cq[p]) + InHand(p) + Releases(p)

FlowHolds ==
  /\ \A p \in Ports : Held(p) <= inflight /\ (p # flow => Held(p) = 0)
  /\ flow = NoPort => inflight = 0
  /\ flow # NoPort => inflight >= 1

\* The stages an event goes through once it was sent.
Sent == 1..(IF mainPc = "writing" THEN sent - 1 ELSE sent)
Incoming == Range(rx[0]) \ {Release}
Delivered == UNION {Range(cq[p]) : p \in Ports}

\* Only port 0 takes events.
Senders ==
  /\ mainPc = "writing" => sent >= 1
  /\ \A p \in Ports : p # 0 => Range(rx[p]) \subseteq {Release}

\* The events of a port's ring, releases left out, are in order.
Ascending(q) ==
  \A j, k \in 1..Len(q) : j < k /\ q[j] # Release /\ q[k] # Release => q[j] < q[k]

\* The order inside a stage ...
StagesOrdered ==
  /\ \A j, k \in 1..Len(processed) : j < k => processed[j].event < processed[k].event
  /\ \A p \in Ports : Increasing(cq[p])
  /\ Increasing(queue)
  /\ Ascending(rx[0])

\* ... and between the stages.
InLine ==
  /\ Before(Done, Delivered) /\ Before(Done, Range(queue)) /\ Before(Done, Incoming)
  /\ Before(Delivered, Range(queue)) /\ Before(Delivered, Incoming)
  /\ Before(Range(queue), Incoming)

NoneMissing ==
  /\ Done \cup Delivered \cup Range(queue) \cup Incoming \subseteq Sent
  /\ Sent \subseteq Done \cup Delivered \cup Range(queue) \cup Incoming \cup lost

\* A worker that returned has processed an exit event.
ReturnedOnExit == Returned # {} => \E x \in Done : x > NUM_EVENTS

EInv ==
  /\ TypeOK
  /\ FlowHolds
  /\ Senders
  /\ StagesOrdered
  /\ InLine
  /\ NoneMissing
  /\ ReturnedOnExit

-------------------------------------------------------------------------------
(* Types *)

(* The parameters are numbers, and there are no more workers than ports. *)
LEMMA Sizes ==
  ASSUME worker_count \in WorkerCounts
  PROVE  /\ worker_count \in Nat /\ worker_count >= 1 /\ worker_count <= NPORTS
         /\ NUM_EVENTS \in Nat /\ NPORTS \in Nat /\ LAST \in Nat /\ LAST >= NUM_EVENTS
         /\ 0 \in Ports /\ 0 \in Workers /\ Workers \subseteq Ports
         /\ Workers \subseteq Nat /\ Ports \subseteq Nat /\ NoPort \notin Ports
<1>1. NUM_EVENTS \in Nat /\ NPORTS \in Nat /\ NoPort \notin Nat
  BY EventAssumption
<1>2. worker_count \in 1..NPORTS
  BY EventAssumption
<1> QED
  BY <1>1, <1>2 DEF LAST, Ports, Workers

(* The message goes to the port's ring or is lost. *)
LEMMA EnqueueTypes ==
  ASSUME TypeOK, NEW p \in Ports, NEW m \in Events \cup {Release},
         NEW overlaps \in BOOLEAN, Enqueue(p, m, overlaps)
  PROVE  /\ rx' \in [Ports -> Seq(Events \cup {Release})]
         /\ doomed' \in BOOLEAN
         /\ lost' \in SUBSET (Events \cup {Release})
<1>1. Append(rx[p], m) \in Seq(Events \cup {Release})
  <2>1. rx[p] \in Seq(Events \cup {Release})
    BY DEF TypeOK
  <2> QED
    BY <2>1, AppendProperties
<1> QED
  BY <1>1 DEF TypeOK, Enqueue

(* The types of what a step of the program leaves alone. *)
LEMMA SameCount ==
  ASSUME worker_count' = worker_count
  PROVE  Workers' = Workers /\ LAST' = LAST /\ Events' = Events
  BY DEF Workers, LAST, Events

LEMMA TypeInit == Init => TypeOK
<1> SUFFICES ASSUME Init PROVE TypeOK
  OBVIOUS
<1>1. LAST \in Nat
  BY Sizes DEF Init
<1>2. /\ <<>> \in Seq(Events) /\ <<>> \in Seq(Events \cup {Release})
      /\ <<>> \in Seq([lcore : Workers, event : Events])
  BY EmptySeq
<1>3. /\ rx \in [Ports -> Seq(Events \cup {Release})]
      /\ cq \in [Ports -> Seq(Events)]
  BY <1>2 DEF Init
<1>4. processed \in Seq([lcore : Workers, event : Events]) /\ queue \in Seq(Events)
  BY <1>2 DEF Init
<1>5. /\ workerPc \in [Workers -> {"idle", "busy", "releasing", "returned"}]
      /\ sent \in 0..(LAST) /\ inflight \in Nat
  BY <1>1 DEF Init
<1> QED
  BY <1>3, <1>4, <1>5 DEF Init, TypeOK

(* Every step keeps the types, if the last release is not counted down below zero: *)
(* FlowHolds says that it is not.                                                  *)
LEMMA TypeStep ==
  ASSUME TypeOK, FlowHolds, Senders, [Next]_vars
  PROVE  TypeOK'
<1>1. /\ worker_count' \in WorkerCounts
      /\ Workers' = Workers /\ LAST' = LAST /\ Events' = Events
  <2>1. worker_count' = worker_count
    BY DEF Next, vars, Main, BeginSend, EndSend, MainReturn, Scheduler, Schedule, Pull, Worker,
           BeginRelease, EndRelease, Take
  <2> QED
    BY <2>1, SameCount DEF TypeOK
<1>2. /\ LAST \in Nat /\ 0 \in Ports /\ 0 \in Workers /\ Workers \subseteq Ports
      /\ \A w \in Workers : w \in Ports
  BY Sizes DEF TypeOK
<1>3. CASE BeginSend
  BY <1>1, <1>2, <1>3 DEF BeginSend, TypeOK, schedVars, portVars
<1>4. CASE EndSend
  <2>1. sent \in Events
    BY <1>2, <1>4 DEF EndSend, Senders, TypeOK, Events
  <2>2. /\ rx' \in [Ports -> Seq(Events \cup {Release})]
        /\ doomed' \in BOOLEAN
        /\ lost' \in SUBSET (Events \cup {Release})
    BY <1>2, <1>4, <2>1, EnqueueTypes DEF EndSend
  <2> QED
    BY <1>1, <1>4, <2>2 DEF EndSend, TypeOK, schedVars
<1>5. CASE MainReturn
  BY <1>1, <1>5 DEF MainReturn, TypeOK, schedVars, portVars
<1>6. ASSUME NEW w \in Workers, BeginRelease(w) PROVE TypeOK'
  BY <1>1, <1>6 DEF BeginRelease, WorkerGoes, TypeOK, schedVars, portVars, mainVars
<1>7. ASSUME NEW w \in Workers, EndRelease(w) PROVE TypeOK'
  <2>1. /\ rx' \in [Ports -> Seq(Events \cup {Release})]
        /\ doomed' \in BOOLEAN
        /\ lost' \in SUBSET (Events \cup {Release})
    BY <1>2, <1>7, EnqueueTypes DEF EndRelease
  <2>2. workerPc' \in [Workers -> {"idle", "busy", "releasing", "returned"}]
    BY <1>7 DEF EndRelease, WorkerGoes, TypeOK
  <2> QED
    BY <1>1, <1>7, <2>1, <2>2 DEF EndRelease, TypeOK, schedVars, mainVars
<1>8. ASSUME NEW w \in Workers, Take(w) PROVE TypeOK'
  <2>1. cq[w] \in Seq(Events) /\ cq[w] # <<>>
    BY <1>2, <1>8 DEF Take, TypeOK
  <2>2. Head(cq[w]) \in Events /\ Tail(cq[w]) \in Seq(Events)
    BY <2>1, HeadTailProperties
  <2>3. Append(processed, [lcore |-> w, event |-> Head(cq[w])])
          \in Seq([lcore : Workers, event : Events])
    <3>1. [lcore |-> w, event |-> Head(cq[w])] \in [lcore : Workers, event : Events]
      BY <2>2
    <3>2. processed \in Seq([lcore : Workers, event : Events])
      BY DEF TypeOK
    <3> QED
      BY <3>1, <3>2, AppendProperties
  <2>4. cq' \in [Ports -> Seq(Events)]
    BY <1>8, <2>2 DEF Take, TypeOK
  <2>5. workerPc' \in [Workers -> {"idle", "busy", "releasing", "returned"}]
    BY <1>8 DEF Take, WorkerGoes, TypeOK
  <2>6. processed' \in Seq([lcore : Workers, event : Events])
    BY <1>8, <2>3 DEF Take
  <2> QED
    BY <1>1, <1>8, <2>4, <2>5, <2>6 DEF Take, TypeOK, portVars, mainVars
<1>9. ASSUME NEW p \in Ports, Pull(p) PROVE TypeOK'
  <2>1. rx[p] \in Seq(Events \cup {Release}) /\ rx[p] # <<>>
    BY <1>9 DEF Pull, TypeOK
  <2>2. /\ Head(rx[p]) \in Events \cup {Release}
        /\ Tail(rx[p]) \in Seq(Events \cup {Release})
    BY <2>1, HeadTailProperties
  <2>3. rx' \in [Ports -> Seq(Events \cup {Release})]
    BY <1>9, <2>2 DEF Pull, TypeOK
  <2>4. CASE Head(rx[p]) = Release
    <3>1. Releases(p) >= 1
      <4>1. Cardinality(Where(rx[p], {Release})) =
              Cardinality(Where(Tail(rx[p]), {Release}))
                + (IF Head(rx[p]) \in {Release} THEN 1 ELSE 0)
        BY <2>1, WhereTail
      <4>2. Cardinality(Where(Tail(rx[p]), {Release})) \in Nat
        BY <2>2, WhereFinite
      <4> QED
        BY <2>4, <4>1, <4>2 DEF Releases
    <3>2. inflight >= 1
      <4>1. /\ Len(cq[p]) \in Nat /\ InHand(p) \in {0, 1} /\ Releases(p) \in Nat
            /\ Held(p) <= inflight /\ inflight \in Nat
        <5>1. Len(cq[p]) \in Nat
          BY LenProperties DEF TypeOK
        <5>2. Releases(p) \in Nat
          BY <2>1, WhereFinite DEF Releases
        <5> QED
          BY <5>1, <5>2 DEF FlowHolds, InHand, TypeOK
      <4> QED
        BY <3>1, <4>1 DEF Held
    <3>3. /\ inflight' = inflight - 1 /\ flow' \in {NoPort, flow} /\ queue' = queue
      BY <1>9, <2>4 DEF Pull
    <3>4. inflight' \in Nat /\ flow' \in Ports \cup {NoPort}
      BY <3>2, <3>3 DEF TypeOK
    <3> QED
      BY <1>1, <1>9, <2>3, <3>3, <3>4 DEF Pull, TypeOK, mainVars
  <2>5. CASE Head(rx[p]) # Release
    <3>1. Append(queue, Head(rx[p])) \in Seq(Events)
      BY <2>2, <2>5, AppendProperties DEF TypeOK
    <3>2. queue' \in Seq(Events) /\ flow' = flow /\ inflight' = inflight
      BY <1>9, <2>5, <3>1 DEF Pull
    <3> QED
      BY <1>1, <1>9, <2>3, <3>2 DEF Pull, TypeOK, mainVars
  <2> QED
    BY <2>4, <2>5
<1>10. CASE Schedule
  <2>1. Head(queue) \in Events /\ Tail(queue) \in Seq(Events)
    BY <1>10, HeadTailProperties DEF Schedule, TypeOK
  <2>2. PICK p \in Destinations : /\ cq' = [cq EXCEPT ![p] = Append(@, Head(queue))]
                                  /\ flow' = p
    BY <1>10 DEF Schedule
  <2>3. p \in Ports
    BY DEF Destinations, TypeOK
  <2>4. Append(cq[p], Head(queue)) \in Seq(Events)
    BY <2>1, <2>3, AppendProperties DEF TypeOK
  <2>5. cq' \in [Ports -> Seq(Events)]
    BY <2>2, <2>3, <2>4 DEF TypeOK
  <2>6. inflight' \in Nat /\ queue' \in Seq(Events)
    BY <1>10, <2>1 DEF Schedule, TypeOK
  <2> QED
    BY <1>1, <1>10, <2>2, <2>3, <2>5, <2>6 DEF Schedule, TypeOK, portVars, mainVars
<1>11. CASE UNCHANGED vars
  BY <1>1, <1>11 DEF vars, TypeOK, schedVars, portVars, mainVars
<1> QED
  BY <1>3, <1>4, <1>5, <1>6, <1>7, <1>8, <1>9, <1>10, <1>11
     DEF Next, Main, Scheduler, Worker

-------------------------------------------------------------------------------
(* Who has the flow *)

(* What a port holds is a number, and zero only if each part is. *)
LEMMA HeldNumbers ==
  ASSUME TypeOK, NEW p \in Ports
  PROVE  /\ Len(cq[p]) \in Nat /\ InHand(p) \in {0, 1} /\ Releases(p) \in Nat
         /\ Held(p) \in Nat
         /\ Held(p) = 0 <=> /\ cq[p] = <<>> /\ InHand(p) = 0 /\ Releases(p) = 0
<1>1. cq[p] \in Seq(Events) /\ rx[p] \in Seq(Events \cup {Release})
  BY DEF TypeOK
<1>2. Len(cq[p]) \in Nat /\ (Len(cq[p]) = 0 <=> cq[p] = <<>>)
  BY <1>1, LenProperties, EmptySeq
<1>3. Releases(p) \in Nat
  BY <1>1, WhereFinite DEF Releases
<1>4. InHand(p) \in {0, 1}
  BY DEF InHand
<1> QED
  BY <1>2, <1>3, <1>4 DEF Held

(* A port that has something has the flow, and is the only one that has. *)
LEMMA HoldsFlow ==
  ASSUME TypeOK, FlowHolds, NEW p \in Ports,
         \/ cq[p] # <<>>
         \/ p \in Workers /\ workerPc[p] # "idle"
         \/ Releases(p) >= 1
  PROVE  /\ flow = p /\ inflight >= 1
         /\ \A q \in Ports \ {p} : Held(q) = 0 /\ cq[q] = <<>>
<1>1. Held(p) # 0
  <2>1. Held(p) = 0 => cq[p] = <<>> /\ InHand(p) = 0 /\ ~(Releases(p) >= 1)
    BY HeldNumbers
  <2> QED
    BY <2>1 DEF InHand
<1>2. flow = p
  BY <1>1 DEF FlowHolds
<1>3. ASSUME NEW q \in Ports \ {p} PROVE Held(q) = 0 /\ cq[q] = <<>>
  <2>1. Held(q) = 0
    BY <1>2 DEF FlowHolds
  <2> QED
    BY <2>1, HeldNumbers
<1>4. p # NoPort
  BY Sizes DEF TypeOK
<1> QED
  BY <1>2, <1>3, <1>4 DEF FlowHolds

(* One message more in a port's ring, or none. *)
LEMMA EnqueueReleases ==
  ASSUME TypeOK, NEW p \in Ports, NEW m \in Events \cup {Release},
         NEW overlaps \in BOOLEAN, Enqueue(p, m, overlaps)
  PROVE  /\ \A q \in Ports \ {p} : rx'[q] = rx[q]
         /\ \/ rx'[p] = rx[p]
            \/ /\ rx'[p] = Append(rx[p], m)
               /\ Cardinality(Where(Append(rx[p], m), {Release})) =
                    Releases(p) + (IF m = Release THEN 1 ELSE 0)
<1>1. rx[p] \in Seq(Events \cup {Release})
  BY DEF TypeOK
<1>2. Cardinality(Where(Append(rx[p], m), {Release})) =
        Cardinality(Where(rx[p], {Release})) + (IF m \in {Release} THEN 1 ELSE 0)
  BY <1>1, WhereAppend
<1> QED
  BY <1>2 DEF Enqueue, TypeOK, Releases

(* The same numbers after a step. *)
LEMMA HeldNext == TypeOK' => \A q \in Ports : Held(q)' \in Nat
<1>1. TypeOK => \A q \in Ports : Held(q) \in Nat
  BY HeldNumbers
<1>2. TypeOK' => (\A q \in Ports : Held(q) \in Nat)'
  BY <1>1, PTL
<1> QED
  BY <1>2

(* A step that leaves each port no more than it had, and the flow where it is. *)
LEMMA FlowStays ==
  ASSUME TypeOK, FlowHolds, TypeOK', flow' = flow, inflight' = inflight,
         \A p \in Ports : Held(p)' <= Held(p)
  PROVE  FlowHolds'
<1>1. ASSUME NEW p \in Ports
      PROVE  Held(p)' <= inflight' /\ (p # flow' => Held(p)' = 0)
  <2>1. Held(p) \in Nat /\ Held(p) <= inflight /\ (p # flow => Held(p) = 0)
    BY HeldNumbers DEF FlowHolds
  <2>2. Held(p)' \in Nat
    BY HeldNext
  <2>3. Held(p)' <= Held(p) /\ inflight \in Nat
    BY DEF TypeOK
  <2> HIDE DEF Held
  <2> QED
    BY <2>1, <2>2, <2>3
<1> QED
  BY <1>1 DEF FlowHolds

(* A message taken from a port's ring. *)
LEMMA PulledReleases ==
  ASSUME TypeOK, NEW p \in Ports, rx[p] # <<>>
  PROVE  /\ Cardinality(Where(Tail(rx[p]), {Release})) \in Nat
         /\ Releases(p) = Cardinality(Where(Tail(rx[p]), {Release}))
                            + (IF Head(rx[p]) = Release THEN 1 ELSE 0)
<1>1. rx[p] \in Seq(Events \cup {Release})
  BY DEF TypeOK
<1>2. Tail(rx[p]) \in Seq(Events \cup {Release})
  BY <1>1, HeadTailProperties
<1>3. Cardinality(Where(rx[p], {Release})) =
        Cardinality(Where(Tail(rx[p]), {Release})) + (IF Head(rx[p]) \in {Release} THEN 1 ELSE 0)
  BY <1>1, WhereTail
<1>4. Cardinality(Where(Tail(rx[p]), {Release})) \in Nat
  BY <1>2, WhereFinite
<1> QED
  BY <1>3, <1>4 DEF Releases

(* The scheduler takes a release back: the port it came from has the flow. *)
LEMMA PullRelease ==
  ASSUME TypeOK, TypeOK', FlowHolds, NEW p \in Ports, Pull(p), Head(rx[p]) = Release
  PROVE  FlowHolds'
<1>1. /\ rx[p] # <<>> /\ rx' = [rx EXCEPT ![p] = Tail(@)] /\ cq' = cq
      /\ workerPc' = workerPc /\ worker_count' = worker_count
      /\ inflight' = inflight - 1
      /\ flow' = IF inflight = 1 THEN NoPort ELSE flow
  BY DEF Pull
<1>2. Releases(p) >= 1 /\ Releases(p)' = Releases(p) - 1
  <2>1. Releases(p) = Cardinality(Where(Tail(rx[p]), {Release})) + 1
        /\ Cardinality(Where(Tail(rx[p]), {Release})) \in Nat
    BY <1>1, PulledReleases
  <2>2. Releases(p)' = Cardinality(Where(Tail(rx[p]), {Release}))
    BY <1>1 DEF Releases, TypeOK
  <2> QED
    BY <2>1, <2>2
<1>3. flow = p /\ inflight >= 1 /\ p # NoPort
  BY <1>2, HoldsFlow, Sizes DEF TypeOK
<1>4. \A q \in Ports : Held(q) \in Nat /\ Held(q)' \in Nat /\ inflight \in Nat
  BY HeldNumbers, HeldNext DEF TypeOK
<1>5. Held(p)' = Held(p) - 1
  <2>1. cq'[p] = cq[p] /\ InHand(p)' = InHand(p)
    BY <1>1 DEF InHand, Workers
  <2> QED
    BY <1>2, <2>1, HeldNumbers DEF Held
<1>6. ASSUME NEW q \in Ports, q # p PROVE Held(q)' = Held(q) /\ Held(q) = 0
  <2>1. rx'[q] = rx[q] /\ cq'[q] = cq[q] /\ InHand(q)' = InHand(q)
    BY <1>1, <1>6 DEF InHand, Workers, TypeOK
  <2> QED
    BY <1>3, <1>6, <2>1 DEF Held, Releases, FlowHolds
<1>7. Held(p) <= inflight
  BY DEF FlowHolds
<1> HIDE DEF Held
<1>8. ASSUME NEW q \in Ports PROVE Held(q)' <= inflight' /\ (q # flow' => Held(q)' = 0)
  BY <1>1, <1>3, <1>4, <1>5, <1>6, <1>7
<1>9. (flow' = NoPort => inflight' = 0) /\ (flow' # NoPort => inflight' >= 1)
  BY <1>1, <1>3, <1>4
<1> QED
  BY <1>8, <1>9 DEF FlowHolds

(* The scheduler delivers an event: the port has the flow or gets it. *)
LEMMA ScheduleFlow ==
  ASSUME TypeOK, TypeOK', FlowHolds, Schedule
  PROVE  FlowHolds'
<1>1. PICK p \in Destinations : /\ cq' = [cq EXCEPT ![p] = Append(@, Head(queue))]
                                /\ flow' = p
  BY DEF Schedule
<1>2. /\ queue # <<>> /\ inflight' = inflight + 1
      /\ workerPc' = workerPc /\ worker_count' = worker_count /\ rx' = rx
  BY DEF Schedule, portVars
<1>3. p \in Ports /\ NoPort \notin Ports /\ p # NoPort /\ (flow = NoPort \/ flow = p)
  BY Sizes DEF Destinations, TypeOK
<1>4. \A q \in Ports : Held(q) \in Nat /\ Held(q)' \in Nat /\ inflight \in Nat
  BY HeldNumbers, HeldNext DEF TypeOK
<1>5. Held(p)' = Held(p) + 1
  <2>1. Len(cq'[p]) = Len(cq[p]) + 1
    <3>1. cq[p] \in Seq(Events) /\ Head(queue) \in Events
      BY <1>2, <1>3, HeadTailProperties DEF TypeOK
    <3>2. Len(Append(cq[p], Head(queue))) = Len(cq[p]) + 1
      BY <3>1, AppendProperties
    <3> QED
      BY <1>1, <1>3, <3>2 DEF TypeOK
  <2>2. InHand(p)' = InHand(p) /\ Releases(p)' = Releases(p)
    BY <1>2 DEF InHand, Workers, Releases
  <2> QED
    BY <1>3, <2>1, <2>2, HeldNumbers DEF Held
<1>6. ASSUME NEW q \in Ports, q # p PROVE Held(q)' = Held(q) /\ Held(q) = 0
  <2>1. rx'[q] = rx[q] /\ cq'[q] = cq[q] /\ InHand(q)' = InHand(q)
    BY <1>1, <1>2, <1>3, <1>6 DEF InHand, Workers, TypeOK
  <2>2. q # flow \/ flow = NoPort
    BY <1>3, <1>6
  <2>3. Held(q) = 0
    BY <1>3, <1>6 DEF FlowHolds
  <2> QED
    BY <2>1, <2>3 DEF Held, Releases
<1>7. Held(p) <= inflight
  BY <1>3 DEF FlowHolds
<1> HIDE DEF Held
<1>8. ASSUME NEW q \in Ports PROVE Held(q)' <= inflight' /\ (q # flow' => Held(q)' = 0)
  BY <1>1, <1>2, <1>3, <1>4, <1>5, <1>6, <1>7
<1>9. inflight' >= 1
  BY <1>2, <1>3, <1>4
<1> QED
  BY <1>1, <1>3, <1>8, <1>9 DEF FlowHolds

LEMMA FlowStep ==
  ASSUME TypeOK, TypeOK', FlowHolds, Senders, [Next]_vars
  PROVE  FlowHolds'
<1>1. /\ 0 \in Ports /\ 0 \in Workers /\ Workers \subseteq Ports
      /\ \A w \in Workers : w \in Ports
      /\ LAST \in Nat
  BY Sizes DEF TypeOK
<1>2. \A p \in Ports : Held(p) \in Nat /\ Len(cq[p]) \in Nat /\ Releases(p) \in Nat
  BY HeldNumbers
<1> USE DEF schedVars, portVars, mainVars
<1>3. CASE UNCHANGED <<worker_count, workerPc, cq, rx, flow, inflight>>
  <2>1. \A p \in Ports : Held(p)' = Held(p)
    BY <1>3 DEF Held, InHand, Workers, Releases
  <2> QED
    BY <1>2, <1>3, <2>1, FlowStays
<1>4. CASE EndSend
  <2>1. sent \in Events
    BY <1>1, <1>4 DEF EndSend, Senders, TypeOK, Events
  <2>2. sent # Release
    BY <2>1 DEF Events, Release
  <2>3. Enqueue(0, sent, workerPc[0] = "releasing")
    BY <1>4 DEF EndSend
  <2>4. /\ \A q \in Ports \ {0} : rx'[q] = rx[q]
        /\ \/ rx'[0] = rx[0]
           \/ /\ rx'[0] = Append(rx[0], sent)
              /\ Cardinality(Where(Append(rx[0], sent), {Release})) =
                   Releases(0) + (IF sent = Release THEN 1 ELSE 0)
    BY <1>1, <2>1, <2>3, EnqueueReleases
  <2>5. ASSUME NEW p \in Ports PROVE Releases(p)' = Releases(p)
    <3>1. CASE p # 0
      BY <2>4, <3>1 DEF Releases
    <3>2. CASE p = 0
      <4>1. Releases(0) \in Nat
        BY <1>1, <1>2
      <4>2. (IF sent = Release THEN 1 ELSE 0) = 0 /\ Releases(0) + 0 = Releases(0)
        BY <2>2, <4>1
      <4>3. \/ rx'[0] = rx[0]
            \/ Cardinality(Where(rx'[0], {Release})) = Releases(0)
        BY <2>4, <4>2, Zenon
      <4> QED
        BY <3>2, <4>3 DEF Releases
    <3> QED
      BY <3>1, <3>2
  <2>6. UNCHANGED <<worker_count, workerPc, cq, flow, inflight>>
    BY <1>4 DEF EndSend
  <2>7. \A p \in Ports : Held(p)' = Held(p)
    BY <2>5, <2>6 DEF Held, InHand, Workers
  <2> QED
    BY <1>2, <2>6, <2>7, FlowStays
<1>5. ASSUME NEW w \in Workers, BeginRelease(w) PROVE FlowHolds'
  <2>1. UNCHANGED <<worker_count, cq, rx, flow, inflight>>
    BY <1>5 DEF BeginRelease
  <2>2. \A p \in Ports : InHand(p)' = InHand(p)
    BY <1>5, <2>1 DEF BeginRelease, WorkerGoes, InHand, Workers, TypeOK
  <2>3. \A p \in Ports : Held(p)' = Held(p)
    BY <2>1, <2>2 DEF Held, Releases
  <2> QED
    BY <1>2, <2>1, <2>3, FlowStays
<1>6. ASSUME NEW w \in Workers, EndRelease(w) PROVE FlowHolds'
  <2>1. /\ UNCHANGED <<worker_count, cq, flow, inflight>>
        /\ Enqueue(w, Release, w = 0 /\ mainPc = "writing")
    BY <1>6 DEF EndRelease
  <2>2. /\ \A q \in Ports \ {w} : rx'[q] = rx[q]
        /\ \/ rx'[w] = rx[w]
           \/ /\ rx'[w] = Append(rx[w], Release)
              /\ Cardinality(Where(Append(rx[w], Release), {Release})) =
                   Releases(w) + (IF Release = Release THEN 1 ELSE 0)
    BY <1>1, <2>1, EnqueueReleases
  <2>3. /\ InHand(w) = 1 /\ InHand(w)' = 0
        /\ \A p \in Ports \ {w} : InHand(p)' = InHand(p)
    BY <1>1, <1>6, <2>1 DEF EndRelease, WorkerGoes, InHand, Workers, TypeOK
  <2>4. /\ Releases(w)' \in {Releases(w), Releases(w) + 1}
        /\ \A p \in Ports \ {w} : Releases(p)' = Releases(p)
    BY <2>2 DEF Releases
  <2>5. \A p \in Ports : Held(p)' <= Held(p)
    BY <1>1, <1>2, <2>1, <2>3, <2>4, HeldNumbers DEF Held
  <2> QED
    BY <2>1, <2>5, FlowStays
<1>7. ASSUME NEW w \in Workers, Take(w) PROVE FlowHolds'
  <2>1. UNCHANGED <<worker_count, rx, flow, inflight>>
    BY <1>7 DEF Take
  <2>2. /\ InHand(w) = 0 /\ InHand(w)' = 1
        /\ \A p \in Ports \ {w} : InHand(p)' = InHand(p)
    BY <1>1, <1>7, <2>1 DEF Take, WorkerGoes, InHand, Workers, TypeOK
  <2>3. /\ Len(cq'[w]) = Len(cq[w]) - 1
        /\ \A p \in Ports \ {w} : cq'[p] = cq[p]
    <3>1. cq[w] \in Seq(Events) /\ cq[w] # <<>> /\ cq' = [cq EXCEPT ![w] = Tail(@)]
      BY <1>1, <1>7 DEF Take, TypeOK
    <3>2. Len(Tail(cq[w])) = Len(cq[w]) - 1
      BY <3>1, HeadTailProperties
    <3> QED
      BY <1>1, <3>1, <3>2 DEF TypeOK
  <2>4. \A p \in Ports : Releases(p)' = Releases(p)
    BY <2>1 DEF Releases
  <2>5. \A p \in Ports : Held(p)' <= Held(p)
    BY <1>1, <1>2, <2>2, <2>3, <2>4, HeldNumbers DEF Held
  <2> QED
    BY <2>1, <2>5, FlowStays
<1>8. ASSUME NEW p \in Ports, Pull(p) PROVE FlowHolds'
  <2>1. CASE Head(rx[p]) = Release
    BY <1>8, <2>1, PullRelease
  <2>2. CASE Head(rx[p]) # Release
    <3>1. /\ rx[p] # <<>> /\ rx' = [rx EXCEPT ![p] = Tail(@)]
          /\ UNCHANGED <<worker_count, workerPc, cq, flow, inflight>>
      BY <1>8, <2>2 DEF Pull
    <3>2. \A q \in Ports : Releases(q)' = Releases(q)
      <4>1. Releases(p) = Cardinality(Where(Tail(rx[p]), {Release})) + 0
            /\ Cardinality(Where(Tail(rx[p]), {Release})) \in Nat
        BY <2>2, <3>1, PulledReleases
      <4> QED
        BY <3>1, <4>1 DEF Releases, TypeOK
    <3>3. \A q \in Ports : Held(q)' = Held(q)
      BY <3>1, <3>2 DEF Held, InHand, Workers
    <3> QED
      BY <1>2, <3>1, <3>3, FlowStays
  <2> QED
    BY <2>1, <2>2
<1>9. CASE Schedule
  BY <1>9, ScheduleFlow
<1>10. CASE BeginSend
  BY <1>3, <1>10 DEF BeginSend
<1>11. CASE MainReturn
  BY <1>3, <1>11 DEF MainReturn
<1>12. CASE UNCHANGED vars
  BY <1>3, <1>12 DEF vars
<1> QED
  BY <1>4, <1>5, <1>6, <1>7, <1>8, <1>9, <1>10, <1>11, <1>12 DEF Next, Main, Scheduler, Worker

-------------------------------------------------------------------------------
(* The line of events *)

(* A message put into a ring and one taken from it. *)
LEMMA AscendingSteps ==
  ASSUME NEW q \in Seq(Nat)
  PROVE  /\ \A m \in Nat :
              /\ Range(Append(q, m)) = Range(q) \cup {m}
              /\ /\ Ascending(q)
                 /\ m = Release \/ \A y \in Range(q) \ {Release} : y < m
                 => Ascending(Append(q, m))
         /\ q # <<>> =>
              /\ Head(q) \in Nat /\ Range(q) = {Head(q)} \cup Range(Tail(q))
              /\ Ascending(q) =>
                   /\ Ascending(Tail(q))
                   /\ Head(q) # Release => \A y \in Range(Tail(q)) \ {Release} : Head(q) < y
<1>1. ASSUME NEW m \in Nat, Ascending(q), m = Release \/ \A y \in Range(q) \ {Release} : y < m
      PROVE  Ascending(Append(q, m))
  <2> DEFINE w == Append(q, m)
  <2>1. /\ Len(w) = Len(q) + 1 /\ w[Len(q) + 1] = m
        /\ \A k \in 1..Len(q) : w[k] = q[k]
    BY AppendProperties
  <2> HIDE DEF w
  <2>2. Len(q) \in Nat /\ \A k \in 1..Len(q) : q[k] \in Range(q)
    BY Holding
  <2>3. ASSUME NEW j \in 1..Len(w), NEW k \in 1..Len(w), j < k, w[j] # Release, w[k] # Release
        PROVE  w[j] < w[k]
    <3>1. j \in 1..Len(q) /\ w[j] = q[j]
      BY <2>1, <2>2, <2>3
    <3>2. CASE k = Len(q) + 1
      BY <1>1, <2>1, <2>2, <2>3, <3>1, <3>2
    <3>3. CASE k # Len(q) + 1
      <4>1. k \in 1..Len(q) /\ w[k] = q[k]
        BY <2>1, <2>2, <3>3
      <4> QED
        BY <1>1, <2>3, <3>1, <4>1 DEF Ascending
    <3> QED
      BY <3>2, <3>3
  <2> QED
    BY <2>3 DEF Ascending, w
<1>2. ASSUME q # <<>>, Ascending(q)
      PROVE  /\ Ascending(Tail(q))
             /\ Head(q) # Release => \A y \in Range(Tail(q)) \ {Release} : Head(q) < y
  <2> DEFINE r == Tail(q)
  <2>1. /\ r \in Seq(Nat) /\ Len(r) = Len(q) - 1 /\ Len(q) \in Nat \ {0}
        /\ \A k \in 1..Len(r) : r[k] = q[k + 1]
        /\ Head(q) = q[1]
    BY <1>2, HeadTailProperties, EmptySeq
  <2> HIDE DEF r
  <2>2. \A y \in Range(r) : \E k \in 1..Len(r) : y = r[k]
    BY <2>1, Holding
  <2>3. Ascending(r)
    <3>1. ASSUME NEW j \in 1..Len(r), NEW k \in 1..Len(r), j < k, r[j] # Release, r[k] # Release
          PROVE  r[j] < r[k]
      <4>1. j + 1 \in 1..Len(q) /\ k + 1 \in 1..Len(q) /\ j + 1 < k + 1
        BY <2>1, <3>1
      <4>2. r[j] = q[j + 1] /\ r[k] = q[k + 1]
        BY <2>1
      <4> QED
        BY <1>2, <3>1, <4>1, <4>2 DEF Ascending
    <3> QED
      BY <3>1 DEF Ascending
  <2>4. ASSUME Head(q) # Release, NEW y \in Range(r) \ {Release} PROVE Head(q) < y
    <3>1. PICK k \in 1..Len(r) : y = r[k]
      BY <2>2
    <3>2. 1 \in 1..Len(q) /\ k + 1 \in 1..Len(q) /\ 1 < k + 1
      <4>1. Len(q) \in Nat /\ k \in 1..(Len(q) - 1)
        BY <2>1
      <4> QED
        BY <4>1
    <3>3. y = q[k + 1]
      BY <2>1, <3>1
    <3> QED
      BY <1>2, <2>1, <2>4, <3>2, <3>3 DEF Ascending
  <2> QED
    BY <2>3, <2>4 DEF r
<1>3. ASSUME NEW m \in Nat PROVE Range(Append(q, m)) = Range(q) \cup {m}
  BY AppendOrdered
<1>4. q # <<>> => Head(q) \in Nat /\ Range(q) = {Head(q)} \cup Range(Tail(q))
  BY TailOrdered
<1> QED
  BY <1>1, <1>2, <1>3, <1>4

(* What the stages hold are numbers of events. *)
LEMMA StageTypes ==
  ASSUME TypeOK
  PROVE  /\ Events \subseteq Nat /\ Release \in Nat /\ Release \notin Events
         /\ rx[0] \in Seq(Nat) /\ queue \in Seq(Nat)
         /\ \A p \in Ports : cq[p] \in Seq(Nat)
         /\ Incoming \subseteq Events /\ Range(queue) \subseteq Events
         /\ Delivered \subseteq Events /\ Done \subseteq Events
         /\ Sent \subseteq Nat
<1>1. Events \subseteq Nat /\ Release \in Nat /\ Release \notin Events
  BY DEF Events, Release
<1>2. rx[0] \in Seq(Events \cup {Release}) /\ queue \in Seq(Events)
  BY Sizes DEF TypeOK
<1>3. \A p \in Ports : cq[p] \in Seq(Events)
  BY DEF TypeOK
<1>4. /\ rx[0] \in Seq(Nat) /\ queue \in Seq(Nat)
      /\ \A p \in Ports : cq[p] \in Seq(Nat)
  <2>1. Events \cup {Release} \subseteq Nat
    BY <1>1
  <2>2. rx[0] \in Seq(Nat)
    BY <1>2, <2>1, SeqMonotonic
  <2>3. queue \in Seq(Nat)
    BY <1>1, <1>2, SeqMonotonic
  <2>4. ASSUME NEW p \in Ports PROVE cq[p] \in Seq(Nat)
    BY <1>1, <1>3, SeqMonotonic
  <2> QED
    BY <2>2, <2>3, <2>4
<1>5. Range(rx[0]) \subseteq Events \cup {Release} /\ Range(queue) \subseteq Events
  BY <1>2, RangeOfSeq
<1>6. Delivered \subseteq Events
  <2>1. ASSUME NEW p \in Ports PROVE Range(cq[p]) \subseteq Events
    BY <1>3, RangeOfSeq
  <2> QED
    BY <2>1 DEF Delivered
<1>7. Done \subseteq Events
  <2>1. processed \in Seq([lcore : Workers, event : Events])
    BY DEF TypeOK
  <2>2. \A k \in 1..Len(processed) : processed[k] \in [lcore : Workers, event : Events]
    BY <2>1, ElementOfSeq
  <2> QED
    BY <2>2 DEF Done
<1>8. Sent \subseteq Nat
  BY DEF Sent
<1> QED
  BY <1>1, <1>4, <1>5, <1>6, <1>7, <1>8 DEF Incoming

(* The messages of each port's ring after a step: ports other than 0 get releases. *)
LEMMA SendersStep ==
  ASSUME TypeOK, Senders, [Next]_vars
  PROVE  Senders'
<1>1. /\ 0 \in Ports /\ \A w \in Workers : w \in Ports
      /\ sent \in Nat
  BY Sizes DEF TypeOK
<1>2. ASSUME NEW p \in Ports, p # 0
      PROVE  Range(rx'[p]) \subseteq {Release}
  <2>1. Range(rx[p]) \subseteq {Release} /\ rx[p] \in Seq(Events \cup {Release})
    BY <1>2 DEF Senders, TypeOK
  <2>2. rx[p] \in Seq({Release})
    BY <2>1, SeqOfRange, SeqMonotonic
  <2>3. \/ rx'[p] = rx[p]
        \/ rx'[p] = Append(rx[p], Release)
        \/ rx[p] # <<>> /\ rx'[p] = Tail(rx[p])
    <3>1. CASE EndSend
      BY <1>1, <1>2, <3>1 DEF EndSend, Enqueue, TypeOK
    <3>2. ASSUME NEW w \in Workers, EndRelease(w)
          PROVE  rx'[p] = rx[p] \/ rx'[p] = Append(rx[p], Release)
      BY <1>1, <1>2, <3>2 DEF EndRelease, Enqueue, TypeOK
    <3>3. ASSUME NEW q \in Ports, Pull(q)
          PROVE  rx'[p] = rx[p] \/ (rx[p] # <<>> /\ rx'[p] = Tail(rx[p]))
      BY <1>1, <1>2, <3>3 DEF Pull, TypeOK
    <3>4. CASE UNCHANGED rx
      BY <3>4
    <3> QED
      BY <3>1, <3>2, <3>3, <3>4
         DEF Next, Main, Scheduler, Worker, BeginSend, MainReturn, BeginRelease, Take, Schedule,
             vars, portVars
  <2>4. Append(rx[p], Release) \in Seq({Release})
    BY <2>2, AppendProperties
  <2>5. rx[p] # <<>> => Tail(rx[p]) \in Seq({Release})
    BY <2>2, HeadTailProperties
  <2>6. rx'[p] \in Seq({Release})
    BY <2>2, <2>3, <2>4, <2>5
  <2> QED
    BY <2>6, RangeOfSeq
<1>3. mainPc' = "writing" => sent' >= 1
  <2>1. \/ sent' = sent + 1
        \/ sent' = sent /\ mainPc' = mainPc
        \/ mainPc' # "writing"
    BY DEF Next, Main, Scheduler, Worker, BeginSend, EndSend, MainReturn, BeginRelease,
           EndRelease, Take, Schedule, Pull, vars, mainVars
  <2> QED
    BY <1>1, <2>1 DEF Senders
<1> QED
  BY <1>2, <1>3 DEF Senders

LineInv == StagesOrdered /\ InLine /\ NoneMissing /\ ReturnedOnExit

(* A step that moves no event: each stage holds what it held. *)
LEMMA LineStays ==
  ASSUME LineInv, UNCHANGED <<cq, queue, processed>>,
         Ascending(rx'[0]), Incoming' = Incoming, Sent' = Sent, lost \subseteq lost',
         Returned' = Returned
  PROVE  LineInv'
<1>1. Done' = Done /\ Delivered' = Delivered
  BY DEF Done, Delivered
<1>2. StagesOrdered'
  BY DEF LineInv, StagesOrdered
<1>3. InLine'
  BY <1>1 DEF LineInv, InLine
<1>4. NoneMissing'
  BY <1>1 DEF LineInv, NoneMissing
<1>5. ReturnedOnExit'
  BY <1>1 DEF LineInv, ReturnedOnExit
<1> QED
  BY <1>2, <1>3, <1>4, <1>5 DEF LineInv

(* A release put into port 0's ring, or lost, moves no event either. *)
LEMMA LineEndRelease ==
  ASSUME TypeOK, LineInv, NEW w \in Workers, EndRelease(w)
  PROVE  LineInv'
<1>1. /\ w \in Ports /\ 0 \in Ports
      /\ UNCHANGED <<worker_count, mainPc, sent, cq, queue, processed>>
      /\ Enqueue(w, Release, w = 0 /\ mainPc = "writing")
  BY Sizes DEF EndRelease, TypeOK, mainVars, schedVars
<1>2. rx[0] \in Seq(Nat) /\ Release \in Nat /\ Ascending(rx[0])
  BY StageTypes DEF LineInv, StagesOrdered
<1>3. /\ Range(Append(rx[0], Release)) = Range(rx[0]) \cup {Release}
      /\ Ascending(Append(rx[0], Release))
  BY <1>2, AscendingSteps
<1>4. rx'[0] \in {rx[0], Append(rx[0], Release)} /\ lost \subseteq lost'
  BY <1>1 DEF Enqueue, TypeOK
<1>5. Ascending(rx'[0]) /\ Incoming' = Incoming
  BY <1>2, <1>3, <1>4 DEF Incoming
<1>6. Sent' = Sent
  BY <1>1 DEF Sent
<1>7. Returned' = Returned
  BY <1>1 DEF EndRelease, WorkerGoes, Returned, Workers, TypeOK
<1> QED
  BY <1>1, <1>4, <1>5, <1>6, <1>7, LineStays

(* The event main was sending joins the end of the line, or is lost. *)
LEMMA LineEndSend ==
  ASSUME TypeOK, Senders, LineInv, EndSend
  PROVE  LineInv'
<1>1. /\ 0 \in Ports
      /\ UNCHANGED <<worker_count, sent, workerPc, cq, queue, processed>>
      /\ Enqueue(0, sent, workerPc[0] = "releasing")
      /\ mainPc = "writing" /\ mainPc' = "sending"
  BY Sizes DEF EndSend, TypeOK, schedVars
<1>2. sent \in Nat /\ sent >= 1 /\ sent # Release
  BY <1>1, Sizes DEF TypeOK, Senders, Release
<1>3. /\ \A x \in Sent : x < sent
      /\ Sent' = Sent \cup {sent}
  BY <1>1, <1>2 DEF Sent
<1>4. rx[0] \in Seq(Nat) /\ Ascending(rx[0])
  BY StageTypes DEF LineInv, StagesOrdered
<1>5. \A x \in Done \cup Delivered \cup Range(queue) \cup Incoming : x < sent
  BY <1>3 DEF LineInv, NoneMissing
<1>6. /\ Range(Append(rx[0], sent)) = Range(rx[0]) \cup {sent}
      /\ Ascending(Append(rx[0], sent))
  BY <1>2, <1>4, <1>5, AscendingSteps DEF Incoming
<1>7. \/ rx'[0] = Append(rx[0], sent) /\ lost' = lost
      \/ rx'[0] = rx[0] /\ lost' = lost \cup {sent}
  BY <1>1 DEF Enqueue, TypeOK
<1>8. /\ Ascending(rx'[0])
      /\ \/ Incoming' = Incoming \cup {sent} /\ lost' = lost
         \/ Incoming' = Incoming /\ lost' = lost \cup {sent}
  BY <1>2, <1>4, <1>6, <1>7 DEF Incoming
<1>9. Done' = Done /\ Delivered' = Delivered /\ Returned' = Returned
  BY <1>1 DEF Done, Delivered, Returned, Workers
<1>10. StagesOrdered'
  BY <1>1, <1>8 DEF LineInv, StagesOrdered
<1>11. InLine'
  BY <1>1, <1>5, <1>8, <1>9 DEF LineInv, InLine, Before
<1>12. NoneMissing'
  BY <1>1, <1>3, <1>8, <1>9 DEF LineInv, NoneMissing
<1>13. ReturnedOnExit'
  BY <1>9 DEF LineInv, ReturnedOnExit
<1> QED
  BY <1>10, <1>11, <1>12, <1>13 DEF LineInv

(* The worker takes the first event of its ring, which is the first of all that are *)
(* delivered: no other port has any.                                                *)
LEMMA LineTake ==
  ASSUME TypeOK, FlowHolds, LineInv, NEW w \in Workers, Take(w)
  PROVE  LineInv'
<1> DEFINE e == Head(cq[w])
           r == Tail(cq[w])
           n == Len(processed) + 1
<1>1. /\ w \in Ports /\ cq[w] # <<>>
      /\ cq' = [cq EXCEPT ![w] = r]
      /\ processed' = Append(processed, [lcore |-> w, event |-> e])
      /\ UNCHANGED <<worker_count, mainPc, sent, queue, rx, lost>>
  BY Sizes DEF Take, TypeOK, mainVars, portVars
<1>2. /\ e \in Nat /\ r \in Seq(Nat) /\ Range(cq[w]) = {e} \cup Range(r)
      /\ Increasing(cq[w]) <=> Increasing(r) /\ \A y \in Range(r) : e < y
  BY <1>1, StageTypes, TailOrdered
<1>3. \A p \in Ports \ {w} : cq[p] = <<>>
  BY <1>1, HoldsFlow
<1>4. \A p \in Ports \ {w} : Range(cq[p]) = {}
  BY <1>3, EmptyOrdered
<1>5. /\ cq'[w] = r /\ \A p \in Ports \ {w} : cq'[p] = cq[p]
  BY <1>1 DEF TypeOK
<1>6. Delivered = {e} \cup Range(r) /\ Delivered' = Range(r)
  <2> HIDE DEF e, r
  <2>1. Delivered = Range(cq[w])
    BY <1>1, <1>4 DEF Delivered
  <2>2. Delivered' = Range(cq'[w])
    <3>1. \A p \in Ports \ {w} : Range(cq'[p]) = {}
      BY <1>4, <1>5
    <3>2. \A x : x \in Delivered' <=> \E p \in Ports : x \in Range(cq'[p])
      BY DEF Delivered
    <3>3. \A x : x \in Delivered' <=> x \in Range(cq'[w])
      BY <1>1, <3>1, <3>2
    <3> QED
      BY <3>3
  <2> QED
    BY <1>2, <1>5, <2>1, <2>2
<1>7. e \in Events
  <2>1. cq[w] \in Seq(Events)
    BY <1>1 DEF TypeOK
  <2> QED
    BY <1>1, <2>1, HeadTailProperties
<1>8. /\ Len(processed) \in Nat /\ Len(processed') = n /\ processed'[n].event = e
      /\ \A k \in 1..Len(processed) : processed'[k] = processed[k]
  <2>1. /\ processed \in Seq([lcore : Workers, event : Events])
        /\ [lcore |-> w, event |-> e] \in [lcore : Workers, event : Events]
    BY <1>7 DEF TypeOK
  <2> HIDE DEF e
  <2>2. /\ Len(processed') = n /\ processed'[n] = [lcore |-> w, event |-> e]
        /\ \A k \in 1..Len(processed) : processed'[k] = processed[k]
    BY <1>1, <2>1, AppendProperties
  <2>3. Len(processed) \in Nat
    BY <2>1, LenProperties
  <2> QED
    BY <2>2, <2>3
<1> HIDE DEF e, r
<1>9. Done' = Done \cup {e}
  BY <1>8 DEF Done
<1>10. \A x \in Done : x < e
  BY <1>6 DEF LineInv, InLine, Before
<1>11. \A y \in Range(r) : e < y
  BY <1>1, <1>2 DEF LineInv, StagesOrdered
<1>12. Incoming' = Incoming /\ Sent' = Sent
  BY <1>1 DEF Incoming, Sent
<1>13. StagesOrdered'
  <2>1. \A j, k \in 1..Len(processed') : j < k => processed'[j].event < processed'[k].event
    <3>1. ASSUME NEW j \in 1..Len(processed'), NEW k \in 1..Len(processed'), j < k
          PROVE  processed'[j].event < processed'[k].event
      <4>1. j \in 1..Len(processed) /\ processed'[j] = processed[j]
        BY <1>8, <3>1
      <4>2. processed[j].event \in Done
        BY <4>1 DEF Done
      <4>3. CASE k = n
        BY <1>8, <1>10, <4>1, <4>2, <4>3
      <4>4. CASE k # n
        <5>1. k \in 1..Len(processed) /\ processed'[k] = processed[k]
          BY <1>8, <4>4
        <5> QED
          BY <3>1, <4>1, <5>1 DEF LineInv, StagesOrdered
      <4> QED
        BY <4>3, <4>4
    <3> QED
      BY <3>1
  <2>2. \A p \in Ports : Increasing(cq'[p])
    BY <1>1, <1>2, <1>5 DEF LineInv, StagesOrdered
  <2> QED
    BY <1>1, <2>1, <2>2 DEF LineInv, StagesOrdered
<1>14. InLine'
  BY <1>1, <1>6, <1>9, <1>11, <1>12 DEF LineInv, InLine, Before
<1>15. NoneMissing'
  BY <1>1, <1>6, <1>9, <1>12 DEF LineInv, NoneMissing
<1>16. ReturnedOnExit'
  <2>1. CASE IsExit(e)
    BY <1>9, <2>1 DEF ReturnedOnExit, IsExit
  <2>2. CASE ~IsExit(e)
    <3>1. Returned' = Returned
      BY <1>1, <2>2 DEF Take, WorkerGoes, Returned, Workers, TypeOK, e
    <3> QED
      BY <1>9, <3>1 DEF LineInv, ReturnedOnExit
  <2> QED
    BY <2>1, <2>2
<1> QED
  BY <1>13, <1>14, <1>15, <1>16 DEF LineInv

(* The scheduler takes what arrives: an event goes to the end of the queue. *)
LEMMA LinePull ==
  ASSUME TypeOK, Senders, LineInv, NEW p \in Ports, Pull(p)
  PROVE  LineInv'
<1> DEFINE m == Head(rx[0])
<1>1. /\ 0 \in Ports /\ rx[p] # <<>> /\ rx' = [rx EXCEPT ![p] = Tail(@)]
      /\ UNCHANGED <<worker_count, mainPc, sent, workerPc, cq, lost, processed>>
      /\ IF Head(rx[p]) = Release THEN queue' = queue ELSE queue' = Append(queue, Head(rx[p]))
  BY Sizes DEF Pull, TypeOK, mainVars
<1>2. Sent' = Sent /\ Returned' = Returned /\ Done' = Done /\ Delivered' = Delivered
  BY <1>1 DEF Sent, Returned, Workers, Done, Delivered
<1>3. rx[0] \in Seq(Nat) /\ queue \in Seq(Nat) /\ Ascending(rx[0]) /\ Increasing(queue)
  BY StageTypes DEF LineInv, StagesOrdered
<1>4. CASE p # 0
  <2>1. Head(rx[p]) = Release
    <3>1. rx[p] \in Seq(Events \cup {Release}) /\ Range(rx[p]) \subseteq {Release}
      BY <1>4 DEF Senders, TypeOK
    <3>2. rx[p] \in Seq({Release})
      BY <3>1, SeqOfRange, SeqMonotonic
    <3> QED
      BY <1>1, <3>2, HeadTailProperties
  <2>2. rx'[0] = rx[0]
    BY <1>1, <1>4 DEF TypeOK
  <2>3. Incoming' = Incoming
    BY <2>2 DEF Incoming
  <2> QED
    BY <1>1, <1>2, <1>3, <2>1, <2>2, <2>3, LineStays
<1>5. CASE p = 0
  <2>1. /\ rx[0] # <<>> /\ rx'[0] = Tail(rx[0])
    BY <1>1, <1>5 DEF TypeOK
  <2>2. /\ m \in Nat /\ Range(rx[0]) = {m} \cup Range(Tail(rx[0]))
        /\ Ascending(Tail(rx[0]))
        /\ m # Release => \A y \in Range(Tail(rx[0])) \ {Release} : m < y
    BY <1>3, <2>1, AscendingSteps
  <2>3. CASE m = Release
    <3>1. Incoming' = Incoming
      BY <2>1, <2>2, <2>3 DEF Incoming
    <3> QED
      BY <1>1, <1>2, <1>5, <2>1, <2>2, <2>3, <3>1, LineStays
  <2>4. CASE m # Release
    <3>1. /\ Incoming = {m} \cup Incoming'
          /\ \A y \in Incoming' : m < y
      BY <2>1, <2>2, <2>4 DEF Incoming
    <3>2. queue' = Append(queue, m)
      BY <1>1, <1>5, <2>4
    <3> HIDE DEF m
    <3>3. \A y \in Range(queue) : y < m
      BY <3>1 DEF LineInv, InLine, Before
    <3>4. Increasing(queue') /\ Range(queue') = Range(queue) \cup {m}
      BY <1>3, <2>2, <3>2, <3>3, AppendOrdered
    <3>5. StagesOrdered'
      BY <1>1, <2>1, <2>2, <3>4 DEF LineInv, StagesOrdered
    <3>6. InLine'
      BY <1>2, <3>1, <3>4 DEF LineInv, InLine, Before
    <3>7. NoneMissing'
      BY <1>1, <1>2, <3>1, <3>4 DEF LineInv, NoneMissing
    <3>8. ReturnedOnExit'
      BY <1>2 DEF LineInv, ReturnedOnExit
    <3> QED
      BY <3>5, <3>6, <3>7, <3>8 DEF LineInv
  <2> QED
    BY <2>3, <2>4
<1> QED
  BY <1>4, <1>5

(* The first event of the queue goes to a port: no other has any that it overtakes. *)
LEMMA LineSchedule ==
  ASSUME TypeOK, FlowHolds, LineInv, Schedule
  PROVE  LineInv'
<1> DEFINE h == Head(queue)
<1>1. PICK p \in Destinations : /\ cq' = [cq EXCEPT ![p] = Append(@, h)]
                                /\ flow' = p
  BY DEF Schedule
<1>2. /\ queue # <<>> /\ queue' = Tail(queue)
      /\ UNCHANGED <<worker_count, mainPc, sent, workerPc, rx, lost, processed>>
  BY DEF Schedule, portVars, mainVars
<1>3. p \in Ports
  BY DEF Destinations, TypeOK
<1>4. /\ queue \in Seq(Nat) /\ \A q \in Ports : cq[q] \in Seq(Nat)
      /\ Increasing(queue) /\ \A q \in Ports : Increasing(cq[q])
  BY StageTypes DEF LineInv, StagesOrdered
<1>5. /\ h \in Nat /\ Range(queue) = {h} \cup Range(Tail(queue))
      /\ Increasing(Tail(queue)) /\ \A y \in Range(Tail(queue)) : h < y
  BY <1>2, <1>4, TailOrdered
<1> HIDE DEF h
<1>6. \A x \in Done \cup Delivered : x < h
  BY <1>5 DEF LineInv, InLine, Before
<1>7. /\ Range(Append(cq[p], h)) = Range(cq[p]) \cup {h}
      /\ Increasing(Append(cq[p], h))
  <2>1. \A x \in Range(cq[p]) : x < h
    BY <1>3, <1>6 DEF Delivered
  <2> QED
    BY <1>3, <1>4, <1>5, <2>1, AppendOrdered
<1>8. /\ cq'[p] = Append(cq[p], h) /\ \A q \in Ports \ {p} : cq'[q] = cq[q]
  BY <1>1, <1>3 DEF TypeOK
<1>9. Delivered' = Delivered \cup {h}
  <2>1. \A x : x \in Delivered' <=> \E q \in Ports : x \in Range(cq'[q])
    BY DEF Delivered
  <2>2. \A x : x \in Delivered <=> \E q \in Ports : x \in Range(cq[q])
    BY DEF Delivered
  <2>3. \A x : x \in Range(cq'[p]) <=> x \in Range(cq[p]) \/ x = h
    BY <1>7, <1>8
  <2>4. \A x : x \in Delivered' <=> x \in Delivered \cup {h}
    BY <1>3, <1>8, <2>1, <2>2, <2>3
  <2> QED
    BY <2>4
<1>10. Incoming' = Incoming /\ Sent' = Sent /\ Returned' = Returned /\ Done' = Done
  BY <1>2 DEF Incoming, Sent, Returned, Workers, Done
<1>11. StagesOrdered'
  BY <1>2, <1>4, <1>5, <1>7, <1>8 DEF LineInv, StagesOrdered
<1>12. InLine'
  BY <1>2, <1>5, <1>6, <1>9, <1>10 DEF LineInv, InLine, Before
<1>13. NoneMissing'
  BY <1>2, <1>5, <1>9, <1>10 DEF LineInv, NoneMissing
<1>14. ReturnedOnExit'
  BY <1>10 DEF LineInv, ReturnedOnExit
<1> QED
  BY <1>11, <1>12, <1>13, <1>14 DEF LineInv

LEMMA LineStep ==
  ASSUME TypeOK, FlowHolds, Senders, LineInv, [Next]_vars
  PROVE  LineInv'
<1>1. /\ sent \in Nat /\ Ascending(rx[0])
  BY Sizes DEF TypeOK, LineInv, StagesOrdered
<1> USE DEF schedVars, portVars, mainVars
<1>2. CASE /\ UNCHANGED <<worker_count, cq, queue, processed, rx, lost>>
           /\ Sent' = Sent /\ Returned' = Returned
  <2>1. Incoming' = Incoming
    BY <1>2 DEF Incoming
  <2> QED
    BY <1>1, <1>2, <2>1, LineStays
<1>3. CASE BeginSend
  <2>1. sent' - 1 = sent
    BY <1>1, <1>3 DEF BeginSend
  <2> QED
    BY <1>2, <1>3, <2>1 DEF BeginSend, Sent, Returned, Workers
<1>4. CASE MainReturn
  BY <1>2, <1>4 DEF MainReturn, Sent, Returned, Workers
<1>5. ASSUME NEW w \in Workers, BeginRelease(w) PROVE LineInv'
  <2>1. Returned' = Returned
    BY <1>5 DEF BeginRelease, WorkerGoes, Returned, Workers, TypeOK
  <2> QED
    BY <1>2, <1>5, <2>1 DEF BeginRelease, Sent
<1>6. CASE UNCHANGED vars
  BY <1>2, <1>6 DEF vars, Sent, Returned, Workers
<1>7. CASE EndSend
  BY <1>7, LineEndSend
<1>8. ASSUME NEW w \in Workers, EndRelease(w) PROVE LineInv'
  BY <1>8, LineEndRelease
<1>9. ASSUME NEW w \in Workers, Take(w) PROVE LineInv'
  BY <1>9, LineTake
<1>10. ASSUME NEW p \in Ports, Pull(p) PROVE LineInv'
  BY <1>10, LinePull
<1>11. CASE Schedule
  BY <1>11, LineSchedule
<1> QED
  BY <1>3, <1>4, <1>5, <1>6, <1>7, <1>8, <1>9, <1>10, <1>11 DEF Next, Main, Scheduler, Worker

-------------------------------------------------------------------------------
(* The theorems *)

LEMMA EventInit == Init => EInv
<1> SUFFICES ASSUME Init PROVE EInv
  OBVIOUS
<1>1. TypeOK
  BY TypeInit
<1>2. <<>> \in Seq(Nat) /\ Len(<<>>) = 0 /\ Range(<<>>) = {} /\ Increasing(<<>>)
  BY EmptyOrdered
<1>3. 0 \in Ports /\ Workers \subseteq Ports
  BY <1>1, Sizes DEF TypeOK
<1>4. ASSUME NEW p \in Ports PROVE Held(p) = 0 /\ rx[p] = <<>> /\ cq[p] = <<>>
  <2>1. rx[p] = <<>> /\ cq[p] = <<>> /\ InHand(p) = 0
    BY DEF Init, InHand
  <2>2. Releases(p) = 0
    <3>1. Where(rx[p], {Release}) = {}
      BY <1>2, <2>1 DEF Where
    <3> QED
      BY <3>1, FS_EmptySet DEF Releases
  <2> QED
    BY <1>2, <2>1, <2>2 DEF Held
<1>5. FlowHolds
  BY <1>4 DEF FlowHolds, Init
<1>6. Senders
  <2>1. \A p \in Ports : Range(rx[p]) = {}
    BY <1>2, <1>4
  <2> QED
    BY <2>1 DEF Senders, Init
<1>7. Done = {} /\ Delivered = {} /\ Range(queue) = {} /\ Incoming = {} /\ Sent = {}
  <2>1. Done = {} /\ Sent = {}
    BY <1>2 DEF Init, Done, Sent
  <2>2. \A p \in Ports : Range(cq[p]) = {}
    BY <1>2, <1>4
  <2>3. Delivered = {}
    BY <2>2 DEF Delivered
  <2>4. Range(queue) = {} /\ Incoming = {}
    BY <1>2, <1>3, <1>4 DEF Init, Incoming
  <2> QED
    BY <2>1, <2>3, <2>4
<1>8. StagesOrdered
  BY <1>2, <1>3, <1>4 DEF StagesOrdered, Ascending, Init
<1>9. InLine /\ NoneMissing
  BY <1>7 DEF InLine, NoneMissing, Before
<1>10. ReturnedOnExit
  BY DEF ReturnedOnExit, Returned, Init
<1> QED
  BY <1>1, <1>5, <1>6, <1>8, <1>9, <1>10 DEF EInv

LEMMA EventInductive == EInv /\ [Next]_vars => EInv'
<1> SUFFICES ASSUME EInv, [Next]_vars PROVE EInv'
  OBVIOUS
<1>1. TypeOK /\ FlowHolds /\ Senders /\ LineInv
  BY DEF EInv, LineInv
<1>2. TypeOK'
  BY <1>1, TypeStep
<1>3. FlowHolds'
  BY <1>1, <1>2, FlowStep
<1>4. Senders'
  BY <1>1, SendersStep
<1>5. LineInv'
  BY <1>1, LineStep
<1> QED
  BY <1>2, <1>3, <1>4, <1>5 DEF EInv, LineInv

(* eventdev/main.c: whoever has an event has the flow, and the events stay in line. *)
THEOREM EventsInLine == Spec => []EInv
<1> QED
  BY EventInit, EventInductive, PTL DEF Spec

(* The states of eventdev/main.c are as typed; the device never counts a release it *)
(* has not counted the event of.                                                    *)
THEOREM EventTypes == Spec => []TypeOK
<1>1. EInv => TypeOK
  BY DEF EInv
<1> QED
  BY <1>1, EventsInLine, PTL

(* The worker that takes an exit event keeps the flow for good (main.c:36-37): at most *)
(* one of them returns, however many there are.                                        *)
THEOREM OnlyOneReturns == Spec => []OneWorkerReturns
<1>1. EInv => OneWorkerReturns
  <2> SUFFICES ASSUME EInv PROVE Cardinality(Returned) <= 1
    BY DEF OneWorkerReturns
  <2>1. \A w \in Returned : w = flow
    <3>1. ASSUME NEW w \in Returned PROVE w = flow
      <4>1. w \in Workers /\ w \in Ports /\ workerPc[w] # "idle"
        BY Sizes DEF EInv, TypeOK, Returned
      <4> QED
        BY <4>1, HoldsFlow DEF EInv
    <3> QED
      BY <3>1
  <2>2. Returned \subseteq {flow}
    BY <2>1
  <2>3. IsFiniteSet({flow}) /\ Cardinality({flow}) = 1
    BY FS_Singleton
  <2> QED
    BY <2>2, <2>3, FS_Subset
<1> QED
  BY <1>1, EventsInLine, PTL

(* Events are processed in the order main sent them and none twice, two workers are *)
(* never busy at once, and a worker that returns leaves no work undone              *)
(* (main.c:27, 58, 118-145).                                                        *)
THEOREM WorkIsInOrder == Spec => []ProcessedInOrder
<1>1. EInv => ProcessedInOrder
  <2> SUFFICES ASSUME EInv PROVE ProcessedInOrder
    OBVIOUS
  <2>1. \A j, k \in 1..Len(processed) : j < k => processed[j].event < processed[k].event
    BY DEF EInv, StagesOrdered
  <2>2. ASSUME NEW v \in Workers, NEW w \in Workers, v # w,
               workerPc[v] = "busy", workerPc[w] = "busy"
        PROVE  FALSE
    <3>1. v \in Ports /\ w \in Ports /\ workerPc[v] # "idle" /\ workerPc[w] # "idle"
      BY <2>2, Sizes DEF EInv, TypeOK
    <3>2. flow = v
      BY <3>1, HoldsFlow DEF EInv
    <3>3. flow = w
      BY <3>1, HoldsFlow DEF EInv
    <3> QED
      BY <2>2, <3>2, <3>3
  <2>3. ASSUME Returned # {} PROVE 1..NUM_EVENTS \subseteq Done \cup lost
    <3>1. PICK x \in Done : x > NUM_EVENTS
      BY <2>3 DEF EInv, ReturnedOnExit
    <3>2. /\ x \in Nat /\ NUM_EVENTS \in Nat /\ sent \in Nat
          /\ Delivered \subseteq Nat /\ Range(queue) \subseteq Nat /\ Incoming \subseteq Nat
      <4>1. TypeOK
        BY DEF EInv
      <4>2. /\ Done \subseteq Nat /\ Delivered \subseteq Nat
            /\ Range(queue) \subseteq Nat /\ Incoming \subseteq Nat
        BY <4>1, StageTypes
      <4>3. NUM_EVENTS \in Nat /\ sent \in Nat
        BY <4>1, Sizes DEF TypeOK
      <4> QED
        BY <3>1, <4>2, <4>3
    <3>3. 1..NUM_EVENTS \subseteq Sent
      <4>1. x \in Sent
        BY <3>1 DEF EInv, NoneMissing
      <4> QED
        BY <3>1, <3>2, <4>1 DEF Sent
    <3>4. \A y \in Delivered \cup Range(queue) \cup Incoming : x < y
      BY <3>1 DEF EInv, InLine, Before
    <3>5. ASSUME NEW y \in 1..NUM_EVENTS PROVE y \in Done \cup lost
      <4>1. y \notin Delivered /\ y \notin Range(queue) /\ y \notin Incoming
        BY <3>1, <3>2, <3>4
      <4> QED
        BY <3>3, <4>1 DEF EInv, NoneMissing
    <3> QED
      BY <3>5
  <2> QED
    BY <2>1, <2>2, <2>3 DEF ProcessedInOrder
<1> QED
  BY <1>1, EventsInLine, PTL
===============================================================================
