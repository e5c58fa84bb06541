---------------------------- MODULE EventMbufs_proofs ----------------------------
(***************************************************************************)
(* What is proved of the programs that send mbufs or blocks through one    *)
(* event device or one ring, for any pool, threshold and number of them.   *)
(*                                                                         *)
(* An mbuf is a token: every step takes it from one place and puts it in   *)
(* another, so the number of its places stays 1 (Owned).  What could break *)
(* that is a dequeue on a shared port; as long as no two overlapped, the   *)
(* only one that is under way reads the slot behind the head (Alone).      *)
(***************************************************************************)
EXTENDS EventMbufs, SequenceFacts

\* What the device, or the ring, of this program can carry.
Whats ==
  IF program # "ipc_eventdev2" THEN Mbufs
  ELSE IF pc["secondary"] = "returned" THEN {100, 101} ELSE {100}
Tags == IF program = "ipc_ring_pri_sec" THEN 0..MESSAGES ELSE {0, 1}
Carriable == [what : Whats, tag : Tags]

Rings == queue \in [0..1 -> Seq(Carriable)] /\ cq \in [0..1 -> Seq(Carriable)]

\* The programs whose ports are not shared, or that have none.
Unshared ==
  program \in {"ipc_eventdev", "ipc_ring_pri_sec"} =>
    head = 0 /\ \A c \in Actors : reading[c] = 0

\* ipc_eventdev2 sends its one event to a device that is empty.
Fresh ==
  program = "ipc_eventdev2" =>
    /\ \A c \in Actors : held[c] = NoEvent
    /\ pc["primary"] = "send" =>
         head = 0 /\ \A q \in 0..1 : queue[q] = <<>> /\ cq[q] = <<>>

MTypes == TypeOK /\ Rings /\ Unshared /\ Fresh

\* A dequeue that overlaps with no other one takes the slot behind the head.
Alone ==
  ~overlapped =>
    \A c \in Actors :
      reading[c] # 0 =>
        /\ reading[c] = head + 1 /\ held[c] = NoEvent
        /\ \A d \in Actors : reading[d] # 0 => d = c

\* Events as such, and those with m; how many of them a sequence has.
AnyEvent == [what : Mbufs \cup {100, 101}, tag : 0..MESSAGES]
With(m) == {e \in AnyEvent : e.what = m}
Count(q, m) == Cardinality(Where(q, With(m)))

\* The places of m, one by one.
InPool(m) == IF m \in free THEN 1 ELSE 0
InRefused(m) == IF m \in refused THEN 1 ELSE 0
AtLcores(m) == {c \in Lcores \cap Holders : held[c].what = m}
Places(m) ==
  InPool(m) + InRefused(m)
    + Count(queue[0], m) + Count(queue[1], m)
    + Count(Undelivered(0), m) + Count(Undelivered(1), m)
    + Cardinality(AtLcores(m))

Owned ==
  program # "ipc_eventdev2" /\ ~overlapped =>
    twice = {} /\ \A m \in Mbufs : Places(m) = 1

EmInv == MTypes /\ Alone /\ Owned

-------------------------------------------------------------------------------
(* Types *)

(* The parameters are numbers. *)
LEMMA Sizes ==
  /\ LIMIT \in Nat /\ LIMIT >= 1 /\ MESSAGES \in Nat /\ MESSAGES >= 1
  /\ MaxEvents \in Nat /\ MaxEvents >= 1
  /\ NoEvent \notin AnyEvent
<1>1. {LIMIT, MESSAGES, MaxEvents} \subseteq Nat \ {0} /\ NoEvent \notin AnyEvent
  BY EventMbufsAssumption DEF AnyEvent
<1> QED
  BY <1>1

(* What this program carries are events, and its rings hold nothing else. *)
LEMMA CarriesEvents ==
  /\ Carriable \subseteq AnyEvent /\ {0, 1} \subseteq Tags
  /\ \A w \in Whats, t \in Tags : Event(w, t) \in Carriable
  /\ Rings => \A s \in Range(queue) \cup Range(cq) :
                s \in Seq([what : Mbufs \cup {100, 101}, tag : 0..MESSAGES])
<1>1. Whats \subseteq Mbufs \cup {100, 101}
  BY DEF Whats
<1>2. Tags \subseteq 0..MESSAGES /\ {0, 1} \subseteq Tags
  BY Sizes DEF Tags
<1>3. Carriable \subseteq AnyEvent
  <2> SUFFICES ASSUME NEW w \in Whats, NEW t \in Tags PROVE [what |-> w, tag |-> t] \in AnyEvent
    BY DEF Carriable
  <2> QED
    BY <1>1, <1>2 DEF AnyEvent
<1>4. \A w \in Whats, t \in Tags : Event(w, t) \in Carriable
  BY DEF Carriable, Event
<1>5. ASSUME Rings, NEW s \in Range(queue) \cup Range(cq)
      PROVE  s \in Seq(AnyEvent)
  <2>1. s \in Seq(Carriable)
    BY <1>5 DEF Rings, Range
  <2> QED
    BY <1>3, <2>1, SeqMonotonic
<1> QED
  BY <1>2, <1>3, <1>4, <1>5 DEF AnyEvent

(* The same after a step. *)
LEMMA CarriesEventsNext ==
  Rings' => \A s \in Range(queue') \cup Range(cq') :
              s \in Seq([what : Mbufs \cup {100, 101}, tag : 0..MESSAGES])
<1>1. Rings => \A s \in Range(queue) \cup Range(cq) :
                 s \in Seq([what : Mbufs \cup {100, 101}, tag : 0..MESSAGES])
  BY CarriesEvents
<1>2. Rings' => (\A s \in Range(queue) \cup Range(cq) :
                  s \in Seq([what : Mbufs \cup {100, 101}, tag : 0..MESSAGES]))'
  BY <1>1, PTL
<1> QED
  BY <1>2

(* What a program carries is settled, but for the answer of ipc_eventdev2. *)
LEMMA SameCarriage ==
  ASSUME program' = program,
         pc'["secondary"] = "returned" <=> pc["secondary"] = "returned"
  PROVE  Whats' = Whats /\ Tags' = Tags /\ Carriable' = Carriable /\ SharedPort' = SharedPort
  BY DEF Whats, Tags, Carriable, SharedPort

(* An event more in a queue, or at the end of a port's ring, and one fewer. *)
LEMMA RingSteps ==
  ASSUME NEW S, NEW f \in [0..1 -> Seq(S)], NEW q \in 0..1
  PROVE  /\ \A e \in S : /\ [f EXCEPT ![q] = Append(@, e)] \in [0..1 -> Seq(S)]
                         /\ Len(Append(f[q], e)) = Len(f[q]) + 1
         /\ f[q] # <<>> => /\ Head(f[q]) \in S
                           /\ [f EXCEPT ![q] = Tail(@)] \in [0..1 -> Seq(S)]
                           /\ Len(Tail(f[q])) = Len(f[q]) - 1
         /\ Len(f[q]) \in Nat
<1>1. f[q] \in Seq(S)
  OBVIOUS
<1>2. ASSUME NEW e \in S
      PROVE  Append(f[q], e) \in Seq(S) /\ Len(Append(f[q], e)) = Len(f[q]) + 1
  BY <1>1, AppendProperties
<1>3. f[q] # <<>> => /\ Head(f[q]) \in S /\ Tail(f[q]) \in Seq(S)
                     /\ Len(Tail(f[q])) = Len(f[q]) - 1
  BY <1>1, HeadTailProperties
<1>4. Len(f[q]) \in Nat
  BY <1>1, LenProperties
<1> QED
  BY <1>2, <1>3, <1>4

(* A new event is queued, or its mbuf is refused. *)
LEMMA EnqueueTypes ==
  ASSUME MTypes, NEW m \in Whats, NEW q \in 0..1, NEW n, EnqueueNew(m, q, n)
  PROVE  /\ queue' \in [0..1 -> Seq(Carriable)]
         /\ refused' = refused \/ (refused' = refused \cup {m} /\ ~(n < LIMIT))
<1>1. Event(m, q) \in Carriable
  BY CarriesEvents DEF Tags
<1>2. queue \in [0..1 -> Seq(Carriable)]
  BY DEF MTypes, Rings
<1>3. [queue EXCEPT ![q] = Append(@, Event(m, q))] \in [0..1 -> Seq(Carriable)]
  BY <1>1, <1>2, RingSteps
<1> QED
  BY <1>2, <1>3 DEF EnqueueNew

(* The parts of the step that most of the actions leave alone. *)
LEMMA MTypesFrom ==
  ASSUME MTypes, program' = program,
         pc' \in [Actors -> {"absent", "send", "receive", "poll", "returned", "crashed"}],
         free' \subseteq Mbufs, Rings',
         head' \in 0..Len(cq'[SharedPort]),
         reading' \in [Actors -> 0..Len(cq'[SharedPort])],
         held' \in [Actors -> [what : Mbufs, tag : {0, 1}] \cup {NoEvent}],
         sent' \in 0..(IF program = "ipc_ring_pri_sec" THEN MESSAGES ELSE MaxEvents),
         got' \in [Processes -> Seq(Nat)],
         refused' \subseteq Mbufs, twice' \subseteq Mbufs, overlapped' \in BOOLEAN,
         Unshared', Fresh'
  PROVE  MTypes'
<1>1. SharedPort' = SharedPort
  BY DEF SharedPort
<1>2. \A s \in Range(queue') \cup Range(cq') :
        s \in Seq([what : Mbufs \cup {100, 101}, tag : 0..MESSAGES])
  BY CarriesEventsNext
<1>3. program' \in Programs
  BY DEF MTypes, TypeOK
<1>4. TypeOK'
  BY <1>1, <1>2, <1>3 DEF TypeOK
<1> QED
  BY <1>4 DEF MTypes

(* ipc_eventdev *)
LEMMA EventdevTypes ==
  ASSUME MTypes, prim_send \/ prim_receive \/ sec_answer
  PROVE  MTypes'
<1>1. /\ program = "ipc_eventdev" /\ SharedPort = 1 /\ Whats = Mbufs /\ Tags = {0, 1}
      /\ program' = program
  BY DEF prim_send, prim_receive, sec_answer, Runs, SharedPort, Whats, Tags
<1>2. /\ queue \in [0..1 -> Seq(Carriable)] /\ cq \in [0..1 -> Seq(Carriable)]
      /\ head = 0 /\ (\A c \in Actors : reading[c] = 0)
      /\ pc \in [Actors -> {"absent", "send", "receive", "poll", "returned", "crashed"}]
      /\ held \in [Actors -> [what : Mbufs, tag : {0, 1}] \cup {NoEvent}]
      /\ refused \subseteq Mbufs /\ twice \subseteq Mbufs /\ overlapped \in BOOLEAN
      /\ free \subseteq Mbufs /\ got \in [Processes -> Seq(Nat)]
      /\ sent \in 0..MaxEvents
      /\ reading \in [Actors -> Nat]
  BY <1>1 DEF MTypes, TypeOK, Rings, Unshared
<1>3. pc' \in [Actors -> {"absent", "send", "receive", "poll", "returned", "crashed"}]
  BY <1>2 DEF prim_send, prim_receive, sec_answer, Goes
<1>4. Carriable' = Carriable
  BY <1>1 DEF Carriable, Whats, Tags
<1>5. \A e \in Carriable : e.what \in Mbufs /\ e \in [what : Mbufs, tag : {0, 1}]
  BY <1>1 DEF Carriable
<1>6. UNCHANGED <<head, reading, sent, got, overlapped>>
  BY DEF prim_send, prim_receive, sec_answer
<1>7. \A c \in Actors, p \in 0..1 :
        Dequeue(c, p) =>
          /\ held' \in [Actors -> [what : Mbufs, tag : {0, 1}] \cup {NoEvent}]
          /\ cq' \in [0..1 -> Seq(Carriable)]
  <2> SUFFICES ASSUME NEW c \in Actors, NEW p \in 0..1, Dequeue(c, p)
               PROVE  /\ held' \in [Actors -> [what : Mbufs, tag : {0, 1}] \cup {NoEvent}]
                      /\ cq' \in [0..1 -> Seq(Carriable)]
    OBVIOUS
  <2>1. cq[p] # <<>> => /\ Head(cq[p]) \in Carriable
                        /\ [cq EXCEPT ![p] = Tail(@)] \in [0..1 -> Seq(Carriable)]
    BY <1>2, RingSteps
  <2> QED
    BY <1>2, <1>5, <2>1 DEF Dequeue
<1>8. \A p \in 0..1 : cq[p] # <<>> => Head(cq[p]).what \in Mbufs
  <2>1. \A p \in 0..1 : cq[p] # <<>> => Head(cq[p]) \in Carriable
    BY <1>2, RingSteps
  <2> QED
    BY <1>5, <2>1
<1>9. /\ queue' \in [0..1 -> Seq(Carriable)] /\ cq' \in [0..1 -> Seq(Carriable)]
      /\ held' \in [Actors -> [what : Mbufs, tag : {0, 1}] \cup {NoEvent}]
      /\ free' \subseteq Mbufs /\ refused' \subseteq Mbufs /\ twice' \subseteq Mbufs
  <2>1. CASE prim_send
    <3>1. PICK m \in free : free' = free \ {m} /\ EnqueueNew(m, 0, InDevice)
      BY <2>1 DEF prim_send
    <3>2. /\ queue' \in [0..1 -> Seq(Carriable)]
          /\ refused' = refused \/ refused' = refused \cup {m}
      BY <1>1, <1>2, <3>1, EnqueueTypes
    <3> QED
      BY <1>2, <2>1, <3>1, <3>2 DEF prim_send
  <2>2. CASE prim_receive
    <3>1. Dequeue("primary", 0) /\ "primary" \in Actors
      BY <2>2 DEF prim_receive, Actors, Processes
    <3>2. /\ held' \in [Actors -> [what : Mbufs, tag : {0, 1}] \cup {NoEvent}]
          /\ cq' \in [0..1 -> Seq(Carriable)]
      BY <1>7, <3>1
    <3> QED
      BY <1>2, <1>8, <2>2, <3>2 DEF prim_receive, Free
  <2>3. CASE sec_answer
    <3>1. Dequeue("secondary", 1) /\ "secondary" \in Actors
      BY <2>3 DEF sec_answer, Actors, Processes
    <3>2. /\ held' \in [Actors -> [what : Mbufs, tag : {0, 1}] \cup {NoEvent}]
          /\ cq' \in [0..1 -> Seq(Carriable)]
      BY <1>7, <3>1
    <3>3. CASE cq[1] = <<>>
      BY <1>2, <2>3, <3>2, <3>3 DEF sec_answer
    <3>4. CASE cq[1] # <<>>
      <4>1. PICK n : EnqueueNew(Head(cq[1]).what, 1, n)
        BY <2>3, <3>4 DEF sec_answer
      <4>2. Head(cq[1]).what \in Whats
        BY <1>1, <1>8, <3>4
      <4>3. /\ queue' \in [0..1 -> Seq(Carriable)]
            /\ refused' = refused \/ refused' = refused \cup {Head(cq[1]).what}
        BY <4>1, <4>2, EnqueueTypes
      <4> QED
        BY <1>1, <1>2, <2>3, <3>2, <4>2, <4>3 DEF sec_answer
    <3> QED
      BY <3>3, <3>4
  <2> QED
    BY <2>1, <2>2, <2>3
<1>10. Rings'
  BY <1>4, <1>9 DEF Rings
<1>11. Unshared' /\ Fresh'
  BY <1>1, <1>2, <1>6 DEF Unshared, Fresh
<1>12. /\ head' \in 0..Len(cq'[SharedPort])
       /\ reading' \in [Actors -> 0..Len(cq'[SharedPort])]
  <2>1. Len(cq'[SharedPort]) \in Nat
    BY <1>1, <1>9, RingSteps
  <2> QED
    BY <1>2, <1>6, <2>1
<1> QED
  BY <1>1, <1>2, <1>3, <1>6, <1>9, <1>10, <1>11, <1>12, MTypesFrom

(* A dequeue of a shared port: the slot is one of the ring's, and the head moves there. *)
LEMMA DequeueTypes ==
  ASSUME MTypes, NEW c \in Actors
  PROVE  /\ BeginDequeue(c) =>
              /\ reading' \in [Actors -> 0..Len(cq[SharedPort])]
              /\ overlapped' \in BOOLEAN /\ Len(cq[SharedPort]) # 0
         /\ EndDequeue(c) =>
              /\ head' \in 0..Len(cq[SharedPort])
              /\ reading' \in [Actors -> 0..Len(cq[SharedPort])]
              /\ cq[SharedPort][reading[c]] \in Carriable /\ Len(cq[SharedPort]) # 0
<1>1. /\ SharedPort \in 0..1 /\ Len(cq[SharedPort]) \in Nat
      /\ cq[SharedPort] \in Seq(Carriable)
      /\ head \in 0..Len(cq[SharedPort])
      /\ reading \in [Actors -> 0..Len(cq[SharedPort])]
      /\ overlapped \in BOOLEAN
  <2>1. SharedPort \in 0..1 /\ cq \in [0..1 -> Seq(Carriable)]
    BY DEF SharedPort, MTypes, Rings
  <2>2. Len(cq[SharedPort]) \in Nat
    BY <2>1, LenProperties
  <2> QED
    BY <2>1, <2>2 DEF MTypes, TypeOK
<1>2. ASSUME BeginDequeue(c)
      PROVE  /\ reading' \in [Actors -> 0..Len(cq[SharedPort])]
             /\ overlapped' \in BOOLEAN /\ Len(cq[SharedPort]) # 0
  <2>1. head + 1 \in 0..Len(cq[SharedPort]) /\ Len(cq[SharedPort]) # 0
    BY <1>1, <1>2 DEF BeginDequeue
  <2> QED
    BY <1>1, <1>2, <2>1 DEF BeginDequeue
<1>3. ASSUME EndDequeue(c)
      PROVE  /\ head' \in 0..Len(cq[SharedPort])
             /\ reading' \in [Actors -> 0..Len(cq[SharedPort])]
             /\ cq[SharedPort][reading[c]] \in Carriable /\ Len(cq[SharedPort]) # 0
  <2>1. reading[c] \in 1..Len(cq[SharedPort])
    BY <1>1, <1>3 DEF EndDequeue
  <2>2. cq[SharedPort][reading[c]] \in Carriable
    BY <1>1, <2>1, ElementOfSeq
  <2> QED
    BY <1>1, <1>3, <2>1, <2>2 DEF EndDequeue
<1> QED
  BY <1>2, <1>3

(* ipc_eventdev2 *)
LEMMA Eventdev2Types ==
  ASSUME MTypes, prim2_send \/ prim2_begin \/ prim2_receive \/ sec2_begin \/ sec2_answer
  PROVE  MTypes'
<1> DEFINE PcType == [Actors -> {"absent", "send", "receive", "poll", "returned", "crashed"}]
<1>1. /\ program = "ipc_eventdev2" /\ SharedPort = 0 /\ Tags = {0, 1}
      /\ program' = program /\ "primary" \in Actors /\ "secondary" \in Actors
      /\ "primary" \in Processes /\ "secondary" \in Processes
  BY DEF prim2_send, prim2_begin, prim2_receive, sec2_begin, sec2_answer, BeginDequeue, Runs,
         SharedPort, Tags, Actors, Processes
<1>2. /\ queue \in [0..1 -> Seq(Carriable)] /\ cq \in [0..1 -> Seq(Carriable)]
      /\ Len(cq[0]) \in Nat /\ head \in 0..Len(cq[0])
      /\ reading \in [Actors -> 0..Len(cq[0])]
      /\ pc \in PcType
      /\ (\A c \in Actors : held[c] = NoEvent)
      /\ held \in [Actors -> [what : Mbufs, tag : {0, 1}] \cup {NoEvent}]
      /\ refused \subseteq Mbufs /\ twice \subseteq Mbufs /\ overlapped \in BOOLEAN
      /\ free \subseteq Mbufs /\ got \in [Processes -> Seq(Nat)]
      /\ sent \in 0..MaxEvents
  <2>1. queue \in [0..1 -> Seq(Carriable)] /\ cq \in [0..1 -> Seq(Carriable)]
    BY DEF MTypes, Rings
  <2>2. Len(cq[0]) \in Nat
    BY <2>1, LenProperties
  <2> QED
    BY <1>1, <2>1, <2>2 DEF MTypes, TypeOK, Fresh
<1>3. pc["primary"] = "send" =>
        head = 0 /\ \A q \in 0..1 : queue[q] = <<>> /\ cq[q] = <<>>
  BY <1>1 DEF MTypes, Fresh
<1>4. Unshared'
  BY <1>1 DEF Unshared
<1>5. CASE prim2_send
  <2>1. /\ pc["primary"] = "send" /\ EnqueueNew(100, 0, InDevice)
        /\ pc' = [pc EXCEPT !["primary"] = "poll"]
        /\ UNCHANGED <<free, cq, head, reading, held, sent, got, twice, overlapped>>
    BY <1>5 DEF prim2_send, Runs, Goes
  <2>2. InDevice < LIMIT
    <3>1. Holders = {}
      BY <1>2 DEF Holders
    <3>2. Cardinality(Holders) = 0
      BY <3>1, FS_EmptySet
    <3>3. head = 0 /\ Len(queue[0]) = 0 /\ Len(queue[1]) = 0 /\ Len(cq[0]) = 0 /\ Len(cq[1]) = 0
      BY <1>3, <2>1, EmptySeq
    <3> QED
      BY <3>2, <3>3, Sizes DEF InDevice
  <2>3. 100 \in Whats
    BY <1>1 DEF Whats
  <2>4. queue' \in [0..1 -> Seq(Carriable)] /\ refused' = refused
    BY <2>1, <2>2, <2>3, EnqueueTypes DEF EnqueueNew
  <2>5. Carriable' = Carriable
    BY <1>1, <1>2, <2>1, SameCarriage
  <2>6. Rings'
    BY <1>2, <2>1, <2>4, <2>5 DEF Rings
  <2>7. Fresh'
    BY <1>1, <1>2, <2>1 DEF Fresh
  <2>8. pc' \in PcType
    BY <1>2, <2>1
  <2> QED
    BY <1>1, <1>2, <1>4, <2>1, <2>4, <2>6, <2>7, <2>8, MTypesFrom
<1>6. ASSUME NEW c \in Processes, BeginDequeue(c) PROVE MTypes'
  <2>1. UNCHANGED <<pc, free, queue, cq, head, held, sent, got, refused, twice>>
    BY <1>6 DEF BeginDequeue
  <2>2. /\ reading' \in [Actors -> 0..Len(cq[0])] /\ overlapped' \in BOOLEAN
    BY <1>1, <1>6, DequeueTypes DEF Actors
  <2>3. Rings' /\ Fresh'
    BY <1>1, <1>2, <1>3, <2>1, SameCarriage DEF Rings, Fresh
  <2> QED
    BY <1>1, <1>2, <1>4, <2>1, <2>2, <2>3, MTypesFrom
<1>7. ASSUME NEW c \in Processes, EndDequeue(c)
      PROVE  /\ head' \in 0..Len(cq[0]) /\ reading' \in [Actors -> 0..Len(cq[0])]
             /\ Read(c) \in Whats /\ pc["primary"] # "send"
             /\ [got EXCEPT ![c] = Append(@, Read(c))] \in [Processes -> Seq(Nat)]
  <2>1. /\ head' \in 0..Len(cq[0]) /\ reading' \in [Actors -> 0..Len(cq[0])]
        /\ cq[0][reading[c]] \in Carriable /\ Len(cq[0]) # 0
    BY <1>1, <1>7, DequeueTypes DEF Actors
  <2>2. Read(c) \in Whats
    BY <1>1, <2>1 DEF Read, Carriable
  <2>3. Read(c) \in Nat
    BY <1>1, <2>2 DEF Whats
  <2>4. pc["primary"] # "send"
    BY <1>3, <2>1, EmptySeq
  <2>5. Append(got[c], Read(c)) \in Seq(Nat)
    BY <1>2, <2>3, AppendProperties
  <2> QED
    BY <1>2, <2>1, <2>2, <2>4, <2>5
<1>8. CASE prim2_receive
  <2>1. /\ EndDequeue("primary")
        /\ got' = [got EXCEPT !["primary"] = Append(@, Read("primary"))]
        /\ pc' = [pc EXCEPT !["primary"] = "returned"]
        /\ UNCHANGED <<free, queue, cq, held, sent, refused, twice, overlapped>>
    BY <1>8 DEF prim2_receive, Goes, history
  <2>2. /\ head' \in 0..Len(cq[0]) /\ reading' \in [Actors -> 0..Len(cq[0])]
        /\ got' \in [Processes -> Seq(Nat)]
    BY <1>1, <1>7, <2>1
  <2>3. Carriable' = Carriable
    BY <1>1, <1>2, <2>1, SameCarriage
  <2>4. Rings' /\ Fresh' /\ pc' \in PcType
    BY <1>1, <1>2, <2>1, <2>3 DEF Rings, Fresh
  <2> QED
    BY <1>1, <1>2, <1>4, <2>1, <2>2, <2>4, MTypesFrom
<1>9. CASE sec2_answer
  <2>1. /\ pc["secondary"] = "poll" /\ EndDequeue("secondary")
        /\ got' = [got EXCEPT !["secondary"] = Append(@, Read("secondary"))]
        /\ queue' = [queue EXCEPT ![0] = Append(@, Event(Read("secondary") + 1, 0))]
        /\ pc' = [pc EXCEPT !["secondary"] = "returned"]
        /\ UNCHANGED <<free, cq, held, sent, refused, twice, overlapped>>
    BY <1>9 DEF sec2_answer, Runs, Goes, history
  <2>2. /\ head' \in 0..Len(cq[0]) /\ reading' \in [Actors -> 0..Len(cq[0])]
        /\ got' \in [Processes -> Seq(Nat)] /\ Read("secondary") \in Whats
        /\ pc["primary"] # "send"
    BY <1>1, <1>7, <2>1
  <2>3. Read("secondary") = 100
    BY <1>1, <2>1, <2>2 DEF Whats
  <2>4. /\ Carriable \subseteq Carriable' /\ Event(Read("secondary") + 1, 0) \in Carriable'
    BY <1>1, <1>2, <2>1, <2>3 DEF Carriable, Whats, Tags, Event
  <2>5. queue \in [0..1 -> Seq(Carriable')] /\ cq \in [0..1 -> Seq(Carriable')]
    <3>1. \A s \in Seq(Carriable) : s \in Seq(Carriable')
      BY <2>4, SeqMonotonic
    <3> QED
      BY <1>2, <3>1
  <2>6. queue' \in [0..1 -> Seq(Carriable')]
    BY <2>1, <2>4, <2>5, RingSteps
  <2>7. Rings'
    BY <2>1, <2>5, <2>6 DEF Rings
  <2>8. Fresh' /\ pc' \in PcType
    BY <1>1, <1>2, <2>1, <2>2 DEF Fresh
  <2> QED
    BY <1>1, <1>2, <1>4, <2>1, <2>2, <2>7, <2>8, MTypesFrom
<1> QED
  BY <1>1, <1>5, <1>6, <1>8, <1>9 DEF prim2_begin, sec2_begin

(* eventdev_packet_parsing *)
LEMMA ParsingTypes ==
  ASSUME MTypes, receive_handler \/ transmit_handler \/ drop_handler
  PROVE  MTypes'
<1>1. /\ program = "eventdev_packet_parsing" /\ SharedPort = 1 /\ Tags = {0, 1}
      /\ program' = program /\ Whats = Mbufs /\ pc' = pc
  BY DEF receive_handler, transmit_handler, drop_handler, Handler, BeginDequeue, TakesEvent,
         ReleasesAndFrees, SharedPort, Tags, Whats
<1>2. /\ queue \in [0..1 -> Seq(Carriable)] /\ cq \in [0..1 -> Seq(Carriable)]
      /\ head \in 0..Len(cq[1])
      /\ reading \in [Actors -> 0..Len(cq[1])]
      /\ pc \in [Actors -> {"absent", "send", "receive", "poll", "returned", "crashed"}]
      /\ held \in [Actors -> [what : Mbufs, tag : {0, 1}] \cup {NoEvent}]
      /\ refused \subseteq Mbufs /\ twice \subseteq Mbufs /\ overlapped \in BOOLEAN
      /\ free \subseteq Mbufs /\ got \in [Processes -> Seq(Nat)]
      /\ sent \in 0..MaxEvents
  BY <1>1 DEF MTypes, TypeOK, Rings
<1>3. Unshared' /\ Fresh' /\ Carriable' = Carriable
  BY <1>1, SameCarriage DEF Unshared, Fresh
<1>4. CASE receive_handler
  <2>1. PICK m \in free : free' = free \ {m} /\ EnqueueNew(m, 0, InDevice)
    BY <1>4 DEF receive_handler
  <2>2. /\ queue' \in [0..1 -> Seq(Carriable)]
        /\ refused' = refused \/ refused' = refused \cup {m}
    BY <1>1, <1>2, <2>1, EnqueueTypes
  <2>3. /\ sent < MaxEvents /\ sent' = sent + 1
        /\ UNCHANGED <<cq, head, reading, held, got, twice, overlapped>>
    BY <1>4 DEF receive_handler
  <2>4. sent' \in 0..MaxEvents
    BY <1>2, <2>3, Sizes
  <2>5. Rings'
    BY <1>2, <1>3, <2>2, <2>3 DEF Rings
  <2> QED
    BY <1>1, <1>2, <1>3, <2>1, <2>2, <2>3, <2>4, <2>5, MTypesFrom
<1>5. ASSUME NEW c \in Lcores, Handler(c) PROVE MTypes'
  <2>1. c \in Actors
    BY DEF Actors
  <2>2. CASE BeginDequeue(c)
    <3>1. UNCHANGED <<free, queue, cq, head, held, sent, got, refused, twice>>
      BY <2>2 DEF BeginDequeue
    <3>2. reading' \in [Actors -> 0..Len(cq[1])] /\ overlapped' \in BOOLEAN
      BY <1>1, <2>1, <2>2, DequeueTypes
    <3>3. Rings'
      BY <1>2, <1>3, <3>1 DEF Rings
    <3> QED
      BY <1>1, <1>2, <1>3, <3>1, <3>2, <3>3, MTypesFrom
  <2>3. CASE TakesEvent(c)
    <3>1. /\ EndDequeue(c) /\ held' = [held EXCEPT ![c] = cq[1][reading[c]]]
          /\ UNCHANGED <<free, queue, cq, sent, got, refused, twice, overlapped>>
      BY <2>3 DEF TakesEvent, history
    <3>2. /\ head' \in 0..Len(cq[1]) /\ reading' \in [Actors -> 0..Len(cq[1])]
          /\ cq[1][reading[c]] \in Carriable
      BY <1>1, <2>1, <3>1, DequeueTypes
    <3>3. held' \in [Actors -> [what : Mbufs, tag : {0, 1}] \cup {NoEvent}]
      BY <1>1, <1>2, <3>1, <3>2 DEF Carriable
    <3>4. Rings'
      BY <1>2, <1>3, <3>1 DEF Rings
    <3> QED
      BY <1>1, <1>2, <1>3, <3>1, <3>2, <3>3, <3>4, MTypesFrom
  <2>4. CASE ReleasesAndFrees(c)
    <3>1. /\ held[c] # NoEvent /\ held' = [held EXCEPT ![c] = NoEvent] /\ Free(held[c].what)
          /\ UNCHANGED <<queue, cq, head, reading, sent, got, refused, overlapped>>
      BY <2>4 DEF ReleasesAndFrees
    <3>2. held[c].what \in Mbufs
      BY <1>2, <2>1, <3>1
    <3>3. free' \subseteq Mbufs /\ twice' \subseteq Mbufs
      BY <1>2, <3>1, <3>2 DEF Free
    <3>4. held' \in [Actors -> [what : Mbufs, tag : {0, 1}] \cup {NoEvent}]
      BY <1>2, <3>1
    <3>5. Rings'
      BY <1>2, <1>3, <3>1 DEF Rings
    <3> QED
      BY <1>1, <1>2, <1>3, <3>1, <3>3, <3>4, <3>5, MTypesFrom
  <2> QED
    BY <1>5, <2>2, <2>3, <2>4 DEF Handler
<1> QED
  BY <1>4, <1>5 DEF transmit_handler, drop_handler, Lcores

(* ipc_ring_pri_sec *)
LEMMA RingTypes ==
  ASSUME MTypes, ring_send \/ ring_return \/ ring_receive
  PROVE  MTypes'
<1>1. /\ program = "ipc_ring_pri_sec" /\ SharedPort = 1 /\ Tags = 0..MESSAGES
      /\ program' = program /\ Whats = Mbufs
      /\ UNCHANGED <<cq, head, reading, held, refused, overlapped>>
  BY DEF ring_send, ring_return, ring_receive, Runs, SharedPort, Tags, Whats, device, history
<1>2. /\ queue \in [0..1 -> Seq(Carriable)] /\ cq \in [0..1 -> Seq(Carriable)]
      /\ head \in 0..Len(cq[1]) /\ head = 0 /\ (\A c \in Actors : reading[c] = 0)
      /\ reading \in [Actors -> 0..Len(cq[1])]
      /\ pc \in [Actors -> {"absent", "send", "receive", "poll", "returned", "crashed"}]
      /\ held \in [Actors -> [what : Mbufs, tag : {0, 1}] \cup {NoEvent}]
      /\ refused \subseteq Mbufs /\ twice \subseteq Mbufs /\ overlapped \in BOOLEAN
      /\ free \subseteq Mbufs /\ got \in [Processes -> Seq(Nat)]
      /\ sent \in 0..MESSAGES
  BY <1>1 DEF MTypes, TypeOK, Rings, Unshared
<1>3. Unshared' /\ Fresh' /\ Carriable' = Carriable
  <2>1. Carriable' = Carriable
    BY <1>1 DEF Carriable, Whats, Tags
  <2> QED
    BY <1>1, <1>2, <2>1 DEF Unshared, Fresh
<1>4. /\ pc' \in [Actors -> {"absent", "send", "receive", "poll", "returned", "crashed"}]
      /\ sent' \in 0..MESSAGES
  BY <1>2, Sizes DEF ring_send, ring_return, ring_receive, Goes
<1>5. /\ queue' \in [0..1 -> Seq(Carriable)] /\ free' \subseteq Mbufs /\ twice' \subseteq Mbufs
      /\ got' \in [Processes -> Seq(Nat)]
  <2>1. CASE ring_send
    <3>1. ASSUME NEW m \in free, sent < MESSAGES
          PROVE  [queue EXCEPT ![0] = Append(@, Event(m, sent))] \in [0..1 -> Seq(Carriable)]
      <4>1. Event(m, sent) \in Carriable
        <5>1. m \in Whats /\ sent \in Tags
          BY <1>1, <1>2
        <5> QED
          BY <5>1, CarriesEvents
      <4> QED
        BY <1>2, <4>1, RingSteps
    <3> QED
      BY <1>2, <2>1, <3>1 DEF ring_send, history
  <2>2. CASE ring_return
    BY <1>2, <2>2 DEF ring_return, device, history
  <2>3. CASE ring_receive
    <3>1. /\ queue[0] # <<>> /\ queue' = [queue EXCEPT ![0] = Tail(@)]
          /\ got' = [got EXCEPT !["secondary"] = Append(@, Head(queue[0]).tag)]
          /\ Free(Head(queue[0]).what)
      BY <2>3 DEF ring_receive
    <3>2. /\ Head(queue[0]) \in Carriable /\ queue' \in [0..1 -> Seq(Carriable)]
      BY <1>2, <3>1, RingSteps
    <3>3. Head(queue[0]).what \in Mbufs /\ Head(queue[0]).tag \in Nat
      BY <1>1, <3>2, Sizes DEF Carriable
    <3>4. got["secondary"] \in Seq(Nat)
      BY <1>2 DEF Processes
    <3>5. Append(got["secondary"], Head(queue[0]).tag) \in Seq(Nat)
      BY <3>3, <3>4, AppendProperties
    <3> QED
      BY <1>2, <3>1, <3>2, <3>3, <3>5 DEF Free
  <2> QED
    BY <2>1, <2>2, <2>3
<1>6. Rings'
  BY <1>1, <1>2, <1>3, <1>5 DEF Rings
<1> QED
  BY <1>1, <1>2, <1>3, <1>4, <1>5, <1>6, MTypesFrom

(* The scheduler and the start of the secondary *)
LEMMA ServiceTypes ==
  ASSUME MTypes, Service \/ StartSecondary
  PROVE  MTypes'
<1>1. /\ program' = program /\ SharedPort \in 0..1
      /\ UNCHANGED <<free, head, reading, held, sent, got, refused, twice, overlapped>>
  BY DEF Service, Schedule, StartSecondary, history, device, SharedPort
<1>2. /\ queue \in [0..1 -> Seq(Carriable)] /\ cq \in [0..1 -> Seq(Carriable)]
      /\ pc \in [Actors -> {"absent", "send", "receive", "poll", "returned", "crashed"}]
      /\ "secondary" \in Actors /\ "primary" \in Actors
  BY DEF MTypes, TypeOK, Rings, Actors, Processes
<1>3. Len(cq[SharedPort]) \in Nat
  BY <1>1, <1>2, LenProperties
<1>4. CASE StartSecondary
  <2>1. /\ pc["secondary"] = "absent" /\ pc' = [pc EXCEPT !["secondary"] = "poll"]
        /\ UNCHANGED <<queue, cq>>
    BY <1>4 DEF StartSecondary, Goes, device
  <2>2. Carriable' = Carriable
    BY <1>1, <1>2, <2>1, SameCarriage
  <2>3. Rings'
    BY <1>2, <2>1, <2>2 DEF Rings
  <2>4. Unshared' /\ Fresh'
    BY <1>1, <1>2, <2>1 DEF MTypes, Unshared, Fresh
  <2>5. pc' \in [Actors -> {"absent", "send", "receive", "poll", "returned", "crashed"}]
    BY <1>2, <2>1
  <2> QED
    BY <1>1, <2>1, <2>3, <2>4, <2>5, MTypesFrom DEF MTypes, TypeOK
<1>5. ASSUME NEW q \in 0..1, Schedule(q) PROVE MTypes'
  <2>1. /\ queue[q] # <<>> /\ pc' = pc
        /\ queue' = [queue EXCEPT ![q] = Tail(@)]
    BY <1>5 DEF Schedule
  <2>2. PICK p \in Linked(q) : cq' = [cq EXCEPT ![p] = Append(@, Head(queue[q]))]
    BY <1>5 DEF Schedule
  <2>3. p \in 0..1
    BY DEF Linked
  <2>4. Head(queue[q]) \in Carriable /\ queue' \in [0..1 -> Seq(Carriable)]
    BY <1>2, <2>1, RingSteps
  <2>5. cq' \in [0..1 -> Seq(Carriable)] /\ Len(Append(cq[p], Head(queue[q]))) = Len(cq[p]) + 1
    BY <1>2, <2>2, <2>3, <2>4, RingSteps
  <2>6. Len(cq'[SharedPort]) \in Nat /\ Len(cq'[SharedPort]) >= Len(cq[SharedPort])
    BY <1>1, <1>2, <1>3, <2>2, <2>3, <2>5
  <2>7. Carriable' = Carriable
    BY <1>1, <2>1, SameCarriage
  <2>8. Rings'
    BY <2>4, <2>5, <2>7 DEF Rings
  <2>9. Unshared' /\ Fresh'
    BY <1>1, <2>1 DEF MTypes, Unshared, Fresh
  <2>10. /\ head' \in 0..Len(cq'[SharedPort])
         /\ reading' \in [Actors -> 0..Len(cq'[SharedPort])]
    BY <1>1, <1>3, <2>6 DEF MTypes, TypeOK
  <2> QED
    BY <1>1, <2>1, <2>8, <2>9, <2>10, MTypesFrom DEF MTypes, TypeOK
<1> QED
  BY <1>4, <1>5 DEF Service

LEMMA MTypesStep == MTypes /\ [Next]_vars => MTypes'
<1> SUFFICES ASSUME MTypes, [Next]_vars PROVE MTypes'
  OBVIOUS
<1>1. CASE UNCHANGED vars
  <2>1. Carriable' = Carriable /\ SharedPort' = SharedPort
    BY <1>1, SameCarriage DEF vars
  <2>2. Rings' /\ Unshared' /\ Fresh'
    BY <1>1, <2>1 DEF vars, device, MTypes, Rings, Unshared, Fresh
  <2> QED
    BY <1>1, <2>1, <2>2, MTypesFrom DEF vars, device, history, MTypes, TypeOK
<1> QED
  BY <1>1, EventdevTypes, Eventdev2Types, ParsingTypes, RingTypes, ServiceTypes
     DEF Next, Primary, Secondary

LEMMA MTypesInit == Init => MTypes
<1> SUFFICES ASSUME Init PROVE MTypes
  OBVIOUS
<1>1. <<>> \in Seq(Carriable) /\ Len(<<>>) = 0 /\ <<>> \in Seq(Nat)
  BY EmptySeq
<1>2. Rings
  BY <1>1 DEF Init, Rings
<1>3. SharedPort \in 0..1 /\ Len(cq[SharedPort]) = 0
  BY <1>1 DEF Init, SharedPort
<1>4. \A s \in Range(queue) \cup Range(cq) :
        s \in Seq([what : Mbufs \cup {100, 101}, tag : 0..MESSAGES])
  BY <1>2, CarriesEvents
<1>5. /\ head \in 0..Len(cq[SharedPort])
      /\ reading \in [Actors -> 0..Len(cq[SharedPort])]
  BY <1>3 DEF Init
<1>6. /\ held \in [Actors -> [what : Mbufs, tag : {0, 1}] \cup {NoEvent}]
      /\ got \in [Processes -> Seq(Nat)]
      /\ pc \in [Actors -> {"absent", "send", "receive", "poll", "returned", "crashed"}]
      /\ sent \in 0..(IF program = "ipc_ring_pri_sec" THEN MESSAGES ELSE MaxEvents)
  BY <1>1, Sizes DEF Init
<1>7. TypeOK
  BY <1>4, <1>5, <1>6 DEF Init, TypeOK
<1>8. Unshared /\ Fresh
  BY DEF Init, Unshared, Fresh
<1> QED
  BY <1>2, <1>7, <1>8 DEF MTypes

(* The states of the four programs are as typed: what is dequeued was enqueued by the *)
(* same program, and the head of a shared port stays inside it.                       *)
THEOREM MbufTypes == Spec => []MTypes
<1> QED
  BY MTypesInit, MTypesStep, PTL DEF Spec

THEOREM EventMbufsTypes == Spec => []TypeOK
<1>1. MTypes => TypeOK
  BY DEF MTypes
<1> QED
  BY <1>1, MbufTypes, PTL

(* Once the pool is empty when the primary of ipc_eventdev comes to allocate, no step *)
(* frees an mbuf or moves the primary (prim.c:74-76, sec.c:33-46).                    *)
THEOREM PoolStaysEmpty == Spec => EmptyPoolIsForGood
<1> DEFINE P == program = "ipc_eventdev" /\ pc["primary"] = "send" /\ free = {}
<1>1. MTypes /\ P /\ [Next]_vars => P'
  <2> SUFFICES ASSUME MTypes, P, [Next]_vars PROVE P'
    OBVIOUS
  <2>1. /\ pc \in [Actors -> {"absent", "send", "receive", "poll", "returned", "crashed"}]
        /\ "primary" \in Actors
    BY DEF MTypes, TypeOK, Actors, Processes
  <2> QED
    BY <2>1 DEF Next, Primary, Secondary, Service, Schedule, StartSecondary, prim_send,
         prim_receive, sec_answer, prim2_send, prim2_begin, prim2_receive, sec2_begin,
         sec2_answer, ring_send, ring_return, ring_receive, receive_handler, transmit_handler,
         drop_handler, Handler, BeginDequeue, TakesEvent, ReleasesAndFrees, Runs, Goes, vars
<1>2. P => free = {}
  OBVIOUS
<1>3. Spec => [](P => [](free = {}))
  <2> HIDE DEF P
  <2> QED
    BY <1>1, <1>2, MbufTypes, PTL DEF Spec
<1> QED
  BY <1>3, PTL DEF EmptyPoolIsForGood

-------------------------------------------------------------------------------
(* Owners *)

One(x, m) == IF x = m THEN 1 ELSE 0

(* Events with m: in a sequence, behind one more, in front of one fewer. *)
LEMMA CountFacts ==
  ASSUME NEW q \in Seq(AnyEvent), NEW m
  PROVE  /\ Count(q, m) \in Nat
         /\ \A e \in AnyEvent : Count(Append(q, e), m) = Count(q, m) + One(e.what, m)
         /\ q # <<>> => Count(q, m) = Count(Tail(q), m) + One(Head(q).what, m)
<1>1. \A e \in AnyEvent : e \in With(m) <=> e.what = m
  BY DEF With
<1>2. ASSUME NEW e \in AnyEvent
      PROVE  Count(Append(q, e), m) = Count(q, m) + One(e.what, m)
  <2>1. Cardinality(Where(Append(q, e), With(m))) =
          Cardinality(Where(q, With(m))) + (IF e \in With(m) THEN 1 ELSE 0)
    BY WhereAppend
  <2> QED
    BY <1>1, <2>1 DEF Count, One
<1>3. ASSUME q # <<>>
      PROVE  Count(q, m) = Count(Tail(q), m) + One(Head(q).what, m)
  <2>1. Cardinality(Where(q, With(m))) =
          Cardinality(Where(Tail(q), With(m))) + (IF Head(q) \in With(m) THEN 1 ELSE 0)
    BY <1>3, WhereTail
  <2>2. Head(q) \in AnyEvent
    BY <1>3, HeadTailProperties
  <2> QED
    BY <1>1, <2>1, <2>2 DEF Count, One
<1>4. Count(q, m) \in Nat
  BY WhereFinite DEF Count
<1> QED
  BY <1>2, <1>3, <1>4

(* Everything that is counted is finite. *)
LEMMA PlacesTypes ==
  ASSUME MTypes, NEW m
  PROVE  /\ \A q \in 0..1 : queue[q] \in Seq(AnyEvent) /\ cq[q] \in Seq(AnyEvent)
         /\ \A p \in 0..1 : /\ Undelivered(p) \in Seq(AnyEvent)
                            /\ Count(Undelivered(p), m) \in Nat
         /\ \A q \in 0..1 : Count(queue[q], m) \in Nat
         /\ InPool(m) \in {0, 1} /\ InRefused(m) \in {0, 1}
         /\ IsFiniteSet(AtLcores(m)) /\ Cardinality(AtLcores(m)) \in Nat
         /\ Lcores \subseteq Actors
<1>1. \A q \in 0..1 : queue[q] \in Seq(AnyEvent) /\ cq[q] \in Seq(AnyEvent)
  <2> SUFFICES ASSUME NEW q \in 0..1
               PROVE  queue[q] \in Seq(AnyEvent) /\ cq[q] \in Seq(AnyEvent)
    OBVIOUS
  <2>1. queue[q] \in Seq(Carriable) /\ cq[q] \in Seq(Carriable)
    BY DEF MTypes, Rings
  <2>2. Carriable \subseteq AnyEvent
    BY CarriesEvents
  <2> QED
    BY <2>1, <2>2, SeqMonotonic
<1>2. ASSUME NEW p \in 0..1 PROVE Undelivered(p) \in Seq(AnyEvent)
  <2> DEFINE n == IF p = SharedPort THEN head ELSE 0
  <2>1. n \in 0..Len(cq[p]) /\ cq[p] \in Seq(AnyEvent)
    <3>1. cq[p] \in Seq(AnyEvent)
      BY <1>1
    <3>2. Len(cq[p]) \in Nat
      BY <3>1, LenProperties
    <3> QED
      BY <3>1, <3>2 DEF MTypes, TypeOK
  <2> HIDE DEF n
  <2>2. Rest(cq[p], n) \in Seq(AnyEvent)
    BY <2>1, RestSteps
  <2> QED
    BY <2>2 DEF Undelivered, Rest, n
<1>3. IsFiniteSet(AtLcores(m))
  <2>1. IsFiniteSet({"receive", "transmit", "drop"})
    <3>1. IsFiniteSet({"receive"})
      BY FS_Singleton
    <3>2. IsFiniteSet({"receive"} \cup {"transmit"})
      BY <3>1, FS_AddElement
    <3>3. IsFiniteSet(({"receive"} \cup {"transmit"}) \cup {"drop"})
      BY <3>2, FS_AddElement
    <3>4. ({"receive"} \cup {"transmit"}) \cup {"drop"} = {"receive", "transmit", "drop"}
      OBVIOUS
    <3> QED
      BY <3>3, <3>4
  <2>2. AtLcores(m) \in SUBSET {"receive", "transmit", "drop"}
    BY DEF AtLcores, Lcores
  <2> QED
    BY <2>1, <2>2, FS_Subset
<1>4. Cardinality(AtLcores(m)) \in Nat
  BY <1>3, FS_CardinalityType
<1> QED
  BY <1>1, <1>2, <1>3, <1>4, CountFacts DEF InPool, InRefused, Actors

(* The same after a step. *)
LEMMA PlacesTypesNext ==
  MTypes' =>
    \A m : /\ \A p \in 0..1 : Count(Undelivered(p), m)' \in Nat
          /\ \A q \in 0..1 : Count(queue'[q], m) \in Nat
          /\ InPool(m)' \in {0, 1} /\ InRefused(m)' \in {0, 1}
          /\ Cardinality(AtLcores(m))' \in Nat
<1>1. MTypes =>
        \A m : /\ \A p \in 0..1 : Count(Undelivered(p), m) \in Nat
              /\ \A q \in 0..1 : Count(queue[q], m) \in Nat
              /\ InPool(m) \in {0, 1} /\ InRefused(m) \in {0, 1}
              /\ Cardinality(AtLcores(m)) \in Nat
  BY PlacesTypes
<1>2. MTypes' =>
        (\A m : /\ \A p \in 0..1 : Count(Undelivered(p), m) \in Nat
               /\ \A q \in 0..1 : Count(queue[q], m) \in Nat
               /\ InPool(m) \in {0, 1} /\ InRefused(m) \in {0, 1}
               /\ Cardinality(AtLcores(m)) \in Nat)'
  BY <1>1, PTL
<1> QED
  BY <1>2 DEF Count

(* A free mbuf is taken from the pool; one that is not free is put back. *)
LEMMA PoolSteps ==
  ASSUME NEW m0, NEW m
  PROVE  /\ m0 \in free /\ free' = free \ {m0} => InPool(m)' = InPool(m) - One(m0, m)
         /\ m0 \notin free /\ Free(m0) => /\ InPool(m)' = InPool(m) + One(m0, m)
                                         /\ twice' = twice
         /\ free' = free => InPool(m)' = InPool(m)
  BY DEF InPool, One, Free

(* An mbuf is enqueued or refused: in both cases it has one more place. *)
LEMMA EnqueueCounts ==
  ASSUME MTypes, NEW m0 \in Whats, m0 \notin refused, NEW q \in 0..1, NEW n,
         EnqueueNew(m0, q, n), NEW m
  PROVE  InRefused(m)' + Count(queue'[0], m) + Count(queue'[1], m) =
           InRefused(m) + Count(queue[0], m) + Count(queue[1], m) + One(m0, m)
<1>1. /\ queue \in [0..1 -> Seq(Carriable)]
      /\ queue[0] \in Seq(AnyEvent) /\ queue[1] \in Seq(AnyEvent)
      /\ InRefused(m) \in {0, 1} /\ Count(queue[0], m) \in Nat /\ Count(queue[1], m) \in Nat
  BY PlacesTypes DEF MTypes, Rings
<1>2. CASE n < LIMIT
  <2>1. Event(m0, q) \in AnyEvent /\ Event(m0, q).what = m0
    BY CarriesEvents DEF Event, Tags
  <2>2. /\ queue'[q] = Append(queue[q], Event(m0, q))
        /\ \A r \in 0..1 : r # q => queue'[r] = queue[r]
        /\ refused' = refused
    BY <1>1, <1>2 DEF EnqueueNew
  <2>3. Count(Append(queue[q], Event(m0, q)), m) = Count(queue[q], m) + One(m0, m)
    BY <1>1, <2>1, CountFacts
  <2>4. Count(queue'[q], m) = Count(queue[q], m) + One(m0, m)
    BY <2>2, <2>3, Zenon
  <2>5. InRefused(m)' = InRefused(m) /\ One(m0, m) \in {0, 1}
    BY <2>2 DEF InRefused, One
  <2>6. CASE q = 0
    <3>1. Count(queue'[1], m) = Count(queue[1], m)
      BY <2>2, <2>6
    <3> QED
      BY <1>1, <2>4, <2>5, <2>6, <3>1
  <2>7. CASE q = 1
    <3>1. Count(queue'[0], m) = Count(queue[0], m)
      BY <2>2, <2>7
    <3>2. Count(queue'[1], m) = Count(queue[1], m) + One(m0, m)
      BY <2>4, <2>7
    <3>3. /\ Count(queue[0], m) \in Nat /\ Count(queue[1], m) \in Nat
          /\ InRefused(m) \in Nat /\ One(m0, m) \in Nat
      BY <1>1, <2>5
    <3> HIDE DEF Count
    <3> QED
      BY <2>5, <3>1, <3>2, <3>3
  <2> QED
    BY <2>6, <2>7
<1>3. CASE ~(n < LIMIT)
  <2>1. queue' = queue /\ refused' = refused \cup {m0}
    BY <1>3 DEF EnqueueNew
  <2>2. InRefused(m)' = InRefused(m) + One(m0, m)
    BY <2>1 DEF InRefused, One
  <2>3. One(m0, m) \in {0, 1}
    BY DEF One
  <2> QED
    BY <1>1, <2>1, <2>2, <2>3
<1> QED
  BY <1>2, <1>3

(* What the ports have still to deliver changes only with their rings and the head. *)
LEMMA SameUndelivered ==
  ASSUME program' = program, NEW p \in 0..1, cq'[p] = cq[p], head' = head
  PROVE  Undelivered(p)' = Undelivered(p)
  BY DEF Undelivered, SharedPort

(* Nobody but the lcores of eventdev_packet_parsing is counted as a holder. *)
LEMMA SameHolders ==
  ASSUME \A c \in Lcores : held'[c] = held[c], NEW m
  PROVE  AtLcores(m)' = AtLcores(m)
  BY DEF AtLcores, Holders, Actors

\* The premise of OneOwner, for this state and the one before.
Counting == program # "ipc_eventdev2" /\ ~overlapped

(* With one place in all, an mbuf that is in one place is not free, nor refused. *)
LEMMA OnlyPlace ==
  ASSUME MTypes, NEW m \in Mbufs, Places(m) = 1
  PROVE  /\ m \in free => m \notin refused
         /\ \/ \E q \in 0..1 : Count(queue[q], m) >= 1
            \/ \E p \in 0..1 : Count(Undelivered(p), m) >= 1
            \/ Cardinality(AtLcores(m)) >= 1
            => m \notin free /\ m \notin refused
<1> DEFINE a == InPool(m)  b == InRefused(m)
           c0 == Count(queue[0], m)  c1 == Count(queue[1], m)
           u0 == Count(Undelivered(0), m)  u1 == Count(Undelivered(1), m)
           l == Cardinality(AtLcores(m))
<1>1. /\ a \in {0, 1} /\ b \in {0, 1} /\ c0 \in Nat /\ c1 \in Nat /\ u0 \in Nat
      /\ u1 \in Nat /\ l \in Nat
  BY PlacesTypes
<1>2. a + b + c0 + c1 + u0 + u1 + l = 1
  BY DEF Places
<1>3. (m \in free => a = 1) /\ (m \in refused => b = 1)
  BY DEF InPool, InRefused
<1>4. \/ \E q \in 0..1 : Count(queue[q], m) >= 1
      \/ \E p \in 0..1 : Count(Undelivered(p), m) >= 1
      => c0 >= 1 \/ c1 >= 1 \/ u0 >= 1 \/ u1 >= 1
  OBVIOUS
<1> HIDE DEF a, b, c0, c1, u0, u1, l
<1>5. (a = 1 => b = 0) /\ (c0 >= 1 \/ c1 >= 1 \/ u0 >= 1 \/ u1 >= 1 \/ l >= 1 => a = 0 /\ b = 0)
  BY <1>1, <1>2
<1> QED
  BY <1>3, <1>4, <1>5 DEF l

(* A step that takes from some places of m what it adds to others. *)
LEMMA Balance ==
  ASSUME MTypes, MTypes', NEW m, Places(m) = 1,
         NEW dp \in Int, NEW dr \in Int, NEW du \in Int, NEW dl \in Int,
         InPool(m)' = InPool(m) + dp,
         InRefused(m)' + Count(queue'[0], m) + Count(queue'[1], m) =
           InRefused(m) + Count(queue[0], m) + Count(queue[1], m) + dr,
         Count(Undelivered(0), m)' + Count(Undelivered(1), m)' =
           Count(Undelivered(0), m) + Count(Undelivered(1), m) + du,
         Cardinality(AtLcores(m))' = Cardinality(AtLcores(m)) + dl,
         dp + dr + du + dl = 0
  PROVE  Places(m)' = 1
<1> DEFINE a == InPool(m)  b == InRefused(m)
           c0 == Count(queue[0], m)  c1 == Count(queue[1], m)
           u0 == Count(Undelivered(0), m)  u1 == Count(Undelivered(1), m)
           l == Cardinality(AtLcores(m))
           a2 == InPool(m)'  b2 == InRefused(m)'
           d0 == Count(queue'[0], m)  d1 == Count(queue'[1], m)
           v0 == Count(Undelivered(0), m)'  v1 == Count(Undelivered(1), m)'
           l2 == Cardinality(AtLcores(m))'
<1>1. /\ a \in {0, 1} /\ b \in {0, 1} /\ c0 \in Nat /\ c1 \in Nat /\ u0 \in Nat
      /\ u1 \in Nat /\ l \in Nat
  BY PlacesTypes
<1>2. /\ a2 \in {0, 1} /\ b2 \in {0, 1} /\ d0 \in Nat /\ d1 \in Nat /\ v0 \in Nat
      /\ v1 \in Nat /\ l2 \in Nat
  BY PlacesTypesNext
<1>3. a + b + c0 + c1 + u0 + u1 + l = 1
  BY DEF Places
<1>4. Places(m)' = a2 + b2 + d0 + d1 + v0 + v1 + l2
  BY DEF Places, Count
<1>5. /\ a2 = a + dp /\ b2 + d0 + d1 = b + c0 + c1 + dr
      /\ v0 + v1 = u0 + u1 + du /\ l2 = l + dl
  OBVIOUS
<1> HIDE DEF a, b, c0, c1, u0, u1, l, a2, b2, d0, d1, v0, v1, l2
<1> QED
  BY <1>1, <1>2, <1>3, <1>4, <1>5

(* The groups of places that a step leaves alone. *)
LEMMA Untouched ==
  ASSUME MTypes, NEW m
  PROVE  /\ free' = free => InPool(m)' = InPool(m) + 0
         /\ UNCHANGED <<queue, refused>> =>
              InRefused(m)' + Count(queue'[0], m) + Count(queue'[1], m) =
                InRefused(m) + Count(queue[0], m) + Count(queue[1], m) + 0
         /\ UNCHANGED <<program, cq, head>> =>
              Count(Undelivered(0), m)' + Count(Undelivered(1), m)' =
                Count(Undelivered(0), m) + Count(Undelivered(1), m) + 0
         /\ (\A c \in Lcores : held'[c] = held[c]) =>
              Cardinality(AtLcores(m))' = Cardinality(AtLcores(m)) + 0
<1>1. /\ InPool(m) \in Int /\ InRefused(m) \in Int
      /\ Count(queue[0], m) \in Int /\ Count(queue[1], m) \in Int
      /\ Count(Undelivered(0), m) \in Int /\ Count(Undelivered(1), m) \in Int
      /\ Cardinality(AtLcores(m)) \in Int
  BY PlacesTypes
<1>2. free' = free => InPool(m)' = InPool(m)
  BY DEF InPool
<1>3. UNCHANGED <<queue, refused>> =>
        /\ InRefused(m)' = InRefused(m)
        /\ Count(queue'[0], m) = Count(queue[0], m) /\ Count(queue'[1], m) = Count(queue[1], m)
  BY DEF InRefused
<1>4. UNCHANGED <<program, cq, head>> =>
        /\ Count(Undelivered(0), m)' = Count(Undelivered(0), m)
        /\ Count(Undelivered(1), m)' = Count(Undelivered(1), m)
  BY SameUndelivered DEF Count
<1>5. (\A c \in Lcores : held'[c] = held[c]) =>
        Cardinality(AtLcores(m))' = Cardinality(AtLcores(m))
  BY SameHolders
<1> HIDE DEF Count
<1> QED
  BY <1>1, <1>2, <1>3, <1>4, <1>5

(* A step that touches no place at all. *)
LEMMA NothingMoves ==
  ASSUME MTypes, MTypes', Owned, Counting,
         UNCHANGED <<program, free, queue, refused, cq, head, twice>>,
         \A c \in Lcores : held'[c] = held[c]
  PROVE  twice' = {} /\ \A m \in Mbufs : Places(m)' = 1
<1>1. twice = {} /\ \A m \in Mbufs : Places(m) = 1
  BY DEF Counting, Owned
<1>2. ASSUME NEW m \in Mbufs PROVE Places(m)' = 1
  <2>1. Places(m) = 1
    BY <1>1
  <2>2. /\ InPool(m)' = InPool(m) + 0
        /\ InRefused(m)' + Count(queue'[0], m) + Count(queue'[1], m) =
             InRefused(m) + Count(queue[0], m) + Count(queue[1], m) + 0
        /\ Count(Undelivered(0), m)' + Count(Undelivered(1), m)' =
             Count(Undelivered(0), m) + Count(Undelivered(1), m) + 0
        /\ Cardinality(AtLcores(m))' = Cardinality(AtLcores(m)) + 0
    BY Untouched
  <2>3. 0 \in Int /\ 0 + 0 + 0 + 0 = 0
    OBVIOUS
  <2> HIDE DEF Count
  <2> QED
    BY <2>1, <2>2, <2>3, Balance
<1> QED
  BY <1>1, <1>2

(* The mbuf of a free buffer is sent or refused: prim_send and receive_handler. *)
LEMMA SendsNew ==
  ASSUME MTypes, MTypes', Owned, Counting, program' = program,
         NEW m0 \in free, free' = free \ {m0}, NEW n, EnqueueNew(m0, 0, n),
         UNCHANGED <<cq, head, held, twice>>
  PROVE  twice' = {} /\ \A m \in Mbufs : Places(m)' = 1
<1>1. m0 \in Mbufs /\ Whats = Mbufs /\ twice = {} /\ \A m \in Mbufs : Places(m) = 1
  BY DEF MTypes, TypeOK, Whats, Counting, Owned
<1>2. m0 \notin refused
  BY <1>1, OnlyPlace
<1>3. ASSUME NEW m \in Mbufs PROVE Places(m)' = 1
  <2> DEFINE x == One(m0, m)
  <2>1. x \in Int /\ 0 - x \in Int /\ (0 - x) + x + 0 + 0 = 0
    BY DEF One
  <2>2. InPool(m)' = InPool(m) + (0 - x)
    <3>1. InPool(m)' = InPool(m) - x
      BY PoolSteps
    <3>2. InPool(m) \in {0, 1}
      BY PlacesTypes
    <3> QED
      BY <2>1, <3>1, <3>2
  <2>3. InRefused(m)' + Count(queue'[0], m) + Count(queue'[1], m) =
          InRefused(m) + Count(queue[0], m) + Count(queue[1], m) + x
    BY <1>1, <1>2, EnqueueCounts
  <2>4. /\ Count(Undelivered(0), m)' + Count(Undelivered(1), m)' =
             Count(Undelivered(0), m) + Count(Undelivered(1), m) + 0
        /\ Cardinality(AtLcores(m))' = Cardinality(AtLcores(m)) + 0
    BY Untouched
  <2>5. Places(m) = 1
    BY <1>1
  <2> HIDE DEF x, Count
  <2> QED
    BY <2>1, <2>2, <2>3, <2>4, <2>5, Balance
<1> QED
  BY <1>1, <1>3

(* What a port delivers is the first of what it has still to deliver. *)
LEMMA DeliveredCounts ==
  ASSUME MTypes, program' = program, NEW p \in 0..1, NEW e,
         \A r \in 0..1 : r # p => cq'[r] = cq[r],
         \/ /\ head = 0 /\ head' = 0 /\ cq[p] # <<>> /\ e = Head(cq[p])
            /\ cq'[p] = Tail(cq[p])
         \/ /\ p = SharedPort /\ head' = head + 1 /\ head < Len(cq[p])
            /\ e = cq[p][head + 1] /\ cq'[p] = cq[p],
         NEW m
  PROVE  /\ e \in AnyEvent /\ Count(Undelivered(p), e.what) >= 1
         /\ Count(Undelivered(0), m)' + Count(Undelivered(1), m)' =
              Count(Undelivered(0), m) + Count(Undelivered(1), m) + (0 - One(e.what, m))
<1>1. /\ cq[p] \in Seq(AnyEvent) /\ Len(cq[p]) \in Nat /\ head \in Nat
      /\ SharedPort' = SharedPort
      /\ p = SharedPort => head \in 0..Len(cq[p])
  <2>1. cq[p] \in Seq(AnyEvent)
    BY PlacesTypes
  <2>2. Len(cq[p]) \in Nat
    BY <2>1, LenProperties
  <2>3. Len(cq[SharedPort]) \in Nat
    BY PlacesTypes, LenProperties DEF SharedPort
  <2> QED
    BY <2>1, <2>2, <2>3 DEF MTypes, TypeOK, SharedPort
<1>2. /\ Undelivered(p) # <<>> /\ e = Head(Undelivered(p))
      /\ Undelivered(p)' = Tail(Undelivered(p))
  <2>1. CASE /\ head = 0 /\ head' = 0 /\ cq[p] # <<>> /\ e = Head(cq[p])
             /\ cq'[p] = Tail(cq[p])
    <3>1. 0 \in 0..Len(cq[p]) /\ Tail(cq[p]) \in Seq(AnyEvent)
      BY <1>1, <2>1, HeadTailProperties
    <3>2. Rest(cq[p], 0) = cq[p]
      BY <1>1, <3>1, RestSteps
    <3>3. Rest(Tail(cq[p]), 0) = Tail(cq[p])
      BY <3>1, SubSeqFull DEF Rest
    <3>4. Undelivered(p) = Rest(cq[p], 0) /\ Undelivered(p)' = Rest(cq'[p], 0)
      BY <2>1 DEF Undelivered, Rest
    <3> QED
      BY <2>1, <3>2, <3>3, <3>4
  <2>2. CASE /\ p = SharedPort /\ head' = head + 1 /\ head < Len(cq[p])
             /\ e = cq[p][head + 1] /\ cq'[p] = cq[p]
    <3>1. head \in 0..Len(cq[p])
      BY <1>1, <2>2
    <3>2. /\ Rest(cq[p], head) # <<>> /\ Head(Rest(cq[p], head)) = cq[p][head + 1]
          /\ Tail(Rest(cq[p], head)) = Rest(cq[p], head + 1)
      <4>1. head < Len(cq[p])
        BY <2>2
      <4> QED
        BY <1>1, <3>1, <4>1, RestSteps, Zenon
    <3>3. Undelivered(p) = Rest(cq[p], head) /\ Undelivered(p)' = Rest(cq[p], head + 1)
      BY <1>1, <2>2 DEF Undelivered, Rest
    <3> QED
      BY <2>2, <3>2, <3>3
  <2> QED
    BY <2>1, <2>2
<1>3. Undelivered(p) \in Seq(AnyEvent) /\ Tail(Undelivered(p)) \in Seq(AnyEvent)
  BY <1>2, PlacesTypes, HeadTailProperties
<1>4. e \in AnyEvent
  BY <1>2, <1>3, HeadTailProperties
<1>5. \A k : /\ Count(Undelivered(p), k) = Count(Tail(Undelivered(p)), k) + One(e.what, k)
             /\ Count(Tail(Undelivered(p)), k) \in Nat
  BY <1>2, <1>3, CountFacts
<1>6. Count(Undelivered(p), m)' = Count(Tail(Undelivered(p)), m)
  BY <1>2 DEF Count
<1>7. ASSUME NEW r \in 0..1, r # p
      PROVE  Count(Undelivered(r), m)' = Count(Undelivered(r), m) /\ Count(Undelivered(r), m) \in Nat
  <2>1. cq'[r] = cq[r] /\ (r = SharedPort => head' = head)
    BY <1>7
  <2>2. Undelivered(r)' = Undelivered(r)
    BY <1>1, <2>1 DEF Undelivered
  <2> QED
    BY <2>2, PlacesTypes DEF Count
<1>8. One(e.what, m) \in Int /\ One(e.what, e.what) = 1
  BY DEF One
<1> HIDE DEF Count, One
<1>9. Count(Undelivered(p), e.what) >= 1
  BY <1>5, <1>8
<1>10. Count(Undelivered(p), m)' = Count(Undelivered(p), m) + (0 - One(e.what, m))
  <2>1. Count(Undelivered(p), m) = Count(Tail(Undelivered(p)), m) + One(e.what, m)
        /\ Count(Tail(Undelivered(p)), m) \in Nat
    BY <1>5
  <2> QED
    BY <1>6, <1>8, <2>1
<1>11. Count(Undelivered(p), m) \in Nat
  BY PlacesTypes
<1>12. CASE p = 0
  BY <1>4, <1>7, <1>8, <1>9, <1>10, <1>11, <1>12
<1>13. CASE p = 1
  BY <1>4, <1>7, <1>8, <1>9, <1>10, <1>11, <1>13
<1> QED
  BY <1>12, <1>13

(* One event fewer in a queue. *)
LEMMA TakenCounts ==
  ASSUME MTypes, NEW q \in 0..1, queue[q] # <<>>, queue' = [queue EXCEPT ![q] = Tail(@)],
         refused' = refused, NEW m
  PROVE  /\ Head(queue[q]) \in AnyEvent /\ Count(queue[q], Head(queue[q]).what) >= 1
         /\ InRefused(m)' + Count(queue'[0], m) + Count(queue'[1], m) =
              InRefused(m) + Count(queue[0], m) + Count(queue[1], m)
                + (0 - One(Head(queue[q]).what, m))
<1> DEFINE e == Head(queue[q])
<1>1. queue[q] \in Seq(AnyEvent) /\ queue \in [0..1 -> Seq(Carriable)]
  BY PlacesTypes DEF MTypes, Rings
<1>2. e \in AnyEvent /\ Tail(queue[q]) \in Seq(AnyEvent)
  BY <1>1, HeadTailProperties
<1>3. \A k : /\ Count(queue[q], k) = Count(Tail(queue[q]), k) + One(e.what, k)
             /\ Count(Tail(queue[q]), k) \in Nat
  BY <1>1, <1>2, CountFacts
<1>4. One(e.what, m) \in Int /\ One(e.what, e.what) = 1
  BY DEF One
<1>5. InRefused(m)' = InRefused(m) /\ InRefused(m) \in {0, 1}
  BY PlacesTypes DEF InRefused
<1>6. queue'[q] = Tail(queue[q]) /\ \A r \in 0..1 : r # q => queue'[r] = queue[r]
  BY <1>1
<1>7. ASSUME NEW r \in 0..1, r # q
      PROVE  Count(queue'[r], m) = Count(queue[r], m) /\ Count(queue[r], m) \in Nat
  BY <1>6, <1>7, PlacesTypes
<1> HIDE DEF Count, One, e
<1>8. /\ Count(queue[q], m) = Count(queue'[q], m) + One(e.what, m)
      /\ Count(queue'[q], m) \in Nat
  BY <1>3, <1>6
<1>9. Count(queue[q], e.what) >= 1
  BY <1>3, <1>4
<1>10. CASE q = 0
  <2>1. /\ Count(queue[0], m) = Count(queue'[0], m) + One(e.what, m)
        /\ Count(queue'[0], m) \in Nat
    BY <1>8, <1>10
  <2>2. Count(queue'[1], m) = Count(queue[1], m) /\ Count(queue[1], m) \in Nat
    BY <1>7, <1>10
  <2>3. InRefused(m)' + Count(queue'[0], m) + Count(queue'[1], m) =
          InRefused(m) + Count(queue[0], m) + Count(queue[1], m) + (0 - One(e.what, m))
    BY <1>4, <1>5, <2>1, <2>2
  <2> QED
    BY <1>2, <1>9, <2>3 DEF e
<1>11. CASE q = 1
  <2>1. /\ Count(queue[1], m) = Count(queue'[1], m) + One(e.what, m)
        /\ Count(queue'[1], m) \in Nat
    BY <1>8, <1>11
  <2>2. Count(queue'[0], m) = Count(queue[0], m) /\ Count(queue[0], m) \in Nat
    BY <1>7, <1>11
  <2>3. InRefused(m)' + Count(queue'[0], m) + Count(queue'[1], m) =
          InRefused(m) + Count(queue[0], m) + Count(queue[1], m) + (0 - One(e.what, m))
    BY <1>4, <1>5, <2>1, <2>2
  <2> QED
    BY <1>2, <1>9, <2>3 DEF e
<1> QED
  BY <1>10, <1>11

(* The primary of ipc_eventdev frees what it gets. *)
LEMMA ReceiveOwned ==
  ASSUME MTypes, MTypes', Owned, Counting, prim_receive
  PROVE  twice' = {} /\ \A m \in Mbufs : Places(m)' = 1
<1>1. twice = {} /\ \A m \in Mbufs : Places(m) = 1
  BY DEF Counting, Owned
<1>2. /\ program = "ipc_eventdev" /\ program' = program /\ head = 0 /\ head' = head
      /\ UNCHANGED <<queue, refused>> /\ Dequeue("primary", 0)
      /\ Whats = Mbufs /\ cq \in [0..1 -> Seq(Carriable)]
      /\ IF cq[0] = <<>> THEN UNCHANGED <<free, twice>> ELSE Free(Head(cq[0]).what)
  BY DEF prim_receive, Runs, MTypes, Unshared, Rings, Whats
<1>3. \A c \in Lcores : held'[c] = held[c]
  BY <1>2 DEF Dequeue, Lcores, MTypes, TypeOK, Actors, Processes
<1>4. CASE cq[0] = <<>>
  <2>1. cq' = cq
    BY <1>2, <1>4 DEF Dequeue
  <2> QED
    BY <1>2, <1>3, <1>4, <2>1, NothingMoves
<1>5. CASE cq[0] # <<>>
  <2> DEFINE e == Head(cq[0])
  <2>1. e.what \in Mbufs
    <3>1. e \in Carriable
      BY <1>2, <1>5, RingSteps
    <3> QED
      BY <1>2, <3>1 DEF Carriable
  <2>2. cq'[0] = Tail(cq[0]) /\ \A r \in 0..1 : r # 0 => cq'[r] = cq[r]
    BY <1>2, <1>5 DEF Dequeue
  <2> HIDE DEF e
  <2>3. ASSUME NEW m
        PROVE  /\ Count(Undelivered(0), e.what) >= 1
               /\ Count(Undelivered(0), m)' + Count(Undelivered(1), m)' =
                    Count(Undelivered(0), m) + Count(Undelivered(1), m) + (0 - One(e.what, m))
    <3>1. /\ head = 0 /\ head' = 0 /\ cq[0] # <<>> /\ e = Head(cq[0])
          /\ cq'[0] = Tail(cq[0])
      BY <1>2, <1>5, <2>2 DEF e
    <3>2. program' = program /\ \A r \in 0..1 : r # 0 => cq'[r] = cq[r]
      BY <1>2, <2>2
    <3> HIDE DEF Count
    <3> QED
      BY <3>1, <3>2, DeliveredCounts
  <2>4. e.what \notin free
    BY <1>1, <2>1, <2>3, OnlyPlace
  <2>5. Free(e.what)
    BY <1>2, <1>5 DEF e
  <2>6. ASSUME NEW m \in Mbufs PROVE Places(m)' = 1
    <3> DEFINE x == One(e.what, m)
    <3>1. Places(m) = 1
      BY <1>1
    <3>2. x \in Int /\ 0 - x \in Int /\ x + 0 + (0 - x) + 0 = 0
      BY DEF One
    <3>3. InPool(m)' = InPool(m) + x
      BY <2>4, <2>5, PoolSteps
    <3>4. /\ InRefused(m)' + Count(queue'[0], m) + Count(queue'[1], m) =
               InRefused(m) + Count(queue[0], m) + Count(queue[1], m) + 0
          /\ Cardinality(AtLcores(m))' = Cardinality(AtLcores(m)) + 0
      BY <1>2, <1>3, Untouched
    <3>5. Count(Undelivered(0), m)' + Count(Undelivered(1), m)' =
            Count(Undelivered(0), m) + Count(Undelivered(1), m) + (0 - x)
      BY <2>3
    <3> HIDE DEF x, Count
    <3> QED
      BY <3>1, <3>2, <3>3, <3>4, <3>5, Balance
  <2> QED
    BY <1>1, <2>4, <2>5, <2>6 DEF Free
<1> QED
  BY <1>4, <1>5

(* Its secondary sends what it gets back as a new event, or the device refuses it. *)
LEMMA AnswerOwned ==
  ASSUME MTypes, MTypes', Owned, Counting, sec_answer
  PROVE  twice' = {} /\ \A m \in Mbufs : Places(m)' = 1
<1>1. twice = {} /\ \A m \in Mbufs : Places(m) = 1
  BY DEF Counting, Owned
<1>2. /\ program = "ipc_eventdev" /\ program' = program /\ head = 0 /\ head' = head
      /\ UNCHANGED <<free, twice>> /\ Dequeue("secondary", 1)
      /\ Whats = Mbufs /\ cq \in [0..1 -> Seq(Carriable)]
      /\ IF cq[1] = <<>> THEN UNCHANGED <<queue, refused>>
         ELSE \E n : EnqueueNew(Head(cq[1]).what, 1, n)
  BY DEF sec_answer, Runs, MTypes, Unshared, Rings, Whats
<1>3. \A c \in Lcores : held'[c] = held[c]
  BY <1>2 DEF Dequeue, Lcores, MTypes, TypeOK, Actors, Processes
<1>4. CASE cq[1] = <<>>
  <2>1. cq' = cq
    BY <1>2, <1>4 DEF Dequeue
  <2> QED
    BY <1>2, <1>3, <1>4, <2>1, NothingMoves
<1>5. CASE cq[1] # <<>>
  <2> DEFINE e == Head(cq[1])
  <2>1. e.what \in Mbufs
    <3>1. e \in Carriable
      BY <1>2, <1>5, RingSteps
    <3> QED
      BY <1>2, <3>1 DEF Carriable
  <2>2. cq'[1] = Tail(cq[1]) /\ \A r \in 0..1 : r # 1 => cq'[r] = cq[r]
    BY <1>2, <1>5 DEF Dequeue
  <2>3. PICK n : EnqueueNew(e.what, 1, n)
    BY <1>2, <1>5
  <2> HIDE DEF e
  <2>4. \A m : /\ Count(Undelivered(1), e.what) >= 1
               /\ Count(Undelivered(0), m)' + Count(Undelivered(1), m)' =
                    Count(Undelivered(0), m) + Count(Undelivered(1), m) + (0 - One(e.what, m))
    BY <1>2, <1>5, <2>2, DeliveredCounts DEF e
  <2>5. e.what \notin refused
    BY <1>1, <2>1, <2>4, OnlyPlace
  <2>6. ASSUME NEW m \in Mbufs PROVE Places(m)' = 1
    <3> DEFINE x == One(e.what, m)
    <3>1. Places(m) = 1
      BY <1>1
    <3>2. x \in Int /\ 0 - x \in Int /\ 0 + x + (0 - x) + 0 = 0
      BY DEF One
    <3>3. InRefused(m)' + Count(queue'[0], m) + Count(queue'[1], m) =
            InRefused(m) + Count(queue[0], m) + Count(queue[1], m) + x
      BY <1>2, <2>1, <2>3, <2>5, EnqueueCounts
    <3>4. /\ InPool(m)' = InPool(m) + 0
          /\ Cardinality(AtLcores(m))' = Cardinality(AtLcores(m)) + 0
      BY <1>2, <1>3, Untouched
    <3>5. Count(Undelivered(0), m)' + Count(Undelivered(1), m)' =
            Count(Undelivered(0), m) + Count(Undelivered(1), m) + (0 - x)
      BY <2>4
    <3> HIDE DEF x, Count
    <3> QED
      BY <3>1, <3>2, <3>3, <3>4, <3>5, Balance
  <2> QED
    BY <1>1, <1>2, <2>6
<1> QED
  BY <1>4, <1>5

(* A lcore of eventdev_packet_parsing takes the event behind the head, which is its own *)
(* as long as no two dequeues overlapped.                                               *)
LEMMA TakeOwned ==
  ASSUME MTypes, MTypes', Owned, Alone, Counting, NEW c \in Lcores, TakesEvent(c)
  PROVE  twice' = {} /\ \A m \in Mbufs : Places(m)' = 1
<1> DEFINE e == cq[1][head + 1]
<1>1. twice = {} /\ \A m \in Mbufs : Places(m) = 1
  BY DEF Counting, Owned
<1>2. /\ program = "eventdev_packet_parsing" /\ SharedPort = 1 /\ Whats = Mbufs
      /\ c \in Actors /\ EndDequeue(c)
      /\ held' = [held EXCEPT ![c] = cq[1][reading[c]]]
      /\ UNCHANGED <<program, free, queue, refused, twice, cq>>
  BY DEF TakesEvent, SharedPort, Whats, Actors, history
<1>3. /\ reading[c] = head + 1 /\ held[c] = NoEvent /\ reading[c] # 0
  BY <1>2 DEF Alone, Counting, EndDequeue
<1>4. head' = head + 1 /\ head < Len(cq[1]) /\ e \in Carriable
  <2>1. head' = head + 1
    BY <1>2, <1>3 DEF EndDequeue
  <2>2. head \in Nat /\ Len(cq[1]) \in Nat /\ reading[c] \in 0..Len(cq[1])
    <3>1. cq[1] \in Seq(AnyEvent)
      BY PlacesTypes
    <3>2. Len(cq[1]) \in Nat
      BY <3>1, LenProperties
    <3> QED
      BY <1>2, <3>2 DEF MTypes, TypeOK
  <2>3. head < Len(cq[1])
    BY <1>3, <2>2
  <2>4. e \in Carriable
    BY <1>2, <1>3, DequeueTypes
  <2> QED
    BY <2>1, <2>3, <2>4
<1>5. e.what \in Mbufs /\ e # NoEvent
  BY <1>2, <1>4, CarriesEvents, Sizes DEF Carriable
<1>6. held' = [held EXCEPT ![c] = e]
  BY <1>2, <1>3
<1> HIDE DEF e
<1>7. \A m : Count(Undelivered(0), m)' + Count(Undelivered(1), m)' =
              Count(Undelivered(0), m) + Count(Undelivered(1), m) + (0 - One(e.what, m))
  BY <1>2, <1>4, DeliveredCounts DEF e
<1>8. ASSUME NEW m \in Mbufs PROVE Places(m)' = 1
  <2> DEFINE x == One(e.what, m)
  <2>1. Places(m) = 1
    BY <1>1
  <2>2. x \in Int /\ 0 - x \in Int /\ 0 + 0 + (0 - x) + x = 0
    BY DEF One
  <2>3. Cardinality(AtLcores(m))' = Cardinality(AtLcores(m)) + x
    <3>1. c \notin AtLcores(m) /\ IsFiniteSet(AtLcores(m)) /\ Cardinality(AtLcores(m)) \in Nat
      BY <1>3, PlacesTypes DEF AtLcores, Holders
    <3>2. AtLcores(m)' = IF e.what = m THEN AtLcores(m) \cup {c} ELSE AtLcores(m)
      <4>1. held'[c] = e /\ \A d \in Actors : d # c => held'[d] = held[d]
        BY <1>2, <1>6 DEF MTypes, TypeOK
      <4>2. \A d : d \in AtLcores(m)' <=>
                  d \in AtLcores(m) \/ (d = c /\ e.what = m)
        BY <1>2, <1>3, <1>5, <4>1, PlacesTypes DEF AtLcores, Holders
      <4> QED
        BY <4>2
    <3>3. Cardinality(AtLcores(m) \cup {c}) = Cardinality(AtLcores(m)) + 1
      BY <3>1, FS_AddElement
    <3> QED
      BY <3>1, <3>2, <3>3 DEF One
  <2>4. /\ InPool(m)' = InPool(m) + 0
        /\ InRefused(m)' + Count(queue'[0], m) + Count(queue'[1], m) =
             InRefused(m) + Count(queue[0], m) + Count(queue[1], m) + 0
    BY <1>2, Untouched
  <2>5. Count(Undelivered(0), m)' + Count(Undelivered(1), m)' =
          Count(Undelivered(0), m) + Count(Undelivered(1), m) + (0 - x)
    BY <1>7
  <2> HIDE DEF x, Count
  <2> QED
    BY <2>1, <2>2, <2>3, <2>4, <2>5, Balance
<1> QED
  BY <1>1, <1>2, <1>8

(* ... and frees the mbuf of the event it holds. *)
LEMMA ReleaseOwned ==
  ASSUME MTypes, MTypes', Owned, Counting, NEW c \in Lcores, ReleasesAndFrees(c)
  PROVE  twice' = {} /\ \A m \in Mbufs : Places(m)' = 1
<1> DEFINE w == held[c].what
<1>1. twice = {} /\ \A m \in Mbufs : Places(m) = 1
  BY DEF Counting, Owned
<1>2. /\ held[c] # NoEvent /\ held' = [held EXCEPT ![c] = NoEvent] /\ Free(w)
      /\ c \in Actors
      /\ UNCHANGED <<program, queue, refused, cq, head>>
  BY DEF ReleasesAndFrees, Actors
<1>3. w \in Mbufs
  BY <1>2 DEF MTypes, TypeOK
<1>4. \A m : c \in AtLcores(m) <=> w = m
  BY <1>2 DEF AtLcores, Holders
<1>5. w \notin free
  <2>1. IsFiniteSet(AtLcores(w)) /\ Cardinality(AtLcores(w)) \in Nat
    BY PlacesTypes
  <2>2. Cardinality(AtLcores(w)) # 0
    BY <1>4, <2>1, FS_EmptySet
  <2>3. Cardinality(AtLcores(w)) >= 1
    BY <2>1, <2>2
  <2> QED
    BY <1>1, <1>3, <2>3, OnlyPlace
<1>6. ASSUME NEW m \in Mbufs PROVE Places(m)' = 1
  <2> DEFINE x == One(w, m)
  <2>1. Places(m) = 1
    BY <1>1
  <2>2. x \in Int /\ 0 - x \in Int /\ x + 0 + 0 + (0 - x) = 0
    BY DEF One
  <2>3. Cardinality(AtLcores(m))' = Cardinality(AtLcores(m)) + (0 - x)
    <3>1. IsFiniteSet(AtLcores(m)) /\ Cardinality(AtLcores(m)) \in Nat
      BY PlacesTypes
    <3>2. AtLcores(m)' = AtLcores(m) \ {c}
      <4>1. held'[c] = NoEvent /\ \A d \in Actors : d # c => held'[d] = held[d]
        BY <1>2 DEF MTypes, TypeOK
      <4>2. \A d : d \in AtLcores(m)' <=> d \in AtLcores(m) /\ d # c
        BY <1>2, <4>1, PlacesTypes DEF AtLcores, Holders
      <4> QED
        BY <4>2
    <3>3. Cardinality(AtLcores(m) \ {c}) =
            IF c \in AtLcores(m) THEN Cardinality(AtLcores(m)) - 1 ELSE Cardinality(AtLcores(m))
      BY <3>1, FS_RemoveElement
    <3> QED
      BY <1>4, <3>1, <3>2, <3>3 DEF One
  <2>4. InPool(m)' = InPool(m) + x
    BY <1>2, <1>5, PoolSteps
  <2>5. /\ InRefused(m)' + Count(queue'[0], m) + Count(queue'[1], m) =
             InRefused(m) + Count(queue[0], m) + Count(queue[1], m) + 0
        /\ Count(Undelivered(0), m)' + Count(Undelivered(1), m)' =
             Count(Undelivered(0), m) + Count(Undelivered(1), m) + 0
    BY <1>2, Untouched
  <2> HIDE DEF x, Count
  <2> QED
    BY <2>1, <2>2, <2>3, <2>4, <2>5, Balance
<1> QED
  BY <1>1, <1>2, <1>5, <1>6 DEF Free

(* The primary of ipc_ring_pri_sec allocates a block and sends it. *)
LEMMA RingSendOwned ==
  ASSUME MTypes, MTypes', Owned, Counting, ring_send
  PROVE  twice' = {} /\ \A m \in Mbufs : Places(m)' = 1
<1>1. twice = {} /\ \A m \in Mbufs : Places(m) = 1
  BY DEF Counting, Owned
<1>2. /\ program = "ipc_ring_pri_sec" /\ program' = program /\ sent \in 0..MESSAGES
      /\ UNCHANGED <<refused, twice, cq, head, held>>
  BY DEF ring_send, Runs, history, MTypes, TypeOK
<1>3. \A c \in Lcores : held'[c] = held[c]
  BY <1>2
<1>4. CASE UNCHANGED <<free, queue>>
  BY <1>2, <1>3, <1>4, NothingMoves
<1>5. ASSUME NEW m0 \in free, free' = free \ {m0}, sent < MESSAGES,
             queue' = [queue EXCEPT ![0] = Append(@, Event(m0, sent))]
      PROVE  twice' = {} /\ \A m \in Mbufs : Places(m)' = 1
  <2>1. Event(m0, sent) \in AnyEvent /\ Event(m0, sent).what = m0
    BY <1>2 DEF MTypes, TypeOK, Event, AnyEvent
  <2>2. queue'[0] = Append(queue[0], Event(m0, sent)) /\ queue'[1] = queue[1]
    BY <1>5 DEF MTypes, Rings
  <2>3. ASSUME NEW m \in Mbufs PROVE Places(m)' = 1
    <3> DEFINE x == One(m0, m)
    <3>1. Places(m) = 1
      BY <1>1
    <3>2. x \in Int /\ 0 - x \in Int /\ (0 - x) + x + 0 + 0 = 0
      BY DEF One
    <3>3. InPool(m)' = InPool(m) + (0 - x)
      <4>1. InPool(m)' = InPool(m) - x
        BY <1>5, PoolSteps
      <4>2. InPool(m) \in {0, 1}
        BY PlacesTypes
      <4> QED
        BY <3>2, <4>1, <4>2
    <3>4. InRefused(m)' + Count(queue'[0], m) + Count(queue'[1], m) =
            InRefused(m) + Count(queue[0], m) + Count(queue[1], m) + x
      <4>1. /\ queue[0] \in Seq(AnyEvent) /\ Count(queue[0], m) \in Nat
            /\ Count(queue[1], m) \in Nat /\ InRefused(m) \in {0, 1}
        BY PlacesTypes
      <4>2. Count(Append(queue[0], Event(m0, sent)), m) = Count(queue[0], m) + One(m0, m)
        BY <2>1, <4>1, CountFacts
      <4>3. Count(queue'[0], m) = Count(queue[0], m) + x
        BY <2>2, <4>2, Zenon
      <4>4. InRefused(m)' = InRefused(m) /\ Count(queue'[1], m) = Count(queue[1], m)
        BY <1>2, <2>2 DEF InRefused
      <4> HIDE DEF Count, x
      <4> QED
        BY <3>2, <4>1, <4>3, <4>4
    <3>5. /\ Count(Undelivered(0), m)' + Count(Undelivered(1), m)' =
               Count(Undelivered(0), m) + Count(Undelivered(1), m) + 0
          /\ Cardinality(AtLcores(m))' = Cardinality(AtLcores(m)) + 0
      BY <1>2, <1>3, Untouched
    <3> HIDE DEF x, Count
    <3> QED
      BY <3>1, <3>2, <3>3, <3>4, <3>5, Balance
  <2> QED
    BY <1>1, <1>2, <2>3
<1> QED
  BY <1>4, <1>5 DEF ring_send

(* Its secondary frees the block it receives. *)
LEMMA RingReceiveOwned ==
  ASSUME MTypes, MTypes', Owned, Counting, ring_receive
  PROVE  twice' = {} /\ \A m \in Mbufs : Places(m)' = 1
<1> DEFINE e == Head(queue[0])
<1>1. twice = {} /\ \A m \in Mbufs : Places(m) = 1
  BY DEF Counting, Owned
<1>2. /\ program = "ipc_ring_pri_sec" /\ program' = program /\ Whats = Mbufs
      /\ UNCHANGED <<refused, cq, head, held>>
      /\ queue[0] # <<>> /\ queue' = [queue EXCEPT ![0] = Tail(@)]
      /\ queue \in [0..1 -> Seq(Carriable)]
      /\ Free(e.what)
  BY DEF ring_receive, Runs, MTypes, Rings, Whats
<1>3. e.what \in Mbufs
  <2>1. e \in Carriable
    BY <1>2, RingSteps
  <2> QED
    BY <1>2, <2>1 DEF Carriable
<1>4. \A m : /\ Count(queue[0], e.what) >= 1
             /\ InRefused(m)' + Count(queue'[0], m) + Count(queue'[1], m) =
                  InRefused(m) + Count(queue[0], m) + Count(queue[1], m) + (0 - One(e.what, m))
  BY <1>2, TakenCounts
<1> HIDE DEF e
<1>5. e.what \notin free
  BY <1>1, <1>3, <1>4, OnlyPlace
<1>6. ASSUME NEW m \in Mbufs PROVE Places(m)' = 1
  <2> DEFINE x == One(e.what, m)
  <2>1. Places(m) = 1
    BY <1>1
  <2>2. x \in Int /\ 0 - x \in Int /\ x + (0 - x) + 0 + 0 = 0
    BY DEF One
  <2>3. InPool(m)' = InPool(m) + x
    BY <1>2, <1>5, PoolSteps
  <2>4. InRefused(m)' + Count(queue'[0], m) + Count(queue'[1], m) =
          InRefused(m) + Count(queue[0], m) + Count(queue[1], m) + (0 - x)
    BY <1>4
  <2>5. /\ Count(Undelivered(0), m)' + Count(Undelivered(1), m)' =
             Count(Undelivered(0), m) + Count(Undelivered(1), m) + 0
        /\ Cardinality(AtLcores(m))' = Cardinality(AtLcores(m)) + 0
    BY <1>2, Untouched
  <2> HIDE DEF x, Count
  <2> QED
    BY <2>1, <2>2, <2>3, <2>4, <2>5, Balance
<1> QED
  BY <1>1, <1>2, <1>5, <1>6 DEF Free

(* The scheduler moves an event from a queue to a port. *)
LEMMA ScheduleOwned ==
  ASSUME MTypes, MTypes', Owned, Counting, NEW q \in 0..1, Schedule(q)
  PROVE  twice' = {} /\ \A m \in Mbufs : Places(m)' = 1
<1> DEFINE e == Head(queue[q])
<1>1. twice = {} /\ \A m \in Mbufs : Places(m) = 1
  BY DEF Counting, Owned
<1>2. /\ queue[q] # <<>> /\ queue' = [queue EXCEPT ![q] = Tail(@)]
      /\ UNCHANGED <<program, free, head, held, refused, twice>>
  BY DEF Schedule, history
<1>3. PICK p \in Linked(q) : cq' = [cq EXCEPT ![p] = Append(@, e)]
  BY DEF Schedule
<1>4. p \in 0..1 /\ cq \in [0..1 -> Seq(Carriable)]
  BY DEF Linked, MTypes, Rings
<1>5. /\ e \in AnyEvent
      /\ \A m : InRefused(m)' + Count(queue'[0], m) + Count(queue'[1], m) =
                  InRefused(m) + Count(queue[0], m) + Count(queue[1], m) + (0 - One(e.what, m))
  BY <1>2, TakenCounts
<1> HIDE DEF e
<1>6. Undelivered(p)' = Append(Undelivered(p), e)
  <2> DEFINE n == IF p = SharedPort THEN head ELSE 0
  <2>1. cq[p] \in Seq(AnyEvent) /\ n \in 0..Len(cq[p])
    <3>1. cq[p] \in Seq(AnyEvent)
      BY <1>4, PlacesTypes
    <3>2. Len(cq[p]) \in Nat
      BY <3>1, LenProperties
    <3> QED
      BY <3>1, <3>2 DEF MTypes, TypeOK
  <2>2. SharedPort' = SharedPort /\ cq'[p] = Append(cq[p], e)
    BY <1>2, <1>3, <1>4 DEF SharedPort
  <2>3. Undelivered(p) = Rest(cq[p], n) /\ Undelivered(p)' = Rest(Append(cq[p], e), n)
    BY <1>2, <2>2 DEF Undelivered, Rest
  <2> HIDE DEF n
  <2>4. Rest(Append(cq[p], e), n) = Append(Rest(cq[p], n), e)
    BY <1>5, <2>1, RestSteps
  <2> QED
    BY <2>3, <2>4
<1>7. \A r \in 0..1 : r # p => Undelivered(r)' = Undelivered(r)
  <2>1. \A r \in 0..1 : r # p => cq'[r] = cq[r]
    BY <1>3, <1>4
  <2> QED
    BY <1>2, <2>1, SameUndelivered
<1>8. ASSUME NEW m \in Mbufs PROVE Places(m)' = 1
  <2> DEFINE x == One(e.what, m)
  <2>1. Places(m) = 1
    BY <1>1
  <2>2. x \in Int /\ 0 - x \in Int /\ 0 + (0 - x) + x + 0 = 0
    BY DEF One
  <2>3. Count(Undelivered(0), m)' + Count(Undelivered(1), m)' =
          Count(Undelivered(0), m) + Count(Undelivered(1), m) + x
    <3>1. \A r \in 0..1 : Undelivered(r) \in Seq(AnyEvent) /\ Count(Undelivered(r), m) \in Nat
      BY PlacesTypes
    <3>2. Count(Append(Undelivered(p), e), m) = Count(Undelivered(p), m) + x
      BY <1>4, <1>5, <3>1, CountFacts
    <3>3. Count(Undelivered(p), m)' = Count(Undelivered(p), m) + x
      BY <1>6, <3>2 DEF Count
    <3>4. \A r \in 0..1 : r # p => Count(Undelivered(r), m)' = Count(Undelivered(r), m)
      BY <1>7 DEF Count
    <3> HIDE DEF x, Count
    <3>5. CASE p = 0
      BY <2>2, <3>1, <3>3, <3>4, <3>5
    <3>6. CASE p = 1
      BY <2>2, <3>1, <3>3, <3>4, <3>6
    <3> QED
      BY <1>4, <3>5, <3>6
  <2>4. InRefused(m)' + Count(queue'[0], m) + Count(queue'[1], m) =
          InRefused(m) + Count(queue[0], m) + Count(queue[1], m) + (0 - x)
    BY <1>5
  <2>5. /\ InPool(m)' = InPool(m) + 0
        /\ Cardinality(AtLcores(m))' = Cardinality(AtLcores(m)) + 0
    BY <1>2, Untouched
  <2> HIDE DEF x, Count
  <2> QED
    BY <2>1, <2>2, <2>3, <2>4, <2>5, Balance
<1> QED
  BY <1>1, <1>2, <1>8

(* Dequeues that overlap are noticed, and one that is alone leaves nothing under way. *)
LEMMA AloneStep == MTypes /\ Alone /\ [Next]_vars => Alone'
<1> SUFFICES ASSUME MTypes, Alone, [Next]_vars PROVE Alone'
  OBVIOUS
<1>1. /\ reading \in [Actors -> Nat] /\ head \in Nat
      /\ DOMAIN held = Actors
  <2>1. cq[SharedPort] \in Seq(AnyEvent)
    BY PlacesTypes DEF SharedPort
  <2>2. Len(cq[SharedPort]) \in Nat
    BY <2>1, LenProperties
  <2> QED
    BY <2>2 DEF MTypes, TypeOK
<1>2. CASE UNCHANGED <<reading, head, held, overlapped>>
  BY <1>2 DEF Alone
<1>3. ASSUME NEW c \in Actors, BeginDequeue(c) PROVE Alone'
  <2>1. /\ held[c] = NoEvent /\ reading' = [reading EXCEPT ![c] = head + 1]
        /\ head' = head /\ held' = held
        /\ ~overlapped' => \A d \in Actors : reading[d] = 0
    BY <1>3 DEF BeginDequeue
  <2>2. ASSUME ~overlapped', NEW d \in Actors, reading'[d] # 0 PROVE d = c
    BY <1>1, <2>1, <2>2
  <2> QED
    BY <1>1, <2>1, <2>2 DEF Alone
<1>4. ASSUME NEW c \in Actors, EndDequeue(c), overlapped' = overlapped PROVE Alone'
  <2>1. reading[c] # 0 /\ reading' = [reading EXCEPT ![c] = 0]
    BY <1>4 DEF EndDequeue
  <2>2. ASSUME ~overlapped', NEW d \in Actors PROVE reading'[d] = 0
    BY <1>1, <1>4, <2>1, <2>2 DEF Alone
  <2> QED
    BY <2>2 DEF Alone
<1>5. CASE prim_receive \/ sec_answer
  <2>1. (\A c \in Actors : reading[c] = 0) /\ reading' = reading
    BY <1>5 DEF prim_receive, sec_answer, Runs, MTypes, Unshared
  <2> QED
    BY <2>1 DEF Alone
<1>6. ASSUME NEW c \in Actors, ReleasesAndFrees(c) PROVE Alone'
  <2>1. /\ UNCHANGED <<reading, head, overlapped>>
        /\ held' = [held EXCEPT ![c] = NoEvent]
    BY <1>6 DEF ReleasesAndFrees
  <2>2. \A d \in Actors : held[d] = NoEvent => held'[d] = NoEvent
    BY <1>1, <2>1
  <2> QED
    BY <2>1, <2>2 DEF Alone
<1>7. /\ "primary" \in Actors /\ "secondary" \in Actors
      /\ "transmit" \in Actors /\ "drop" \in Actors
  BY DEF Actors, Processes, Lcores
<1>8. CASE Primary
  BY <1>2, <1>3, <1>4, <1>5, <1>7, <1>8 DEF Primary, prim_send, prim2_send, prim2_begin,
     prim2_receive, ring_send, ring_return, history, device
<1>9. CASE Secondary
  BY <1>3, <1>2, <1>4, <1>5, <1>7, <1>9 DEF Secondary, sec2_begin, sec2_answer, ring_receive, history
<1>10. CASE transmit_handler \/ drop_handler
  BY <1>3, <1>4, <1>6, <1>7, <1>10 DEF transmit_handler, drop_handler, Handler, TakesEvent, history
<1>11. CASE receive_handler \/ StartSecondary \/ Service \/ UNCHANGED vars
  BY <1>2, <1>11 DEF receive_handler, StartSecondary, Service, Schedule, vars, history, device
<1> QED
  BY <1>8, <1>9, <1>10, <1>11 DEF Next

LEMMA OwnedStep == EmInv /\ MTypes' /\ [Next]_vars => Owned'
<1> SUFFICES ASSUME EmInv, MTypes', [Next]_vars, program' # "ipc_eventdev2", ~overlapped'
             PROVE  twice' = {} /\ \A m \in Mbufs : Places(m)' = 1
  BY DEF Owned
<1>1. MTypes /\ Alone /\ Owned
  BY DEF EmInv
<1>2. program' = program /\ (overlapped => overlapped')
  <2>1. CASE \E c \in Actors : BeginDequeue(c)
    BY <2>1 DEF BeginDequeue
  <2>2. CASE ~ \E c \in Actors : BeginDequeue(c)
    <3>1. UNCHANGED <<program, overlapped>>
      BY <2>2 DEF Next, Primary, Secondary, Service, Schedule, StartSecondary, prim_send,
         prim_receive, sec_answer, prim2_send, prim2_begin, prim2_receive, sec2_begin,
         sec2_answer, ring_send, ring_return, ring_receive, receive_handler, transmit_handler,
         drop_handler, Handler, TakesEvent, ReleasesAndFrees, vars, history, Actors, Processes,
         Lcores
    <3> QED
      BY <3>1
  <2> QED
    BY <2>1, <2>2
<1>3. Counting
  BY <1>2 DEF Counting
<1>4. program # "ipc_eventdev2"
  BY <1>2
<1>5. CASE prim_send \/ receive_handler
  <2>1. PICK m0 \in free : free' = free \ {m0} /\ EnqueueNew(m0, 0, InDevice)
    BY <1>5 DEF prim_send, receive_handler
  <2>2. UNCHANGED <<cq, head, held, twice>>
    BY <1>5 DEF prim_send, receive_handler
  <2> QED
    BY <1>1, <1>2, <1>3, <2>1, <2>2, SendsNew
<1>6. CASE prim_receive
  BY <1>1, <1>3, <1>6, ReceiveOwned
<1>7. CASE sec_answer
  BY <1>1, <1>3, <1>7, AnswerOwned
<1>8. ASSUME NEW c \in Lcores, Handler(c)
      PROVE  twice' = {} /\ \A m \in Mbufs : Places(m)' = 1
  <2>1. CASE BeginDequeue(c)
    <3>1. UNCHANGED <<program, free, queue, refused, cq, head, twice, held>>
      BY <2>1 DEF BeginDequeue
    <3> QED
      BY <1>1, <1>3, <3>1, NothingMoves
  <2>2. CASE TakesEvent(c)
    BY <1>1, <1>3, <2>2, TakeOwned
  <2>3. CASE ReleasesAndFrees(c)
    BY <1>1, <1>3, <2>3, ReleaseOwned
  <2> QED
    BY <1>8, <2>1, <2>2, <2>3 DEF Handler
<1>9. CASE ring_send
  BY <1>1, <1>3, <1>9, RingSendOwned
<1>10. CASE ring_receive
  BY <1>1, <1>3, <1>10, RingReceiveOwned
<1>11. CASE ring_return \/ StartSecondary \/ UNCHANGED vars
  <2>1. UNCHANGED <<program, free, queue, refused, cq, head, twice, held>>
    BY <1>11 DEF ring_return, StartSecondary, vars, device, history
  <2> QED
    BY <1>1, <1>3, <2>1, NothingMoves
<1>12. ASSUME NEW q \in 0..1, Schedule(q)
       PROVE  twice' = {} /\ \A m \in Mbufs : Places(m)' = 1
  BY <1>1, <1>3, <1>12, ScheduleOwned
<1>13. ~(prim2_send \/ prim2_begin \/ prim2_receive \/ sec2_begin \/ sec2_answer)
  BY <1>4 DEF prim2_send, prim2_begin, prim2_receive, sec2_begin, sec2_answer, Runs
<1> QED
  BY <1>5, <1>6, <1>7, <1>8, <1>9, <1>10, <1>11, <1>12, <1>13
     DEF Next, Primary, Secondary, Service, transmit_handler, drop_handler, Lcores

LEMMA OwnedInit == Init => EmInv
<1> SUFFICES ASSUME Init PROVE EmInv
  OBVIOUS
<1>1. MTypes
  BY MTypesInit
<1>2. Alone
  BY DEF Init, Alone
<1>3. ASSUME NEW m \in Mbufs PROVE Places(m) = 1
  <2>1. InPool(m) = 1 /\ InRefused(m) = 0
    BY DEF Init, InPool, InRefused
  <2>2. Len(<<>>) = 0 /\ <<>> \in Seq(AnyEvent)
    BY EmptySeq
  <2>3. Count(<<>>, m) = 0
    <3>1. Where(<<>>, With(m)) = {}
      BY <2>2 DEF Where
    <3> QED
      BY <3>1, FS_EmptySet DEF Count
  <2>4. \A p \in 0..1 : Undelivered(p) = <<>>
    <3>1. ASSUME NEW p \in 0..1 PROVE Undelivered(p) = SubSeq(<<>>, 1, 0)
      <4>1. cq[p] = <<>> /\ (IF p = SharedPort THEN head ELSE 0) = 0
        BY DEF Init
      <4> QED
        BY <2>2, <4>1 DEF Undelivered
    <3>2. SubSeq(<<>>, 1, 0) = <<>>
      BY SubSeqEmpty
    <3> QED
      BY <3>1, <3>2
  <2>5. Count(queue[0], m) = 0 /\ Count(queue[1], m) = 0
    BY <2>3 DEF Init
  <2>6. Count(Undelivered(0), m) = 0 /\ Count(Undelivered(1), m) = 0
    BY <2>3, <2>4
  <2>7. Cardinality(AtLcores(m)) = 0
    <3>1. AtLcores(m) = {}
      BY DEF Init, AtLcores, Holders
    <3> QED
      BY <3>1, FS_EmptySet
  <2> HIDE DEF Count
  <2> QED
    BY <2>1, <2>5, <2>6, <2>7 DEF Places
<1>4. Owned
  BY <1>3 DEF Owned, Init
<1> QED
  BY <1>1, <1>2, <1>4 DEF EmInv

LEMMA EmInductive == EmInv /\ [Next]_vars => EmInv'
<1>1. EmInv /\ [Next]_vars => MTypes' /\ Alone'
  BY MTypesStep, AloneStep DEF EmInv
<1>2. EmInv /\ [Next]_vars => Owned'
  BY <1>1, OwnedStep
<1> QED
  BY <1>1, <1>2 DEF EmInv

(* Every mbuf has one place as long as no two dequeues of a port overlapped. *)
THEOREM OnePlaceEach == Spec => []EmInv
<1> QED
  BY OwnedInit, EmInductive, PTL DEF Spec

(* The places that are counted one by one are those of Owners. *)
LEMMA OwnersArePlaces ==
  ASSUME MTypes, NEW m \in Mbufs
  PROVE  Owners(m) = Places(m)
<1> DEFINE s == queue[0]  t == queue[1]  u == Undelivered(0)  v == Undelivered(1)
<1>1. /\ s \in Seq(AnyEvent) /\ t \in Seq(AnyEvent)
      /\ u \in Seq(AnyEvent) /\ v \in Seq(AnyEvent)
  BY PlacesTypes
<1>2. Cardinality({m} \cap free) = InPool(m) /\ Cardinality({m} \cap refused) = InRefused(m)
  <2>1. \A S : Cardinality({m} \cap S) = IF m \in S THEN 1 ELSE 0
    <3> TAKE S
    <3>1. {m} \cap S = IF m \in S THEN {m} ELSE {}
      OBVIOUS
    <3> QED
      BY <3>1, FS_Singleton, FS_EmptySet
  <2> QED
    BY <2>1 DEF InPool, InRefused
<1>3. Carried = ((s \o t) \o u) \o v
  BY DEF Carried
<1> HIDE DEF s, t, u, v
<1>4. /\ s \o t \in Seq(AnyEvent) /\ (s \o t) \o u \in Seq(AnyEvent)
      /\ Carried \in Seq(AnyEvent)
  <2>1. s \o t \in Seq(AnyEvent)
    BY <1>1, ConcatProperties
  <2>2. (s \o t) \o u \in Seq(AnyEvent)
    BY <1>1, <2>1, ConcatProperties
  <2>3. ((s \o t) \o u) \o v \in Seq(AnyEvent)
    BY <1>1, <2>2, ConcatProperties
  <2> QED
    BY <1>3, <2>1, <2>2, <2>3
<1>5. {k \in DOMAIN Carried : Carried[k].what = m} = Where(Carried, With(m))
  <2>1. DOMAIN Carried = 1..Len(Carried) /\ \A k \in 1..Len(Carried) : Carried[k] \in AnyEvent
    BY <1>4, LenProperties, ElementOfSeq
  <2> QED
    BY <2>1 DEF Where, With
<1>6. /\ Count(s \o t, m) = Count(s, m) + Count(t, m)
      /\ Count((s \o t) \o u, m) = Count(s \o t, m) + Count(u, m)
      /\ Count(Carried, m) = Count((s \o t) \o u, m) + Count(v, m)
  <2>1. Count(s \o t, m) = Count(s, m) + Count(t, m)
    BY <1>1, WhereConcat DEF Count
  <2>2. Count((s \o t) \o u, m) = Count(s \o t, m) + Count(u, m)
    BY <1>1, <1>4, WhereConcat DEF Count
  <2>3. Count(((s \o t) \o u) \o v, m) = Count((s \o t) \o u, m) + Count(v, m)
    BY <1>1, <1>4, WhereConcat DEF Count
  <2> QED
    BY <1>3, <2>1, <2>2, <2>3
<1>7. /\ Count(s, m) \in Nat /\ Count(t, m) \in Nat /\ Count(u, m) \in Nat /\ Count(v, m) \in Nat
  BY <1>1, CountFacts
<1>8. Cardinality(AtLcores(m)) \in Nat /\ InPool(m) \in {0, 1} /\ InRefused(m) \in {0, 1}
  BY PlacesTypes
<1>9. Owners(m) = InPool(m) + InRefused(m) + Count(Carried, m) + Cardinality(AtLcores(m))
  BY <1>2, <1>5 DEF Owners, Count, AtLcores
<1>10. Places(m) = InPool(m) + InRefused(m) + Count(s, m) + Count(t, m) + Count(u, m) + Count(v, m)
                     + Cardinality(AtLcores(m))
  BY DEF Places, s, t, u, v
<1> HIDE DEF Count
<1>11. Count(Carried, m) = Count(s, m) + Count(t, m) + Count(u, m) + Count(v, m)
  BY <1>6, <1>7
<1> QED
  BY <1>7, <1>8, <1>9, <1>10, <1>11

(* Every mbuf or block is in the pool, in one event or with one lcore, or was refused, *)
(* and none is freed twice (ipc_eventdev, eventdev_packet_parsing, ipc_ring_pri_sec).  *)
THEOREM MbufsOwnedOnce == Spec => []OneOwner
<1>1. EmInv => OneOwner
  <2> SUFFICES ASSUME EmInv, program # "ipc_eventdev2", ~overlapped
               PROVE  twice = {} /\ \A m \in Mbufs : Owners(m) = 1
    BY DEF OneOwner
  <2>1. twice = {} /\ \A m \in Mbufs : Places(m) = 1
    BY DEF EmInv, Owned
  <2> QED
    BY <2>1, OwnersArePlaces DEF EmInv
<1> QED
  BY <1>1, OnePlaceEach, PTL
===============================================================================
