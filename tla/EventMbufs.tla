------------------------------ MODULE EventMbufs ------------------------------
(***************************************************************************)
(* What goes through an event device, or one ring, between two processes   *)
(* or three lcores, after main has set them up (MainScripts):              *)
(*   ipc_eventdev: the primary sends mbufs as requests on queue 0, the     *)
(*     secondary sends the same mbufs back on queue 1; both ports are      *)
(*     linked to both queues;                                              *)
(*   ipc_eventdev2: one event, one queue, one port that both processes poll;*)
(*   eventdev_packet_parsing: a lcore enqueues what it receives, and two   *)
(*     lcores dequeue from port 1;                                         *)
(*   ipc_ring_pri_sec: numbers in allocated blocks through one ring.       *)
(*                                                                         *)
(* The device is external.  It takes a new event while fewer than LIMIT    *)
(* are in it; an event is in it until it is released, and a port's last    *)
(* event is released when the port dequeues next.  A queue's events all    *)
(* have flow 0 and are atomic: while one port has any of them, the others  *)
(* get none.  A port's ring has a single consumer: of two dequeues that    *)
(* overlap, both may take the same slot.                                   *)
(*                                                                         *)
(* A definition commented "Fault" is a bug this code could have had; it is *)
(* part of no behaviour, and shows that a property can tell it apart.      *)
(***************************************************************************)
EXTENDS Naturals, Sequences, FiniteSets, Functions

CONSTANTS
  Mbufs,     \* the pool, or the blocks of the heap (1024)
  LIMIT,     \* new_event_threshold (1024)
  MESSAGES,  \* numbers ipc_ring_pri_sec sends (10)
  MaxEvents, \* bound: packets eventdev_packet_parsing receives
  NoEvent

ASSUME EventMbufsAssumption ==
  /\ {LIMIT, MESSAGES, MaxEvents} \subseteq Nat \ {0}
  /\ NoEvent \notin [what : Mbufs \cup {100, 101}, tag : 0..MESSAGES]

VARIABLES
  program,
  pc,              \* place of a process or lcore
  free,            \* mbufs in the pool, or on the RX ring; free blocks
  queue,           \* device: events not scheduled yet; or the ring
  cq, head,        \* device: a port's ring, and for a shared port what was taken of it
  reading,         \* the slot a dequeue under way takes, or 0
  held,            \* event dequeued and not released
  sent, got,       \* numbers sent, values received
  refused, twice, overlapped \* history: not enqueued; freed when free; dequeues overlapped

device == <<queue, cq, head, reading, held>>
history == <<refused, twice, overlapped>>
vars == <<program, pc, free, device, sent, got, history>>

Programs == {"ipc_eventdev", "ipc_eventdev2", "eventdev_packet_parsing", "ipc_ring_pri_sec"}
Processes == {"primary", "secondary"}
Lcores == {"receive", "transmit", "drop"}
Actors == Processes \cup Lcores
PortOf(c) == CASE c = "primary" -> 0 [] c = "secondary" -> 1
SharedPort == IF program = "ipc_eventdev2" THEN 0 ELSE 1

Init ==
  /\ program \in Programs
  /\ pc = [c \in Actors |-> IF c = "secondary" THEN "absent"
                            ELSE IF c = "primary" THEN "send" ELSE "poll"]
  /\ free = Mbufs
  /\ queue = [q \in 0..1 |-> <<>>] /\ cq = [p \in 0..1 |-> <<>>]
  /\ head = 0 /\ reading = [c \in Actors |-> 0] /\ held = [c \in Actors |-> NoEvent]
  /\ sent = 0 /\ got = [c \in Processes |-> <<>>]
  /\ refused = {} /\ twice = {} /\ overlapped = FALSE

Runs(p, c, from) == program = p /\ pc[c] = from
Goes(c, to) == pc' = [pc EXCEPT ![c] = to]

Free(m) ==
  /\ free' = free \cup {m}
  /\ twice' = twice \cup ({m} \cap free)

-------------------------------------------------------------------------------
(* The event device *)

\* What it carries, and its queue; in a ring, a block and the number written to it.
Event(what, tag) == [what |-> what, tag |-> tag]

Holders == {c \in Actors : held[c] # NoEvent}
InDevice ==
  Len(queue[0]) + Len(queue[1]) + Len(cq[0]) + Len(cq[1]) - head + Cardinality(Holders)

\* rte_event_enqueue_burst of a new event, when n are in the device.  No program keeps an
\* mbuf that was refused.
EnqueueNew(m, q, n) ==
  IF n < LIMIT
  THEN queue' = [queue EXCEPT ![q] = Append(@, Event(m, q))] /\ UNCHANGED refused
  ELSE refused' = refused \cup {m} /\ UNCHANGED queue

Linked(q) ==
  CASE program = "ipc_eventdev" -> {0, 1}
    [] program = "ipc_eventdev2" -> {0}
    [] program = "eventdev_packet_parsing" -> {1}
    [] OTHER -> {}

\* Whether port p has an event of queue q.
Has(p, q) ==
  \/ \E e \in Range(cq[p]) : e.tag = q
  \/ \E c \in Holders \cap Processes : PortOf(c) = p /\ held[c].tag = q

Schedule(q) ==
  /\ queue[q] # <<>>
  /\ \E p \in Linked(q) :
       /\ program = "ipc_eventdev" => ~Has(1 - p, q)
       /\ cq' = [cq EXCEPT ![p] = Append(@, Head(queue[q]))]
  /\ queue' = [queue EXCEPT ![q] = Tail(@)]
  /\ UNCHANGED <<program, pc, free, head, reading, held, sent, got, history>>

\* rte_event_dequeue_burst(p, 1) by the only process that polls the port.
Dequeue(c, p) ==
  IF cq[p] = <<>>
  THEN held' = [held EXCEPT ![c] = NoEvent] /\ UNCHANGED cq
  ELSE held' = [held EXCEPT ![c] = Head(cq[p])] /\ cq' = [cq EXCEPT ![p] = Tail(@)]

\* On a shared port it reads the next slot ...
BeginDequeue(c) ==
  /\ reading[c] = 0 /\ held[c] = NoEvent
  /\ head < Len(cq[SharedPort])
  /\ reading' = [reading EXCEPT ![c] = head + 1]
  /\ overlapped' = (overlapped \/ \E d \in Actors : reading[d] # 0)
  /\ UNCHANGED <<program, pc, free, queue, cq, head, held, sent, got, refused, twice>>

\* ... and then moves the head behind it.
EndDequeue(c) ==
  /\ reading[c] # 0
  /\ head' = reading[c]
  /\ reading' = [reading EXCEPT ![c] = 0]

Read(c) == cq[SharedPort][reading[c]].what

-------------------------------------------------------------------------------
(* ipc_eventdev *)

\* Fault: without an mbuf the loop goes on to the dequeue.
prim_send_goes_on ==
  /\ Runs("ipc_eventdev", "primary", "send")
  /\ IF free = {} THEN UNCHANGED <<free, queue, refused>>
     ELSE \E m \in free : free' = free \ {m} /\ EnqueueNew(m, 0, InDevice)
  /\ Goes("primary", "receive")
  /\ UNCHANGED <<program, cq, head, reading, held, sent, got, twice, overlapped>>

\* Without an mbuf the loop starts again.
prim_send ==
  /\ Runs("ipc_eventdev", "primary", "send")
  /\ \E m \in free : free' = free \ {m} /\ EnqueueNew(m, 0, InDevice)
  /\ Goes("primary", "receive")
  /\ UNCHANGED <<program, cq, head, reading, held, sent, got, twice, overlapped>>

\* Whatever it gets it takes for a reply.
prim_receive ==
  /\ Runs("ipc_eventdev", "primary", "receive")
  /\ Dequeue("primary", 0)
  /\ IF cq[0] = <<>> THEN UNCHANGED <<free, twice>> ELSE Free(Head(cq[0]).what)
  /\ Goes("primary", "send")
  /\ UNCHANGED <<program, queue, head, reading, sent, got, refused, overlapped>>

\* Fault: the secondary frees the mbuf it has sent back.
sec_answer_frees ==
  /\ Runs("ipc_eventdev", "secondary", "poll")
  /\ cq[1] # <<>> \/ held["secondary"] # NoEvent
  /\ Dequeue("secondary", 1)
  /\ IF cq[1] = <<>> THEN UNCHANGED <<queue, refused, free, twice>>
     ELSE /\ EnqueueNew(Head(cq[1]).what, 1,
                        IF held["secondary"] = NoEvent THEN InDevice ELSE InDevice - 1)
          /\ Free(Head(cq[1]).what)
  /\ UNCHANGED <<program, pc, head, reading, sent, got, overlapped>>

\* Whatever it gets it takes for a request, and sends the mbuf back as a new event.
sec_answer ==
  /\ Runs("ipc_eventdev", "secondary", "poll")
  /\ cq[1] # <<>> \/ held["secondary"] # NoEvent
  /\ Dequeue("secondary", 1)
  /\ IF cq[1] = <<>> THEN UNCHANGED <<queue, refused>>
     ELSE EnqueueNew(Head(cq[1]).what, 1,
                     IF held["secondary"] = NoEvent THEN InDevice ELSE InDevice - 1)
  /\ UNCHANGED <<program, pc, free, head, reading, sent, got, twice, overlapped>>

-------------------------------------------------------------------------------
(* ipc_eventdev2 *)

prim2_send ==
  /\ Runs("ipc_eventdev2", "primary", "send")
  /\ EnqueueNew(100, 0, InDevice)
  /\ Goes("primary", "poll")
  /\ UNCHANGED <<program, free, cq, head, reading, held, sent, got, twice, overlapped>>

prim2_begin == Runs("ipc_eventdev2", "primary", "poll") /\ BeginDequeue("primary")

prim2_receive ==
  /\ Runs("ipc_eventdev2", "primary", "poll")
  /\ EndDequeue("primary")
  /\ got' = [got EXCEPT !["primary"] = Append(@, Read("primary"))]
  /\ Goes("primary", "returned")
  /\ UNCHANGED <<program, free, queue, cq, held, sent, history>>

sec2_begin == Runs("ipc_eventdev2", "secondary", "poll") /\ BeginDequeue("secondary")

\* Adds one and forwards the event, which needs no credit.
sec2_answer ==
  /\ Runs("ipc_eventdev2", "secondary", "poll")
  /\ EndDequeue("secondary")
  /\ got' = [got EXCEPT !["secondary"] = Append(@, Read("secondary"))]
  /\ queue' = [queue EXCEPT ![0] = Append(@, Event(Read("secondary") + 1, 0))]
  /\ Goes("secondary", "returned")
  /\ UNCHANGED <<program, free, cq, held, sent, history>>

-------------------------------------------------------------------------------
(* eventdev_packet_parsing *)

\* One packet of a burst; a refused one is forgotten.
receive_handler ==
  /\ program = "eventdev_packet_parsing"
  /\ sent < MaxEvents
  /\ \E m \in free : free' = free \ {m} /\ EnqueueNew(m, 0, InDevice)
  /\ sent' = sent + 1
  /\ UNCHANGED <<program, pc, cq, head, reading, held, got, twice, overlapped>>

TakesEvent(c) ==
  /\ program = "eventdev_packet_parsing"
  /\ EndDequeue(c)
  /\ held' = [held EXCEPT ![c] = cq[1][reading[c]]]
  /\ UNCHANGED <<program, pc, free, queue, cq, sent, got, history>>

\* Parses or does not, releases the event, and frees the mbuf.
ReleasesAndFrees(c) ==
  /\ program = "eventdev_packet_parsing"
  /\ held[c] # NoEvent
  /\ held' = [held EXCEPT ![c] = NoEvent]
  /\ Free(held[c].what)
  /\ UNCHANGED <<program, pc, queue, cq, head, reading, sent, got, refused, overlapped>>

Handler(c) ==
  \/ program = "eventdev_packet_parsing" /\ BeginDequeue(c)
  \/ TakesEvent(c) \/ ReleasesAndFrees(c)

transmit_handler == Handler("transmit")
drop_handler == Handler("drop")

-------------------------------------------------------------------------------
(* ipc_ring_pri_sec *)

\* Fault: one number more.
ring_send_one_more ==
  /\ Runs("ipc_ring_pri_sec", "primary", "send")
  /\ sent <= MESSAGES
  /\ \E m \in free :
       /\ free' = free \ {m}
       /\ queue' = [queue EXCEPT ![0] = Append(@, Event(m, sent))]
  /\ sent' = sent + 1
  /\ UNCHANGED <<program, pc, cq, head, reading, held, got, history>>

\* Fault: the block is enqueued before the number is written to it.
ring_send_unwritten ==
  /\ Runs("ipc_ring_pri_sec", "primary", "send")
  /\ sent < MESSAGES
  /\ \E m \in free, was \in 0..sent :
       /\ free' = free \ {m}
       /\ queue' = [queue EXCEPT ![0] = Append(@, Event(m, was))]
  /\ sent' = sent + 1
  /\ UNCHANGED <<program, pc, cq, head, reading, held, got, history>>

\* rte_malloc may fail, and its result is not tested.  The ring never fills up.
ring_send ==
  /\ Runs("ipc_ring_pri_sec", "primary", "send")
  /\ sent < MESSAGES
  /\ \/ /\ \E m \in free :
             /\ free' = free \ {m}
             /\ queue' = [queue EXCEPT ![0] = Append(@, Event(m, sent))]
        /\ sent' = sent + 1
        /\ UNCHANGED pc
     \/ Goes("primary", "crashed") /\ UNCHANGED <<free, queue, sent>>
  /\ UNCHANGED <<program, cq, head, reading, held, got, history>>

ring_return ==
  /\ Runs("ipc_ring_pri_sec", "primary", "send")
  /\ sent = MESSAGES
  /\ Goes("primary", "returned")
  /\ UNCHANGED <<program, free, device, sent, got, history>>

ring_receive ==
  /\ Runs("ipc_ring_pri_sec", "secondary", "poll")
  /\ queue[0] # <<>>
  /\ queue' = [queue EXCEPT ![0] = Tail(@)]
  /\ got' = [got EXCEPT !["secondary"] = Append(@, Head(queue[0]).tag)]
  /\ Free(Head(queue[0]).what)
  /\ UNCHANGED <<program, pc, cq, head, reading, held, sent, refused, overlapped>>

-------------------------------------------------------------------------------
\* A secondary is started at any time or not at all; what it looks up exists.
StartSecondary ==
  /\ program # "eventdev_packet_parsing" /\ pc["secondary"] = "absent"
  /\ Goes("secondary", "poll")
  /\ UNCHANGED <<program, free, device, sent, got, history>>

Primary == prim_send \/ prim_receive \/ prim2_send \/ prim2_begin \/ prim2_receive \/ ring_send \/ ring_return
Secondary == sec_answer \/ sec2_begin \/ sec2_answer \/ ring_receive
Service == \E q \in 0..1 : Schedule(q)

Next ==
  \/ Primary \/ Secondary \/ StartSecondary \/ Service
  \/ receive_handler \/ transmit_handler \/ drop_handler

Spec == Init /\ [][Next]_vars

\* The processes are busy loops, and the device's scheduler runs on a core of its own.
FairSpec == Spec /\ WF_vars(Primary) /\ WF_vars(Secondary) /\ WF_vars(Service)

-------------------------------------------------------------------------------
(* Properties *)

TypeOK ==
  /\ program \in Programs
  /\ pc \in [Actors -> {"absent", "send", "receive", "poll", "returned", "crashed"}]
  /\ free \subseteq Mbufs
  /\ \A s \in Range(queue) \cup Range(cq) :
       s \in Seq([what : Mbufs \cup {100, 101}, tag : 0..MESSAGES])
  /\ head \in 0..Len(cq[SharedPort])
  /\ reading \in [Actors -> 0..Len(cq[SharedPort])]
  /\ held \in [Actors -> [what : Mbufs, tag : {0, 1}] \cup {NoEvent}]
  /\ sent \in 0..(IF program = "ipc_ring_pri_sec" THEN MESSAGES ELSE MaxEvents)
  /\ got \in [Processes -> Seq(Nat)]
  /\ refused \subseteq Mbufs /\ twice \subseteq Mbufs /\ overlapped \in BOOLEAN

\* The events a port has still to deliver.
Undelivered(p) == SubSeq(cq[p], (IF p = SharedPort THEN head ELSE 0) + 1, Len(cq[p]))

Carried == queue[0] \o queue[1] \o Undelivered(0) \o Undelivered(1)

\* How many places m is in.
Owners(m) ==
  Cardinality({m} \cap free) + Cardinality({m} \cap refused)
    + Cardinality({k \in DOMAIN Carried : Carried[k].what = m})
    + Cardinality({c \in Lcores \cap Holders : held[c].what = m})

\* Every mbuf is in the pool, in one event or with one lcore, or was refused by a full
\* device and is lost: the secondary passes on, as new, an mbuf it does not own
\* (ipc_eventdev/sec.c:38-45), the primary frees it (prim.c:94), transmit_handler and
\* drop_handler free what they dequeue from the same port (eventdev_packet_parsing/
\* main.c:59-77, 87-103), the ring's secondary frees the primary's blocks (sec.c:30).
\* Only two dequeues of one port that overlap can make it two owners, or none.
OneOwner ==
  program # "ipc_eventdev2" /\ ~overlapped =>
    twice = {} /\ \A m \in Mbufs : Owners(m) = 1

\* A pool that is empty when the primary comes to allocate stays empty: it never reaches
\* the dequeue again, and nobody else frees (prim.c:74-76, sec.c:33-46).
EmptyPoolIsForGood ==
  [](program = "ipc_eventdev" /\ pc["primary"] = "send" /\ free = {} => [](free = {}))

\* "Primary: waiting for reply..." and "Primary: reply received" (ipc_eventdev2/
\* primary.c:71-76): what the primary got is what the secondary answers, its number and
\* one (secondary.c:30).
ReplyIsReceived == got["primary"] \in {<<>>, <<101>>}

\* A secondary of ipc_ring_pri_sec receives every number, in order, whenever it is started,
\* unless an allocation failed (prim.c:28-37, sec.c:25-32).
EveryNumberArrives ==
  (program = "ipc_ring_pri_sec" /\ pc["secondary"] = "poll") ~>
    (pc["primary"] = "crashed" \/ got["secondary"] = [k \in 1..MESSAGES |-> k - 1])
===============================================================================
