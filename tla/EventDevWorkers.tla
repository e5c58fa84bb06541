--------------------------- MODULE EventDevWorkers ---------------------------
(***************************************************************************)
(* eventdev/main.c: the main lcore sends NUM_EVENTS events and then one    *)
(* exit event per worker through port 0 of an event device; workers, each  *)
(* on a port of its own, dequeue one event at a time and return when they  *)
(* get an exit event; main waits for them all.                             *)
(*                                                                         *)
(* The event_sw device is external.  A port's ring carries new events and  *)
(* releases to the scheduler; the queue is atomic and every event has flow *)
(* 0, so the flow is pinned to one port for as long as that port has an    *)
(* event that was not released; a port releases when it dequeues next.  A  *)
(* port's ring has a single producer, but port 0's has two, main and       *)
(* worker 0: of two enqueues that overlap, one message may be lost.  The   *)
(* 1024 credits and 32 slots of a port exceed all events there are.        *)
(*                                                                         *)
(* Events are numbered in the order in which they are sent, exit events    *)
(* last.  Port p is polled by worker p, if there is one.                   *)
(*                                                                         *)
(* A definition commented "Fault" is a bug this code could have had; it is *)
(* part of no behaviour, and shows that a property can tell it apart.      *)
(***************************************************************************)
EXTENDS Naturals, Sequences, FiniteSets, Functions

CONSTANTS
  NUM_EVENTS,   \* normal events (20)
  WorkerCounts, \* how many worker lcores EAL may have been given
  NPORTS,       \* ports of the device, all linked to the queue (8)
  NoPort        \* the flow is not pinned

ASSUME EventAssumption ==
  /\ NUM_EVENTS \in Nat
  /\ NPORTS \in Nat
  /\ WorkerCounts \subseteq 1..NPORTS
  /\ NoPort \notin Nat

Ports == 0..(NPORTS - 1)
Release == 0

VARIABLES
  worker_count,   \* set before the first event is sent
  mainPc, sent,   \* main: its place, and how many events it has begun to send
  workerPc,       \* "idle", "busy" (holds an event), "releasing", "returned"
  rx,             \* device: the ring from each port to the scheduler
  queue,          \* device: the one event queue
  flow, inflight, \* device: the port flow 0 is pinned to, and its events there
  cq,             \* device: the ring from the scheduler to each port
  doomed,         \* port 0: the enqueue under way will be overwritten
  lost,           \* history: messages lost on port 0
  processed       \* history: what each step of core_stats counted, oldest first

mainVars == <<mainPc, sent>>
schedVars == <<queue, flow, inflight, cq>>
portVars == <<rx, doomed, lost>>
vars == <<worker_count, mainVars, workerPc, schedVars, portVars, processed>>

Workers == 0..(worker_count - 1)
LAST == NUM_EVENTS + worker_count
Events == 1..LAST

\* Faults: EXIT_EVENT is also the number of a normal event; it is never recognised.
IsExitCollides(e) == e > NUM_EVENTS \/ e = 2
IsExitNever(e) == FALSE

IsExit(e) == e > NUM_EVENTS

\* The device is started and the workers are launched.
Init ==
  /\ worker_count \in WorkerCounts
  /\ mainPc = "sending" /\ sent = 0
  /\ workerPc = [w \in Workers |-> "idle"]
  /\ rx = [p \in Ports |-> <<>>]
  /\ queue = <<>> /\ flow = NoPort /\ inflight = 0
  /\ cq = [p \in Ports |-> <<>>]
  /\ doomed = FALSE /\ lost = {}
  /\ processed = <<>>

\* The end of an enqueue of m on port p, while another one is or is not under way.
\* If one is, either of the two messages may be lost, now or when that one ends.
Enqueue(p, m, overlaps) ==
  \/ /\ ~(doomed /\ p = 0)
     /\ rx' = [rx EXCEPT ![p] = Append(@, m)]
     /\ doomed' \in IF overlaps THEN BOOLEAN ELSE {doomed}
     /\ UNCHANGED lost
  \/ /\ p = 0 /\ (doomed \/ overlaps)
     /\ doomed' = FALSE
     /\ lost' = lost \cup {m}
     /\ UNCHANGED rx

-------------------------------------------------------------------------------
(* main *)

\* Fault: one exit event too many.
BeginSendOneMore ==
  /\ mainPc = "sending"
  /\ sent <= LAST
  /\ mainPc' = "writing"
  /\ sent' = sent + 1
  /\ UNCHANGED <<worker_count, workerPc, schedVars, portVars, processed>>

\* rte_event_enqueue_burst on port 0, of the next normal or exit event ...
BeginSend ==
  /\ mainPc = "sending"
  /\ sent < LAST
  /\ mainPc' = "writing"
  /\ sent' = sent + 1
  /\ UNCHANGED <<worker_count, workerPc, schedVars, portVars, processed>>

\* ... is not one step.
EndSend ==
  /\ mainPc = "writing"
  /\ Enqueue(0, sent, workerPc[0] = "releasing")
  /\ mainPc' = "sending"
  /\ UNCHANGED <<worker_count, sent, workerPc, schedVars, processed>>

\* rte_eal_mp_wait_lcore
MainReturn ==
  /\ mainPc = "sending"
  /\ sent = LAST
  /\ \A w \in Workers : workerPc[w] = "returned"
  /\ mainPc' = "returned"
  /\ UNCHANGED <<worker_count, sent, workerPc, schedVars, portVars, processed>>

Main == BeginSend \/ EndSend \/ MainReturn

-------------------------------------------------------------------------------
(* worker *)

WorkerGoes(w, from, to) ==
  /\ workerPc[w] = from
  /\ workerPc' = [workerPc EXCEPT ![w] = to]

\* rte_event_dequeue_burst first releases the event dequeued before ...
BeginRelease(w) ==
  /\ WorkerGoes(w, "busy", "releasing")
  /\ UNCHANGED <<worker_count, mainVars, schedVars, portVars, processed>>

EndRelease(w) ==
  /\ WorkerGoes(w, "releasing", "idle")
  /\ Enqueue(w, Release, w = 0 /\ mainPc = "writing")
  /\ UNCHANGED <<worker_count, mainVars, schedVars, processed>>

\* ... and then takes the next one.  The worker counts it, and returns if it is an
\* exit event: nothing will release that.
Take(w) ==
  /\ cq[w] # <<>>
  /\ LET e == Head(cq[w])
     IN /\ WorkerGoes(w, "idle", IF IsExit(e) THEN "returned" ELSE "busy")
        /\ processed' = Append(processed, [lcore |-> w, event |-> e])
  /\ cq' = [cq EXCEPT ![w] = Tail(@)]
  /\ UNCHANGED <<worker_count, mainVars, queue, flow, inflight, portVars>>

Worker(w) == BeginRelease(w) \/ EndRelease(w) \/ Take(w)

-------------------------------------------------------------------------------
(* The scheduler of the device, run by a service core *)

\* A message arrives: a new event queues up; the last release unpins the flow.
Pull(p) ==
  /\ rx[p] # <<>>
  /\ LET m == Head(rx[p])
         last == inflight = 1
     IN IF m = Release
        THEN /\ inflight' = inflight - 1
             /\ flow' = IF last THEN NoPort ELSE flow
             /\ UNCHANGED queue
        ELSE /\ queue' = Append(queue, m)
             /\ UNCHANGED <<flow, inflight>>
  /\ rx' = [rx EXCEPT ![p] = Tail(@)]
  /\ UNCHANGED <<worker_count, mainVars, workerPc, cq, doomed, lost, processed>>

\* Fault: the queue is set up with RTE_SCHED_TYPE_PARALLEL.
AnyPort == Ports

\* The ports an event may go to: the one the flow is pinned to, or any linked port,
\* whether a worker polls it or not.
Destinations == IF flow = NoPort THEN Ports ELSE {flow}

Schedule ==
  /\ queue # <<>>
  /\ \E p \in Destinations :
       /\ cq' = [cq EXCEPT ![p] = Append(@, Head(queue))]
       /\ flow' = p
  /\ queue' = Tail(queue)
  /\ inflight' = inflight + 1
  /\ UNCHANGED <<worker_count, mainVars, workerPc, portVars, processed>>

Scheduler == Schedule \/ \E p \in Ports : Pull(p)

Next == Main \/ Scheduler \/ \E w \in Workers : Worker(w)

Spec == Init /\ [][Next]_vars

\* Main, the workers and the service are busy loops on lcores of their own.
FairSpec ==
  /\ Spec
  /\ WF_vars(Main) /\ WF_vars(Schedule)
  /\ \A p \in Ports : WF_vars(Pull(p))
  /\ \A w \in 0..(NPORTS - 1) : WF_vars(w \in Workers /\ Worker(w))

-------------------------------------------------------------------------------
(* Properties *)

TypeOK ==
  /\ worker_count \in WorkerCounts
  /\ mainPc \in {"sending", "writing", "returned"}
  /\ sent \in 0..(LAST)
  /\ workerPc \in [Workers -> {"idle", "busy", "releasing", "returned"}]
  /\ rx \in [Ports -> Seq(Events \cup {Release})]
  /\ queue \in Seq(Events)
  /\ flow \in Ports \cup {NoPort}
  /\ inflight \in Nat
  /\ cq \in [Ports -> Seq(Events)]
  /\ doomed \in BOOLEAN
  /\ lost \in SUBSET (Events \cup {Release})
  /\ processed \in Seq([lcore : Workers, event : Events])

Done == {processed[k].event : k \in 1..Len(processed)}
Returned == {w \in Workers : workerPc[w] = "returned"}

\* Whatever the port each event goes to, events are processed in the order in which
\* they were sent, each at most once, the lost ones excepted (main.c:27, 118-130); two
\* workers are never inside the loop body at the same time, although they share no lock
\* (main.c:58, 123); and no work is left undone when a worker returns: every normal
\* event main managed to send was processed before the first exit event (main.c:118-145).
ProcessedInOrder ==
  /\ \A j, k \in 1..Len(processed) : j < k => processed[j].event < processed[k].event
  /\ \A v, w \in Workers : v # w => ~(workerPc[v] = "busy" /\ workerPc[w] = "busy")
  /\ Returned # {} => 1..NUM_EVENTS \subseteq Done \cup lost

\* The worker that takes an exit event never dequeues again, so the event is never
\* released and keeps the flow: the others never return (main.c:36-37).
OneWorkerReturns == Cardinality(Returned) <= 1

\* The flow is pinned to a port no worker polls (8 ports linked, main.c:95-98).
Stranded == flow \in Ports \ Workers

\* All normal events are processed, unless one or a release is lost or the flow is
\* stranded: nothing else can stop the workers.
WorkIsDone == <>(1..NUM_EVENTS \subseteq Done \/ Stranded \/ lost # {})

\* A single worker does return, and then main does, but for the same two reasons.
MainReturnsIfAlone ==
  worker_count = 1 => <>(mainPc = "returned" \/ Stranded \/ lost # {})

\* The ports in use at any time are unique: no two lcores are inside a call for the
\* same one (main.c:105 against 126 and 143).
PortsAreUnique == ~(mainPc = "writing" /\ workerPc[0] = "releasing")

\* The exit events make every worker return (main.c:134-147), if nothing is lost
\* and nothing stranded.
EveryWorkerReturns ==
  [](~Stranded /\ lost = {}) => <>(Returned = Workers)
===============================================================================
