---------------------------- MODULE LcorePrograms ----------------------------
(***************************************************************************)
(* The programs of MainScripts, one of which runs: main executes its       *)
(* script, any step of which may fail; lcores it launches run beside it;   *)
(* and when it reaches its loop, the loop moves mbufs between the pool,    *)
(* the port and the program, reads headers, walks a graph or reorders      *)
(* packets.  The network card sends what it was given, and signals arrive, *)
(* at any moment.                                                          *)
(*                                                                         *)
(* The loops of ipc_eventdev and ipc_eventdev2 are in EventMbufs, the      *)
(* lcores of packet_parseer_ring in PacketPipeline; of theirs only what    *)
(* depends on main is here.                                                *)
(*                                                                         *)
(* A definition commented "Fault" is a bug this code could have had; it is *)
(* part of no behaviour, and shows that a property can tell it apart.      *)
(***************************************************************************)
EXTENDS MainScripts, HeaderReads, ReorderBuffer

CONSTANTS
  Mbufs,           \* the pool (8192 and fewer)
  BURST,           \* packets per rte_eth_rx_burst (32)
  PREFETCH_OFFSET, \* packets prefetched ahead (4)
  OtherArrivals,   \* lists of reorder_packet2 besides the one it has, as short as it
  NoFrame

ASSUME LcoreAssumption ==
  /\ IsFiniteSet(Mbufs)
  /\ BURST \in Nat \ {0} /\ PREFETCH_OFFSET \in Nat \ {0}
  /\ \A l \in OtherArrivals : l \in Seq(Nat) /\ Len(l) <= reorder_packet2_demo.size

VARIABLES
  program,         \* which program runs
  at, phase,       \* main: its step, and "main", "loop", "ended", "exited", "crashed"
  have,            \* what calls have acquired
  running,         \* worker lcores whose function has not returned
  quit,            \* force_quit, or g_keep_running = 0
  free, nic,       \* mbufs in the pool or on the RX ring, and given to the TX ring
  held,            \* mbufs in the program's arrays and graph streams
  refused, twice,  \* history: not taken by rte_eth_tx_burst; freed when free
  frame,           \* the packet the firewall has classified last
  pending,         \* nodes the graph walk has still to run, in order
  buffer, arriving, drained \* reorder buffer, numbers to insert, numbers drained

mainVars == <<program, at, phase, have, running, quit>>
mbufVars == <<free, nic, held, refused, twice>>
orderVars == <<buffer, arriving, drained>>
loopVars == <<mbufVars, frame, pending, orderVars>>
vars == <<mainVars, loopVars>>

Stages == {"burst", "ipv4", "tx", "drop"}
Nothing == [s \in Stages |-> {}]

GraphPrograms == {"graph_dpdk", "two_source_graph", "disable_node"}
ReorderPrograms == {"reorder_2", "reorder_packet", "reorder_packet2"}
Pollers == GraphPrograms \cup {"prefetch", "packet_parsing", "port_init2", "meter_dpdk",
                               "mem_info", "vhost", "ACL_DPDK_2"}

Init ==
  /\ program \in Programs
  /\ at = 1 /\ phase = "main"
  /\ have \in SUBSET {"port", "evdev"}
  /\ running = {} /\ quit = FALSE
  /\ free = Mbufs /\ nic = {} /\ held = Nothing /\ refused = {} /\ twice = {}
  /\ frame = NoFrame /\ pending = <<>>
  /\ buffer = rte_reorder_create(1) /\ arriving = <<>> /\ drained = <<>>

-------------------------------------------------------------------------------
(* main *)

Here == Script[program][at]
OnStep(op) == phase = "main" /\ at <= Len(Script[program]) /\ Here.op = op

\* What a call needs to succeed; it may fail all the same.
Needs(what) ==
  CASE what = "configured" -> {"port"}
    [] what = "rxq" -> {"configured", "pool"}
    [] what = "txq" -> {"configured"}
    [] what = "started" -> {"txq"} \cup (IF program = "vhost_tx" THEN {} ELSE {"rxq"})
    [] what = "evconf" -> {"evdev"}
    [] what \in {"evqueues", "evports"} -> {"evconf"}
    [] what \in {"link", "evstart"} -> {"evqueues", "evports"}
    [] OTHER -> {}

Succeed ==
  /\ OnStep("get")
  /\ Needs(Here.what) \subseteq have
  /\ have' = have \cup {Here.what}
  /\ at' = at + 1
  /\ UNCHANGED <<program, phase, running, quit, loopVars>>

\* A call or a test that fails: leave the program, or go on behind what is skipped.
Fails ==
  IF Here.fails = "exit"
  THEN /\ phase' = "exited"
       /\ have' = have \ Here.set
       /\ UNCHANGED at
  ELSE /\ at' = at + 1 + Here.over
       /\ UNCHANGED <<phase, have>>

Fail ==
  /\ OnStep("get")
  /\ Fails
  /\ UNCHANGED <<program, running, quit, loopVars>>

TestStep ==
  /\ OnStep("test")
  /\ IF Here.what \in have THEN at' = at + 1 /\ UNCHANGED <<phase, have>> ELSE Fails
  /\ UNCHANGED <<program, running, quit, loopVars>>

UseStep ==
  /\ OnStep("use")
  /\ IF Here.what \in have THEN at' = at + 1 /\ UNCHANGED phase
                           ELSE phase' = "crashed" /\ UNCHANGED at
  /\ UNCHANGED <<program, have, running, quit, loopVars>>

DropStep ==
  /\ OnStep("drop")
  /\ have' = have \ Here.set
  /\ at' = at + 1
  /\ UNCHANGED <<program, phase, running, quit, loopVars>>

\* The result of rte_eal_remote_launch, negative if there is no such lcore, is ignored.
LaunchStep ==
  /\ OnStep("launch")
  /\ running' \in {running, running \cup {Here.what}}
  /\ at' = at + 1
  /\ UNCHANGED <<program, phase, have, quit, loopVars>>

WaitStep ==
  /\ \/ OnStep("wait") /\ running = {}
     \/ OnStep("await") /\ Here.what \in have
  /\ at' = at + 1
  /\ UNCHANGED <<program, phase, have, running, quit, loopVars>>

End ==
  /\ phase = "main" /\ at > Len(Script[program])
  /\ phase' = "ended"
  /\ UNCHANGED <<program, at, have, running, quit, loopVars>>

-------------------------------------------------------------------------------
(* Worker lcores *)

LaunchedWith(w) ==
  UNION {Script[program][k].set : k \in {k \in DOMAIN Script[program] :
           Script[program][k].op = "launch" /\ Script[program][k].what = w}}

\* The lcore functions of eventdev_packet_parsing never return.
WorkerReturns(w) ==
  /\ program # "eventdev_packet_parsing"
  /\ running' = running \ {w}
  /\ UNCHANGED <<program, at, phase, have, quit, loopVars>>

WorkerCrashes(w) ==
  /\ ~(LaunchedWith(w) \subseteq have)
  /\ phase' = "crashed"
  /\ UNCHANGED <<program, at, have, running, quit, loopVars>>

Worker(w) ==
  /\ phase = "main"
  /\ w \in running
  /\ WorkerReturns(w) \/ WorkerCrashes(w)

-------------------------------------------------------------------------------
(* Entering and leaving the loop *)

Demos(p) ==
  CASE p = "reorder_2" -> {reorder_2_demo}
    [] p = "reorder_packet" -> {reorder_packet_demo}
    [] p = "reorder_packet2" ->
         {reorder_packet2_demo} \cup [size : {reorder_packet2_demo.size}, arrivals : OtherArrivals]

EnterLoop ==
  /\ OnStep("loop")
  /\ phase' = "loop"
  /\ IF program \in ReorderPrograms
     THEN \E demo \in Demos(program) :
            /\ buffer' = rte_reorder_create(demo.size)
            /\ arriving' = demo.arrivals
     ELSE UNCHANGED <<buffer, arriving>>
  /\ UNCHANGED <<program, at, have, running, quit, mbufVars, frame, pending, drained>>

InLoop(programs) == phase = "loop" /\ program \in programs
AfterLoop == phase' = "main" /\ at' = at + 1

\* signal_handler, sigint_handler: ACL_DPDK_2 installs it just before its loop.
Signal ==
  /\ ~quit
  /\ \/ InLoop(GraphPrograms \cup {"ACL_DPDK_2"})
     \/ phase = "main" /\ program \in GraphPrograms /\ "eal" \in have
  /\ quit' = TRUE
  /\ UNCHANGED <<program, at, phase, have, running, loopVars>>

\* The condition of the loop is tested between bursts, and between walks.
QuitLoop ==
  /\ InLoop(GraphPrograms \cup {"ACL_DPDK_2"})
  /\ quit /\ pending = <<>> /\ held["burst"] = {} /\ held["tx"] = {}
  /\ AfterLoop
  /\ UNCHANGED <<program, have, running, quit, loopVars>>

-------------------------------------------------------------------------------
(* The port and the pool *)

Free(ms) ==
  /\ free' = free \cup ms
  /\ twice' = twice \cup (ms \cap free)

Offer(ms, sent) ==
  /\ nic' = nic \cup sent
  /\ refused' = refused \cup (ms \ sent)

\* The card has sent m, and the driver frees it.
TxDone(m) ==
  /\ m \in nic
  /\ nic' = nic \ {m}
  /\ Free({m})
  /\ UNCHANGED <<mainVars, held, refused, frame, pending, orderVars>>

\* rte_eth_rx_burst: what a port that is not started receives is nothing.
BurstSize == IF program = "vhost" THEN 1 ELSE BURST
Bursts == {b \in SUBSET free : "started" \in have /\ Cardinality(b) <= BurstSize}

\* A pass of a loop begins with a burst; an empty one ends it.
Receive ==
  /\ InLoop(Pollers \ GraphPrograms)
  /\ held = Nothing /\ ~quit
  /\ \E b \in Bursts \ {{}} :
       /\ held' = [held EXCEPT !["burst"] = b]
       /\ free' = free \ b
  /\ frame' = NoFrame
  /\ UNCHANGED <<mainVars, nic, refused, twice, pending, orderVars>>

-------------------------------------------------------------------------------
(* Loops that free what they receive *)

FreesBurst(p) ==
  /\ InLoop({p}) /\ held["burst"] # {}
  /\ Free(held["burst"])
  /\ held' = Nothing
  /\ UNCHANGED <<mainVars, nic, refused, pending, orderVars>>

prefetch_lcore_main == FreesBurst("prefetch") /\ UNCHANGED frame
meter_loop == FreesBurst("meter_dpdk") /\ UNCHANGED frame

\* Fault: the burst is printed and not freed, as in mem_info.
vhost_loop_keeps ==
  /\ InLoop({"vhost"}) /\ held["burst"] # {}
  /\ held' = Nothing
  /\ UNCHANGED <<mainVars, free, nic, refused, twice, frame, pending, orderVars>>

vhost_loop == FreesBurst("vhost") /\ UNCHANGED frame
rx_loop == FreesBurst("port_init2") /\ UNCHANGED frame

\* Prints the burst and receives the next one into the same array.
mem_info_loop ==
  /\ InLoop({"mem_info"}) /\ held["burst"] # {}
  /\ held' = Nothing
  /\ UNCHANGED <<mainVars, free, nic, refused, twice, frame, pending, orderVars>>

-------------------------------------------------------------------------------
(* Loops that send *)

\* Frees the burst it has parsed, sends it, and frees what is refused.
process_packet ==
  /\ InLoop({"packet_parsing"}) /\ held["burst"] # {}
  /\ \E sent \in SUBSET held["burst"] :
       /\ nic' = nic \cup sent
       /\ free' = free \cup held["burst"]
       /\ twice' = twice \cup (held["burst"] \ sent)
  /\ held' = Nothing
  /\ UNCHANGED <<mainVars, refused, frame, pending, orderVars>>

\* vhost/tx.c: one packet, once, freed if it is refused.
vhost_tx_send ==
  /\ InLoop({"vhost_tx"})
  /\ \E m \in free : \E sent \in SUBSET (IF "started" \in have THEN {m} ELSE {}) :
       /\ nic' = nic \cup sent
       /\ free' = free \ sent
  /\ AfterLoop
  /\ UNCHANGED <<program, have, running, quit, held, refused, twice, frame, pending, orderVars>>

Classified(m, allowed) ==
  IF allowed
  THEN /\ held' = [held EXCEPT !["burst"] = @ \ {m}, !["tx"] = @ \cup {m}]
       /\ UNCHANGED <<free, twice>>
  ELSE /\ held' = [held EXCEPT !["burst"] = @ \ {m}]
       /\ Free({m})

\* Fault: a packet that is not allowed is not freed.
firewall_forgets_denied ==
  /\ InLoop({"ACL_DPDK_2"})
  /\ \E m \in held["burst"], f \in AclFrames :
       /\ frame' = f
       /\ held' = [held EXCEPT !["burst"] = @ \ {m},
                              !["tx"] = @ \cup (IF ACL_DPDK_2_allows(f) THEN {m} ELSE {})]
  /\ UNCHANGED <<mainVars, free, nic, refused, twice, pending, orderVars>>

\* firewall_loop, packet by packet: keep what is allowed, free the rest ...
firewall_classify ==
  /\ InLoop({"ACL_DPDK_2"})
  /\ \E m \in held["burst"], f \in AclFrames :
       /\ frame' = f
       /\ Classified(m, ACL_DPDK_2_allows(f))
  /\ UNCHANGED <<mainVars, nic, refused, pending, orderVars>>

\* ... and offer what is kept; what is refused is forgotten.
firewall_send ==
  /\ InLoop({"ACL_DPDK_2"})
  /\ held["burst"] = {} /\ held["tx"] # {}
  /\ \E sent \in SUBSET held["tx"] : Offer(held["tx"], sent)
  /\ held' = Nothing
  /\ UNCHANGED <<mainVars, free, twice, frame, pending, orderVars>>

\* ACL_DPDK classifies one packet it has built; the verdict is only printed.
classify_pkt1 ==
  /\ InLoop({"ACL_DPDK"})
  /\ AfterLoop
  /\ UNCHANGED <<program, have, running, quit, loopVars>>

-------------------------------------------------------------------------------
(* Graphs: a walk runs the source nodes, then every node something was      *)
(* enqueued to, in the order in which their streams became non-empty.       *)

Sources == IF program = "two_source_graph" THEN <<"rx1", "rx2">> ELSE <<"rx">>

rte_graph_walk ==
  /\ InLoop(GraphPrograms)
  /\ pending = <<>> /\ ~quit
  /\ pending' = Sources
  /\ UNCHANGED <<mainVars, mbufVars, frame, orderVars>>

\* A node whose stream was empty is appended to those still to run.
Enqueue(streams) ==
  LET new == {s \in DOMAIN streams : held[s] = {} /\ streams[s] # {}}
      IfNew(s) == IF s \in new THEN <<s>> ELSE <<>>
  IN pending' = Tail(pending) \o IfNew("ipv4") \o IfNew("tx") \o IfNew("drop")

Runs(p, node) == InLoop({p}) /\ pending # <<>> /\ Head(pending) = node

\* A source node: a burst, to edge 0.
RxNode(p, node) ==
  /\ Runs(p, node)
  /\ \E b \in Bursts :
       /\ Enqueue([ipv4 |-> b])
       /\ held' = [held EXCEPT !["ipv4"] = @ \cup b]
       /\ free' = free \ b
  /\ UNCHANGED <<mainVars, nic, refused, twice, frame, orderVars>>

\* IPv4 packets to edge 0, tx, and the others to edge 1, drop.
Ipv4Node(p) ==
  /\ Runs(p, "ipv4")
  /\ \E ipv4 \in SUBSET held["ipv4"] :
       /\ Enqueue([tx |-> ipv4, drop |-> held["ipv4"] \ ipv4])
       /\ held' = [held EXCEPT !["ipv4"] = {}, !["tx"] = @ \cup ipv4,
                               !["drop"] = @ \cup (held["ipv4"] \ ipv4)]
  /\ UNCHANGED <<mainVars, free, nic, refused, twice, frame, orderVars>>

\* What rte_eth_tx_burst does not take is forgotten.
TxNode(p) ==
  /\ Runs(p, "tx")
  /\ \E sent \in SUBSET held["tx"] : Offer(held["tx"], sent)
  /\ held' = [held EXCEPT !["tx"] = {}]
  /\ pending' = Tail(pending)
  /\ UNCHANGED <<mainVars, free, twice, frame, orderVars>>

DropNode(p) ==
  /\ Runs(p, "drop")
  /\ Free(held["drop"])
  /\ held' = [held EXCEPT !["drop"] = {}]
  /\ pending' = Tail(pending)
  /\ UNCHANGED <<mainVars, nic, refused, frame, orderVars>>

\* Fault: what goes to drop stays among the packets for tx.
two_source_ipv4_sends_all ==
  /\ Runs("two_source_graph", "ipv4")
  /\ \E ipv4 \in SUBSET held["ipv4"] :
       /\ Enqueue([tx |-> held["ipv4"], drop |-> held["ipv4"] \ ipv4])
       /\ held' = [held EXCEPT !["ipv4"] = {}, !["tx"] = @ \cup held["ipv4"],
                               !["drop"] = @ \cup (held["ipv4"] \ ipv4)]
  /\ UNCHANGED <<mainVars, free, nic, refused, twice, frame, orderVars>>

two_source_rx1 == RxNode("two_source_graph", "rx1")
two_source_rx2 == RxNode("two_source_graph", "rx2")
two_source_ipv4 == Ipv4Node("two_source_graph")
two_source_tx == TxNode("two_source_graph")
two_source_drop == DropNode("two_source_graph")
disable_node_rx == RxNode("disable_node", "rx")
disable_node_ipv4 == Ipv4Node("disable_node")
disable_node_tx == TxNode("disable_node")
disable_node_drop == DropNode("disable_node")

\* graph_dpdk receives into an array at NULL: nothing, or its end.
graph_dpdk_rx ==
  /\ Runs("graph_dpdk", "rx")
  /\ \/ pending' = Tail(pending) /\ UNCHANGED phase
     \/ Bursts \ {{}} # {} /\ phase' = "crashed" /\ UNCHANGED pending
  /\ UNCHANGED <<program, at, have, running, quit, mbufVars, frame, orderVars>>

Graph ==
  \/ rte_graph_walk
  \/ two_source_rx1 \/ two_source_rx2 \/ two_source_ipv4 \/ two_source_tx \/ two_source_drop
  \/ disable_node_rx \/ disable_node_ipv4 \/ disable_node_tx \/ disable_node_drop
  \/ graph_dpdk_rx

-------------------------------------------------------------------------------
(* Reordering *)

Insert(p) ==
  /\ InLoop({p}) /\ arriving # <<>>
  /\ buffer' = rte_reorder_insert(buffer, Head(arriving))
  /\ arriving' = Tail(arriving)
  /\ UNCHANGED <<mainVars, mbufVars, frame, pending, drained>>

Drain(p) ==
  /\ InLoop({p}) /\ arriving = <<>>
  /\ buffer' = rte_reorder_drain(buffer)
  /\ drained' = drained \o Drained(buffer)
  /\ UNCHANGED <<program, have, running, quit, mbufVars, frame, pending, arriving>>

\* Once, or until nothing comes.
DrainOnce(p) == Drain(p) /\ AfterLoop
DrainAll(p) ==
  /\ Drain(p)
  /\ IF Drained(buffer) = <<>> THEN AfterLoop ELSE UNCHANGED <<phase, at>>

\* Fault: a packet that is not inserted is sent on, not freed.
reorder_packet2_sends_refused ==
  /\ InLoop({"reorder_packet2"}) /\ arriving # <<>>
  /\ buffer' = rte_reorder_insert(buffer, Head(arriving))
  /\ arriving' = Tail(arriving)
  /\ drained' = IF Takes(buffer, Head(arriving)) THEN drained ELSE Append(drained, Head(arriving))
  /\ UNCHANGED <<mainVars, mbufVars, frame, pending>>

reorder_2_insert == Insert("reorder_2")
reorder_2_drain == DrainOnce("reorder_2")
reorder_packet_insert == Insert("reorder_packet")
reorder_packet_drain == DrainAll("reorder_packet")
reorder_packet2_insert == Insert("reorder_packet2")
reorder_packet2_drain == DrainAll("reorder_packet2")

Reorder ==
  \/ reorder_2_insert \/ reorder_packet_insert \/ reorder_packet2_insert
  \/ reorder_2_drain \/ reorder_packet_drain \/ reorder_packet2_drain

-------------------------------------------------------------------------------
ScriptStep ==
  \/ Succeed \/ Fail \/ TestStep \/ UseStep \/ DropStep \/ LaunchStep \/ WaitStep
  \/ EnterLoop \/ End

Process ==
  \/ prefetch_lcore_main \/ meter_loop \/ vhost_loop \/ rx_loop \/ mem_info_loop
  \/ process_packet \/ vhost_tx_send \/ firewall_classify \/ firewall_send \/ classify_pkt1

Main == ScriptStep \/ Process \/ Graph \/ Reorder \/ QuitLoop

Next ==
  \/ Main \/ Receive \/ Signal
  \/ \E w \in running : Worker(w)
  \/ \E m \in nic : TxDone(m)

Spec == Init /\ [][Next]_vars

\* main's lcore goes on, and the card sends what it was given.  Packets need not come.
FairSpec == Spec /\ WF_vars(Main) /\ \A m \in Mbufs : WF_vars(TxDone(m))

-------------------------------------------------------------------------------
(* Properties *)

TypeOK ==
  /\ program \in Programs
  /\ at \in 1..(Len(Script[program]) + 1)
  /\ phase \in {"main", "loop", "ended", "exited", "crashed"}
  /\ have \subseteq {"port", "evdev"} \cup {Script[program][k].what : k \in DOMAIN Script[program]}
  /\ running \subseteq {"1", "2", "3", "4"}
  /\ quit \in BOOLEAN
  /\ free \subseteq Mbufs /\ nic \subseteq Mbufs
  /\ held \in [Stages -> SUBSET Mbufs]
  /\ refused \subseteq Mbufs /\ twice \subseteq Mbufs
  /\ frame \in {NoFrame} \cup AclFrames
  /\ pending \in Seq({"rx", "rx1", "rx2", "ipv4", "tx", "drop"})

InProgram == UNION {held[s] : s \in Stages}

\* An mbuf is in one place at a time, the pool, the card's TX ring or one array or
\* stream of the program, and is never freed when it is free already: the receive loops,
\* the firewall (ACL_DPDK_2/main.c:140-176) and the graphs' nodes pass it on or free it,
\* not both.  Not so packet_parsing, which frees its burst before it sends it
\* (packet_process.c:159-168).
OneOwner ==
  program # "packet_parsing" =>
    /\ twice = {}
    /\ free \cap nic = {} /\ InProgram \cap (free \cup nic) = {}
    /\ \A s, t \in Stages : s # t => held[s] \cap held[t] = {}

\* What is in no place any more was refused by rte_eth_tx_burst in one of the programs
\* that ignore its result (2_source_graph/main.c:164, disable_node/main.c:130,
\* ACL_DPDK_2/main.c:174), and what they had refused is lost; only mem_info
\* (main.c:108-113) loses packets otherwise, all it receives.
LostWasRefused ==
  program # "mem_info" =>
    /\ Mbufs \ (free \cup nic \cup InProgram) = refused
    /\ refused # {} => program \in {"two_source_graph", "disable_node", "ACL_DPDK_2"}

\* Programs that test every step of the port's set-up never receive from a port that is
\* not started, whichever step fails: prefetch, meter_dpdk, ACL_DPDK_2, the lcores of
\* packet_parseer_ring; port_init2 (main.c:45) does so only without a port, when it
\* has none to set up.
ReceivesFromStartedPort ==
  /\ phase = "loop" /\ program \in {"prefetch", "meter_dpdk", "ACL_DPDK_2"} => "started" \in have
  /\ phase = "loop" /\ program = "port_init2" => "started" \in have \/ "port" \notin have
  /\ program = "packet_parseer_ring" /\ running # {} => "started" \in have

\* No failure of a set-up call lets a program dereference NULL, except where a test is
\* missing: the ring of rte_ring_single (create_ring returns void), the second ring of
\* packet_parseer_ring (main.c:83-85); and graph_dpdk receives into a NULL array
\* (main.c:74-77).
NullOnlyWhereUntested ==
  phase = "crashed" =>
    \/ program = "rte_ring_single" /\ "ring" \notin have
    \/ program = "packet_parseer_ring" /\ "parse_to_tx" \notin have
    \/ program = "graph_dpdk" /\ "started" \in have

FailuresAreCaught == ReceivesFromStartedPort /\ NullOnlyWhereUntested

\* A program that ends has released what it must, on every path: the firewalls their
\* ACL context and EAL (ACL_DPDK/main.c:99-199, ACL_DPDK_2/main.c:207-209), the graphs
\* their graph with no packet left in a stream; and no worker is running when main
\* returns, except in lcore_thread (lcore.c:41).
EndsTidy ==
  /\ phase = "ended" =>
       /\ {"acl", "graph"} \cap have = {}
       /\ InProgram = {}
       /\ running # {} => program = "lcore_thread"
  /\ phase \in {"ended", "exited"} /\ program = "ACL_DPDK" => {"acl", "eal"} \cap have = {}

\* How far the program reads of a packet it prints.
Reads(f) ==
  CASE program = "packet_parsing" -> Farther(print_mbuf_data(f), print_mbuff_info(f))
    [] program = "packet_parseer_ring" -> packet_info(f)
    [] program = "eventdev_packet_parsing" -> parsing_logic(f)
    [] program = "port_init2" -> rx_loop_reads(f)
    [] program = "prefetch" -> process_packet_reads(f)
    [] OTHER -> 0

\* A frame that is as long as the headers it says it has is never read past its end, by
\* any of the parsers (packet_parseer_ring/parser.c:18-79, eventdev_packet_parsing/
\* parse.c:16-151, port_init2/rx_loop.c:36-60), but for an IPv6 packet in
\* eventdev_packet_parsing, which takes four times a nibble of its version field for the
\* header's length (parse.c:71).  packet_parsing never reads past the end of any frame,
\* whatever the lengths in it, but in the L4 header of an IPv6 packet, which it takes to be
\* there (packet_process.c:108-122).  And prefetch looks at each packet of a burst once and
\* prefetches none outside it, short bursts included (prefetch/main.c:237-252).
ReadsStayInside ==
  /\ held["burst"] # {} \/ running # {} =>
       \A f \in Frames :
         /\ Headers(f) <= f.len /\ ~(program = "eventdev_packet_parsing" /\ f.ether = "ipv6") =>
              Reads(f) <= f.len
         /\ program = "packet_parsing" =>
              \/ Reads(f) <= f.len
              \/ f.ether = "ipv6" /\ f.len >= ETH + IPV6 /\ Reads(f) <= Headers(f)
  /\ program = "prefetch" =>
       LET n == Cardinality(held["burst"])
       IN /\ Prefetched(n, PREFETCH_OFFSET) \subseteq 0..(n - 1)
          /\ MainLoop(n, PREFETCH_OFFSET) = 0..(Remaining(n, PREFETCH_OFFSET) - 1)

\* TCP from 192.168.1.0/24 to port 80, in an IPv4 header of 20 bytes.
ToBeAllowed(f) ==
  /\ f.type = <<8, 0, 69>> /\ f.ttl_proto[2] = 6
  /\ f.src[1] = 192 /\ f.src[2] = 168 /\ f.src[3] = 1
  /\ f.dport = <<0, 80>>

\* "Rule 0: Allow TCP from 192.168.1.0/24 to any dst port 80" (ACL_DPDK_2/main.c:76) and
\* "allowed packets go to tx_burst, rest freed" (line 135): a packet that leaves the
\* received burst and is one of those the rule names is among the packets to be sent.
AllowedGoToTx ==
  [][\A m \in held["burst"] \ held'["burst"] :
       program = "ACL_DPDK_2" /\ ToBeAllowed(frame') => m \in held'["tx"]]_vars

\* "Packets are always returned in strict order" (notes/reorder.txt): what is drained
\* increases, and what a program has left in the buffer when it stops draining is behind
\* a gap (reorder_packet2/main.c:119-142).
DrainedInOrder ==
  /\ \A j, k \in DOMAIN drained : j < k => drained[j] < drained[k]
  /\ phase = "ended" /\ program \in ReorderPrograms =>
       Drained(buffer) = <<>> /\ arriving = <<>>

\* Every mbuf a program has taken from the pool comes back to it, if the card does not
\* refuse it: no loop, node or array keeps one for good.
BuffersComeBack ==
  \A m \in Mbufs :
    (m \notin free /\ program \notin {"mem_info", "packet_parsing"}) ~> (m \in free \cup refused)
===============================================================================
