----------------------------- MODULE MainScripts -----------------------------
(***************************************************************************)
(* The main functions of the repository's programs, and the port_init      *)
(* functions they call, as scripts: the sequence of the library calls that *)
(* acquire or release something, each with what the code does when the     *)
(* call fails.  The machine that runs a script is LcorePrograms.           *)
(*                                                                         *)
(* Calls whose result changes nothing later (printing, promiscuous mode,   *)
(* dev_info, statistics) are left out.  "port" and "evdev" are an Ethernet *)
(* and an event device EAL found; all programs use device 0 only.          *)
(*                                                                         *)
(* A definition commented "Fault" is a bug this code could have had; it is *)
(* part of no behaviour, and shows that a property can tell it apart.      *)
(***************************************************************************)
EXTENDS Naturals, Sequences

(* What a failing step does: "exit" the program (rte_exit, rte_panic, return *)
(* from main), "leave" the function the step is in, "skip" the next `over`   *)
(* steps, or nothing, because its result is ignored ("go_on").               *)
Step(op, what, fails, set) ==
  [op |-> op, what |-> what, fails |-> fails, over |-> 0, set |-> set]

Get(what, fails) == Step("get", what, fails, {})
\* What a failure releases before it exits.
GetOrUndo(what, set) == Step("get", what, "exit", set)
\* An if statement about what an earlier call returned.
Test(what, fails) == Step("test", what, fails, {})
\* The pointer is dereferenced, tested or not.
Use(what) == Step("use", what, "go_on", {})
Drop(set) == Step("drop", "", "go_on", set)
\* rte_eal_remote_launch of a function that dereferences what is in set.
Launch(lcore, set) == Step("launch", lcore, "go_on", set)
Wait == Step("wait", "", "go_on", {})
\* A polling loop that ends only when what it polls for can arrive.
Await(what) == Step("await", what, "go_on", {})
\* The program's loop, or what it does with packets.
Loop == Step("loop", "", "go_on", {})

\* A call of a function whose "leave" steps return an error, of which the caller
\* makes what `fails` says: exit, or go on after the call.
Call(steps, fails) ==
  [k \in DOMAIN steps |->
     IF steps[k].fails # "leave" THEN steps[k]
     ELSE IF fails = "exit" THEN [steps[k] EXCEPT !.fails = "exit"]
     ELSE [steps[k] EXCEPT !.fails = "skip", !.over = Len(steps) - k]]

\* configure, the queues, start
PortCalls(fails) ==
  << Get("configured", fails), Get("rxq", fails), Get("txq", fails), Get("started", fails) >>

-------------------------------------------------------------------------------
(* Programs that poll a port *)

prefetch_port_init == << Test("port", "leave") >> \o PortCalls("leave")

prefetch_main ==
  << Get("eal", "exit"), Test("port", "exit"), Get("pool", "exit") >>
  \o Call(prefetch_port_init, "exit") \o << Loop >>

create_pool == << Get("pool", "exit") >>

initialize_port ==
  << Test("port", "leave"), Get("configured", "leave"), Get("rxq", "leave"),
     Get("txq", "leave"), Get("info", "leave"), Get("started", "leave") >>

packet_parsing_main ==
  << Get("eal", "exit") >> \o create_pool \o Call(initialize_port, "go_on") \o << Loop >>

port_init_port_init ==
  << Test("port", "leave") >> \o PortCalls("leave") \o << Get("mac", "leave") >>

\* Fault: the skip is one step too long.
ForeachDevOneTooFar(steps) ==
  << [Test("port", "skip") EXCEPT !.over = Len(steps) + 1] >> \o steps

\* RTE_ETH_FOREACH_DEV: without a port the body is not run.
ForeachDev(steps) ==
  << [Test("port", "skip") EXCEPT !.over = Len(steps)] >> \o steps

port_init_main ==
  << Get("eal", "exit"), Get("pool", "exit") >>
  \o ForeachDev(Call(port_init_port_init, "exit"))

port_init2_port_init == << Test("port", "leave") >> \o PortCalls("leave")

\* Fault: the result of port_init is ignored.
port_init2_main_ignores ==
  << Get("eal", "exit"), Get("pool", "exit") >>
  \o ForeachDev(Call(port_init2_port_init, "go_on")) \o << Loop >>

port_init2_main ==
  << Get("eal", "exit"), Get("pool", "exit") >>
  \o ForeachDev(Call(port_init2_port_init, "exit")) \o << Loop >>

meter_port == << Get("eal", "exit"), Get("pool", "exit") >> \o PortCalls("exit")
meter_profile == << Get("profile", "exit") >>
meter_policy == << Get("policy", "exit"), Get("meter", "exit") >>
meter_flow == << Get("flow", "exit"), Loop >>
meter_main == meter_port \o meter_profile \o meter_policy \o meter_flow

\* The result of rte_eth_dev_start is ignored, that of the pool tested late.
mem_info_main ==
  << Get("eal", "exit"), Test("port", "exit"), Get("configured", "go_on"),
     Get("pool", "go_on"), Test("configured", "exit"), Get("rxq", "exit"),
     Get("txq", "exit"), Get("started", "go_on"), Test("pool", "exit"), Loop >>

\* virtio-user: sends one packet.
vhost_tx_main ==
  << Get("eal", "exit"), Get("pool", "exit"), Get("configured", "go_on"),
     Get("txq", "go_on"), Get("started", "go_on"), Loop >>

vhost_main == << Get("eal", "exit"), Get("pool", "exit") >> \o PortCalls("go_on") \o << Loop >>

-------------------------------------------------------------------------------
(* Firewalls *)

ACL_DPDK_main ==
  << Get("eal", "exit"), GetOrUndo("acl", {"eal"}), GetOrUndo("rules", {"acl", "eal"}),
     GetOrUndo("tables", {"acl", "eal"}), Loop, Drop({"acl"}), Drop({"eal"}) >>

\* A failure after rte_acl_create does not free the context: main then exits.
build_acl == << Get("acl", "leave"), Get("rules", "leave"), Get("tables", "leave") >>

ACL_DPDK_2_port_init == PortCalls("leave")

ACL_DPDK_2_main ==
  << Get("eal", "exit"), Get("pool", "exit"), Test("port", "exit") >>
  \o Call(ACL_DPDK_2_port_init, "exit") \o Call(build_acl, "exit")
  \o << Loop, Drop({"acl"}), Drop({"started"}), Drop({"eal"}) >>

-------------------------------------------------------------------------------
(* Graphs: rte_graph_create and rte_graph_lookup, the walk, destroy, stop *)

GraphMain ==
  << Get("eal", "exit"), Get("pool", "exit") >> \o PortCalls("go_on")
  \o << Get("graph", "exit"), Test("graph", "exit"), Loop, Drop({"graph"}), Drop({"started"}) >>

graph_dpdk_main == GraphMain
two_source_graph_main == GraphMain
disable_node_main == GraphMain

-------------------------------------------------------------------------------
(* Memory, rings, timers, reordering, fragments *)

mem_pool_main == << Get("eal", "exit"), Get("pool", "exit") >>
mem_pool2_main == << Get("eal", "exit"), Get("pool", "exit"), Get("mbuf", "exit") >>

\* append, trim, prepend, adj
mem_info2_main ==
  << Get("eal", "exit"), Get("pool", "exit"), Get("mbuf", "exit"), Get("tail", "exit"),
     Get("trimmed", "exit"), Get("head", "exit"), Get("adjusted", "exit"), Drop({"mbuf"}) >>

\* create_ring returns void: main cannot know that it failed.
create_ring == << Get("ring", "leave") >>

rte_ring_main == << Get("eal", "exit") >> \o Call(create_ring, "go_on") \o << Use("ring"), Use("ring") >>

\* The primary; the allocations in its loop are in EventMbufs.
ipc_ring_main == << Get("eal", "exit"), Get("ring", "exit"), Loop >>

timer_main == << Get("eal", "exit"), Loop >>

reorder_2_main ==
  << Get("eal", "exit"), Get("pool", "exit"), Get("dynfield", "exit"),
     Get("reorder", "exit"), Loop, Drop({"reorder"}) >>

reorder_packet_main == << Get("eal", "exit"), Get("pool", "exit"), Get("reorder", "exit"), Loop >>
reorder_packet2_main == << Get("eal", "exit"), Get("pool", "exit"), Get("reorder", "exit"), Loop >>

\* The loop sleeps: `continue` comes before everything else.
fragmentation_main == << Get("eal", "exit"), Get("pool", "exit"), Get("fragments", "exit"), Loop >>

-------------------------------------------------------------------------------
(* Several lcores *)

\* Fault: as in lcore_thread, the wait is commented out.
lcore_main_no_wait == << Get("eal", "exit"), Launch("1", {}), Launch("2", {}) >>

lcore_main == << Get("eal", "exit"), Launch("1", {}), Launch("2", {}), Wait >>

\* rte_eal_mp_wait_lcore is commented out.
lcore_thread_main == << Get("eal", "exit"), Launch("2", {}), Launch("3", {}) >>

\* Fault: neither ring is tested.
packet_parseer_ring_main_no_test ==
  << Get("eal", "exit"), Get("mem_pool", "exit"), Get("configured", "exit"), Get("pool", "exit"),
     Get("rxq", "exit"), Get("txq", "exit"), Get("started", "exit"),
     Get("rx_to_parser", "go_on"), Get("parse_to_tx", "go_on"),
     Launch("1", {"rx_to_parser"}), Launch("2", {"rx_to_parser", "parse_to_tx"}),
     Launch("3", {"parse_to_tx"}), Wait >>

\* Two rings are created, the first is tested.
packet_parseer_ring_main ==
  << Get("eal", "exit"), Get("mem_pool", "exit"), Get("configured", "exit"), Get("pool", "exit"),
     Get("rxq", "exit"), Get("txq", "exit"), Get("started", "exit"),
     Get("rx_to_parser", "go_on"), Get("parse_to_tx", "go_on"), Test("rx_to_parser", "exit"),
     Launch("1", {"rx_to_parser"}), Launch("2", {"rx_to_parser", "parse_to_tx"}),
     Launch("3", {"parse_to_tx"}), Wait >>

-------------------------------------------------------------------------------
(* Event devices *)

\* configure, all queues, all ports, all links
EventDevice(fails) ==
  << Get("evconf", fails), Get("evqueues", fails), Get("evports", fails), Get("link", "go_on") >>

\* The links are not tested; the last loop waits for an event that needs them.
beginner_eventdev_main ==
  << Get("eal", "exit") >> \o EventDevice("exit")
  \o << Get("evstart", "exit"), Await("link"), Drop({"evstart"}) >>

eventdev_packet_parsing_port_init == << Get("pool", "leave") >> \o PortCalls("leave")

eventdev_packet_parsing_main ==
  << Get("eal", "exit") >> \o Call(eventdev_packet_parsing_port_init, "go_on")
  \o EventDevice("exit")
  \o << Get("evstart", "exit"), Launch("2", {}), Launch("3", {}), Launch("4", {}), Wait,
        Drop({"evstart"}), Drop({"eal"}) >>

ipc_eventdev_main ==
  << Get("eal", "exit"), Get("pool", "exit") >> \o EventDevice("go_on")
  \o << Get("evstart", "go_on"), Loop >>

setup_eventdev ==
  << Get("evconf", "leave"), Get("evqueues", "leave"), Get("evports", "leave"),
     Get("link", "leave"), Get("evstart", "leave") >>

ipc_eventdev2_main == << Get("eal", "exit") >> \o Call(setup_eventdev, "exit") \o << Loop >>

-------------------------------------------------------------------------------
Script ==
  [ prefetch |-> prefetch_main, packet_parsing |-> packet_parsing_main,
    port_init |-> port_init_main, port_init2 |-> port_init2_main,
    meter_dpdk |-> meter_main, mem_info |-> mem_info_main, vhost |-> vhost_main,
    vhost_tx |-> vhost_tx_main, ACL_DPDK |-> ACL_DPDK_main, ACL_DPDK_2 |-> ACL_DPDK_2_main,
    graph_dpdk |-> graph_dpdk_main, two_source_graph |-> two_source_graph_main,
    disable_node |-> disable_node_main, mem_pool |-> mem_pool_main,
    mem_pool2 |-> mem_pool2_main, mem_info2 |-> mem_info2_main,
    rte_ring_single |-> rte_ring_main, ipc_ring_pri_sec |-> ipc_ring_main, timer_dpdk |-> timer_main,
    reorder_2 |-> reorder_2_main, reorder_packet |-> reorder_packet_main,
    reorder_packet2 |-> reorder_packet2_main, fragmentation |-> fragmentation_main,
    lcore |-> lcore_main, lcore_thread |-> lcore_thread_main,
    packet_parseer_ring |-> packet_parseer_ring_main,
    beginner_eventdev |-> beginner_eventdev_main,
    eventdev_packet_parsing |-> eventdev_packet_parsing_main,
    ipc_eventdev |-> ipc_eventdev_main, ipc_eventdev2 |-> ipc_eventdev2_main ]

Programs == DOMAIN Script
===============================================================================
