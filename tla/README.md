# DPDK-Folder in TLA+

`src/` is a folder of small, self-contained DPDK programs. Each directory is one program (or one pair of
primary/secondary processes). What they have in common is the thing that is hard about DPDK: mbufs and
heap blocks handed between lcores, processes and devices with no owner but convention, busy-polling loops
that stop on counters, and libraries (rings, QSBR, multi-process channel, eventdev) whose return values
the caller must honour.

## Inventory

| Component | Where | State | Operations | Hard part |
|---|---|---|---|---|
| Packet pipeline | `packet_parseer_ring/` | two SPSC rings, three local bursts, three counters | `receive_packet`, `packet_parser`, `transmit_packet` on lcores 1-3, `main` waits | three lcores that stop on three different counters; a short `rte_ring_enqueue_burst` in the parser is ignored |
| RCU demo | `rcu_dpdk/` | `gdata`, `stop`, QSBR token/counters, heap | `reader`, `writer`, `main` | reclaiming a version a reader still holds; reader registering late or unregistering while the writer waits |
| MP request/reply | `Multiple_Sender_MP/`, `Multiple_Msg_Passing/`, `Message_Passing_DPDK/` | `request_count`, per-secondary iteration/retry/`force_quit`, sockets | `mp_callback`, `rte_mp_request_sync` loop, `signal_handler` | timeouts racing replies, retries served twice, replies without a request id |
| Full duplex rings | `full_duplex_2_rings/` | two rings in shared memory, heap blocks | ping-pong of 10 messages, `-1` sentinel | blocks malloc'd by one process and freed by the other; `*msg` read after it was given away |
| One-way IPC ring | `ipc_ring_pri_sec/` | one ring, heap blocks | producer of 10, endless consumer | consumer may start before or after the producer ends |
| Eventdev workers | `eventdev/`, `beginner_eventdev/` | event queue, per-port schedule, atomic flow | producer, `worker`, exit events | all events share one atomic flow; a worker that stops keeps it |
| Eventdev IPC | `ipc_eventdev/`, `ipc_eventdev2/` | two queues, two ports linked to both, mbuf pool | request/reply loops | a process dequeues its own event; pool exhaustion skips the dequeue |
| Eventdev packet parsing | `eventdev_packet_parsing/` | event queues, mbufs | `receive_handler`, `transmit_handler`, `drop_handler` | enqueue result handled by a pause only; two consumers of one port |
| Graph pipelines | `graph_dpdk/`, `disable_node/`, `2_source_graph/` | node streams, mbufs, `force_quit` | node `process` functions, `rte_graph_walk` | ownership along edges, ignored short transmit |
| Forwarding loops | `packet_parsing/`, `port_init/`, `port_init2/`, `prefetch/`, `ACL_DPDK_2/`, `meter_dpdk/`, `vhost/` | a burst of mbufs | rx burst, process, free / tx burst | freed exactly once, index arithmetic of the prefetch loop |
| ACL rules | `ACL_DPDK/`, `ACL_DPDK_2/` | rule table | `build_acl`, classify | field offsets, and from which byte they count |
| Reorder demos | `reorder_packet/`, `reorder_packet2/`, `reorder_2/` | reorder buffer, drained burst | insert loop, drain loop | window limits, late and far-ahead packets, who frees a refused mbuf |
| Header parsers | `packet_parsing/packet_process.c`, `eventdev_packet_parsing/parse.c`, `packet_parseer_ring/parser.c` | none | header offsets by protocol | length checks, header lengths taken from the packet |
| Start-up sequences | every `main`, `port.c`, `port_init.c` | port, pool and ring handles | configure, queue setup, start | a step that fails and is not checked |
| lcore launch | `lcore/`, `lcore_thread/` | lcore states | `rte_eal_remote_launch`, wait | `main` returns while a worker runs |
| Timer | `timer_dpdk/` | one periodic timer | `rte_timer_reset`, `rte_timer_manage` | late polls of a periodic timer |
| Memory reports | `mem_info/`, `mem_info2/`, `mem_pool/`, `rte_ring_single/` | none that outlives a call | print statistics | - |
| Fragmentation | `fragmentation/` | fragment table | loop body is unreachable after `continue` | - |
| Notes | `notes/`, `commands/` | - | prose | - |


How the parts interact: not at all across directories. Inside a directory the lcores or processes share
rings, mbufs, heap blocks, an event device or the multi-process channel; nothing is persisted, so there is
no crash recovery, only processes that end while others go on. The DPDK libraries are not in `src/`; they
are modelled by what the calls of this code rely on, and `PROJECT.json` marks such definitions external.

The hazards of the code, each at its line and with the properties that watch it, are the `hazards` list of
`PROJECT.json`.

## Plan

Order: the program where most state is shared first. *Done* means modelled and checked.

| Module | Component | State |
|---|---|---|
| `PacketPipeline`, implements `LossyFifo` | packet pipeline | done; safety and refinement proved, liveness model-checked |
| `RcuQsbr`, implements `SafeReclamation` | RCU demo | done; safety and refinement proved, liveness model-checked |
| `MpRequestReply` | MP request/reply | done; safety proved, liveness model-checked |
| `RingDuplex` | full duplex rings | done; safety proved, liveness model-checked; one finding |
| `EventDevWorkers` | `eventdev/` | done; safety proved, liveness model-checked; two findings |
| `EventMbufs` | one-way IPC ring, eventdev IPC, eventdev packet parsing | done; safety proved, liveness model-checked; one finding |
| `MainScripts`, run by `LcorePrograms` | start-up sequences, lcore launch, memory reports, and the set-up of everything else | done; every script proved about |
| `LcorePrograms` | forwarding loops, graphs, the firewalls' and the reorder programs' loops | done; safety proved, liveness model-checked; one finding |
| `HeaderReads`, `ReorderBuffer`, used by `LcorePrograms` | header parsers, ACL rules, reorder demos | done; operators checked over bounded inputs in every state that uses them; the header functions proved for every length, the reorder buffer for every list |

What is left: an abstract specification of `EventDevWorkers` (a queue whose head is with one port) and one of
`RingDuplex` (an alternation of question and answer) would say in one module what their invariants say now.

## Modules

### PacketPipeline

One action is one half of a loop body of an lcore, because that is where the lcore touches a ring: *poll*
(take a burst) and *pass on*. `rxPc`, `parserPc` and `txPc` say in which half an lcore is, or that it
returned.

| Action | Code (`packet_parseer_ring/`) |
|---|---|
| `RxBurst`, `RxForward` | `receive.c`, `rte_eth_rx_burst`; enqueue, free the refused, count, stop at 25 |
| `ParserDequeue`, `ParserForward` | `parser.c`, dequeue and count; enqueue and ignore what did not fit |
| `TxDequeue`, `TxSend` | `transmit.c`, dequeue; transmit a prefix, free the rest, count what was sent |
| `MainReturn` | `main.c`, `rte_eal_mp_wait_lcore` |

Packets are the numbers of their arrival, so order and ownership can be told. `Flow` is the concatenation of
all places a packet may be in, from the wire back to the receiver's array; most properties are about it.
The parsing itself reads headers and changes nothing; how far it reads is in `HeaderReads`. Polls that
find nothing are stuttering. `capacity`, what the two rings hold, is chosen at the start and never changes. What `main` does before the launch is a script of `MainScripts`.

`LossyFifo` is what the pipeline promises: packets may disappear but never overtake, multiply or reappear.
`ImplementsFifo` maps the pipeline's seven places onto its one queue.

### RcuQsbr

Follows `rcu_dpdk/main.c` line by line for `reader` and `writer`, with as many readers as one likes where
the code launches one. The QSBR library's calls are split where interleaving matters: going online and
reporting quiescence each read the token and then store it, and `rte_rcu_qsbr_synchronize` takes a token,
reads the bitmap of registered threads and passes them one by one. `SafeReclamation` is the promise of RCU
without grace periods: a version is reclaimed once, after it was replaced and when nobody borrows it.

### MpRequestReply

The secondaries' loop (`Multiple_Sender_MP/sec.c`), the primary's `mp_callback` (`prim.c`) and the channel
between them. `Try` enters the body of the inner loop, where a retry sleeps; `Send`, `Timeout` and `Receive` are
the parts of `rte_mp_request_sync`; `Deliver` is the secondary's channel thread. `rte_mp_reply` may fail: the
request is counted and never answered. `NoAttemptAfterSignal` is about the test between them: a secondary that
is signalled outside an attempt begins none, one that is already in the body finishes its attempt. The library
finds the pending request by its name, so a reply to an attempt that timed out satisfies the next one:
`StaleOnlyAfterTimeout` says how far that can go. A secondary with `MAX_RETRIES` 1 that handles no signals is that of
`Multiple_Msg_Passing/`; with one request, that of `Message_Passing_DPDK/`. `Launches` says which of them are
started together. `timeouts` and `accepted` are history variables.

### RingDuplex

Both processes of `full_duplex_2_rings/`, one action per access of a ring, of the heap or of a block's
contents. The heap is shared and small, so a freed block is soon the other process's next message. `Garbage`
is what a freed block holds.

### EventDevWorkers

`eventdev/main.c` over an external `event_sw` device. A port carries messages to the scheduler, new events and
releases; the scheduler pins the one flow to a port until everything it sent there is released. An enqueue is
two steps, so that `main`'s and worker 0's on port 0 may overlap; then one of the two messages may be lost
(`doomed` is the one under way that will be overwritten, `lost` the history). `worker_count` is chosen once, as
EAL's arguments do. `Stranded` is the flow pinned to one of the ports that are linked but not polled.

### MainScripts

The `main` functions of thirty programs, and the `port_init` functions they call, as sequences of the calls that
acquire, test, dereference or release something. A step says what the code does when it fails: end the program,
leave the function (whose caller ends the program or ignores the result), skip steps, or nothing. That
is nearly all that differs between these programs until their loops begin, so they are data and not thirty
state machines. Calls that cannot change what is reachable later (promiscuous mode, statistics, printing) are
left out.

### LcorePrograms

Chooses one program, a subset of an Ethernet and an event device that EAL found, and runs the script: `Succeed`,
`Fail`, `TestStep`, `UseStep`, `DropStep`, `LaunchStep`, `WaitStep`. `Needs` is the libraries' part: a queue
cannot be set up on a port that is not configured, nothing starts without its queues. Any call may fail even so.
At its loop (`EnterLoop`) a program becomes one of these:

| Loop | Actions | Code |
|---|---|---|
| receive and free | `prefetch_lcore_main`, `meter_loop`, `vhost_loop`, `rx_loop`; `mem_info_loop`, which does not free | `prefetch/`, `meter_dpdk/`, `vhost/vhost.c`, `port_init2/rx_loop.c`, `mem_info/` |
| receive, send | `process_packet`, which frees first | `packet_parsing/packet_process.c` |
| send one | `vhost_tx_send` | `vhost/tx.c` |
| firewall | `firewall_classify` packet by packet, `firewall_send`; `classify_pkt1`, which prints a verdict and goes on | `ACL_DPDK_2/`, `ACL_DPDK/` |
| graph | `rte_graph_walk` and one action per node of each graph | `2_source_graph/`, `disable_node/`, `graph_dpdk/` |
| reorder | an insert and a drain action per program | `reorder_2/`, `reorder_packet/`, `reorder_packet2/` |

`free`, `nic` and `held` say where each mbuf is; `refused` and `twice` are history. A pool's mbufs and those the
driver keeps on the RX ring are one set, since the code cannot tell them apart. The card frees what it has sent
in an action of its own (`TxDone`), so what a loop does overlaps it. `Signal` sets `force_quit` or
`g_keep_running` at any moment after the handler was installed; the flag is read between bursts and walks only.

### HeaderReads and ReorderBuffer

`HeaderReads` gives, for each parser, the offset behind the last byte it reads of a frame, as a function of the
frame's length, EtherType, header-length nibble and protocol; the index ranges of the prefetch loop; and the
verdict of `ACL_DPDK_2`'s rules on bytes at offsets. `ReorderBuffer` is the library's reorder buffer: a window
of numbers, moved forward by a number up to one window ahead of it, and the ready buffer with what it passed.
Both are pure, and the properties of `LcorePrograms` quantify over all their inputs in the states where the code
runs them.

### EventMbufs

Four programs that hand things from one process or lcore to another: `ipc_eventdev/`, `ipc_eventdev2/`,
`eventdev_packet_parsing/` and `ipc_ring_pri_sec/`. The `event_sw` device takes a new event while fewer than
`LIMIT` are inside, schedules a queue's event to a linked port, keeping an atomic flow with the port
that has it, and releases a port's last event when the port dequeues next. Where two processes or lcores poll one port,
a dequeue is two steps, reading the slot and moving the head, because the port's ring has one consumer;
`overlapped` remembers that two such dequeues overlapped. `ipc_eventdev`'s secondary re-enqueues an mbuf it does
not own, and whoever dequeues cannot tell a request from a reply: `OneOwner` says that this is nevertheless sound,
and `EmptyPoolIsForGood` what it leads to when refused events have used the pool up.

## Runs

| Run | Shows | Bounds |
|---|---|---|
| `pipeline` | order, a single owner, nothing freed that is passed on, and the FIFO, whatever the rings hold; with rings that hold `LIMIT - 1 + BURST_SIZE`, as the code's 1023 do (`RoomyRings`), also no loss, no short enqueue, fewer than a burst stranded, and `main` returns exactly if not starved | bursts of 3, limit 4 (not a multiple of the burst, as 25 is not of 32), at most 9 arrivals; rings of 6 slots, exactly the threshold, where 6 packets are the most that can be received and `MaxArrivals` never binds, or of 2, less than a burst, where refused packets do not count towards the limit and 9 arrivals are a bound, enough for three full bursts |
| `rcu_program` | no use after free, double free or leak; implements the cell; the program exits, so each grace period ends | 2 readers, 3 updates: a reader may register, read or leave before, during and after a grace period while the other does something else; the safety part is proved for any number |
| `mp_exchange` | stale replies only after timeouts, with retries, signals and replies that fail; response numbers grow, and only timeouts put a secondary behind, also when two secondaries share one counter; no attempt is begun after a signal; every secondary exits | either one secondary of `Multiple_Sender_MP` with 3 requests, 3 attempts and signals, as in the code, or two of `Multiple_Msg_Passing`, with one attempt per request and no signals: one makes the code's 3 requests, the other 2, which still puts both behind and keeps the state space small |
| `duplex_exchange` | one owner per block, answers in order and the stop message last and not lost, both stop | 3 blocks (one is live at a time, so whether a block is reused is a choice), 4 messages, rings of 1 |
| `duplex_log` | violation: what `prim.c` reports as got is not what it got | the same |
| `event_workers` | events in order, one at a time and before the exit events, at most one worker returns, work is done unless a message was lost or the flow stranded | 1 or 2 workers, 3 ports (one or two nobody polls), 4 normal events: enough for the flow to move between ports twice before the exit events |
| `event_return` | violation: two workers do not both return | 2 workers, 2 ports |
| `event_shared` | violation: port 0 has two users at once | the same |
| `single_lcore` | thirty programs from the start of `main`: who owns each mbuf, which are lost and which come back; what a failing call leads to; what is left behind at the end; how far headers are read; the order of what is drained | 3 mbufs, bursts up to 3 (1 in `vhost`), `PREFETCH_OFFSET` 2, so that a burst is shorter than, equal to and longer than the offset; one Ethernet and one event device or none, as every program uses device 0 only; frames one byte short of each header, options included, and just long enough; the lists the reorder programs have, and for `reorder_packet2` every list of four numbers out of eight that lie in its window of 4, in the next one, beyond, and behind |
| `acl_allow` | violation: a packet the rule of `ACL_DPDK_2` allows is freed | the same |
| `event_mbufs` | four programs: each mbuf has one owner unless two dequeues of one port overlap; an empty pool stays empty; every number sent over the ring arrives | 4 mbufs and `LIMIT` 3, so that the device refuses events before the pool is empty (in the code both are 1024, but the device's ports take credits in quanta of 32, so refusals come earlier than the threshold); 4 numbers instead of 10, 4 packets received: enough to fill the device and to overlap the two consumers |
| `event_reply` | violation: what the primary of `ipc_eventdev2` gets is not the reply | the same |

`CHECK_DEADLOCK FALSE` everywhere: each program ends, crashes or starves, and then nothing is enabled. Each
property is checked in the run where it has most to say, and not repeated in the other runs of its module.
In the pipeline, `NothingLost`, `EnqueueNeverShort`, `StrandedBounded` and the first part of
`ReturnsUnlessStarved` carry the condition `RoomyRings`: the run chooses the capacity in its initial states, and
with the small rings a short enqueue of the parser does lose packets.

### The starved pipeline

`transmit_packet` counts only what the NIC accepted (`transmit.c:71`), while the two lcores before it stop
after 25 packets received or parsed. If the NIC refuses enough packets, `transmit_packet` polls an empty
ring for ever and `main` never returns. No document of the repository says otherwise, so it is no finding;
`ReturnsUnlessStarved` states that this is a hang, and the only one.

### Findings

`full_duplex_2_rings/prim.c`: line 60 prints `*msg` for "got %d msg from Secondary" although the
answer is in `received`, and `msg` was freed by the other process. Line 50 likewise reads `*msg` after the enqueue
gave the block away; the secondary may have freed it. `OneOwner` holds nevertheless: only the two log lines
(and the secondary's, `sec.c:59`) use a block they do not own.

`eventdev/main.c`: one exit event is sent per worker (lines 134-145), but all events share flow 0 of an atomic
queue. The worker that takes an exit event never dequeues again, so it never releases it; the flow stays with
its port and `rte_eal_mp_wait_lcore` waits for ever whenever there are two workers or more. `OneWorkerReturns`
is the safety side of it. Moreover the workers' "unique ports" (line 105) begin with port 0, on which `main`
enqueues; a port's ring has a single producer.

`ACL_DPDK_2/main.c`: line 76 says "Allow TCP from 192.168.1.0/24 to any dst port 80", line 135 that allowed packets
go to `tx_burst`. The offsets of the rule's fields (lines 43-60) count from the IPv4 header; the data it is applied to
(lines 155-159) begins with the Ethernet header. `AllowedGoToTx` fails at the first packet the rule names. The
other rule, "Drop everything else" (line 96), fails for the same reason: what is kept is a frame that is no IPv4
packet and has the rule's bytes 14 places early. The passing run needs neither: `OneOwner` and `LostWasRefused` hold
whichever packets are kept.

`ipc_eventdev2/primary.c`: lines 71-76 wait for the reply and report it. The primary dequeues on the port the
secondary polls, and the only queue is linked to it, so it may take back its own event; it then reports 100 as the
reply and ends, and the secondary waits for ever. `ReplyIsReceived` says that what the primary reports is what the
secondary answers, 101.

### Behaviour worth knowing that is no finding

No run refutes a claim for these: nothing in the repository claims the contrary. The properties name them as the
exceptions they make, or state them.

- `packet_parsing/packet_process.c:159-168` frees a burst and then sends it: pool and card own the mbufs at
  once, and refused ones are freed twice. It also ignores whether the port was initialised (`main.c:35`).
- `mem_info/main.c:108-113` never frees what it receives. `2_source_graph/main.c:164`, `disable_node/main.c:130`
  and `ACL_DPDK_2/main.c:174` forget what the card refuses (`LostWasRefused`).
- `graph_dpdk/main.c:74-77` receives into a NULL array; `rte_ring_single` and the second ring of
  `packet_parseer_ring` are used without a test (`FailuresAreCaught`).
- `lcore_thread` returns from `main` while its workers run (`EndsTidy`).
- `build_acl` of `ACL_DPDK_2` loses the context when adding or building rules fails (lines 102, 110); the program
  ends then.
- `eventdev_packet_parsing`: two lcores dequeue from one port (`main.c:59`, `87`) and may both get an mbuf, and an
  event the device refuses is forgotten with its mbuf (`main.c:43`). The history variables `overlapped` and `refused`
  of `EventMbufs` record it; `OneOwner` is about the rest.
- `beginner_eventdev/main.c:68` does not test its link, and then waits for an event that cannot come (`Await`).
- `eventdev_packet_parsing/parse.c:71` takes four times the version nibble for the length of an IPv6 header, and
  lines 61-68 give `inet_ntop` a buffer of 16 bytes, in which few addresses fit; `packet_parseer_ring/parser.c:68-76`
  prints IPv6 addresses it has not formatted. `drop_handler` logs "ipv6 queue" for what it takes from the
  IPv4 queue's port, and releases it on another port.

## Fairness

- Pipeline: weak fairness of each lcore and of `main`. Each loop polls without blocking on a core of its own,
  so an enabled half is executed. `WF_vars(Rx)` also says that traffic keeps coming while the receiver polls:
  without traffic the program waits for ever, by design. Nothing is assumed about how many packets the NIC
  accepts.
- RCU: weak fairness of each reader and of the writer. They are pinned threads; `sleep` returns. No fairness
  of single actions, so a reader may be arbitrarily slow.
- MP: weak fairness of the secondaries only. `rte_mp_request_sync` waits with a time limit, so the wait ends
  without anybody's help; the primary, the channel threads and the signals owe nothing.
- Eventdev: weak fairness of `main`, each worker, and the service core for each port and for scheduling. Which
  port an unpinned flow goes to is left open.
- Duplex: weak fairness of each process; both busy-wait.
- `LcorePrograms`: weak fairness of `Main`, the main lcore, which never blocks except in a wait, and of `TxDone`
  for each mbuf: the card sends what it was given. Packets, signals and workers owe nothing, and a call that may
  fail is not required to succeed.
- `EventMbufs`: weak fairness of the primary, of a secondary that was started, and of the device's scheduler,
  which has a service core. `StartSecondary` is not fair: a secondary may never be started.

## Proofs

Every safety invariant, action property and refinement the passing runs check is a theorem too. `tlapm` checks every
leaf; TLC checked each inductive invariant on the bounds of its run before it was proved. Theorems and proofs are
in modules of their own that extend the model.

### Assumptions

Each is named, in the module that declares the constants, and TLC evaluates it in the module's runs.

| Module | Assumed |
|---|---|
| `RcuQsbr` | `UPDATES` is a natural number, `None` is none |
| `PacketPipeline` | burst size, limit and every capacity are positive, the number of arrivals is natural |
| `RingDuplex` | the number of rounds is natural, the rings' capacity positive, `NoBlock` is no block, `Garbage` no integer |
| `MpRequestReply` | each secondary's number of requests is natural, that of attempts positive; launches are sets of secondaries, and those that handle signals are secondaries |
| `EventDevWorkers` | numbers of events and ports are natural, a worker has a port, `NoPort` is none |
| `EventMbufs` | threshold and counts are positive, `NoEvent` is no event |
| `LcorePrograms` | the pool is finite, burst size and prefetch offset are positive, a list of arrivals is of natural numbers and not longer than the window |

Nothing is assumed about how many readers, secondaries, blocks or mbufs there are, but in the pool of
`LcorePrograms`, whose bursts are counted. The length of a list is no hypothesis of a proof: it is what makes the
reorder buffer, whose ready part has no limit in the model, the library's.

### RcuQsbr_proofs

The invariant is `TypeOK` and three groups of facts: `WriterInv` (what is allocated and freed is determined by the
writer's place, so nothing is freed twice and at most two versions live), `ReaderInv` (what a reader's place says of its
pointer, counter and registration), and `GraceInv`. The last is needed because `NoUseAfterFree` by
itself is not inductive: it says that a reader that holds the old version while the writer waits is still
among those the writer has to pass, with a counter below the awaited token. The token a reader has read and
not yet stored may be old, and storing an old token only delays the writer. From it: `TypeCorrect`,
`UseAfterFreeImpossible`, `DoubleFreeImpossible`, `LeakImpossible`, and `Refinement`, that each step is a
step of `SafeReclamation` or leaves its variables alone.

### SequenceFacts

What the queues of all these models need: cutting a sequence in two and putting the halves together again; when a
concatenation is increasing (each part is, and every element of one is below those behind it); `Append` and
`Tail` of an increasing sequence; and the set of the positions that hold an element of a set, whose size
stands for a count. Most proofs about queues cite these lemmas and reason about sets from there.

### PacketPipeline_proofs

`TypeCorrect` rests on cutting and appending bursts. For the counts,
`CInv` says where the counted packets are: `rx_packet` is what the first ring holds plus what the parser
counted; the second ring and the parser's burst hold no more than the parser counted; the receiver counted
less than `LIMIT` unless it is done. So no ring ever needs more than `LIMIT - 1 + BURST_SIZE` slots
(`NoShortEnqueue`), and since the transmitter sent at least `LIMIT` before `main` returns, less than one
burst is left over (`StrandedLessThanBurst`). With the code's numbers, 25, 32 and 1023: the free loop that
is commented out in `parser.c:110-114` is never needed.

For order and ownership, each of the seven actions is shown to do one of four things to the list of what was sent
and what is under way (`Moves`): add the newest packets behind it, take a piece out, hand a prefix of what is
under way to the wire, or nothing. `FlowInv` (the list increases, nothing freed is in it, and with roomy rings
nothing is missing) is then about one list and not five queues. `OneOwnerInOrder`, `NothingLostIfRoomy` and
`PipelineIsFifo` follow; the last maps the same moves onto the actions of `LossyFifo`.

### RingDuplex_proofs

`OneOwner` is not inductive: a step of one process keeps it only because of where the other stands. `Exchange`
says what each pair of places means, that is, who has the one block in circulation and what it holds. Both
processes poll on their own, yet there are few such pairs (nothing under way, a question in the first ring or just
taken from it, an answer being made or in the second ring, the stop message, a block to be freed); each step
leads from one of them to another (`LockStep`). Then
each question is followed by its answer (`AnswersComeInOrder`), and of the ways to own a block one applies
(`BlocksOwnedOnce`).

### MpRequestReply_proofs

For ownership of numbers: a number is given out by the primary, larger than all before, and travels once from a
reply under way, through the secondary's slot, to the list of what was accepted. `NumInv` says that the numbers
of each secondary increase along that way and that no two secondaries share one; `NumbersGrowAlways` is its part
about the last station. For timeouts: a message under way beyond the one request that is pending is the trace of
an attempt that timed out (`BacklogFromTimeouts`, which counts messages by the positions they are at). So a
secondary that never timed out has nothing under way between two requests, and what it accepts while it waits
answers the iteration it is in (`StaleNeedsTimeout`). `SignalEndsAttempts` needs no invariant: a secondary that is
signalled and outside an attempt stays both with every step.

### EventDevWorkers_proofs

Two invariants. `FlowHolds`: what is delivered to a port, held by its worker or on the way back as a release is
counted by the device, and only the port the flow is pinned to has any. A worker that returned keeps its event,
and so the flow; `OnlyOneReturns` is that argument, and it holds for any number of ports and workers: with two
workers or more the program cannot end. And the line of events: processed, in a port's ring, queued, on the way to
the scheduler, not sent. Each stage is in order and all of it is before the next, what one step of the other
sender on port 0 overwrites excepted (`WorkIsInOrder`).

### EventMbufs_proofs

An mbuf is a token. `Owned` counts its places (the pool, a process, the events of queues and ports from the head
of a ring that a dequeue has not moved yet) and says there is one; `Balance` is the lemma that a step which
removes a place and adds one keeps that. The hard steps are the two halves of a dequeue: between them the mbuf is
in the ring and in the caller's hands, which is right as long as the caller is alone at the port (`Alone`).
`OneOwner` claims no more (`overlapped`). `PoolStaysEmpty` needs the types only: while the
primary of `ipc_eventdev` stands at its allocation with an empty pool, every step leaves both as they are.

### LcorePrograms_proofs

The set-up of thirty programs. `ScriptIsFollowed` does not look at any script: a script is a list, `Move` lists the
ways from one position of it to the next (acquire, fail and exit, fail and skip, pass, release, stay), and every
action of the module is one of them (`NextMoves`) or leaves `main` where it is. By induction over such moves
(`FollowedKept`), for every list: what a step before the present one acquired or tested, and from which the program
would have exited, is there unless a later step released it (`Sure`); what one released and none got again is not
(`Gone`); a running lcore was launched and not waited for (`Launched`). Only then the scripts come in (`ScriptsFit`):
twenty are quiet, they neither dereference nor launch anything and hold neither context nor graph, which is
shown from the functions they call without writing them out; the other ten, and those whose loop needs a started
port, are written out as lists. `ProgramsEndTidy` and
`Caught` read off these lists what a program has when it ends, enters its loop or crashes. `port_init2` needs one
invariant of its own (`PortOrNone`), because it skips the set-up when there is no port.

The mbufs. `PlaceInv` says the pool, the card, the four arrays and streams and the refused are disjoint
and hold all mbufs between them, with the two programs that break this named. A step is a fact about eight sets
(`Placing`), of which it changes two or three. `StreamInv` says that a stream of a graph is empty or its node still
to run, so when a walk is over nothing is left in the graph.

The header code. `CheckedReads` (the parser that tests lengths) and `TrustedReads` (those that do not) are
proved for a frame of any length and any header-length nibble, where TLC takes the lengths at the boundaries;
`PrefetchInside` for bursts and offsets of any size. Trying to prove the first showed that `print_mbuf_data` was
written as a `CASE` with overlapping guards, whose value TLA+ leaves open; it is a chain of tests now, as in the
code.

The reorder demos (`DrainsInOrder`). `OrderInv` says that the window holds numbers from `min` on, that what has
left it (drained, and then ready) is in order and below `min`, and that nothing can be drained outside the loop.
Inserting and draining both move the window up to a gap and append what they pass, in order (`MovesOn`). `InOrder`
and `FirstGap` are defined by choice; that there is something to choose follows from `Ranks`: the elements of a
finite set have different numbers of elements below them, there are as many such numbers as elements, so each is
taken (`FS_Injection`). No induction is needed. What is assumed of the library is in `ReorderBuffer`: the ready
buffer is never full, the numbers do not wrap, and a drain takes all there is.

## Only model-checked

- Liveness (`ReturnsUnlessStarved`, `ProgramExits`, `SecondariesExit`, `BothStop`, `WorkIsDone`,
  `MainReturnsIfAlone`, `BuffersComeBack`, `EveryNumberArrives`): the prover does not handle fairness.
- The runs that expect a violation.

## Not modelled

- EAL start-up other than that it may fail; failures of `rte_malloc` and `rte_ring_create` in `rcu_dpdk`,
  `full_duplex_2_rings` and the multi-process programs, and of the device configuration of `eventdev/`.
  `rcu_dpdk/main.c:53` (an unchecked `rte_malloc`) is listed as a hazard without a property: the process ends at
  that line by a signal.
- The death of a primary: the shared memory of the others would be left as it was; no code reacts to it.
- Time: sleeps, periods and timeouts are freedom of the scheduler. The timer's callback (`timer_dpdk/main.c:14`)
  only prints and counts, in the lcore that polls it.
- More than one Ethernet device: the programs initialise every port there is, but use port 0.
- Contents of packets beyond the header fields and lengths that decide something, the wording of what is
  printed, and counters that are only printed.
- The meter's rates and colours (`meter_dpdk/main.c:102-155`), which are parameters of the card.
- The nodes of `graph_dpdk/` behind the source, to which nothing is ever enqueued, and the body of the
  fragmentation loop behind `continue` (`fragmentation/main.c:65`): neither can be reached.
- The wrap-around of sequence numbers in the reorder buffer: the programs' lists are constants far from it.
- The verdict of `ACL_DPDK` on the packet it makes: it is printed and nothing depends on it.
- Calls that fail on a configuration the code itself chose: `ipc_eventdev2/primary.c:14-20` leaves `nb_events_limit` 0
  and asks for a `new_event_threshold` of 1024 (line 37), and `EventMbufs` is about a device that took this;
  `vhost/tx.c:45` does not test its allocation, which a pool of 512 mbufs, just made, does not refuse.
- The notes, which have no behaviour; `reorder.txt` is quoted by `DrainedInOrder`.
