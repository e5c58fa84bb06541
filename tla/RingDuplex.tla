------------------------------ MODULE RingDuplex ------------------------------
(***************************************************************************)
(* full_duplex_2_rings/: a primary process sends ROUNDS heap blocks        *)
(* through ring1, one at a time, and waits for the answer in ring2; the    *)
(* secondary frees each block it receives and answers with a new one.  A   *)
(* block holding -1 ends the secondary.                                    *)
(*                                                                         *)
(* The heap is shared memory: rte_malloc returns any block that is not     *)
(* allocated, rte_free makes its contents unspecified (Garbage).  Each     *)
(* access of a block is a step of its own, so that the other process may   *)
(* come between.  EAL start-up and the success of rte_ring_create and      *)
(* rte_malloc are taken for granted.                                       *)
(*                                                                         *)
(* A definition commented "Fault" is a bug this code could have had; it is *)
(* part of no behaviour, and shows that a property can tell it apart.      *)
(***************************************************************************)
EXTENDS Integers, Sequences, Functions

CONSTANTS
  Blocks,     \* the heap
  ROUNDS,     \* messages the primary sends (10)
  CAPACITY,   \* usable slots of a ring (RING_SIZE - 1 = 1023)
  NoBlock,    \* a pointer that is not set
  Garbage     \* the contents of a block that was never written, or was freed

ASSUME DuplexAssumption ==
  /\ ROUNDS \in Nat
  /\ CAPACITY \in Nat \ {0}
  /\ NoBlock \notin Blocks
  /\ Garbage \notin Int

Stop == -1

VARIABLES
  allocated, contents,                \* the heap
  created, ring1, ring2,              \* the rings, and how many of them exist
  primPc, i, msg, received,           \* the primary
  secPc, val, res, reply,             \* the secondary
  printed,                            \* what each line about a message last printed
  answers                             \* history: contents of the blocks the primary received

heapVars == <<allocated, contents>>
rings == <<ring1, ring2>>
primVars == <<primPc, i, msg, received, answers>>
secVars == <<secPc, val, res, reply>>
vars == <<heapVars, created, rings, primVars, secVars, printed>>

Init ==
  /\ allocated = {} /\ contents = [b \in Blocks |-> Garbage]
  /\ created = 0 /\ ring1 = <<>> /\ ring2 = <<>>
  /\ primPc = "create" /\ i = 0 /\ msg = NoBlock /\ received = NoBlock
  /\ answers = <<>>
  /\ secPc = "lookup_ring1" /\ val = NoBlock /\ res = 0 /\ reply = NoBlock
  /\ printed = [sent |-> Garbage, got |-> Garbage, answered |-> Garbage]

\* rte_malloc, followed by the store of v into the block.
Malloc(b, v) ==
  /\ b \in Blocks \ allocated
  /\ allocated' = allocated \cup {b}
  /\ contents' = [contents EXCEPT ![b] = v]

Free(b) ==
  /\ allocated' = allocated \ {b}
  /\ contents' = [contents EXCEPT ![b] = Garbage]

PrimGoes(from, to) == primPc = from /\ primPc' = to
SecGoes(from, to) == secPc = from /\ secPc' = to

Prints(line, b) == printed' = [printed EXCEPT ![line] = contents[b]]

-------------------------------------------------------------------------------
(* The primary *)

\* rte_ring_create, twice.
CreateRing ==
  /\ created < 2
  /\ PrimGoes("create", IF created = 1 THEN "loop" ELSE "create")
  /\ created' = created + 1
  /\ UNCHANGED <<heapVars, rings, i, msg, received, answers, secVars, printed>>

\* Fault: one message too many.
MakeOneMore ==
  /\ i <= ROUNDS
  /\ PrimGoes("loop", "send")
  /\ \E b \in Blocks : Malloc(b, i) /\ msg' = b
  /\ UNCHANGED <<created, rings, i, received, answers, secVars, printed>>

MakeMessage ==
  /\ i < ROUNDS
  /\ PrimGoes("loop", "send")
  /\ \E b \in Blocks : Malloc(b, i) /\ msg' = b
  /\ UNCHANGED <<created, rings, i, received, answers, secVars, printed>>

\* The enqueue is tried until there is room.
SendMessage ==
  /\ Len(ring1) < CAPACITY
  /\ PrimGoes("send", "sent")
  /\ ring1' = Append(ring1, msg)
  /\ UNCHANGED <<heapVars, created, ring2, i, msg, received, answers, secVars, printed>>

PrintSent ==
  /\ PrimGoes("sent", "await")
  /\ Prints("sent", msg)
  /\ UNCHANGED <<heapVars, created, rings, i, msg, received, answers, secVars>>

\* The dequeue is tried until there is a reply.
AwaitReply ==
  /\ ring2 # <<>>
  /\ PrimGoes("await", "got")
  /\ received' = Head(ring2)
  /\ ring2' = Tail(ring2)
  /\ answers' = Append(answers, contents[Head(ring2)])
  /\ UNCHANGED <<heapVars, created, ring1, i, msg, secVars, printed>>

\* "got %d msg from Secondary": the line prints *msg.
PrintGot ==
  /\ PrimGoes("got", "free")
  /\ Prints("got", msg)
  /\ UNCHANGED <<heapVars, created, rings, i, msg, received, answers, secVars>>

\* Fault: the block that was sent is freed instead of the one received.
FreeMsg ==
  /\ PrimGoes("free", "loop")
  /\ Free(msg)
  /\ received' = NoBlock
  /\ i' = i + 1
  /\ UNCHANGED <<created, rings, msg, answers, secVars, printed>>

FreeReceived ==
  /\ PrimGoes("free", "loop")
  /\ Free(received)
  /\ received' = NoBlock
  /\ i' = i + 1
  /\ UNCHANGED <<created, rings, msg, answers, secVars, printed>>

\* Fault: the stop message is forgotten.
JustStop ==
  /\ i = ROUNDS
  /\ PrimGoes("loop", "stopped")
  /\ UNCHANGED <<heapVars, created, rings, i, msg, received, answers, secVars, printed>>

\* The stop message: the result of this enqueue is not looked at.
SendStop ==
  /\ i = ROUNDS
  /\ PrimGoes("loop", "stopped")
  /\ \E b \in Blocks :
       /\ Malloc(b, Stop)
       /\ ring1' = IF Len(ring1) < CAPACITY THEN Append(ring1, b) ELSE ring1
  /\ UNCHANGED <<created, ring2, i, msg, received, answers, secVars, printed>>

Primary ==
  \/ CreateRing \/ MakeMessage \/ SendMessage \/ PrintSent \/ AwaitReply
  \/ PrintGot \/ FreeReceived \/ SendStop

-------------------------------------------------------------------------------
(* The secondary *)

\* It looks each ring up until it is there.
LookupRing1 ==
  /\ created >= 1
  /\ SecGoes("lookup_ring1", "lookup_ring2")
  /\ UNCHANGED <<heapVars, created, rings, primVars, val, res, reply, printed>>

LookupRing2 ==
  /\ created = 2
  /\ SecGoes("lookup_ring2", "receive")
  /\ UNCHANGED <<heapVars, created, rings, primVars, val, res, reply, printed>>

TakeMessage ==
  /\ ring1 # <<>>
  /\ SecGoes("receive", "test")
  /\ val' = Head(ring1)
  /\ ring1' = Tail(ring1)
  /\ UNCHANGED <<heapVars, created, ring2, primVars, res, reply, printed>>

StopOnSentinel ==
  /\ SecGoes("test", "stopped")
  /\ contents[val] = Stop
  /\ Free(val)
  /\ val' = NoBlock
  /\ UNCHANGED <<created, rings, primVars, res, reply, printed>>

\* Fault: the message is freed before the result is computed from it.
FreeThenCompute ==
  /\ secPc = "test"
  /\ contents[val] # Stop
  /\ secPc' = "answer"
  /\ Free(val)
  /\ val' = NoBlock
  /\ res' = contents'[val]
  /\ UNCHANGED <<created, rings, primVars, reply, printed>>

\* The result is computed, then the message is freed, ...
Consume ==
  /\ SecGoes("test", "answer")
  /\ contents[val] # Stop
  /\ res' = contents[val] * 10
  /\ Free(val)
  /\ val' = NoBlock
  /\ UNCHANGED <<created, rings, primVars, reply, printed>>

\* ... and its answer gets a block, maybe the same one.
MakeReply ==
  /\ SecGoes("answer", "reply")
  /\ \E b \in Blocks : Malloc(b, res) /\ reply' = b
  /\ UNCHANGED <<created, rings, primVars, val, res, printed>>

SendReply ==
  /\ Len(ring2) < CAPACITY
  /\ SecGoes("reply", "replied")
  /\ ring2' = Append(ring2, reply)
  /\ UNCHANGED <<heapVars, created, ring1, primVars, val, res, reply, printed>>

PrintAnswered ==
  /\ SecGoes("replied", "receive")
  /\ Prints("answered", reply)
  /\ UNCHANGED <<heapVars, created, rings, primVars, val, res, reply>>

Secondary ==
  \/ LookupRing1 \/ LookupRing2 \/ TakeMessage \/ StopOnSentinel
  \/ Consume \/ MakeReply \/ SendReply \/ PrintAnswered

Next == Primary \/ Secondary

Spec == Init /\ [][Next]_vars

\* Two processes that busy-wait, each on a core of its own.
FairSpec == Spec /\ WF_vars(Primary) /\ WF_vars(Secondary)

-------------------------------------------------------------------------------
(* Properties *)

Values == Int \cup {Garbage}

TypeOK ==
  /\ allocated \in SUBSET Blocks
  /\ contents \in [Blocks -> Values]
  /\ created \in 0..2
  /\ ring1 \in Seq(Blocks) /\ Len(ring1) <= CAPACITY
  /\ ring2 \in Seq(Blocks) /\ Len(ring2) <= CAPACITY
  /\ primPc \in {"create", "loop", "send", "sent", "await", "got", "free", "stopped"}
  /\ i \in 0..ROUNDS
  /\ {msg, received, val, reply} \subseteq Blocks \cup {NoBlock}
  /\ secPc \in {"lookup_ring1", "lookup_ring2", "receive", "test", "answer", "reply",
                "replied", "stopped"}
  /\ res \in Values
  /\ printed \in [{"sent", "got", "answered"} -> Values]
  /\ answers \in Seq(Values)

Holds(condition, block) == IF condition THEN <<block>> ELSE <<>>

\* The places that own a block, from the primary's hands round to the primary's.
Owners ==
  Holds(primPc = "send", msg) \o ring1
    \o Holds(secPc = "test", val) \o Holds(secPc = "reply", reply)
    \o ring2 \o Holds(primPc \in {"got", "free"}, received)

\* Every allocated block is owned by exactly one place, and no place owns a block
\* that was freed: no leak, no double free, no use after free by an owner, at any
\* point of the exchange and at the end (prim.c:61, sec.c:46, sec.c:54).
OneOwner ==
  /\ Range(Owners) = allocated
  /\ IsInjective(Owners)

\* The k-th block the primary receives holds ten times the k-th message, although
\* blocks are reused, and no data is ever taken for the stop message (sec.c:45-56).
\* And the unchecked enqueue of the stop message (prim.c:67) succeeds: whenever the
\* primary has stopped, the secondary has, or will find the message.
AnswersInOrder ==
  /\ \A k \in 1..Len(answers) : answers[k] = 10 * (k - 1)
  /\ primPc = "stopped" =>
       \/ secPc = "stopped"
       \/ \E b \in Range(ring1) \cup (IF secPc = "test" THEN {val} ELSE {}) : contents[b] = Stop

\* Both processes end.
BothStop == <>(primPc = "stopped" /\ secPc = "stopped")

\* In every round the primary's two lines report the message it sent (prim.c:50) and
\* the answer it got (prim.c:60).
LogIsTrue ==
  primPc = "free" => printed.sent = i /\ printed.got = contents[received]
===============================================================================
