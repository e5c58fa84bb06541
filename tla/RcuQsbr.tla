------------------------------- MODULE RcuQsbr -------------------------------
(***************************************************************************)
(* rcu_dpdk/main.c: a writer on the main lcore replaces the version behind *)
(* `gdata` UPDATES times and frees the old one after                       *)
(* rte_rcu_qsbr_synchronize; readers on worker lcores dereference `gdata`  *)
(* and report quiescent states.  The code launches one reader; the model   *)
(* takes any set of them.                                                  *)
(*                                                                         *)
(* The QSBR library is not under src/ and is modelled by what the calls    *)
(* do: a global token, a counter per thread (0 = offline) and the set of   *)
(* registered threads.  Going online and reporting a quiescent state read  *)
(* the token and then store it: two steps, between which the writer may    *)
(* start a grace period.  A version is named by its value.                 *)
(*                                                                         *)
(* A definition commented "Fault" is a bug this code could have had; it is *)
(* part of no behaviour, and shows that a property can tell it apart.      *)
(***************************************************************************)
EXTENDS Naturals, FiniteSets

CONSTANTS
  Readers,   \* lcores that run reader()
  UPDATES,   \* iterations of the writer (5)
  None       \* the reader's local pointer d when it is not in use

ASSUME RcuAssumption ==
  /\ UPDATES \in Nat
  /\ None \notin Nat

VARIABLES
  gdata,        \* the version the RCU-protected pointer refers to
  allocated,    \* versions rte_malloc has returned
  freed,        \* versions given to rte_free
  stop,
  token,        \* QSBR: the global token
  cnt,          \* QSBR: last token each thread acknowledged, 0 when offline
  registered,   \* QSBR: registered threads
  qsbrFreed,
  readerPc, d, seenToken,
  writerPc, i, old, waitToken, pending

qsbrVars   == <<token, cnt, registered, qsbrFreed>>
heapVars   == <<gdata, allocated, freed>>
readerVars == <<readerPc, d, seenToken>>
writerVars == <<writerPc, i, old, waitToken, pending>>
vars == <<heapVars, stop, qsbrVars, readerVars, writerVars>>

\* The state after main has initialised EAL, QSBR and gdata and launched the readers.
Init ==
  /\ gdata = 0 /\ allocated = {0} /\ freed = {}
  /\ stop = FALSE
  /\ token = 1
  /\ cnt = [r \in Readers |-> 0]
  /\ registered = {}
  /\ qsbrFreed = FALSE
  /\ readerPc = [r \in Readers |-> "launched"]
  /\ d = [r \in Readers |-> None]
  /\ seenToken = [r \in Readers |-> 0]
  /\ writerPc = "allocate"
  /\ i = 0 /\ old = 0 /\ waitToken = 0 /\ pending = {}

ReaderGoes(r, from, to) ==
  /\ readerPc[r] = from
  /\ readerPc' = [readerPc EXCEPT ![r] = to]

WriterGoes(from, to) ==
  /\ writerPc = from
  /\ writerPc' = to

-------------------------------------------------------------------------------
(* reader *)

Register(r) ==
  /\ ReaderGoes(r, "launched", "registered")
  /\ registered' = registered \cup {r}
  /\ UNCHANGED <<heapVars, stop, token, cnt, qsbrFreed, d, seenToken, writerVars>>

\* rte_rcu_qsbr_thread_online: read the token ...
OnlineRead(r) ==
  /\ ReaderGoes(r, "registered", "onlining")
  /\ seenToken' = [seenToken EXCEPT ![r] = token]
  /\ UNCHANGED <<heapVars, stop, qsbrVars, d, writerVars>>

\* ... and store it in the thread's counter.
OnlineStore(r) ==
  /\ ReaderGoes(r, "onlining", "loop")
  /\ cnt' = [cnt EXCEPT ![r] = seenToken[r]]
  /\ UNCHANGED <<heapVars, stop, token, registered, qsbrFreed, d, seenToken, writerVars>>

\* while (!stop), then rte_rcu_qsbr_lock, which has no effect in a release build.
TestStop(r) ==
  /\ ReaderGoes(r, "loop", IF stop THEN "leaving" ELSE "locked")
  /\ UNCHANGED <<heapVars, stop, qsbrVars, d, seenToken, writerVars>>

Load(r) ==
  /\ ReaderGoes(r, "locked", "using")
  /\ d' = [d EXCEPT ![r] = gdata]
  /\ UNCHANGED <<heapVars, stop, qsbrVars, seenToken, writerVars>>

\* Fault: the pointer is kept and used again in the next iteration.
UseAndKeep(r) ==
  /\ ReaderGoes(r, "using", "unlocked")
  /\ UNCHANGED <<heapVars, stop, qsbrVars, d, seenToken, writerVars>>

\* The dereference d->value, after which d is dead.
Use(r) ==
  /\ ReaderGoes(r, "using", "unlocked")
  /\ d' = [d EXCEPT ![r] = None]
  /\ UNCHANGED <<heapVars, stop, qsbrVars, seenToken, writerVars>>

\* rte_rcu_qsbr_quiescent: read the token ...
QuiescentRead(r) ==
  /\ ReaderGoes(r, "unlocked", "reporting")
  /\ seenToken' = [seenToken EXCEPT ![r] = token]
  /\ UNCHANGED <<heapVars, stop, qsbrVars, d, writerVars>>

\* Fault: the reader forgets to report.
NoReport(r) ==
  /\ ReaderGoes(r, "reporting", "loop")
  /\ UNCHANGED <<heapVars, stop, qsbrVars, d, seenToken, writerVars>>

\* ... and acknowledge it.
QuiescentStore(r) ==
  /\ ReaderGoes(r, "reporting", "loop")
  /\ cnt' = [cnt EXCEPT ![r] = seenToken[r]]
  /\ UNCHANGED <<heapVars, stop, token, registered, qsbrFreed, d, seenToken, writerVars>>

Offline(r) ==
  /\ ReaderGoes(r, "leaving", "offline")
  /\ cnt' = [cnt EXCEPT ![r] = 0]
  /\ UNCHANGED <<heapVars, stop, token, registered, qsbrFreed, d, seenToken, writerVars>>

Unregister(r) ==
  /\ ReaderGoes(r, "offline", "returned")
  /\ registered' = registered \ {r}
  /\ UNCHANGED <<heapVars, stop, token, cnt, qsbrFreed, d, seenToken, writerVars>>

Reader(r) ==
  \/ Register(r) \/ OnlineRead(r) \/ OnlineStore(r)
  \/ TestStop(r) \/ Load(r) \/ Use(r)
  \/ QuiescentRead(r) \/ QuiescentStore(r)
  \/ Offline(r) \/ Unregister(r)

-------------------------------------------------------------------------------
(* writer and the rest of main *)

\* Fault: one iteration too many.
AllocateOnceMore ==
  /\ i <= UPDATES
  /\ WriterGoes("allocate", "swap")
  /\ allocated' = allocated \cup {i + 1}
  /\ UNCHANGED <<gdata, freed, stop, qsbrVars, readerVars, i, old, waitToken, pending>>

\* The loop test and the allocation of the next version; after the last
\* iteration, stop is set.
Allocate ==
  /\ i < UPDATES
  /\ WriterGoes("allocate", "swap")
  /\ allocated' = allocated \cup {i + 1}
  /\ UNCHANGED <<gdata, freed, stop, qsbrVars, readerVars, i, old, waitToken, pending>>

SetStop ==
  /\ i = UPDATES
  /\ WriterGoes("allocate", "join")
  /\ stop' = TRUE
  /\ UNCHANGED <<heapVars, qsbrVars, readerVars, i, old, waitToken, pending>>

\* Fault: the call of rte_rcu_qsbr_synchronize is missing.
SwapWithoutGrace ==
  /\ WriterGoes("swap", "wait")
  /\ old' = gdata
  /\ gdata' = i + 1
  /\ UNCHANGED <<allocated, freed, stop, qsbrVars, readerVars, i, waitToken, pending>>

Swap ==
  /\ WriterGoes("swap", "start")
  /\ old' = gdata
  /\ gdata' = i + 1
  /\ UNCHANGED <<allocated, freed, stop, qsbrVars, readerVars, i, waitToken, pending>>

\* rte_rcu_qsbr_synchronize begins: take a new token ...
StartGrace ==
  /\ WriterGoes("start", "scan")
  /\ token' = token + 1
  /\ waitToken' = token + 1
  /\ UNCHANGED <<heapVars, stop, cnt, registered, qsbrFreed, readerVars, i, old, pending>>

\* ... read the bitmap of registered threads ...
Scan ==
  /\ WriterGoes("scan", "wait")
  /\ pending' = registered
  /\ UNCHANGED <<heapVars, stop, qsbrVars, readerVars, i, old, waitToken>>

\* ... and pass a thread that is offline, has acknowledged the token, or has
\* unregistered (the bitmap is read again while waiting).
Quiesced(r) == cnt[r] = 0 \/ cnt[r] >= waitToken \/ r \notin registered

Pass(r) ==
  /\ writerPc = "wait"
  /\ r \in pending
  /\ Quiesced(r)
  /\ pending' = pending \ {r}
  /\ UNCHANGED <<heapVars, stop, qsbrVars, readerVars, writerPc, i, old, waitToken>>

\* Faults: the new version is freed; nothing is.
FreeCurrent ==
  /\ pending = {}
  /\ WriterGoes("wait", "allocate")
  /\ freed' = freed \cup {gdata}
  /\ i' = i + 1
  /\ UNCHANGED <<gdata, allocated, stop, qsbrVars, readerVars, old, waitToken, pending>>

FreeNothing ==
  /\ pending = {}
  /\ WriterGoes("wait", "allocate")
  /\ i' = i + 1
  /\ UNCHANGED <<heapVars, stop, qsbrVars, readerVars, old, waitToken, pending>>

FreeOld ==
  /\ pending = {}
  /\ WriterGoes("wait", "allocate")
  /\ freed' = freed \cup {old}
  /\ i' = i + 1
  /\ UNCHANGED <<gdata, allocated, stop, qsbrVars, readerVars, old, waitToken, pending>>

\* rte_eal_mp_wait_lcore
Join ==
  /\ \A r \in Readers : readerPc[r] = "returned"
  /\ WriterGoes("join", "cleanup")
  /\ UNCHANGED <<heapVars, stop, qsbrVars, readerVars, i, old, waitToken, pending>>

Cleanup ==
  /\ WriterGoes("cleanup", "exited")
  /\ freed' = freed \cup {gdata}
  /\ qsbrFreed' = TRUE
  /\ UNCHANGED <<gdata, allocated, stop, token, cnt, registered, readerVars, i, old, waitToken, pending>>

Writer ==
  \/ Allocate \/ Swap \/ StartGrace \/ Scan
  \/ \E r \in Readers : Pass(r)
  \/ FreeOld \/ SetStop \/ Join \/ Cleanup

Next == Writer \/ \E r \in Readers : Reader(r)

Spec == Init /\ [][Next]_vars

\* Each lcore is a thread pinned to a core of its own; sleep() returns.
Fairness == WF_vars(Writer) /\ \A r \in Readers : WF_vars(Reader(r))
FairSpec == Spec /\ Fairness

-------------------------------------------------------------------------------
(* Properties *)

Versions == 0..UPDATES

ReaderStates == {"launched", "registered", "onlining", "loop", "locked", "using",
                 "unlocked", "reporting", "leaving", "offline", "returned"}
WriterStates == {"allocate", "swap", "start", "scan", "wait", "join", "cleanup", "exited"}

TypeOK ==
  /\ gdata \in Versions
  /\ allocated \in SUBSET Versions
  /\ freed \in SUBSET Versions
  /\ stop \in BOOLEAN
  /\ token \in Nat
  /\ cnt \in [Readers -> Nat]
  /\ registered \in SUBSET Readers
  /\ qsbrFreed \in BOOLEAN
  /\ readerPc \in [Readers -> ReaderStates]
  /\ d \in [Readers -> Versions \cup {None}]
  /\ seenToken \in [Readers -> Nat]
  /\ writerPc \in WriterStates
  /\ i \in Versions
  /\ old \in Versions
  /\ waitToken \in Nat
  /\ pending \in SUBSET Readers

\* No reader dereferences a version after rte_free (main.c:31-32 against 62-65),
\* nor touches the QSBR variable after main freed it (main.c:96): whatever the
\* point at which it registered, went online or read the token.
NoUseAfterFree ==
  \A r \in Readers :
    /\ d[r] # None => d[r] \in allocated \ freed
    /\ qsbrFreed => readerPc[r] = "returned"

\* No version is given to rte_free twice: neither the loop (main.c:65) nor the
\* final rte_free(gdata) (main.c:95) hits a version freed before.
NoDoubleFree ==
  /\ writerPc \in {"start", "scan", "wait"} => old \notin freed
  /\ writerPc # "exited" => gdata \notin freed

\* At most the current version and one retired one are allocated at a time, and
\* nothing is left at exit.
NoLeak ==
  /\ Cardinality(allocated \ freed) <= 2
  /\ writerPc = "exited" => freed = allocated

\* Every grace period ends (main.c:62 returns), and so does the program.
ProgramExits == <>(writerPc = "exited")

\* The program is a correct implementation of a reclaimed shared cell.
Cell == INSTANCE SafeReclamation WITH
          current <- gdata, borrowed <- d, reclaimed <- freed, closed <- qsbrFreed
ImplementsCell == Cell!Spec
===============================================================================
