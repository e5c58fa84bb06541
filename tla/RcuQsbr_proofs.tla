---------------------------- MODULE RcuQsbr_proofs ----------------------------
(***************************************************************************)
(* For any number of readers and of updates: rcu_dpdk/main.c never touches *)
(* freed memory, frees nothing twice, leaks nothing, and implements the    *)
(* reclaimed cell of SafeReclamation.                                      *)
(*                                                                         *)
(* The argument: the writer's location determines which versions exist     *)
(* (WriterInv); a reader holds a version only between Load and Use, and    *)
(* then it is registered, online, and the version is the current one or    *)
(* the one the writer is waiting for (ReaderInv); in the latter case its   *)
(* counter is behind the token, so the writer cannot have passed it        *)
(* (GraceInv).                                                             *)
(***************************************************************************)
EXTENDS RcuQsbr, FiniteSetTheorems, TLAPS

InGrace == writerPc \in {"start", "scan", "wait"}

\* Which versions are current, allocated and freed at each location of main.
WriterInv ==
  /\ token > 0
  /\ writerPc \in {"allocate", "swap", "join", "cleanup", "exited"} => gdata = i
  /\ InGrace => gdata = i + 1 /\ old = i
  /\ writerPc \in {"swap", "start", "scan", "wait"} => i < UPDATES /\ allocated = 0..(i + 1)
  /\ writerPc \in {"allocate", "join", "cleanup", "exited"} => allocated = 0..i
  /\ writerPc # "exited" => freed = 0..(i - 1)
  /\ writerPc = "exited" => freed = 0..i
  /\ writerPc \in {"scan", "wait"} => waitToken = token
  /\ qsbrFreed <=> writerPc = "exited"
  /\ writerPc \in {"cleanup", "exited"} => \A r \in Readers : readerPc[r] = "returned"

Offlines == {"launched", "registered", "onlining", "offline", "returned"}

\* What a reader's location says of its pointer, counter and registration.
ReaderInv ==
  \A r \in Readers :
    /\ d[r] # None <=> readerPc[r] = "using"
    /\ d[r] # None => d[r] = gdata \/ (InGrace /\ d[r] = old)
    /\ r \in registered <=> readerPc[r] \notin {"launched", "returned"}
    /\ cnt[r] = 0 <=> readerPc[r] \in Offlines
    /\ readerPc[r] \in {"onlining", "reporting"} => seenToken[r] > 0
    /\ cnt[r] <= token /\ seenToken[r] <= token

\* A reader that still holds the version being retired holds up the writer.
GraceInv ==
  \A r \in Readers :
    /\ writerPc \in {"scan", "wait"} /\ d[r] = old => cnt[r] < token
    /\ writerPc = "wait" /\ d[r] = old => r \in pending

IInv == TypeOK /\ WriterInv /\ ReaderInv /\ GraceInv

(* Every action keeps the type invariant. *)
LEMMA TypeInductive == TypeOK /\ WriterInv /\ [Next]_vars => TypeOK'
<1> SUFFICES ASSUME TypeOK, WriterInv, [Next]_vars PROVE TypeOK'
  OBVIOUS
<1> USE RcuAssumption DEF TypeOK, Versions, ReaderStates, WriterStates, ReaderGoes, WriterGoes
<1>1. CASE UNCHANGED vars
  BY <1>1 DEF vars, heapVars, qsbrVars, readerVars, writerVars
<1>2. CASE Writer
  <2>1. CASE Allocate
    BY <2>1 DEF Allocate, qsbrVars, readerVars
  <2>2. CASE Swap
    BY <2>2 DEF Swap, qsbrVars, readerVars, WriterInv
  <2>3. CASE StartGrace
    BY <2>3 DEF StartGrace, heapVars, readerVars
  <2>4. CASE Scan
    BY <2>4 DEF Scan, heapVars, qsbrVars, readerVars
  <2>5. ASSUME NEW r \in Readers, Pass(r) PROVE TypeOK'
    BY <2>5 DEF Pass, heapVars, qsbrVars, readerVars
  <2>6. CASE FreeOld
    BY <2>6 DEF FreeOld, qsbrVars, readerVars, WriterInv, InGrace
  <2>7. CASE SetStop
    BY <2>7 DEF SetStop, heapVars, qsbrVars, readerVars
  <2>8. CASE Join
    BY <2>8 DEF Join, heapVars, qsbrVars, readerVars
  <2>9. CASE Cleanup
    BY <2>9 DEF Cleanup, readerVars
  <2> QED
    BY <1>2, <2>1, <2>2, <2>3, <2>4, <2>5, <2>6, <2>7, <2>8, <2>9 DEF Writer
<1>3. ASSUME NEW r \in Readers, Reader(r) PROVE TypeOK'
  <2>1. CASE Register(r)
    BY <2>1 DEF Register, heapVars, qsbrVars, writerVars
  <2>2. CASE OnlineRead(r)
    BY <2>2 DEF OnlineRead, heapVars, qsbrVars, writerVars
  <2>3. CASE OnlineStore(r)
    BY <2>3 DEF OnlineStore, heapVars, qsbrVars, writerVars
  <2>4. CASE TestStop(r)
    BY <2>4 DEF TestStop, heapVars, qsbrVars, writerVars
  <2>5. CASE Load(r)
    BY <2>5 DEF Load, heapVars, qsbrVars, writerVars
  <2>6. CASE Use(r)
    BY <2>6 DEF Use, heapVars, qsbrVars, writerVars
  <2>7. CASE QuiescentRead(r)
    BY <2>7 DEF QuiescentRead, heapVars, qsbrVars, writerVars
  <2>8. CASE QuiescentStore(r)
    BY <2>8 DEF QuiescentStore, heapVars, qsbrVars, writerVars
  <2>9. CASE Offline(r)
    BY <2>9 DEF Offline, heapVars, qsbrVars, writerVars
  <2>10. CASE Unregister(r)
    BY <2>10 DEF Unregister, heapVars, qsbrVars, writerVars
  <2> QED
    BY <1>3, <2>1, <2>2, <2>3, <2>4, <2>5, <2>6, <2>7, <2>8, <2>9, <2>10 DEF Reader
<1> QED
  BY <1>1, <1>2, <1>3 DEF Next

(* What the readers leave alone. *)
LEMMA ReaderLeavesWriter ==
  ASSUME NEW r \in Readers, Reader(r)
  PROVE  /\ UNCHANGED <<heapVars, stop, token, qsbrFreed, writerVars>>
         /\ readerPc[r] # "returned"
  BY DEF Reader, Register, OnlineRead, OnlineStore, TestStop, Load, Use, QuiescentRead,
         QuiescentStore, Offline, Unregister, ReaderGoes, qsbrVars

(* What main and the writer leave alone. *)
LEMMA WriterLeavesReaders ==
  ASSUME Writer
  PROVE  UNCHANGED <<cnt, registered, readerVars>>
  BY DEF Writer, Allocate, Swap, StartGrace, Scan, Pass, FreeOld, SetStop, Join, Cleanup, qsbrVars

(* The writer's location keeps determining the versions. *)
LEMMA WriterInductive == TypeOK /\ WriterInv /\ [Next]_vars => WriterInv'
<1> SUFFICES ASSUME TypeOK, WriterInv, [Next]_vars PROVE WriterInv'
  OBVIOUS
<1> USE DEF WriterInv, InGrace
<1>1. CASE UNCHANGED vars
  BY <1>1 DEF vars, heapVars, qsbrVars, readerVars, writerVars
<1>2. CASE Writer
  <2> USE DEF WriterGoes, heapVars, qsbrVars, readerVars
  <2>1. i \in Nat /\ i <= UPDATES /\ token \in Nat
    BY RcuAssumption DEF TypeOK, Versions
  <2>2. CASE Allocate
    BY <2>1, <2>2 DEF Allocate
  <2>3. CASE Swap
    BY <2>1, <2>3 DEF Swap
  <2>4. CASE StartGrace \/ Scan
    BY <2>1, <2>4 DEF StartGrace, Scan
  <2>5. ASSUME NEW r \in Readers, Pass(r) PROVE WriterInv'
    BY <2>5 DEF Pass
  <2>6. CASE FreeOld
    BY <2>1, <2>6 DEF FreeOld
  <2>7. CASE SetStop \/ Join
    BY <2>7 DEF SetStop, Join
  <2>8. CASE Cleanup
    BY <2>1, <2>8 DEF Cleanup
  <2> QED
    BY <1>2, <2>2, <2>3, <2>4, <2>5, <2>6, <2>7, <2>8 DEF Writer
<1>3. ASSUME NEW r \in Readers, Reader(r) PROVE WriterInv'
  <2>1. writerPc \notin {"cleanup", "exited"}
    BY <1>3, ReaderLeavesWriter
  <2> QED
    BY <1>3, <2>1, ReaderLeavesWriter DEF heapVars, writerVars
<1> QED
  BY <1>1, <1>2, <1>3 DEF Next

(* A reader's location keeps determining its pointer and counter. *)
LEMMA ReaderInductive == TypeOK /\ WriterInv /\ ReaderInv /\ GraceInv /\ [Next]_vars => ReaderInv'
<1> SUFFICES ASSUME TypeOK, WriterInv, ReaderInv, GraceInv, [Next]_vars PROVE ReaderInv'
  OBVIOUS
<1> USE DEF ReaderInv, InGrace
<1>1. CASE UNCHANGED vars
  BY <1>1 DEF vars, heapVars, qsbrVars, readerVars, writerVars
<1>2. CASE Writer
  <2>1. UNCHANGED <<cnt, registered, readerVars>>
    BY <1>2, WriterLeavesReaders
  <2>2. /\ token \in Nat /\ token' \in Nat /\ token' >= token
        /\ \A r \in Readers : cnt[r] \in Nat /\ seenToken[r] \in Nat
    BY <1>2 DEF TypeOK, Writer, Allocate, Swap, StartGrace, Scan, Pass, FreeOld, SetStop, Join,
                Cleanup, qsbrVars
  <2> SUFFICES ASSUME NEW r \in Readers, d[r] # None
               PROVE  d[r] = gdata' \/ (InGrace' /\ d[r] = old')
    BY <2>1, <2>2 DEF readerVars
  <2> USE DEF WriterGoes, heapVars
  <2>3. CASE Allocate \/ SetStop \/ Join
    BY <2>3 DEF Allocate, SetStop, Join
  <2>4. CASE Swap
    BY <2>4 DEF Swap
  <2>5. CASE StartGrace \/ Scan
    BY <2>5 DEF StartGrace, Scan
  <2>6. ASSUME NEW s \in Readers, Pass(s) PROVE d[r] = gdata' \/ (InGrace' /\ d[r] = old')
    BY <2>6 DEF Pass
  <2>7. CASE FreeOld
    BY <2>7 DEF FreeOld, GraceInv
  <2>8. CASE Cleanup
    BY <2>8 DEF Cleanup
  <2> QED
    BY <1>2, <2>3, <2>4, <2>5, <2>6, <2>7, <2>8 DEF Writer
<1>3. ASSUME NEW r \in Readers, Reader(r) PROVE ReaderInv'
  <2> USE DEF TypeOK, ReaderGoes, Offlines, heapVars, qsbrVars, writerVars
  <2>1. CASE Register(r)
    BY <2>1 DEF Register
  <2>2. CASE OnlineRead(r)
    BY <2>2 DEF OnlineRead, WriterInv
  <2>3. CASE OnlineStore(r)
    BY <2>3 DEF OnlineStore
  <2>4. CASE TestStop(r)
    BY <2>4 DEF TestStop
  <2>5. CASE Load(r)
    BY <2>5, RcuAssumption DEF Load, Versions
  <2>6. CASE Use(r)
    BY <2>6 DEF Use
  <2>7. CASE QuiescentRead(r)
    BY <2>7 DEF QuiescentRead, WriterInv
  <2>8. CASE QuiescentStore(r)
    BY <2>8 DEF QuiescentStore
  <2>9. CASE Offline(r)
    BY <2>9 DEF Offline
  <2>10. CASE Unregister(r)
    BY <2>10 DEF Unregister
  <2> QED
    BY <1>3, <2>1, <2>2, <2>3, <2>4, <2>5, <2>6, <2>7, <2>8, <2>9, <2>10 DEF Reader
<1> QED
  BY <1>1, <1>2, <1>3 DEF Next

(* The writer does not pass a reader that holds the retired version. *)
LEMMA GraceInductive == TypeOK /\ WriterInv /\ ReaderInv /\ GraceInv /\ [Next]_vars => GraceInv'
<1> SUFFICES ASSUME TypeOK, WriterInv, ReaderInv, GraceInv, [Next]_vars PROVE GraceInv'
  OBVIOUS
<1> USE DEF GraceInv, ReaderGoes, WriterGoes
<1>1. /\ old # None
      /\ token \in Nat
      /\ \A r \in Readers : cnt[r] \in Nat /\ cnt[r] <= token
  BY RcuAssumption DEF TypeOK, Versions, ReaderInv
<1>2. \A r \in Readers : d[r] = old => readerPc[r] = "using" /\ cnt[r] # 0 /\ r \in registered
  BY <1>1 DEF ReaderInv, Offlines
<1>3. CASE UNCHANGED vars
  BY <1>3 DEF vars, heapVars, qsbrVars, readerVars, writerVars
<1>4. CASE Writer
  <2>1. CASE Allocate \/ Swap \/ FreeOld \/ SetStop \/ Join \/ Cleanup
    BY <2>1 DEF Allocate, Swap, FreeOld, SetStop, Join, Cleanup
  <2>2. CASE StartGrace
    BY <2>2, <1>1 DEF StartGrace, readerVars
  <2>3. CASE Scan
    BY <2>3, <1>2 DEF Scan, qsbrVars, readerVars
  <2>4. ASSUME NEW r \in Readers, Pass(r) PROVE GraceInv'
    <3>1. waitToken = token
      BY <2>4 DEF Pass, WriterInv
    <3>2. d[r] # old
      BY <2>4, <3>1, <1>1, <1>2 DEF Pass, Quiesced
    <3> QED
      BY <2>4, <3>2 DEF Pass, qsbrVars, readerVars
  <2> QED
    BY <1>4, <2>1, <2>2, <2>3, <2>4 DEF Writer
<1>5. ASSUME NEW r \in Readers, Reader(r) PROVE GraceInv'
  <2> USE DEF TypeOK
  <2>1. CASE Register(r) \/ OnlineRead(r) \/ TestStop(r) \/ QuiescentRead(r) \/ Unregister(r)
    BY <2>1 DEF Register, OnlineRead, TestStop, QuiescentRead, Unregister,
                heapVars, qsbrVars, writerVars
  <2>2. CASE OnlineStore(r) \/ QuiescentStore(r) \/ Offline(r)
    <3>1. d[r] # old
      BY <2>2, <1>2 DEF OnlineStore, QuiescentStore, Offline
    <3> QED
      BY <2>2, <3>1 DEF OnlineStore, QuiescentStore, Offline, heapVars, writerVars
  <2>3. CASE Load(r)
    <3>1. writerPc \in {"scan", "wait"} => gdata # old
      BY DEF WriterInv, InGrace, Versions
    <3> QED
      BY <2>3, <3>1 DEF Load, heapVars, qsbrVars, writerVars
  <2>4. CASE Use(r)
    BY <2>4, <1>1 DEF Use, heapVars, qsbrVars, writerVars
  <2> QED
    BY <1>5, <2>1, <2>2, <2>3, <2>4 DEF Reader
<1> QED
  BY <1>3, <1>4, <1>5 DEF Next

(* The initial states satisfy the inductive invariant. *)
LEMMA InvInit == Init => IInv
<1>1. SUFFICES ASSUME Init PROVE IInv
  OBVIOUS
<1>2. 0..(0 - 1) = {}
  OBVIOUS
<1>3. 0..0 = {0}
  OBVIOUS
<1>4. TypeOK
  <2>1. 0 \in Versions /\ {0} \in SUBSET Versions
    BY RcuAssumption DEF Versions
  <2> QED
    BY <1>1, <2>1 DEF Init, TypeOK, ReaderStates, WriterStates
<1>5. WriterInv
  BY <1>1, <1>2, <1>3 DEF Init, WriterInv, InGrace
<1>6. ReaderInv /\ GraceInv
  BY <1>1 DEF Init, ReaderInv, Offlines, InGrace, GraceInv
<1> QED
  BY <1>4, <1>5, <1>6 DEF IInv

(* IInv is an invariant of the program. *)
THEOREM Invariance == Spec => []IInv
<1>1. IInv /\ [Next]_vars => IInv'
  BY TypeInductive, WriterInductive, ReaderInductive, GraceInductive DEF IInv
<1> QED
  BY InvInit, <1>1, PTL DEF Spec

(* The variables keep their types (the writer of main.c:47-70 never counts past *)
(* UPDATES, every version was allocated by it).                                 *)
THEOREM TypeCorrect == Spec => []TypeOK
<1>1. IInv => TypeOK
  BY DEF IInv
<1> QED
  BY Invariance, <1>1, PTL

(* No reader uses freed memory (main.c:31-32, 62-65, 96). *)
THEOREM UseAfterFreeImpossible == Spec => []NoUseAfterFree
<1>1. IInv => NoUseAfterFree
  <2> SUFFICES ASSUME IInv, NEW r \in Readers
               PROVE  /\ d[r] # None => d[r] \in allocated \ freed
                      /\ qsbrFreed => readerPc[r] = "returned"
    BY DEF NoUseAfterFree
  <2> USE DEF IInv, TypeOK, Versions, WriterStates, WriterInv, InGrace
  <2>1. qsbrFreed => readerPc[r] = "returned"
    OBVIOUS
  <2>2. ASSUME d[r] # None PROVE d[r] \in allocated \ freed
    <3>1. writerPc # "exited"
      BY <2>2, <2>1 DEF ReaderInv
    <3>2. d[r] = gdata \/ (InGrace /\ d[r] = old)
      BY <2>2 DEF ReaderInv
    <3>3. CASE InGrace
      BY <3>1, <3>2, <3>3
    <3>4. CASE ~InGrace
      BY <3>1, <3>2, <3>4
    <3> QED
      BY <3>3, <3>4
  <2> QED
    BY <2>1, <2>2
<1> QED
  BY Invariance, <1>1, PTL

(* Neither the writer nor main frees a version twice (main.c:65, 95). *)
THEOREM DoubleFreeImpossible == Spec => []NoDoubleFree
<1>1. IInv => NoDoubleFree
  BY DEF IInv, TypeOK, Versions, WriterStates, WriterInv, InGrace, NoDoubleFree
<1> QED
  BY Invariance, <1>1, PTL

(* A set of at most two values has at most two elements. *)
LEMMA AtMostTwo == ASSUME NEW S, NEW x, NEW y, S \subseteq {x, y}
                   PROVE  Cardinality(S) \in Nat /\ Cardinality(S) <= 2
<1>1. IsFiniteSet({x}) /\ Cardinality({x}) = 1
  BY FS_Singleton
<1>2. {x} \cup {y} = {x, y}
  OBVIOUS
<1>3. IsFiniteSet({x, y}) /\ Cardinality({x, y}) <= 2
  BY <1>1, <1>2, FS_AddElement
<1>4. IsFiniteSet(S) /\ Cardinality(S) <= Cardinality({x, y})
  BY <1>3, FS_Subset
<1>5. Cardinality(S) \in Nat /\ Cardinality({x, y}) \in Nat
  BY <1>3, <1>4, FS_CardinalityType
<1> QED
  BY <1>3, <1>4, <1>5

(* At most two versions are allocated at a time, and none at exit. *)
THEOREM LeakImpossible == Spec => []NoLeak
<1>1. ASSUME IInv PROVE NoLeak
  <2> USE <1>1 DEF IInv, TypeOK, Versions, WriterStates, WriterInv, InGrace
  <2>1. allocated \ freed \subseteq {i, i + 1}
    <3>1. CASE writerPc = "exited"
      BY <3>1
    <3>2. CASE writerPc # "exited"
      BY <3>2
    <3> QED
      BY <3>1, <3>2
  <2>2. Cardinality(allocated \ freed) <= 2
    BY <2>1, AtMostTwo
  <2>3. writerPc = "exited" => freed = allocated
    OBVIOUS
  <2> QED
    BY <2>2, <2>3 DEF NoLeak
<1> QED
  BY Invariance, <1>1, PTL

-------------------------------------------------------------------------------
(* Refinement: each step of the program is a step of the cell or leaves it alone. *)

LEMMA CellStep == IInv /\ IInv' /\ [Next]_vars => [Cell!Next]_(Cell!cellVars)
<1> SUFFICES ASSUME IInv, IInv', [Next]_vars PROVE [Cell!Next]_(Cell!cellVars)
  OBVIOUS
<1> USE RcuAssumption DEF ReaderGoes, WriterGoes, Cell!cellVars
<1>1. CASE UNCHANGED vars
  BY <1>1 DEF vars, heapVars, qsbrVars, readerVars
<1>2. CASE Writer
  <2>1. CASE Swap
    <3>1. Cell!Publish
      BY <2>1 DEF Swap, Cell!Publish, IInv, TypeOK, Versions, WriterInv, InGrace, qsbrVars, readerVars
    <3> QED
      BY <3>1 DEF Cell!Next
  <2>2. CASE FreeOld
    <3>1. old \in 0..gdata /\ Cell!Reclaim(old)
      BY <2>2 DEF FreeOld, Cell!Reclaim, IInv, TypeOK, Versions, WriterInv, InGrace, GraceInv,
                  qsbrVars, readerVars
    <3> QED
      BY <3>1 DEF Cell!Next
  <2>3. CASE Cleanup
    <3>1. Cell!Close
      BY <2>3 DEF Cleanup, Cell!Close, IInv, TypeOK, Versions, WriterInv, ReaderInv, readerVars
    <3> QED
      BY <3>1 DEF Cell!Next
  <2>4. CASE Allocate
    BY <2>4 DEF Allocate, qsbrVars, readerVars
  <2>5. CASE StartGrace
    BY <2>5 DEF StartGrace, heapVars, readerVars
  <2>6. CASE Scan
    BY <2>6 DEF Scan, heapVars, qsbrVars, readerVars
  <2>7. ASSUME NEW r \in Readers, Pass(r) PROVE UNCHANGED Cell!cellVars
    BY <2>7 DEF Pass, heapVars, qsbrVars, readerVars
  <2>8. CASE SetStop
    BY <2>8 DEF SetStop, heapVars, qsbrVars, readerVars
  <2>9. CASE Join
    BY <2>9 DEF Join, heapVars, qsbrVars, readerVars
  <2> QED
    BY <1>2, <2>1, <2>2, <2>3, <2>4, <2>5, <2>6, <2>7, <2>8, <2>9 DEF Writer
<1>3. ASSUME NEW r \in Readers, Reader(r) PROVE [Cell!Next]_(Cell!cellVars)
  <2>1. CASE Load(r)
    <3>1. Cell!Borrow(r)
      BY <2>1 DEF Load, Cell!Borrow, IInv, WriterInv, ReaderInv, heapVars, qsbrVars
    <3> QED
      BY <3>1 DEF Cell!Next
  <2>2. CASE Use(r)
    <3>1. Cell!Return(r)
      BY <2>2 DEF Use, Cell!Return, IInv, ReaderInv, heapVars, qsbrVars
    <3> QED
      BY <3>1 DEF Cell!Next
  <2>3. CASE Register(r) \/ OnlineRead(r) \/ OnlineStore(r) \/ TestStop(r)
    BY <2>3 DEF Register, OnlineRead, OnlineStore, TestStop, heapVars, qsbrVars
  <2>4. CASE QuiescentRead(r) \/ QuiescentStore(r) \/ Offline(r) \/ Unregister(r)
    BY <2>4 DEF QuiescentRead, QuiescentStore, Offline, Unregister, heapVars, qsbrVars
  <2> QED
    BY <1>3, <2>1, <2>2, <2>3, <2>4 DEF Reader
<1> QED
  BY <1>1, <1>2, <1>3 DEF Next

(* The program implements the reclaimed cell. *)
THEOREM Refinement == Spec => ImplementsCell
<1>1. Init => Cell!Init
  BY DEF Init, Cell!Init
<1> QED
  BY <1>1, CellStep, Invariance, PTL DEF Spec, ImplementsCell, Cell!Spec
===============================================================================
