------------------------ MODULE LcorePrograms_proofs ------------------------
(***************************************************************************)
(* The theorems about the single programs, for any pool, burst size and    *)
(* prefetch offset, whichever program runs and whichever calls fail.       *)
(*                                                                         *)
(* The inductive invariant is LcoreInv, four invariants in one.            *)
(*                                                                         *)
(* ScriptInv: main has come as far as its script allows.  A script is a    *)
(* list, and how one may be gone through (Move) does not depend on what    *)
(* it says, so the induction is done once, for every list (Followed).      *)
(* What a program has where it is then follows from its script alone: what *)
(* an earlier step got or tested and none released it has (Sure), what one *)
(* released it has not (Gone), and a worker that runs was launched and not *)
(* waited for (Launched).  Most scripts are shown to hold nothing of       *)
(* interest (Quiet), without writing them out; the others are written out. *)
(*                                                                         *)
(* PlaceInv: an mbuf is in one place, and what is in none was refused.     *)
(* Placing says the same of the eight sets as parameters, so that each     *)
(* step is a fact about sets of which it changes two or three.             *)
(*                                                                         *)
(* StreamInv: a stream of a graph that is not empty has its node in the    *)
(* rest of the walk.  RestTypes: the types of the other variables.         *)
(*                                                                         *)
(* The reorder demos have an invariant of their own, OrderInv: what has    *)
(* left the buffer's window is in order and behind it.  The increasing     *)
(* list of a set's elements exists because there are as many ranks as      *)
(* elements (Ranks), which needs no induction.                             *)
(***************************************************************************)
EXTENDS LcorePrograms, SequenceFacts, FiniteSetTheorems

-------------------------------------------------------------------------------
(* Scripts *)

IsSeq(s) == \E S : s \in Seq(S)

\* The k-th of n steps leads to none behind the end.
IsStep(st, k, n) ==
  /\ st = [op |-> st.op, what |-> st.what, fails |-> st.fails, over |-> st.over, set |-> st.set]
  /\ st.over \in Nat /\ k + st.over <= n
  /\ st.op = "launch" => st.what \in {"1", "2", "3", "4"}

Closed(s) == IsSeq(s) /\ \A k \in 1..Len(s) : IsStep(s[k], k, Len(s))

\* It dereferences and launches nothing, and acquires no ACL context and no graph.
Harmless(st) ==
  /\ st.op \notin {"use", "launch"}
  /\ st.op = "get" => st.what \notin {"acl", "graph"}

Quiet(s) == Closed(s) /\ \A k \in 1..Len(s) : Harmless(s[k])

(* One script behind another. *)
LEMMA Joined ==
  ASSUME NEW s, NEW t, IsSeq(s), IsSeq(t)
  PROVE  /\ IsSeq(s \o t) /\ Len(s) \in Nat /\ Len(t) \in Nat /\ Len(s \o t) = Len(s) + Len(t)
         /\ \A k \in 1..Len(s) : (s \o t)[k] = s[k]
         /\ \A k \in 1..Len(t) : (s \o t)[Len(s) + k] = t[k]
         /\ \A k \in 1..Len(s \o t) : k \in 1..Len(s) \/ \E j \in 1..Len(t) : k = Len(s) + j
<1>1. PICK S : s \in Seq(S)
  BY DEF IsSeq
<1>2. PICK T : t \in Seq(T)
  BY DEF IsSeq
<1>3. s \in Seq(S \cup T) /\ t \in Seq(S \cup T)
  BY <1>1, <1>2, SeqMonotonic
<1>4. Len(s) \in Nat /\ Len(t) \in Nat
  BY <1>3, LenProperties
<1> DEFINE c == s \o t
<1>5. /\ c \in Seq(S \cup T) /\ Len(c) = Len(s) + Len(t)
      /\ \A k \in 1..(Len(s) + Len(t)) : c[k] = IF k <= Len(s) THEN s[k] ELSE t[k - Len(s)]
  BY <1>3, ConcatProperties
<1> HIDE DEF c
<1>6. ASSUME NEW k \in 1..Len(s) PROVE c[k] = s[k]
  BY <1>4, <1>5, <1>6
<1>7. ASSUME NEW k \in 1..Len(t) PROVE c[Len(s) + k] = t[k]
  <2>1. Len(s) + k \in 1..(Len(s) + Len(t)) /\ ~(Len(s) + k <= Len(s)) /\ Len(s) + k - Len(s) = k
    BY <1>4
  <2> QED
    BY <1>5, <2>1
<1>8. ASSUME NEW k \in 1..Len(c) PROVE k \in 1..Len(s) \/ \E j \in 1..Len(t) : k = Len(s) + j
  <2>1. CASE k <= Len(s)
    BY <1>4, <1>5, <2>1
  <2>2. CASE ~(k <= Len(s))
    <3>1. k - Len(s) \in 1..Len(t) /\ k = Len(s) + (k - Len(s))
      BY <1>4, <1>5, <2>2
    <3> QED
      BY <3>1
  <2> QED
    BY <2>1, <2>2
<1> QED
  BY <1>4, <1>5, <1>6, <1>7, <1>8 DEF c, IsSeq

LEMMA ClosedJoined ==
  ASSUME NEW s, NEW t, Closed(s), Closed(t)
  PROVE  Closed(s \o t)
<1> DEFINE c == s \o t
<1>1. /\ IsSeq(c) /\ Len(s) \in Nat /\ Len(t) \in Nat /\ Len(c) = Len(s) + Len(t)
      /\ \A k \in 1..Len(s) : c[k] = s[k]
      /\ \A k \in 1..Len(t) : c[Len(s) + k] = t[k]
      /\ \A k \in 1..Len(c) : k \in 1..Len(s) \/ \E j \in 1..Len(t) : k = Len(s) + j
  BY Joined DEF Closed
<1> HIDE DEF c
<1>2. ASSUME NEW k \in 1..Len(c) PROVE IsStep(c[k], k, Len(c))
  <2>1. CASE k \in 1..Len(s)
    <3>1. c[k] = s[k] /\ IsStep(s[k], k, Len(s))
      BY <1>1, <2>1 DEF Closed
    <3> QED
      BY <1>1, <3>1 DEF IsStep
  <2>2. ASSUME NEW j \in 1..Len(t), k = Len(s) + j PROVE IsStep(c[k], k, Len(c))
    <3>1. c[k] = t[j] /\ IsStep(t[j], j, Len(t))
      BY <1>1, <2>2 DEF Closed
    <3> QED
      BY <1>1, <2>2, <3>1 DEF IsStep
  <2> QED
    BY <1>1, <2>1, <2>2
<1> QED
  BY <1>1, <1>2 DEF c, Closed

LEMMA QuietJoined ==
  ASSUME NEW s, NEW t, Quiet(s), Quiet(t)
  PROVE  Quiet(s \o t)
<1> DEFINE c == s \o t
<1>1. Closed(s) /\ Closed(t)
  BY DEF Quiet
<1>2. Closed(c)
  BY <1>1, ClosedJoined
<1>3. /\ \A k \in 1..Len(s) : c[k] = s[k]
      /\ \A k \in 1..Len(t) : c[Len(s) + k] = t[k]
      /\ \A k \in 1..Len(c) : k \in 1..Len(s) \/ \E j \in 1..Len(t) : k = Len(s) + j
  <2>1. IsSeq(s) /\ IsSeq(t)
    BY <1>1 DEF Closed
  <2> QED
    BY <2>1, Joined
<1> HIDE DEF c
<1>4. ASSUME NEW k \in 1..Len(c) PROVE Harmless(c[k])
  BY <1>3 DEF Quiet
<1>5. Quiet(c)
  BY <1>2, <1>4 DEF Quiet
<1> QED
  BY <1>5 DEF c

\* What Call makes of a step behind which `rest` more follow.
CallStep(st, f, rest) ==
  IF st.fails # "leave" THEN st
  ELSE IF f = "exit" THEN [st EXCEPT !.fails = "exit"]
  ELSE [st EXCEPT !.fails = "skip", !.over = rest]

LEMMA Called ==
  ASSUME NEW s, IsSeq(s), NEW f
  PROVE  /\ IsSeq(Call(s, f)) /\ Len(Call(s, f)) = Len(s) /\ Len(s) \in Nat
         /\ \A k \in 1..Len(s) : Call(s, f)[k] = CallStep(s[k], f, Len(s) - k)
<1> DEFINE c(k) == CallStep(s[k], f, Len(s) - k)
<1>1. Len(s) \in Nat /\ DOMAIN s = 1..Len(s)
  BY LenProperties DEF IsSeq
<1>2. Call(s, f) = [k \in 1..Len(s) |-> c(k)]
  BY <1>1 DEF Call, CallStep
<1> HIDE DEF c
<1>3. Call(s, f) \in Seq({c(k) : k \in 1..Len(s)}) /\ Len(Call(s, f)) = Len(s)
  BY <1>1, <1>2
<1>4. \A k \in 1..Len(s) : Call(s, f)[k] = c(k)
  BY <1>2
<1> QED
  BY <1>1, <1>3, <1>4 DEF c, IsSeq

LEMMA CalledStep ==
  ASSUME NEW k \in Nat, NEW n \in Nat, k <= n, NEW st, IsStep(st, k, n), NEW f
  PROVE  LET c == CallStep(st, f, n - k)
         IN IsStep(c, k, n) /\ c.op = st.op /\ c.what = st.what /\ c.set = st.set
<1>1. CASE st.fails # "leave"
  BY <1>1 DEF CallStep
<1>2. CASE st.fails = "leave" /\ f = "exit"
  <2>1. CallStep(st, f, n - k) =
          [op |-> st.op, what |-> st.what, fails |-> "exit", over |-> st.over, set |-> st.set]
    BY <1>2 DEF CallStep, IsStep
  <2> QED
    BY <2>1 DEF IsStep
<1>3. CASE st.fails = "leave" /\ f # "exit"
  <2>1. CallStep(st, f, n - k) =
          [op |-> st.op, what |-> st.what, fails |-> "skip", over |-> n - k, set |-> st.set]
    BY <1>3 DEF CallStep, IsStep
  <2>2. n - k \in Nat /\ k + (n - k) <= n
    OBVIOUS
  <2> QED
    BY <2>1, <2>2 DEF IsStep
<1> QED
  BY <1>1, <1>2, <1>3

LEMMA ClosedCalled ==
  ASSUME NEW s, Closed(s), NEW f
  PROVE  Closed(Call(s, f))
<1> DEFINE c == Call(s, f)
<1>1. /\ IsSeq(c) /\ Len(c) = Len(s) /\ Len(s) \in Nat
      /\ \A k \in 1..Len(s) : c[k] = CallStep(s[k], f, Len(s) - k)
  BY Called DEF Closed
<1> HIDE DEF c
<1>2. ASSUME NEW k \in 1..Len(s) PROVE IsStep(c[k], k, Len(s))
  <2>1. k \in Nat /\ k <= Len(s) /\ IsStep(s[k], k, Len(s))
    BY <1>1 DEF Closed
  <2>2. IsStep(CallStep(s[k], f, Len(s) - k), k, Len(s))
    BY <1>1, <2>1, CalledStep
  <2> QED
    BY <1>1, <2>2
<1> QED
  BY <1>1, <1>2 DEF c, Closed

LEMMA QuietCalled ==
  ASSUME NEW s, Quiet(s), NEW f
  PROVE  Quiet(Call(s, f))
<1> DEFINE c == Call(s, f)
<1>1. Closed(s) /\ IsSeq(s)
  BY DEF Quiet, Closed
<1>2. Closed(c)
  BY <1>1, ClosedCalled
<1>3. /\ Len(c) = Len(s) /\ Len(s) \in Nat
      /\ \A k \in 1..Len(s) : c[k] = CallStep(s[k], f, Len(s) - k)
  BY <1>1, Called
<1> HIDE DEF c
<1>4. ASSUME NEW k \in 1..Len(s) PROVE Harmless(c[k])
  <2>1. k \in Nat /\ k <= Len(s) /\ IsStep(s[k], k, Len(s)) /\ Harmless(s[k])
    BY <1>1, <1>3 DEF Quiet, Closed
  <2> DEFINE r == CallStep(s[k], f, Len(s) - k)
  <2>2. r.op = s[k].op /\ r.what = s[k].what
    BY <1>3, <2>1, CalledStep
  <2>3. c[k] = r
    BY <1>3
  <2> QED
    BY <2>1, <2>2, <2>3 DEF Harmless
<1>5. Quiet(c)
  BY <1>2, <1>3, <1>4 DEF Quiet
<1> QED
  BY <1>5 DEF c

LEMMA SkipsOver ==
  ASSUME NEW s
  PROVE  [Test("port", "skip") EXCEPT !.over = Len(s)] =
           [op |-> "test", what |-> "port", fails |-> "skip", over |-> Len(s), set |-> {}]
<1> DEFINE n == Len(s)
<1> HIDE DEF n
<1>1. [Test("port", "skip") EXCEPT !.over = n] =
        [op |-> "test", what |-> "port", fails |-> "skip", over |-> n, set |-> {}]
  BY DEF Test, Step
<1> QED
  BY <1>1 DEF n

LEMMA QuietForeach ==
  ASSUME NEW s, Quiet(s)
  PROVE  Quiet(ForeachDev(s))
<1> DEFINE t == [Test("port", "skip") EXCEPT !.over = Len(s)]  c == <<t>> \o s
<1>1. IsSeq(s) /\ Len(s) \in Nat
  <2>1. IsSeq(s)
    BY DEF Quiet, Closed
  <2> QED
    BY <2>1, LenProperties DEF IsSeq
<1>2. t = [op |-> "test", what |-> "port", fails |-> "skip", over |-> Len(s), set |-> {}]
  BY SkipsOver
<1> HIDE DEF t
<1>3. IsSeq(<<t>>) /\ Len(<<t>>) = 1 /\ <<t>>[1] = t
  BY <<t>> \in Seq({t}) DEF IsSeq
<1>4. /\ IsSeq(c) /\ Len(c) = 1 + Len(s)
      /\ \A k \in 1..1 : c[k] = <<t>>[k]
      /\ \A k \in 1..Len(s) : c[1 + k] = s[k]
      /\ \A k \in 1..Len(c) : k \in 1..1 \/ \E j \in 1..Len(s) : k = 1 + j
  BY <1>1, <1>3, Joined
<1> HIDE DEF c
<1>5. ASSUME NEW k \in 1..Len(c) PROVE IsStep(c[k], k, Len(c)) /\ Harmless(c[k])
  <2>1. CASE k = 1
    <3>1. c[k] = t
      BY <1>3, <1>4, <2>1
    <3> QED
      BY <1>1, <1>2, <1>4, <2>1, <3>1 DEF IsStep, Harmless
  <2>2. ASSUME NEW j \in 1..Len(s), k = 1 + j PROVE IsStep(c[k], k, Len(c)) /\ Harmless(c[k])
    <3>1. c[k] = s[j] /\ IsStep(s[j], j, Len(s)) /\ Harmless(s[j])
      BY <1>4, <2>2 DEF Quiet, Closed
    <3> QED
      BY <1>1, <1>4, <2>2, <3>1 DEF IsStep
  <2> QED
    BY <1>4, <2>1, <2>2
<1>6. Quiet(c)
  BY <1>4, <1>5 DEF Quiet, Closed
<1> QED
  BY <1>6 DEF c, t, ForeachDev

(* Scripts written out *)

Calm(st) ==
  /\ st = [op |-> st.op, what |-> st.what, fails |-> st.fails, over |-> st.over, set |-> st.set]
  /\ st.over = 0 /\ Harmless(st)

LEMMA CalmSteps ==
  ASSUME NEW w, NEW f, NEW set
  PROVE  /\ w \notin {"acl", "graph"} => Calm(Get(w, f))
         /\ Calm(Test(w, f)) /\ Calm(Drop(set)) /\ Calm(Wait) /\ Calm(Await(w)) /\ Calm(Loop)
  BY DEF Calm, Harmless, Get, Test, Drop, Wait, Await, Loop, Step

LEMMA CalmScript ==
  ASSUME NEW s, IsSeq(s), \A k \in 1..Len(s) : Calm(s[k])
  PROVE  Quiet(s)
<1>1. Len(s) \in Nat
  BY LenProperties DEF IsSeq
<1>2. ASSUME NEW k \in 1..Len(s) PROVE IsStep(s[k], k, Len(s)) /\ Harmless(s[k])
  BY <1>1 DEF Calm, IsStep, Harmless
<1> QED
  BY <1>2 DEF Quiet, Closed

LEMMA Calm1 ==
  ASSUME NEW a, Calm(a)
  PROVE  Quiet(<<a>>)
<1> DEFINE s == <<a>>
<1>1. IsSeq(s) /\ Len(s) = 1
  BY s \in Seq({a}) DEF IsSeq
<1>2. \A k \in 1..1 : Calm(s[k])
  OBVIOUS
<1> QED
  BY <1>1, <1>2, CalmScript

LEMMA Calm2 ==
  ASSUME NEW a, NEW b, Calm(a), Calm(b)
  PROVE  Quiet(<<a, b>>)
<1> DEFINE s == <<a, b>>
<1>1. IsSeq(s) /\ Len(s) = 2
  BY s \in Seq({a, b}) DEF IsSeq
<1>2. \A k \in 1..2 : Calm(s[k])
  OBVIOUS
<1> QED
  BY <1>1, <1>2, CalmScript

LEMMA Calm3 ==
  ASSUME NEW a, NEW b, NEW c, Calm(a), Calm(b), Calm(c)
  PROVE  Quiet(<<a, b, c>>)
<1> DEFINE s == <<a, b, c>>
<1>1. IsSeq(s) /\ Len(s) = 3
  BY s \in Seq({a, b, c}) DEF IsSeq
<1>2. \A k \in 1..3 : Calm(s[k])
  OBVIOUS
<1> QED
  BY <1>1, <1>2, CalmScript

LEMMA Calm4 ==
  ASSUME NEW a, NEW b, NEW c, NEW d, Calm(a), Calm(b), Calm(c), Calm(d)
  PROVE  Quiet(<<a, b, c, d>>)
<1> DEFINE s == <<a, b, c, d>>
<1>1. IsSeq(s) /\ Len(s) = 4
  BY s \in Seq({a, b, c, d}) DEF IsSeq
<1>2. \A k \in 1..4 : Calm(s[k])
  OBVIOUS
<1> QED
  BY <1>1, <1>2, CalmScript

LEMMA Calm5 ==
  ASSUME NEW a, NEW b, NEW c, NEW d, NEW e, Calm(a), Calm(b), Calm(c), Calm(d), Calm(e)
  PROVE  Quiet(<<a, b, c, d, e>>)
<1> DEFINE s == <<a, b, c, d, e>>
<1>1. IsSeq(s) /\ Len(s) = 5
  BY s \in Seq({a, b, c, d, e}) DEF IsSeq
<1>2. \A k \in 1..5 : Calm(s[k])
  OBVIOUS
<1> QED
  BY <1>1, <1>2, CalmScript

LEMMA Calm6 ==
  ASSUME NEW a, NEW b, NEW c, NEW d, NEW e, NEW f,
         Calm(a), Calm(b), Calm(c), Calm(d), Calm(e), Calm(f)
  PROVE  Quiet(<<a, b, c, d, e, f>>)
<1> DEFINE s == <<a, b, c, d, e, f>>
<1>1. IsSeq(s) /\ Len(s) = 6
  BY s \in Seq({a, b, c, d, e, f}) DEF IsSeq
<1>2. \A k \in 1..6 : Calm(s[k])
  OBVIOUS
<1> QED
  BY <1>1, <1>2, CalmScript

LEMMA Calm8 ==
  ASSUME NEW a, NEW b, NEW c, NEW d, NEW e, NEW f, NEW g, NEW h,
         Calm(a), Calm(b), Calm(c), Calm(d), Calm(e), Calm(f), Calm(g), Calm(h)
  PROVE  Quiet(<<a, b, c, d, e, f, g, h>>)
<1> DEFINE s == <<a, b, c, d, e, f, g, h>>
<1>1. IsSeq(s) /\ Len(s) = 8
  BY s \in Seq({a, b, c, d, e, f, g, h}) DEF IsSeq
<1>2. \A k \in 1..8 : Calm(s[k])
  OBVIOUS
<1> QED
  BY <1>1, <1>2, CalmScript

LEMMA Calm10 ==
  ASSUME NEW a, NEW b, NEW c, NEW d, NEW e, NEW f, NEW g, NEW h, NEW i, NEW j,
         Calm(a), Calm(b), Calm(c), Calm(d), Calm(e), Calm(f), Calm(g), Calm(h), Calm(i),
         Calm(j)
  PROVE  Quiet(<<a, b, c, d, e, f, g, h, i, j>>)
<1> DEFINE s == <<a, b, c, d, e, f, g, h, i, j>>
<1>1. IsSeq(s) /\ Len(s) = 10
  BY s \in Seq({a, b, c, d, e, f, g, h, i, j}) DEF IsSeq
<1>2. \A k \in 1..10 : Calm(s[k])
  OBVIOUS
<1> QED
  BY <1>1, <1>2, CalmScript

LEMMA PollersQuiet ==
  /\ Quiet(prefetch_main) /\ Quiet(packet_parsing_main) /\ Quiet(port_init_main)
  /\ Quiet(port_init2_main) /\ Quiet(meter_main) /\ Quiet(mem_info_main)
  /\ Quiet(vhost_main) /\ Quiet(vhost_tx_main)
<1> DEFINE eal == << Get("eal", "exit") >>  pool == << Get("pool", "exit") >>
           loop == << Loop >>  both == << Get("eal", "exit"), Get("pool", "exit") >>
           port == << Test("port", "leave") >>
<1>1. Quiet(eal) /\ Quiet(pool) /\ Quiet(loop) /\ Quiet(both) /\ Quiet(port)
  BY CalmSteps, Calm1, Calm2
<1>2. \A f : Quiet(PortCalls(f))
  BY CalmSteps, Calm4 DEF PortCalls
<1> HIDE DEF eal, pool, loop, both, port
<1>3. Quiet(prefetch_main)
  <2>1. Quiet(<< Get("eal", "exit"), Test("port", "exit"), Get("pool", "exit") >>)
    BY CalmSteps, Calm3
  <2>2. Quiet(prefetch_port_init)
    BY <1>1, <1>2, QuietJoined DEF prefetch_port_init, port
  <2>3. Quiet(Call(prefetch_port_init, "exit"))
    BY <2>2, QuietCalled
  <2> QED
    BY <1>1, <2>1, <2>3, QuietJoined DEF prefetch_main, loop
<1>4. Quiet(packet_parsing_main)
  <2>1. Quiet(initialize_port)
    BY CalmSteps, Calm6 DEF initialize_port
  <2>2. Quiet(Call(initialize_port, "go_on"))
    BY <2>1, QuietCalled
  <2> QED
    BY <1>1, <2>2, QuietJoined DEF packet_parsing_main, create_pool, eal, pool, loop
<1>5. Quiet(port_init_main)
  <2>1. Quiet(<< Get("mac", "leave") >>)
    BY CalmSteps, Calm1
  <2>2. Quiet(port_init_port_init)
    BY <1>1, <1>2, <2>1, QuietJoined DEF port_init_port_init, port
  <2>3. Quiet(ForeachDev(Call(port_init_port_init, "exit")))
    BY <2>2, QuietCalled, QuietForeach
  <2> QED
    BY <1>1, <2>3, QuietJoined DEF port_init_main, both
<1>6. Quiet(port_init2_main)
  <2>1. Quiet(port_init2_port_init)
    BY <1>1, <1>2, QuietJoined DEF port_init2_port_init, port
  <2>2. Quiet(ForeachDev(Call(port_init2_port_init, "exit")))
    BY <2>1, QuietCalled, QuietForeach
  <2> QED
    BY <1>1, <2>2, QuietJoined DEF port_init2_main, both, loop
<1>7. Quiet(meter_main)
  <2>1. Quiet(meter_port)
    BY <1>1, <1>2, QuietJoined DEF meter_port, both
  <2>2. Quiet(meter_profile) /\ Quiet(meter_policy) /\ Quiet(meter_flow)
    BY CalmSteps, Calm1, Calm2 DEF meter_profile, meter_policy, meter_flow
  <2> QED
    BY <2>1, <2>2, QuietJoined DEF meter_main
<1>8. Quiet(mem_info_main)
  BY CalmSteps, Calm10 DEF mem_info_main
<1>9. Quiet(vhost_main)
  BY <1>1, <1>2, QuietJoined DEF vhost_main, both, loop
<1>10. Quiet(vhost_tx_main)
  BY CalmSteps, Calm6 DEF vhost_tx_main
<1> QED
  BY <1>3, <1>4, <1>5, <1>6, <1>7, <1>8, <1>9, <1>10

LEMMA OthersQuiet ==
  /\ Quiet(mem_pool_main) /\ Quiet(mem_pool2_main) /\ Quiet(mem_info2_main)
  /\ Quiet(ipc_ring_main) /\ Quiet(timer_main) /\ Quiet(reorder_2_main)
  /\ Quiet(reorder_packet_main) /\ Quiet(reorder_packet2_main) /\ Quiet(fragmentation_main)
  /\ Quiet(beginner_eventdev_main) /\ Quiet(ipc_eventdev_main) /\ Quiet(ipc_eventdev2_main)
<1>1. /\ Quiet(mem_pool_main) /\ Quiet(mem_pool2_main) /\ Quiet(ipc_ring_main) /\ Quiet(timer_main)
      /\ Quiet(reorder_packet_main) /\ Quiet(reorder_packet2_main) /\ Quiet(fragmentation_main)
  BY CalmSteps, Calm2, Calm3, Calm4
     DEF mem_pool_main, mem_pool2_main, ipc_ring_main, timer_main, reorder_packet_main,
         reorder_packet2_main, fragmentation_main
<1>2. Quiet(mem_info2_main)
  BY CalmSteps, Calm8 DEF mem_info2_main
<1>3. Quiet(reorder_2_main)
  BY CalmSteps, Calm6 DEF reorder_2_main
<1>4. \A f : Quiet(EventDevice(f))
  BY CalmSteps, Calm4 DEF EventDevice
<1> DEFINE eal == << Get("eal", "exit") >>  loop == << Loop >>
           both == << Get("eal", "exit"), Get("pool", "exit") >>
           await == << Get("evstart", "exit"), Await("link"), Drop({"evstart"}) >>
           start == << Get("evstart", "go_on"), Loop >>
<1>5. Quiet(eal) /\ Quiet(loop) /\ Quiet(both) /\ Quiet(await) /\ Quiet(start)
  BY CalmSteps, Calm1, Calm2, Calm3
<1> HIDE DEF eal, loop, both, await, start
<1>6. Quiet(beginner_eventdev_main)
  BY <1>4, <1>5, QuietJoined DEF beginner_eventdev_main, eal, await
<1>7. Quiet(ipc_eventdev_main)
  BY <1>4, <1>5, QuietJoined DEF ipc_eventdev_main, both, start
<1>8. Quiet(ipc_eventdev2_main)
  <2>1. Quiet(setup_eventdev)
    BY CalmSteps, Calm5 DEF setup_eventdev
  <2> QED
    BY <1>5, <2>1, QuietCalled, QuietJoined DEF ipc_eventdev2_main, eal, loop
<1> QED
  BY <1>1, <1>2, <1>3, <1>6, <1>7, <1>8

-------------------------------------------------------------------------------
(* How main goes through its script *)

\* A step of the program with script s from position a, in phase p, with h acquired
\* and the lcores r running, to b, q, g and t.
Stays(s, a, p, h, r, b, q, g, t) ==
  /\ b = a /\ g = h /\ t \subseteq r
  /\ \/ q = p
     \/ p \in {"main", "loop"} /\ q = "crashed"
     \/ p = "main" /\ q = "ended" /\ a > Len(s)
     \/ p = "main" /\ q = "loop" /\ a <= Len(s) /\ s[a].op = "loop"

Goes(s, a, p, q) == a <= Len(s) /\ p = "main" /\ q = "main"

Gets(s, a, p, h, r, b, q, g, t) ==
  /\ Goes(s, a, p, q) /\ s[a].op = "get"
  /\ b = a + 1 /\ g = h \cup {s[a].what} /\ t = r

Exits(s, a, p, h, r, b, q, g, t) ==
  /\ a <= Len(s) /\ p = "main" /\ q = "exited"
  /\ s[a].op \in {"get", "test"} /\ s[a].fails = "exit"
  /\ b = a /\ g = h \ s[a].set /\ t = r

Skips(s, a, p, h, r, b, q, g, t) ==
  /\ Goes(s, a, p, q) /\ s[a].op \in {"get", "test"} /\ s[a].fails # "exit"
  /\ s[a].op = "test" => s[a].what \notin h
  /\ b = a + 1 + s[a].over /\ g = h /\ t = r

Passes(s, a, p, h, r, b, q, g, t) ==
  /\ a <= Len(s) /\ q = "main" /\ b = a + 1 /\ g = h
  /\ \/ p = "main" /\ t = r /\ s[a].op = "test" /\ s[a].what \in h
     \/ p = "main" /\ t = r /\ s[a].op \in {"use", "await"}
     \/ p = "main" /\ t \in {r, r \cup {s[a].what}} /\ s[a].op = "launch"
     \/ p = "main" /\ t = r /\ r = {} /\ s[a].op = "wait"
     \/ p = "loop" /\ t = r /\ s[a].op = "loop"

Drops(s, a, p, h, r, b, q, g, t) ==
  /\ Goes(s, a, p, q) /\ s[a].op = "drop"
  /\ b = a + 1 /\ g = h \ s[a].set /\ t = r

Move(s, a, p, h, r, b, q, g, t) ==
  \/ Stays(s, a, p, h, r, b, q, g, t) \/ Gets(s, a, p, h, r, b, q, g, t)
  \/ Exits(s, a, p, h, r, b, q, g, t) \/ Skips(s, a, p, h, r, b, q, g, t)
  \/ Passes(s, a, p, h, r, b, q, g, t) \/ Drops(s, a, p, h, r, b, q, g, t)

\* Between its steps.
Standing(s, a, p) ==
  /\ a \in 1..(Len(s) + 1)
  /\ p \in {"main", "loop", "ended", "exited", "crashed"}
  /\ p = "loop" => a <= Len(s) /\ s[a].op = "loop"
  /\ p = "exited" => a <= Len(s) /\ s[a].fails = "exit"
  /\ p = "ended" => a = Len(s) + 1

\* No step leads from before n to behind it.
Reached(s, n) == \A k \in 1..(n - 1) : k + s[k].over < n

Acquired(s, a, h) ==
  \A w \in h : w \in {"port", "evdev"} \/ \E k \in 1..(a - 1) : s[k].op = "get" /\ s[k].what = w

\* What was got, or tested, and not released.
Sure(s, a, p, h) ==
  \A n \in 1..(a - 1) :
    /\ s[n].op \in {"get", "test"} /\ s[n].fails = "exit" /\ Reached(s, n)
    /\ \A k \in (n + 1)..(a - 1) : s[k].op = "drop" => s[n].what \notin s[k].set
    /\ p = "exited" => s[n].what \notin s[a].set
    => s[n].what \in h

\* What was released, and not got again.
Gone(s, a, h) ==
  \A n \in 1..(a - 1) : \A w \in s[n].set :
    /\ s[n].op = "drop" /\ Reached(s, n)
    /\ \A k \in (n + 1)..(a - 1) : s[k].op = "get" => s[k].what # w
    => w \notin h

\* A failure releases what its step says.
Undone(s, a, p, h) == p = "exited" => h \cap s[a].set = {}

\* A worker that runs was launched, and main has not waited since.
Launched(s, a, r) ==
  \A w \in r : \E k \in 1..(a - 1) :
    /\ s[k].op = "launch" /\ s[k].what = w
    /\ \A n \in (k + 1)..(a - 1) : s[n].op = "wait" => ~Reached(s, n)

Followed(s, a, p, h, r) ==
  /\ Standing(s, a, p) /\ Acquired(s, a, h) /\ Sure(s, a, p, h) /\ Gone(s, a, h)
  /\ Undone(s, a, p, h) /\ Launched(s, a, r)

LEMMA Overs ==
  ASSUME NEW s, Closed(s), NEW k \in 1..Len(s)
  PROVE  s[k].over \in Nat /\ k + s[k].over <= Len(s)
<1>1. IsStep(s[k], k, Len(s))
  BY DEF Closed
<1> QED
  BY <1>1 DEF IsStep

LEMMA StandingKept ==
  ASSUME NEW s, Closed(s), NEW a, NEW p, NEW h, NEW r, NEW b, NEW q, NEW g, NEW t,
         Standing(s, a, p), Move(s, a, p, h, r, b, q, g, t)
  PROVE  Standing(s, b, q) /\ b \in Nat /\ a \in Nat /\ b >= a
<1>1. Len(s) \in Nat
  BY LenProperties DEF Closed, IsSeq
<1>2. a <= Len(s) => IsStep(s[a], a, Len(s))
  BY <1>1 DEF Closed, Standing
<1> QED
  BY <1>1, <1>2 DEF Standing, IsStep, Move, Stays, Gets, Exits, Skips, Passes, Drops, Goes

LEMMA AcquiredKept ==
  ASSUME NEW s, NEW a \in Nat, NEW p, NEW h, NEW r, NEW b \in Nat, NEW q, NEW g, NEW t,
         b >= a, a >= 1, Acquired(s, a, h), Move(s, a, p, h, r, b, q, g, t)
  PROVE  Acquired(s, b, g)
<1> SUFFICES ASSUME NEW w \in g, w \notin {"port", "evdev"}
             PROVE  \E k \in 1..(b - 1) : s[k].op = "get" /\ s[k].what = w
  BY DEF Acquired
<1>1. CASE w \in h
  <2>1. PICK k \in 1..(a - 1) : s[k].op = "get" /\ s[k].what = w
    BY <1>1 DEF Acquired
  <2> QED
    BY <2>1
<1>2. CASE w \notin h
  <2>1. s[a].op = "get" /\ s[a].what = w /\ b = a + 1
    BY <1>2 DEF Move, Stays, Gets, Exits, Skips, Passes, Drops
  <2> QED
    BY <2>1
<1> QED
  BY <1>1, <1>2

LEMMA SureKept ==
  ASSUME NEW s, Closed(s), NEW a, NEW p, NEW h, NEW r, NEW b, NEW q, NEW g, NEW t,
         Standing(s, a, p), Sure(s, a, p, h), Move(s, a, p, h, r, b, q, g, t)
  PROVE  Sure(s, b, q, g)
<1>1. a \in Nat /\ b \in Nat /\ b >= a /\ a >= 1
  BY StandingKept DEF Standing
<1> SUFFICES ASSUME NEW n \in 1..(b - 1),
                    s[n].op \in {"get", "test"}, s[n].fails = "exit", Reached(s, n),
                    \A k \in (n + 1)..(b - 1) : s[k].op = "drop" => s[n].what \notin s[k].set,
                    q = "exited" => s[n].what \notin s[b].set
             PROVE  s[n].what \in g
  BY DEF Sure
<1>2. CASE n < a
  <2>1. n \in 1..(a - 1) /\ \A k \in (n + 1)..(a - 1) : k \in (n + 1)..(b - 1)
    BY <1>1, <1>2
  <2>2. p = "exited" => b = a /\ q = "exited"
    BY DEF Move, Stays, Gets, Exits, Skips, Passes, Drops, Goes
  <2>3. s[n].what \in h
    BY <2>1, <2>2 DEF Sure
  <2>4. s[a].op = "drop" /\ b = a + 1 => s[n].what \notin s[a].set
    BY <1>1, <1>2
  <2> QED
    BY <2>3, <2>4 DEF Move, Stays, Gets, Exits, Skips, Passes, Drops
<1>3. CASE n = a
  BY <1>1, <1>3 DEF Move, Stays, Gets, Exits, Skips, Passes, Drops
<1>4. CASE n > a
  <2>1. a + s[a].over < n
    BY <1>1, <1>4 DEF Reached
  <2>2. b = a + 1 + s[a].over
    BY <1>1, <1>4 DEF Move, Stays, Gets, Exits, Skips, Passes, Drops
  <2>3. s[a].over \in Nat
    <3>1. a <= Len(s) /\ Len(s) \in Nat
      BY <1>1, <1>4, LenProperties
         DEF Move, Stays, Gets, Exits, Skips, Passes, Drops, Goes, Closed, IsSeq
    <3> QED
      BY <1>1, <3>1, Overs
  <2> QED
    BY <1>1, <2>1, <2>2, <2>3
<1> QED
  BY <1>1, <1>2, <1>3, <1>4

LEMMA GoneKept ==
  ASSUME NEW s, Closed(s), NEW a, NEW p, NEW h, NEW r, NEW b, NEW q, NEW g, NEW t,
         Standing(s, a, p), Gone(s, a, h), Move(s, a, p, h, r, b, q, g, t)
  PROVE  Gone(s, b, g)
<1>1. a \in Nat /\ b \in Nat /\ b >= a /\ a >= 1
  BY StandingKept DEF Standing
<1> SUFFICES ASSUME NEW n \in 1..(b - 1), NEW w \in s[n].set, s[n].op = "drop", Reached(s, n),
                    \A k \in (n + 1)..(b - 1) : s[k].op = "get" => s[k].what # w
             PROVE  w \notin g
  BY DEF Gone
<1>2. CASE n < a
  <2>1. n \in 1..(a - 1) /\ \A k \in (n + 1)..(a - 1) : k \in (n + 1)..(b - 1)
    BY <1>1, <1>2
  <2>2. w \notin h
    BY <2>1 DEF Gone
  <2>3. s[a].op = "get" /\ b = a + 1 => s[a].what # w
    BY <1>1, <1>2
  <2> QED
    BY <2>2, <2>3 DEF Move, Stays, Gets, Exits, Skips, Passes, Drops
<1>3. CASE n = a
  BY <1>1, <1>3 DEF Move, Stays, Gets, Exits, Skips, Passes, Drops
<1>4. CASE n > a
  <2>1. a + s[a].over < n
    BY <1>1, <1>4 DEF Reached
  <2>2. b = a + 1 + s[a].over
    BY <1>1, <1>4 DEF Move, Stays, Gets, Exits, Skips, Passes, Drops
  <2>3. s[a].over \in Nat
    <3>1. a <= Len(s) /\ Len(s) \in Nat
      BY <1>1, <1>4, LenProperties
         DEF Move, Stays, Gets, Exits, Skips, Passes, Drops, Goes, Closed, IsSeq
    <3> QED
      BY <1>1, <3>1, Overs
  <2> QED
    BY <1>1, <2>1, <2>2, <2>3
<1> QED
  BY <1>1, <1>2, <1>3, <1>4

LEMMA LaunchedKept ==
  ASSUME NEW s, Closed(s), NEW a, NEW p, NEW h, NEW r, NEW b, NEW q, NEW g, NEW t,
         Standing(s, a, p), Launched(s, a, r), Move(s, a, p, h, r, b, q, g, t)
  PROVE  Launched(s, b, t)
<1>1. a \in Nat /\ b \in Nat /\ b >= a /\ a >= 1
  BY StandingKept DEF Standing
<1> SUFFICES ASSUME NEW w \in t
             PROVE  \E k \in 1..(b - 1) :
                      /\ s[k].op = "launch" /\ s[k].what = w
                      /\ \A n \in (k + 1)..(b - 1) : s[n].op = "wait" => ~Reached(s, n)
  BY DEF Launched
<1>2. CASE w \in r
  <2>1. PICK k \in 1..(a - 1) :
          /\ s[k].op = "launch" /\ s[k].what = w
          /\ \A n \in (k + 1)..(a - 1) : s[n].op = "wait" => ~Reached(s, n)
    BY <1>2 DEF Launched
  <2>2. ASSUME NEW n \in (k + 1)..(b - 1), n >= a, s[n].op = "wait" PROVE ~Reached(s, n)
    <3>1. n # a
      BY <1>1, <1>2, <2>2 DEF Move, Stays, Gets, Exits, Skips, Passes, Drops
    <3>2. n > a /\ b > a + 1
      BY <1>1, <2>2, <3>1
    <3>3. b = a + 1 + s[a].over
      BY <1>1, <3>2 DEF Move, Stays, Gets, Exits, Skips, Passes, Drops
    <3>4. s[a].over \in Nat
      <4>1. a <= Len(s) /\ Len(s) \in Nat
        BY <1>1, <3>2, LenProperties
           DEF Move, Stays, Gets, Exits, Skips, Passes, Drops, Goes, Closed, IsSeq
      <4> QED
        BY <1>1, <4>1, Overs
    <3>5. a \in 1..(n - 1) /\ ~(a + s[a].over < n)
      BY <1>1, <2>2, <3>2, <3>3, <3>4
    <3> QED
      BY <3>5 DEF Reached
  <2>3. k \in 1..(b - 1)
    BY <1>1
  <2>4. ASSUME NEW n \in (k + 1)..(b - 1), s[n].op = "wait" PROVE ~Reached(s, n)
    <3>1. CASE n >= a
      BY <2>2, <2>4, <3>1
    <3>2. CASE n < a
      BY <1>1, <2>1, <2>4, <3>2
    <3> QED
      BY <1>1, <3>1, <3>2
  <2> QED
    BY <2>1, <2>3, <2>4
<1>3. CASE w \notin r
  <2>1. s[a].op = "launch" /\ s[a].what = w /\ b = a + 1
    BY <1>3 DEF Move, Stays, Gets, Exits, Skips, Passes, Drops
  <2> QED
    BY <1>1, <2>1
<1> QED
  BY <1>2, <1>3

LEMMA FollowedKept ==
  ASSUME NEW s, Closed(s), NEW a, NEW p, NEW h, NEW r, NEW b, NEW q, NEW g, NEW t,
         Followed(s, a, p, h, r), Move(s, a, p, h, r, b, q, g, t)
  PROVE  Followed(s, b, q, g, t)
<1>1. Standing(s, b, q) /\ a \in Nat /\ b \in Nat /\ b >= a /\ a >= 1
  BY StandingKept DEF Followed, Standing
<1>2. Acquired(s, b, g)
  BY <1>1, AcquiredKept DEF Followed
<1>3. Undone(s, b, q, g)
  BY DEF Followed, Undone, Move, Stays, Gets, Exits, Skips, Passes, Drops, Goes
<1> QED
  BY <1>1, <1>2, <1>3, SureKept, GoneKept, LaunchedKept DEF Followed

-------------------------------------------------------------------------------
(* Scripts written out: the ones that launch, dereference, or hold a context or a graph, *)
(* and those that must have started their port.                                          *)

LEMMA JoinedIs ==
  ASSUME NEW s, NEW t, NEW u, IsSeq(s), IsSeq(t), IsSeq(u), Len(u) = Len(s) + Len(t),
         \A k \in 1..Len(s) : u[k] = s[k], \A k \in 1..Len(t) : u[Len(s) + k] = t[k]
  PROVE  s \o t = u
<1> DEFINE c == s \o t
<1>1. /\ IsSeq(c) /\ Len(s) \in Nat /\ Len(t) \in Nat /\ Len(c) = Len(s) + Len(t)
      /\ \A k \in 1..Len(s) : c[k] = s[k]
      /\ \A k \in 1..Len(t) : c[Len(s) + k] = t[k]
      /\ \A k \in 1..Len(c) : k \in 1..Len(s) \/ \E j \in 1..Len(t) : k = Len(s) + j
  BY Joined
<1> HIDE DEF c
<1>2. \A k \in 1..Len(c) : c[k] = u[k]
  BY <1>1
<1>3. c = [k \in 1..Len(c) |-> c[k]] /\ u = [k \in 1..Len(u) |-> u[k]]
  BY <1>1, LenProperties DEF IsSeq
<1> QED
  BY <1>1, <1>2, <1>3 DEF c

LEMMA CalledIs ==
  ASSUME NEW s, NEW f, NEW u, IsSeq(s), IsSeq(u), Len(u) = Len(s),
         \A k \in 1..Len(s) : u[k] = CallStep(s[k], f, Len(s) - k)
  PROVE  Call(s, f) = u
<1> DEFINE c == Call(s, f)
<1>1. /\ IsSeq(c) /\ Len(c) = Len(s) /\ Len(s) \in Nat
      /\ \A k \in 1..Len(s) : c[k] = CallStep(s[k], f, Len(s) - k)
  BY Called
<1> HIDE DEF c
<1>2. c = [k \in 1..Len(c) |-> c[k]] /\ u = [k \in 1..Len(u) |-> u[k]]
  BY <1>1, LenProperties DEF IsSeq
<1> QED
  BY <1>1, <1>2 DEF c

(* A caller that exits if its callee fails. *)
LEMMA CallExits ==
  \A w, rest : /\ CallStep(Get(w, "leave"), "exit", rest) = Get(w, "exit")
               /\ CallStep(Test(w, "leave"), "exit", rest) = Test(w, "exit")
               /\ CallStep(Get(w, "exit"), "exit", rest) = Get(w, "exit")
               /\ CallStep(Test(w, "exit"), "exit", rest) = Test(w, "exit")
  BY DEF CallStep, Get, Test, Step

LEMMA GraphList ==
  GraphMain =
    << Get("eal", "exit"), Get("pool", "exit"), Get("configured", "go_on"),
       Get("rxq", "go_on"), Get("txq", "go_on"), Get("started", "go_on"),
       Get("graph", "exit"), Test("graph", "exit"), Loop, Drop({"graph"}),
       Drop({"started"}) >>
<1> DEFINE a == << Get("eal", "exit"), Get("pool", "exit") >>
           b == PortCalls("go_on")
           c == << Get("graph", "exit"), Test("graph", "exit"), Loop, Drop({"graph"}),
                  Drop({"started"}) >>
           d == << Get("eal", "exit"), Get("pool", "exit"), Get("configured", "go_on"),
                  Get("rxq", "go_on"), Get("txq", "go_on"), Get("started", "go_on") >>
           e == << Get("eal", "exit"), Get("pool", "exit"), Get("configured", "go_on"),
                  Get("rxq", "go_on"), Get("txq", "go_on"), Get("started", "go_on"),
                  Get("graph", "exit"), Test("graph", "exit"), Loop, Drop({"graph"}),
                  Drop({"started"}) >>
<1>1. IsSeq(a) /\ IsSeq(b) /\ IsSeq(c) /\ IsSeq(d) /\ IsSeq(e)
  BY a \in Seq({a[k] : k \in 1..2}), b \in Seq({b[k] : k \in 1..4}),
     c \in Seq({c[k] : k \in 1..5}), d \in Seq({d[k] : k \in 1..6}),
     e \in Seq({e[k] : k \in 1..11})
     DEF IsSeq, PortCalls
<1>2. a \o b = d
  <2>1. Len(d) = Len(a) + Len(b) /\ \A k \in 1..Len(a) : d[k] = a[k]
    BY DEF PortCalls
  <2>2. \A k \in 1..Len(b) : d[Len(a) + k] = b[k]
    BY DEF PortCalls
  <2> HIDE DEF a, b, d
  <2> QED
    BY <1>1, <2>1, <2>2, JoinedIs
<1>3. d \o c = e
  <2>1. Len(e) = Len(d) + Len(c) /\ \A k \in 1..Len(d) : e[k] = d[k]
    BY DEF PortCalls
  <2>2. \A k \in 1..Len(c) : e[Len(d) + k] = c[k]
    BY DEF PortCalls
  <2> HIDE DEF c, d, e
  <2> QED
    BY <1>1, <2>1, <2>2, JoinedIs
<1> QED
  BY <1>2, <1>3 DEF GraphMain, PortCalls

LEMMA MeterList ==
  meter_main =
    << Get("eal", "exit"), Get("pool", "exit"), Get("configured", "exit"),
       Get("rxq", "exit"), Get("txq", "exit"), Get("started", "exit"),
       Get("profile", "exit"), Get("policy", "exit"), Get("meter", "exit"),
       Get("flow", "exit"), Loop >>
<1> DEFINE a == << Get("eal", "exit"), Get("pool", "exit") >>
           b == PortCalls("exit")
           c == << Get("eal", "exit"), Get("pool", "exit"), Get("configured", "exit"),
                  Get("rxq", "exit"), Get("txq", "exit"), Get("started", "exit") >>
           d == << Get("profile", "exit") >>
           e == << Get("eal", "exit"), Get("pool", "exit"), Get("configured", "exit"),
                  Get("rxq", "exit"), Get("txq", "exit"), Get("started", "exit"),
                  Get("profile", "exit") >>
           f == << Get("policy", "exit"), Get("meter", "exit") >>
           g == << Get("eal", "exit"), Get("pool", "exit"), Get("configured", "exit"),
                  Get("rxq", "exit"), Get("txq", "exit"), Get("started", "exit"),
                  Get("profile", "exit"), Get("policy", "exit"), Get("meter", "exit") >>
           h == << Get("flow", "exit"), Loop >>
           i == << Get("eal", "exit"), Get("pool", "exit"), Get("configured", "exit"),
                  Get("rxq", "exit"), Get("txq", "exit"), Get("started", "exit"),
                  Get("profile", "exit"), Get("policy", "exit"), Get("meter", "exit"),
                  Get("flow", "exit"), Loop >>
<1>1. /\ IsSeq(a) /\ IsSeq(b) /\ IsSeq(c) /\ IsSeq(d) /\ IsSeq(e)
      /\ IsSeq(f) /\ IsSeq(g) /\ IsSeq(h) /\ IsSeq(i)
  BY a \in Seq({a[k] : k \in 1..2}), b \in Seq({b[k] : k \in 1..4}),
     c \in Seq({c[k] : k \in 1..6}), d \in Seq({d[k] : k \in 1..1}),
     e \in Seq({e[k] : k \in 1..7}), f \in Seq({f[k] : k \in 1..2}),
     g \in Seq({g[k] : k \in 1..9}), h \in Seq({h[k] : k \in 1..2}),
     i \in Seq({i[k] : k \in 1..11})
     DEF IsSeq, PortCalls
<1>2. a \o b = c
  <2>1. Len(c) = Len(a) + Len(b) /\ \A k \in 1..Len(a) : c[k] = a[k]
    BY DEF PortCalls
  <2>2. \A k \in 1..Len(b) : c[Len(a) + k] = b[k]
    BY DEF PortCalls
  <2> HIDE DEF a, b, c
  <2> QED
    BY <1>1, <2>1, <2>2, JoinedIs
<1>3. c \o d = e
  <2>1. Len(e) = Len(c) + Len(d) /\ \A k \in 1..Len(c) : e[k] = c[k]
    BY DEF PortCalls
  <2>2. \A k \in 1..Len(d) : e[Len(c) + k] = d[k]
    BY DEF PortCalls
  <2> HIDE DEF c, d, e
  <2> QED
    BY <1>1, <2>1, <2>2, JoinedIs
<1>4. e \o f = g
  <2>1. Len(g) = Len(e) + Len(f) /\ \A k \in 1..Len(e) : g[k] = e[k]
    BY DEF PortCalls
  <2>2. \A k \in 1..Len(f) : g[Len(e) + k] = f[k]
    BY DEF PortCalls
  <2> HIDE DEF e, f, g
  <2> QED
    BY <1>1, <2>1, <2>2, JoinedIs
<1>5. g \o h = i
  <2>1. Len(i) = Len(g) + Len(h) /\ \A k \in 1..Len(g) : i[k] = g[k]
    BY DEF PortCalls
  <2>2. \A k \in 1..Len(h) : i[Len(g) + k] = h[k]
    BY DEF PortCalls
  <2> HIDE DEF g, h, i
  <2> QED
    BY <1>1, <2>1, <2>2, JoinedIs
<1> QED
  BY <1>2, <1>3, <1>4, <1>5
     DEF meter_main, meter_port, meter_profile, meter_policy, meter_flow, PortCalls

LEMMA PrefetchList ==
  prefetch_main =
    << Get("eal", "exit"), Test("port", "exit"), Get("pool", "exit"), Test("port", "exit"),
       Get("configured", "exit"), Get("rxq", "exit"), Get("txq", "exit"),
       Get("started", "exit"), Loop >>
<1> DEFINE a == << Test("port", "leave") >>
           b == PortCalls("leave")
           c == << Test("port", "leave"), Get("configured", "leave"), Get("rxq", "leave"),
                  Get("txq", "leave"), Get("started", "leave") >>
           d == << Test("port", "exit"), Get("configured", "exit"), Get("rxq", "exit"),
                  Get("txq", "exit"), Get("started", "exit") >>
           e == << Get("eal", "exit"), Test("port", "exit"), Get("pool", "exit") >>
           f == << Get("eal", "exit"), Test("port", "exit"), Get("pool", "exit"),
                  Test("port", "exit"), Get("configured", "exit"), Get("rxq", "exit"),
                  Get("txq", "exit"), Get("started", "exit") >>
           g == << Loop >>
           h == << Get("eal", "exit"), Test("port", "exit"), Get("pool", "exit"),
                  Test("port", "exit"), Get("configured", "exit"), Get("rxq", "exit"),
                  Get("txq", "exit"), Get("started", "exit"), Loop >>
<1>1. /\ IsSeq(a) /\ IsSeq(b) /\ IsSeq(c) /\ IsSeq(d) /\ IsSeq(e)
      /\ IsSeq(f) /\ IsSeq(g) /\ IsSeq(h)
  BY a \in Seq({a[k] : k \in 1..1}), b \in Seq({b[k] : k \in 1..4}),
     c \in Seq({c[k] : k \in 1..5}), d \in Seq({d[k] : k \in 1..5}),
     e \in Seq({e[k] : k \in 1..3}), f \in Seq({f[k] : k \in 1..8}),
     g \in Seq({g[k] : k \in 1..1}), h \in Seq({h[k] : k \in 1..9})
     DEF IsSeq, PortCalls
<1>2. a \o b = c
  <2>1. Len(c) = Len(a) + Len(b) /\ \A k \in 1..Len(a) : c[k] = a[k]
    BY DEF PortCalls
  <2>2. \A k \in 1..Len(b) : c[Len(a) + k] = b[k]
    BY DEF PortCalls
  <2> HIDE DEF a, b, c
  <2> QED
    BY <1>1, <2>1, <2>2, JoinedIs
<1>3. Call(c, "exit") = d
  <2>1. Len(d) = Len(c) /\ \A k \in 1..Len(c) : d[k] = CallStep(c[k], "exit", Len(c) - k)
    BY CallExits DEF PortCalls
  <2> HIDE DEF c, d
  <2> QED
    BY <1>1, <2>1, CalledIs
<1>4. e \o d = f
  <2>1. Len(f) = Len(e) + Len(d) /\ \A k \in 1..Len(e) : f[k] = e[k]
    BY DEF PortCalls
  <2>2. \A k \in 1..Len(d) : f[Len(e) + k] = d[k]
    BY DEF PortCalls
  <2> HIDE DEF d, e, f
  <2> QED
    BY <1>1, <2>1, <2>2, JoinedIs
<1>5. f \o g = h
  <2>1. Len(h) = Len(f) + Len(g) /\ \A k \in 1..Len(f) : h[k] = f[k]
    BY DEF PortCalls
  <2>2. \A k \in 1..Len(g) : h[Len(f) + k] = g[k]
    BY DEF PortCalls
  <2> HIDE DEF f, g, h
  <2> QED
    BY <1>1, <2>1, <2>2, JoinedIs
<1> QED
  BY <1>2, <1>3, <1>4, <1>5 DEF prefetch_main, prefetch_port_init, PortCalls

LEMMA PortInit2List ==
  port_init2_main =
    << Get("eal", "exit"), Get("pool", "exit"), [Test("port", "skip") EXCEPT !.over = 5],
       Test("port", "exit"), Get("configured", "exit"), Get("rxq", "exit"),
       Get("txq", "exit"), Get("started", "exit"), Loop >>
<1> DEFINE skip == [Test("port", "skip") EXCEPT !.over = 5]
<1> HIDE DEF skip
<1> DEFINE a == << Test("port", "leave") >>
           b == PortCalls("leave")
           c == << Test("port", "leave"), Get("configured", "leave"), Get("rxq", "leave"),
                  Get("txq", "leave"), Get("started", "leave") >>
           d == << Test("port", "exit"), Get("configured", "exit"), Get("rxq", "exit"),
                  Get("txq", "exit"), Get("started", "exit") >>
           e == << skip >>
           f == << skip, Test("port", "exit"),
                  Get("configured", "exit"), Get("rxq", "exit"), Get("txq", "exit"),
                  Get("started", "exit") >>
           g == << Get("eal", "exit"), Get("pool", "exit") >>
           h == << Get("eal", "exit"), Get("pool", "exit"),
                  skip, Test("port", "exit"),
                  Get("configured", "exit"), Get("rxq", "exit"), Get("txq", "exit"),
                  Get("started", "exit") >>
           i == << Loop >>
           j == << Get("eal", "exit"), Get("pool", "exit"),
                  skip, Test("port", "exit"),
                  Get("configured", "exit"), Get("rxq", "exit"), Get("txq", "exit"),
                  Get("started", "exit"), Loop >>
<1>1. /\ IsSeq(a) /\ IsSeq(b) /\ IsSeq(c) /\ IsSeq(d) /\ IsSeq(e)
      /\ IsSeq(f) /\ IsSeq(g) /\ IsSeq(h) /\ IsSeq(i) /\ IsSeq(j)
  BY a \in Seq({a[k] : k \in 1..1}), b \in Seq({b[k] : k \in 1..4}),
     c \in Seq({c[k] : k \in 1..5}), d \in Seq({d[k] : k \in 1..5}),
     e \in Seq({e[k] : k \in 1..1}), f \in Seq({f[k] : k \in 1..6}),
     g \in Seq({g[k] : k \in 1..2}), h \in Seq({h[k] : k \in 1..8}),
     i \in Seq({i[k] : k \in 1..1}), j \in Seq({j[k] : k \in 1..9})
     DEF IsSeq, PortCalls
<1>2. a \o b = c
  <2>1. Len(c) = Len(a) + Len(b) /\ \A k \in 1..Len(a) : c[k] = a[k]
    BY DEF PortCalls
  <2>2. \A k \in 1..Len(b) : c[Len(a) + k] = b[k]
    BY DEF PortCalls
  <2> HIDE DEF a, b, c
  <2> QED
    BY <1>1, <2>1, <2>2, JoinedIs
<1>3. Call(c, "exit") = d
  <2>1. Len(d) = Len(c) /\ \A k \in 1..Len(c) : d[k] = CallStep(c[k], "exit", Len(c) - k)
    BY CallExits DEF PortCalls
  <2> HIDE DEF c, d
  <2> QED
    BY <1>1, <2>1, CalledIs
<1>4. e \o d = f
  <2>1. Len(f) = Len(e) + Len(d) /\ \A k \in 1..Len(e) : f[k] = e[k]
    BY DEF PortCalls
  <2>2. \A k \in 1..Len(d) : f[Len(e) + k] = d[k]
    BY DEF PortCalls
  <2> HIDE DEF d, e, f
  <2> QED
    BY <1>1, <2>1, <2>2, JoinedIs
<1>5. g \o f = h
  <2>1. Len(h) = Len(g) + Len(f) /\ \A k \in 1..Len(g) : h[k] = g[k]
    BY DEF PortCalls
  <2>2. \A k \in 1..Len(f) : h[Len(g) + k] = f[k]
    BY DEF PortCalls
  <2> HIDE DEF f, g, h
  <2> QED
    BY <1>1, <2>1, <2>2, JoinedIs
<1>6. h \o i = j
  <2>1. Len(j) = Len(h) + Len(i) /\ \A k \in 1..Len(h) : j[k] = h[k]
    BY DEF PortCalls
  <2>2. \A k \in 1..Len(i) : j[Len(h) + k] = i[k]
    BY DEF PortCalls
  <2> HIDE DEF h, i, j
  <2> QED
    BY <1>1, <2>1, <2>2, JoinedIs
<1>7. ForeachDev(d) = e \o d
  BY DEF ForeachDev, skip
<1> HIDE DEF a, b, c, d, e, f, g, h, i
<1>8. port_init2_port_init = c
  BY <1>2 DEF port_init2_port_init, a, b
<1>9. port_init2_main = j
  BY <1>3, <1>4, <1>5, <1>6, <1>7, <1>8 DEF port_init2_main, g, i
<1> QED
  BY <1>9 DEF skip

LEMMA AclList ==
  ACL_DPDK_2_main =
    << Get("eal", "exit"), Get("pool", "exit"), Test("port", "exit"),
       Get("configured", "exit"), Get("rxq", "exit"), Get("txq", "exit"),
       Get("started", "exit"), Get("acl", "exit"), Get("rules", "exit"),
       Get("tables", "exit"), Loop, Drop({"acl"}), Drop({"started"}), Drop({"eal"}) >>
<1> DEFINE a == PortCalls("leave")
           b == << Get("configured", "exit"), Get("rxq", "exit"), Get("txq", "exit"),
                  Get("started", "exit") >>
           c == << Get("acl", "leave"), Get("rules", "leave"), Get("tables", "leave") >>
           d == << Get("acl", "exit"), Get("rules", "exit"), Get("tables", "exit") >>
           e == << Get("eal", "exit"), Get("pool", "exit"), Test("port", "exit") >>
           f == << Get("eal", "exit"), Get("pool", "exit"), Test("port", "exit"),
                  Get("configured", "exit"), Get("rxq", "exit"), Get("txq", "exit"),
                  Get("started", "exit") >>
           g == << Get("eal", "exit"), Get("pool", "exit"), Test("port", "exit"),
                  Get("configured", "exit"), Get("rxq", "exit"), Get("txq", "exit"),
                  Get("started", "exit"), Get("acl", "exit"), Get("rules", "exit"),
                  Get("tables", "exit") >>
           h == << Loop, Drop({"acl"}), Drop({"started"}), Drop({"eal"}) >>
           i == << Get("eal", "exit"), Get("pool", "exit"), Test("port", "exit"),
                  Get("configured", "exit"), Get("rxq", "exit"), Get("txq", "exit"),
                  Get("started", "exit"), Get("acl", "exit"), Get("rules", "exit"),
                  Get("tables", "exit"), Loop, Drop({"acl"}), Drop({"started"}),
                  Drop({"eal"}) >>
<1>1. /\ IsSeq(a) /\ IsSeq(b) /\ IsSeq(c) /\ IsSeq(d) /\ IsSeq(e)
      /\ IsSeq(f) /\ IsSeq(g) /\ IsSeq(h) /\ IsSeq(i)
  BY a \in Seq({a[k] : k \in 1..4}), b \in Seq({b[k] : k \in 1..4}),
     c \in Seq({c[k] : k \in 1..3}), d \in Seq({d[k] : k \in 1..3}),
     e \in Seq({e[k] : k \in 1..3}), f \in Seq({f[k] : k \in 1..7}),
     g \in Seq({g[k] : k \in 1..10}), h \in Seq({h[k] : k \in 1..4}),
     i \in Seq({i[k] : k \in 1..14})
     DEF IsSeq, PortCalls
<1>2. Call(a, "exit") = b
  <2>1. Len(b) = Len(a) /\ \A k \in 1..Len(a) : b[k] = CallStep(a[k], "exit", Len(a) - k)
    BY CallExits DEF PortCalls
  <2> HIDE DEF a, b
  <2> QED
    BY <1>1, <2>1, CalledIs
<1>3. Call(c, "exit") = d
  <2>1. Len(d) = Len(c) /\ \A k \in 1..Len(c) : d[k] = CallStep(c[k], "exit", Len(c) - k)
    BY CallExits DEF PortCalls
  <2> HIDE DEF c, d
  <2> QED
    BY <1>1, <2>1, CalledIs
<1>4. e \o b = f
  <2>1. Len(f) = Len(e) + Len(b) /\ \A k \in 1..Len(e) : f[k] = e[k]
    BY DEF PortCalls
  <2>2. \A k \in 1..Len(b) : f[Len(e) + k] = b[k]
    BY DEF PortCalls
  <2> HIDE DEF b, e, f
  <2> QED
    BY <1>1, <2>1, <2>2, JoinedIs
<1>5. f \o d = g
  <2>1. Len(g) = Len(f) + Len(d) /\ \A k \in 1..Len(f) : g[k] = f[k]
    BY DEF PortCalls
  <2>2. \A k \in 1..Len(d) : g[Len(f) + k] = d[k]
    BY DEF PortCalls
  <2> HIDE DEF d, f, g
  <2> QED
    BY <1>1, <2>1, <2>2, JoinedIs
<1>6. g \o h = i
  <2>1. Len(i) = Len(g) + Len(h) /\ \A k \in 1..Len(g) : i[k] = g[k]
    BY DEF PortCalls
  <2>2. \A k \in 1..Len(h) : i[Len(g) + k] = h[k]
    BY DEF PortCalls
  <2> HIDE DEF g, h, i
  <2> QED
    BY <1>1, <2>1, <2>2, JoinedIs
<1> QED
  BY <1>2, <1>3, <1>4, <1>5, <1>6 DEF ACL_DPDK_2_main, ACL_DPDK_2_port_init, build_acl, PortCalls

LEMMA RingList ==
  rte_ring_main =
    << Get("eal", "exit"), Get("ring", "skip"), Use("ring"), Use("ring") >>
<1> DEFINE a == << Get("ring", "leave") >>
           b == << Get("ring", "skip") >>
           c == << Get("eal", "exit") >>
           d == << Get("eal", "exit"), Get("ring", "skip") >>
           e == << Use("ring"), Use("ring") >>
           f == << Get("eal", "exit"), Get("ring", "skip"), Use("ring"), Use("ring") >>
<1>1. /\ IsSeq(a) /\ IsSeq(b) /\ IsSeq(c) /\ IsSeq(d) /\ IsSeq(e)
      /\ IsSeq(f)
  BY a \in Seq({a[k] : k \in 1..1}), b \in Seq({b[k] : k \in 1..1}),
     c \in Seq({c[k] : k \in 1..1}), d \in Seq({d[k] : k \in 1..2}),
     e \in Seq({e[k] : k \in 1..2}), f \in Seq({f[k] : k \in 1..4})
     DEF IsSeq
<1>2. Call(a, "go_on") = b
  <2>1. CallStep(Get("ring", "leave"), "go_on", 0) = Get("ring", "skip")
    BY DEF CallStep, Get, Step
  <2>2. Len(a) = 1 /\ Len(b) = 1 /\ b[1] = CallStep(a[1], "go_on", 0)
    BY <2>1
  <2>3. \A k \in 1..Len(a) : k = 1 /\ Len(a) - k = 0
    BY <2>2
  <2> HIDE DEF a, b
  <2> QED
    BY <1>1, <2>2, <2>3, CalledIs
<1>3. c \o b = d
  <2>1. Len(d) = Len(c) + Len(b) /\ \A k \in 1..Len(c) : d[k] = c[k]
    OBVIOUS
  <2>2. \A k \in 1..Len(b) : d[Len(c) + k] = b[k]
    OBVIOUS
  <2> HIDE DEF b, c, d
  <2> QED
    BY <1>1, <2>1, <2>2, JoinedIs
<1>4. d \o e = f
  <2>1. Len(f) = Len(d) + Len(e) /\ \A k \in 1..Len(d) : f[k] = d[k]
    OBVIOUS
  <2>2. \A k \in 1..Len(e) : f[Len(d) + k] = e[k]
    OBVIOUS
  <2> HIDE DEF d, e, f
  <2> QED
    BY <1>1, <2>1, <2>2, JoinedIs
<1> QED
  BY <1>2, <1>3, <1>4 DEF rte_ring_main, create_ring

-------------------------------------------------------------------------------
(* What the scripts say *)

Plain(st) ==
  /\ st = [op |-> st.op, what |-> st.what, fails |-> st.fails, over |-> st.over, set |-> st.set]
  /\ st.over = 0 /\ (st.op = "launch" => st.what \in {"1", "2", "3", "4"})

LEMMA PlainSteps ==
  ASSUME NEW w, NEW f, NEW set
  PROVE  /\ Plain(Get(w, f)) /\ Plain(GetOrUndo(w, set)) /\ Plain(Test(w, f)) /\ Plain(Use(w))
         /\ Plain(Drop(set)) /\ Plain(Wait) /\ Plain(Loop)
         /\ w \in {"1", "2", "3", "4"} => Plain(Launch(w, set))
  BY DEF Plain, Get, GetOrUndo, Test, Use, Drop, Wait, Loop, Launch, Step

LEMMA Fields ==
  /\ \A w, f : /\ Get(w, f).op = "get" /\ Get(w, f).what = w
               /\ Get(w, f).fails = f /\ Get(w, f).set = {}
               /\ Test(w, f).op = "test" /\ Test(w, f).what = w
               /\ Test(w, f).fails = f /\ Test(w, f).set = {}
  /\ \A w, set : /\ GetOrUndo(w, set).op = "get" /\ GetOrUndo(w, set).what = w
                 /\ GetOrUndo(w, set).fails = "exit" /\ GetOrUndo(w, set).set = set
                 /\ Launch(w, set).op = "launch" /\ Launch(w, set).what = w
                 /\ Launch(w, set).set = set
  /\ \A w : Use(w).op = "use" /\ Use(w).what = w
  /\ \A set : Drop(set).op = "drop" /\ Drop(set).set = set /\ Drop(set).fails = "go_on"
  /\ Wait.op = "wait" /\ Wait.set = {} /\ Loop.op = "loop" /\ Loop.fails = "go_on"
  BY DEF Get, GetOrUndo, Test, Use, Drop, Launch, Wait, Loop, Step

LEMMA PlainScript ==
  ASSUME NEW s, IsSeq(s), \A k \in 1..Len(s) : Plain(s[k])
  PROVE  Closed(s) /\ \A n \in 1..Len(s) : Reached(s, n)
<1>1. Len(s) \in Nat
  BY LenProperties DEF IsSeq
<1>2. ASSUME NEW k \in 1..Len(s) PROVE IsStep(s[k], k, Len(s))
  BY <1>1 DEF Plain, IsStep
<1>3. ASSUME NEW n \in 1..Len(s) PROVE Reached(s, n)
  <2>1. ASSUME NEW k \in 1..(n - 1) PROVE k + s[k].over < n
    <3>1. k \in 1..Len(s)
      BY <1>1
    <3>2. s[k].over = 0
      BY <3>1 DEF Plain
    <3> QED
      BY <3>2
  <2> QED
    BY <2>1 DEF Reached
<1> QED
  BY <1>2, <1>3 DEF Closed

\* The call that gets or tests w, from which the program exits if it fails, comes before
\* step n, and w is not released in between.
Secured(s, n, w) ==
  \E m \in 1..(n - 1) :
    /\ s[m].op \in {"get", "test"} /\ s[m].fails = "exit" /\ s[m].what = w /\ Reached(s, m)
    /\ \A k \in (m + 1)..(n - 1) : s[k].op = "drop" => w \notin s[k].set

\* Who acquires an ACL context or a graph releases it.
Tidied(s) ==
  \A w \in {"acl", "graph"} : \A k \in 1..Len(s) :
    s[k].op = "get" /\ s[k].what = w =>
      \E n \in (k + 1)..Len(s) :
        /\ s[n].op = "drop" /\ w \in s[n].set /\ Reached(s, n)
        /\ \A j \in (n + 1)..Len(s) : s[j].op = "get" => s[j].what # w

\* Who launches an lcore waits afterwards.
Awaited(s) ==
  \A k \in 1..Len(s) :
    s[k].op = "launch" =>
      \E n \in (k + 1)..Len(s) : s[n].op = "wait" /\ Reached(s, n)

\* Uses and Lends: what the steps of a script, and the lcores it launches, dereference.
Uses(s, S) == \A k \in 1..Len(s) : s[k].op = "use" => s[k].what \in S
Lends(s, S) == \A k \in 1..Len(s) : s[k].op = "launch" => s[k].set \subseteq S

LEMMA QuietFacts ==
  ASSUME NEW s, Quiet(s)
  PROVE  Closed(s) /\ Tidied(s) /\ Awaited(s) /\ Uses(s, {}) /\ Lends(s, {})
  BY DEF Quiet, Harmless, Tidied, Awaited, Uses, Lends

LEMMA GraphFacts ==
  LET s == GraphMain
  IN Closed(s) /\ Tidied(s) /\ Awaited(s) /\ Uses(s, {}) /\ Lends(s, {})
<1> DEFINE s == GraphMain
<1>1. IsSeq(s) /\ Len(s) = 11
  <2>1. s \in Seq({s[k] : k \in 1..11}) /\ Len(s) = 11
    BY GraphList
  <2> QED
    BY <2>1 DEF IsSeq
<1>2. \A k \in 1..11 : Plain(s[k])
  BY PlainSteps, GraphList
<1>3. Closed(s) /\ \A n \in 1..11 : Reached(s, n)
  BY <1>1, <1>2, PlainScript
<1>4. /\ s[1] = Get("eal", "exit") /\ s[2] = Get("pool", "exit")
      /\ s[3] = Get("configured", "go_on") /\ s[4] = Get("rxq", "go_on")
      /\ s[5] = Get("txq", "go_on") /\ s[6] = Get("started", "go_on")
      /\ s[7] = Get("graph", "exit") /\ s[8] = Test("graph", "exit") /\ s[9] = Loop
      /\ s[10] = Drop({"graph"}) /\ s[11] = Drop({"started"})
  BY GraphList
<1> HIDE DEF s
<1>5. /\ s[10].op = "drop" /\ s[10].set = {"graph"}
      /\ \A k \in 1..11 :
           /\ s[k].op \notin {"use", "launch"}
           /\ s[k].op = "get" => s[k].what # "acl" /\ (s[k].what = "graph" => k = 7)
  BY <1>4, Fields
<1>6. Tidied(s)
  <2> SUFFICES ASSUME NEW k \in 1..11, s[k].op = "get", s[k].what = "graph"
               PROVE  \E n \in (k + 1)..11 :
                        /\ s[n].op = "drop" /\ "graph" \in s[n].set /\ Reached(s, n)
                        /\ \A j \in (n + 1)..11 : s[j].op = "get" => s[j].what # "graph"
    BY <1>1, <1>5 DEF Tidied
  <2>1. k = 7 /\ 10 \in (k + 1)..11
    BY <1>5
  <2> QED
    BY <1>3, <1>5, <2>1
<1>7. Awaited(s) /\ Uses(s, {}) /\ Lends(s, {})
  BY <1>1, <1>5 DEF Awaited, Uses, Lends
<1> QED
  BY <1>3, <1>6, <1>7 DEF s

\* The firewalls: all they get, and what ACL_DPDK_2 has when it enters its loop.
LEMMA AclFacts ==
  LET s == ACL_DPDK_2_main
  IN /\ Closed(s) /\ Tidied(s) /\ Awaited(s) /\ Uses(s, {}) /\ Lends(s, {})
     /\ \A n \in 1..Len(s) : s[n].op = "loop" => Secured(s, n, "started")
<1> DEFINE s == ACL_DPDK_2_main
<1>1. IsSeq(s) /\ Len(s) = 14
  <2>1. s \in Seq({s[k] : k \in 1..14}) /\ Len(s) = 14
    BY AclList
  <2> QED
    BY <2>1 DEF IsSeq
<1>2. \A k \in 1..14 : Plain(s[k])
  BY PlainSteps, AclList
<1>3. Closed(s) /\ \A n \in 1..14 : Reached(s, n)
  BY <1>1, <1>2, PlainScript
<1>4. /\ s[1] = Get("eal", "exit") /\ s[2] = Get("pool", "exit")
      /\ s[3] = Test("port", "exit") /\ s[4] = Get("configured", "exit")
      /\ s[5] = Get("rxq", "exit") /\ s[6] = Get("txq", "exit")
      /\ s[7] = Get("started", "exit") /\ s[8] = Get("acl", "exit")
      /\ s[9] = Get("rules", "exit") /\ s[10] = Get("tables", "exit") /\ s[11] = Loop
      /\ s[12] = Drop({"acl"}) /\ s[13] = Drop({"started"}) /\ s[14] = Drop({"eal"})
  BY AclList
<1> HIDE DEF s
<1>5. /\ s[12].op = "drop" /\ s[12].set = {"acl"}
      /\ s[7].op = "get" /\ s[7].what = "started" /\ s[7].fails = "exit"
      /\ \A k \in 1..14 :
           /\ s[k].op \notin {"use", "launch"} /\ (s[k].op = "loop" => k = 11)
           /\ s[k].op = "drop" => k > 11
           /\ s[k].op = "get" => s[k].what # "graph" /\ (s[k].what = "acl" => k = 8)
  BY <1>4, Fields
<1>6. Tidied(s)
  <2>1. \A k \in 1..Len(s) : s[k].op = "get" => s[k].what # "graph"
    BY <1>1, <1>5
  <2>2. ASSUME NEW k \in 1..Len(s), s[k].op = "get", s[k].what = "acl"
        PROVE  \E n \in (k + 1)..Len(s) :
                 /\ s[n].op = "drop" /\ "acl" \in s[n].set /\ Reached(s, n)
                 /\ \A j \in (n + 1)..Len(s) : s[j].op = "get" => s[j].what # "acl"
    <3>1. k = 8 /\ 12 \in (k + 1)..Len(s)
      BY <1>1, <1>5, <2>2
    <3>2. \A j \in (12 + 1)..Len(s) : s[j].op = "get" => s[j].what # "acl"
      BY <1>1, <1>5
    <3>3. s[12].op = "drop" /\ "acl" \in s[12].set /\ Reached(s, 12)
      BY <1>3, <1>5
    <3> QED
      BY <3>1, <3>2, <3>3
  <2> QED
    BY <2>1, <2>2 DEF Tidied
<1>7. Awaited(s) /\ Uses(s, {}) /\ Lends(s, {})
  BY <1>1, <1>5 DEF Awaited, Uses, Lends
<1>8. ASSUME NEW n \in 1..14, s[n].op = "loop" PROVE Secured(s, n, "started")
  <2>1. 7 \in 1..(n - 1) /\ \A k \in (7 + 1)..(n - 1) : k \in 1..14 /\ k < 11
    BY <1>5, <1>8
  <2> QED
    BY <1>3, <1>5, <2>1 DEF Secured
<1> QED
  BY <1>1, <1>3, <1>6, <1>7, <1>8 DEF s

LEMMA FirstAclFacts ==
  LET s == ACL_DPDK_main
  IN Closed(s) /\ Tidied(s) /\ Awaited(s) /\ Uses(s, {}) /\ Lends(s, {})
<1> DEFINE s == ACL_DPDK_main
<1>1. IsSeq(s) /\ Len(s) = 7
  BY s \in Seq({s[k] : k \in 1..7}) DEF IsSeq, ACL_DPDK_main
<1>2. \A k \in 1..7 : Plain(s[k])
  BY PlainSteps DEF ACL_DPDK_main
<1>3. Closed(s) /\ \A n \in 1..7 : Reached(s, n)
  BY <1>1, <1>2, PlainScript
<1>4. /\ s[1] = Get("eal", "exit") /\ s[2] = GetOrUndo("acl", {"eal"})
      /\ s[3] = GetOrUndo("rules", {"acl", "eal"})
      /\ s[4] = GetOrUndo("tables", {"acl", "eal"}) /\ s[5] = Loop /\ s[6] = Drop({"acl"})
      /\ s[7] = Drop({"eal"})
  BY DEF ACL_DPDK_main
<1> HIDE DEF s
<1>5. /\ s[6].op = "drop" /\ s[6].set = {"acl"}
      /\ \A k \in 1..7 :
           /\ s[k].op \notin {"use", "launch"}
           /\ s[k].op = "get" => s[k].what # "graph" /\ (s[k].what = "acl" => k = 2)
  BY <1>4, Fields
<1>6. Tidied(s)
  <2> SUFFICES ASSUME NEW k \in 1..7, s[k].op = "get", s[k].what = "acl"
               PROVE  \E n \in (k + 1)..7 :
                        /\ s[n].op = "drop" /\ "acl" \in s[n].set /\ Reached(s, n)
                        /\ \A j \in (n + 1)..7 : s[j].op = "get" => s[j].what # "acl"
    BY <1>1, <1>5 DEF Tidied
  <2>1. k = 2 /\ 6 \in (k + 1)..7
    BY <1>5
  <2> QED
    BY <1>3, <1>5, <2>1
<1>7. Awaited(s) /\ Uses(s, {}) /\ Lends(s, {})
  BY <1>1, <1>5 DEF Awaited, Uses, Lends
<1> QED
  BY <1>3, <1>6, <1>7 DEF s

LEMMA RingFacts ==
  LET s == rte_ring_main
  IN Closed(s) /\ Tidied(s) /\ Awaited(s) /\ Uses(s, {"ring"}) /\ Lends(s, {})
<1> DEFINE s == rte_ring_main
<1>1. IsSeq(s) /\ Len(s) = 4
  <2>1. s \in Seq({s[k] : k \in 1..4}) /\ Len(s) = 4
    BY RingList
  <2> QED
    BY <2>1 DEF IsSeq
<1>2. \A k \in 1..4 : Plain(s[k])
  BY PlainSteps, RingList
<1>3. Closed(s)
  BY <1>1, <1>2, PlainScript
<1>4. /\ s[1] = Get("eal", "exit") /\ s[2] = Get("ring", "skip") /\ s[3] = Use("ring")
      /\ s[4] = Use("ring")
  BY RingList
<1> HIDE DEF s
<1>5. \A k \in 1..4 :
        /\ s[k].op # "launch" /\ (s[k].op = "use" => s[k].what = "ring")
        /\ s[k].op = "get" => s[k].what \notin {"acl", "graph"}
  BY <1>4, Fields
<1>6. Tidied(s) /\ Awaited(s) /\ Uses(s, {"ring"}) /\ Lends(s, {})
  BY <1>1, <1>5 DEF Tidied, Awaited, Uses, Lends
<1> QED
  BY <1>3, <1>6 DEF s

LEMMA LcoreFacts ==
  LET s == lcore_main
  IN Closed(s) /\ Tidied(s) /\ Awaited(s) /\ Uses(s, {}) /\ Lends(s, {})
<1> DEFINE s == lcore_main
<1>1. IsSeq(s) /\ Len(s) = 4
  <2>1. s \in Seq({s[k] : k \in 1..4}) /\ Len(s) = 4
    BY DEF lcore_main
  <2> QED
    BY <2>1 DEF IsSeq
<1>2. /\ s[1] = Get("eal", "exit") /\ s[2] = Launch("1", {}) /\ s[3] = Launch("2", {})
      /\ s[4] = Wait
  BY DEF lcore_main
<1> HIDE DEF s
<1>3. \A k \in 1..4 : Plain(s[k])
  BY <1>2, PlainSteps
<1>4. Closed(s) /\ \A n \in 1..4 : Reached(s, n)
  BY <1>1, <1>3, PlainScript
<1>5. /\ s[4].op = "wait"
      /\ \A k \in 1..4 :
           /\ s[k].op # "use" /\ (s[k].op = "launch" => k < 4 /\ s[k].set = {})
           /\ s[k].op = "get" => s[k].what \notin {"acl", "graph"}
  BY <1>2, Fields
<1>6. Awaited(s)
  BY <1>1, <1>4, <1>5 DEF Awaited
<1>7. Tidied(s) /\ Uses(s, {}) /\ Lends(s, {})
  BY <1>1, <1>5 DEF Tidied, Uses, Lends
<1> QED
  BY <1>4, <1>6, <1>7 DEF s

LEMMA LcoreThreadFacts ==
  LET s == lcore_thread_main
  IN Closed(s) /\ Tidied(s) /\ Uses(s, {}) /\ Lends(s, {})
<1> DEFINE s == lcore_thread_main
<1>1. IsSeq(s) /\ Len(s) = 3
  <2>1. s \in Seq({s[k] : k \in 1..3}) /\ Len(s) = 3
    BY DEF lcore_thread_main
  <2> QED
    BY <2>1 DEF IsSeq
<1>2. /\ s[1] = Get("eal", "exit") /\ s[2] = Launch("2", {}) /\ s[3] = Launch("3", {})
  BY DEF lcore_thread_main
<1> HIDE DEF s
<1>3. \A k \in 1..3 : Plain(s[k])
  BY <1>2, PlainSteps
<1>4. Closed(s) /\ \A n \in 1..3 : Reached(s, n)
  BY <1>1, <1>3, PlainScript
<1>5. \A k \in 1..3 :
        /\ s[k].op # "use" /\ (s[k].op = "launch" => s[k].set = {})
        /\ s[k].op = "get" => s[k].what \notin {"acl", "graph"}
  BY <1>2, Fields
<1>6. Tidied(s) /\ Uses(s, {}) /\ Lends(s, {})
  BY <1>1, <1>5 DEF Tidied, Uses, Lends
<1> QED
  BY <1>4, <1>6 DEF s

\* The lcores of packet_parseer_ring are launched behind the test of the first ring.
LEMMA PipelineFacts ==
  LET s == packet_parseer_ring_main
  IN /\ Closed(s) /\ Tidied(s) /\ Awaited(s) /\ Uses(s, {})
     /\ Lends(s, {"rx_to_parser", "parse_to_tx"})
     /\ \A n \in 1..Len(s) :
          /\ s[n].op # "drop" /\ s[n].set \subseteq {"rx_to_parser", "parse_to_tx"}
          /\ s[n].op = "launch" => Secured(s, n, "started") /\ Secured(s, n, "rx_to_parser")
<1> DEFINE s == packet_parseer_ring_main
<1>1. IsSeq(s) /\ Len(s) = 14
  <2>1. s \in Seq({s[k] : k \in 1..14}) /\ Len(s) = 14
    BY DEF packet_parseer_ring_main
  <2> QED
    BY <2>1 DEF IsSeq
<1>2. /\ s[1] = Get("eal", "exit") /\ s[2] = Get("mem_pool", "exit")
      /\ s[3] = Get("configured", "exit") /\ s[4] = Get("pool", "exit")
      /\ s[5] = Get("rxq", "exit") /\ s[6] = Get("txq", "exit")
      /\ s[7] = Get("started", "exit") /\ s[8] = Get("rx_to_parser", "go_on")
      /\ s[9] = Get("parse_to_tx", "go_on") /\ s[10] = Test("rx_to_parser", "exit")
      /\ s[11] = Launch("1", {"rx_to_parser"})
      /\ s[12] = Launch("2", {"rx_to_parser", "parse_to_tx"})
      /\ s[13] = Launch("3", {"parse_to_tx"}) /\ s[14] = Wait
  BY DEF packet_parseer_ring_main
<1> HIDE DEF s
<1>3. \A k \in 1..14 : Plain(s[k])
  BY <1>2, PlainSteps
<1>4. Closed(s) /\ \A n \in 1..14 : Reached(s, n)
  BY <1>1, <1>3, PlainScript
<1>5. /\ s[14].op = "wait"
      /\ s[7].op = "get" /\ s[7].what = "started" /\ s[7].fails = "exit"
      /\ s[10].op = "test" /\ s[10].what = "rx_to_parser" /\ s[10].fails = "exit"
      /\ \A k \in 1..14 :
           /\ s[k].op \notin {"use", "drop"} /\ (s[k].op = "launch" => k \in 11..13)
           /\ s[k].set \subseteq {"rx_to_parser", "parse_to_tx"}
           /\ s[k].op = "get" => s[k].what \notin {"acl", "graph"}
  BY <1>2, Fields
<1>6. Awaited(s)
  BY <1>1, <1>4, <1>5 DEF Awaited
<1>7. Tidied(s) /\ Uses(s, {}) /\ Lends(s, {"rx_to_parser", "parse_to_tx"})
  BY <1>1, <1>5 DEF Tidied, Uses, Lends
<1>8. ASSUME NEW n \in 1..14, s[n].op = "launch"
      PROVE  Secured(s, n, "started") /\ Secured(s, n, "rx_to_parser")
  <2>1. 7 \in 1..(n - 1) /\ 10 \in 1..(n - 1) /\ \A k \in 1..(n - 1) : s[k].op # "drop"
    BY <1>5, <1>8
  <2>2. /\ \A k \in (7 + 1)..(n - 1) : s[k].op # "drop"
        /\ \A k \in (10 + 1)..(n - 1) : s[k].op # "drop"
    BY <2>1
  <2> QED
    BY <1>4, <1>5, <2>1, <2>2 DEF Secured
<1> QED
  BY <1>1, <1>4, <1>5, <1>6, <1>7, <1>8 DEF s

LEMMA PrefetchFacts ==
  LET s == prefetch_main
  IN \A n \in 1..Len(s) : s[n].op = "loop" => Secured(s, n, "started")
<1> DEFINE s == prefetch_main
<1>1. IsSeq(s) /\ Len(s) = 9
  <2>1. s \in Seq({s[k] : k \in 1..9}) /\ Len(s) = 9
    BY PrefetchList
  <2> QED
    BY <2>1 DEF IsSeq
<1>2. /\ s[1] = Get("eal", "exit") /\ s[2] = Test("port", "exit")
      /\ s[3] = Get("pool", "exit") /\ s[4] = Test("port", "exit")
      /\ s[5] = Get("configured", "exit") /\ s[6] = Get("rxq", "exit")
      /\ s[7] = Get("txq", "exit") /\ s[8] = Get("started", "exit") /\ s[9] = Loop
  BY PrefetchList
<1> HIDE DEF s
<1>3. \A k \in 1..9 : Plain(s[k])
  BY <1>2, PlainSteps
<1>4. Closed(s) /\ \A n \in 1..9 : Reached(s, n)
  BY <1>1, <1>3, PlainScript
<1>5. /\ s[8].op = "get" /\ s[8].what = "started" /\ s[8].fails = "exit"
      /\ \A k \in 1..9 : s[k].op # "drop" /\ (s[k].op = "loop" => k = 9)
  BY <1>2, Fields
<1>6. ASSUME NEW n \in 1..9, s[n].op = "loop" PROVE Secured(s, n, "started")
  <2>1. 8 \in 1..(n - 1) /\ \A k \in (8 + 1)..(n - 1) : s[k].op # "drop"
    BY <1>5, <1>6
  <2> QED
    BY <1>4, <1>5, <2>1 DEF Secured
<1> QED
  BY <1>1, <1>6 DEF s

LEMMA MeterFacts ==
  LET s == meter_main
  IN \A n \in 1..Len(s) : s[n].op = "loop" => Secured(s, n, "started")
<1> DEFINE s == meter_main
<1>1. IsSeq(s) /\ Len(s) = 11
  <2>1. s \in Seq({s[k] : k \in 1..11}) /\ Len(s) = 11
    BY MeterList
  <2> QED
    BY <2>1 DEF IsSeq
<1>2. /\ s[1] = Get("eal", "exit") /\ s[2] = Get("pool", "exit")
      /\ s[3] = Get("configured", "exit") /\ s[4] = Get("rxq", "exit")
      /\ s[5] = Get("txq", "exit") /\ s[6] = Get("started", "exit")
      /\ s[7] = Get("profile", "exit") /\ s[8] = Get("policy", "exit")
      /\ s[9] = Get("meter", "exit") /\ s[10] = Get("flow", "exit") /\ s[11] = Loop
  BY MeterList
<1> HIDE DEF s
<1>3. \A k \in 1..11 : Plain(s[k])
  BY <1>2, PlainSteps
<1>4. Closed(s) /\ \A n \in 1..11 : Reached(s, n)
  BY <1>1, <1>3, PlainScript
<1>5. /\ s[6].op = "get" /\ s[6].what = "started" /\ s[6].fails = "exit"
      /\ \A k \in 1..11 : s[k].op # "drop" /\ (s[k].op = "loop" => k = 11)
  BY <1>2, Fields
<1>6. ASSUME NEW n \in 1..11, s[n].op = "loop" PROVE Secured(s, n, "started")
  <2>1. 6 \in 1..(n - 1) /\ \A k \in (6 + 1)..(n - 1) : s[k].op # "drop"
    BY <1>5, <1>6
  <2> QED
    BY <1>4, <1>5, <2>1 DEF Secured
<1> QED
  BY <1>1, <1>6 DEF s

\* The steps of port_init go on behind it, none behind the wait.
LEMMA EventFacts ==
  LET s == eventdev_packet_parsing_main
  IN Closed(s) /\ Tidied(s) /\ Awaited(s) /\ Uses(s, {}) /\ Lends(s, {})
<1> DEFINE s == eventdev_packet_parsing_main
           init == << Get("eal", "exit") >> \o Call(eventdev_packet_parsing_port_init, "go_on")
                   \o EventDevice("exit")
           t == << Get("evstart", "exit"), Launch("2", {}), Launch("3", {}), Launch("4", {}),
                   Wait, Drop({"evstart"}), Drop({"eal"}) >>
<1>1. Quiet(init)
  <2>1. Quiet(<< Get("pool", "leave") >>) /\ Quiet(<< Get("eal", "exit") >>)
    BY CalmSteps, Calm1
  <2>2. Quiet(PortCalls("leave")) /\ Quiet(EventDevice("exit"))
    BY CalmSteps, Calm4 DEF PortCalls, EventDevice
  <2>3. Quiet(eventdev_packet_parsing_port_init)
    BY <2>1, <2>2, QuietJoined DEF eventdev_packet_parsing_port_init
  <2> QED
    BY <2>1, <2>2, <2>3, QuietCalled, QuietJoined
<1>2. IsSeq(t) /\ Len(t) = 7
  <2>1. t \in Seq({t[k] : k \in 1..7}) /\ Len(t) = 7
    OBVIOUS
  <2> QED
    BY <2>1 DEF IsSeq
<1>3. /\ t[1] = Get("evstart", "exit") /\ t[2] = Launch("2", {}) /\ t[3] = Launch("3", {})
      /\ t[4] = Launch("4", {}) /\ t[5] = Wait /\ t[6] = Drop({"evstart"}) /\ t[7] = Drop({"eal"})
  OBVIOUS
<1>4. s = init \o t
  BY DEF eventdev_packet_parsing_main
<1> HIDE DEF s, init, t
<1>5. \A k \in 1..7 : Plain(t[k])
  BY <1>3, PlainSteps
<1>6. Closed(t) /\ \A n \in 1..7 : Reached(t, n)
  BY <1>2, <1>5, PlainScript
<1>7. /\ t[5].op = "wait"
      /\ \A k \in 1..7 :
           /\ t[k].op # "use" /\ (t[k].op = "launch" => k < 5 /\ t[k].set = {})
           /\ t[k].op = "get" => t[k].what \notin {"acl", "graph"}
  BY <1>3, Fields
<1>8. Closed(s)
  BY <1>1, <1>4, <1>6, ClosedJoined DEF Quiet
<1>9. /\ Len(init) \in Nat /\ Len(s) = Len(init) + 7
      /\ \A k \in 1..Len(init) : s[k] = init[k]
      /\ \A k \in 1..7 : s[Len(init) + k] = t[k]
      /\ \A k \in 1..Len(s) : k \in 1..Len(init) \/ \E j \in 1..7 : k = Len(init) + j
  <2>1. IsSeq(init) /\ IsSeq(t)
    BY <1>1, <1>2 DEF Quiet, Closed
  <2>2. /\ IsSeq(init \o t) /\ Len(init) \in Nat /\ Len(t) \in Nat
        /\ Len(init \o t) = Len(init) + Len(t)
        /\ \A k \in 1..Len(init) : (init \o t)[k] = init[k]
        /\ \A k \in 1..Len(t) : (init \o t)[Len(init) + k] = t[k]
        /\ \A k \in 1..Len(init \o t) :
             k \in 1..Len(init) \/ \E j \in 1..Len(t) : k = Len(init) + j
    BY <2>1, Joined
  <2> QED
    BY <1>2, <1>4, <2>2
<1>10. \A k \in 1..Len(s) :
         /\ s[k].op # "use"
         /\ s[k].op = "launch" => k < Len(init) + 5 /\ s[k].set = {}
         /\ s[k].op = "get" => s[k].what \notin {"acl", "graph"}
  <2> TAKE k \in 1..Len(s)
  <2>1. CASE k \in 1..Len(init)
    <3>1. Harmless(s[k])
      BY <1>1, <1>9, <2>1 DEF Quiet
    <3> QED
      BY <3>1 DEF Harmless
  <2>2. ASSUME NEW j \in 1..7, k = Len(init) + j
        PROVE  /\ s[k].op # "use"
               /\ s[k].op = "launch" => k < Len(init) + 5 /\ s[k].set = {}
               /\ s[k].op = "get" => s[k].what \notin {"acl", "graph"}
    <3>1. s[k] = t[j]
      BY <1>9, <2>2
    <3>2. /\ t[j].op # "use" /\ (t[j].op = "launch" => j < 5 /\ t[j].set = {})
          /\ t[j].op = "get" => t[j].what \notin {"acl", "graph"}
      BY <1>7, <2>2
    <3>3. j < 5 => k < Len(init) + 5
      BY <1>9, <2>2
    <3> QED
      BY <3>1, <3>2, <3>3
  <2> QED
    BY <1>9, <2>1, <2>2
<1>11. Reached(s, Len(init) + 5) /\ s[Len(init) + 5].op = "wait"
  <2>1. ASSUME NEW k \in 1..(Len(init) + 4) PROVE k + s[k].over < Len(init) + 5
    <3>1. CASE k \in 1..Len(init)
      <4>1. init[k].over \in Nat /\ k + init[k].over <= Len(init)
        BY <1>1, <3>1, Overs DEF Quiet
      <4>2. s[k] = init[k] /\ Len(init) \in Nat
        BY <1>9, <3>1
      <4> QED
        BY <3>1, <4>1, <4>2
    <3>2. ASSUME NEW j \in 1..7, k = Len(init) + j PROVE k + s[k].over < Len(init) + 5
      <4>1. t[j].over = 0
        BY <1>5 DEF Plain
      <4>2. s[k] = t[j] /\ Len(init) \in Nat
        BY <1>9, <3>2
      <4>3. k < Len(init) + 5 /\ k \in Nat
        BY <2>1, <4>2
      <4> QED
        BY <4>1, <4>2, <4>3
    <3> QED
      BY <1>9, <2>1, <3>1, <3>2
  <2>2. Len(init) + 5 - 1 = Len(init) + 4
    BY <1>9
  <2> QED
    BY <1>7, <1>9, <2>1, <2>2 DEF Reached
<1>12. Awaited(s)
  <2> SUFFICES ASSUME NEW k \in 1..Len(s), s[k].op = "launch"
               PROVE  \E n \in (k + 1)..Len(s) : s[n].op = "wait" /\ Reached(s, n)
    BY DEF Awaited
  <2>1. Len(init) + 5 \in (k + 1)..Len(s)
    BY <1>9, <1>10
  <2> QED
    BY <1>11, <2>1
<1>13. Tidied(s) /\ Uses(s, {}) /\ Lends(s, {})
  BY <1>10 DEF Tidied, Uses, Lends
<1> QED
  BY <1>8, <1>12, <1>13 DEF s

-------------------------------------------------------------------------------
(* Every program's script *)

\* What the script of program p has to be like.
Fit(p, s) ==
  /\ Closed(s) /\ Tidied(s) /\ (p # "lcore_thread" => Awaited(s))
  /\ Uses(s, IF p = "rte_ring_single" THEN {"ring"} ELSE {})
  /\ Lends(s, IF p = "packet_parseer_ring" THEN {"rx_to_parser", "parse_to_tx"} ELSE {})

LEMMA ScriptsFit == \A p \in Programs : Fit(p, Script[p])
<1>1. Programs =
    { "prefetch", "packet_parsing", "port_init", "port_init2", "meter_dpdk",
      "mem_info", "vhost", "vhost_tx", "ACL_DPDK", "ACL_DPDK_2", "graph_dpdk",
      "two_source_graph", "disable_node", "mem_pool", "mem_pool2", "mem_info2",
      "rte_ring_single", "ipc_ring_pri_sec", "timer_dpdk", "reorder_2", "reorder_packet",
      "reorder_packet2", "fragmentation", "lcore", "lcore_thread", "packet_parseer_ring",
      "beginner_eventdev", "eventdev_packet_parsing", "ipc_eventdev", "ipc_eventdev2" }
  BY DEF Programs, Script
<1>2. /\ Script["prefetch"] = prefetch_main /\ Script["packet_parsing"] = packet_parsing_main
      /\ Script["port_init"] = port_init_main /\ Script["port_init2"] = port_init2_main
      /\ Script["meter_dpdk"] = meter_main /\ Script["mem_info"] = mem_info_main
      /\ Script["vhost"] = vhost_main /\ Script["vhost_tx"] = vhost_tx_main
      /\ Script["ACL_DPDK"] = ACL_DPDK_main /\ Script["ACL_DPDK_2"] = ACL_DPDK_2_main
      /\ Script["graph_dpdk"] = graph_dpdk_main
      /\ Script["two_source_graph"] = two_source_graph_main
      /\ Script["disable_node"] = disable_node_main /\ Script["mem_pool"] = mem_pool_main
      /\ Script["mem_pool2"] = mem_pool2_main /\ Script["mem_info2"] = mem_info2_main
      /\ Script["rte_ring_single"] = rte_ring_main
      /\ Script["ipc_ring_pri_sec"] = ipc_ring_main /\ Script["timer_dpdk"] = timer_main
      /\ Script["reorder_2"] = reorder_2_main
      /\ Script["reorder_packet"] = reorder_packet_main
      /\ Script["reorder_packet2"] = reorder_packet2_main
      /\ Script["fragmentation"] = fragmentation_main /\ Script["lcore"] = lcore_main
      /\ Script["lcore_thread"] = lcore_thread_main
      /\ Script["packet_parseer_ring"] = packet_parseer_ring_main
      /\ Script["beginner_eventdev"] = beginner_eventdev_main
      /\ Script["eventdev_packet_parsing"] = eventdev_packet_parsing_main
      /\ Script["ipc_eventdev"] = ipc_eventdev_main
      /\ Script["ipc_eventdev2"] = ipc_eventdev2_main
  BY DEF Script
<1>3. /\ Fit("prefetch", prefetch_main) /\ Fit("packet_parsing", packet_parsing_main)
      /\ Fit("port_init", port_init_main) /\ Fit("port_init2", port_init2_main)
      /\ Fit("meter_dpdk", meter_main) /\ Fit("mem_info", mem_info_main)
      /\ Fit("vhost", vhost_main) /\ Fit("vhost_tx", vhost_tx_main)
      /\ Fit("mem_pool", mem_pool_main) /\ Fit("mem_pool2", mem_pool2_main)
      /\ Fit("mem_info2", mem_info2_main) /\ Fit("ipc_ring_pri_sec", ipc_ring_main)
      /\ Fit("timer_dpdk", timer_main) /\ Fit("reorder_2", reorder_2_main)
      /\ Fit("reorder_packet", reorder_packet_main)
      /\ Fit("reorder_packet2", reorder_packet2_main)
      /\ Fit("fragmentation", fragmentation_main)
      /\ Fit("beginner_eventdev", beginner_eventdev_main)
      /\ Fit("ipc_eventdev", ipc_eventdev_main) /\ Fit("ipc_eventdev2", ipc_eventdev2_main)
  BY QuietFacts, PollersQuiet, OthersQuiet DEF Fit
<1>4. /\ Fit("ACL_DPDK", ACL_DPDK_main) /\ Fit("ACL_DPDK_2", ACL_DPDK_2_main)
      /\ Fit("graph_dpdk", graph_dpdk_main) /\ Fit("two_source_graph", two_source_graph_main)
      /\ Fit("disable_node", disable_node_main) /\ Fit("rte_ring_single", rte_ring_main)
      /\ Fit("lcore", lcore_main) /\ Fit("lcore_thread", lcore_thread_main)
      /\ Fit("packet_parseer_ring", packet_parseer_ring_main)
      /\ Fit("eventdev_packet_parsing", eventdev_packet_parsing_main)
  BY GraphFacts, AclFacts, FirstAclFacts, RingFacts, LcoreFacts, LcoreThreadFacts,
     PipelineFacts, EventFacts
     DEF Fit, graph_dpdk_main, two_source_graph_main, disable_node_main
<1> QED
  BY <1>1, <1>2, <1>3, <1>4

\* The programs whose loop needs a started port have started it, and port_init2 has if
\* there is one.
LEMMA LoopsStarted ==
  \A p \in {"prefetch", "meter_dpdk", "ACL_DPDK_2"} :
    \A n \in 1..Len(Script[p]) : Script[p][n].op = "loop" => Secured(Script[p], n, "started")
<1>1. /\ Script["prefetch"] = prefetch_main /\ Script["meter_dpdk"] = meter_main
      /\ Script["ACL_DPDK_2"] = ACL_DPDK_2_main
  BY DEF Script
<1> QED
  BY <1>1, PrefetchFacts, MeterFacts, AclFacts

-------------------------------------------------------------------------------
(* main follows its script *)

ScriptInv ==
  program \in Programs /\ Followed(Script[program], at, phase, have, running)

LEMMA ScriptInit == Init => ScriptInv
<1> SUFFICES ASSUME Init PROVE ScriptInv
  OBVIOUS
<1> DEFINE s == Script[program]
<1>1. /\ program \in Programs /\ at = 1 /\ phase = "main"
      /\ have \subseteq {"port", "evdev"} /\ running = {}
  BY DEF Init
<1>2. Len(s) \in Nat
  <2>1. Closed(s)
    BY <1>1, ScriptsFit DEF Fit
  <2> QED
    BY <2>1, LenProperties DEF Closed, IsSeq
<1> HIDE DEF s
<1>3. Standing(s, at, phase)
  BY <1>1, <1>2 DEF Standing
<1>4. Acquired(s, at, have) /\ Sure(s, at, phase, have) /\ Gone(s, at, have)
  <2>1. 1..(at - 1) = {}
    BY <1>1
  <2> QED
    BY <1>1, <2>1 DEF Acquired, Sure, Gone
<1>5. Undone(s, at, phase, have) /\ Launched(s, at, running)
  BY <1>1 DEF Undone, Launched
<1> QED
  BY <1>1, <1>3, <1>4, <1>5 DEF ScriptInv, Followed, s

Moves == Move(Script[program], at, phase, have, running, at', phase', have', running')

LEMMA ScriptMoves ==
  ASSUME ScriptStep
  PROVE  program' = program /\ Moves
<1> DEFINE s == Script[program]
<1>1. CASE Succeed
  <2>1. Gets(s, at, phase, have, running, at', phase', have', running') /\ program' = program
    BY <1>1 DEF Succeed, OnStep, Here, Gets, Goes
  <2> QED
    BY <2>1 DEF Moves, Move
<1>2. CASE Fail
  <2>1. /\ program' = program
        /\ \/ Exits(s, at, phase, have, running, at', phase', have', running')
           \/ Skips(s, at, phase, have, running, at', phase', have', running')
    BY <1>2 DEF Fail, Fails, OnStep, Here, Exits, Skips, Goes
  <2> QED
    BY <2>1 DEF Moves, Move
<1>3. CASE TestStep
  <2>1. /\ program' = program
        /\ \/ Exits(s, at, phase, have, running, at', phase', have', running')
           \/ Skips(s, at, phase, have, running, at', phase', have', running')
           \/ Passes(s, at, phase, have, running, at', phase', have', running')
    BY <1>3 DEF TestStep, Fails, OnStep, Here, Exits, Skips, Passes, Goes
  <2> QED
    BY <2>1 DEF Moves, Move
<1>4. CASE UseStep
  <2>1. /\ program' = program
        /\ \/ Stays(s, at, phase, have, running, at', phase', have', running')
           \/ Passes(s, at, phase, have, running, at', phase', have', running')
    BY <1>4 DEF UseStep, OnStep, Here, Stays, Passes
  <2> QED
    BY <2>1 DEF Moves, Move
<1>5. CASE DropStep
  <2>1. Drops(s, at, phase, have, running, at', phase', have', running') /\ program' = program
    BY <1>5 DEF DropStep, OnStep, Here, Drops, Goes
  <2> QED
    BY <2>1 DEF Moves, Move
<1>6. CASE LaunchStep \/ WaitStep
  <2>1. Passes(s, at, phase, have, running, at', phase', have', running') /\ program' = program
    BY <1>6 DEF LaunchStep, WaitStep, OnStep, Here, Passes
  <2> QED
    BY <2>1 DEF Moves, Move
<1>7. CASE EnterLoop \/ End
  <2>1. Stays(s, at, phase, have, running, at', phase', have', running') /\ program' = program
    BY <1>7 DEF EnterLoop, End, OnStep, Here, Stays
  <2> QED
    BY <2>1 DEF Moves, Move
<1> QED
  BY <1>1, <1>2, <1>3, <1>4, <1>5, <1>6, <1>7 DEF ScriptStep

\* Every other step stays, crashes, lets a worker return or leaves the loop.
LEMMA NextMoves ==
  ASSUME ScriptInv, [Next]_vars
  PROVE  program' = program /\ Moves
<1> DEFINE s == Script[program]
           stays == Stays(s, at, phase, have, running, at', phase', have', running')
           leaves == Passes(s, at, phase, have, running, at', phase', have', running')
<1>1. CASE ScriptStep
  BY <1>1, ScriptMoves
<1>2. CASE UNCHANGED mainVars
  <2>1. program' = program /\ stays
    BY <1>2 DEF mainVars, Stays
  <2> QED
    BY <2>1 DEF Moves, Move
<1>3. CASE AfterLoop /\ phase = "loop" /\ UNCHANGED <<program, have, running>>
  <2>1. program' = program /\ leaves
    BY <1>3 DEF AfterLoop, Passes, ScriptInv, Followed, Standing
  <2> QED
    BY <2>1 DEF Moves, Move
<1>4. CASE /\ UNCHANGED <<program, at, have, running>>
           /\ \/ phase' = phase
              \/ phase \in {"main", "loop"} /\ phase' = "crashed"
  <2>1. program' = program /\ stays
    BY <1>4 DEF Stays
  <2> QED
    BY <2>1 DEF Moves, Move
<1>5. CASE Process
  BY <1>2, <1>3, <1>5 DEF Process, prefetch_lcore_main, meter_loop, vhost_loop, rx_loop,
     mem_info_loop, process_packet, vhost_tx_send, firewall_classify, firewall_send,
     classify_pkt1, FreesBurst, InLoop
<1>6. CASE Graph
  <2>1. CASE graph_dpdk_rx
    <3>1. phase = "loop" /\ UNCHANGED <<program, at, have, running>>
      BY <2>1 DEF graph_dpdk_rx, Runs, InLoop
    <3>2. phase' = phase \/ phase' = "crashed"
      BY <2>1 DEF graph_dpdk_rx
    <3> QED
      BY <1>4, <3>1, <3>2
  <2> QED
    BY <1>2, <1>6, <2>1 DEF Graph, rte_graph_walk, two_source_rx1, two_source_rx2,
       two_source_ipv4, two_source_tx, two_source_drop, disable_node_rx, disable_node_ipv4,
       disable_node_tx, disable_node_drop, RxNode, Ipv4Node, TxNode, DropNode
<1>7. CASE Reorder
  <2>1. CASE \E p \in ReorderPrograms : Insert(p)
    BY <1>2, <2>1 DEF Insert
  <2>2. CASE \E p \in ReorderPrograms : DrainOnce(p) \/ DrainAll(p)
    <3>1. phase = "loop" /\ UNCHANGED <<program, have, running>>
      BY <2>2 DEF DrainOnce, DrainAll, Drain, InLoop
    <3>2. AfterLoop \/ UNCHANGED <<phase, at>>
      BY <2>2 DEF DrainOnce, DrainAll
    <3> QED
      BY <1>3, <1>4, <3>1, <3>2
  <2> QED
    BY <1>7, <2>1, <2>2 DEF Reorder, ReorderPrograms, reorder_2_insert, reorder_packet_insert,
       reorder_packet2_insert, reorder_2_drain, reorder_packet_drain, reorder_packet2_drain
<1>8. CASE QuitLoop
  BY <1>3, <1>8 DEF QuitLoop, InLoop
<1>9. CASE Receive \/ Signal \/ \E m \in nic : TxDone(m)
  <2>1. CASE Signal
    BY <1>4, <2>1 DEF Signal
  <2> QED
    BY <1>2, <1>9, <2>1 DEF Receive, TxDone
<1>10. CASE \E w \in running : Worker(w)
  <2>1. PICK w \in running : phase = "main" /\ (WorkerReturns(w) \/ WorkerCrashes(w))
    BY <1>10 DEF Worker
  <2>2. CASE WorkerReturns(w)
    <3>1. program' = program /\ stays
      BY <2>2 DEF WorkerReturns, Stays
    <3> QED
      BY <3>1 DEF Moves, Move
  <2>3. CASE WorkerCrashes(w)
    BY <1>4, <2>1, <2>3 DEF WorkerCrashes
  <2> QED
    BY <2>1, <2>2, <2>3
<1>11. CASE UNCHANGED vars
  BY <1>2, <1>11 DEF vars, mainVars
<1> QED
  BY <1>1, <1>5, <1>6, <1>7, <1>8, <1>9, <1>10, <1>11 DEF Next, Main

LEMMA ScriptKept ==
  ASSUME ScriptInv, [Next]_vars
  PROVE  ScriptInv'
<1> DEFINE s == Script[program]
<1>1. program' = program /\ Moves
  BY NextMoves
<1>2. program \in Programs /\ Closed(s) /\ Followed(s, at, phase, have, running)
  BY ScriptsFit DEF ScriptInv, Fit
<1>3. Followed(s, at', phase', have', running')
  BY <1>1, <1>2, FollowedKept DEF Moves
<1> QED
  BY <1>1, <1>2, <1>3 DEF ScriptInv

\* Whichever of its calls fail, main has what the calls before it got and did not give
\* back, and the lcores that run were launched and not waited for: the error paths of
\* every main (packet_parseer_ring/main.c:11-98, ACL_DPDK/main.c:99-199 and the others).
THEOREM ScriptIsFollowed == Spec => []ScriptInv
  BY ScriptInit, ScriptKept, PTL DEF Spec

\* A place for each mbuf.
Placed == [Stages -> SUBSET Mbufs]

MbufTypes ==
  /\ free \subseteq Mbufs /\ nic \subseteq Mbufs /\ refused \subseteq Mbufs
  /\ twice \subseteq Mbufs /\ held \in Placed

\* The streams a program without a graph does not have.
Streams ==
  program \notin GraphPrograms =>
    /\ held["ipv4"] = {} /\ held["drop"] = {}
    /\ program # "ACL_DPDK_2" => held["tx"] = {}

PlaceInv == MbufTypes /\ Streams /\ OneOwner /\ LostWasRefused

-------------------------------------------------------------------------------
(* One place for each mbuf *)

\* PlaceInv of program p with these sets in the pool, on the card, refused, freed
\* twice, and in the four arrays and streams.
Placing(p, f, n, r, w, burst, ipv4, tx, drop) ==
  /\ \A S \in {f, n, r, w, burst, ipv4, tx, drop} : S \subseteq Mbufs
  /\ p \notin GraphPrograms => ipv4 = {} /\ drop = {} /\ (p # "ACL_DPDK_2" => tx = {})
  /\ p # "packet_parsing" =>
       /\ w = {} /\ f \cap n = {}
       /\ (burst \cup ipv4 \cup tx \cup drop) \cap (f \cup n) = {}
       /\ burst \cap ipv4 = {} /\ burst \cap tx = {} /\ burst \cap drop = {}
       /\ ipv4 \cap tx = {} /\ ipv4 \cap drop = {} /\ tx \cap drop = {}
  /\ p # "mem_info" =>
       /\ Mbufs \ (f \cup n \cup burst \cup ipv4 \cup tx \cup drop) = r
       /\ r # {} => p \in {"two_source_graph", "disable_node", "ACL_DPDK_2"}

PlacedHere == Placing(program, free, nic, refused, twice,
                 held["burst"], held["ipv4"], held["tx"], held["drop"])

LEMMA PlaceMeans == held \in Placed => (PlaceInv <=> PlacedHere)
<1> SUFFICES ASSUME held \in Placed PROVE PlaceInv <=> PlacedHere
  OBVIOUS
<1> DEFINE burst == held["burst"]  ipv4 == held["ipv4"]  tx == held["tx"]  drop == held["drop"]
<1>1. InProgram = burst \cup ipv4 \cup tx \cup drop
  BY DEF InProgram, Stages
<1>2. \A S \in {burst, ipv4, tx, drop} : S \subseteq Mbufs
  BY DEF Placed, Stages
<1>3. (\A s, t \in Stages : s # t => held[s] \cap held[t] = {}) <=>
        /\ burst \cap ipv4 = {} /\ burst \cap tx = {} /\ burst \cap drop = {}
        /\ ipv4 \cap tx = {} /\ ipv4 \cap drop = {} /\ tx \cap drop = {}
  BY DEF Stages
<1> HIDE DEF burst, ipv4, tx, drop
<1>4. OneOwner <=>
        (program # "packet_parsing" =>
           /\ twice = {} /\ free \cap nic = {}
           /\ (burst \cup ipv4 \cup tx \cup drop) \cap (free \cup nic) = {}
           /\ burst \cap ipv4 = {} /\ burst \cap tx = {} /\ burst \cap drop = {}
           /\ ipv4 \cap tx = {} /\ ipv4 \cap drop = {} /\ tx \cap drop = {})
  BY <1>1, <1>3 DEF OneOwner
<1>5. LostWasRefused <=>
        (program # "mem_info" =>
           /\ Mbufs \ (free \cup nic \cup burst \cup ipv4 \cup tx \cup drop) = refused
           /\ refused # {} => program \in {"two_source_graph", "disable_node", "ACL_DPDK_2"})
  <2>1. free \cup nic \cup InProgram = free \cup nic \cup burst \cup ipv4 \cup tx \cup drop
    BY <1>1
  <2> QED
    BY <2>1 DEF LostWasRefused
<1>6. Streams <=>
        (program \notin GraphPrograms =>
           ipv4 = {} /\ drop = {} /\ (program # "ACL_DPDK_2" => tx = {}))
  BY DEF Streams, burst, ipv4, tx, drop
<1>7. MbufTypes <=> \A S \in {free, nic, refused, twice, burst, ipv4, tx, drop} : S \subseteq Mbufs
  BY <1>2 DEF MbufTypes
<1>8. PlacedHere <=> Placing(program, free, nic, refused, twice, burst, ipv4, tx, drop)
  BY DEF PlacedHere, burst, ipv4, tx, drop
<1> QED
  BY <1>4, <1>5, <1>6, <1>7, <1>8 DEF PlaceInv, Placing

LEMMA PlaceMeansNext == held' \in Placed => (PlaceInv' <=> PlacedHere')
<1>1. (held \in Placed => (PlaceInv <=> PlacedHere))'
  BY PlaceMeans, PTL
<1> QED
  BY <1>1 DEF Placed

LEMMA PlaceInit == Init => PlaceInv
<1> SUFFICES ASSUME Init PROVE PlaceInv
  OBVIOUS
<1>1. held \in Placed /\ \A s \in Stages : held[s] = {}
  BY DEF Init, Nothing, Placed
<1>2. held["burst"] = {} /\ held["ipv4"] = {} /\ held["tx"] = {} /\ held["drop"] = {}
  BY <1>1 DEF Stages
<1>3. PlacedHere
  BY <1>2 DEF PlacedHere, Placing, Init
<1> QED
  BY <1>1, <1>3, PlaceMeans

(* A step after which the arrays and streams hold b, i, t and d. *)
LEMMA PlacedNext ==
  ASSUME NEW b, NEW i, NEW t, NEW d, held' \in Placed,
         held'["burst"] = b, held'["ipv4"] = i, held'["tx"] = t, held'["drop"] = d,
         Placing(program', free', nic', refused', twice', b, i, t, d)
  PROVE  PlaceInv'
<1>1. PlacedHere'
  BY DEF PlacedHere
<1> QED
  BY <1>1, PlaceMeansNext

(* What is known before a step. *)
LEMMA PlacedNow ==
  ASSUME PlaceInv
  PROVE  held \in Placed /\ PlacedHere
<1>1. held \in Placed
  BY DEF PlaceInv, MbufTypes
<1> QED
  BY <1>1, PlaceMeans

LEMMA TxDonePlaces ==
  ASSUME PlaceInv, NEW m \in nic, TxDone(m)
  PROVE  PlaceInv'
<1> DEFINE b == held["burst"]  i == held["ipv4"]  t == held["tx"]  d == held["drop"]
<1>1. held \in Placed /\ Placing(program, free, nic, refused, twice, b, i, t, d)
  BY PlacedNow DEF PlacedHere
<1>2. /\ program' = program /\ refused' = refused /\ held' = held
      /\ nic' = nic \ {m} /\ free' = free \cup {m} /\ twice' = twice \cup ({m} \cap free)
  BY DEF TxDone, Free, mainVars
<1> HIDE DEF b, i, t, d
<1>3. Placing(program', free', nic', refused', twice', b, i, t, d)
  BY <1>1, <1>2 DEF Placing
<1> QED
  BY <1>1, <1>2, <1>3, PlacedNext DEF b, i, t, d

LEMMA ReceivePlaces ==
  ASSUME PlaceInv, Receive
  PROVE  PlaceInv'
<1> DEFINE i == held["ipv4"]  t == held["tx"]  d == held["drop"]
<1>1. held \in Placed /\ Placing(program, free, nic, refused, twice, held["burst"], i, t, d)
  BY PlacedNow DEF PlacedHere
<1>2. held["burst"] = {} /\ i = {} /\ t = {} /\ d = {}
  BY DEF Receive, Nothing, Stages
<1>3. PICK b \in Bursts \ {{}} :
        held' = [held EXCEPT !["burst"] = b] /\ free' = free \ b
  BY DEF Receive
<1>4. b \subseteq free /\ b \subseteq Mbufs
  BY <1>1 DEF Bursts, Placing
<1>5. /\ held' \in Placed /\ held'["burst"] = b
      /\ held'["ipv4"] = i /\ held'["tx"] = t /\ held'["drop"] = d
  BY <1>1, <1>3, <1>4 DEF Placed, Stages
<1>6. program' = program /\ nic' = nic /\ refused' = refused /\ twice' = twice
  BY DEF Receive, mainVars
<1> HIDE DEF i, t, d
<1>7. Placing(program', free', nic', refused', twice', b, i, t, d)
  BY <1>1, <1>2, <1>3, <1>4, <1>6 DEF Placing
<1> QED
  BY <1>5, <1>7, PlacedNext

(* The loops that free their burst, and the one that forgets it. *)
LEMMA FreedPlaces ==
  ASSUME PlaceInv,
         \/ prefetch_lcore_main \/ meter_loop \/ vhost_loop \/ rx_loop
         \/ mem_info_loop
  PROVE  PlaceInv'
<1> DEFINE b == held["burst"]  i == held["ipv4"]  t == held["tx"]  d == held["drop"]
<1>1. held \in Placed /\ Placing(program, free, nic, refused, twice, b, i, t, d)
  BY PlacedNow DEF PlacedHere
<1>2. /\ held' \in Placed /\ held'["burst"] = {}
      /\ held'["ipv4"] = {} /\ held'["tx"] = {} /\ held'["drop"] = {}
  <2>1. held' = Nothing
    BY DEF prefetch_lcore_main, meter_loop, vhost_loop, rx_loop, mem_info_loop, FreesBurst
  <2> QED
    BY <2>1 DEF Nothing, Placed, Stages
<1>3. /\ program \notin GraphPrograms \cup {"ACL_DPDK_2", "packet_parsing"}
      /\ program' = program /\ nic' = nic /\ refused' = refused
      /\ \/ program # "mem_info" /\ free' = free \cup b /\ twice' = twice \cup (b \cap free)
         \/ program = "mem_info" /\ free' = free /\ twice' = twice
  BY DEF prefetch_lcore_main, meter_loop, vhost_loop, rx_loop, mem_info_loop, FreesBurst,
         InLoop, Free, mainVars, GraphPrograms
<1> HIDE DEF b, i, t, d
<1>4. Placing(program', free', nic', refused', twice', {}, {}, {}, {})
  BY <1>1, <1>3 DEF Placing
<1> QED
  BY <1>2, <1>4, PlacedNext

(* The loops that send without a graph. *)
LEMMA SentPlaces ==
  ASSUME PlaceInv, process_packet \/ vhost_tx_send \/ firewall_send
  PROVE  PlaceInv'
<1> DEFINE b == held["burst"]  i == held["ipv4"]  t == held["tx"]  d == held["drop"]
<1>1. held \in Placed /\ Placing(program, free, nic, refused, twice, b, i, t, d)
  BY PlacedNow DEF PlacedHere
<1>2. CASE process_packet
  <2>1. PICK sent \in SUBSET b :
          nic' = nic \cup sent /\ free' = free \cup b /\ twice' = twice \cup (b \ sent)
    BY <1>2 DEF process_packet
  <2>2. /\ held' \in Placed /\ held'["burst"] = {}
        /\ held'["ipv4"] = {} /\ held'["tx"] = {} /\ held'["drop"] = {}
    BY <1>2 DEF process_packet, Nothing, Placed, Stages
  <2>3. program = "packet_parsing" /\ program' = program /\ refused' = refused
    BY <1>2 DEF process_packet, InLoop, mainVars
  <2> HIDE DEF b, i, t, d
  <2>4. Placing(program', free', nic', refused', twice', {}, {}, {}, {})
    BY <1>1, <2>1, <2>3 DEF Placing, GraphPrograms
  <2> QED
    BY <2>2, <2>4, PlacedNext
<1>3. CASE vhost_tx_send
  <2>1. PICK m \in free : \E sent \in SUBSET {m} : nic' = nic \cup sent /\ free' = free \ sent
    BY <1>3 DEF vhost_tx_send
  <2>2. PICK sent \in SUBSET {m} : nic' = nic \cup sent /\ free' = free \ sent
    BY <2>1
  <2>3. /\ program = "vhost_tx" /\ program' = program /\ refused' = refused /\ twice' = twice
        /\ held' = held
    BY <1>3 DEF vhost_tx_send, InLoop
  <2> HIDE DEF b, i, t, d
  <2>4. sent \subseteq free
    BY <2>1, <2>2
  <2>5. Placing(program', free', nic', refused', twice', b, i, t, d)
    BY <1>1, <2>2, <2>3, <2>4 DEF Placing
  <2> QED
    BY <1>1, <2>3, <2>5, PlacedNext DEF b, i, t, d
<1>4. CASE firewall_send
  <2>1. PICK sent \in SUBSET t : nic' = nic \cup sent /\ refused' = refused \cup (t \ sent)
    BY <1>4 DEF firewall_send, Offer
  <2>2. /\ held' \in Placed /\ held'["burst"] = {}
        /\ held'["ipv4"] = {} /\ held'["tx"] = {} /\ held'["drop"] = {}
    BY <1>4 DEF firewall_send, Nothing, Placed, Stages
  <2>3. /\ program = "ACL_DPDK_2" /\ program' = program /\ free' = free /\ twice' = twice
        /\ b = {}
    BY <1>4 DEF firewall_send, InLoop, mainVars
  <2> HIDE DEF b, i, t, d
  <2>4. Placing(program', free', nic', refused', twice', {}, {}, {}, {})
    BY <1>1, <2>1, <2>3 DEF Placing, GraphPrograms
  <2> QED
    BY <2>2, <2>4, PlacedNext
<1> QED
  BY <1>2, <1>3, <1>4

LEMMA ClassifiedPlaces ==
  ASSUME PlaceInv, firewall_classify
  PROVE  PlaceInv'
<1> DEFINE b == held["burst"]  i == held["ipv4"]  t == held["tx"]  d == held["drop"]
<1>1. held \in Placed /\ Placing(program, free, nic, refused, twice, b, i, t, d)
  BY PlacedNow DEF PlacedHere
<1>2. PICK m \in b, f \in AclFrames : Classified(m, ACL_DPDK_2_allows(f))
  BY DEF firewall_classify
<1>3. /\ program = "ACL_DPDK_2" /\ program' = program /\ nic' = nic /\ refused' = refused
  BY DEF firewall_classify, InLoop, mainVars
<1>4. m \in Mbufs /\ b \subseteq Mbufs /\ t \subseteq Mbufs
  BY <1>1 DEF Placing
<1>5. CASE ACL_DPDK_2_allows(f)
  <2>1. /\ held' = [held EXCEPT !["burst"] = @ \ {m}, !["tx"] = @ \cup {m}]
        /\ free' = free /\ twice' = twice
    BY <1>2, <1>5 DEF Classified
  <2>2. /\ held' \in Placed /\ held'["burst"] = b \ {m}
        /\ held'["ipv4"] = i /\ held'["tx"] = t \cup {m} /\ held'["drop"] = d
    BY <1>1, <1>4, <2>1 DEF Placed, Stages
  <2> HIDE DEF b, i, t, d
  <2>3. Placing(program', free', nic', refused', twice', b \ {m}, i, t \cup {m}, d)
    BY <1>1, <1>3, <1>4, <2>1 DEF Placing
  <2> QED
    BY <2>2, <2>3, PlacedNext
<1>6. CASE ~ACL_DPDK_2_allows(f)
  <2>1. /\ held' = [held EXCEPT !["burst"] = @ \ {m}]
        /\ free' = free \cup {m} /\ twice' = twice \cup ({m} \cap free)
    BY <1>2, <1>6 DEF Classified, Free
  <2>2. /\ held' \in Placed /\ held'["burst"] = b \ {m}
        /\ held'["ipv4"] = i /\ held'["tx"] = t /\ held'["drop"] = d
    BY <1>1, <1>4, <2>1 DEF Placed, Stages
  <2> HIDE DEF b, i, t, d
  <2>3. Placing(program', free', nic', refused', twice', b \ {m}, i, t, d)
    BY <1>1, <1>3, <1>4, <2>1 DEF Placing
  <2> QED
    BY <2>2, <2>3, PlacedNext
<1> QED
  BY <1>5, <1>6

(* The nodes of the graphs that have any. *)
LEMMA NodePlaces ==
  ASSUME PlaceInv, NEW p \in {"two_source_graph", "disable_node"},
         \/ \E node \in {"rx", "rx1", "rx2"} : RxNode(p, node)
         \/ Ipv4Node(p) \/ TxNode(p) \/ DropNode(p)
  PROVE  PlaceInv'
<1> DEFINE b == held["burst"]  i == held["ipv4"]  t == held["tx"]  d == held["drop"]
<1>1. held \in Placed /\ Placing(program, free, nic, refused, twice, b, i, t, d)
  BY PlacedNow DEF PlacedHere
<1>2. program = p /\ program' = program
  BY DEF RxNode, Ipv4Node, TxNode, DropNode, Runs, InLoop, mainVars
<1>3. CASE \E node \in {"rx", "rx1", "rx2"} : RxNode(p, node)
  <2>1. PICK r \in Bursts : held' = [held EXCEPT !["ipv4"] = @ \cup r] /\ free' = free \ r
    BY <1>3 DEF RxNode
  <2>2. nic' = nic /\ refused' = refused /\ twice' = twice
    BY <1>3 DEF RxNode
  <2>3. r \subseteq free /\ r \subseteq Mbufs /\ i \subseteq Mbufs
    BY <1>1 DEF Bursts, Placing
  <2>4. /\ held' \in Placed /\ held'["burst"] = b
        /\ held'["ipv4"] = i \cup r /\ held'["tx"] = t /\ held'["drop"] = d
    BY <1>1, <2>1, <2>3 DEF Placed, Stages
  <2> HIDE DEF b, i, t, d
  <2>5. Placing(program', free', nic', refused', twice', b, i \cup r, t, d)
    BY <1>1, <1>2, <2>1, <2>2, <2>3 DEF Placing, GraphPrograms
  <2> QED
    BY <2>4, <2>5, PlacedNext
<1>4. CASE Ipv4Node(p)
  <2>1. PICK v \in SUBSET i :
          held' = [held EXCEPT !["ipv4"] = {}, !["tx"] = @ \cup v, !["drop"] = @ \cup (i \ v)]
    BY <1>4 DEF Ipv4Node
  <2>2. free' = free /\ nic' = nic /\ refused' = refused /\ twice' = twice
    BY <1>4 DEF Ipv4Node
  <2>3. i \subseteq Mbufs /\ t \subseteq Mbufs /\ d \subseteq Mbufs
    BY <1>1 DEF Placing
  <2>4. /\ held' \in Placed /\ held'["burst"] = b
        /\ held'["ipv4"] = {} /\ held'["tx"] = t \cup v /\ held'["drop"] = d \cup (i \ v)
    BY <1>1, <2>1, <2>3 DEF Placed, Stages
  <2> HIDE DEF b, i, t, d
  <2>5. Placing(program', free', nic', refused', twice', b, {}, t \cup v, d \cup (i \ v))
    BY <1>1, <1>2, <2>2, <2>3 DEF Placing, GraphPrograms
  <2> QED
    BY <2>4, <2>5, PlacedNext
<1>5. CASE TxNode(p)
  <2>1. PICK sent \in SUBSET t : nic' = nic \cup sent /\ refused' = refused \cup (t \ sent)
    BY <1>5 DEF TxNode, Offer
  <2>2. free' = free /\ twice' = twice /\ held' = [held EXCEPT !["tx"] = {}]
    BY <1>5 DEF TxNode
  <2>3. /\ held' \in Placed /\ held'["burst"] = b
        /\ held'["ipv4"] = i /\ held'["tx"] = {} /\ held'["drop"] = d
    BY <1>1, <2>2 DEF Placed, Stages
  <2> HIDE DEF b, i, t, d
  <2>4. Placing(program', free', nic', refused', twice', b, i, {}, d)
    BY <1>1, <1>2, <2>1, <2>2 DEF Placing, GraphPrograms
  <2> QED
    BY <2>3, <2>4, PlacedNext
<1>6. CASE DropNode(p)
  <2>1. free' = free \cup d /\ twice' = twice \cup (d \cap free)
    BY <1>6 DEF DropNode, Free
  <2>2. nic' = nic /\ refused' = refused /\ held' = [held EXCEPT !["drop"] = {}]
    BY <1>6 DEF DropNode
  <2>3. /\ held' \in Placed /\ held'["burst"] = b
        /\ held'["ipv4"] = i /\ held'["tx"] = t /\ held'["drop"] = {}
    BY <1>1, <2>2 DEF Placed, Stages
  <2> HIDE DEF b, i, t, d
  <2>4. Placing(program', free', nic', refused', twice', b, i, t, {})
    BY <1>1, <1>2, <2>1, <2>2 DEF Placing, GraphPrograms
  <2> QED
    BY <2>3, <2>4, PlacedNext
<1> QED
  BY <1>3, <1>4, <1>5, <1>6

(* Every other step moves no mbuf. *)
LEMMA PlaceStep ==
  ASSUME PlaceInv, [Next]_vars
  PROVE  PlaceInv'
<1>1. CASE UNCHANGED <<program, mbufVars>>
  BY <1>1 DEF mbufVars, PlaceInv, MbufTypes, Streams, OneOwner, LostWasRefused, InProgram
<1>2. CASE ScriptStep
  BY <1>1, <1>2 DEF ScriptStep, Succeed, Fail, TestStep, UseStep, DropStep, LaunchStep,
     WaitStep, EnterLoop, End, loopVars
<1>3. CASE Process
  <2>1. CASE classify_pkt1
    BY <1>1, <2>1 DEF classify_pkt1, loopVars
  <2> QED
    BY <1>3, <2>1, FreedPlaces, SentPlaces, ClassifiedPlaces DEF Process
<1>4. CASE Graph
  <2>1. CASE rte_graph_walk \/ graph_dpdk_rx
    BY <1>1, <2>1 DEF rte_graph_walk, graph_dpdk_rx, mainVars
  <2> QED
    BY <1>4, <2>1, NodePlaces DEF Graph, two_source_rx1, two_source_rx2, two_source_ipv4,
       two_source_tx, two_source_drop, disable_node_rx, disable_node_ipv4, disable_node_tx,
       disable_node_drop
<1>5. CASE Reorder \/ QuitLoop \/ Signal
  BY <1>1, <1>5 DEF Reorder, QuitLoop, Signal, reorder_2_insert, reorder_packet_insert,
     reorder_packet2_insert, reorder_2_drain, reorder_packet_drain, reorder_packet2_drain,
     Insert, DrainOnce, DrainAll, Drain, mainVars, loopVars
<1>6. CASE Receive
  BY <1>6, ReceivePlaces
<1>7. CASE \E w \in running : Worker(w)
  BY <1>1, <1>7 DEF Worker, WorkerReturns, WorkerCrashes, loopVars
<1>8. CASE \E m \in nic : TxDone(m)
  BY <1>8, TxDonePlaces
<1>9. CASE UNCHANGED vars
  BY <1>1, <1>9 DEF vars, mainVars, loopVars
<1> QED
  BY <1>2, <1>3, <1>4, <1>5, <1>6, <1>7, <1>8, <1>9 DEF Next, Main

\* In every program but packet_parsing and mem_info, the pool, the card, the arrays and
\* streams and what was refused are disjoint and hold the pool's mbufs between them
\* (loops of ACL_DPDK_2/main.c:140-176, 2_source_graph/main.c:39-202, disable_node/
\* main.c:37-161, prefetch/main.c:229-252).
THEOREM Partition == Spec => []PlaceInv
  BY PlaceInit, PlaceStep, PTL DEF Spec

\* No mbuf is owned twice, and none that is free is freed: firewall_loop
\* (ACL_DPDK_2/main.c:140-176) and the graphs' nodes pass an mbuf on or free it.
THEOREM MbufsOwnedOnce == Spec => []OneOwner
<1>1. PlaceInv => OneOwner
  BY DEF PlaceInv
<1> QED
  BY <1>1, Partition, PTL

\* An mbuf that has left every place is one that rte_eth_tx_burst refused in a program
\* that ignores its result (ACL_DPDK_2/main.c:174, 2_source_graph/main.c:164,
\* disable_node/main.c:130).
THEOREM LossIsRefusal == Spec => []LostWasRefused
<1>1. PlaceInv => LostWasRefused
  BY DEF PlaceInv
<1> QED
  BY <1>1, Partition, PTL

-------------------------------------------------------------------------------
(* The nodes still to run *)

NodeNames == {"rx", "rx1", "rx2", "ipv4", "tx", "drop"}

InWalk(q, x) == \E k \in 1..Len(q) : q[k] = x

StreamInv ==
  /\ phase \notin {"loop", "crashed"} \/ program \notin Pollers => held = Nothing
  /\ pending \in Seq(NodeNames)
  /\ program \in GraphPrograms =>
       /\ held["burst"] = {}
       /\ \A x \in {"ipv4", "tx", "drop"} : held[x] # {} => InWalk(pending, x)

LEMMA WalkTail ==
  ASSUME NEW q \in Seq(NodeNames), q # <<>>
  PROVE  /\ Tail(q) \in Seq(NodeNames)
         /\ \A x : InWalk(q, x) /\ x # Head(q) => InWalk(Tail(q), x)
<1>1. /\ Len(q) \in Nat /\ Len(q) # 0 /\ Head(q) = q[1]
      /\ Tail(q) \in Seq(NodeNames) /\ Len(Tail(q)) = Len(q) - 1
      /\ \A k \in 1..(Len(q) - 1) : Tail(q)[k] = q[k + 1]
  BY HeadTailProperties, LenProperties, EmptySeq
<1>2. ASSUME NEW k \in 1..Len(q), q[k] # Head(q) PROVE InWalk(Tail(q), q[k])
  <2>1. k - 1 \in 1..(Len(q) - 1) /\ k - 1 + 1 = k
    BY <1>1, <1>2
  <2> QED
    BY <1>1, <2>1 DEF InWalk
<1> QED
  BY <1>1, <1>2 DEF InWalk

LEMMA WalkJoined ==
  ASSUME NEW q \in Seq(NodeNames), NEW r \in Seq(NodeNames)
  PROVE  /\ q \o r \in Seq(NodeNames)
         /\ \A x : InWalk(q, x) \/ InWalk(r, x) => InWalk(q \o r, x)
<1> DEFINE c == q \o r
<1>1. /\ c \in Seq(NodeNames) /\ Len(q) \in Nat /\ Len(r) \in Nat /\ Len(c) = Len(q) + Len(r)
      /\ \A k \in 1..Len(q) : c[k] = q[k]
      /\ \A k \in 1..Len(r) : c[Len(q) + k] = r[k]
  <2>1. c \in Seq(NodeNames)
    OBVIOUS
  <2> QED
    BY <2>1, Joined DEF IsSeq
<1> HIDE DEF c
<1>2. ASSUME NEW x, InWalk(q, x) PROVE InWalk(c, x)
  BY <1>1, <1>2 DEF InWalk
<1>3. ASSUME NEW x, InWalk(r, x) PROVE InWalk(c, x)
  <2>1. PICK k \in 1..Len(r) : r[k] = x
    BY <1>3 DEF InWalk
  <2>2. Len(q) + k \in 1..Len(c) /\ c[Len(q) + k] = x
    BY <1>1, <2>1
  <2> QED
    BY <2>2 DEF InWalk
<1> QED
  BY <1>1, <1>2, <1>3 DEF c

LEMMA Enqueued ==
  ASSUME pending \in Seq(NodeNames), pending # <<>>, NEW streams, Enqueue(streams)
  PROVE  /\ pending' \in Seq(NodeNames)
         /\ \A x : InWalk(pending, x) /\ x # Head(pending) => InWalk(pending', x)
         /\ \A x \in {"ipv4", "tx", "drop"} :
              x \in DOMAIN streams /\ held[x] = {} /\ streams[x] # {} => InWalk(pending', x)
<1> DEFINE new == {s \in DOMAIN streams : held[s] = {} /\ streams[s] # {}}
           IfNew(s) == IF s \in new THEN <<s>> ELSE <<>>
           a == Tail(pending) \o IfNew("ipv4")
           b == a \o IfNew("tx")
           c == b \o IfNew("drop")
<1>1. pending' = c
  BY DEF Enqueue
<1>2. \A x \in {"ipv4", "tx", "drop"} :
        IfNew(x) \in Seq(NodeNames) /\ (x \in new => InWalk(IfNew(x), x))
  <2> TAKE x \in {"ipv4", "tx", "drop"}
  <2>1. x \in NodeNames
    BY DEF NodeNames
  <2>2. <<x>> \in Seq(NodeNames) /\ Len(<<x>>) = 1 /\ <<x>>[1] = x
    BY <2>1
  <2>3. InWalk(<<x>>, x)
    BY <2>2 DEF InWalk
  <2> QED
    BY <2>2, <2>3
<1>3. /\ Tail(pending) \in Seq(NodeNames)
      /\ \A x : InWalk(pending, x) /\ x # Head(pending) => InWalk(Tail(pending), x)
  BY WalkTail
<1> HIDE DEF IfNew
<1>4. /\ a \in Seq(NodeNames)
      /\ \A x : InWalk(Tail(pending), x) \/ InWalk(IfNew("ipv4"), x) => InWalk(a, x)
  BY <1>2, <1>3, WalkJoined
<1> HIDE DEF a
<1>5. b \in Seq(NodeNames) /\ \A x : InWalk(a, x) \/ InWalk(IfNew("tx"), x) => InWalk(b, x)
  BY <1>2, <1>4, WalkJoined
<1> HIDE DEF b
<1>6. c \in Seq(NodeNames) /\ \A x : InWalk(b, x) \/ InWalk(IfNew("drop"), x) => InWalk(c, x)
  BY <1>2, <1>5, WalkJoined
<1> HIDE DEF c
<1>7. ASSUME NEW x \in {"ipv4", "tx", "drop"}, x \in new PROVE InWalk(c, x)
  BY <1>2, <1>4, <1>5, <1>6, <1>7
<1> QED
  BY <1>1, <1>3, <1>4, <1>5, <1>6, <1>7

\* Without a graph, and in no loop, nothing is held: what a step of ours must show.
LEMMA EmptyHands ==
  ASSUME held \in Placed, held["burst"] = {}, held["ipv4"] = {}, held["tx"] = {}, held["drop"] = {}
  PROVE  held = Nothing
  BY DEF Placed, Stages, Nothing

LEMMA StreamInit == Init => StreamInv
<1> SUFFICES ASSUME Init PROVE StreamInv
  OBVIOUS
<1>1. held = Nothing /\ pending = <<>>
  BY DEF Init
<1>2. held["burst"] = {} /\ held["ipv4"] = {} /\ held["tx"] = {} /\ held["drop"] = {}
  BY <1>1 DEF Nothing, Stages
<1> QED
  BY <1>1, <1>2 DEF StreamInv

LEMMA NodeStreams ==
  ASSUME PlaceInv, StreamInv, NEW p \in {"two_source_graph", "disable_node"},
         \/ \E node \in {"rx", "rx1", "rx2"} : RxNode(p, node)
         \/ Ipv4Node(p) \/ TxNode(p) \/ DropNode(p)
  PROVE  StreamInv'
<1>1. held \in Placed /\ pending \in Seq(NodeNames)
  BY DEF PlaceInv, MbufTypes, StreamInv
<1>2. /\ program = p /\ program' = program /\ phase' = phase /\ phase = "loop" /\ pending # <<>>
      /\ program \in GraphPrograms /\ program \in Pollers
  BY DEF RxNode, Ipv4Node, TxNode, DropNode, Runs, InLoop, mainVars, GraphPrograms, Pollers
<1>3. /\ held["burst"] = {}
      /\ \A x \in {"ipv4", "tx", "drop"} : held[x] # {} => InWalk(pending, x)
  BY <1>2 DEF StreamInv
<1> SUFFICES /\ pending' \in Seq(NodeNames) /\ held'["burst"] = {}
             /\ \A x \in {"ipv4", "tx", "drop"} : held'[x] # {} => InWalk(pending', x)
  BY <1>2 DEF StreamInv
<1>4. CASE \E node \in {"rx", "rx1", "rx2"} : RxNode(p, node)
  <2>1. PICK node \in {"rx", "rx1", "rx2"} : RxNode(p, node)
    BY <1>4
  <2>2. PICK b \in Bursts : Enqueue([ipv4 |-> b]) /\ held' = [held EXCEPT !["ipv4"] = @ \cup b]
    BY <2>1 DEF RxNode
  <2>3. Head(pending) = node
    BY <2>1 DEF RxNode, Runs
  <2>4. /\ pending' \in Seq(NodeNames)
        /\ \A x : InWalk(pending, x) /\ x # Head(pending) => InWalk(pending', x)
        /\ "ipv4" \in DOMAIN [ipv4 |-> b] /\ held["ipv4"] = {} /\ [ipv4 |-> b]["ipv4"] # {}
             => InWalk(pending', "ipv4")
    BY <1>1, <1>2, <2>2, Enqueued
  <2>5. held["ipv4"] = {} /\ b # {} => InWalk(pending', "ipv4")
    BY <2>4
  <2>6. /\ held'["burst"] = held["burst"] /\ held'["ipv4"] = held["ipv4"] \cup b
        /\ held'["tx"] = held["tx"] /\ held'["drop"] = held["drop"]
    BY <1>1, <2>2 DEF Placed, Stages
  <2> QED
    BY <1>3, <2>3, <2>4, <2>5, <2>6
<1>5. CASE Ipv4Node(p)
  <2>1. PICK v \in SUBSET held["ipv4"] :
          /\ Enqueue([tx |-> v, drop |-> held["ipv4"] \ v])
          /\ held' = [held EXCEPT !["ipv4"] = {}, !["tx"] = @ \cup v,
                                  !["drop"] = @ \cup (held["ipv4"] \ v)]
    BY <1>5 DEF Ipv4Node
  <2> DEFINE streams == [tx |-> v, drop |-> held["ipv4"] \ v]
  <2>2. Head(pending) = "ipv4"
    BY <1>5 DEF Ipv4Node, Runs
  <2>3. /\ "tx" \in DOMAIN streams /\ "drop" \in DOMAIN streams
        /\ streams["tx"] = v /\ streams["drop"] = held["ipv4"] \ v
    OBVIOUS
  <2>4. Enqueue(streams)
    BY <2>1
  <2> HIDE DEF streams
  <2>5. /\ pending' \in Seq(NodeNames)
        /\ \A x : InWalk(pending, x) /\ x # Head(pending) => InWalk(pending', x)
        /\ \A x \in {"ipv4", "tx", "drop"} :
              x \in DOMAIN streams /\ held[x] = {} /\ streams[x] # {} => InWalk(pending', x)
    BY <1>1, <1>2, <2>4, Enqueued
  <2>6. /\ held'["burst"] = held["burst"] /\ held'["ipv4"] = {}
        /\ held'["tx"] = held["tx"] \cup v /\ held'["drop"] = held["drop"] \cup (held["ipv4"] \ v)
    BY <1>1, <2>1 DEF Placed, Stages
  <2> QED
    BY <1>3, <2>2, <2>3, <2>5, <2>6
<1>6. CASE TxNode(p)
  <2>1. Head(pending) = "tx" /\ pending' = Tail(pending) /\ held' = [held EXCEPT !["tx"] = {}]
    BY <1>6 DEF TxNode, Runs
  <2>2. /\ held'["burst"] = held["burst"] /\ held'["ipv4"] = held["ipv4"]
        /\ held'["tx"] = {} /\ held'["drop"] = held["drop"]
    BY <1>1, <2>1 DEF Placed, Stages
  <2> QED
    BY <1>1, <1>2, <1>3, <2>1, <2>2, WalkTail
<1>7. CASE DropNode(p)
  <2>1. Head(pending) = "drop" /\ pending' = Tail(pending) /\ held' = [held EXCEPT !["drop"] = {}]
    BY <1>7 DEF DropNode, Runs
  <2>2. /\ held'["burst"] = held["burst"] /\ held'["ipv4"] = held["ipv4"]
        /\ held'["tx"] = held["tx"] /\ held'["drop"] = {}
    BY <1>1, <2>1 DEF Placed, Stages
  <2> QED
    BY <1>1, <1>2, <1>3, <2>1, <2>2, WalkTail
<1> QED
  BY <1>4, <1>5, <1>6, <1>7

LEMMA WalkStreams ==
  ASSUME PlaceInv, StreamInv, rte_graph_walk \/ graph_dpdk_rx
  PROVE  StreamInv'
<1>1. /\ program \in GraphPrograms /\ phase = "loop" /\ program' = program /\ held' = held
      /\ phase' \in {"loop", "crashed"} /\ pending \in Seq(NodeNames)
  BY DEF rte_graph_walk, graph_dpdk_rx, Runs, InLoop, mainVars, mbufVars, GraphPrograms, StreamInv
<1>2. program \in Pollers
  BY <1>1 DEF Pollers
<1>3. CASE rte_graph_walk
  <2>1. pending = <<>> /\ pending' = Sources
    BY <1>3 DEF rte_graph_walk
  <2>2. ~InWalk(pending, "ipv4") /\ ~InWalk(pending, "tx") /\ ~InWalk(pending, "drop")
    BY <2>1 DEF InWalk
  <2>3. Sources \in Seq(NodeNames)
    <3>1. "rx" \in NodeNames /\ "rx1" \in NodeNames /\ "rx2" \in NodeNames
      BY DEF NodeNames
    <3>2. <<"rx">> \in Seq(NodeNames) /\ <<"rx1", "rx2">> \in Seq(NodeNames)
      BY <3>1
    <3> QED
      BY <3>2 DEF Sources
  <2> QED
    BY <1>1, <1>2, <2>1, <2>2, <2>3 DEF StreamInv
<1>4. CASE graph_dpdk_rx
  <2>1. pending # <<>> /\ Head(pending) = "rx" /\ pending' \in {pending, Tail(pending)}
    BY <1>4 DEF graph_dpdk_rx, Runs
  <2>2. /\ pending' \in Seq(NodeNames)
        /\ \A x : InWalk(pending, x) /\ x # Head(pending) => InWalk(pending', x)
    BY <1>1, <2>1, WalkTail
  <2> QED
    BY <1>1, <1>2, <2>1, <2>2 DEF StreamInv
<1> QED
  BY <1>3, <1>4

LEMMA StreamStep ==
  ASSUME PlaceInv, StreamInv, [Next]_vars
  PROVE  StreamInv'
<1>1. held \in Placed
  BY DEF PlaceInv, MbufTypes
<1>2. CASE /\ UNCHANGED <<program, held, pending>>
           /\ program \in Pollers =>
                phase' = phase \/ phase' \in {"loop", "crashed"} \/ phase = "main"
  BY <1>2 DEF StreamInv, InWalk
<1>3. CASE ScriptStep
  BY <1>2, <1>3 DEF ScriptStep, Succeed, Fail, TestStep, UseStep, DropStep, LaunchStep,
     WaitStep, EnterLoop, End, loopVars, mbufVars, OnStep
<1>4. CASE Process
  <2>1. CASE classify_pkt1 \/ vhost_tx_send
    BY <1>2, <2>1 DEF classify_pkt1, vhost_tx_send, InLoop, Pollers, loopVars, mbufVars, GraphPrograms
  <2>2. CASE firewall_classify
    <3>1. /\ program = "ACL_DPDK_2" /\ phase = "loop"
          /\ UNCHANGED <<program, phase, pending>>
      BY <2>2 DEF firewall_classify, InLoop, mainVars
    <3> QED
      BY <3>1 DEF StreamInv, GraphPrograms, Pollers
  <2>3. CASE held' = Nothing /\ UNCHANGED <<program, pending>>
    <3>1. \A x \in {"burst", "ipv4", "tx", "drop"} : held'[x] = {}
      BY <2>3 DEF Nothing, Stages
    <3> QED
      BY <2>3, <3>1 DEF StreamInv
  <2> QED
    BY <1>4, <2>1, <2>2, <2>3 DEF Process, prefetch_lcore_main, meter_loop, vhost_loop, rx_loop,
       mem_info_loop, process_packet, firewall_send, FreesBurst, mainVars
<1>5. CASE Graph
  BY <1>5, NodeStreams, WalkStreams DEF Graph, two_source_rx1, two_source_rx2, two_source_ipv4,
     two_source_tx, two_source_drop, disable_node_rx, disable_node_ipv4, disable_node_tx,
     disable_node_drop
<1>6. CASE Reorder
  <2>1. program \notin Pollers /\ UNCHANGED <<program, held, pending>>
    BY <1>6 DEF Reorder, reorder_2_insert, reorder_packet_insert, reorder_packet2_insert,
       reorder_2_drain, reorder_packet_drain, reorder_packet2_drain, Insert, DrainOnce, DrainAll,
       Drain, InLoop, mainVars, mbufVars, Pollers, GraphPrograms
  <2> QED
    BY <1>2, <2>1
<1>7. CASE QuitLoop
  <2>1. /\ program \in GraphPrograms \cup {"ACL_DPDK_2"} /\ pending = <<>>
        /\ held["burst"] = {} /\ held["tx"] = {} /\ UNCHANGED <<program, held, pending>>
    BY <1>7 DEF QuitLoop, InLoop, loopVars, mbufVars
  <2>2. held["ipv4"] = {} /\ held["drop"] = {}
    <3>1. CASE program \in GraphPrograms
      BY <2>1, <3>1 DEF StreamInv, InWalk
    <3>2. CASE program \notin GraphPrograms
      BY <3>2 DEF PlaceInv, Streams
    <3> QED
      BY <3>1, <3>2
  <2>3. held = Nothing
    BY <1>1, <2>1, <2>2, EmptyHands
  <2> QED
    BY <2>1, <2>2, <2>3 DEF StreamInv
<1>8. CASE Receive
  <2>1. /\ phase = "loop" /\ program \in Pollers \ GraphPrograms
        /\ UNCHANGED <<program, phase, pending>>
    BY <1>8 DEF Receive, InLoop, mainVars
  <2> QED
    BY <2>1 DEF StreamInv
<1>9. CASE Signal \/ (\E m \in nic : TxDone(m)) \/ UNCHANGED vars
  BY <1>2, <1>9 DEF Signal, TxDone, vars, mainVars, loopVars, mbufVars
<1>10. CASE \E w \in running : Worker(w)
  BY <1>2, <1>10 DEF Worker, WorkerReturns, WorkerCrashes, loopVars, mbufVars
<1> QED
  BY <1>3, <1>4, <1>5, <1>6, <1>7, <1>8, <1>9, <1>10 DEF Next, Main

-------------------------------------------------------------------------------
(* The types *)

RestTypes == quit \in BOOLEAN /\ frame \in {NoFrame} \cup AclFrames

LcoreInv == PlaceInv /\ ScriptInv /\ StreamInv /\ RestTypes

LEMMA RestStep ==
  ASSUME RestTypes, [Next]_vars
  PROVE  RestTypes'
<1>1. CASE UNCHANGED <<program, quit, frame>>
  BY <1>1 DEF RestTypes
<1>2. CASE ScriptStep
  BY <1>1, <1>2 DEF ScriptStep, Succeed, Fail, TestStep, UseStep, DropStep, LaunchStep,
     WaitStep, EnterLoop, End, loopVars
<1>3. CASE Process
  <2>1. CASE firewall_classify \/ classify_pkt1
    BY <2>1 DEF firewall_classify, classify_pkt1, InLoop, mainVars, loopVars, RestTypes
  <2> QED
    BY <1>1, <1>3, <2>1 DEF Process, prefetch_lcore_main, meter_loop, vhost_loop, rx_loop,
       mem_info_loop, process_packet, vhost_tx_send, firewall_send, FreesBurst, mainVars
<1>4. CASE Graph
  BY <1>1, <1>4 DEF Graph, rte_graph_walk, two_source_rx1, two_source_rx2, two_source_ipv4,
     two_source_tx, two_source_drop, disable_node_rx, disable_node_ipv4, disable_node_tx,
     disable_node_drop, graph_dpdk_rx, RxNode, Ipv4Node, TxNode, DropNode, mainVars
<1>5. CASE Reorder \/ QuitLoop
  BY <1>1, <1>5 DEF Reorder, QuitLoop, reorder_2_insert, reorder_packet_insert,
     reorder_packet2_insert, reorder_2_drain, reorder_packet_drain, reorder_packet2_drain,
     Insert, DrainOnce, DrainAll, Drain, mainVars, loopVars
<1>6. CASE Receive
  BY <1>6 DEF Receive, mainVars, RestTypes
<1>7. CASE Signal
  BY <1>7 DEF Signal, loopVars, RestTypes
<1>8. CASE (\E m \in nic : TxDone(m)) \/ UNCHANGED vars
  BY <1>1, <1>8 DEF TxDone, vars, mainVars, loopVars
<1>9. CASE \E w \in running : Worker(w)
  BY <1>1, <1>9 DEF Worker, WorkerReturns, WorkerCrashes, loopVars
<1> QED
  BY <1>2, <1>3, <1>4, <1>5, <1>6, <1>7, <1>8, <1>9 DEF Next, Main

\* All of it: what main has and who runs, where each mbuf is, and the walk of a graph.
\* The loops of every program but the pipeline's, RCU's, the messages' and the eventdev
\* ones' keep it (prefetch/main.c:229-252, graph_dpdk/main.c:60-296 and the others).
THEOREM LcoreInvariant == Spec => []LcoreInv
<1>1. Init => LcoreInv
  <2>1. Init => RestTypes
    BY DEF Init, RestTypes
  <2> QED
    BY <2>1, PlaceInit, ScriptInit, StreamInit DEF LcoreInv
<1>2. LcoreInv /\ [Next]_vars => LcoreInv'
  BY PlaceStep, ScriptKept, StreamStep, RestStep DEF LcoreInv
<1> QED
  BY <1>1, <1>2, PTL DEF Spec

\* In particular main stands at a step of its script or behind the last, and has nothing
\* that no call of it got (the mains of all programs, prefetch/main.c:276-306 the first).
THEOREM LcoreTypes == Spec => []TypeOK
<1>1. LcoreInv => TypeOK
  <2> SUFFICES ASSUME LcoreInv PROVE TypeOK
    OBVIOUS
  <2> DEFINE s == Script[program]
  <2>1. program \in Programs /\ Closed(s) /\ Followed(s, at, phase, have, running)
    BY ScriptsFit DEF LcoreInv, ScriptInv, Fit
  <2>2. Len(s) \in Nat /\ DOMAIN s = 1..Len(s)
    BY <2>1, LenProperties DEF Closed, IsSeq
  <2>3. at \in 1..(Len(s) + 1) /\ phase \in {"main", "loop", "ended", "exited", "crashed"}
    BY <2>1 DEF Followed, Standing
  <2>4. have \subseteq {"port", "evdev"} \cup {s[k].what : k \in DOMAIN s}
    <3>1. 1..(at - 1) \subseteq 1..Len(s)
      BY <2>2, <2>3
    <3> QED
      BY <2>1, <2>2, <3>1 DEF Followed, Acquired
  <2>5. running \subseteq {"1", "2", "3", "4"}
    <3> SUFFICES ASSUME NEW w \in running PROVE w \in {"1", "2", "3", "4"}
      OBVIOUS
    <3>1. PICK k \in 1..(at - 1) : s[k].op = "launch" /\ s[k].what = w
      BY <2>1 DEF Followed, Launched
    <3>2. k \in 1..Len(s)
      BY <2>2, <2>3
    <3>3. IsStep(s[k], k, Len(s))
      BY <2>1, <3>2 DEF Closed
    <3> QED
      BY <3>1, <3>3 DEF IsStep
  <2>6. pending \in Seq({"rx", "rx1", "rx2", "ipv4", "tx", "drop"})
    BY DEF LcoreInv, StreamInv, NodeNames
  <2> HIDE DEF s
  <2>7. /\ free \subseteq Mbufs /\ nic \subseteq Mbufs /\ refused \subseteq Mbufs
        /\ twice \subseteq Mbufs /\ held \in [Stages -> SUBSET Mbufs]
    BY DEF LcoreInv, PlaceInv, MbufTypes, Placed
  <2>8. quit \in BOOLEAN /\ frame \in {NoFrame} \cup AclFrames
    BY DEF LcoreInv, RestTypes
  <2> QED
    BY <2>1, <2>3, <2>4, <2>5, <2>6, <2>7, <2>8 DEF TypeOK, s
<1> QED
  BY <1>1, LcoreInvariant, PTL

-------------------------------------------------------------------------------
(* How programs end *)

LEMMA ScriptEnds ==
  ASSUME ScriptInv
  PROVE  LET s == Script[program]
         IN /\ program \in Programs /\ Fit(program, s) /\ Followed(s, at, phase, have, running)
            /\ Len(s) \in Nat /\ at \in 1..(Len(s) + 1)
            /\ phase = "ended" => at - 1 = Len(s)
<1> DEFINE s == Script[program]
<1>1. program \in Programs /\ Fit(program, s) /\ Followed(s, at, phase, have, running)
  BY ScriptsFit DEF ScriptInv
<1>2. Len(s) \in Nat
  BY <1>1, LenProperties DEF Fit, Closed, IsSeq
<1> HIDE DEF s
<1>3. at \in 1..(Len(s) + 1) /\ (phase = "ended" => at - 1 = Len(s))
  BY <1>1, <1>2 DEF Followed, Standing
<1> QED
  BY <1>1, <1>2, <1>3 DEF s

LEMMA NothingKept ==
  ASSUME ScriptInv, phase = "ended"
  PROVE  {"acl", "graph"} \cap have = {}
<1> DEFINE s == Script[program]
<1>1. /\ Tidied(s) /\ Acquired(s, at, have) /\ Gone(s, at, have)
      /\ Len(s) \in Nat /\ at - 1 = Len(s)
  BY ScriptEnds DEF Fit, Followed
<1> HIDE DEF s
<1> SUFFICES ASSUME NEW w \in {"acl", "graph"}, w \in have PROVE FALSE
  OBVIOUS
<1>2. PICK k \in 1..Len(s) : s[k].op = "get" /\ s[k].what = w
  BY <1>1 DEF Acquired
<1>3. PICK n \in (k + 1)..Len(s) :
        /\ s[n].op = "drop" /\ w \in s[n].set /\ Reached(s, n)
        /\ \A j \in (n + 1)..Len(s) : s[j].op = "get" => s[j].what # w
  BY <1>1, <1>2 DEF Tidied
<1>4. n \in 1..(at - 1)
  BY <1>1
<1> QED
  BY <1>1, <1>3, <1>4 DEF Gone

LEMMA NobodyRuns ==
  ASSUME ScriptInv, phase = "ended", program # "lcore_thread"
  PROVE  running = {}
<1> DEFINE s == Script[program]
<1>1. Awaited(s) /\ Launched(s, at, running) /\ Len(s) \in Nat /\ at - 1 = Len(s)
  BY ScriptEnds DEF Fit, Followed
<1> HIDE DEF s
<1> SUFFICES ASSUME NEW w \in running PROVE FALSE
  OBVIOUS
<1>2. PICK k \in 1..Len(s) :
        /\ s[k].op = "launch" /\ s[k].what = w
        /\ \A n \in (k + 1)..Len(s) : s[n].op = "wait" => ~Reached(s, n)
  BY <1>1 DEF Launched
<1>3. PICK n \in (k + 1)..Len(s) : s[n].op = "wait" /\ Reached(s, n)
  BY <1>1, <1>2 DEF Awaited
<1> QED
  BY <1>2, <1>3

\* ACL_DPDK frees its context and cleans EAL up on every way out.
LEMMA FirstAclEnds ==
  ASSUME ScriptInv, program = "ACL_DPDK", phase \in {"ended", "exited"}
  PROVE  {"acl", "eal"} \cap have = {}
<1> DEFINE s == ACL_DPDK_main
<1>1. Script["ACL_DPDK"] = s
  BY DEF Script
<1>2. s \in Seq({s[k] : k \in 1..7}) /\ Len(s) = 7
  BY DEF ACL_DPDK_main
<1>3. /\ s[1] = Get("eal", "exit") /\ s[2] = GetOrUndo("acl", {"eal"})
      /\ s[3] = GetOrUndo("rules", {"acl", "eal"}) /\ s[4] = GetOrUndo("tables", {"acl", "eal"})
      /\ s[5] = Loop /\ s[6] = Drop({"acl"}) /\ s[7] = Drop({"eal"})
  BY DEF ACL_DPDK_main
<1>4. /\ Followed(s, at, phase, have, running) /\ at \in 1..8 /\ (phase = "ended" => at - 1 = 7)
  BY <1>1, <1>2, ScriptEnds
<1>5. IsSeq(s)
  BY <1>2 DEF IsSeq
<1> HIDE DEF s
<1>6. CASE phase = "exited"
  <2>1. at \in 1..4
    <3>1. at \in 1..7 /\ s[at].fails = "exit"
      BY <1>2, <1>4, <1>6 DEF Followed, Standing
    <3>2. s[5].fails = "go_on" /\ s[6].fails = "go_on" /\ s[7].fails = "go_on"
      BY <1>3, Fields
    <3> QED
      BY <3>1, <3>2
  <2>2. have \cap s[at].set = {}
    BY <1>4, <1>6 DEF Followed, Undone
  <2>3. /\ s[1].what = "eal" /\ s[2].what = "acl" /\ s[2].set = {"eal"}
        /\ s[3].set = {"acl", "eal"} /\ s[4].set = {"acl", "eal"}
    BY <1>3, Fields
  <2>4. Acquired(s, at, have)
    BY <1>4 DEF Followed
  <2>5. at = 1 => have \subseteq {"port", "evdev"}
    BY <2>4 DEF Acquired
  <2>6. at = 2 => have \subseteq {"port", "evdev", "eal"}
    BY <2>3, <2>4 DEF Acquired
  <2> QED
    BY <2>1, <2>2, <2>3, <2>5, <2>6
<1>7. CASE phase = "ended"
  <2>1. \A k \in 1..7 : Plain(s[k])
    BY <1>3, PlainSteps
  <2>2. Reached(s, 6) /\ Reached(s, 7)
    <3>1. \A n \in 1..Len(s) : Reached(s, n)
      BY <1>2, <1>5, <2>1, PlainScript
    <3> QED
      BY <1>2, <3>1
  <2>3. s[6].op = "drop" /\ s[6].set = {"acl"} /\ s[7].op = "drop" /\ s[7].set = {"eal"}
    BY <1>3, Fields
  <2>4. Gone(s, 8, have)
    BY <1>4, <1>7 DEF Followed
  <2>5. \A k \in (6 + 1)..(8 - 1) : s[k].op # "get"
    BY <2>3
  <2>6. "acl" \notin have
    BY <2>2, <2>3, <2>4, <2>5 DEF Gone
  <2>7. "eal" \notin have
    <3>1. (7 + 1)..(8 - 1) = {} /\ 7 \in 1..(8 - 1)
      OBVIOUS
    <3> QED
      BY <2>2, <2>3, <2>4, <3>1 DEF Gone
  <2> QED
    BY <2>6, <2>7
<1> QED
  BY <1>6, <1>7

\* A program that ends has freed its ACL context and its graph, holds no packet and has
\* no worker running, but in lcore_thread, which does not wait (lcore.c:41).
THEOREM ProgramsEndTidy == Spec => []EndsTidy
<1>1. LcoreInv => EndsTidy
  <2> SUFFICES ASSUME LcoreInv PROVE EndsTidy
    OBVIOUS
  <2>1. ScriptInv /\ StreamInv
    BY DEF LcoreInv
  <2>2. ASSUME phase = "ended" PROVE InProgram = {}
    <3>1. held = Nothing
      BY <2>1, <2>2 DEF StreamInv
    <3> QED
      BY <3>1 DEF InProgram, Nothing
  <2> QED
    BY <2>1, <2>2, NothingKept, NobodyRuns, FirstAclEnds DEF EndsTidy
<1> QED
  BY <1>1, LcoreInvariant, PTL

-------------------------------------------------------------------------------
(* Failures *)

\* Behind the call that gets w, and with no step in between that releases it, w is there.
LEMMA SureBefore ==
  ASSUME NEW s, NEW a \in Nat, NEW p, NEW h, Sure(s, a, p, h), NEW n \in 1..a, NEW w,
         Secured(s, n, w), \A k \in n..(a - 1) : s[k].op # "drop",
         p = "exited" => w \notin s[a].set
  PROVE  w \in h
<1>1. PICK m \in 1..(n - 1) :
        /\ s[m].op \in {"get", "test"} /\ s[m].fails = "exit" /\ s[m].what = w /\ Reached(s, m)
        /\ \A k \in (m + 1)..(n - 1) : s[k].op = "drop" => w \notin s[k].set
  BY DEF Secured
<1>2. m \in 1..(a - 1)
  OBVIOUS
<1>3. ASSUME NEW k \in (m + 1)..(a - 1), s[k].op = "drop" PROVE w \notin s[k].set
  <2>1. k \in (m + 1)..(n - 1)
    BY <1>3
  <2> QED
    BY <1>1, <1>3, <2>1
<1> QED
  BY <1>1, <1>2, <1>3 DEF Sure

\* port_init2 reaches its loop with a started port, or without any port.
PortOrNone == program = "port_init2" /\ at >= 9 => "started" \in have \/ "port" \notin have

LEMMA PortStep ==
  ASSUME ScriptInv, PortOrNone, [Next]_vars
  PROVE  PortOrNone'
<1> DEFINE s == port_init2_main
<1>1. program' = program /\ Moves
  BY NextMoves
<1> SUFFICES ASSUME program = "port_init2", at' >= 9
             PROVE  "started" \in have' \/ "port" \notin have'
  BY <1>1 DEF PortOrNone
<1>2. Script["port_init2"] = s
  BY DEF Script
<1>3. s \in Seq({s[k] : k \in 1..9}) /\ Len(s) = 9
  BY PortInit2List
<1>4. /\ s[1] = Get("eal", "exit") /\ s[2] = Get("pool", "exit")
      /\ s[3] = [Test("port", "skip") EXCEPT !.over = 5]
      /\ s[4] = Test("port", "exit") /\ s[5] = Get("configured", "exit")
      /\ s[6] = Get("rxq", "exit") /\ s[7] = Get("txq", "exit") /\ s[8] = Get("started", "exit")
      /\ s[9] = Loop
  BY PortInit2List
<1>5. at \in 1..10
  BY <1>2, <1>3, ScriptEnds
<1>6. s[3] = [op |-> "test", what |-> "port", fails |-> "skip", over |-> 5, set |-> {}]
  BY <1>4 DEF Test, Step
<1> HIDE DEF s
<1>7. /\ \A k \in {1, 2, 4, 5, 6, 7, 8} : s[k].fails = "exit" /\ s[k].set = {}
      /\ s[3].op = "test" /\ s[3].what = "port" /\ s[3].set = {} /\ s[9].op = "loop"
      /\ s[8].op = "get" /\ s[8].what = "started"
      /\ \A k \in 1..9 : s[k].op \in {"get", "test", "loop"}
      /\ s[4].op = "test"
      /\ \A k \in {1, 2, 5, 6, 7, 8} : s[k].what # "port"
  BY <1>4, <1>6, Fields
<1>8. Move(s, at, phase, have, running, at', phase', have', running')
  BY <1>1, <1>2 DEF Moves
<1>9. at >= 9 => "started" \in have \/ "port" \notin have
  BY DEF PortOrNone
<1>10. CASE Stays(s, at, phase, have, running, at', phase', have', running')
  BY <1>9, <1>10 DEF Stays
<1>11. CASE Gets(s, at, phase, have, running, at', phase', have', running')
  BY <1>3, <1>5, <1>7, <1>9, <1>11 DEF Gets, Goes
<1>12. CASE Exits(s, at, phase, have, running, at', phase', have', running')
  BY <1>3, <1>5, <1>7, <1>9, <1>12 DEF Exits
<1>13. CASE Skips(s, at, phase, have, running, at', phase', have', running')
  <2>1. at = 3
    BY <1>3, <1>5, <1>7, <1>13 DEF Skips, Goes
  <2> QED
    BY <1>7, <1>13, <2>1 DEF Skips
<1>14. CASE Passes(s, at, phase, have, running, at', phase', have', running')
  <2>1. at # 8
    BY <1>7, <1>14 DEF Passes
  <2> QED
    BY <1>5, <1>9, <1>14, <2>1 DEF Passes
<1>15. CASE Drops(s, at, phase, have, running, at', phase', have', running')
  BY <1>3, <1>5, <1>7, <1>15 DEF Drops, Goes
<1> QED
  BY <1>8, <1>10, <1>11, <1>12, <1>13, <1>14, <1>15 DEF Move

\* Whoever receives from the port has started it, worker lcores too.
LEMMA StartedFirst ==
  ASSUME ScriptInv, PortOrNone
  PROVE  ReceivesFromStartedPort
<1> DEFINE s == Script[program]
<1>1. /\ program \in Programs /\ Followed(s, at, phase, have, running)
      /\ Len(s) \in Nat /\ at \in 1..(Len(s) + 1)
  BY ScriptEnds
<1>2. ASSUME phase = "loop", program \in {"prefetch", "meter_dpdk", "ACL_DPDK_2"}
      PROVE  "started" \in have
  <2>1. at \in 1..Len(s) /\ s[at].op = "loop"
    BY <1>1, <1>2 DEF Followed, Standing
  <2>2. Secured(s, at, "started")
    BY <1>2, <2>1, LoopsStarted
  <2>3. Sure(s, at, phase, have)
    BY <1>1 DEF Followed
  <2> HIDE DEF s
  <2>4. at \in Nat /\ at \in 1..at /\ \A k \in at..(at - 1) : s[k].op # "drop"
    BY <1>1
  <2>5. phase # "exited"
    BY <1>2
  <2> QED
    BY <2>2, <2>3, <2>4, <2>5, SureBefore
<1>3. ASSUME phase = "loop", program = "port_init2"
      PROVE  "started" \in have \/ "port" \notin have
  <2>1. Script["port_init2"] = port_init2_main
    BY DEF Script
  <2>2. port_init2_main \in Seq({port_init2_main[k] : k \in 1..9}) /\ Len(port_init2_main) = 9
    BY PortInit2List
  <2>3. \A k \in 1..8 : port_init2_main[k].op # "loop"
    <3> DEFINE t == port_init2_main
    <3>1. /\ t[1] = Get("eal", "exit") /\ t[2] = Get("pool", "exit")
          /\ t[3] = [Test("port", "skip") EXCEPT !.over = 5]
          /\ t[4] = Test("port", "exit") /\ t[5] = Get("configured", "exit")
          /\ t[6] = Get("rxq", "exit") /\ t[7] = Get("txq", "exit") /\ t[8] = Get("started", "exit")
      BY PortInit2List
    <3>2. t[3] = [op |-> "test", what |-> "port", fails |-> "skip", over |-> 5, set |-> {}]
      BY <3>1 DEF Test, Step
    <3> HIDE DEF t
    <3>3. \A k \in 1..8 : t[k].op # "loop"
      BY <3>1, <3>2, Fields
    <3> QED
      BY <3>3 DEF t
  <2>4. at \in 1..9 /\ port_init2_main[at].op = "loop"
    BY <1>1, <1>3, <2>1, <2>2 DEF Followed, Standing
  <2>5. at >= 9
    BY <2>3, <2>4
  <2> QED
    BY <1>3, <2>5 DEF PortOrNone
<1>4. ASSUME program = "packet_parseer_ring", running # {} PROVE "started" \in have
  <2>1. /\ s = packet_parseer_ring_main
        /\ \A n \in 1..Len(s) :
             /\ s[n].op # "drop" /\ s[n].set \subseteq {"rx_to_parser", "parse_to_tx"}
             /\ s[n].op = "launch" => Secured(s, n, "started")
    BY <1>4, PipelineFacts DEF Script
  <2> HIDE DEF s
  <2>2. PICK k \in 1..(at - 1) : s[k].op = "launch"
    BY <1>1, <1>4 DEF Followed, Launched
  <2>3. Secured(s, k, "started")
    BY <1>1, <2>1, <2>2
  <2>4. at \in Nat /\ k \in 1..at /\ \A j \in k..(at - 1) : s[j].op # "drop"
    BY <1>1, <2>1
  <2>5. phase = "exited" => at \in 1..Len(s)
    BY <1>1 DEF Followed, Standing
  <2> QED
    BY <1>1, <2>1, <2>3, <2>4, <2>5, SureBefore DEF Followed
<1> QED
  BY <1>2, <1>3, <1>4 DEF ReceivesFromStartedPort

\* A step that crashes.
LEMMA CrashSteps ==
  ASSUME [Next]_vars, phase' = "crashed", phase # "crashed"
  PROVE  \/ UseStep /\ Here.what \notin have
         \/ \E w \in running : phase = "main" /\ WorkerCrashes(w)
         \/ graph_dpdk_rx
<1>1. CASE ScriptStep
  BY <1>1 DEF ScriptStep, Succeed, Fail, Fails, TestStep, UseStep, DropStep, LaunchStep,
     WaitStep, EnterLoop, End
<1>2. CASE phase' = "main"
  BY <1>2
<1>3. CASE phase' = phase
  BY <1>3
<1>4. CASE Process
  BY <1>2, <1>3, <1>4 DEF Process, prefetch_lcore_main, meter_loop, vhost_loop, rx_loop,
     mem_info_loop, process_packet, vhost_tx_send, firewall_classify, firewall_send,
     classify_pkt1, FreesBurst, AfterLoop, mainVars
<1>5. CASE Graph
  BY <1>3, <1>5 DEF Graph, rte_graph_walk, two_source_rx1, two_source_rx2, two_source_ipv4,
     two_source_tx, two_source_drop, disable_node_rx, disable_node_ipv4, disable_node_tx,
     disable_node_drop, RxNode, Ipv4Node, TxNode, DropNode, mainVars
<1>6. CASE Reorder \/ QuitLoop
  BY <1>2, <1>3, <1>6 DEF Reorder, QuitLoop, reorder_2_insert, reorder_packet_insert,
     reorder_packet2_insert, reorder_2_drain, reorder_packet_drain, reorder_packet2_drain,
     Insert, DrainOnce, DrainAll, AfterLoop, mainVars
<1>7. CASE Receive \/ Signal \/ (\E m \in nic : TxDone(m)) \/ UNCHANGED vars
  BY <1>3, <1>7 DEF Receive, Signal, TxDone, vars, mainVars
<1>8. CASE \E w \in running : Worker(w)
  BY <1>3, <1>8 DEF Worker, WorkerReturns
<1> QED
  BY <1>1, <1>4, <1>5, <1>6, <1>7, <1>8 DEF Next, Main

LEMMA CrashKept ==
  ASSUME ScriptInv, NullOnlyWhereUntested, [Next]_vars
  PROVE  NullOnlyWhereUntested'
<1> DEFINE s == Script[program]
<1> SUFFICES ASSUME phase' = "crashed" PROVE NullOnlyWhereUntested'
  BY DEF NullOnlyWhereUntested
<1>1. program' = program /\ Moves
  BY NextMoves
<1>2. have' = have
  BY <1>1 DEF Moves, Move, Stays, Gets, Exits, Skips, Passes, Drops, Goes
<1>3. /\ program \in Programs /\ Fit(program, s) /\ Followed(s, at, phase, have, running)
      /\ Len(s) \in Nat /\ at \in 1..(Len(s) + 1)
  BY ScriptEnds
<1>4. CASE phase = "crashed"
  BY <1>1, <1>2, <1>4 DEF NullOnlyWhereUntested
<1>5. CASE UseStep /\ Here.what \notin have
  <2>1. at \in 1..Len(s) /\ s[at].op = "use" /\ s[at].what \notin have
    BY <1>3, <1>5 DEF UseStep, OnStep, Here
  <2>2. program = "rte_ring_single" /\ s[at].what = "ring"
    BY <1>3, <2>1 DEF Fit, Uses
  <2> QED
    BY <1>1, <1>2, <2>1, <2>2 DEF NullOnlyWhereUntested
<1>6. CASE \E w \in running : phase = "main" /\ WorkerCrashes(w)
  <2>1. PICK w \in running : phase = "main" /\ ~(LaunchedWith(w) \subseteq have)
    BY <1>6 DEF WorkerCrashes
  <2>2. DOMAIN s = 1..Len(s)
    BY <1>3, LenProperties DEF Fit, Closed, IsSeq
  <2>3. PICK k \in 1..Len(s) : s[k].op = "launch" /\ ~(s[k].set \subseteq have)
    BY <2>1, <2>2 DEF LaunchedWith
  <2>4. program = "packet_parseer_ring" /\ LaunchedWith(w) \subseteq {"rx_to_parser", "parse_to_tx"}
    <3>1. program = "packet_parseer_ring"
      BY <1>3, <2>3 DEF Fit, Lends
    <3> QED
      BY <1>3, <2>2, <3>1 DEF Fit, Lends, LaunchedWith
  <2>5. s = packet_parseer_ring_main
    BY <2>4 DEF Script
  <2> HIDE DEF s
  <2>6. PICK j \in 1..(at - 1) : s[j].op = "launch"
    BY <1>3, <2>1 DEF Followed, Launched
  <2>7. j \in 1..Len(s) /\ at \in Nat
    BY <1>3
  <2>8. Secured(s, j, "rx_to_parser") /\ \A n \in 1..Len(s) : s[n].op # "drop"
    BY <2>5, <2>6, <2>7, PipelineFacts
  <2>9. j \in 1..at /\ \A n \in j..(at - 1) : s[n].op # "drop"
    BY <1>3, <2>8
  <2>10. Sure(s, at, phase, have) /\ phase # "exited"
    BY <1>3, <2>1 DEF Followed
  <2>11. "rx_to_parser" \in have
    BY <2>7, <2>8, <2>9, <2>10, SureBefore
  <2>12. "parse_to_tx" \notin have
    BY <2>1, <2>4, <2>11
  <2> QED
    BY <1>1, <1>2, <2>4, <2>12 DEF NullOnlyWhereUntested
<1>7. CASE phase # "crashed" /\ graph_dpdk_rx
  <2>1. program = "graph_dpdk" /\ Bursts \ {{}} # {}
    BY <1>7 DEF graph_dpdk_rx, Runs, InLoop
  <2>2. "started" \in have
    BY <2>1 DEF Bursts
  <2> QED
    BY <1>1, <1>2, <2>1, <2>2 DEF NullOnlyWhereUntested
<1> QED
  BY <1>4, <1>5, <1>6, <1>7, CrashSteps

\* Programs that test the set-up of their port receive from a started one only, and NULL
\* is dereferenced only where no test is (rte_ring_single, packet_parseer_ring/
\* main.c:83-85, graph_dpdk/main.c:74-77), whichever calls fail.
THEOREM Caught == Spec => []FailuresAreCaught
<1>1. Init => PortOrNone /\ NullOnlyWhereUntested
  BY DEF Init, PortOrNone, NullOnlyWhereUntested
<1>2. ScriptInv /\ PortOrNone /\ NullOnlyWhereUntested /\ [Next]_vars
        => (PortOrNone /\ NullOnlyWhereUntested)'
  BY PortStep, CrashKept
<1>3. ScriptInv /\ PortOrNone /\ NullOnlyWhereUntested => FailuresAreCaught
  BY StartedFirst DEF FailuresAreCaught
<1> QED
  BY <1>1, <1>2, <1>3, ScriptIsFollowed, PTL DEF Spec

-------------------------------------------------------------------------------
(* What is read *)

\* Frames of any length, with any header length: what TLC takes a few of.
AnyFrames == [len : Nat, ether : {"ipv4", "ipv6", "other"}, nibble : 0..15,
              proto : {"tcp", "udp", "other"}]

LEMMA FrameParts ==
  ASSUME NEW f \in AnyFrames
  PROVE  /\ f.len \in Nat /\ f.nibble \in 0..15
         /\ f.ether \in {"ipv4", "ipv6", "other"} /\ f.proto \in {"tcp", "udp", "other"}
         /\ L4Header(f) \in {0, 8, 20}
         /\ \A l4 \in Nat : PrintL4(f, l4) = 0 \/ PrintL4(f, l4) \in l4..(l4 + L4Header(f))
  BY DEF AnyFrames, L4Header, PrintL4, TCP, UDP

\* packet_parsing, whatever the length of a frame and of its IPv4 header.
LEMMA CheckedReads ==
  ASSUME NEW f \in AnyFrames
  PROVE  LET r == Farther(print_mbuf_data(f), print_mbuff_info(f))
         IN /\ r <= f.len \/ (f.ether = "ipv6" /\ f.len >= ETH + IPV6 /\ r <= Headers(f))
            /\ Headers(f) <= f.len => r <= f.len
<1> DEFINE l4 == print_mbuf_data_L4(f)
<1> DEFINE h == L4Header(f)
<1>1. f.len \in Nat /\ f.nibble \in 0..15 /\ h \in {0, 8, 20}
  BY FrameParts
<1>2. print_mbuff_info(f) \in Nat /\ print_mbuff_info(f) <= f.len
  BY <1>1 DEF print_mbuff_info, ETH, IPV4
<1>3. l4 \in 14..74 /\ (PrintL4(f, l4) = 0 \/ PrintL4(f, l4) \in l4..(l4 + h))
  BY <1>1, FrameParts DEF print_mbuf_data_L4, ETH, IPV6
<1>4. SUFFICES \/ print_mbuf_data(f) <= f.len
               \/ /\ f.ether = "ipv6" /\ f.len >= 54 /\ print_mbuff_info(f) <= Headers(f)
                  /\ print_mbuf_data(f) <= Headers(f)
  <2>1. f.ether = "ipv6" => Headers(f) = 54 + h
    BY <1>1 DEF Headers, ETH, IPV6
  <2>2. print_mbuf_data(f) \in Nat
    BY <1>1, <1>3 DEF print_mbuf_data, L3Header, Farther, ETH, IPV4, IPV6
  <2> HIDE DEF h, l4
  <2> QED
    BY <1>1, <1>2, <2>1, <2>2 DEF Farther, ETH, IPV6
<1>5. CASE f.len < 14
  BY <1>1, <1>5 DEF print_mbuf_data, ETH
<1>6. CASE f.len >= 14 /\ f.ether = "other"
  BY <1>1, <1>6 DEF print_mbuf_data, ETH
<1>7. CASE f.len >= 14 /\ f.ether = "ipv4"
  <2>1. L3Header(f) = 20
    BY <1>7 DEF L3Header, IPV4
  <2>2. CASE f.len < 34 \/ f.len < l4 + h
    BY <1>1, <1>3, <1>7, <2>1, <2>2 DEF print_mbuf_data, ETH, IPV4
  <2>3. CASE f.len >= 34 /\ f.len >= l4 + h
    <3>1. print_mbuf_data(f) = Farther(34, PrintL4(f, l4))
      BY <1>1, <1>3, <1>7, <2>1, <2>3 DEF print_mbuf_data, ETH, IPV4
    <3> QED
      BY <1>1, <1>3, <2>3, <3>1 DEF Farther
  <2> QED
    BY <1>1, <1>3, <2>2, <2>3
<1>8. CASE f.len >= 14 /\ f.ether = "ipv6"
  <2>1. L3Header(f) = 40 /\ l4 = 54 /\ Headers(f) = 54 + h
    BY <1>1, <1>8 DEF L3Header, print_mbuf_data_L4, Headers, ETH, IPV6
  <2>2. CASE f.len < 54
    BY <1>1, <1>8, <2>1, <2>2 DEF print_mbuf_data, ETH
  <2>3. CASE f.len >= 54
    <3>1. print_mbuf_data(f) = Farther(21, PrintL4(f, l4))
      BY <1>1, <1>8, <2>1, <2>3 DEF print_mbuf_data, ETH
    <3>2. print_mbuff_info(f) = 14
      BY <1>1, <1>8 DEF print_mbuff_info, ETH
    <3> QED
      BY <1>1, <1>3, <1>8, <2>1, <2>3, <3>1, <3>2 DEF Farther
  <2> QED
    BY <1>1, <2>2, <2>3
<1> QED
  BY <1>1, <1>5, <1>6, <1>7, <1>8, FrameParts

\* The parsers that check no length, given a frame that is as long as its headers.
LEMMA TrustedReads ==
  ASSUME NEW f \in AnyFrames, Headers(f) <= f.len
  PROVE  /\ packet_info(f) <= f.len /\ rx_loop_reads(f) <= f.len
         /\ process_packet_reads(f) <= f.len
         /\ f.ether # "ipv6" => parsing_logic(f) <= f.len
<1> DEFINE h == L4Header(f)
<1>1. /\ f.len \in Nat /\ f.nibble \in 0..15 /\ h \in {0, 8, 20}
      /\ f.ether \in {"ipv4", "ipv6", "other"}
  BY FrameParts
<1>2. /\ f.len >= 14
      /\ f.ether = "ipv4" => f.len >= 34 + h /\ f.len >= 14 + 4 * f.nibble + h
  BY <1>1 DEF Headers, Farther, ETH, IPV4, IPV6
<1>3. f.ether = "ipv4" => ipv4_parsing(f) <= f.len
  <2> SUFFICES ASSUME f.ether = "ipv4" PROVE ipv4_parsing(f) <= f.len
    OBVIOUS
  <2> DEFINE l4 == parsing_logic_L4(f)
  <2>1. l4 = 14 + 4 * f.nibble
    BY DEF parsing_logic_L4, ETH
  <2>2. PrintL4(f, l4) = 0 \/ PrintL4(f, l4) \in l4..(l4 + h)
    BY <1>1, <2>1, FrameParts
  <2>3. ipv4_parsing(f) = Farther(34, PrintL4(f, l4))
    BY DEF ipv4_parsing, ETH, IPV4
  <2> QED
    BY <1>1, <1>2, <2>1, <2>2, <2>3 DEF Farther
<1> QED
  BY <1>1, <1>2, <1>3 DEF packet_info, rx_loop_reads, process_packet_reads, parsing_logic,
     ETH, IPV4

\* The indices of prefetch's two loops, for a burst of any length.
LEMMA PrefetchInside ==
  ASSUME NEW n \in Nat
  PROVE  /\ Prefetched(n, PREFETCH_OFFSET) \subseteq 0..(n - 1)
         /\ MainLoop(n, PREFETCH_OFFSET) = 0..(Remaining(n, PREFETCH_OFFSET) - 1)
  BY LcoreAssumption DEF Prefetched, MainLoop, Remaining

\* No parser reads past the end of a frame as long as its headers, but eventdev_packet_parsing
\* of an IPv6 one; packet_parsing reads no byte behind the end of any frame but in the L4
\* header of an IPv6 packet (packet_process.c:16-136); and prefetch's loops stay in a burst
\* of any size (prefetch/main.c:237-252).
THEOREM ReadsInside == Spec => []ReadsStayInside
<1>1. LcoreInv => ReadsStayInside
  <2> SUFFICES ASSUME LcoreInv PROVE ReadsStayInside
    OBVIOUS
  <2>1. Cardinality(held["burst"]) \in Nat
    <3>1. held["burst"] \subseteq Mbufs
      BY DEF LcoreInv, PlaceInv, MbufTypes, Placed, Stages
    <3>2. IsFiniteSet(held["burst"])
      BY <3>1, LcoreAssumption, FS_Subset
    <3> QED
      BY <3>2, FS_CardinalityType
  <2>2. ASSUME NEW f \in Frames
        PROVE  /\ Headers(f) <= f.len /\ ~(program = "eventdev_packet_parsing" /\ f.ether = "ipv6")
                    => Reads(f) <= f.len
               /\ program = "packet_parsing" =>
                    \/ Reads(f) <= f.len
                    \/ f.ether = "ipv6" /\ f.len >= ETH + IPV6 /\ Reads(f) <= Headers(f)
    <3>1. f \in AnyFrames
      BY DEF Frames, AnyFrames, Lengths
    <3>2. CASE program = "packet_parsing"
      BY <3>1, <3>2, CheckedReads DEF Reads
    <3>3. CASE program # "packet_parsing"
      <4> SUFFICES ASSUME Headers(f) <= f.len,
                          ~(program = "eventdev_packet_parsing" /\ f.ether = "ipv6")
                   PROVE  Reads(f) <= f.len
        BY <3>3
      <4>1. f.len >= 0
        BY <3>1, FrameParts
      <4> QED
        BY <3>1, <3>3, <4>1, TrustedReads DEF Reads
    <3> QED
      BY <3>2, <3>3
  <2> QED
    BY <2>1, <2>2, PrefetchInside DEF ReadsStayInside
<1> QED
  BY <1>1, LcoreInvariant, PTL

-------------------------------------------------------------------------------
(* The reorder buffer *)

\* How many elements of a set of numbers are less than y.
Rank(S, y) == Cardinality({z \in S : z < y})

(* As there are as many ranks as elements, each rank is the rank of one. *)
LEMMA Ranks ==
  ASSUME NEW S \in SUBSET Nat, IsFiniteSet(S)
  PROVE  /\ Cardinality(S) \in Nat
         /\ \A x, y \in S : x < y => Rank(S, x) < Rank(S, y)
         /\ \A y \in S : Rank(S, y) \in Nat /\ Rank(S, y) \in 0..(Cardinality(S) - 1)
         /\ \A k \in 0..(Cardinality(S) - 1) : \E y \in S : Rank(S, y) = k
<1> DEFINE Below(y) == {z \in S : z < y}
           n == Cardinality(S)
           rank == [y \in S |-> Rank(S, y)]
<1>1. n \in Nat
  BY FS_CardinalityType
<1>2. ASSUME NEW y \in S
      PROVE  Rank(S, y) \in Nat /\ Rank(S, y) \in 0..(n - 1)
  <2>1. Below(y) \in SUBSET S /\ y \notin Below(y)
    OBVIOUS
  <2>2. IsFiniteSet(Below(y)) /\ Cardinality(Below(y)) <= n /\ Cardinality(Below(y)) # n
    BY <2>1, FS_Subset
  <2>3. Cardinality(Below(y)) \in Nat
    BY <2>2, FS_CardinalityType
  <2> QED
    BY <1>1, <2>2, <2>3 DEF Rank
<1>3. ASSUME NEW x \in S, NEW y \in S, x < y
      PROVE  Rank(S, x) < Rank(S, y)
  <2>1. Below(x) \in SUBSET Below(y) /\ Below(x) # Below(y)
    <3>1. x \in Below(y) /\ x \notin Below(x)
      BY <1>3
    <3>2. \A z \in S : z < x => z < y
      BY <1>3
    <3> QED
      BY <3>1, <3>2
  <2>2. Below(y) \in SUBSET S
    OBVIOUS
  <2>3. IsFiniteSet(Below(y))
    BY <2>2, FS_Subset
  <2>4. /\ Cardinality(Below(x)) <= Cardinality(Below(y))
        /\ Cardinality(Below(x)) # Cardinality(Below(y))
    BY <2>1, <2>3, FS_Subset
  <2>5. Rank(S, x) \in Nat /\ Rank(S, y) \in Nat
    BY <1>1, <1>2
  <2> QED
    BY <2>4, <2>5 DEF Rank
<1>4. \A k \in 0..(n - 1) : \E y \in S : Rank(S, y) = k
  <2>1. rank \in Injection(S, 0..(n - 1))
    <3>1. rank \in [S -> 0..(n - 1)]
      BY <1>2
    <3>2. ASSUME NEW x \in S, NEW y \in S, rank[x] = rank[y]
          PROVE  x = y
      <4>1. Rank(S, x) = Rank(S, y) /\ Rank(S, x) \in Nat
        BY <1>1, <1>2, <3>2
      <4>2. ~(x < y) /\ ~(y < x)
        BY <1>3, <4>1
      <4> QED
        BY <4>2
    <3> QED
      BY <3>1, <3>2 DEF Injection, IsInjective
  <2>2. IsFiniteSet(0..(n - 1)) /\ Cardinality(0..(n - 1)) = n
    <3>1. n - 1 \in Int /\ (IF 0 > n - 1 THEN 0 ELSE (n - 1) - 0 + 1) = n
      BY <1>1
    <3> QED
      BY <3>1, FS_Interval
  <2> HIDE DEF rank
  <2>3. rank \in Surjection(S, 0..(n - 1))
    BY <2>1, <2>2, FS_Injection
  <2>4. \A k \in 0..(n - 1) : \E y \in S : rank[y] = k
    BY <2>3 DEF Surjection
  <2> QED
    BY <2>4 DEF rank
<1> QED
  BY <1>1, <1>2, <1>3, <1>4

(* InOrder lists a finite set of numbers, in order. *)
LEMMA InOrderLists ==
  ASSUME NEW S \in SUBSET Nat, IsFiniteSet(S)
  PROVE  /\ InOrder(S) \in Seq(Nat)
         /\ Range(InOrder(S)) = S
         /\ Increasing(InOrder(S))
<1> DEFINE n == Cardinality(S)  l == InOrder(S)
<1>1. /\ n \in Nat
      /\ \A x, y \in S : x < y => Rank(S, x) < Rank(S, y)
      /\ \A y \in S : Rank(S, y) \in Nat /\ Rank(S, y) \in 0..(n - 1)
      /\ \A k \in 0..(n - 1) : \E y \in S : Rank(S, y) = k
  BY Ranks
<1>2. l = [k \in 1..n |-> CHOOSE y \in S : Rank(S, y) = k - 1]
  BY DEF InOrder, Rank
<1> HIDE DEF n, l
<1>3. \A k \in 1..n : l[k] \in S /\ Rank(S, l[k]) = k - 1
  <2> SUFFICES ASSUME NEW k \in 1..n PROVE l[k] \in S /\ Rank(S, l[k]) = k - 1
    OBVIOUS
  <2>1. k - 1 \in 0..(n - 1)
    BY <1>1
  <2>2. \E y \in S : Rank(S, y) = k - 1
    BY <1>1, <2>1
  <2>3. l[k] = CHOOSE y \in S : Rank(S, y) = k - 1
    BY <1>2
  <2> QED
    BY <2>2, <2>3
<1>4. \A x, y \in S : Rank(S, x) = Rank(S, y) => x = y
  <2> SUFFICES ASSUME NEW x \in S, NEW y \in S, Rank(S, x) = Rank(S, y) PROVE x = y
    OBVIOUS
  <2>1. ~(x < y) /\ ~(y < x)
    BY <1>1
  <2> QED
    BY <2>1
<1>5. l \in [1..n -> S] /\ DOMAIN l = 1..n
  BY <1>2, <1>3
<1>6. l \in Seq(Nat) /\ Len(l) = n
  <2>1. l \in [1..n -> Nat]
    BY <1>5
  <2> QED
    BY <1>1, <1>5, <2>1, SeqDef, LenProperties
<1>7. \A y \in S : \E k \in 1..n : l[k] = y
  <2> SUFFICES ASSUME NEW y \in S PROVE \E k \in 1..n : l[k] = y
    OBVIOUS
  <2> DEFINE k == Rank(S, y) + 1
  <2>1. k \in 1..n /\ k - 1 = Rank(S, y)
    BY <1>1
  <2>2. l[k] \in S /\ Rank(S, l[k]) = Rank(S, y)
    BY <1>3, <2>1
  <2> QED
    BY <1>4, <2>1, <2>2
<1>8. Range(l) = S
  BY <1>3, <1>5, <1>7 DEF Range
<1>9. Increasing(l)
  <2> SUFFICES ASSUME NEW j \in 1..n, NEW k \in 1..n, j < k PROVE l[j] < l[k]
    BY <1>6 DEF Increasing
  <2> DEFINE x == l[j]  y == l[k]
  <2>1. x \in S /\ y \in S /\ Rank(S, x) < Rank(S, y)
    BY <1>1, <1>3
  <2> HIDE DEF x, y
  <2>2. x # y /\ ~(y < x)
    BY <1>1, <2>1
  <2>3. x < y
    BY <2>1, <2>2
  <2> QED
    BY <2>3 DEF x, y
<1> QED
  BY <1>6, <1>8, <1>9 DEF l

(* Every finite set of numbers that is not empty has a least one. *)
LEMMA Least ==
  ASSUME NEW S \in SUBSET Nat, IsFiniteSet(S), S # {}
  PROVE  Min(S) \in S /\ \A y \in S : Min(S) <= y
<1>1. \E x \in S : \A y \in S : x <= y
  <2>1. Cardinality(S) \in Nat /\ Cardinality(S) # 0
    BY FS_CardinalityType, FS_EmptySet
  <2>2. PICK x \in S : Rank(S, x) = 0
    BY <2>1, Ranks
  <2>3. \A y \in S : ~(y < x)
    <3> SUFFICES ASSUME NEW y \in S, y < x PROVE FALSE
      OBVIOUS
    <3>1. Rank(S, y) \in Nat /\ Rank(S, y) < 0
      BY <2>1, <2>2, Ranks
    <3> QED
      BY <3>1
  <2> QED
    BY <2>3
<1> QED
  BY <1>1 DEF Min

\* A buffer whose window holds numbers from min on, `size` of them at most.
Window(b) ==
  /\ b \in [size : Nat \ {0}, started : BOOLEAN, min : Nat, order : SUBSET Nat, ready : Seq(Nat)]
  /\ b.order \subseteq b.min..(b.min + b.size - 1)
  /\ ~b.started => b.order = {}

\* What has left b's window is d and then what is ready: in order, and behind the window.
InLine(b, d) ==
  /\ d \in Seq(Nat) /\ Increasing(d \o b.ready)
  /\ \A x \in Range(d \o b.ready) : x < b.min
  /\ ~b.started => d \o b.ready = <<>>

(* The first gap from x on is a number that is not in the window. *)
LEMMA Gap ==
  ASSUME NEW b, Window(b), NEW x \in Nat, b.min <= x
  PROVE  /\ FirstGap(b, x) \in Nat /\ x <= FirstGap(b, x) /\ FirstGap(b, x) \notin b.order
         /\ x \notin b.order => FirstGap(b, x) = x
<1> DEFINE far == x + 2 * b.size
           S == {y \in x..far : y \notin b.order}
<1>1. b.size \in Nat /\ b.size > 0 /\ b.min \in Nat /\ far \in Nat /\ x <= far
  BY DEF Window
<1>2. far \in S
  <2>1. far \notin b.min..(b.min + b.size - 1)
    BY <1>1
  <2>2. far \in x..far
    BY <1>1
  <2> QED
    BY <2>1, <2>2 DEF Window
<1>3. S \in SUBSET Nat /\ \A y \in S : y <= far
  BY <1>1
<1>4. IsFiniteSet(S)
  BY <1>1, <1>3, FS_BoundedSetOfNaturals
<1>5. Min(S) \in S /\ \A y \in S : Min(S) <= y
  BY <1>2, <1>3, <1>4, Least
<1>6. Min(S) \in Nat /\ x <= Min(S) /\ Min(S) \notin b.order
  BY <1>1, <1>5
<1>7. x \notin b.order => Min(S) <= x
  <2>1. x \notin b.order => x \in S
    BY <1>1
  <2> QED
    BY <1>5, <2>1
<1>8. FirstGap(b, x) = Min(S)
  BY DEF FirstGap
<1> HIDE DEF S
<1> QED
  BY <1>6, <1>7, <1>8

(* A sequence in order, and behind it the elements of a set that are greater. *)
LEMMA ThenInOrder ==
  ASSUME NEW d \in Seq(Nat), NEW r \in Seq(Nat), NEW S \in SUBSET Nat, IsFiniteSet(S),
         Increasing(d \o r), Before(Range(d \o r), S)
  PROVE  /\ r \o InOrder(S) \in Seq(Nat) /\ Increasing(d \o (r \o InOrder(S)))
         /\ Range(d \o (r \o InOrder(S))) = Range(d \o r) \cup S
<1> DEFINE l == InOrder(S)
<1>1. l \in Seq(Nat) /\ Range(l) = S /\ Increasing(l)
  BY InOrderLists
<1> HIDE DEF l
<1>2. /\ Increasing(d) /\ Increasing(r) /\ Before(Range(d), Range(r))
      /\ Range(d \o r) = Range(d) \cup Range(r)
  BY ConcatOrdered
<1>3. Before(Range(d), S) /\ Before(Range(r), S)
  BY <1>2 DEF Before
<1>4. r \o l \in Seq(Nat) /\ Range(r \o l) = Range(r) \cup S /\ Increasing(r \o l)
  BY <1>1, <1>2, <1>3, ConcatOrdered
<1>5. Before(Range(d), Range(r \o l))
  BY <1>2, <1>3, <1>4 DEF Before
<1>6. /\ Increasing(d \o (r \o l))
      /\ Range(d \o (r \o l)) = Range(d) \cup Range(r \o l)
  BY <1>2, <1>4, <1>5, ConcatOrdered
<1> QED
  BY <1>2, <1>4, <1>6 DEF l

(* Moving the window keeps it a window, and what leaves it in order. *)
LEMMA MovesOn ==
  ASSUME NEW b, NEW d, Window(b), InLine(b, d), b.started, NEW n \in Nat
  PROVE  /\ Window(fill_overflow(b, n)) /\ InLine(fill_overflow(b, n), d)
         /\ fill_overflow(b, n).started /\ fill_overflow(b, n).size = b.size
         /\ fill_overflow(b, n).min \notin fill_overflow(b, n).order
         /\ b.min + n <= fill_overflow(b, n).min
<1> DEFINE to == FirstGap(b, b.min + n)
           past == {y \in b.order : y < to}
           c == fill_overflow(b, n)
<1>1. /\ b \in [size : Nat \ {0}, started : BOOLEAN, min : Nat, order : SUBSET Nat,
               ready : Seq(Nat)]
      /\ b.order \subseteq b.min..(b.min + b.size - 1)
      /\ d \in Seq(Nat) /\ Increasing(d \o b.ready) /\ \A x \in Range(d \o b.ready) : x < b.min
  BY DEF Window, InLine
<1>2. to \in Nat /\ b.min + n <= to /\ to \notin b.order
  <2>1. b.min + n \in Nat /\ b.min <= b.min + n
    BY <1>1
  <2> QED
    BY <2>1, Gap
<1>3. /\ c = [b EXCEPT !.min = to, !.order = @ \ past, !.ready = @ \o InOrder(past)]
  BY DEF fill_overflow
<1> HIDE DEF to, c
<1>4. past \in SUBSET Nat /\ IsFiniteSet(past)
  <2>1. past \in SUBSET Nat /\ \A y \in past : y <= to
    BY <1>1, <1>2
  <2> QED
    BY <1>2, <2>1, FS_BoundedSetOfNaturals
<1>5. Before(Range(d \o b.ready), past)
  <2> SUFFICES ASSUME NEW x \in Range(d \o b.ready), NEW y \in past PROVE x < y
    BY DEF Before
  <2>1. x \in Nat
    <3>1. b.ready \in Seq(Nat)
      BY <1>1
    <3>2. d \o b.ready \in Seq(Nat)
      BY <1>1, <3>1, ConcatOrdered
    <3> QED
      BY <3>2, Holding
  <2>2. x < b.min /\ b.min <= y /\ y \in Nat
    BY <1>1
  <2> QED
    BY <1>1, <2>1, <2>2
<1>6. /\ b.ready \o InOrder(past) \in Seq(Nat) /\ Increasing(d \o (b.ready \o InOrder(past)))
      /\ Range(d \o (b.ready \o InOrder(past))) = Range(d \o b.ready) \cup past
  <2> DEFINE r == b.ready
  <2>1. /\ r \in Seq(Nat) /\ d \in Seq(Nat) /\ Increasing(d \o r)
        /\ Before(Range(d \o r), past)
    BY <1>1, <1>5
  <2> HIDE DEF r, past
  <2>2. /\ r \o InOrder(past) \in Seq(Nat) /\ Increasing(d \o (r \o InOrder(past)))
        /\ Range(d \o (r \o InOrder(past))) = Range(d \o r) \cup past
    BY <1>4, <2>1, ThenInOrder
  <2> QED
    BY <2>2 DEF r
<1>7. /\ c.min = to /\ c.order = b.order \ past /\ c.ready = b.ready \o InOrder(past)
      /\ c.started = b.started /\ c.size = b.size
      /\ c \in [size : Nat \ {0}, started : BOOLEAN, min : Nat, order : SUBSET Nat,
                ready : Seq(Nat)]
  <2> HIDE DEF past
  <2> QED
    BY <1>1, <1>2, <1>3, <1>6
<1>8. c.order \subseteq c.min..(c.min + c.size - 1)
  <2> SUFFICES ASSUME NEW y \in b.order \ past PROVE y \in to..(to + b.size - 1)
    BY <1>7
  <2>1. y \in Nat /\ y \in b.min..(b.min + b.size - 1) /\ ~(y < to)
    BY <1>1
  <2> QED
    BY <1>1, <1>2, <2>1
<1>9. Window(c)
  BY <1>7, <1>8 DEF Window
<1>10. \A x \in Range(d \o c.ready) : x < c.min
  <2> SUFFICES ASSUME NEW x \in Range(d \o b.ready) \cup past PROVE x < to
    BY <1>6, <1>7
  <2>1. CASE x \in past
    BY <2>1
  <2>2. CASE x \in Range(d \o b.ready)
    <3>1. d \o b.ready \in Seq(Nat)
      BY <1>1, ConcatOrdered
    <3>2. x \in Nat /\ x < b.min
      BY <1>1, <2>2, <3>1, Holding
    <3> QED
      BY <1>1, <1>2, <3>2
  <2> QED
    BY <2>1, <2>2
<1>11. InLine(c, d)
  BY <1>1, <1>6, <1>7, <1>10 DEF InLine
<1> QED
  BY <1>2, <1>7, <1>9, <1>11 DEF c

(* Nothing, listed and joined. *)
LEMMA NothingJoined ==
  ASSUME NEW s \in Seq(Nat)
  PROVE  s \o <<>> = s
  BY ConcatEmptySeq

LEMMA NothingListed == InOrder({}) = <<>> /\ <<>> \o InOrder({}) = <<>>
<1>1. /\ InOrder({}) \in Seq(Nat) /\ Range(InOrder({})) = {}
  BY FS_EmptySet, InOrderLists
<1>2. InOrder({}) = <<>>
  <2>1. Len(InOrder({})) \in Nat /\ \A k \in 1..Len(InOrder({})) : InOrder({})[k] \in {}
    BY <1>1, Holding
  <2>2. Len(InOrder({})) = 0
    BY <2>1
  <2> QED
    BY <1>1, <2>2, EmptySeq
<1> QED
  BY <1>2, EmptyOrdered, NothingJoined

(* A new buffer, of which nothing has come. *)
LEMMA NewBuffer ==
  ASSUME NEW n \in Nat \ {0}
  PROVE  LET b == rte_reorder_create(n)
         IN  Window(b) /\ InLine(b, <<>>) /\ Drained(b) = <<>>
<1> DEFINE b == rte_reorder_create(n)
<1>1. b = [size |-> n, started |-> FALSE, min |-> 0, order |-> {}, ready |-> <<>>]
  BY DEF rte_reorder_create
<1>2. Window(b)
  <2>1. b \in [size : Nat \ {0}, started : BOOLEAN, min : Nat, order : SUBSET Nat,
               ready : Seq(Nat)]
    BY <1>1, EmptyOrdered
  <2> QED
    BY <1>1, <2>1 DEF Window
<1> HIDE DEF b
<1>3. b.ready = <<>> /\ <<>> \o <<>> = <<>>
  BY <1>1, NothingJoined
<1>4. InLine(b, <<>>)
  BY <1>3, EmptyOrdered DEF InLine
<1>5. Drained(b) = <<>>
  <2>1. Drainable(b) = {}
    BY <1>1 DEF Drainable
  <2> QED
    BY <1>3, <2>1, NothingListed DEF Drained
<1> QED
  BY <1>2, <1>4, <1>5 DEF b

(* The window after the first number, and moved for s, whether s is taken or not. *)
LEMMA MovedKeeps ==
  ASSUME NEW b, NEW d, Window(b), InLine(b, d), NEW s \in Nat
  PROVE  /\ Window(Moved(b, s)) /\ InLine(Moved(b, s), d) /\ Moved(b, s).started
<1> DEFINE c == IF b.started THEN b ELSE [b EXCEPT !.started = TRUE, !.min = s]
<1>1. Window(c) /\ InLine(c, d) /\ c.started
  <2>1. CASE b.started
    BY <2>1
  <2>2. CASE ~b.started
    <3>1. /\ b \in [size : Nat \ {0}, started : BOOLEAN, min : Nat, order : SUBSET Nat,
                   ready : Seq(Nat)]
          /\ b.order = {} /\ d \in Seq(Nat) /\ Increasing(d \o b.ready) /\ d \o b.ready = <<>>
      BY <2>2 DEF Window, InLine
    <3>2. /\ c.order = {} /\ c.started /\ c.ready = b.ready
          /\ c \in [size : Nat \ {0}, started : BOOLEAN, min : Nat, order : SUBSET Nat,
                    ready : Seq(Nat)]
      BY <2>2, <3>1
    <3> HIDE DEF c
    <3>3. Window(c)
      BY <3>2 DEF Window
    <3>4. InLine(c, d)
      BY <3>1, <3>2, EmptyOrdered DEF InLine
    <3> QED
      BY <3>2, <3>3, <3>4
  <2> QED
    BY <2>1, <2>2
<1>2. \/ Moved(b, s) = c
      \/ /\ s >= c.min + c.size
         /\ Moved(b, s) = fill_overflow(c, s + 1 - c.min - c.size)
  BY DEF Moved
<1> HIDE DEF c
<1>3. CASE Moved(b, s) = c
  BY <1>1, <1>3
<1>4. CASE /\ s >= c.min + c.size
           /\ Moved(b, s) = fill_overflow(c, s + 1 - c.min - c.size)
  <2>1. s + 1 - c.min - c.size \in Nat
    <3>1. c.min \in Nat /\ c.size \in Nat
      BY <1>1 DEF Window
    <3> QED
      BY <1>4, <3>1
  <2> QED
    BY <1>1, <1>4, <2>1, MovesOn
<1> QED
  BY <1>2, <1>3, <1>4

LEMMA InsertKeeps ==
  ASSUME NEW b, NEW d, Window(b), InLine(b, d), NEW s \in Nat
  PROVE  Window(rte_reorder_insert(b, s)) /\ InLine(rte_reorder_insert(b, s), d)
<1> DEFINE c == Moved(b, s)
           e == [c EXCEPT !.order = @ \cup {s}]
<1>1. Window(c) /\ InLine(c, d) /\ c.started
  BY MovedKeeps
<1>2. rte_reorder_insert(b, s) = IF s >= c.min /\ s < c.min + c.size THEN e ELSE c
  BY DEF rte_reorder_insert, Takes
<1> HIDE DEF c
<1>3. ASSUME s >= c.min, s < c.min + c.size
      PROVE  Window(e) /\ InLine(e, d)
  <2>1. /\ c \in [size : Nat \ {0}, started : BOOLEAN, min : Nat, order : SUBSET Nat,
                 ready : Seq(Nat)]
        /\ c.order \subseteq c.min..(c.min + c.size - 1)
    BY <1>1 DEF Window
  <2>2. /\ e.order = c.order \cup {s} /\ e.started = c.started /\ e.min = c.min
        /\ e.ready = c.ready /\ e.size = c.size
        /\ e \in [size : Nat \ {0}, started : BOOLEAN, min : Nat, order : SUBSET Nat,
                  ready : Seq(Nat)]
    BY <2>1
  <2>3. s \in c.min..(c.min + c.size - 1)
    BY <1>3, <2>1
  <2> HIDE DEF e
  <2>4. Window(e)
    BY <1>1, <2>1, <2>2, <2>3 DEF Window
  <2>5. InLine(e, d)
    BY <1>1, <2>2 DEF InLine
  <2> QED
    BY <2>4, <2>5
<1> QED
  BY <1>1, <1>2, <1>3

(* What is drained comes behind what was drained before, and nothing that can be drained *)
(* stays.                                                                             *)
LEMMA DrainKeeps ==
  ASSUME NEW b, NEW d, Window(b), InLine(b, d)
  PROVE  LET c == rte_reorder_drain(b)
         IN  /\ Window(c) /\ InLine(c, d \o Drained(b)) /\ Drained(c) = <<>>
<1> DEFINE c == rte_reorder_drain(b)
           e == d \o Drained(b)
<1>1. b \in [size : Nat \ {0}, started : BOOLEAN, min : Nat, order : SUBSET Nat,
             ready : Seq(Nat)]
  BY DEF Window
<1>2. FirstGap(b, b.min) \in Nat
  BY <1>1, Gap
<1>3. /\ c.ready = <<>> /\ c.min = FirstGap(b, b.min) /\ c.order = b.order \ Drainable(b)
      /\ c.started = b.started /\ c.size = b.size
      /\ c \in [size : Nat \ {0}, started : BOOLEAN, min : Nat, order : SUBSET Nat,
                ready : Seq(Nat)]
  <2>1. c = [b EXCEPT !.ready = <<>>, !.min = FirstGap(b, @), !.order = @ \ Drainable(b)]
    BY DEF rte_reorder_drain
  <2>2. b.order \ Drainable(b) \in SUBSET Nat
    BY <1>1
  <2> HIDE DEF c
  <2> QED
    BY <1>1, <1>2, <2>1, <2>2, EmptyOrdered
<1> HIDE DEF c
<1>4. CASE b.started
  <2> DEFINE m == fill_overflow(b, 0)
  <2>1. /\ m.ready = Drained(b) /\ m.min = c.min /\ m.order = c.order /\ m.size = c.size
    <3>1. b.min + 0 = b.min /\ Drainable(b) = {y \in b.order : y < FirstGap(b, b.min)}
      BY <1>1, <1>4 DEF Drainable
    <3> QED
      BY <1>1, <1>3, <3>1 DEF fill_overflow, Drained
  <2>2. Window(m) /\ InLine(m, d) /\ m.min \notin m.order /\ m.size = b.size
    BY <1>4, MovesOn
  <2> HIDE DEF m
  <2>3. Window(c)
    BY <1>3, <1>4, <2>1, <2>2 DEF Window
  <2>4. e \in Seq(Nat) /\ Increasing(e) /\ \A x \in Range(e) : x < c.min
    <3>1. m.ready \in Seq(Nat)
      BY <2>2 DEF Window
    <3> QED
      BY <2>1, <2>2, <3>1, ConcatOrdered DEF InLine
  <2> HIDE DEF e
  <2>5. e \o <<>> = e
    BY <2>4, NothingJoined
  <2>6. InLine(c, e)
    BY <1>3, <1>4, <2>4, <2>5 DEF InLine
  <2>7. FirstGap(c, c.min) = c.min
    BY <1>3, <2>1, <2>2, <2>3, Gap
  <2>8. Drainable(c) = {}
    <3>1. \A y \in c.order : ~(y < c.min)
      BY <1>3, <2>3 DEF Window
    <3> QED
      BY <2>7, <3>1 DEF Drainable
  <2>9. Drained(c) = <<>>
    BY <1>3, <2>8, NothingListed DEF Drained
  <2> QED
    BY <2>3, <2>6, <2>9 DEF c, e
<1>5. CASE ~b.started
  <2>1. Drainable(b) = {} /\ b.order = {} /\ Drainable(c) = {} /\ c.order = {}
    BY <1>3, <1>5 DEF Window, Drainable
  <2>2. /\ d \in Seq(Nat) /\ b.ready \in Seq(Nat) /\ d \o b.ready = <<>>
    BY <1>1, <1>5 DEF InLine
  <2>3. Drained(b) = b.ready /\ Drained(c) = <<>>
    <3>1. Drained(b) = b.ready \o <<>> /\ Drained(c) = <<>> \o <<>>
      BY <1>3, <2>1, NothingListed DEF Drained
    <3> QED
      BY <2>2, <3>1, NothingJoined, EmptyOrdered
  <2>4. e = <<>> /\ e \o <<>> = <<>>
    BY <2>2, <2>3, NothingJoined, EmptyOrdered
  <2>5. Window(c)
    BY <1>3, <2>1 DEF Window
  <2> HIDE DEF e
  <2>6. InLine(c, e)
    BY <1>3, <2>4, EmptyOrdered DEF InLine
  <2> QED
    BY <2>3, <2>5, <2>6 DEF c, e
<1> QED
  BY <1>4, <1>5

-------------------------------------------------------------------------------
(* The reorder demos *)

\* Until its loop a program has drained nothing, and behind it nothing can be drained.
OrderInv ==
  /\ Window(buffer) /\ InLine(buffer, drained) /\ arriving \in Seq(Nat)
  /\ program \in ReorderPrograms /\ phase # "loop" =>
       /\ Drained(buffer) = <<>> /\ arriving = <<>>
       /\ \A n \in at..Len(Script[program]) : Script[program][n].op = "loop" => drained = <<>>

LEMMA OneLoop ==
  ASSUME NEW p \in ReorderPrograms,
         NEW m \in 1..Len(Script[p]), NEW n \in 1..Len(Script[p]),
         Script[p][m].op = "loop", Script[p][n].op = "loop"
  PROVE  m = n
<1>1. CASE p = "reorder_2"
  <2> DEFINE s == reorder_2_main
  <2>1. Script[p] = s /\ Len(s) = 6
    BY <1>1 DEF Script, reorder_2_main
  <2>2. /\ s[1] = Get("eal", "exit") /\ s[2] = Get("pool", "exit")
        /\ s[3] = Get("dynfield", "exit") /\ s[4] = Get("reorder", "exit")
        /\ s[5] = Loop /\ s[6] = Drop({"reorder"})
    BY DEF reorder_2_main
  <2> HIDE DEF s
  <2>3. \A k \in 1..6 : s[k].op = "loop" => k = 5
    BY <2>2, Fields
  <2> QED
    BY <2>1, <2>3
<1>2. CASE p \in {"reorder_packet", "reorder_packet2"}
  <2> DEFINE s == reorder_packet_main
  <2>1. Script[p] = s /\ Len(s) = 4
    BY <1>2 DEF Script, reorder_packet_main, reorder_packet2_main
  <2>2. /\ s[1] = Get("eal", "exit") /\ s[2] = Get("pool", "exit")
        /\ s[3] = Get("reorder", "exit") /\ s[4] = Loop
    BY DEF reorder_packet_main
  <2> HIDE DEF s
  <2>3. \A k \in 1..4 : s[k].op = "loop" => k = 4
    BY <2>2, Fields
  <2> QED
    BY <2>1, <2>3
<1> QED
  BY <1>1, <1>2 DEF ReorderPrograms

LEMMA DemosGood ==
  ASSUME NEW p \in ReorderPrograms, NEW demo \in Demos(p)
  PROVE  demo.size \in Nat \ {0} /\ demo.arrivals \in Seq(Nat)
<1>1. \A l \in OtherArrivals : l \in Seq(Nat)
  BY LcoreAssumption
<1>2. /\ reorder_2_demo.size = 8 /\ reorder_2_demo.arrivals \in Seq(Nat)
      /\ reorder_packet_demo.size = 16 /\ reorder_packet_demo.arrivals \in Seq(Nat)
      /\ reorder_packet2_demo.size = 4 /\ reorder_packet2_demo.arrivals \in Seq(Nat)
  BY DEF reorder_2_demo, reorder_packet_demo, reorder_packet2_demo
<1>3. p \in {"reorder_2", "reorder_packet", "reorder_packet2"}
  BY DEF ReorderPrograms
<1>4. CASE p = "reorder_2"
  BY <1>2, <1>4 DEF Demos
<1>5. CASE p = "reorder_packet"
  BY <1>2, <1>5 DEF Demos
<1>6. CASE p = "reorder_packet2"
  <2>1. \/ demo = reorder_packet2_demo
        \/ demo \in [size : {reorder_packet2_demo.size}, arrivals : OtherArrivals]
    BY <1>6 DEF Demos
  <2>2. CASE demo \in [size : {reorder_packet2_demo.size}, arrivals : OtherArrivals]
    <3>1. demo.size = reorder_packet2_demo.size /\ demo.arrivals \in OtherArrivals
      BY <2>2
    <3> QED
      BY <1>1, <1>2, <3>1
  <2> QED
    BY <1>2, <2>1, <2>2
<1> QED
  BY <1>3, <1>4, <1>5, <1>6

(* main goes forward only. *)
LEMMA Forward ==
  ASSUME ScriptInv, [Next]_vars
  PROVE  at \in Nat /\ at' \in Nat /\ at <= at'
<1> DEFINE s == Script[program]
<1>1. program' = program /\ Moves /\ Closed(s) /\ Standing(s, at, phase)
  BY NextMoves, ScriptsFit DEF ScriptInv, Fit, Followed
<1> HIDE DEF s
<1>2. Len(s) \in Nat
  BY <1>1, LenProperties DEF Closed, IsSeq
<1>3. at \in Nat /\ at >= 1
  BY <1>1, <1>2 DEF Standing
<1>4. \A k \in 1..Len(s) : s[k].over \in Nat
  BY <1>1 DEF Closed, IsStep
<1>5. at' = at \/ at' = at + 1 \/ (at <= Len(s) /\ at' = at + 1 + s[at].over)
  BY <1>1 DEF Moves, Move, Stays, Gets, Exits, Skips, Passes, Drops, Goes, s
<1>6. at <= Len(s) => s[at].over \in Nat
  BY <1>2, <1>3, <1>4
<1> QED
  BY <1>3, <1>5, <1>6

LEMMA OrderInit == Init => OrderInv
<1> SUFFICES ASSUME Init PROVE OrderInv
  OBVIOUS
<1>1. /\ buffer = rte_reorder_create(1) /\ arriving = <<>> /\ drained = <<>>
  BY DEF Init
<1>2. Window(buffer) /\ InLine(buffer, drained) /\ Drained(buffer) = <<>>
  BY <1>1, NewBuffer
<1> QED
  BY <1>1, <1>2, EmptyOrdered DEF OrderInv

LEMMA OrderStep ==
  ASSUME ScriptInv, OrderInv, [Next]_vars
  PROVE  OrderInv'
<1> DEFINE s == Script[program]
<1>1. /\ at \in Nat /\ at' \in Nat /\ at <= at' /\ program' = program /\ Len(s) \in Nat
      /\ Standing(s, at, phase)
  <2>1. Closed(s)
    BY ScriptsFit DEF ScriptInv, Fit
  <2> QED
    BY <2>1, Forward, NextMoves, LenProperties DEF ScriptInv, Followed, Closed, IsSeq
<1>2. CASE /\ UNCHANGED orderVars
           /\ program \in ReorderPrograms /\ phase' # "loop" => phase # "loop"
  BY <1>1, <1>2 DEF OrderInv, orderVars
<1>3. CASE EnterLoop
  <2>1. phase = "main" /\ phase' = "loop" /\ at <= Len(s) /\ s[at].op = "loop" /\ drained' = drained
    BY <1>3 DEF EnterLoop, OnStep, Here
  <2>2. CASE program \in ReorderPrograms
    <3>1. PICK demo \in Demos(program) :
             buffer' = rte_reorder_create(demo.size) /\ arriving' = demo.arrivals
      BY <1>3, <2>2 DEF EnterLoop
    <3>2. demo.size \in Nat \ {0} /\ demo.arrivals \in Seq(Nat)
      BY <2>2, DemosGood
    <3>3. drained = <<>>
      BY <1>1, <2>1, <2>2 DEF OrderInv
    <3>4. Window(buffer') /\ InLine(buffer', drained')
      BY <2>1, <3>1, <3>2, <3>3, NewBuffer
    <3> QED
      BY <2>1, <3>1, <3>2, <3>4 DEF OrderInv
  <2>3. CASE program \notin ReorderPrograms
    BY <1>2, <1>3, <2>1, <2>3 DEF EnterLoop, orderVars
  <2> QED
    BY <2>2, <2>3
<1>4. CASE ScriptStep /\ ~EnterLoop
  <2>1. UNCHANGED orderVars /\ phase # "loop"
    BY <1>4 DEF ScriptStep, Succeed, Fail, TestStep, UseStep, DropStep, LaunchStep, WaitStep,
       End, OnStep, loopVars
  <2> QED
    BY <1>2, <2>1
<1>5. CASE Process
  <2>1. CASE vhost_tx_send \/ classify_pkt1
    BY <1>2, <2>1 DEF vhost_tx_send, classify_pkt1, InLoop, ReorderPrograms, loopVars
  <2> QED
    BY <1>2, <1>5, <2>1 DEF Process, prefetch_lcore_main, meter_loop, vhost_loop, rx_loop,
       mem_info_loop, process_packet, firewall_classify, firewall_send, FreesBurst, mainVars
<1>6. CASE Graph
  <2>1. UNCHANGED orderVars
    BY <1>6 DEF Graph, rte_graph_walk, two_source_rx1, two_source_rx2, two_source_ipv4,
       two_source_tx, two_source_drop, disable_node_rx, disable_node_ipv4, disable_node_tx,
       disable_node_drop, graph_dpdk_rx, RxNode, Ipv4Node, TxNode, DropNode
  <2>2. program \notin ReorderPrograms
    BY <1>6 DEF Graph, rte_graph_walk, two_source_rx1, two_source_rx2, two_source_ipv4,
       two_source_tx, two_source_drop, disable_node_rx, disable_node_ipv4, disable_node_tx,
       disable_node_drop, graph_dpdk_rx, RxNode, Ipv4Node, TxNode, DropNode, Runs, InLoop,
       GraphPrograms, ReorderPrograms
  <2> QED
    BY <1>2, <2>1, <2>2
<1>7. CASE \E p \in ReorderPrograms : Insert(p)
  <2>1. /\ phase = "loop" /\ phase' = phase /\ arriving # <<>> /\ drained' = drained
        /\ buffer' = rte_reorder_insert(buffer, Head(arriving)) /\ arriving' = Tail(arriving)
    BY <1>7 DEF Insert, InLoop, mainVars
  <2>2. Head(arriving) \in Nat /\ Tail(arriving) \in Seq(Nat)
    BY <2>1, HeadTailProperties DEF OrderInv
  <2>3. Window(buffer') /\ InLine(buffer', drained')
    BY <2>1, <2>2, InsertKeeps DEF OrderInv
  <2> QED
    BY <2>1, <2>2, <2>3 DEF OrderInv
<1>8. CASE \E p \in ReorderPrograms : DrainOnce(p) \/ DrainAll(p)
  <2>1. /\ phase = "loop" /\ arriving = <<>> /\ arriving' = arriving
        /\ program \in ReorderPrograms
        /\ buffer' = rte_reorder_drain(buffer) /\ drained' = drained \o Drained(buffer)
        /\ AfterLoop \/ UNCHANGED <<phase, at>>
    BY <1>8 DEF DrainOnce, DrainAll, Drain, InLoop
  <2>2. Window(buffer') /\ InLine(buffer', drained') /\ Drained(buffer') = <<>>
    BY <2>1, DrainKeeps DEF OrderInv
  <2>3. ASSUME phase' # "loop", NEW n \in at'..Len(s), s[n].op = "loop"
        PROVE  FALSE
    <3>1. at' = at + 1
      BY <2>1, <2>3 DEF AfterLoop
    <3>2. at \in 1..Len(s) /\ s[at].op = "loop" /\ n \in 1..Len(s)
      BY <1>1, <2>1, <3>1 DEF Standing
    <3>3. n = at
      BY <2>1, <2>3, <3>2, OneLoop
    <3> QED
      BY <1>1, <3>1, <3>3
  <2> QED
    BY <1>1, <2>1, <2>2, <2>3 DEF OrderInv
<1>9. CASE QuitLoop
  BY <1>2, <1>9 DEF QuitLoop, InLoop, GraphPrograms, ReorderPrograms, loopVars
<1>10. CASE Receive \/ Signal \/ (\E m \in nic : TxDone(m)) \/ UNCHANGED vars
  BY <1>2, <1>10 DEF Receive, Signal, TxDone, vars, mainVars, loopVars
<1>11. CASE \E w \in running : Worker(w)
  BY <1>2, <1>11 DEF Worker, WorkerReturns, WorkerCrashes, loopVars
<1>12. CASE Reorder
  BY <1>7, <1>8, <1>12 DEF Reorder, ReorderPrograms, reorder_2_insert, reorder_packet_insert,
     reorder_packet2_insert, reorder_2_drain, reorder_packet_drain, reorder_packet2_drain
<1> QED
  BY <1>3, <1>4, <1>5, <1>6, <1>9, <1>10, <1>11, <1>12 DEF Next, Main

\* In whatever order and however far apart the numbers arrive, what the demos drain comes
\* in increasing order, and when one ends nothing is left that could be drained
\* (reorder_2/main.c:57-99, reorder_packet/main.c:69-101, reorder_packet2/main.c:112-142).
THEOREM DrainsInOrder == Spec => []DrainedInOrder
<1>1. Init => ScriptInv /\ OrderInv
  BY ScriptInit, OrderInit
<1>2. ScriptInv /\ OrderInv /\ [Next]_vars => (ScriptInv /\ OrderInv)'
  BY ScriptKept, OrderStep
<1>3. OrderInv => DrainedInOrder
  <2> SUFFICES ASSUME OrderInv PROVE DrainedInOrder
    OBVIOUS
  <2>1. /\ drained \in Seq(Nat) /\ buffer.ready \in Seq(Nat)
        /\ Increasing(drained \o buffer.ready)
    BY DEF OrderInv, InLine, Window
  <2>2. Increasing(drained) /\ DOMAIN drained = 1..Len(drained)
    BY <2>1, ConcatOrdered, LenProperties
  <2>3. \A j, k \in DOMAIN drained : j < k => drained[j] < drained[k]
    BY <2>2 DEF Increasing
  <2>4. phase = "ended" /\ program \in ReorderPrograms => Drained(buffer) = <<>> /\ arriving = <<>>
    BY DEF OrderInv
  <2> QED
    BY <2>3, <2>4 DEF DrainedInOrder
<1> QED
  BY <1>1, <1>2, <1>3, PTL DEF Spec

=============================================================================
