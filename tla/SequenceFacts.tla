---------------------------- MODULE SequenceFacts ----------------------------
(***************************************************************************)
(* Facts about the sequences the models carry: a sequence cut in two, the  *)
(* order and the uniqueness of what a concatenation holds, and what Append *)
(* and Tail do to them.  Order is reduced to the parts of a concatenation  *)
(* and the sets of what they hold, so that the proofs about steps reason   *)
(* about sets and seldom about positions.                                  *)
(***************************************************************************)
EXTENDS Sequences, Integers, FiniteSets, Functions, SequenceTheorems,
        FiniteSetTheorems, TLAPS

Increasing(s) == \A j, k \in 1..Len(s) : j < k => s[j] < s[k]
Before(S, T) == \A x \in S, y \in T : x < y

\* The positions of q that hold an element of V.
Where(q, V) == {k \in 1..Len(q) : q[k] \in V}

\* What is left of q behind its first n elements.
Rest(q, n) == SubSeq(q, n + 1, Len(q))

(* What a sequence holds. *)
LEMMA Holding ==
  ASSUME NEW S, NEW s \in Seq(S)
  PROVE  /\ Len(s) \in Nat
         /\ \A k \in 1..Len(s) : s[k] \in Range(s) /\ s[k] \in S
         /\ \A x \in Range(s) : x \in S /\ \E k \in 1..Len(s) : x = s[k]
<1>1. Range(s) = {s[k] : k \in 1..Len(s)}
  BY RangeEquality
<1>2. Len(s) \in Nat /\ \A k \in 1..Len(s) : s[k] \in S
  BY LenProperties, ElementOfSeq
<1> QED
  BY <1>1, <1>2

(* A sequence cut behind its first n elements. *)
LEMMA CutInTwo ==
  ASSUME NEW S, NEW s \in Seq(S), NEW n \in 0..Len(s)
  PROVE  /\ SubSeq(s, 1, n) \in Seq(S) /\ Len(SubSeq(s, 1, n)) = n
         /\ SubSeq(s, n + 1, Len(s)) \in Seq(S)
         /\ Len(SubSeq(s, n + 1, Len(s))) = Len(s) - n
         /\ s = SubSeq(s, 1, n) \o SubSeq(s, n + 1, Len(s))
<1> DEFINE a == SubSeq(s, 1, n)  b == SubSeq(s, n + 1, Len(s))
<1>1. Len(s) \in Nat /\ \A k \in 1..Len(s) : s[k] \in S
  BY LenProperties, ElementOfSeq
<1>2. /\ a \in Seq(S) /\ Len(a) = n
      /\ \A k \in 1..n : a[k] = s[k]
  <2>1. /\ a \in Seq(S)
        /\ Len(a) = IF 1 <= n THEN n - 1 + 1 ELSE 0
        /\ \A k \in 1..(n - 1 + 1) : a[k] = s[1 + k - 1]
    BY <1>1, SubSeqProperties
  <2> QED
    BY <1>1, <2>1
<1>3. /\ b \in Seq(S) /\ Len(b) = Len(s) - n
      /\ \A k \in 1..(Len(s) - n) : b[k] = s[n + k]
  <2>1. /\ b \in Seq(S)
        /\ Len(b) = IF n + 1 <= Len(s) THEN Len(s) - (n + 1) + 1 ELSE 0
        /\ \A k \in 1..(Len(s) - (n + 1) + 1) : b[k] = s[(n + 1) + k - 1]
    BY <1>1, SubSeqProperties
  <2> QED
    BY <1>1, <2>1
<1> HIDE DEF a, b
<1>4. /\ a \o b \in Seq(S) /\ Len(a \o b) = Len(a) + Len(b)
      /\ \A k \in 1..(Len(a) + Len(b)) : (a \o b)[k] = IF k <= Len(a) THEN a[k] ELSE b[k - Len(a)]
  BY <1>2, <1>3, ConcatProperties
<1>5. \A k \in 1..Len(s) : s[k] = (a \o b)[k]
  BY <1>1, <1>2, <1>3, <1>4
<1>6. Len(s) = Len(a \o b)
  BY <1>1, <1>2, <1>3, <1>4
<1>7. s = a \o b
  BY <1>4, <1>5, <1>6, SeqEqual
<1> QED
  BY <1>2, <1>3, <1>7 DEF a, b

(* A concatenation holds what its parts hold, and is in order if they are and follow *)
(* each other.                                                                      *)
LEMMA ConcatOrdered ==
  ASSUME NEW s \in Seq(Nat), NEW t \in Seq(Nat)
  PROVE  /\ s \o t \in Seq(Nat)
         /\ Range(s \o t) = Range(s) \cup Range(t)
         /\ Increasing(s \o t) <=> Increasing(s) /\ Increasing(t) /\ Before(Range(s), Range(t))
<1> DEFINE c == s \o t
<1>1. /\ c \in Seq(Nat) /\ Len(c) = Len(s) + Len(t)
      /\ \A k \in 1..(Len(s) + Len(t)) : c[k] = IF k <= Len(s) THEN s[k] ELSE t[k - Len(s)]
  BY ConcatProperties
<1>2. Range(c) = Range(s) \cup Range(t)
  BY RangeConcatenation
<1> HIDE DEF c
<1>3. /\ Len(s) \in Nat /\ \A k \in 1..Len(s) : s[k] \in Range(s) /\ s[k] \in Nat
      /\ \A x \in Range(s) : x \in Nat /\ \E k \in 1..Len(s) : x = s[k]
  BY Holding
<1>4. /\ Len(t) \in Nat /\ \A k \in 1..Len(t) : t[k] \in Range(t) /\ t[k] \in Nat
      /\ \A x \in Range(t) : x \in Nat /\ \E k \in 1..Len(t) : x = t[k]
  BY Holding
<1>5. \A k \in 1..Len(s) : k \in 1..Len(c) /\ c[k] = s[k]
  <2> SUFFICES ASSUME NEW k \in 1..Len(s) PROVE k \in 1..Len(c) /\ c[k] = s[k]
    OBVIOUS
  <2>1. k \in 1..(Len(s) + Len(t)) /\ k <= Len(s)
    BY <1>3, <1>4
  <2> QED
    BY <1>1, <2>1
<1>6. \A k \in 1..Len(t) : Len(s) + k \in 1..Len(c) /\ c[Len(s) + k] = t[k]
  <2> SUFFICES ASSUME NEW k \in 1..Len(t)
               PROVE  Len(s) + k \in 1..Len(c) /\ c[Len(s) + k] = t[k]
    OBVIOUS
  <2>1. /\ Len(s) + k \in 1..(Len(s) + Len(t))
        /\ ~(Len(s) + k <= Len(s)) /\ (Len(s) + k) - Len(s) = k
    BY <1>3, <1>4
  <2> QED
    BY <1>1, <2>1
<1>7. ASSUME Increasing(c)
      PROVE  Increasing(s) /\ Increasing(t) /\ Before(Range(s), Range(t))
  <2>1. Increasing(s)
    BY <1>3, <1>5, <1>7 DEF Increasing
  <2>2. Increasing(t)
    <3> SUFFICES ASSUME NEW j \in 1..Len(t), NEW k \in 1..Len(t), j < k
                 PROVE  t[j] < t[k]
      BY DEF Increasing
    <3>1. Len(s) + j < Len(s) + k
      BY <1>3, <1>4
    <3> QED
      BY <1>6, <1>7, <3>1 DEF Increasing
  <2>3. Before(Range(s), Range(t))
    <3> SUFFICES ASSUME NEW x \in Range(s), NEW y \in Range(t) PROVE x < y
      BY DEF Before
    <3>1. PICK j \in 1..Len(s) : x = s[j]
      BY <1>3
    <3>2. PICK k \in 1..Len(t) : y = t[k]
      BY <1>4
    <3>3. j < Len(s) + k
      BY <1>3, <1>4
    <3> QED
      BY <1>5, <1>6, <1>7, <3>1, <3>2, <3>3 DEF Increasing
  <2> QED
    BY <2>1, <2>2, <2>3
<1>8. ASSUME Increasing(s), Increasing(t), Before(Range(s), Range(t))
      PROVE  Increasing(c)
  <2> SUFFICES ASSUME NEW j \in 1..Len(c), NEW k \in 1..Len(c), j < k
               PROVE  c[j] < c[k]
    BY DEF Increasing
  <2>1. CASE k <= Len(s)
    <3>1. /\ j \in 1..Len(s) /\ k \in 1..Len(s)
          /\ c[j] = s[j] /\ c[k] = s[k]
      BY <1>1, <1>3, <1>4, <2>1
    <3> QED
      BY <1>8, <3>1 DEF Increasing
  <2>2. CASE j <= Len(s) /\ ~(k <= Len(s))
    <3>1. /\ j \in 1..Len(s) /\ c[j] = s[j]
          /\ k - Len(s) \in 1..Len(t) /\ c[k] = t[k - Len(s)]
      BY <1>1, <1>3, <1>4, <2>2
    <3> QED
      BY <1>3, <1>4, <1>8, <3>1 DEF Before
  <2>3. CASE ~(j <= Len(s))
    <3>1. j - Len(s) \in 1..Len(t) /\ k - Len(s) \in 1..Len(t) /\ j - Len(s) < k - Len(s)
      BY <1>1, <1>3, <2>3
    <3>2. c[j] = t[j - Len(s)]
      BY <1>1, <1>3, <1>4, <2>3
    <3>3. c[k] = t[k - Len(s)]
      BY <1>1, <1>3, <1>4, <2>3
    <3> QED
      BY <1>8, <3>1, <3>2, <3>3 DEF Increasing
  <2> QED
    BY <2>1, <2>2, <2>3
<1> QED
  BY <1>1, <1>2, <1>7, <1>8 DEF c

(* The empty sequence holds nothing, and a sequence that holds nothing is empty. *)
LEMMA EmptyOrdered ==
  /\ <<>> \in Seq(Nat) /\ Len(<<>>) = 0 /\ Range(<<>>) = {} /\ Increasing(<<>>)
<1>1. <<>> \in Seq(Nat) /\ Len(<<>>) = 0
  BY EmptySeq
<1>2. Range(<<>>) = {}
  <2>1. Range(<<>>) = {<<>>[k] : k \in 1..0}
    BY <1>1, RangeEquality
  <2> QED
    BY <2>1
<1> QED
  BY <1>1, <1>2 DEF Increasing

(* The two parts of a concatenation, cut out of it again. *)
LEMMA CutOfConcat ==
  ASSUME NEW S, NEW s \in Seq(S), NEW t \in Seq(S)
  PROVE  /\ SubSeq(s \o t, 1, Len(s)) = s
         /\ SubSeq(s \o t, Len(s) + 1, Len(s) + Len(t)) = t
<1>1. Len(s) \in Nat /\ Len(t) \in Nat
  BY LenProperties
<1>2. SubSeq(s \o t, 1, Len(s)) = s
  <2>1. CASE Len(s) = 0
    <3>1. s = <<>>
      BY <2>1, EmptySeq
    <3>2. SubSeq(s \o t, 1, Len(s)) = <<>>
      BY <2>1, SubSeqEmpty
    <3> QED
      BY <3>1, <3>2
  <2>2. CASE Len(s) # 0
    <3>1. 1 \in 1..Len(s) /\ Len(s) \in 1..Len(s)
      BY <1>1, <2>2
    <3>2. SubSeq(s \o t, 1, Len(s)) = SubSeq(s, 1, Len(s))
      BY <3>1, SubSeqOfConcat1
    <3> QED
      BY <3>2, SubSeqFull
  <2> QED
    BY <2>1, <2>2
<1>3. SubSeq(s \o t, Len(s) + 1, Len(s) + Len(t)) = t
  <2>1. CASE Len(t) = 0
    <3>1. t = <<>>
      BY <2>1, EmptySeq
    <3>2. SubSeq(s \o t, Len(s) + 1, Len(s) + Len(t)) = <<>>
      BY <1>1, <2>1, SubSeqEmpty
    <3> QED
      BY <3>1, <3>2
  <2>2. CASE Len(t) # 0
    <3>1. /\ Len(s) + 1 \in Len(s) + 1 .. Len(s) + Len(t)
          /\ Len(s) + Len(t) \in Len(s) + 1 .. Len(s) + Len(t)
          /\ Len(s) + 1 - Len(s) = 1 /\ Len(s) + Len(t) - Len(s) = Len(t)
      BY <1>1, <2>2
    <3>2. SubSeq(s \o t, Len(s) + 1, Len(s) + Len(t))
            = SubSeq(t, Len(s) + 1 - Len(s), Len(s) + Len(t) - Len(s))
      BY <3>1, SubSeqOfConcat2
    <3>3. SubSeq(t, 1, Len(t)) = t
      BY SubSeqFull
    <3> QED
      BY <3>1, <3>2, <3>3
  <2> QED
    BY <2>1, <2>2
<1> QED
  BY <1>2, <1>3

(* The same for three parts: the first and the last can be cut out again. *)
LEMMA CutOfThree ==
  ASSUME NEW S, NEW s \in Seq(S), NEW t \in Seq(S), NEW u \in Seq(S)
  PROVE  LET c == (s \o t) \o u IN
           /\ Len(c) = Len(s) + Len(t) + Len(u)
           /\ SubSeq(c, 1, Len(s)) = s
           /\ SubSeq(c, Len(s) + Len(t) + 1, Len(c)) = u
<1> DEFINE a == s \o t
           b == t \o u
           c == a \o u
<1>1. a \in Seq(S) /\ Len(a) = Len(s) + Len(t)
  BY ConcatProperties
<1>2. b \in Seq(S)
  BY ConcatProperties
<1>3. c = s \o b
  BY ConcatAssociative
<1> HIDE DEF a, b
<1>4. Len(a \o u) = Len(a) + Len(u) /\ SubSeq(a \o u, Len(a) + 1, Len(a) + Len(u)) = u
  <2>1. a \in Seq(S)
    BY <1>1
  <2> QED
    BY <2>1, ConcatProperties, CutOfConcat
<1>5. SubSeq(s \o b, 1, Len(s)) = s
  BY <1>2, CutOfConcat
<1> QED
  BY <1>1, <1>3, <1>4, <1>5, Zenon DEF a

(* What a sequence of one number holds. *)
LEMMA SingletonOrdered ==
  ASSUME NEW x \in Nat
  PROVE  <<x>> \in Seq(Nat) /\ Len(<<x>>) = 1 /\ Range(<<x>>) = {x} /\ Increasing(<<x>>)
<1>1. <<x>> \in Seq(Nat) /\ Len(<<x>>) = 1 /\ <<x>>[1] = x
  OBVIOUS
<1>2. Range(<<x>>) = {<<x>>[k] : k \in 1..1}
  BY <1>1, RangeEquality
<1> QED
  BY <1>1, <1>2 DEF Increasing

(* A number put behind the others. *)
LEMMA AppendOrdered ==
  ASSUME NEW s \in Seq(Nat), NEW x \in Nat
  PROVE  /\ Append(s, x) \in Seq(Nat) /\ Range(Append(s, x)) = Range(s) \cup {x}
         /\ Increasing(Append(s, x)) <=> Increasing(s) /\ \A y \in Range(s) : y < x
<1>1. Append(s, x) = s \o <<x>>
  BY AppendIsConcat
<1>2. <<x>> \in Seq(Nat) /\ Range(<<x>>) = {x} /\ Increasing(<<x>>)
  BY SingletonOrdered
<1> DEFINE t == <<x>>
<1> HIDE DEF t
<1>3. /\ s \o t \in Seq(Nat)
      /\ Range(s \o t) = Range(s) \cup Range(t)
      /\ Increasing(s \o t) <=> Increasing(s) /\ Increasing(t) /\ Before(Range(s), Range(t))
  BY <1>2, ConcatOrdered DEF t
<1>4. Before(Range(s), {x}) <=> \A y \in Range(s) : y < x
  BY DEF Before
<1> QED
  BY <1>1, <1>2, <1>3, <1>4 DEF t

(* A sequence and what is left of it when its first number has been taken. *)
LEMMA TailOrdered ==
  ASSUME NEW s \in Seq(Nat), s # <<>>
  PROVE  /\ Head(s) \in Nat /\ Tail(s) \in Seq(Nat)
         /\ s = <<Head(s)>> \o Tail(s)
         /\ Range(s) = {Head(s)} \cup Range(Tail(s))
         /\ Increasing(s) <=> Increasing(Tail(s)) /\ \A y \in Range(Tail(s)) : Head(s) < y
<1> DEFINE h == Head(s)  r == Tail(s)  t == <<h>>
<1>1. /\ h \in Nat /\ r \in Seq(Nat) /\ Len(r) = Len(s) - 1
      /\ \A i \in 1..Len(r) : r[i] = s[i + 1]
      /\ h = s[1] /\ Len(s) \in Nat \ {0}
  <2>1. /\ h \in Nat /\ r \in Seq(Nat) /\ Len(r) = Len(s) - 1
        /\ \A i \in 1..Len(r) : r[i] = s[i + 1]
    BY HeadTailProperties
  <2>2. Len(s) \in Nat \ {0}
    BY EmptySeq
  <2> QED
    BY <2>1, <2>2
<1> HIDE DEF h, r
<1>2. t \in Seq(Nat) /\ Len(t) = 1 /\ t[1] = h /\ Range(t) = {h} /\ Increasing(t)
  <2>1. t \in Seq(Nat) /\ Len(t) = 1 /\ Range(t) = {h} /\ Increasing(t)
    BY <1>1, SingletonOrdered
  <2> QED
    BY <2>1
<1> HIDE DEF t
<1>3. /\ t \o r \in Seq(Nat) /\ Len(t \o r) = Len(t) + Len(r)
      /\ \A i \in 1..(Len(t) + Len(r)) : (t \o r)[i] = IF i <= Len(t) THEN t[i] ELSE r[i - Len(t)]
  <2>1. r \in Seq(Nat) /\ t \in Seq(Nat)
    BY <1>1, <1>2
  <2> QED
    BY <2>1, ConcatProperties
<1>4. s = t \o r
  <2>1. Len(s) = Len(t \o r)
    BY <1>1, <1>2, <1>3
  <2>2. ASSUME NEW i \in 1..Len(s) PROVE s[i] = (t \o r)[i]
    <3>1. i \in 1..(Len(t) + Len(r))
      BY <1>1, <1>2
    <3>2. (t \o r)[i] = IF i <= 1 THEN t[i] ELSE r[i - 1]
      BY <1>2, <1>3, <3>1
    <3>3. CASE i = 1
      BY <1>1, <1>2, <3>2, <3>3
    <3>4. CASE i > 1
      <4>1. i - 1 \in 1..Len(r) /\ (i - 1) + 1 = i
        BY <1>1, <3>4
      <4>2. r[i - 1] = s[i]
        BY <1>1, <4>1
      <4> QED
        BY <3>2, <3>4, <4>2
    <3>5. i = 1 \/ i > 1
      BY <1>1
    <3> QED
      BY <3>3, <3>4, <3>5
  <2> QED
    BY <1>3, <2>1, <2>2, SeqEqual
<1>5. /\ Range(t \o r) = Range(t) \cup Range(r)
      /\ Increasing(t \o r) <=> Increasing(t) /\ Increasing(r) /\ Before(Range(t), Range(r))
  BY <1>1, <1>2, ConcatOrdered
<1>6. Before({h}, Range(r)) <=> \A y \in Range(r) : h < y
  BY DEF Before
<1> QED
  BY <1>1, <1>2, <1>4, <1>5, <1>6 DEF h, r, t

(* How many of a sequence's elements are in V is a number. *)
LEMMA WhereFinite ==
  ASSUME NEW S, NEW q \in Seq(S), NEW V
  PROVE  /\ IsFiniteSet(Where(q, V)) /\ Cardinality(Where(q, V)) \in Nat
         /\ Cardinality(Where(q, V)) <= Len(q)
         /\ Cardinality(Where(q, V)) = 0 => \A k \in 1..Len(q) : q[k] \notin V
<1>1. Len(q) \in Nat
  BY LenProperties
<1>2. IsFiniteSet(1..Len(q)) /\ Cardinality(1..Len(q)) = Len(q)
  <2>1. 1 \in Int /\ Len(q) \in Int
    BY <1>1
  <2>2. /\ IsFiniteSet(1..Len(q))
        /\ Cardinality(1..Len(q)) = IF 1 > Len(q) THEN 0 ELSE Len(q) - 1 + 1
    BY <2>1, FS_Interval, Zenon
  <2> QED
    BY <1>1, <2>2
<1>3. Where(q, V) \in SUBSET (1..Len(q))
  BY DEF Where
<1>4. IsFiniteSet(Where(q, V)) /\ Cardinality(Where(q, V)) <= Len(q)
  BY <1>2, <1>3, FS_Subset
<1>5. Cardinality(Where(q, V)) \in Nat
  BY <1>4, FS_CardinalityType
<1>6. Cardinality(Where(q, V)) = 0 => Where(q, V) = {}
  BY <1>4, FS_EmptySet
<1> QED
  BY <1>4, <1>5, <1>6 DEF Where

(* One more element. *)
LEMMA WhereAppend ==
  ASSUME NEW S, NEW q \in Seq(S), NEW e \in S, NEW V
  PROVE  Cardinality(Where(Append(q, e), V)) =
           Cardinality(Where(q, V)) + (IF e \in V THEN 1 ELSE 0)
<1> DEFINE w == Append(q, e)
           n == Len(q) + 1
<1>1. /\ Len(w) = n /\ Len(q) \in Nat
      /\ \A k \in 1..Len(q) : w[k] = q[k]
      /\ w[n] = e
  BY AppendProperties, LenProperties
<1> HIDE DEF w
<1>2. n \notin Where(q, V) /\ 1..n = 1..Len(q) \cup {n}
  BY <1>1 DEF Where
<1>3. Where(w, V) = IF e \in V THEN Where(q, V) \cup {n} ELSE Where(q, V)
  <2>1. \A k : k \in Where(w, V) <=> k \in Where(q, V) \/ (k = n /\ e \in V)
    BY <1>1, <1>2 DEF Where
  <2> QED
    BY <2>1
<1>4. IsFiniteSet(Where(q, V)) /\ Cardinality(Where(q, V)) \in Nat
  BY WhereFinite
<1>5. Cardinality(Where(q, V) \cup {n}) = Cardinality(Where(q, V)) + 1
  BY <1>2, <1>4, FS_AddElement
<1> QED
  BY <1>3, <1>4, <1>5 DEF w

(* One element fewer, at the head. *)
LEMMA WhereTail ==
  ASSUME NEW S, NEW q \in Seq(S), q # <<>>, NEW V
  PROVE  Cardinality(Where(q, V)) =
           Cardinality(Where(Tail(q), V)) + (IF Head(q) \in V THEN 1 ELSE 0)
<1> DEFINE r == Tail(q)
           W == Where(r, V)
           W1 == {k + 1 : k \in W}
           f == [k \in W |-> k + 1]
<1>1. /\ Len(r) = Len(q) - 1 /\ Len(q) \in Nat \ {0}
      /\ \A k \in 1..Len(r) : r[k] = q[k + 1]
      /\ r \in Seq(S) /\ Head(q) = q[1]
  <2>1. /\ Len(r) = Len(q) - 1 /\ \A k \in 1..Len(r) : r[k] = q[k + 1]
        /\ r \in Seq(S)
    BY HeadTailProperties
  <2>2. Len(q) \in Nat \ {0}
    BY EmptySeq
  <2> QED
    BY <2>1, <2>2
<1> HIDE DEF r
<1>2. IsFiniteSet(W) /\ W \subseteq Int
  <2>1. IsFiniteSet(W)
    BY <1>1, WhereFinite, Zenon
  <2>2. W \subseteq 1..Len(r)
    BY DEF Where
  <2> QED
    BY <2>1, <2>2
<1>3. IsFiniteSet(W1) /\ Cardinality(W1) = Cardinality(W)
  <2> HIDE DEF W
  <2>1. f \in Injection(W, W1)
    BY <1>2 DEF Injection, IsInjective
  <2>2. f \in Surjection(W, W1)
    BY <1>2 DEF Surjection
  <2>3. ExistsBijection(W, W1)
    BY <2>1, <2>2 DEF ExistsBijection, Bijection
  <2> QED
    BY <1>2, <2>3, FS_Bijection
<1>4. 1 \notin W1
  BY DEF Where
<1>5. Where(q, V) = IF Head(q) \in V THEN W1 \cup {1} ELSE W1
  <2>1. \A k : k \in Where(q, V) => k \in W1 \/ (k = 1 /\ Head(q) \in V)
    <3> SUFFICES ASSUME NEW k \in Where(q, V), k # 1 PROVE k \in W1
      BY <1>1 DEF Where
    <3>1. k \in 1..Len(q) /\ q[k] \in V
      BY DEF Where
    <3>2. k - 1 \in 1..Len(r) /\ k = (k - 1) + 1
      BY <1>1, <3>1
    <3>3. k - 1 \in W
      BY <1>1, <3>1, <3>2 DEF Where
    <3> QED
      BY <3>2, <3>3
  <2>2. \A k \in W : k + 1 \in Where(q, V)
    BY <1>1 DEF Where
  <2>3. Head(q) \in V => 1 \in Where(q, V)
    BY <1>1 DEF Where
  <2> QED
    BY <2>1, <2>2, <2>3
<1> HIDE DEF W1
<1>6. Cardinality(W1 \cup {1}) = Cardinality(W1) + 1
  BY <1>3, <1>4, FS_AddElement
<1>7. Cardinality(W) \in Nat
  BY <1>2, FS_CardinalityType
<1> QED
  BY <1>3, <1>5, <1>6, <1>7 DEF r

(* The elements of both parts of a concatenation. *)
LEMMA WhereConcat ==
  ASSUME NEW S, NEW s \in Seq(S), NEW t \in Seq(S), NEW V
  PROVE  Cardinality(Where(s \o t, V)) = Cardinality(Where(s, V)) + Cardinality(Where(t, V))
<1> DEFINE c == s \o t
           n == Len(s)
           W == Where(t, V)
           W1 == {n + k : k \in W}
           f == [k \in W |-> n + k]
<1>1. /\ Len(c) = n + Len(t)
      /\ \A k \in 1..(n + Len(t)) : c[k] = IF k <= n THEN s[k] ELSE t[k - n]
  BY ConcatProperties
<1>2. n \in Nat /\ Len(t) \in Nat
  BY LenProperties
<1> HIDE DEF c, n
<1>3. IsFiniteSet(W) /\ W \subseteq Int
  BY <1>2, WhereFinite DEF Where
<1>4. IsFiniteSet(W1) /\ Cardinality(W1) = Cardinality(W)
  <2> HIDE DEF W
  <2>1. f \in Injection(W, W1)
    BY <1>2, <1>3 DEF Injection, IsInjective
  <2>2. f \in Surjection(W, W1)
    BY <1>3 DEF Surjection
  <2>3. ExistsBijection(W, W1)
    BY <2>1, <2>2 DEF ExistsBijection, Bijection
  <2> QED
    BY <1>3, <2>3, FS_Bijection
<1>5. IsFiniteSet(Where(s, V))
  BY WhereFinite
<1>6. Where(s, V) \cap W1 = {}
  BY <1>2 DEF Where, n
<1>7. Where(c, V) = Where(s, V) \cup W1
  <2>1. ASSUME NEW k \in Where(c, V) PROVE k \in Where(s, V) \cup W1
    <3>1. k \in 1..(n + Len(t)) /\ c[k] \in V
      BY <1>1 DEF Where
    <3>2. CASE k <= n
      BY <1>1, <1>2, <3>1, <3>2 DEF Where, n
    <3>3. CASE ~(k <= n)
      <4>1. k - n \in 1..Len(t) /\ t[k - n] \in V /\ k = n + (k - n)
        BY <1>1, <1>2, <3>1, <3>3
      <4>2. k - n \in W
        BY <4>1 DEF Where
      <4> QED
        BY <4>1, <4>2
    <3> QED
      BY <3>2, <3>3
  <2>2. ASSUME NEW k \in Where(s, V) PROVE k \in Where(c, V)
    BY <1>1, <1>2 DEF Where, n
  <2>3. ASSUME NEW k \in W PROVE n + k \in Where(c, V)
    <3>1. k \in 1..Len(t) /\ t[k] \in V
      BY DEF Where
    <3>2. n + k \in 1..(n + Len(t)) /\ ~(n + k <= n) /\ (n + k) - n = k
      BY <1>2, <3>1
    <3>3. c[n + k] = t[k]
      BY <1>1, <3>2
    <3> QED
      BY <1>1, <3>1, <3>2, <3>3 DEF Where
  <2> HIDE DEF W
  <2> QED
    BY <2>1, <2>2, <2>3
<1> HIDE DEF W1
<1>8. Cardinality(Where(s, V) \cup W1) =
        Cardinality(Where(s, V)) + Cardinality(W1) - Cardinality(Where(s, V) \cap W1)
  BY <1>4, <1>5, FS_Union
<1>9. Cardinality(Where(s, V)) \in Nat /\ Cardinality(W) \in Nat
  BY <1>3, <1>5, FS_CardinalityType
<1>10. Cardinality(Where(s, V) \cap W1) = 0
  BY <1>6, FS_EmptySet
<1>11. Cardinality(Where(c, V)) = Cardinality(Where(s, V)) + Cardinality(W)
  BY <1>4, <1>7, <1>8, <1>9, <1>10
<1> QED
  BY <1>11 DEF c

(* What is left of a sequence when it grows, and when one more is taken. *)
LEMMA RestSteps ==
  ASSUME NEW S, NEW q \in Seq(S), NEW n \in 0..Len(q)
  PROVE  /\ Rest(q, n) \in Seq(S)
         /\ \A e \in S : Rest(Append(q, e), n) = Append(Rest(q, n), e)
         /\ n < Len(q) => /\ Rest(q, n) # <<>> /\ Head(Rest(q, n)) = q[n + 1]
                          /\ Tail(Rest(q, n)) = Rest(q, n + 1)
         /\ Rest(q, 0) = q
<1>1. Len(q) \in Nat /\ \A k \in 1..Len(q) : q[k] \in S
  BY LenProperties, ElementOfSeq
<1>2. ASSUME NEW m \in 0..Len(q)
      PROVE  /\ Rest(q, m) \in Seq(S) /\ Len(Rest(q, m)) = Len(q) - m
             /\ \A k \in 1..(Len(q) - m) : Rest(q, m)[k] = q[m + k]
  <2> DEFINE r == SubSeq(q, m + 1, Len(q))
  <2>1. /\ r \in Seq(S)
        /\ Len(r) = IF m + 1 <= Len(q) THEN Len(q) - (m + 1) + 1 ELSE 0
        /\ \A k \in 1..(Len(q) - (m + 1) + 1) : r[k] = q[(m + 1) + k - 1]
    BY <1>1, SubSeqProperties
  <2> HIDE DEF r
  <2>2. /\ r \in Seq(S) /\ Len(r) = Len(q) - m
        /\ \A k \in 1..(Len(q) - m) : r[k] = q[m + k]
    BY <1>1, <2>1
  <2> QED
    BY <2>2 DEF Rest, r
<1>3. ASSUME NEW e \in S PROVE Rest(Append(q, e), n) = Append(Rest(q, n), e)
  <2> DEFINE w == Append(q, e)
             r == Rest(q, n)
             u == SubSeq(w, n + 1, Len(w))
             v == Append(r, e)
  <2>1. /\ w \in Seq(S) /\ Len(w) = Len(q) + 1 /\ w[Len(q) + 1] = e
        /\ \A k \in 1..Len(q) : w[k] = q[k]
    BY AppendProperties
  <2>2. \A k \in 1..Len(w) : w[k] \in S
    BY <2>1, ElementOfSeq
  <2> HIDE DEF w
  <2>3. /\ u \in Seq(S)
        /\ Len(u) = IF n + 1 <= Len(w) THEN Len(w) - (n + 1) + 1 ELSE 0
        /\ \A k \in 1..(Len(w) - (n + 1) + 1) : u[k] = w[(n + 1) + k - 1]
    BY <1>1, <2>1, <2>2, SubSeqProperties
  <2>4. /\ r \in Seq(S) /\ Len(r) = Len(q) - n
        /\ \A k \in 1..(Len(q) - n) : r[k] = q[n + k]
    BY <1>2
  <2> HIDE DEF r, u
  <2>5. /\ v \in Seq(S) /\ Len(v) = Len(r) + 1 /\ v[Len(r) + 1] = e
        /\ \A k \in 1..Len(r) : v[k] = r[k]
    BY <2>4, AppendProperties
  <2> HIDE DEF v
  <2>6. Len(u) = Len(v)
    BY <1>1, <2>1, <2>3, <2>4, <2>5
  <2>7. ASSUME NEW k \in 1..Len(u) PROVE u[k] = v[k]
    <3>1. k \in 1..(Len(q) - n + 1) /\ u[k] = w[n + k]
      BY <1>1, <2>1, <2>3
    <3>2. CASE k = Len(q) - n + 1
      BY <1>1, <2>1, <2>4, <2>5, <3>1, <3>2
    <3>3. CASE k # Len(q) - n + 1
      <4>1. k \in 1..(Len(q) - n) /\ n + k \in 1..Len(q)
        BY <1>1, <3>1, <3>3
      <4> QED
        BY <2>1, <2>4, <2>5, <3>1, <4>1
    <3> QED
      BY <3>2, <3>3
  <2>8. u = v
    BY <2>3, <2>5, <2>6, <2>7, SeqEqual
  <2> QED
    BY <2>8 DEF Rest, u, v, w, r
<1>4. ASSUME n < Len(q)
      PROVE  /\ Rest(q, n) # <<>> /\ Head(Rest(q, n)) = q[n + 1]
             /\ Tail(Rest(q, n)) = Rest(q, n + 1)
  <2> DEFINE r == Rest(q, n)
             u == Rest(q, n + 1)
  <2>1. /\ r \in Seq(S) /\ Len(r) = Len(q) - n
        /\ \A k \in 1..(Len(q) - n) : r[k] = q[n + k]
    BY <1>2
  <2>2. n + 1 \in 0..Len(q)
    BY <1>1, <1>4
  <2>3. /\ u \in Seq(S) /\ Len(u) = Len(q) - (n + 1)
        /\ \A k \in 1..(Len(q) - (n + 1)) : u[k] = q[(n + 1) + k]
    BY <1>2, <2>2
  <2> HIDE DEF r, u
  <2>4. r # <<>>
    BY <1>1, <1>4, <2>1, EmptySeq
  <2>5. /\ Head(r) = r[1] /\ Tail(r) \in Seq(S) /\ Len(Tail(r)) = Len(r) - 1
        /\ \A k \in 1..Len(Tail(r)) : Tail(r)[k] = r[k + 1]
    <3>1. r \in Seq(S)
      BY <2>1
    <3> QED
      BY <2>4, <3>1, HeadTailProperties
  <2>6. Len(Tail(r)) = Len(u)
    BY <1>1, <2>1, <2>3, <2>5
  <2>7. ASSUME NEW k \in 1..Len(Tail(r)) PROVE Tail(r)[k] = u[k]
    <3>1. k \in 1..(Len(q) - (n + 1)) /\ k + 1 \in 1..(Len(q) - n) /\ n + (k + 1) = (n + 1) + k
      BY <1>1, <2>1, <2>5
    <3> QED
      BY <2>1, <2>3, <2>5, <3>1
  <2>8. Tail(r) = u
    BY <2>3, <2>5, <2>6, <2>7, SeqEqual
  <2>9. r[1] = q[n + 1]
    BY <1>1, <1>4, <2>1
  <2> QED
    BY <2>4, <2>5, <2>8, <2>9 DEF r, u
<1>5. Rest(q, 0) = q
  BY SubSeqFull DEF Rest
<1> QED
  BY <1>2, <1>3, <1>4, <1>5
===============================================================================
