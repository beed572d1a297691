----------------------------- MODULE QueueProofs -----------------------------
(***************************************************************************)
(* How often packets are in a queue: what putting one at its end and       *)
(* taking one from its front do to the count.                              *)
(***************************************************************************)
EXTENDS Integers, Sequences, SequenceTheorems, FiniteSetTheorems, TLAPS

\* How many packets in the queue q are of kind K, a set of packets.
Indices(q, K) == {i \in DOMAIN q : q[i] \in K}
Count(q, K) == Cardinality(Indices(q, K))

\* A queue is finite, and so is what is counted.
LEMMA CountType ==
    ASSUME NEW S, NEW q \in Seq(S), NEW K
    PROVE  IsFiniteSet(Indices(q, K)) /\ Count(q, K) \in Nat
<1>1. DOMAIN q = 1 .. Len(q) /\ Len(q) \in Nat
  BY LenProperties
<1>2. IsFiniteSet(1 .. Len(q))
  BY <1>1, FS_Interval
<1>3. IsFiniteSet(Indices(q, K))
  BY <1>1, <1>2, FS_Subset DEF Indices
<1> QED BY <1>3, FS_CardinalityType DEF Count

LEMMA CountEmpty == ASSUME NEW K PROVE Count(<<>>, K) = 0
<1>1. Indices(<<>>, K) = {}
  BY DEF Indices
<1> QED BY <1>1, FS_EmptySet DEF Count

\* A packet put at the end counts itself.
LEMMA CountAppend ==
    ASSUME NEW S, NEW q \in Seq(S), NEW p \in S, NEW K
    PROVE  Count(Append(q, p), K) = IF p \in K THEN Count(q, K) + 1 ELSE Count(q, K)
<1> DEFINE r == Append(q, p)
           n == Len(q)
<1>1. /\ n \in Nat
      /\ DOMAIN q = 1 .. n /\ DOMAIN r = 1 .. n + 1
      /\ \A i \in 1 .. n : r[i] = q[i]
      /\ r[n + 1] = p
  <2>1. n \in Nat /\ DOMAIN q = 1 .. n
    BY LenProperties
  <2>2. r \in Seq(S) /\ Len(r) = n + 1 /\ (\A i \in 1 .. n : r[i] = q[i]) /\ r[n + 1] = p
    BY AppendProperties
  <2>3. DOMAIN r = 1 .. Len(r)
    BY <2>2, LenProperties
  <2> QED BY <2>1, <2>2, <2>3
<1> HIDE DEF r, n
<1>2. Indices(r, K) = IF p \in K THEN Indices(q, K) \cup {n + 1} ELSE Indices(q, K)
  BY <1>1 DEF Indices
<1>3. n + 1 \notin Indices(q, K)
  BY <1>1 DEF Indices
<1>4. IsFiniteSet(Indices(q, K))
  BY CountType
<1>5. Cardinality(Indices(q, K) \cup {n + 1}) = Cardinality(Indices(q, K)) + 1
  BY <1>3, <1>4, FS_AddElement
<1> QED BY <1>2, <1>5 DEF Count, r

\* The packet at the front no longer counts once it is taken.
LEMMA CountTail ==
    ASSUME NEW S, NEW q \in Seq(S), q # <<>>, NEW K
    PROVE  Count(q, K) = IF Head(q) \in K THEN Count(Tail(q), K) + 1 ELSE Count(Tail(q), K)
<1> DEFINE r == Tail(q)
           n == Len(q)
           rest == Indices(q, K) \ {1}
           shift == [i \in Indices(r, K) |-> i + 1]
<1>1. /\ n \in Nat /\ n > 0
      /\ DOMAIN q = 1 .. n /\ DOMAIN r = 1 .. n - 1
      /\ \A i \in 1 .. n - 1 : r[i] = q[i + 1]
      /\ q[1] = Head(q)
      /\ r \in Seq(S)
  <2>1. n \in Nat /\ n > 0 /\ DOMAIN q = 1 .. n /\ q[1] = Head(q)
    <3>1. n \in Nat /\ DOMAIN q = 1 .. n
      BY LenProperties
    <3>2. n # 0
      BY EmptySeq
    <3> QED BY <3>1, <3>2
  <2>2. r \in Seq(S) /\ Len(r) = n - 1 /\ \A i \in 1 .. Len(r) : r[i] = q[i + 1]
    BY HeadTailProperties
  <2>3. DOMAIN r = 1 .. Len(r)
    BY <2>2, LenProperties
  <2> QED BY <2>1, <2>2, <2>3
<1> HIDE DEF r, n
<1>2. shift \in Bijection(Indices(r, K), rest)
  <2>1. shift \in [Indices(r, K) -> rest]
    BY <1>1 DEF Indices
  <2>2. \A i, j \in Indices(r, K) : shift[i] = shift[j] => i = j
    BY <1>1 DEF Indices
  <2>3. \A j \in rest : \E i \in Indices(r, K) : shift[i] = j
    <3> SUFFICES ASSUME NEW j \in rest PROVE j - 1 \in Indices(r, K) /\ shift[j - 1] = j
      OBVIOUS
    <3>1. j \in 2 .. n /\ q[j] \in K
      BY <1>1 DEF Indices
    <3>2. j - 1 \in 1 .. n - 1 /\ r[j - 1] = q[j]
      BY <1>1, <3>1
    <3>3. j - 1 \in Indices(r, K)
      BY <1>1, <3>1, <3>2 DEF Indices
    <3> QED BY <3>1, <3>3
  <2> HIDE DEF shift, rest
  <2> QED BY <2>1, <2>2, <2>3 DEF Bijection, Injection, Surjection, IsInjective
<1>3. IsFiniteSet(Indices(q, K)) /\ IsFiniteSet(Indices(r, K))
  BY <1>1, CountType
<1> HIDE DEF rest, shift
<1>4. Cardinality(rest) = Cardinality(Indices(r, K))
  BY <1>2, <1>3, FS_Bijection DEF ExistsBijection
<1>5. Cardinality(rest) = IF 1 \in Indices(q, K) THEN Cardinality(Indices(q, K)) - 1
                          ELSE Cardinality(Indices(q, K))
  BY <1>3, FS_RemoveElement DEF rest
<1>6. 1 \in Indices(q, K) <=> Head(q) \in K
  BY <1>1 DEF Indices
<1>7. Count(q, K) \in Nat /\ Count(r, K) \in Nat
  BY <1>1, CountType
<1> QED BY <1>4, <1>5, <1>6, <1>7 DEF Count, r
=============================================================================
