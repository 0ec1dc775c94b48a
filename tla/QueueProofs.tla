---------------------------- MODULE QueueProofs ----------------------------
(***************************************************************************)
(* What the queue operations do to the objects on a queue and to their     *)
(* order, and induction on an interval: the lemmas that proofs about       *)
(* several components cite.                                                *)
(***************************************************************************)
EXTENDS Queue, SequenceTheorems, WellFoundedInduction, TLAPS

\* AQueueInsertLast adds the object, and keeps a queue free of duplicates if
\* the object was not on it.
LEMMA AppendLemma ==
  ASSUME NEW S, NEW q \in Seq(S), NEW x \in S
  PROVE  /\ Append(q, x) \in Seq(S)
         /\ Append(q, x) # <<>>
         /\ InQueue(Append(q, x)) = InQueue(q) \union {x}
         /\ NoDuplicates(q) /\ x \notin InQueue(q) => NoDuplicates(Append(q, x))
<1> DEFINE r == Append(q, x)
<1>1. /\ r \in Seq(S) /\ r # <<>> /\ Len(r) = Len(q) + 1 /\ Len(q) \in Nat
      /\ \A i \in 1 .. Len(q) : r[i] = q[i]
      /\ r[Len(q) + 1] = x
  BY AppendProperties, LenProperties
<1> HIDE DEF r
<1>2. InQueue(r) = InQueue(q) \union {x}
  BY <1>1 DEF InQueue
<1>3. ASSUME NoDuplicates(q), x \notin InQueue(q)
      PROVE  NoDuplicates(r)
  BY <1>1, <1>3 DEF InQueue, NoDuplicates
<1> QED
  BY <1>1, <1>2, <1>3 DEF r

\* Taking the first object off a queue without duplicates takes that object
\* and no other.
LEMMA TailLemma ==
  ASSUME NEW S, NEW q \in Seq(S), q # <<>>
  PROVE  /\ Head(q) \in S /\ Tail(q) \in Seq(S)
         /\ Head(q) \in InQueue(q)
         /\ InQueue(q) = InQueue(Tail(q)) \union {Head(q)}
         /\ NoDuplicates(q) =>
              /\ NoDuplicates(Tail(q))
              /\ InQueue(Tail(q)) = InQueue(q) \ {Head(q)}
<1> DEFINE t == Tail(q)
           h == Head(q)
<1>1. /\ h \in S /\ t \in Seq(S) /\ Len(t) = Len(q) - 1
      /\ \A i \in 1 .. Len(t) : t[i] = q[i + 1]
      /\ Len(q) \in Nat /\ Len(q) > 0 /\ h = q[1]
  BY HeadTailProperties, LenProperties, EmptySeq
<1> HIDE DEF t, h
<1>2. h \in InQueue(q)
  BY <1>1 DEF InQueue
<1>3. ASSUME NEW i \in 1 .. Len(q), i # 1
      PROVE  i - 1 \in 1 .. Len(t) /\ t[i - 1] = q[i]
  <2>1. i - 1 \in 1 .. Len(t) /\ (i - 1) + 1 = i
    BY <1>1, <1>3
  <2> QED
    BY <1>1, <2>1
<1>4. ASSUME NEW i \in 1 .. Len(t)
      PROVE  i + 1 \in 1 .. Len(q) /\ t[i] = q[i + 1]
  BY <1>1
<1>5. InQueue(q) = InQueue(t) \union {h}
  BY <1>1, <1>3, <1>4 DEF InQueue
<1>6. ASSUME NoDuplicates(q)
      PROVE  NoDuplicates(t) /\ h \notin InQueue(t)
  BY <1>1, <1>4, <1>6, SMTT(30) DEF InQueue, NoDuplicates
<1> QED
  BY <1>1, <1>2, <1>5, <1>6 DEF t, h

\* Rotating a queue changes neither the objects on it nor their number.
LEMMA RotateLemma ==
  ASSUME NEW S, NEW q \in Seq(S)
  PROVE  /\ Rotate(q) \in Seq(S)
         /\ InQueue(Rotate(q)) = InQueue(q)
         /\ NoDuplicates(q) => NoDuplicates(Rotate(q))
         /\ Rotate(q) = <<>> <=> q = <<>>
<1>1. CASE q = <<>>
  BY <1>1 DEF Rotate
<1>2. CASE q # <<>>
  <2> DEFINE t == Tail(q)
             h == Head(q)
  <2>1. /\ h \in S /\ t \in Seq(S)
        /\ InQueue(q) = InQueue(t) \union {h}
        /\ NoDuplicates(q) => NoDuplicates(t) /\ h \notin InQueue(t)
    BY <1>2, TailLemma
  <2>2. Rotate(q) = Append(t, h)
    BY <1>2 DEF Rotate
  <2> HIDE DEF t, h
  <2>3. /\ Append(t, h) \in Seq(S) /\ Append(t, h) # <<>>
        /\ InQueue(Append(t, h)) = InQueue(t) \union {h}
        /\ NoDuplicates(t) /\ h \notin InQueue(t) => NoDuplicates(Append(t, h))
    BY <2>1, AppendLemma
  <2> QED
    BY <1>2, <2>1, <2>2, <2>3
<1> QED
  BY <1>1, <1>2

\* Removing the link of the object in front is taking the head off.
LEMMA RemoveHeadLemma ==
  ASSUME NEW S, NEW q \in Seq(S), q # <<>>, NoDuplicates(q)
  PROVE  AQueueRemove(q, Head(q)) = Tail(q)
<1> DEFINE i == CHOOSE j \in 1 .. Len(q) : q[j] = Head(q)
<1>1. Len(q) \in Nat /\ Len(q) > 0 /\ Head(q) = q[1]
  BY LenProperties, EmptySeq
<1>2. i = 1
  BY <1>1 DEF NoDuplicates
<1> HIDE DEF i
<1>3. SubSeq(q, 1, i - 1) = <<>>
  BY <1>2, SubSeqEmpty
<1>5. SubSeq(q, i + 1, Len(q)) = Tail(q)
  BY <1>2, TailIsSubSeq
<1>4. <<>> \o Tail(q) = Tail(q)
  BY HeadTailProperties, ConcatEmptySeq
<1> QED
  BY <1>3, <1>4, <1>5 DEF AQueueRemove, i

\* Concatenation puts the objects of both queues on one.
LEMMA ConcatLemma ==
  ASSUME NEW S, NEW q \in Seq(S), NEW r \in Seq(S)
  PROVE  /\ q \o r \in Seq(S)
         /\ InQueue(q \o r) = InQueue(q) \union InQueue(r)
         /\ NoDuplicates(q) /\ NoDuplicates(r) /\ InQueue(q) \cap InQueue(r) = {}
              => NoDuplicates(q \o r)
<1> DEFINE u == q \o r
<1>1. /\ u \in Seq(S) /\ Len(u) = Len(q) + Len(r)
      /\ Len(q) \in Nat /\ Len(r) \in Nat
      /\ \A i \in 1 .. Len(q) + Len(r) :
           u[i] = IF i <= Len(q) THEN q[i] ELSE r[i - Len(q)]
  BY ConcatProperties, LenProperties
<1> HIDE DEF u
<1>2. ASSUME NEW i \in 1 .. Len(q)
      PROVE  i \in 1 .. Len(u) /\ u[i] = q[i]
  BY <1>1
<1>3. ASSUME NEW i \in 1 .. Len(r)
      PROVE  Len(q) + i \in 1 .. Len(u) /\ u[Len(q) + i] = r[i]
  <2>1. /\ Len(q) + i \in 1 .. Len(q) + Len(r) /\ ~(Len(q) + i <= Len(q))
        /\ (Len(q) + i) - Len(q) = i
    BY <1>1
  <2> QED
    BY <1>1, <2>1
<1>4. ASSUME NEW i \in 1 .. Len(u)
      PROVE  \/ i \in 1 .. Len(q) /\ u[i] = q[i]
             \/ i - Len(q) \in 1 .. Len(r) /\ u[i] = r[i - Len(q)]
  BY <1>1
<1>5. InQueue(u) = InQueue(q) \union InQueue(r)
  <2>1. ASSUME NEW x \in InQueue(u)
        PROVE  x \in InQueue(q) \union InQueue(r)
    <3>1. PICK i \in 1 .. Len(u) : x = u[i]
      BY DEF InQueue
    <3> QED
      BY <1>4, <3>1 DEF InQueue
  <2>2. ASSUME NEW x \in InQueue(q)
        PROVE  x \in InQueue(u)
    <3>1. PICK i \in 1 .. Len(q) : x = q[i]
      BY DEF InQueue
    <3> QED
      BY <1>2, <3>1 DEF InQueue
  <2>3. ASSUME NEW x \in InQueue(r)
        PROVE  x \in InQueue(u)
    <3>1. PICK i \in 1 .. Len(r) : x = r[i]
      BY DEF InQueue
    <3> QED
      BY <1>3, <3>1 DEF InQueue
  <2> QED
    BY <2>1, <2>2, <2>3
<1>6. ASSUME NoDuplicates(q), NoDuplicates(r), InQueue(q) \cap InQueue(r) = {}
      PROVE  NoDuplicates(u)
  <2> SUFFICES ASSUME NEW i \in 1 .. Len(u), NEW j \in 1 .. Len(u), u[i] = u[j]
               PROVE  i = j
    BY DEF NoDuplicates
  <2>1. CASE i \in 1 .. Len(q) /\ j \in 1 .. Len(q)
    BY <1>1, <1>6, <2>1 DEF NoDuplicates
  <2>2. CASE i \notin 1 .. Len(q) /\ j \notin 1 .. Len(q)
    <3>1. /\ i - Len(q) \in 1 .. Len(r) /\ j - Len(q) \in 1 .. Len(r)
          /\ r[i - Len(q)] = r[j - Len(q)]
      BY <1>4, <2>2
    <3>2. i - Len(q) = j - Len(q)
      BY <1>6, <3>1 DEF NoDuplicates
    <3> QED
      BY <1>1, <3>2
  <2>3. CASE i \in 1 .. Len(q) /\ j \notin 1 .. Len(q)
    <3>1. u[i] \in InQueue(q)
      BY <1>2, <2>3 DEF InQueue
    <3>2. u[j] \in InQueue(r)
      BY <1>4, <2>3 DEF InQueue
    <3> QED
      BY <1>6, <3>1, <3>2
  <2>4. CASE i \notin 1 .. Len(q) /\ j \in 1 .. Len(q)
    <3>1. u[j] \in InQueue(q)
      BY <1>2, <2>4 DEF InQueue
    <3>2. u[i] \in InQueue(r)
      BY <1>4, <2>4 DEF InQueue
    <3> QED
      BY <1>6, <3>1, <3>2
  <2> QED
    BY <2>1, <2>2, <2>3, <2>4
<1> QED
  BY <1>1, <1>5, <1>6 DEF u

\* A queue of one object, and the empty one.
LEMMA SmallQueueLemma ==
  ASSUME NEW S, NEW x \in S
  PROVE  /\ <<>> \in Seq(S) /\ InQueue(<<>>) = {} /\ NoDuplicates(<<>>)
         /\ <<x>> \in Seq(S) /\ InQueue(<<x>>) = {x} /\ NoDuplicates(<<x>>)
BY DEF InQueue, NoDuplicates

-----------------------------------------------------------------------------
(* Induction: the loops of the code are recursive functions on an interval *)

\* A set of numbers has a least one.
LEMMA LeastNatural ==
  ASSUME NEW B, B \subseteq Nat, B # {}
  PROVE  \E x \in B : \A y \in B : x <= y
<1>1. IsWellFoundedOn(OpToRel(<, Nat), Nat)
  BY NatLessThanWellFounded
<1>2. PICK x \in B : \A y \in B : ~(<<y, x>> \in OpToRel(<, Nat))
  BY <1>1, WFMin
<1>3. \A y \in B : ~(y < x)
  BY <1>2 DEF OpToRel
<1> QED
  BY <1>3

\* A set of the first numbers that a step by one does not leave holds them all.
LEMMA IntervalInduction ==
  ASSUME NEW n \in Nat, NEW A, 0 \in A,
         \A i \in 1 .. n : i - 1 \in A => i \in A
  PROVE  0 .. n \subseteq A
<1> DEFINE B == (0 .. n) \ A
<1> SUFFICES ASSUME B # {} PROVE FALSE
  OBVIOUS
<1>1. PICK x \in B : \A y \in B : x <= y
  <2>1. B \subseteq Nat
    OBVIOUS
  <2> HIDE DEF B
  <2> QED
    BY <2>1, LeastNatural
<1>2. x # 0 /\ x \in 1 .. n
  OBVIOUS
<1>3. x - 1 \in B
  BY <1>2
<1> QED
  BY <1>1, <1>3

\* What a recursive function on an interval is, and when F keeps it in S.
Iterates(g, n, x0, F) == g = [i \in 0 .. n |-> IF i = 0 THEN x0 ELSE F[<<g[i - 1], i>>]]
Closed(S, n, F) == \A x \in S, i \in 1 .. n : F[<<x, i>>] \in S

\* A function that is defined by recursion on an interval exists.
LEMMA Iteration ==
  ASSUME NEW n \in Nat, NEW S, NEW x0 \in S, NEW F, Closed(S, n, F)
  PROVE  \E g \in [0 .. n -> S] : Iterates(g, n, x0, F)
<1> DEFINE Part(k, g) == g[0] = x0 /\ \A i \in 1 .. k : g[i] = F[<<g[i - 1], i>>]
           A == {k \in 0 .. n : \E g \in [0 .. k -> S] : Part(k, g)}
<1>1. 0 \in A
  <2> DEFINE h == [i \in 0 .. 0 |-> x0]
  <2>1. h \in [0 .. 0 -> S] /\ Part(0, h)
    OBVIOUS
  <2> HIDE DEF h
  <2>2. \E g \in [0 .. 0 -> S] : Part(0, g)
    BY <2>1
  <2> QED
    BY <2>2
<1>2. ASSUME NEW k \in 1 .. n, k - 1 \in A
      PROVE  k \in A
  <2>1. PICK g \in [0 .. k - 1 -> S] : Part(k - 1, g)
    BY <1>2
  <2> DEFINE h == [i \in 0 .. k |-> IF i = k THEN F[<<g[k - 1], k>>] ELSE g[i]]
  <2>2. h \in [0 .. k -> S]
    BY <2>1 DEF Closed
  <2>3. h[0] = x0
    BY <2>1
  <2>4. ASSUME NEW i \in 1 .. k
        PROVE  h[i] = F[<<h[i - 1], i>>]
    <3>1. h[i - 1] = g[i - 1]
      OBVIOUS
    <3>2. CASE i = k
      BY <3>1, <3>2
    <3>3. CASE i # k
      <4>1. i \in 1 .. k - 1 /\ h[i] = g[i]
        BY <3>3
      <4> QED
        BY <2>1, <3>1, <4>1
    <3> QED
      BY <3>2, <3>3
  <2> HIDE DEF h
  <2>5. Part(k, h)
    BY <2>3, <2>4
  <2> QED
    BY <2>2, <2>5
<1> HIDE DEF A
<1>3. n \in A
  BY <1>1, <1>2, IntervalInduction
<1>4. PICK g \in [0 .. n -> S] : Part(n, g)
  BY <1>3 DEF A
<1>5. g = [i \in 0 .. n |-> IF i = 0 THEN x0 ELSE F[<<g[i - 1], i>>]]
  <2> DEFINE h == [i \in 0 .. n |-> IF i = 0 THEN x0 ELSE F[<<g[i - 1], i>>]]
  <2>1. \A i \in 0 .. n : g[i] = h[i]
    BY <1>4
  <2>2. DOMAIN h = 0 .. n /\ DOMAIN g = 0 .. n /\ h = [i \in 0 .. n |-> h[i]]
    OBVIOUS
  <2>3. g = [i \in 0 .. n |-> g[i]]
    OBVIOUS
  <2> QED
    BY <2>1, <2>2, <2>3
<1> QED
  BY <1>4, <1>5 DEF Iterates

=============================================================================
