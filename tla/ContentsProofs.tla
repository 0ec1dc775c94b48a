--------------------------- MODULE ContentsProofs ---------------------------
(***************************************************************************)
(* q2, q3 and q4 are bounded buffers: what a process has tested still      *)
(* holds when it acts on it, no character is lost, invented or taken out   *)
(* of order, and some consumer always expects the head of the buffer; for  *)
(* any number of producers and consumers, any buffer and any number of     *)
(* characters.  The reactions of q5 neither make atoms nor lose them.      *)
(***************************************************************************)
EXTENDS BufferContents, ProgramsProofs

-----------------------------------------------------------------------------
(* Counting *)

\* The characters that the members of S may insert or take.
Numbered(S) == S \X (0 .. ITEMS - 1)

\* Counts of the characters of finitely many processes are natural numbers.
LEMMA TotalLemma ==
  ASSUME NEW S, IsFiniteSet(S), NEW f \in [S -> 0 .. ITEMS]
  PROVE  /\ IsFiniteSet({x \in Numbered(S) : x[2] < f[x[1]]})
         /\ Total(f) \in Nat
<1>1. IsFiniteSet(0 .. ITEMS - 1)
  BY BufferAssumption, FS_Interval
<1>2. IsFiniteSet(Numbered(S))
  BY <1>1, FS_Product DEF Numbered
<1>3. {x \in Numbered(S) : x[2] < f[x[1]]} \in SUBSET Numbered(S)
  OBVIOUS
<1>4. IsFiniteSet({x \in Numbered(S) : x[2] < f[x[1]]})
  BY <1>2, <1>3, FS_Subset
<1> QED
  BY <1>4, FS_CardinalityType DEF Total, Numbered

\* The total of no characters.
LEMMA NothingLemma ==
  ASSUME NEW S
  PROVE  Total([x \in S |-> 0]) = 0
<1>1. {x \in S \X (0 .. ITEMS - 1) : x[2] < [y \in S |-> 0][x[1]]} = {}
  BY BufferAssumption
<1> QED
  BY <1>1, FS_EmptySet DEF Total

\* One character more of one process is one more in all.
LEMMA OneMoreLemma ==
  ASSUME NEW S, IsFiniteSet(S), NEW f \in [S -> 0 .. ITEMS], NEW p \in S, f[p] < ITEMS
  PROVE  Total([f EXCEPT ![p] = @ + 1]) = Total(f) + 1
<1> DEFINE g == [f EXCEPT ![p] = @ + 1]
           F == {x \in Numbered(S) : x[2] < f[x[1]]}
           G == {x \in Numbered(S) : x[2] < g[x[1]]}
<1>1. ITEMS \in Nat /\ f[p] \in 0 .. ITEMS - 1
  BY BufferAssumption
<1>2. g \in [S -> 0 .. ITEMS] /\ g[p] = f[p] + 1 /\ \A q \in S : q # p => g[q] = f[q]
  BY <1>1
<1> HIDE DEF g
<1>3. ASSUME NEW x \in Numbered(S)
      PROVE  x[2] < g[x[1]] <=> x[2] < f[x[1]] \/ x = <<p, f[p]>>
  <2>1. PICK a \in S, n \in 0 .. ITEMS - 1 : x = <<a, n>>
    BY DEF Numbered
  <2>2. CASE a = p
    BY <1>1, <1>2, <2>1, <2>2
  <2>3. CASE a # p
    BY <1>2, <2>1, <2>3
  <2> QED
    BY <2>2, <2>3
<1>4. <<p, f[p]>> \in Numbered(S)
  BY <1>1 DEF Numbered
<1>5. G = F \union {<<p, f[p]>>}
  BY <1>3, <1>4
<1>6. <<p, f[p]>> \notin F
  BY <1>1
<1>7. IsFiniteSet(F)
  BY TotalLemma
<1>8. Cardinality(G) = Cardinality(F) + 1
  BY <1>5, <1>6, <1>7, FS_AddElement
<1>9. Total(f) = Cardinality(F) /\ Total(g) = Cardinality(G)
  BY <1>2 DEF Total, Numbered
<1> QED
  BY <1>8, <1>9 DEF g

\* A set of which one member is added, or left out.
LEMMA CountLemma ==
  ASSUME NEW S, IsFiniteSet(S), NEW T, IsFiniteSet(T), NEW x
  PROVE  /\ Cardinality(S) \in Nat
         /\ T = S \union {x} /\ x \notin S => Cardinality(T) = Cardinality(S) + 1
         /\ T = S \ {x} /\ x \in S => Cardinality(T) = Cardinality(S) - 1
BY FS_CardinalityType, FS_AddElement, FS_RemoveElement

-----------------------------------------------------------------------------
(* The slots of the buffer *)

\* The slot n places behind slot r.
Behind(r, n) == (r + n) % BUFFER_SIZE

\* Indices wrap around once.
LEMMA BehindLemma ==
  ASSUME NEW r \in Slot, NEW n \in 0 .. BUFFER_SIZE
  PROVE  Behind(r, n) = IF r + n < BUFFER_SIZE THEN r + n ELSE r + n - BUFFER_SIZE
<1> DEFINE B == BUFFER_SIZE
<1>1. B \in Nat \ {0} /\ r \in Int /\ n \in Int /\ r >= 0 /\ r < B /\ n >= 0 /\ n <= B
  BY BufferAssumption DEF Slot
<1> HIDE DEF B
<1>2. CASE r + n < B
  BY <1>1, <1>2 DEF Behind, B
<1>3. CASE r + n >= B
  <2>1. r + n - B \in Nat /\ r + n - B < B
    BY <1>1, <1>3
  <2>2. ((r + n - B) + B) % B = r + n - B
    BY <1>1, <2>1
  <2>3. (r + n - B) + B = r + n
    BY <1>1
  <2> QED
    BY <1>1, <1>3, <2>2, <2>3 DEF Behind, B
<1> QED
  BY <1>1, <1>2, <1>3

\* The slots behind one are different, and follow each other.
LEMMA RingLemma ==
  ASSUME NEW r \in Slot
  PROVE  /\ \A n \in 0 .. BUFFER_SIZE : Behind(r, n) \in Slot
         /\ \A n \in 0 .. BUFFER_SIZE - 1 :
              /\ NextSlot(Behind(r, n)) = Behind(r, n + 1)
              /\ Behind(NextSlot(r), n) = Behind(r, n + 1)
         /\ \A m, n \in 0 .. BUFFER_SIZE - 1 : Behind(r, m) = Behind(r, n) => m = n
         /\ Behind(r, 0) = r
         /\ NextSlot(r) \in Slot
<1>1. BUFFER_SIZE \in Nat \ {0} /\ \A s \in Slot : s \in Int /\ s >= 0 /\ s < BUFFER_SIZE
  BY BufferAssumption DEF Slot
<1>2. ASSUME NEW s \in Slot, NEW n \in 0 .. BUFFER_SIZE
      PROVE  /\ Behind(s, n) = IF s + n < BUFFER_SIZE THEN s + n ELSE s + n - BUFFER_SIZE
             /\ Behind(s, n) \in Slot
  BY <1>1, BehindLemma DEF Slot
<1>3. \A s \in Slot : NextSlot(s) = Behind(s, 1)
  BY DEF NextSlot, Behind
<1>4. 1 \in 0 .. BUFFER_SIZE /\ 0 \in 0 .. BUFFER_SIZE
  BY <1>1
<1>5. \A s \in Slot : /\ NextSlot(s) \in Slot
                      /\ NextSlot(s) = IF s + 1 < BUFFER_SIZE THEN s + 1 ELSE s + 1 - BUFFER_SIZE
  BY <1>2, <1>3, <1>4
<1>6. ASSUME NEW n \in 0 .. BUFFER_SIZE - 1
      PROVE  /\ NextSlot(Behind(r, n)) = Behind(r, n + 1)
             /\ Behind(NextSlot(r), n) = Behind(r, n + 1)
  <2>1. n \in 0 .. BUFFER_SIZE /\ n + 1 \in 0 .. BUFFER_SIZE
    BY <1>1
  <2>2. /\ Behind(r, n) = IF r + n < BUFFER_SIZE THEN r + n ELSE r + n - BUFFER_SIZE
        /\ Behind(r, n) \in Slot
        /\ Behind(r, n + 1) = IF r + (n + 1) < BUFFER_SIZE THEN r + (n + 1)
                              ELSE r + (n + 1) - BUFFER_SIZE
    BY <1>2, <2>1, Zenon
  <2>3. NextSlot(Behind(r, n)) = Behind(r, n + 1)
    BY <1>1, <1>5, <2>2
  <2>4. /\ NextSlot(r) \in Slot
        /\ NextSlot(r) = IF r + 1 < BUFFER_SIZE THEN r + 1 ELSE r + 1 - BUFFER_SIZE
    BY <1>5
  <2>5. Behind(NextSlot(r), n) = IF NextSlot(r) + n < BUFFER_SIZE THEN NextSlot(r) + n
                                 ELSE NextSlot(r) + n - BUFFER_SIZE
    BY <1>2, <2>1, <2>4
  <2> QED
    BY <1>1, <2>2, <2>3, <2>4, <2>5
<1>7. ASSUME NEW m \in 0 .. BUFFER_SIZE - 1, NEW n \in 0 .. BUFFER_SIZE - 1,
             Behind(r, m) = Behind(r, n)
      PROVE  m = n
  <2>1. m \in 0 .. BUFFER_SIZE /\ n \in 0 .. BUFFER_SIZE
    BY <1>1
  <2>2. /\ Behind(r, m) = IF r + m < BUFFER_SIZE THEN r + m ELSE r + m - BUFFER_SIZE
        /\ Behind(r, n) = IF r + n < BUFFER_SIZE THEN r + n ELSE r + n - BUFFER_SIZE
    BY <1>2, <2>1, Zenon
  <2>3. (IF r + m < BUFFER_SIZE THEN r + m ELSE r + m - BUFFER_SIZE)
          = (IF r + n < BUFFER_SIZE THEN r + n ELSE r + n - BUFFER_SIZE)
    BY <1>7, <2>2, Zenon
  <2>4. r \in Int /\ r >= 0 /\ r < BUFFER_SIZE /\ BUFFER_SIZE \in Int
    BY <1>1
  <2> QED
    BY <2>3, <2>4
<1> QED
  BY <1>1, <1>2, <1>4, <1>5, <1>6, <1>7

-----------------------------------------------------------------------------
(* The bounded buffer: the characters that are in it, put into it and got   *)
(* from it                                                                  *)

\* The processes that are past character k.
Above(f, k) == {p \in DOMAIN f : f[p] > k}

\* Where character k is among the first i of queue q.
Copies(q, i, k) == {j \in 1 .. i : q[j] = k}

PastOrIn(q, got, i, k) == Cardinality(Above(got, k)) + Cardinality(Copies(q, i, k))

BufferTypes(q, put, got) ==
  /\ q \in Seq(0 .. ITEMS - 1)
  /\ put \in [Producer -> 0 .. ITEMS]
  /\ got \in [Consumer -> 0 .. ITEMS]

\* Each character was taken, or is in the buffer, as often as it was inserted.
BalancedIn(q, put, got) ==
  \A k \in 0 .. ITEMS - 1 : PastOrIn(q, got, Len(q), k) = Cardinality(Above(put, k))

\* However much of the buffer is taken, no character will have been taken more
\* often than the one before it.
InTurnIn(q, got) ==
  \A i \in 0 .. Len(q), k \in 1 .. ITEMS - 1 :
    PastOrIn(q, got, i, k) <= PastOrIn(q, got, i, k - 1)

BufferInv(q, put, got) ==
  BufferTypes(q, put, got) /\ BalancedIn(q, put, got) /\ InTurnIn(q, got)

\* The sets that are counted are finite.
LEMMA AboveLemma ==
  ASSUME NEW S, IsFiniteSet(S), NEW f \in [S -> 0 .. ITEMS], NEW k \in Int
  PROVE  /\ IsFiniteSet(Above(f, k)) /\ Above(f, k) \subseteq S
         /\ Cardinality(Above(f, k)) \in Nat
         /\ Cardinality(Above(f, k)) <= Cardinality(Above(f, k - 1))
<1>1. Above(f, k) \in SUBSET S /\ Above(f, k - 1) \in SUBSET S
  BY DEF Above
<1>2. IsFiniteSet(Above(f, k)) /\ IsFiniteSet(Above(f, k - 1))
  BY <1>1, FS_Subset
<1>3. Above(f, k) \in SUBSET Above(f, k - 1)
  <2> SUFFICES ASSUME NEW x \in Above(f, k) PROVE x \in Above(f, k - 1)
    OBVIOUS
  <2>1. x \in S /\ f[x] \in Int /\ f[x] > k
    BY DEF Above
  <2> QED
    BY <2>1 DEF Above
<1> QED
  BY <1>1, <1>2, <1>3, FS_Subset, FS_CardinalityType

\* There are finitely many, so a natural number of them.
LEMMA CopiesLemma ==
  ASSUME NEW q, NEW i \in Int, NEW k
  PROVE  IsFiniteSet(Copies(q, i, k)) /\ Cardinality(Copies(q, i, k)) \in Nat
<1>1. IsFiniteSet(1 .. i)
  BY FS_Interval
<1>2. Copies(q, i, k) \in SUBSET (1 .. i)
  BY DEF Copies
<1> QED
  BY <1>1, <1>2, FS_Subset, FS_CardinalityType

\* A process that goes past its character is one more above that character only.
LEMMA OneAboveLemma ==
  ASSUME NEW S, IsFiniteSet(S), NEW f \in [S -> 0 .. ITEMS], NEW p \in S, f[p] < ITEMS,
         NEW k \in Int
  PROVE  Cardinality(Above([f EXCEPT ![p] = @ + 1], k))
           = Cardinality(Above(f, k)) + (IF k = f[p] THEN 1 ELSE 0)
<1> DEFINE g == [f EXCEPT ![p] = @ + 1]
<1>1. /\ g \in [S -> 0 .. ITEMS] /\ g[p] = f[p] + 1 /\ \A x \in S : x # p => g[x] = f[x]
      /\ f[p] \in Int
  BY BufferAssumption
<1> HIDE DEF g
<1>2. IsFiniteSet(Above(f, k)) /\ IsFiniteSet(Above(g, k)) /\ Cardinality(Above(f, k)) \in Nat
  BY <1>1, AboveLemma
<1>3. DOMAIN f = S /\ DOMAIN g = S
  BY <1>1
<1>4. CASE k = f[p]
  <2>1. Above(g, k) = Above(f, k) \union {p} /\ p \notin Above(f, k)
    BY <1>1, <1>3, <1>4 DEF Above
  <2> QED
    BY <1>2, <1>4, <2>1, CountLemma DEF g
<1>5. CASE k # f[p]
  <2>1. Above(g, k) = Above(f, k)
    BY <1>1, <1>3, <1>5 DEF Above
  <2> QED
    BY <1>2, <1>5, <2>1 DEF g
<1> QED
  BY <1>4, <1>5

\* An insertion keeps the invariant.
LEMMA PutLemma ==
  ASSUME NEW q, NEW put, NEW got, BufferInv(q, put, got), NEW p \in Producer, put[p] < ITEMS
  PROVE  BufferInv(Append(q, put[p]), [put EXCEPT ![p] = @ + 1], got)
<1> DEFINE v == put[p]
           r == Append(q, v)
           more == [put EXCEPT ![p] = @ + 1]
<1>1. /\ q \in Seq(0 .. ITEMS - 1) /\ Len(q) \in Nat /\ v \in 0 .. ITEMS - 1
      /\ put \in [Producer -> 0 .. ITEMS] /\ got \in [Consumer -> 0 .. ITEMS]
      /\ ITEMS \in Nat /\ IsFiniteSet(Producer) /\ IsFiniteSet(Consumer)
  BY BufferAssumption DEF BufferInv, BufferTypes
<1> HIDE DEF v
<1>2. /\ r \in Seq(0 .. ITEMS - 1) /\ Len(r) = Len(q) + 1 /\ r[Len(q) + 1] = v
      /\ \A j \in 1 .. Len(q) : r[j] = q[j]
  BY <1>1
<1>3. more \in [Producer -> 0 .. ITEMS]
  BY <1>1 DEF v
<1> HIDE DEF r, more
<1>4. ASSUME NEW i \in 0 .. Len(q), NEW k
      PROVE  Copies(r, i, k) = Copies(q, i, k)
  <2>1. \A j \in 1 .. i : j \in 1 .. Len(q)
    BY <1>1
  <2>2. \A j \in 1 .. i : r[j] = q[j]
    BY <1>2, <2>1
  <2> QED
    BY <2>2 DEF Copies
<1>5. ASSUME NEW k \in Int
      PROVE  Cardinality(Copies(r, Len(r), k))
               = Cardinality(Copies(q, Len(q), k)) + (IF k = v THEN 1 ELSE 0)
  <2>1. /\ IsFiniteSet(Copies(q, Len(q), k)) /\ IsFiniteSet(Copies(r, Len(r), k))
        /\ Cardinality(Copies(q, Len(q), k)) \in Nat
    BY <1>1, <1>2, CopiesLemma
  <2>2. CASE k = v
    <3>1. /\ Copies(r, Len(r), k) = Copies(q, Len(q), k) \union {Len(r)}
          /\ Len(r) \notin Copies(q, Len(q), k)
      BY <1>1, <1>2, <2>2, SMTT(30) DEF Copies
    <3> QED
      BY <2>1, <2>2, <3>1, CountLemma
  <2>3. CASE k # v
    <3>1. Copies(r, Len(r), k) = Copies(q, Len(q), k)
      BY <1>1, <1>2, <2>3, SMTT(30) DEF Copies
    <3> QED
      BY <2>1, <2>3, <3>1
  <2> QED
    BY <2>2, <2>3
<1>6. ASSUME NEW k \in Int
      PROVE  Cardinality(Above(more, k)) = Cardinality(Above(put, k)) + (IF k = v THEN 1 ELSE 0)
  BY <1>1, OneAboveLemma, ZenonT(30) DEF v, more
<1>7. ASSUME NEW k \in 0 .. ITEMS - 1
      PROVE  PastOrIn(r, got, Len(r), k) = Cardinality(Above(more, k))
  <2> k \in Int /\ Len(q) \in Int
    BY <1>1
  <2>1. Cardinality(Above(got, k)) \in Nat /\ Cardinality(Above(put, k)) \in Nat
    BY <1>1, AboveLemma
  <2>2. Cardinality(Copies(q, Len(q), k)) \in Nat
    BY CopiesLemma
  <2>3. Cardinality(Above(got, k)) + Cardinality(Copies(q, Len(q), k)) = Cardinality(Above(put, k))
    BY DEF BufferInv, BalancedIn, PastOrIn
  <2> QED
    BY <1>5, <1>6, <2>1, <2>2, <2>3 DEF PastOrIn
<1>8. ASSUME NEW i \in 0 .. Len(r), NEW k \in 1 .. ITEMS - 1
      PROVE  PastOrIn(r, got, i, k) <= PastOrIn(r, got, i, k - 1)
  <2>1. CASE i = Len(r)
    <3>1. k \in 0 .. ITEMS - 1 /\ k - 1 \in 0 .. ITEMS - 1
      BY <1>1
    <3>2. Cardinality(Above(more, k)) <= Cardinality(Above(more, k - 1))
      BY <1>1, <1>3, AboveLemma, k \in Int
    <3> QED
      BY <1>7, <2>1, <3>1, <3>2
  <2>2. CASE i # Len(r)
    <3>1. i \in 0 .. Len(q)
      BY <1>1, <1>2, <2>2
    <3>2. PastOrIn(q, got, i, k) <= PastOrIn(q, got, i, k - 1)
      BY <3>1 DEF BufferInv, InTurnIn
    <3> QED
      BY <1>4, <3>1, <3>2 DEF PastOrIn
  <2> QED
    BY <2>1, <2>2
<1>9. BalancedIn(r, more, got) /\ InTurnIn(r, got) /\ BufferTypes(r, more, got)
  BY <1>1, <1>2, <1>3, <1>7, <1>8 DEF BalancedIn, InTurnIn, BufferTypes
<1> QED
  BY <1>9 DEF BufferInv, r, v, more

\* The head of a queue is one copy of its character more than the rest has.
LEMMA TailCopiesLemma ==
  ASSUME NEW q \in Seq(0 .. ITEMS - 1), q # <<>>, NEW i \in 0 .. Len(q) - 1, NEW k \in Int
  PROVE  Cardinality(Copies(q, i + 1, k))
           = Cardinality(Copies(Tail(q), i, k)) + (IF k = Head(q) THEN 1 ELSE 0)
<1> DEFINE t == Tail(q)
           rest == Copies(q, i + 1, k) \ {1}
           f == [j \in Copies(t, i, k) |-> j + 1]
<1>1. /\ Len(q) \in Nat /\ Len(q) > 0 /\ Len(t) = Len(q) - 1 /\ Head(q) = q[1] /\ i \in Nat
      /\ \A j \in 1 .. Len(q) - 1 : t[j] = q[j + 1]
  BY LenProperties, EmptySeq
<1> HIDE DEF t
<1>2. /\ IsFiniteSet(Copies(q, i + 1, k)) /\ Cardinality(Copies(q, i + 1, k)) \in Nat
      /\ IsFiniteSet(Copies(t, i, k)) /\ Cardinality(Copies(t, i, k)) \in Nat
  BY <1>1, CopiesLemma
<1>3. \A j \in Copies(t, i, k) : j \in 1 .. i /\ j + 1 \in rest
  BY <1>1 DEF Copies
<1>4. \A j \in rest : j \in Int /\ j - 1 \in Copies(t, i, k)
  <2> SUFFICES ASSUME NEW j \in rest PROVE j \in Int /\ j - 1 \in Copies(t, i, k)
    OBVIOUS
  <2>1. j \in 2 .. i + 1 /\ q[j] = k
    BY <1>1 DEF Copies
  <2>2. j - 1 \in 1 .. i /\ j - 1 \in 1 .. Len(q) - 1 /\ (j - 1) + 1 = j
    BY <1>1, <2>1
  <2>3. t[j - 1] = q[(j - 1) + 1]
    BY <1>1, <2>2
  <2> QED
    BY <2>1, <2>2, <2>3 DEF Copies
<1>5. f \in Bijection(Copies(t, i, k), rest)
  <2>1. f \in [Copies(t, i, k) -> rest]
    BY <1>3
  <2>2. \A a, b \in Copies(t, i, k) : f[a] = f[b] => a = b
    BY <1>3
  <2>3. \A j \in rest : \E a \in Copies(t, i, k) : f[a] = j
    <3> SUFFICES ASSUME NEW j \in rest PROVE f[j - 1] = j /\ j - 1 \in Copies(t, i, k)
      OBVIOUS
    <3> QED
      BY <1>4
  <2> HIDE DEF f, rest
  <2>4. f \in Injection(Copies(t, i, k), rest)
    BY <2>1, <2>2 DEF Injection, IsInjective
  <2>5. f \in Surjection(Copies(t, i, k), rest)
    BY <2>1, <2>3 DEF Surjection
  <2> QED
    BY <2>4, <2>5 DEF Bijection
<1>6. Cardinality(rest) = Cardinality(Copies(t, i, k))
  <2>1. ExistsBijection(Copies(t, i, k), rest)
    BY <1>5 DEF ExistsBijection
  <2> QED
    BY <1>2, <2>1, FS_Bijection
<1>7. 1 \in Copies(q, i + 1, k) <=> k = Head(q)
  BY <1>1 DEF Copies
<1>8. Cardinality(rest) = Cardinality(Copies(q, i + 1, k))
                            - (IF 1 \in Copies(q, i + 1, k) THEN 1 ELSE 0)
  <2>1. CASE 1 \in Copies(q, i + 1, k)
    BY <1>2, <2>1, FS_RemoveElement
  <2>2. CASE 1 \notin Copies(q, i + 1, k)
    <3>1. rest = Copies(q, i + 1, k)
      BY <2>2
    <3> HIDE DEF rest
    <3> QED
      BY <1>2, <2>2, <3>1
  <2> QED
    BY <2>1, <2>2
<1> HIDE DEF rest
<1>9. Cardinality(Copies(q, i + 1, k))
        = Cardinality(Copies(t, i, k)) + (IF k = Head(q) THEN 1 ELSE 0)
  BY <1>2, <1>6, <1>7, <1>8
<1> QED
  BY <1>9 DEF t

\* So does the consumption of the head by a process that expects it.
LEMMA GetLemma ==
  ASSUME NEW q, NEW put, NEW got, BufferInv(q, put, got),
         NEW c \in Consumer, q # <<>>, Head(q) = got[c]
  PROVE  BufferInv(Tail(q), put, [got EXCEPT ![c] = @ + 1])
<1> DEFINE v == got[c]
           t == Tail(q)
           more == [got EXCEPT ![c] = @ + 1]
<1>1. /\ q \in Seq(0 .. ITEMS - 1) /\ v \in 0 .. ITEMS
      /\ put \in [Producer -> 0 .. ITEMS] /\ got \in [Consumer -> 0 .. ITEMS]
      /\ ITEMS \in Nat /\ IsFiniteSet(Producer) /\ IsFiniteSet(Consumer)
  BY BufferAssumption DEF BufferInv, BufferTypes
<1>2. /\ Len(q) \in Nat /\ Len(q) > 0 /\ Head(q) \in 0 .. ITEMS - 1
      /\ t \in Seq(0 .. ITEMS - 1) /\ Len(t) = Len(q) - 1
  BY <1>1, TailLemma, HeadTailProperties, LenProperties, EmptySeq
<1>3. v \in 0 .. ITEMS - 1 /\ got[c] < ITEMS
  BY <1>1, <1>2
<1>4. more \in [Consumer -> 0 .. ITEMS]
  BY <1>1, <1>3
<1> HIDE DEF t, more, v
<1>5. ASSUME NEW i \in 0 .. Len(t), NEW k \in Int
      PROVE  PastOrIn(t, more, i, k) = PastOrIn(q, got, i + 1, k)
  <2> i \in 0 .. Len(q) - 1 /\ i \in Int /\ i + 1 \in Int
    BY <1>2
  <2>1. Cardinality(Above(more, k)) = Cardinality(Above(got, k)) + (IF k = v THEN 1 ELSE 0)
    BY <1>1, <1>3, OneAboveLemma, ZenonT(30) DEF more, v
  <2>2. Cardinality(Copies(q, i + 1, k)) = Cardinality(Copies(t, i, k)) + (IF k = v THEN 1 ELSE 0)
    BY <1>1, TailCopiesLemma DEF t, v
  <2>3. Cardinality(Above(got, k)) \in Nat
    BY <1>1, AboveLemma
  <2>4. Cardinality(Copies(t, i, k)) \in Nat
    BY CopiesLemma
  <2> QED
    BY <2>1, <2>2, <2>3, <2>4 DEF PastOrIn
<1>6. ASSUME NEW k \in 0 .. ITEMS - 1
      PROVE  PastOrIn(t, more, Len(t), k) = Cardinality(Above(put, k))
  <2>1. PastOrIn(q, got, Len(q), k) = Cardinality(Above(put, k))
    BY DEF BufferInv, BalancedIn
  <2>2. Len(t) \in 0 .. Len(t) /\ Len(t) + 1 = Len(q) /\ k \in Int
    BY <1>1, <1>2
  <2> QED
    BY <1>5, <2>1, <2>2
<1>7. ASSUME NEW i \in 0 .. Len(t), NEW k \in 1 .. ITEMS - 1
      PROVE  PastOrIn(t, more, i, k) <= PastOrIn(t, more, i, k - 1)
  <2>1. i + 1 \in 0 .. Len(q) /\ k \in Int /\ k - 1 \in Int
    BY <1>1, <1>2
  <2>2. PastOrIn(q, got, i + 1, k) <= PastOrIn(q, got, i + 1, k - 1)
    BY <2>1 DEF BufferInv, InTurnIn
  <2> QED
    BY <1>5, <2>1, <2>2
<1>8. BalancedIn(t, put, more) /\ InTurnIn(t, more) /\ BufferTypes(t, put, more)
  BY <1>1, <1>2, <1>4, <1>6, <1>7 DEF BalancedIn, InTurnIn, BufferTypes
<1> QED
  BY <1>8 DEF BufferInv, t, more

\* Some consumer expects the head of the buffer.
LEMMA ExpectedLemma ==
  ASSUME NEW q, NEW put, NEW got, BufferInv(q, put, got), q # <<>>
  PROVE  \E c \in Consumer : got[c] = Head(q)
<1> DEFINE v == Head(q)
<1>1. /\ q \in Seq(0 .. ITEMS - 1)
      /\ put \in [Producer -> 0 .. ITEMS] /\ got \in [Consumer -> 0 .. ITEMS]
      /\ ITEMS \in Nat /\ IsFiniteSet(Producer) /\ IsFiniteSet(Consumer)
      /\ Cardinality(Producer) = Cardinality(Consumer)
  BY BufferAssumption DEF BufferInv, BufferTypes
<1>2. Len(q) \in Nat /\ Len(q) > 0 /\ v \in 0 .. ITEMS - 1 /\ q[1] = v
  BY <1>1, TailLemma, HeadTailProperties, LenProperties, EmptySeq
<1> HIDE DEF v
<1>3. CASE v > 0
  <2>1. v \in 1 .. ITEMS - 1 /\ 1 \in 0 .. Len(q)
    BY <1>1, <1>2, <1>3
  <2>2. PastOrIn(q, got, 1, v) <= PastOrIn(q, got, 1, v - 1)
    BY <2>1 DEF BufferInv, InTurnIn
  <2>3. Copies(q, 1, v) = {1} /\ Copies(q, 1, v - 1) = {}
    BY <1>2 DEF Copies
  <2>4. Cardinality(Copies(q, 1, v)) = 1 /\ Cardinality(Copies(q, 1, v - 1)) = 0
    BY <2>3, FS_EmptySet, FS_Singleton
  <2>5. Cardinality(Above(got, v)) \in Nat /\ Cardinality(Above(got, v - 1)) \in Nat
    <3>1. v \in Int /\ v - 1 \in Int
      BY <1>1, <1>2
    <3> QED
      BY <1>1, <3>1, AboveLemma
  <2>6. Cardinality(Above(got, v)) < Cardinality(Above(got, v - 1))
    BY <2>2, <2>4, <2>5 DEF PastOrIn
  <2>7. Above(got, v) # Above(got, v - 1)
    BY <2>5, <2>6
  <2>8. PICK c \in Consumer : got[c] > v - 1 /\ ~(got[c] > v)
    <3>1. \A c \in Consumer : got[c] \in Int /\ (got[c] > v => got[c] > v - 1)
      BY <1>1, <1>2
    <3> QED
      BY <1>1, <2>7, <3>1 DEF Above
  <2>9. got[c] \in Int
    BY <1>1
  <2> QED
    BY <1>2, <2>8, <2>9 DEF v
<1>4. CASE v = 0
  <2>1. PastOrIn(q, got, Len(q), 0) = Cardinality(Above(put, 0))
    BY <1>2, <1>4 DEF BufferInv, BalancedIn
  <2>2. 1 \in Copies(q, Len(q), 0)
    BY <1>2, <1>4 DEF Copies
  <2>3. /\ IsFiniteSet(Copies(q, Len(q), 0)) /\ Cardinality(Copies(q, Len(q), 0)) \in Nat
    BY <1>2, CopiesLemma
  <2>4. Cardinality(Copies(q, Len(q), 0)) # 0
    BY <2>2, <2>3, FS_EmptySet
  <2>5. /\ Cardinality(Above(got, 0)) \in Nat
        /\ Above(put, 0) \in SUBSET Producer /\ Cardinality(Above(put, 0)) \in Nat
    <3>1. Cardinality(Above(got, 0)) \in Nat
      BY <1>1, 0 \in Int, AboveLemma, Zenon
    <3>2. Above(put, 0) \in SUBSET Producer /\ Cardinality(Above(put, 0)) \in Nat
      BY <1>1, AboveLemma
    <3> QED
      BY <3>1, <3>2
  <2>6. Cardinality(Above(put, 0)) <= Cardinality(Consumer) /\ Cardinality(Consumer) \in Nat
    BY <1>1, <2>5, FS_Subset, FS_CardinalityType
  <2>7. Cardinality(Above(got, 0)) # Cardinality(Consumer)
    BY <2>1, <2>3, <2>4, <2>5, <2>6 DEF PastOrIn
  <2>8. PICK c \in Consumer : ~(got[c] > 0)
    BY <1>1, <2>7 DEF Above
  <2>9. got[c] \in Nat
    BY <1>1
  <2> QED
    BY <1>4, <2>8, <2>9 DEF v
<1> QED
  BY <1>2, <1>3, <1>4

\* So it is at the beginning.
LEMMA EmptyLemma ==
  BufferInv(<<>>, [p \in Producer |-> 0], [c \in Consumer |-> 0])
<1> DEFINE put == [p \in Producer |-> 0]
           got == [c \in Consumer |-> 0]
<1>1. BufferTypes(<<>>, put, got)
  BY BufferAssumption DEF BufferTypes
<1>2. Len(<<>>) = 0 /\ 0 .. 0 = {0}
  OBVIOUS
<1>3. ASSUME NEW k \in Nat
      PROVE  Above(put, k) = {} /\ Above(got, k) = {} /\ Copies(<<>>, 0, k) = {}
  BY DEF Above, Copies
<1>4. \A k \in Nat : PastOrIn(<<>>, got, 0, k) = 0 /\ Cardinality(Above(put, k)) = 0
  <2>1. Cardinality({}) = 0 /\ 0 + 0 = 0
    BY FS_EmptySet
  <2> QED
    BY <1>3, <2>1, Zenon DEF PastOrIn
<1>5. \A k \in 0 .. ITEMS - 1 : k \in Nat
  BY BufferAssumption
<1>6. \A k \in 1 .. ITEMS - 1 : k \in Nat /\ k - 1 \in Nat
  BY BufferAssumption
<1>7. BalancedIn(<<>>, put, got)
  BY <1>2, <1>4, <1>5 DEF BalancedIn
<1>8. InTurnIn(<<>>, got)
  BY <1>2, <1>4, <1>6 DEF InTurnIn
<1> QED
  BY <1>1, <1>7, <1>8 DEF BufferInv

-----------------------------------------------------------------------------
(* The shared page *)

Filled == Total(Inserted) - Total(Taken)

\* The characters lie one behind the other, from where they are taken to
\* where the next one goes.
PageOK ==
  /\ page \in [buffer : [Slot -> Int], w_idx : Slot, r_idx : Slot]
  /\ Filled \in 0 .. Room
  /\ page.w_idx = Behind(page.r_idx, Filled)
  /\ \A n \in 0 .. Filled - 1 : page.buffer[Behind(page.r_idx, n)] \in 0 .. ITEMS - 1

PageInv == IsBuffer /\ PageOK /\ BufferInv(Contents, Inserted, Taken)

\* The numbers that occur in PageOK.
LEMMA RoomLemma ==
  ASSUME PageOK
  PROVE  /\ Filled \in Nat /\ Filled <= Room /\ Room \in Nat /\ Room <= BUFFER_SIZE
         /\ BUFFER_SIZE \in Nat \ {0} /\ Filled \in 0 .. BUFFER_SIZE
         /\ page.r_idx \in Slot /\ page.w_idx \in Slot /\ page.buffer \in [Slot -> Int]
BY BufferAssumption DEF PageOK, Room

\* The first n characters of a page from where they are taken.
Row(pg, n) == [i \in 1 .. n |-> pg.buffer[Behind(pg.r_idx, i - 1)]]

\* The same with the indices as the specification has them.
RawRow(pg, n) == [i \in 1 .. n |-> pg.buffer[(pg.r_idx + i - 1) % BUFFER_SIZE]]

\* The two rows are the same, as the indices are.
LEMMA RowLemma ==
  ASSUME NEW pg, pg.r_idx \in Slot, NEW n \in Nat
  PROVE  RawRow(pg, n) = Row(pg, n)
<1>1. ASSUME NEW i \in 1 .. n
      PROVE  pg.r_idx + i - 1 = pg.r_idx + (i - 1)
  BY BufferAssumption DEF Slot
<1>2. \A i \in 1 .. n : (pg.r_idx + i - 1) % BUFFER_SIZE = Behind(pg.r_idx, i - 1)
  BY <1>1 DEF Behind
<1> QED
  BY <1>2 DEF Row, RawRow

\* It is a sequence of characters.
LEMMA RowTypeLemma ==
  ASSUME NEW pg, NEW n \in Nat,
         \A m \in 0 .. n - 1 : pg.buffer[Behind(pg.r_idx, m)] \in 0 .. ITEMS - 1
  PROVE  /\ Row(pg, n) \in Seq(0 .. ITEMS - 1) /\ Len(Row(pg, n)) = n
         /\ \A i \in 1 .. n : Row(pg, n)[i] = pg.buffer[Behind(pg.r_idx, i - 1)]
<1>1. \A i \in 1 .. n : pg.buffer[Behind(pg.r_idx, i - 1)] \in 0 .. ITEMS - 1
  <2> SUFFICES ASSUME NEW i \in 1 .. n PROVE i - 1 \in 0 .. n - 1
    OBVIOUS
  <2> QED
    OBVIOUS
<1> QED
  BY <1>1 DEF Row

\* What is in the buffer, and at its head.
LEMMA ContentsLemma ==
  ASSUME IsBuffer, PageOK
  PROVE  /\ Contents = Row(page, Filled)
         /\ Contents \in Seq(0 .. ITEMS - 1) /\ Len(Contents) = Filled
         /\ Contents # <<>> <=> Filled > 0
         /\ Filled > 0 => Head(Contents) = HeadChar
<1> DEFINE C == Contents
           n == Filled
<1>1. n \in Nat /\ page.r_idx \in Slot
  BY RoomLemma
<1>2. C = Row(page, n)
  <2>1. C = RawRow(page, n)
    BY Zenon DEF Contents, Filled, RawRow
  <2> QED
    BY <1>1, <2>1, RowLemma
<1>3. \A m \in 0 .. n - 1 : page.buffer[Behind(page.r_idx, m)] \in 0 .. ITEMS - 1
  BY DEF PageOK
<1> HIDE DEF C, n
<1>4. C \in Seq(0 .. ITEMS - 1) /\ Len(C) = n
  BY <1>1, <1>2, <1>3, RowTypeLemma
<1>5. ASSUME n > 0
      PROVE  Head(C) = HeadChar
  <2>1. 1 \in 1 .. n /\ 1 - 1 = 0 /\ Behind(page.r_idx, 0) = page.r_idx
    BY <1>1, <1>5, RingLemma
  <2>2. C[1] = page.buffer[page.r_idx]
    BY <1>2, <2>1 DEF Row
  <2>3. Head(C) = C[1]
    BY <1>4, <1>5, HeadTailProperties
  <2> QED
    BY <2>2, <2>3 DEF HeadChar
<1>6. C # <<>> <=> n > 0
  BY <1>1, <1>4, EmptySeq, LenProperties
<1> QED
  BY <1>2, <1>4, <1>5, <1>6 DEF C, n

\* A step that neither changes the page nor counts.
Quiet == UNCHANGED <<app, page, Inserted, Taken>>

\* Such a step keeps what is known of the page, and the contents.
LEMMA QuietLemma ==
  ASSUME PageInv, Quiet
  PROVE  PageInv' /\ UNCHANGED <<Contents, Filled>>
<1>1. Filled' = Filled /\ Room' = Room /\ IsBuffer' = IsBuffer
  BY DEF Quiet, Filled, Room, IsBuffer
<1>2. Contents' = Contents
  BY <1>1 DEF Quiet, Contents, Filled
<1>3. PageOK'
  BY <1>1 DEF PageInv, PageOK, Quiet
<1>4. BufferInv(Contents, Inserted, Taken)'
  BY <1>2 DEF PageInv, Quiet, BufferInv, BufferTypes, BalancedIn, InTurnIn, PastOrIn
<1> QED
  BY <1>1, <1>2, <1>3, <1>4 DEF PageInv

\* A character is written to a slot that holds none.
LEMMA WriteLemma ==
  ASSUME PageInv, Filled < BUFFER_SIZE, NEW v \in Int,
         page' = [page EXCEPT !.buffer[page.w_idx] = v],
         UNCHANGED <<app, Inserted, Taken>>
  PROVE  /\ PageInv' /\ UNCHANGED <<Contents, Filled>>
         /\ page'.buffer[page'.w_idx] = v
         /\ Filled > 0 => HeadChar' = HeadChar
<1> DEFINE r == page.r_idx
           w == page.w_idx
<1>1. PageOK /\ IsBuffer /\ BufferInv(Contents, Inserted, Taken)
  BY DEF PageInv
<1>2. /\ Filled \in 0 .. BUFFER_SIZE - 1 /\ r \in Slot /\ w \in Slot
      /\ page.buffer \in [Slot -> Int] /\ w = Behind(r, Filled)
  BY <1>1, RoomLemma DEF PageOK
<1>3. /\ page' \in [buffer : [Slot -> Int], w_idx : Slot, r_idx : Slot]
      /\ page'.w_idx = w /\ page'.r_idx = r /\ page'.buffer[w] = v
      /\ \A s \in Slot \ {w} : page'.buffer[s] = page.buffer[s]
  BY <1>1, <1>2 DEF PageOK
<1>4. \A n \in 0 .. Filled - 1 : page'.buffer[Behind(r, n)] = page.buffer[Behind(r, n)]
  <2> SUFFICES ASSUME NEW n \in 0 .. Filled - 1
               PROVE  Behind(r, n) \in Slot \ {w}
    BY <1>3
  <2>1. n \in 0 .. BUFFER_SIZE - 1 /\ n \in 0 .. BUFFER_SIZE /\ n # Filled
    BY <1>2, BufferAssumption
  <2>2. Behind(r, n) \in Slot
    BY <1>2, <2>1, RingLemma
  <2>3. Behind(r, n) # Behind(r, Filled)
    BY <1>2, <2>1, RingLemma
  <2> QED
    BY <1>2, <2>2, <2>3
<1>5. Filled' = Filled /\ Room' = Room /\ IsBuffer' = IsBuffer
  BY DEF Filled, Room, IsBuffer
<1>6. PageOK'
  BY <1>1, <1>3, <1>4, <1>5 DEF PageOK
<1>7. Contents' = Contents
  <2>1. Contents = Row(page, Filled)
    BY <1>1, ContentsLemma
  <2>2. Filled \in Nat /\ page'.r_idx \in Slot
    BY <1>2, <1>3
  <2>3. Contents' = Row(page', Filled)
    <3>1. Contents' = RawRow(page', Filled')
      BY <1>1, <1>5, Zenon DEF Contents, Filled, RawRow
    <3> QED
      BY <1>5, <2>2, <3>1, RowLemma
  <2>4. \A i \in 1 .. Filled : page'.buffer[Behind(r, i - 1)] = page.buffer[Behind(r, i - 1)]
    <3> SUFFICES ASSUME NEW i \in 1 .. Filled PROVE i - 1 \in 0 .. Filled - 1
      BY <1>4
    <3> QED
      BY <2>2
  <2> QED
    BY <1>3, <2>1, <2>3, <2>4 DEF Row
<1>8. BufferInv(Contents, Inserted, Taken)'
  BY <1>1, <1>7 DEF BufferInv, BufferTypes, BalancedIn, InTurnIn, PastOrIn
<1>9. Filled > 0 => HeadChar' = HeadChar
  <2> SUFFICES ASSUME Filled > 0 PROVE page'.buffer[r] = page.buffer[r]
    BY <1>3 DEF HeadChar
  <2>1. 0 \in 0 .. Filled - 1 /\ Behind(r, 0) = r
    BY <1>2, RingLemma, BufferAssumption
  <2> QED
    BY <1>4, <2>1
<1> QED
  BY <1>1, <1>3, <1>5, <1>6, <1>7, <1>8, <1>9 DEF PageInv

\* w_idx moves past the character that was written: that character is put.
LEMMA AdvanceLemma ==
  ASSUME PageInv, Filled < Room, NEW p \in Producer, Inserted[p] < ITEMS,
         page.buffer[page.w_idx] = Inserted[p],
         page' = [page EXCEPT !.w_idx = NextSlot(@)],
         Inserted' = [Inserted EXCEPT ![p] = @ + 1], UNCHANGED <<app, Taken>>
  PROVE  PageInv' /\ Filled' = Filled + 1 /\ HeadChar' = HeadChar /\ Bounded!Put(p)
<1> DEFINE r == page.r_idx
           n == Filled
           v == Inserted[p]
<1>1. PageOK /\ IsBuffer /\ BufferInv(Contents, Inserted, Taken)
  BY DEF PageInv
<1>2. /\ n \in Nat /\ n < Room /\ Room \in Nat /\ Room <= BUFFER_SIZE /\ BUFFER_SIZE \in Nat \ {0}
      /\ r \in Slot /\ page.w_idx \in Slot /\ page.buffer \in [Slot -> Int]
      /\ page.w_idx = Behind(r, n)
  BY <1>1, RoomLemma DEF PageOK
<1>3. /\ Inserted \in [Producer -> 0 .. ITEMS] /\ Taken \in [Consumer -> 0 .. ITEMS]
      /\ v \in 0 .. ITEMS - 1
  BY <1>1, BufferAssumption DEF BufferInv, BufferTypes
<1>4. Total(Inserted') = Total(Inserted) + 1
  BY <1>3, OneMoreLemma, BufferAssumption
<1>5. /\ Total(Inserted) \in Nat /\ Total(Taken) \in Nat
  BY <1>3, TotalLemma, BufferAssumption
<1>6. Filled' = n + 1 /\ Room' = Room /\ IsBuffer'
  <2>1. Total(Taken)' = Total(Taken)
    OBVIOUS
  <2> QED
    BY <1>1, <1>4, <1>5, <2>1 DEF Filled, Room, IsBuffer
<1>7. /\ page' \in [buffer : [Slot -> Int], w_idx : Slot, r_idx : Slot]
      /\ page'.w_idx = NextSlot(page.w_idx) /\ page'.r_idx = r /\ page'.buffer = page.buffer
  BY <1>1, <1>2, RingLemma DEF PageOK
<1> HIDE DEF r, n, v
<1>8. n \in 0 .. BUFFER_SIZE - 1
  BY <1>2
<1>9. page'.w_idx = Behind(r, n + 1)
  <2>1. NextSlot(Behind(r, n)) = Behind(r, n + 1)
    BY <1>2, <1>8, RingLemma
  <2> QED
    BY <1>2, <1>7, <2>1
<1>10. \A m \in 0 .. n : page.buffer[Behind(r, m)] \in 0 .. ITEMS - 1
  <2> SUFFICES ASSUME NEW m \in 0 .. n PROVE page.buffer[Behind(r, m)] \in 0 .. ITEMS - 1
    OBVIOUS
  <2>1. CASE m = n
    BY <1>2, <1>3, <2>1 DEF v
  <2>2. CASE m # n
    <3>1. m \in 0 .. n - 1
      BY <1>2, <2>2
    <3> QED
      BY <1>1, <3>1 DEF PageOK, n, r
  <2> QED
    BY <2>1, <2>2
<1>11. PageOK'
  <2>1. Filled' \in 0 .. Room' /\ Filled' - 1 = n
    BY <1>2, <1>6
  <2>2. page'.w_idx = Behind(page'.r_idx, Filled')
    BY <1>6, <1>7, <1>9
  <2>3. \A m \in 0 .. Filled' - 1 : page'.buffer[Behind(page'.r_idx, m)] \in 0 .. ITEMS - 1
    BY <1>7, <1>10, <2>1
  <2> QED
    BY <1>7, <2>1, <2>2, <2>3 DEF PageOK
<1>12. Contents' = Append(Contents, v)
  <2>1. Contents = Row(page, n) /\ Len(Contents) = n /\ Contents \in Seq(0 .. ITEMS - 1)
    BY <1>1, ContentsLemma DEF n
  <2>2. n + 1 \in Nat /\ page'.r_idx \in Slot
    BY <1>2, <1>7
  <2>3. Contents' = Row(page', n + 1)
    <3>1. Contents' = RawRow(page', Filled')
      BY <1>6, Zenon DEF Contents, Filled, RawRow
    <3> QED
      BY <1>6, <2>2, <3>1, RowLemma
  <2> DEFINE new == Row(page', n + 1)
             old == Row(page, n)
  <2>4. /\ old \in Seq(0 .. ITEMS - 1) /\ Len(old) = n
        /\ \A i \in 1 .. n : old[i] = page.buffer[Behind(r, i - 1)]
    BY <1>1, <1>2, RowTypeLemma DEF PageOK, n, r
  <2>5. /\ new \in Seq(0 .. ITEMS - 1) /\ Len(new) = n + 1
        /\ \A i \in 1 .. n + 1 : new[i] = page.buffer[Behind(r, i - 1)]
    <3>1. \A m \in 0 .. (n + 1) - 1 : page'.buffer[Behind(page'.r_idx, m)] \in 0 .. ITEMS - 1
      BY <1>2, <1>7, <1>10
    <3> QED
      BY <1>7, <2>2, <3>1, RowTypeLemma
  <2> HIDE DEF new, old
  <2>6. /\ Append(old, v) \in Seq(0 .. ITEMS - 1) /\ Len(Append(old, v)) = n + 1
        /\ Append(old, v)[n + 1] = v /\ \A i \in 1 .. n : Append(old, v)[i] = old[i]
    BY <1>3, <2>4
  <2>7. \A i \in 1 .. n + 1 : new[i] = Append(old, v)[i]
    <3> SUFFICES ASSUME NEW i \in 1 .. n + 1 PROVE new[i] = Append(old, v)[i]
      OBVIOUS
    <3>1. CASE i = n + 1
      <4>1. i - 1 = n
        BY <1>2, <3>1
      <4> QED
        BY <1>2, <2>5, <2>6, <3>1, <4>1 DEF v
    <3>2. CASE i # n + 1
      <4>1. i \in 1 .. n
        BY <1>2, <3>2
      <4> QED
        BY <2>4, <2>5, <2>6, <4>1
    <3> QED
      BY <3>1, <3>2
  <2>8. new = Append(old, v)
    BY <2>5, <2>6, <2>7, SeqEqual
  <2> QED
    BY <2>1, <2>3, <2>8 DEF new, old
<1>13. BufferInv(Contents', Inserted', Taken')
  <2>1. BufferInv(Append(Contents, v), Inserted', Taken)
    BY <1>1, PutLemma DEF v
  <2> QED
    BY <1>12, <2>1
<1>14. HeadChar' = HeadChar
  BY <1>7 DEF HeadChar, r
<1>15. Bounded!Put(p)
  <2>1. Len(Contents) = n /\ n < BUFFER_SIZE
    BY <1>1, <1>2, ContentsLemma DEF n
  <2> QED
    BY <1>12, <2>1 DEF Bounded!Put, v
<1>16. BufferInv(Contents, Inserted, Taken)'
  BY <1>13
<1> QED
  BY <1>6, <1>11, <1>14, <1>15, <1>16 DEF PageInv, n

\* r_idx moves past the head: the head is got by a consumer that expects it.
LEMMA TakeLemma ==
  ASSUME PageInv, Filled > 0, NEW c \in Consumer, HeadChar = Taken[c],
         page' = [page EXCEPT !.r_idx = NextSlot(@)],
         Taken' = [Taken EXCEPT ![c] = @ + 1], UNCHANGED <<app, Inserted>>
  PROVE  PageInv' /\ Filled' = Filled - 1 /\ Bounded!Get(c)
<1> DEFINE r == page.r_idx
           n == Filled
           v == Taken[c]
<1>1. PageOK /\ IsBuffer /\ BufferInv(Contents, Inserted, Taken)
  BY DEF PageInv
<1>2. /\ n \in Nat /\ n > 0 /\ n <= Room /\ Room \in Nat /\ Room <= BUFFER_SIZE
      /\ BUFFER_SIZE \in Nat \ {0}
      /\ r \in Slot /\ page.w_idx \in Slot /\ page.buffer \in [Slot -> Int]
      /\ page.w_idx = Behind(r, n)
  BY <1>1, RoomLemma DEF PageOK
<1>3. /\ Contents = Row(page, n) /\ Contents \in Seq(0 .. ITEMS - 1) /\ Len(Contents) = n
      /\ Contents # <<>> /\ Head(Contents) = v
  BY <1>1, ContentsLemma
<1>4. /\ Inserted \in [Producer -> 0 .. ITEMS] /\ Taken \in [Consumer -> 0 .. ITEMS]
      /\ v \in 0 .. ITEMS - 1 /\ v < ITEMS
  BY <1>1, <1>3, TailLemma, BufferAssumption DEF BufferInv, BufferTypes
<1>5. Total(Taken') = Total(Taken) + 1
  BY <1>4, OneMoreLemma, BufferAssumption
<1>6. Total(Inserted) \in Nat /\ Total(Taken) \in Nat
  BY <1>4, TotalLemma, BufferAssumption
<1>7. Filled' = n - 1 /\ Room' = Room /\ IsBuffer'
  <2>1. Total(Inserted)' = Total(Inserted)
    OBVIOUS
  <2> QED
    BY <1>1, <1>5, <1>6, <2>1 DEF Filled, Room, IsBuffer
<1>8. /\ page' \in [buffer : [Slot -> Int], w_idx : Slot, r_idx : Slot]
      /\ page'.w_idx = page.w_idx /\ page'.r_idx = NextSlot(r) /\ page'.buffer = page.buffer
      /\ page'.r_idx \in Slot
  BY <1>1, <1>2, RingLemma DEF PageOK
<1> HIDE DEF r, n, v
<1>9. \A m \in 0 .. n - 1 : Behind(page'.r_idx, m) = Behind(r, m + 1)
  <2> SUFFICES ASSUME NEW m \in 0 .. n - 1 PROVE Behind(NextSlot(r), m) = Behind(r, m + 1)
    BY <1>8
  <2>1. m \in 0 .. BUFFER_SIZE - 1
    BY <1>2
  <2> QED
    BY <1>2, <2>1, RingLemma
<1>10. \A m \in 0 .. n - 1 : page.buffer[Behind(r, m)] \in 0 .. ITEMS - 1
  BY <1>1 DEF PageOK, n, r
<1>11. \A m \in 0 .. (n - 1) - 1 : page'.buffer[Behind(page'.r_idx, m)] \in 0 .. ITEMS - 1
  <2> SUFFICES ASSUME NEW m \in 0 .. (n - 1) - 1
               PROVE  m \in 0 .. n - 1 /\ m + 1 \in 0 .. n - 1
    BY <1>8, <1>9, <1>10
  <2> QED
    BY <1>2
<1>12. PageOK'
  <2>1. Filled' \in 0 .. Room'
    BY <1>2, <1>7
  <2>2. page'.w_idx = Behind(page'.r_idx, Filled')
    <3>1. n - 1 \in 0 .. n - 1 /\ (n - 1) + 1 = n
      BY <1>2
    <3> QED
      BY <1>2, <1>7, <1>8, <1>9, <3>1
  <2> QED
    BY <1>7, <1>8, <1>11, <2>1, <2>2 DEF PageOK
<1>13. Contents' = Tail(Contents)
  <2> DEFINE new == Row(page', n - 1)
  <2>1. n - 1 \in Nat
    BY <1>2
  <2>2. Contents' = new
    <3>1. Contents' = RawRow(page', Filled')
      BY <1>7, Zenon DEF Contents, Filled, RawRow
    <3> QED
      BY <1>7, <1>8, <2>1, <3>1, RowLemma
  <2>3. /\ new \in Seq(0 .. ITEMS - 1) /\ Len(new) = n - 1
        /\ \A i \in 1 .. n - 1 : new[i] = page'.buffer[Behind(page'.r_idx, i - 1)]
    BY <1>11, <2>1, RowTypeLemma
  <2>4. \A i \in 1 .. n : Contents[i] = page.buffer[Behind(r, i - 1)]
    BY <1>2, <1>3, <1>10, RowTypeLemma DEF r
  <2> HIDE DEF new
  <2>5. /\ Tail(Contents) \in Seq(0 .. ITEMS - 1) /\ Len(Tail(Contents)) = n - 1
        /\ \A i \in 1 .. n - 1 : Tail(Contents)[i] = Contents[i + 1]
    BY <1>2, <1>3
  <2>6. \A i \in 1 .. n - 1 : new[i] = Tail(Contents)[i]
    <3> SUFFICES ASSUME NEW i \in 1 .. n - 1 PROVE new[i] = Tail(Contents)[i]
      OBVIOUS
    <3>1. i - 1 \in 0 .. n - 1 /\ i + 1 \in 1 .. n /\ (i - 1) + 1 = i /\ (i + 1) - 1 = i
      BY <1>2
    <3>2. new[i] = page.buffer[Behind(r, i)]
      BY <1>8, <1>9, <2>3, <3>1
    <3>3. Tail(Contents)[i] = page.buffer[Behind(r, i)]
      BY <2>4, <2>5, <3>1
    <3> QED
      BY <3>2, <3>3
  <2>7. new = Tail(Contents)
    BY <2>3, <2>5, <2>6, SeqEqual
  <2> QED
    BY <2>2, <2>7
<1>14. BufferInv(Contents', Inserted', Taken')
  <2>1. BufferInv(Tail(Contents), Inserted, Taken')
    BY <1>1, <1>3, GetLemma DEF v
  <2> QED
    BY <1>13, <2>1
<1>15. Bounded!Get(c)
  BY <1>3, <1>13 DEF Bounded!Get, v
<1>16. BufferInv(Contents, Inserted, Taken)'
  BY <1>14
<1> QED
  BY <1>7, <1>12, <1>15, <1>16 DEF PageInv, n

-----------------------------------------------------------------------------
(* What the processes know *)

\* What p has found out when it is at a place, of what its next step needs: by
\* a test, or from the process that signalled its condition.
KnowsAt(p, at) ==
  /\ at \in {"insert", "advance"} /\ app # "q3" => Filled < Room
  /\ at = "advance" => page.buffer[page.w_idx] = Item(p)
  /\ at \in {"wait", "take"} => HeadChar = Item(p)
  /\ at = "look" => Filled > 0
  /\ at = "take" /\ app # "q3" => Filled > 0
  /\ at = "signal" /\ app = "q4" => IF p \in Producer THEN Filled > 0 ELSE Filled < Room

Knows(p) == KnowsAt(p, pc[p])

\* A process that waits for a condition knows nothing.
TestsHold == \A p \in BufferProcess : OnCond(p) \/ Knows(p)

\* Where a process may wait for the lock, and knows nothing of the buffer.
Unsure == {"test", "release"} \union (IF app = "q3" THEN {"insert"} ELSE {})

LockWaiters == \A p \in BufferProcess : OnLock(p) => pc[p] \in Unsure

CondWaiters ==
  app = "q4" =>
    /\ \A p \in InQueue(conds["not_full"].waiting) : p \in Producer /\ pc[p] = "insert"
    /\ \A p \in InQueue(conds["not_empty"].waiting) : p \in Consumer /\ pc[p] = "look"

TestsInv == TestsHold /\ LockWaiters /\ CondWaiters

\* There is nothing to know where the lock is not needed, or waited for.
LEMMA UnsureLemma ==
  ASSUME NEW p
  PROVE  /\ pc[p] \notin Guarded \/ pc[p] \in Unsure => Knows(p)
         /\ pc'[p] \notin Guarded' \/ pc'[p] \in Unsure' => Knows(p)'
<1>1. \A at : at \notin Guarded \/ at \in Unsure => KnowsAt(p, at)
  BY DEF Guarded, Critical, Unsure, KnowsAt
<1>2. \A at : at \notin Guarded' \/ at \in Unsure' => KnowsAt(p, at)'
  BY DEF Guarded, Critical, Unsure, KnowsAt
<1> QED
  BY <1>1, <1>2 DEF Knows

\* The others keep their place and their counter when p has made a step.
Alone(p) ==
  \A q \in BufferProcess \ {p} : pc'[q] = pc[q] /\ counter'[q] = counter[q]

\* While the buffer stays as it is they know what they knew.
LEMMA KeepLemma ==
  ASSUME NEW p, Alone(p), UNCHANGED <<app, page, Filled>>
  PROVE  \A q \in BufferProcess \ {p} : Knows(q) => Knows(q)'
<1> SUFFICES ASSUME NEW q \in BufferProcess \ {p}, Knows(q) PROVE Knows(q)'
  OBVIOUS
<1>1. pc'[q] = pc[q] /\ Item(q)' = Item(q) /\ HeadChar' = HeadChar /\ Room' = Room
  BY DEF Alone, Item, HeadChar, Room
<1> QED
  BY <1>1, Zenon DEF Knows, KnowsAt

\* Who waits for the lock after a step of p.
LEMMA LockWaitersLemma ==
  ASSUME TestsInv, NEW p, NEW to, Alone(p), pc'[p] = to, app' = app,
         \A q \in BufferProcess \ {p} : OnLock(q)' => OnLock(q),
         OnLock(p)' => to \in Unsure
  PROVE  LockWaiters'
<1>1. Unsure' = Unsure
  BY DEF Unsure
<1> QED
  BY <1>1 DEF TestsInv, LockWaiters, Alone

\* Where a process waits for which condition.
WaitsWell(p, c, at) ==
  \/ c = "not_full" /\ p \in Producer /\ at = "insert"
  \/ c = "not_empty" /\ p \in Consumer /\ at = "look"

\* Who waits for a condition after a step of p.
LEMMA CondWaitersLemma ==
  ASSUME TestsInv, CondsExist, NEW p, NEW to, Alone(p), pc'[p] = to, app' = app, ~OnCond(p),
         \A c \in DOMAIN conds : \A q \in InQueue(conds'[c].waiting) :
           q \in InQueue(conds[c].waiting) \/ (q = p /\ WaitsWell(p, c, to))
  PROVE  CondWaiters'
<1> SUFFICES ASSUME app = "q4"
             PROVE  /\ \A q \in InQueue(conds'["not_full"].waiting) :
                         q \in Producer /\ pc'[q] = "insert"
                    /\ \A q \in InQueue(conds'["not_empty"].waiting) :
                         q \in Consumer /\ pc'[q] = "look"
  BY DEF CondWaiters
<1>1. DOMAIN conds = {"not_full", "not_empty"}
  BY DEF CondsExist
<1>2. ASSUME NEW c \in DOMAIN conds, NEW q \in InQueue(conds'[c].waiting)
      PROVE  WaitsWell(q, c, pc'[q])
  <2>1. CASE q \in InQueue(conds[c].waiting)
    <3>1. WaitsWell(q, c, pc[q]) /\ q \in BufferProcess
      BY <1>1, <2>1 DEF TestsInv, CondWaiters, WaitsWell, BufferProcess
    <3>2. q # p
      BY <2>1 DEF OnCond
    <3> QED
      BY <3>1, <3>2 DEF Alone
  <2>2. CASE q \notin InQueue(conds[c].waiting)
    <3>1. q = p /\ WaitsWell(p, c, to)
      BY <2>2
    <3> QED
      BY <3>1
  <2> QED
    BY <2>1, <2>2
<1> QED
  BY <1>1, <1>2 DEF WaitsWell

\* A step of p that leaves the buffer, the lock and the conditions alone.
LEMMA StaysKnownLemma ==
  ASSUME TestsInv, CondsExist, NEW p, NEW from, NEW to, Moves(p, from, to), Alone(p),
         pc'[p] = to, UNCHANGED <<page, Filled, locks, conds>>, Knows(p)'
  PROVE  TestsInv'
<1>1. app' = app /\ ~OnCond(p) /\ ~OnLock(p) /\ p \in BufferProcess
  BY DEF Moves
<1>2. \A q : OnCond(q)' = OnCond(q) /\ OnLock(q)' = OnLock(q)
  BY DEF OnCond, OnLock
<1>3. TestsHold'
  BY <1>1, <1>2, KeepLemma DEF TestsInv, TestsHold
<1>4. LockWaiters'
  BY <1>1, <1>2, LockWaitersLemma
<1>5. CondWaiters'
  BY <1>1, CondWaitersLemma
<1> QED
  BY <1>3, <1>4, <1>5 DEF TestsInv

\* lock_acquire.
LEMMA AcquireKnownLemma ==
  ASSUME BufferTypeOK, TestsInv, CondsExist,
         NEW p, NEW from, NEW to, Moves(p, from, to), Alone(p), pc'[p] = to,
         UNCHANGED <<page, Filled>>, Acquire(p, "lock"), to \in Unsure
  PROVE  TestsInv'
<1>1. app' = app /\ ~OnCond(p) /\ p \in BufferProcess /\ conds' = conds
  BY DEF Moves, Acquire
<1>2. \A q : OnCond(q)' = OnCond(q)
  BY <1>1 DEF OnCond
<1>3. \A q : OnLock(q)' => OnLock(q) \/ q = p
  <2> DEFINE w == locks["lock"].waiting
  <2>1. w \in Seq(BufferProcess) /\ locks \in LocksType
    BY DEF BufferTypeOK, LocksType
  <2>2. InQueue(Append(w, p)) = InQueue(w) \union {p}
    BY <1>1, <2>1, AppendLemma
  <2>3. locks'["lock"].waiting \in {w, Append(w, p)}
    BY <2>1 DEF Acquire, LocksType
  <2> QED
    BY <2>2, <2>3 DEF OnLock
<1>4. Knows(p)'
  <2>1. Unsure' = Unsure
    BY <1>1 DEF Unsure
  <2> QED
    BY <2>1, UnsureLemma
<1>5. TestsHold'
  BY <1>1, <1>2, <1>4, KeepLemma DEF TestsInv, TestsHold
<1>6. LockWaiters'
  BY <1>1, <1>3, LockWaitersLemma
<1>7. CondWaiters'
  BY <1>1, CondWaitersLemma
<1> QED
  BY <1>5, <1>6, <1>7 DEF TestsInv

\* Nobody waits for the lock that did not before it was passed on.
LEMMA PassedOnToLemma ==
  ASSUME locks \in LocksType, locks' = PassedOn("lock")
  PROVE  \A q : OnLock(q)' => OnLock(q)
<1> DEFINE w == locks["lock"].waiting
<1>1. w \in Seq(BufferProcess)
  BY DEF LocksType
<1>2. CASE w = <<>>
  <2>1. locks'["lock"].waiting = w
    BY <1>2 DEF PassedOn, LocksType
  <2> QED
    BY <2>1 DEF OnLock
<1>3. CASE w # <<>>
  <2>1. InQueue(Tail(w)) \subseteq InQueue(w)
    BY <1>1, <1>3, TailLemma
  <2>2. locks' = [locks EXCEPT !["lock"] = [owner |-> Head(w), waiting |-> Tail(w)]]
    BY <1>3 DEF PassedOn
  <2>3. PICK h, t : h = Head(w) /\ t = Tail(w)
    OBVIOUS
  <2>4. locks' = [locks EXCEPT !["lock"] = [owner |-> h, waiting |-> t]]
    BY <2>2, <2>3
  <2> HIDE DEF w
  <2>5. locks'["lock"].waiting = t
    BY <2>4 DEF LocksType
  <2> QED
    BY <2>1, <2>3, <2>5 DEF OnLock, w
<1> QED
  BY <1>2, <1>3

\* lock_release.
LEMMA ReleaseKnownLemma ==
  ASSUME BufferTypeOK, TestsInv, CondsExist,
         NEW p, NEW from, NEW to, Moves(p, from, to), Alone(p), pc'[p] = to,
         UNCHANGED <<page, Filled>>, Release(p, "lock"), to \notin Guarded
  PROVE  TestsInv'
<1>1. app' = app /\ ~OnCond(p) /\ ~OnLock(p) /\ p \in BufferProcess /\ conds' = conds
  BY DEF Moves, Release
<1>2. \A q : OnCond(q)' = OnCond(q)
  BY <1>1 DEF OnCond
<1>3. \A q : OnLock(q)' => OnLock(q)
  <2>1. CASE locks' = PassedOn("lock")
    BY <2>1, PassedOnToLemma DEF BufferTypeOK
  <2>2. CASE UNCHANGED locks
    BY <2>2 DEF OnLock
  <2> QED
    BY <2>1, <2>2 DEF Release
<1>4. Knows(p)'
  <2>1. Guarded' = Guarded
    BY <1>1 DEF Guarded
  <2> QED
    BY <2>1, UnsureLemma
<1>5. TestsHold'
  BY <1>1, <1>2, <1>4, KeepLemma DEF TestsInv, TestsHold
<1>6. LockWaiters'
  BY <1>1, <1>3, LockWaitersLemma
<1>7. CondWaiters'
  BY <1>1, CondWaitersLemma
<1> QED
  BY <1>5, <1>6, <1>7 DEF TestsInv

\* cond_wait, by a process that finds out what it waits for.
LEMMA CondWaitKnownLemma ==
  ASSUME BufferTypeOK, HasLock, TestsInv, CondsExist,
         NEW p, NEW from \in Guarded, NEW to, Moves(p, from, to), Alone(p), pc'[p] = to,
         UNCHANGED <<page, Filled>>,
         NEW c \in DOMAIN conds, CondWait(p, c), WaitsWell(p, c, to)
  PROVE  TestsInv'
<1> DEFINE w == conds[c].waiting
<1>1. /\ app' = app /\ ~OnCond(p) /\ ~OnLock(p) /\ p \in BufferProcess
      /\ locks \in LocksType /\ conds \in CondsType /\ conds[c].lock = "lock"
      /\ w \in Seq(BufferProcess)
  BY DEF Moves, BufferTypeOK, CondsType
<1>2. locks["lock"].owner = p
  BY <1>1 DEF HasLock, Moves
<1>3. locks' = PassedOn("lock") /\ conds' = [conds EXCEPT ![c].waiting = Append(@, p)]
  BY <1>1, <1>2 DEF CondWait
<1>4. InQueue(Append(w, p)) = InQueue(w) \union {p}
  BY <1>1, AppendLemma
<1>5. /\ DOMAIN conds' = DOMAIN conds /\ conds'[c].waiting = Append(w, p)
      /\ \A x \in DOMAIN conds \ {c} : conds'[x] = conds[x]
  BY <1>1, <1>3 DEF CondsType
<1>6. OnCond(p)' /\ \A q : OnCond(q) => OnCond(q)'
  BY <1>4, <1>5 DEF OnCond
<1>7. TestsHold'
  BY <1>1, <1>6, KeepLemma DEF TestsInv, TestsHold
<1>8. LockWaiters'
  BY <1>1, <1>3, PassedOnToLemma, LockWaitersLemma
<1>9. \A x \in DOMAIN conds : \A q \in InQueue(conds'[x].waiting) :
        q \in InQueue(conds[x].waiting) \/ (q = p /\ WaitsWell(p, x, to))
  BY <1>4, <1>5
<1>10. CondWaiters'
  BY <1>1, <1>9, CondWaitersLemma
<1> QED
  BY <1>7, <1>8, <1>10 DEF TestsInv

\* cond_signal: the process that is woken finds what it waited for, since the
\* lock goes from the one that signals to it and to nobody in between.
LEMMA CondSignalKnownLemma ==
  ASSUME BufferTypeOK, HasLock, TestsInv, CondsExist, app = "q4",
         NEW p, Moves(p, "signal", "release"), Alone(p), pc'[p] = "release",
         UNCHANGED <<page, Filled>>,
         NEW c \in DOMAIN conds, CondSignal(p, c),
         \/ c = "not_empty" /\ p \in Producer
         \/ c = "not_full" /\ p \in Consumer
  PROVE  TestsInv'
<1> DEFINE w == conds[c].waiting
           v == locks["lock"].waiting
<1>1. /\ app' = app /\ ~OnCond(p) /\ ~OnLock(p) /\ p \in BufferProcess
      /\ locks \in LocksType /\ conds \in CondsType /\ conds[c].lock = "lock"
      /\ w \in Seq(BufferProcess) /\ v \in Seq(BufferProcess)
      /\ "signal" \in Guarded /\ "release" \in Unsure /\ pc[p] = "signal"
  BY DEF Moves, BufferTypeOK, CondsType, LocksType, Guarded, Unsure
<1>2. locks["lock"].owner = p
  BY <1>1 DEF HasLock
<1>3. Knows(p)'
  BY <1>1, UnsureLemma DEF Unsure
<1>4. CASE UNCHANGED <<locks, conds>>
  BY <1>3, <1>4, StaysKnownLemma
<1>5. CASE /\ w # <<>>
           /\ conds' = [conds EXCEPT ![c].waiting = Tail(@)]
           /\ locks' = [locks EXCEPT !["lock"] = [owner |-> Head(w), waiting |-> Append(v, p)]]
  <2>1. InQueue(w) = InQueue(Tail(w)) \union {Head(w)} /\ Head(w) \in InQueue(w)
    BY <1>1, <1>5, TailLemma
  <2>2. InQueue(Append(v, p)) = InQueue(v) \union {p}
    BY <1>1, AppendLemma
  <2>3. /\ DOMAIN conds' = DOMAIN conds /\ conds'[c].waiting = Tail(w)
        /\ \A x \in DOMAIN conds \ {c} : conds'[x] = conds[x]
    BY <1>1, <1>5 DEF CondsType
  <2>4. PICK h, t : h = Head(w) /\ t = Append(v, p)
    OBVIOUS
  <2>5. locks' = [locks EXCEPT !["lock"] = [owner |-> h, waiting |-> t]]
    BY <1>5, <2>4
  <2> HIDE DEF v, w
  <2>6. locks'["lock"].waiting = t
    BY <1>1, <2>5 DEF LocksType
  <2>7. \A q : OnLock(q)' => OnLock(q) \/ q = p
    BY <2>2, <2>4, <2>6 DEF OnLock, v
  <2>8. \A q : OnCond(q) => OnCond(q)' \/ q = h
    BY <2>1, <2>3, <2>4 DEF OnCond, w
  <2>9. h \in BufferProcess \ {p} /\ Knows(h)
    <3>1. h \in InQueue(conds[c].waiting)
      BY <2>1, <2>4 DEF w
    <3>2. h # p
      BY <1>1, <3>1 DEF OnCond
    <3>3. Knows(p)
      BY <1>1 DEF TestsInv, TestsHold
    <3>4. CASE c = "not_empty" /\ p \in Producer
      <4>1. h \in Consumer /\ pc[h] = "look" /\ Filled > 0
        BY <1>1, <3>1, <3>3, <3>4 DEF TestsInv, CondWaiters, Knows, KnowsAt
      <4> QED
        BY <3>2, <4>1 DEF Knows, KnowsAt, BufferProcess
    <3>5. CASE c = "not_full" /\ p \in Consumer
      <4>1. p \notin Producer
        BY <3>5, BufferAssumption
      <4>2. h \in Producer /\ pc[h] = "insert" /\ Filled < Room
        BY <1>1, <3>1, <3>3, <3>5, <4>1 DEF TestsInv, CondWaiters, Knows, KnowsAt
      <4> QED
        BY <3>2, <4>2 DEF Knows, KnowsAt, BufferProcess
    <3> QED
      BY <3>4, <3>5
  <2>10. TestsHold'
    BY <1>1, <1>3, <2>8, <2>9, KeepLemma DEF TestsInv, TestsHold
  <2>11. LockWaiters'
    BY <1>1, <2>7, LockWaitersLemma
  <2>12. \A x \in DOMAIN conds : \A q \in InQueue(conds'[x].waiting) :
           q \in InQueue(conds[x].waiting)
    BY <2>1, <2>3 DEF w
  <2>13. CondWaiters'
    BY <1>1, <2>12, CondWaitersLemma
  <2> QED
    BY <2>10, <2>11, <2>13 DEF TestsInv
<1> QED
  BY <1>1, <1>2, <1>4, <1>5 DEF CondSignal

\* A step of p on the buffer: whoever knows something of the buffer has the
\* lock, or waits for it where it knows nothing any more.
LEMMA BufferKnownLemma ==
  ASSUME BufferTypeOK, HasLock, TestsInv, CondsExist,
         NEW p, NEW from \in Guarded, NEW to, Moves(p, from, to), Alone(p), pc'[p] = to,
         UNCHANGED <<locks, conds>>, Knows(p)'
  PROVE  TestsInv'
<1>1. app' = app /\ ~OnCond(p) /\ ~OnLock(p) /\ p \in BufferProcess
  BY DEF Moves
<1>2. \A q : OnCond(q)' = OnCond(q) /\ OnLock(q)' = OnLock(q)
  BY DEF OnCond, OnLock
<1>3. locks["lock"].owner = p
  BY <1>1 DEF HasLock, Moves
<1>4. ASSUME NEW q \in BufferProcess \ {p}, ~OnCond(q)
      PROVE  Knows(q)'
  <2>1. pc'[q] = pc[q] /\ Guarded' = Guarded /\ Unsure' = Unsure
    BY <1>1 DEF Alone, Guarded, Unsure
  <2>2. pc[q] \notin Guarded \/ pc[q] \in Unsure
    BY <1>3, <1>4 DEF HasLock, TestsInv, LockWaiters
  <2> QED
    BY <2>1, <2>2, UnsureLemma
<1>5. TestsHold'
  BY <1>1, <1>2, <1>4 DEF TestsInv, TestsHold
<1>6. LockWaiters'
  BY <1>1, <1>2, LockWaitersLemma
<1>7. CondWaiters'
  BY <1>1, CondWaitersLemma
<1> QED
  BY <1>5, <1>6, <1>7 DEF TestsInv

-----------------------------------------------------------------------------
(* Whose character a step moves *)

\* The places of HasMoved.
PastPlaces(p) ==
  CASE app = "q2" -> {"release"}
    [] app = "q3" -> {"release", "signal"}
    [] app = "q4" -> {"signal"} \union (IF p \in Producer THEN {"release"} ELSE {})
    [] OTHER -> {}

Past(p, at) == IF at \in PastPlaces(p) THEN 1 ELSE 0

\* What a step that counts n characters adds to those that p has moved.
Net(p, from, to, n) == n + Past(p, to) - Past(p, from)

\* The characters that p has moved are those counted and one at such a place.
LEMMA PastLemma ==
  ASSUME IsBuffer, NEW p, app' = app
  PROVE  /\ Moved(p) = counter[p] + Past(p, pc[p])
         /\ Moved(p)' = counter'[p] + Past(p, pc'[p])
<1>1. HasMoved(p) <=> pc[p] \in PastPlaces(p)
  BY DEF HasMoved, PastPlaces
<1>2. HasMoved(p)' <=> pc'[p] \in PastPlaces(p)
  BY DEF HasMoved, PastPlaces
<1>3. IsBuffer'
  BY DEF IsBuffer
<1> QED
  BY <1>1, <1>2, <1>3 DEF Moved, Past

\* A step of p with its counter.
Turn(p, from, to, n) ==
  /\ Moves(p, from, to)
  /\ counter' = [counter EXCEPT ![p] = @ + n] \/ (n = 0 /\ counter' = counter)

\* It is a step of p alone, also in what was moved.
LEMMA TurnLemma ==
  ASSUME IsBuffer, BufferTypeOK, ReturnInv,
         NEW p, NEW from, NEW to, NEW n \in {0, 1}, Turn(p, from, to, n)
  PROVE  /\ p \in BufferProcess /\ pc[p] = from /\ pc'[p] = to /\ app' = app /\ Alone(p)
         /\ counter[p] \in 0 .. ITEMS /\ counter'[p] = counter[p] + n
         /\ \A q \in BufferProcess \ {p} : Moved(q)' = Moved(q)
         /\ Moved(p)' = Moved(p) + Net(p, from, to, n)
<1>1. /\ p \in BufferProcess /\ pc[p] = from /\ app' = app
      /\ pc' = [pc EXCEPT ![p] = to] /\ DOMAIN pc = BufferProcess \union {makeprocs}
  BY DEF Turn, Moves, BufferTypeOK
<1>2. DOMAIN counter = BufferProcess /\ \A q \in BufferProcess : counter[q] \in 0 .. ITEMS
  BY DEF ReturnInv, KnownChildren, RoundsCounted, RoundOK
<1>3. counter' = [counter EXCEPT ![p] = @ + n] \/ (n = 0 /\ counter' = counter)
  BY DEF Turn
<1>4. counter'[p] = counter[p] + n /\ \A q \in BufferProcess \ {p} : counter'[q] = counter[q]
  BY <1>1, <1>2, <1>3
<1>5. pc'[p] = to /\ \A q \in BufferProcess \ {p} : pc'[q] = pc[q]
  BY <1>1
<1>6. \A q \in BufferProcess \ {p} : Moved(q)' = Moved(q)
  BY <1>1, <1>4, <1>5, PastLemma
<1>7. Moved(p)' = Moved(p) + Net(p, from, to, n)
  <2>1. Moved(p) = counter[p] + Past(p, from) /\ Moved(p)' = counter'[p] + Past(p, to)
    BY <1>1, <1>5, PastLemma
  <2>2. Past(p, from) \in Int /\ Past(p, to) \in Int
    BY DEF Past
  <2> QED
    BY <1>1, <1>2, <1>4, <2>1, <2>2 DEF Net
<1> QED
  BY <1>1, <1>2, <1>4, <1>5, <1>6, <1>7 DEF Alone

\* A step that moves nothing, and one that moves a character.
LEMMA NetLemma ==
  ASSUME IsBuffer, BufferTypeOK, ReturnInv,
         NEW p, NEW from, NEW to, NEW n \in {0, 1}, Turn(p, from, to, n)
  PROVE  /\ Net(p, from, to, n) = 0 => UNCHANGED <<Inserted, Taken>>
         /\ Net(p, from, to, n) = 1 /\ p \in Producer =>
              Inserted' = [Inserted EXCEPT ![p] = @ + 1] /\ UNCHANGED Taken
         /\ Net(p, from, to, n) = 1 /\ p \in Consumer =>
              Taken' = [Taken EXCEPT ![p] = @ + 1] /\ UNCHANGED Inserted
<1> DEFINE d == Net(p, from, to, n)
<1>1. /\ \A q \in BufferProcess \ {p} : Moved(q)' = Moved(q)
      /\ Moved(p)' = Moved(p) + d /\ counter[p] \in 0 .. ITEMS /\ pc[p] = from /\ app' = app
  BY TurnLemma
<1>2. Moved(p) \in Int
  BY <1>1, PastLemma DEF Past
<1> HIDE DEF d
<1>3. Producer \subseteq BufferProcess /\ Consumer \subseteq BufferProcess
  BY DEF BufferProcess
<1>4. /\ Inserted = [q \in Producer |-> Moved(q)] /\ Inserted' = [q \in Producer |-> Moved(q)']
      /\ Taken = [q \in Consumer |-> Moved(q)] /\ Taken' = [q \in Consumer |-> Moved(q)']
  BY DEF Inserted, Taken
<1>5. ASSUME d = 0
      PROVE  UNCHANGED <<Inserted, Taken>>
  <2>1. \A q \in BufferProcess : Moved(q)' = Moved(q)
    BY <1>1, <1>2, <1>5
  <2> QED
    BY <1>3, <1>4, <2>1
<1>6. ASSUME d = 1, NEW S, p \in S, S \subseteq BufferProcess
      PROVE  [q \in S |-> Moved(q)'] = [[q \in S |-> Moved(q)] EXCEPT ![p] = @ + 1]
  BY <1>1, <1>6
<1>7. ASSUME NEW S, p \notin S, S \subseteq BufferProcess
      PROVE  [q \in S |-> Moved(q)'] = [q \in S |-> Moved(q)]
  BY <1>1, <1>7
<1>8. ASSUME d = 1, p \in Producer
      PROVE  Inserted' = [Inserted EXCEPT ![p] = @ + 1] /\ UNCHANGED Taken
  BY <1>3, <1>4, <1>6, <1>7, <1>8, BufferAssumption
<1>9. ASSUME d = 1, p \in Consumer
      PROVE  Taken' = [Taken EXCEPT ![p] = @ + 1] /\ UNCHANGED Inserted
  BY <1>3, <1>4, <1>6, <1>7, <1>9, BufferAssumption
<1> QED
  BY <1>5, <1>8, <1>9 DEF d

-----------------------------------------------------------------------------
(* The operations on the buffer *)

\* What q2, q3 and q4 have in common.
Core == StrongInv /\ ReturnInv /\ PageInv /\ TestsInv

\* The parts of it.
LEMMA CoreLemma ==
  ASSUME Core
  PROVE  /\ IsBuffer /\ BufferTypeOK /\ HasLock /\ CondsExist
         /\ ReturnInv /\ SignalsCounted /\ RoundsCounted /\ Children = BufferProcess
         /\ PageInv /\ PageOK /\ TestsInv
BY DEF Core, StrongInv, IInv, ReturnInv, KnownChildren, PageInv

\* What a step does to the bounded buffer that a program is to be.
Simulates ==
  \/ UNCHANGED <<Contents, Inserted, Taken>>
  \/ \E p \in Producer : Bounded!Put(p)
  \/ \E c \in Consumer : Bounded!Get(c)

Good == PageInv' /\ TestsInv' /\ Simulates

\* A process that makes a step waits for no condition, and so knows what it
\* has found out.
LEMMA ActorLemma ==
  ASSUME Core, NEW p, NEW from, NEW to, NEW n \in {0, 1}, Turn(p, from, to, n)
  PROVE  /\ p \in BufferProcess /\ pc[p] = from /\ KnowsAt(p, from) /\ Item(p) \in 0 .. ITEMS
         /\ from \notin Idle(p) => Item(p) < ITEMS
         /\ Moved(p) = Item(p) + Past(p, from)
<1>1. IsBuffer /\ BufferTypeOK /\ ReturnInv /\ RoundsCounted /\ Children = BufferProcess /\ TestsInv
  BY CoreLemma
<1>2. p \in BufferProcess /\ pc[p] = from /\ counter[p] \in 0 .. ITEMS /\ app' = app
  BY <1>1, TurnLemma
<1>3. ~OnCond(p)
  BY DEF Turn, Moves
<1>4. KnowsAt(p, from)
  BY <1>1, <1>2, <1>3 DEF TestsInv, TestsHold, Knows
<1>5. from \notin Idle(p) => counter[p] < ITEMS
  BY <1>1, <1>2 DEF RoundsCounted, RoundOK, HasMore
<1>6. Moved(p) = counter[p] + Past(p, from)
  BY <1>1, <1>2, PastLemma
<1> QED
  BY <1>2, <1>4, <1>5, <1>6 DEF Item

\* A step that moves no character and leaves the page alone.
LEMMA QuietTurnLemma ==
  ASSUME Core, NEW p, NEW from, NEW to, NEW n \in {0, 1}, Turn(p, from, to, n),
         Net(p, from, to, n) = 0, page' = page
  PROVE  PageInv' /\ Simulates /\ UNCHANGED <<app, page, Filled>> /\ Alone(p) /\ pc'[p] = to
<1>1. IsBuffer /\ BufferTypeOK /\ ReturnInv /\ PageInv
  BY CoreLemma
<1>2. app' = app /\ Alone(p) /\ pc'[p] = to
  BY <1>1, TurnLemma
<1>3. UNCHANGED <<Inserted, Taken>>
  BY <1>1, NetLemma
<1>4. PageInv' /\ UNCHANGED <<Contents, Filled>>
  BY <1>1, <1>2, <1>3, QuietLemma DEF Quiet
<1> QED
  BY <1>2, <1>3, <1>4 DEF Simulates

\* A test, a call on a semaphore, or the end of a process.
LEMMA CallGood ==
  ASSUME Core, NEW p, NEW from, NEW to, NEW n \in {0, 1}, Turn(p, from, to, n),
         Net(p, from, to, n) = 0, UNCHANGED <<page, locks, conds>>,
         to \notin Guarded \/ (n = 0 /\ KnowsAt(p, to))
  PROVE  Good /\ Filled' = Filled
<1>1. BufferTypeOK /\ IsBuffer /\ ReturnInv /\ TestsInv /\ CondsExist
  BY CoreLemma
<1>2. PageInv' /\ Simulates /\ UNCHANGED <<app, page, Filled>> /\ Alone(p) /\ pc'[p] = to
  BY QuietTurnLemma
<1>3. Knows(p)'
  <2>1. CASE to \notin Guarded
    <3>1. Guarded' = Guarded
      BY <1>2 DEF Guarded
    <3> QED
      BY <1>2, <2>1, <3>1, UnsureLemma
  <2>2. CASE n = 0 /\ KnowsAt(p, to)
    <3>1. counter'[p] = counter[p] + 0 /\ counter[p] \in Int
      BY <1>1, <2>2, TurnLemma
    <3>2. Item(p)' = Item(p) /\ HeadChar' = HeadChar /\ Room' = Room
      BY <1>2, <3>1 DEF Item, HeadChar, Room
    <3> QED
      BY <1>2, <2>2, <3>2, Zenon DEF Knows, KnowsAt
  <2> QED
    BY <2>1, <2>2
<1>4. TestsInv'
  BY <1>1, <1>2, <1>3, StaysKnownLemma DEF Turn
<1> QED
  BY <1>2, <1>4 DEF Good

\* lock_acquire.
LEMMA AcquireGood ==
  ASSUME Core, NEW p, NEW from, NEW to, Turn(p, from, to, 0),
         Net(p, from, to, 0) = 0, page' = page, Acquire(p, "lock"), to \in Unsure
  PROVE  Good /\ Filled' = Filled
<1>1. BufferTypeOK /\ TestsInv /\ CondsExist
  BY CoreLemma
<1>2. PageInv' /\ Simulates /\ UNCHANGED <<app, page, Filled>> /\ Alone(p) /\ pc'[p] = to
  BY QuietTurnLemma
<1>3. TestsInv'
  BY <1>1, <1>2, AcquireKnownLemma DEF Turn
<1> QED
  BY <1>2, <1>3 DEF Good

\* lock_release.
LEMMA ReleaseGood ==
  ASSUME Core, NEW p, NEW from, NEW to, NEW n \in {0, 1}, Turn(p, from, to, n),
         Net(p, from, to, n) = 0, page' = page, Release(p, "lock"), to \notin Guarded
  PROVE  Good /\ Filled' = Filled
<1>1. BufferTypeOK /\ TestsInv /\ CondsExist
  BY CoreLemma
<1>2. PageInv' /\ Simulates /\ UNCHANGED <<app, page, Filled>> /\ Alone(p) /\ pc'[p] = to
  BY QuietTurnLemma
<1>3. TestsInv'
  BY <1>1, <1>2, ReleaseKnownLemma DEF Turn
<1> QED
  BY <1>2, <1>3 DEF Good

\* cond_wait.
LEMMA CondWaitGood ==
  ASSUME Core, NEW p, NEW from \in Guarded, NEW to, Turn(p, from, to, 0),
         Net(p, from, to, 0) = 0, page' = page,
         NEW c \in DOMAIN conds, CondWait(p, c), WaitsWell(p, c, to)
  PROVE  Good /\ Filled' = Filled
<1>1. BufferTypeOK /\ HasLock /\ TestsInv /\ CondsExist
  BY CoreLemma
<1>2. PageInv' /\ Simulates /\ UNCHANGED <<app, page, Filled>> /\ Alone(p) /\ pc'[p] = to
  BY QuietTurnLemma
<1>3. TestsInv'
  BY <1>1, <1>2, CondWaitKnownLemma DEF Turn
<1> QED
  BY <1>2, <1>3 DEF Good

\* cond_signal.
LEMMA CondSignalGood ==
  ASSUME Core, app = "q4", NEW p, NEW n \in {0, 1}, Turn(p, "signal", "release", n),
         Net(p, "signal", "release", n) = 0, page' = page,
         NEW c \in DOMAIN conds, CondSignal(p, c),
         \/ c = "not_empty" /\ p \in Producer
         \/ c = "not_full" /\ p \in Consumer
  PROVE  Good /\ Filled' = Filled
<1>1. BufferTypeOK /\ HasLock /\ TestsInv /\ CondsExist
  BY CoreLemma
<1>2. /\ PageInv' /\ Simulates /\ UNCHANGED <<app, page, Filled>> /\ Alone(p)
      /\ pc'[p] = "release"
  BY QuietTurnLemma
<1>3. TestsInv'
  BY <1>1, <1>2, CondSignalKnownLemma DEF Turn
<1> QED
  BY <1>2, <1>3 DEF Good

\* buffer[w_idx] = product
LEMMA InsertGood ==
  ASSUME Core, NEW p, Turn(p, "insert", "advance", 0), Insert(p), Filled < BUFFER_SIZE,
         Net(p, "insert", "advance", 0) = 0
  PROVE  Good /\ Filled' = Filled
<1>1. /\ BufferTypeOK /\ HasLock /\ IsBuffer /\ ReturnInv /\ TestsInv /\ CondsExist
      /\ PageInv /\ PageOK
  BY CoreLemma
<1>2. app' = app /\ Alone(p) /\ pc'[p] = "advance" /\ counter'[p] = counter[p] + 0
  BY <1>1, TurnLemma
<1>3. Item(p) \in Int /\ KnowsAt(p, "insert")
  BY ActorLemma
<1>4. UNCHANGED <<Inserted, Taken>>
  BY <1>1, NetLemma
<1>5. page' = [page EXCEPT !.buffer[page.w_idx] = Item(p)] /\ UNCHANGED <<locks, conds>>
  BY DEF Insert, synchVars
<1>6. /\ PageInv' /\ UNCHANGED <<Contents, Filled>>
      /\ page'.buffer[page'.w_idx] = Item(p)
  BY <1>1, <1>2, <1>3, <1>4, <1>5, WriteLemma
<1>7. Knows(p)'
  <2>1. Item(p)' = Item(p) /\ Room' = Room
    BY <1>2, <1>3 DEF Item, Room
  <2>2. app # "q3" => Filled < Room
    BY <1>3 DEF KnowsAt
  <2> QED
    BY <1>2, <1>6, <2>1, <2>2 DEF Knows, KnowsAt
<1>8. "insert" \in Guarded
  BY DEF Guarded, Critical
<1>9. TestsInv'
  BY <1>1, <1>2, <1>5, <1>7, <1>8, BufferKnownLemma DEF Turn
<1> QED
  BY <1>4, <1>6, <1>9 DEF Good, Simulates

\* w_idx = (w_idx + 1) % BUFFERSIZE
LEMMA AdvanceGood ==
  ASSUME Core, NEW p \in Producer, NEW to, Turn(p, "advance", to, 0), AdvanceWrite(p, to),
         Filled < Room, Net(p, "advance", to, 0) = 1, to \in {"release", "signal"}
  PROVE  Good /\ Filled' = Filled + 1
<1>1. /\ BufferTypeOK /\ HasLock /\ IsBuffer /\ ReturnInv /\ TestsInv /\ CondsExist
      /\ PageInv /\ PageOK
  BY CoreLemma
<1>2. app' = app /\ Alone(p) /\ pc'[p] = to
  BY <1>1, TurnLemma
<1>3. /\ KnowsAt(p, "advance") /\ Item(p) \in 0 .. ITEMS /\ Item(p) < ITEMS
      /\ Moved(p) = Item(p) + Past(p, "advance")
  BY ActorLemma DEF Idle
<1>4. Inserted[p] = Item(p)
  <2>1. Past(p, "advance") = 0
    BY DEF Past, PastPlaces
  <2> QED
    BY <1>3, <2>1 DEF Inserted
<1>5. page.buffer[page.w_idx] = Inserted[p] /\ Inserted[p] < ITEMS
  BY <1>3, <1>4 DEF KnowsAt
<1>6. Inserted' = [Inserted EXCEPT ![p] = @ + 1] /\ UNCHANGED Taken
  BY <1>1, NetLemma
<1>7. page' = [page EXCEPT !.w_idx = NextSlot(@)] /\ UNCHANGED <<locks, conds>>
  BY DEF AdvanceWrite, synchVars
<1>8. PageInv' /\ Filled' = Filled + 1 /\ Bounded!Put(p)
  BY <1>1, <1>2, <1>5, <1>6, <1>7, AdvanceLemma
<1>9. Knows(p)'
  <2>1. Filled' > 0
    BY <1>1, <1>8, RoomLemma
  <2> QED
    BY <1>2, <2>1 DEF Knows, KnowsAt
<1>10. "advance" \in Guarded
  BY DEF Guarded, Critical
<1>11. TestsInv'
  BY <1>1, <1>2, <1>7, <1>9, <1>10, BufferKnownLemma DEF Turn
<1> QED
  BY <1>8, <1>11 DEF Good, Simulates

\* product = buffer[r_idx]; r_idx = (r_idx + 1) % BUFFERSIZE
LEMMA TakeGood ==
  ASSUME Core, NEW p \in Consumer, NEW to, Turn(p, "take", to, 0), Take(p, to),
         Filled > 0, Net(p, "take", to, 0) = 1, to \in {"release", "signal"}
  PROVE  Good /\ Filled' = Filled - 1
<1>1. /\ BufferTypeOK /\ HasLock /\ IsBuffer /\ ReturnInv /\ TestsInv /\ CondsExist
      /\ PageInv /\ PageOK
  BY CoreLemma
<1>2. app' = app /\ Alone(p) /\ pc'[p] = to
  BY <1>1, TurnLemma
<1>3. KnowsAt(p, "take") /\ Item(p) \in 0 .. ITEMS /\ Moved(p) = Item(p) + Past(p, "take")
  BY ActorLemma
<1>4. Taken[p] = Item(p)
  <2>1. Past(p, "take") = 0
    BY DEF Past, PastPlaces
  <2> QED
    BY <1>3, <2>1 DEF Taken
<1>5. HeadChar = Taken[p]
  BY <1>3, <1>4 DEF KnowsAt
<1>6. Taken' = [Taken EXCEPT ![p] = @ + 1] /\ UNCHANGED Inserted
  BY <1>1, NetLemma
<1>7. page' = [page EXCEPT !.r_idx = NextSlot(@)] /\ UNCHANGED <<locks, conds>>
  BY DEF Take, synchVars
<1>8. PageInv' /\ Filled' = Filled - 1 /\ Bounded!Get(p)
  BY <1>1, <1>2, <1>5, <1>6, <1>7, TakeLemma
<1>9. Knows(p)'
  <2>1. Filled' < Room /\ Room' = Room /\ p \notin Producer
    BY <1>1, <1>2, <1>8, RoomLemma, BufferAssumption DEF Room
  <2> QED
    BY <1>2, <2>1 DEF Knows, KnowsAt
<1>10. "take" \in Guarded
  BY DEF Guarded, Critical
<1>11. TestsInv'
  BY <1>1, <1>2, <1>7, <1>9, <1>10, BufferKnownLemma DEF Turn
<1> QED
  BY <1>8, <1>11 DEF Good, Simulates

\* What w_idx and r_idx tell of a buffer with an unused slot.
LEMMA FullEmptyLemma ==
  ASSUME Core, app # "q3"
  PROVE  /\ ~Full => Filled < Room
         /\ ~Empty => Filled > 0
<1> DEFINE r == page.r_idx
           n == Filled
<1>1. /\ n \in Nat /\ n <= Room /\ Room = BUFFER_SIZE - 1 /\ BUFFER_SIZE \in Nat \ {0}
      /\ r \in Slot /\ page.w_idx = Behind(r, n)
  BY CoreLemma, RoomLemma DEF PageOK, Room
<1> HIDE DEF r, n
<1>2. n \in 0 .. BUFFER_SIZE - 1
  BY <1>1
<1>3. ASSUME n = Room
      PROVE  Full
  <2>1. NextSlot(Behind(r, n)) = Behind(r, n + 1)
    BY <1>1, <1>2, RingLemma
  <2>2. n + 1 = BUFFER_SIZE /\ BUFFER_SIZE \in 0 .. BUFFER_SIZE
    BY <1>1, <1>3
  <2>3. Behind(r, BUFFER_SIZE) = IF r + BUFFER_SIZE < BUFFER_SIZE THEN r + BUFFER_SIZE
                                 ELSE r + BUFFER_SIZE - BUFFER_SIZE
    BY <1>1, <2>2, BehindLemma
  <2>4. Behind(r, BUFFER_SIZE) = r
    BY <1>1, <2>3 DEF Slot
  <2> QED
    BY <1>1, <2>1, <2>2, <2>4 DEF Full, r
<1>4. ASSUME n = 0
      PROVE  Empty
  BY <1>1, <1>4, RingLemma DEF Empty, r
<1> QED
  BY <1>1, <1>3, <1>4 DEF n

-----------------------------------------------------------------------------
(* The programs *)

\* An operation of a process that is awake is a step with its counter.
LEMMA OperationTurnLemma ==
  ASSUME Core, NEW p \in BufferProcess
  PROVE  /\ \A from, to, n : Rounds(p, from, to, n) => Turn(p, from, to, n)
         /\ Complete(p) => Turn(p, "loop", "done", 0)
<1>1. BufferTypeOK
  BY CoreLemma
<1>2. \A from, to, n : Rounds(p, from, to, n) => Turn(p, from, to, n)
  BY <1>1, MovesLemma DEF Rounds, Turn
<1>3. Complete(p) => Turn(p, "loop", "done", 0)
  BY <1>1, MovesLemma DEF Complete, Turn
<1> QED
  BY <1>2, <1>3

\* The places where the lock is not needed.
LEMMA UnguardedLemma ==
  /\ 0 \in {0, 1} /\ 1 \in {0, 1}
  /\ "loop" \notin Guarded /\ "done" \notin Guarded
  /\ app = "q3" => "signal" \notin Guarded
BY DEF Guarded, Critical

\* makeprocs has created the semaphore it waits on.
LEMMA SemExistsLemma == Core => "s_procs_completed" \in DOMAIN sems
BY CoreLemma DEF SignalsCounted

\* A test of the buffer.
LEMMA TestGood ==
  ASSUME Core, NEW p \in BufferProcess, NEW from, NEW to,
         Test(p, from, to), Net(p, from, to, 0) = 0, KnowsAt(p, to)
  PROVE  Good /\ Filled' = Filled
<1>1. Turn(p, from, to, 0)
  BY SemExistsLemma, OperationsLemma, OperationTurnLemma
<1>2. UNCHANGED <<page, locks, conds>>
  BY DEF Test, synchVars
<1> QED
  BY <1>1, <1>2, UnguardedLemma, CallGood

\* sem_wait on a semaphore of q3.
LEMMA WaitOnGood ==
  ASSUME Core, NEW p \in BufferProcess, NEW s, NEW from, NEW to, s # "s_procs_completed",
         WaitOn(p, s, from, to), Net(p, from, to, 0) = 0, KnowsAt(p, to)
  PROVE  Good /\ Filled' = Filled
<1>1. Turn(p, from, to, 0)
  BY SemExistsLemma, OperationsLemma, OperationTurnLemma
<1>2. UNCHANGED <<page, locks, conds>>
  BY SemaphoresLemma DEF WaitOn
<1> QED
  BY <1>1, <1>2, UnguardedLemma, CallGood

\* sem_signal on one.
LEMMA SignalSlotGood ==
  ASSUME Core, NEW p \in BufferProcess, NEW s, s # "s_procs_completed",
         SignalSlot(p, s), Net(p, "signal", "loop", 1) = 0
  PROVE  Good /\ Filled' = Filled
<1>1. Turn(p, "signal", "loop", 1)
  BY SemExistsLemma, OperationsLemma, OperationTurnLemma
<1>2. UNCHANGED <<page, locks, conds>>
  BY SemaphoresLemma DEF SignalSlot
<1> QED
  BY <1>1, <1>2, UnguardedLemma, CallGood

\* The last signal of a child.
LEMMA CompleteGood ==
  ASSUME Core, NEW p \in BufferProcess, Complete(p), Net(p, "loop", "done", 0) = 0
  PROVE  Good /\ Filled' = Filled
<1>1. Turn(p, "loop", "done", 0)
  BY OperationTurnLemma
<1>2. UNCHANGED <<page, locks, conds>>
  BY SemaphoresLemma DEF Complete
<1> QED
  BY <1>1, <1>2, UnguardedLemma, CallGood

\* lock_acquire and lock_release in a round.
LEMMA AcquireLockGood ==
  ASSUME Core, NEW p \in BufferProcess, NEW from, NEW to,
         AcquireLock(p, from, to), Net(p, from, to, 0) = 0, to \in Unsure
  PROVE  Good /\ Filled' = Filled
<1>1. Turn(p, from, to, 0)
  BY SemExistsLemma, OperationsLemma, OperationTurnLemma
<1>2. page' = page /\ Acquire(p, "lock")
  BY DEF AcquireLock
<1> QED
  BY <1>1, <1>2, AcquireGood

\* LockRelease at the end of a round.
LEMMA ReleaseLockGood ==
  ASSUME Core, NEW p \in BufferProcess, NEW from, NEW n \in {0, 1},
         ReleaseLock(p, from, n), Net(p, from, "loop", n) = 0
  PROVE  Good /\ Filled' = Filled
<1>1. Turn(p, from, "loop", n)
  BY SemExistsLemma, OperationsLemma, OperationTurnLemma
<1>2. page' = page /\ Release(p, "lock")
  BY DEF ReleaseLock
<1> QED
  BY <1>1, <1>2, UnguardedLemma, ReleaseGood

\* LockRelease of q3, which a signal follows.
LEMMA ReleaseThenSignalGood ==
  ASSUME Core, NEW p \in BufferProcess, app = "q3",
         ReleaseThenSignal(p), Net(p, "release", "signal", 0) = 0
  PROVE  Good /\ Filled' = Filled
<1>1. Turn(p, "release", "signal", 0)
  BY SemExistsLemma, OperationsLemma, OperationTurnLemma
<1>2. page' = page /\ Release(p, "lock")
  BY DEF ReleaseThenSignal
<1> QED
  BY <1>1, <1>2, UnguardedLemma, ReleaseGood

\* The steps on the buffer.
LEMMA BufferOperationsLemma ==
  ASSUME Core, NEW p \in BufferProcess
  PROVE  /\ Insert(p) /\ Filled < BUFFER_SIZE => Good /\ Filled' = Filled
         /\ \A to \in {"release", "signal"} :
              p \in Producer /\ AdvanceWrite(p, to) /\ Filled < Room /\ to \in PastPlaces(p)
                => Good /\ Filled' = Filled + 1
         /\ \A to \in {"release", "signal"} :
              p \in Consumer /\ Take(p, to) /\ Filled > 0 /\ to \in PastPlaces(p)
                => Good /\ Filled' = Filled - 1
<1>1. "s_procs_completed" \in DOMAIN sems
  BY CoreLemma DEF SignalsCounted
<1>2. /\ Net(p, "insert", "advance", 0) = 0
      /\ \A to \in PastPlaces(p) : Net(p, "advance", to, 0) = 1 /\ Net(p, "take", to, 0) = 1
  BY DEF Net, Past, PastPlaces
<1>3. Insert(p) => Turn(p, "insert", "advance", 0)
  BY <1>1, OperationsLemma, OperationTurnLemma
<1>4. \A to : AdvanceWrite(p, to) => Turn(p, "advance", to, 0)
  BY <1>1, OperationsLemma, OperationTurnLemma
<1>5. \A to : Take(p, to) => Turn(p, "take", to, 0)
  BY <1>1, OperationsLemma, OperationTurnLemma
<1> QED
  BY <1>2, <1>3, <1>4, <1>5, InsertGood, AdvanceGood, TakeGood

\* What a process has found out before it makes a step.
LEMMA KnowsLemma ==
  ASSUME Core, NEW p \in BufferProcess, NEW from, NEW to, Step(p, from, to)
  PROVE  KnowsAt(p, from)
<1>1. ~OnCond(p) /\ pc[p] = from
  BY DEF Step, Awake, WaitsIn, OnCond
<1> QED
  BY <1>1, CoreLemma DEF TestsInv, TestsHold, Knows

\* That is enough for the steps on the buffer of q2 and q4.
LEMMA EnoughLemma ==
  ASSUME Core, app # "q3", NEW p \in BufferProcess
  PROVE  /\ Insert(p) => Filled < BUFFER_SIZE
         /\ \A to : AdvanceWrite(p, to) => Filled < Room
         /\ \A to : Take(p, to) => Filled > 0
<1>1. Room <= BUFFER_SIZE /\ Filled \in Nat /\ Room \in Nat /\ BUFFER_SIZE \in Nat
  BY CoreLemma, RoomLemma
<1>2. ASSUME Insert(p)
      PROVE  Filled < BUFFER_SIZE
  <2>1. KnowsAt(p, "insert")
    BY <1>2, KnowsLemma DEF Insert
  <2> QED
    BY <1>1, <2>1 DEF KnowsAt
<1>3. ASSUME NEW to, AdvanceWrite(p, to)
      PROVE  Filled < Room
  <2>1. KnowsAt(p, "advance")
    BY <1>3, KnowsLemma DEF AdvanceWrite
  <2> QED
    BY <2>1 DEF KnowsAt
<1>4. ASSUME NEW to, Take(p, to)
      PROVE  Filled > 0
  <2>1. KnowsAt(p, "take")
    BY <1>4, KnowsLemma DEF Take
  <2> QED
    BY <2>1 DEF KnowsAt
<1> QED
  BY <1>2, <1>3, <1>4

\* q2.
LEMMA LockGood ==
  ASSUME Core, app = "q2", NEW p,
         \/ p \in Producer /\ LockProducer(p)
         \/ p \in Consumer /\ LockConsumer(p)
  PROVE  Good
<1>1. p \in BufferProcess
  BY DEF BufferProcess
<1>2. /\ Net(p, "loop", "test", 0) = 0 /\ Net(p, "loop", "done", 0) = 0
      /\ Net(p, "test", "retry", 0) = 0 /\ Net(p, "retry", "loop", 0) = 0
      /\ Net(p, "test", "insert", 0) = 0 /\ Net(p, "test", "take", 0) = 0
      /\ Net(p, "release", "loop", 1) = 0
      /\ "release" \in PastPlaces(p) /\ "release" \in {"release", "signal"}
  BY DEF Net, Past, PastPlaces
<1>3. "test" \in Unsure /\ KnowsAt(p, "retry") /\ 0 \in {0, 1} /\ 1 \in {0, 1}
  BY DEF Unsure, KnowsAt
<1>4. ASSUME AcquireLock(p, "loop", "test") \/ Test(p, "test", "retry") \/ Complete(p)
             \/ ReleaseLock(p, "release", 1) \/ ReleaseLock(p, "retry", 0)
      PROVE  Good
  BY <1>1, <1>2, <1>3, <1>4, AcquireLockGood, TestGood, CompleteGood, ReleaseLockGood
<1>5. ASSUME p \in Producer, ~Full, Test(p, "test", "insert")
      PROVE  Good
  <2>1. KnowsAt(p, "insert")
    BY <1>5, FullEmptyLemma DEF KnowsAt
  <2> QED
    BY <1>1, <1>2, <1>5, <2>1, TestGood
<1>6. ASSUME ~Empty, HeadChar = Item(p), Test(p, "test", "take")
      PROVE  Good
  <2>1. KnowsAt(p, "take")
    BY <1>6, FullEmptyLemma DEF KnowsAt
  <2> QED
    BY <1>1, <1>2, <1>6, <2>1, TestGood
<1>7. ASSUME Insert(p)
      PROVE  Good
  BY <1>1, <1>7, EnoughLemma, BufferOperationsLemma
<1>8. ASSUME p \in Producer, AdvanceWrite(p, "release")
      PROVE  Good
  BY <1>1, <1>2, <1>8, EnoughLemma, BufferOperationsLemma
<1>9. ASSUME p \in Consumer, Take(p, "release")
      PROVE  Good
  BY <1>1, <1>2, <1>9, EnoughLemma, BufferOperationsLemma
<1> QED
  BY <1>4, <1>5, <1>6, <1>7, <1>8, <1>9, Zenon DEF LockProducer, LockConsumer

\* q4.
LEMMA MonitorGood ==
  ASSUME Core, app = "q4", NEW p,
         \/ p \in Producer /\ MonitorProducer(p)
         \/ p \in Consumer /\ MonitorConsumer(p)
  PROVE  Good
<1>1. p \in BufferProcess /\ "s_procs_completed" \in DOMAIN sems
  BY SemExistsLemma DEF BufferProcess
<1>2. /\ Net(p, "loop", "test", 0) = 0 /\ Net(p, "loop", "done", 0) = 0
      /\ Net(p, "test", "insert", 0) = 0 /\ Net(p, "test", "look", 0) = 0
      /\ p \in Consumer => Net(p, "look", "release", 0) = 0
      /\ Net(p, "look", "take", 0) = 0
      /\ p \in Producer => Net(p, "signal", "release", 0) = 0 /\ Net(p, "release", "loop", 1) = 0
      /\ p \in Consumer => Net(p, "signal", "release", 1) = 0 /\ Net(p, "release", "loop", 0) = 0
      /\ "signal" \in PastPlaces(p) /\ "signal" \in {"release", "signal"}
  BY BufferAssumption DEF Net, Past, PastPlaces
<1>3. /\ "test" \in Unsure /\ "test" \in Guarded /\ KnowsAt(p, "release")
      /\ 0 \in {0, 1} /\ 1 \in {0, 1}
  BY DEF Unsure, Guarded, Critical, KnowsAt
<1>4. ASSUME AcquireLock(p, "loop", "test") \/ Complete(p)
      PROVE  Good
  BY <1>1, <1>2, <1>3, <1>4, AcquireLockGood, CompleteGood
<1>5. ASSUME \/ p \in Producer /\ ReleaseLock(p, "release", 1)
             \/ p \in Consumer /\ ReleaseLock(p, "release", 0)
      PROVE  Good
  BY <1>1, <1>2, <1>3, <1>5, ReleaseLockGood
<1>6. DOMAIN conds = {"not_full", "not_empty"}
  BY CoreLemma DEF CondsExist
<1>7. ASSUME NEW c \in DOMAIN conds, NEW to, CondWaitOn(p, c, to), WaitsWell(p, c, to)
      PROVE  Good
  <2>1. Turn(p, "test", to, 0)
    BY <1>1, <1>7, OperationsLemma, OperationTurnLemma
  <2>2. page' = page /\ CondWait(p, c)
    BY <1>7 DEF CondWaitOn
  <2>3. Net(p, "test", to, 0) = 0
    BY <1>2, <1>7 DEF WaitsWell
  <2> QED
    BY <1>3, <1>7, <2>1, <2>2, <2>3, CondWaitGood
<1>8. ASSUME NEW c \in DOMAIN conds, NEW n \in {0, 1}, CondSignalOn(p, c, n),
             Net(p, "signal", "release", n) = 0,
             \/ c = "not_empty" /\ p \in Producer
             \/ c = "not_full" /\ p \in Consumer
      PROVE  Good
  <2>1. Turn(p, "signal", "release", n)
    BY <1>1, <1>8, OperationsLemma, OperationTurnLemma
  <2>2. page' = page /\ CondSignal(p, c)
    BY <1>8 DEF CondSignalOn
  <2> QED
    BY <1>8, <2>1, <2>2, CondSignalGood
<1>9. ASSUME ~Full, Test(p, "test", "insert")
      PROVE  Good
  <2>1. KnowsAt(p, "insert")
    BY <1>9, FullEmptyLemma DEF KnowsAt
  <2> QED
    BY <1>1, <1>2, <1>9, <2>1, TestGood
<1>10. ASSUME ~Empty, Test(p, "test", "look")
       PROVE  Good
  <2>1. KnowsAt(p, "look")
    BY <1>10, FullEmptyLemma DEF KnowsAt
  <2> QED
    BY <1>1, <1>2, <1>10, <2>1, TestGood
<1>11. ASSUME p \in Consumer, Test(p, "look", "release")
       PROVE  Good
  BY <1>1, <1>2, <1>3, <1>11, TestGood
<1>12. ASSUME HeadChar = Item(p), Test(p, "look", "take")
       PROVE  Good
  <2>1. KnowsAt(p, "look")
    BY <1>1, <1>12, KnowsLemma DEF Test
  <2>2. KnowsAt(p, "take")
    BY <1>12, <2>1 DEF KnowsAt
  <2> QED
    BY <1>1, <1>2, <1>12, <2>2, TestGood
<1>13. ASSUME Insert(p)
       PROVE  Good
  BY <1>1, <1>13, EnoughLemma, BufferOperationsLemma
<1>14. ASSUME p \in Producer, AdvanceWrite(p, "signal")
       PROVE  Good
  BY <1>1, <1>2, <1>14, EnoughLemma, BufferOperationsLemma
<1>15. ASSUME p \in Consumer, Take(p, "signal")
       PROVE  Good
  BY <1>1, <1>2, <1>15, EnoughLemma, BufferOperationsLemma
<1>16. CASE p \in Producer /\ MonitorProducer(p)
  <2>1. CondWaitOn(p, "not_full", "insert") => Good
    BY <1>6, <1>7, <1>16 DEF WaitsWell
  <2>2. CondSignalOn(p, "not_empty", 0) => Good
    BY <1>2, <1>3, <1>6, <1>8, <1>16
  <2> QED
    BY <1>4, <1>5, <1>9, <1>13, <1>14, <1>16, <2>1, <2>2, Zenon DEF MonitorProducer
<1>17. CASE p \in Consumer /\ MonitorConsumer(p)
  <2>1. CondWaitOn(p, "not_empty", "look") => Good
    BY <1>6, <1>7, <1>17 DEF WaitsWell
  <2>2. CondSignalOn(p, "not_full", 1) => Good
    BY <1>2, <1>3, <1>6, <1>8, <1>17
  <2> QED
    BY <1>4, <1>5, <1>10, <1>11, <1>12, <1>15, <1>17, <2>1, <2>2, Zenon DEF MonitorConsumer
<1> QED
  BY <1>16, <1>17

-----------------------------------------------------------------------------
(* The units of a semaphore that counts slots *)

Is(b) == IF b THEN 1 ELSE 0

\* Those of S that are at one of the places P, where f tells each one's place.
Among(S, f, P) == {q \in S : f[q] \in P}

\* Those of them that do not wait for semaphore sem.
Holding(sem, S, f, P) == Among(S, f, P) \ InQueue(sem.waiting)

\* The units of sem that are free, and those that a process at P has been given.
Units(sem, S, f, P) == sem.count + Cardinality(Holding(sem, S, f, P))

\* Members of S wait for sem, at one place, each at most once.
CountsSlots(sem, S, f, at) ==
  /\ sem \in [count : Nat, waiting : Seq(S)]
  /\ NoDuplicates(sem.waiting)
  /\ \A q \in InQueue(sem.waiting) : f[q] = at

\* g tells the places when p has gone to another.
Goes(f, g, p, to) == g = [f EXCEPT ![p] = to]

\* What a wait of p makes of semaphore sem, and what a signal does.
AfterWait(sem, next, p) ==
  \/ sem.count > 0 /\ next = [sem EXCEPT !.count = @ - 1]
  \/ sem.count <= 0 /\ next = [sem EXCEPT !.waiting = Append(@, p)]

AfterSignal(sem, next) ==
  \/ sem.count >= 0 /\ sem.waiting # <<>> /\ next = [sem EXCEPT !.waiting = Tail(@)]
  \/ (sem.count < 0 \/ sem.waiting = <<>>) /\ next = [sem EXCEPT !.count = @ + 1]

\* A set in which nothing changes but that x is in it, or not.
LEMMA MemberLemma ==
  ASSUME NEW S, IsFiniteSet(S), NEW T, NEW x, T \ {x} = S \ {x}
  PROVE  /\ Cardinality(T) \in Int /\ Cardinality(S) \in Int
         /\ Cardinality(T) = Cardinality(S) + Is(x \in T) - Is(x \in S)
<1>1. CASE x \in S <=> x \in T
  <2>1. S = T
    BY <1>1
  <2> QED
    BY <1>1, <2>1, FS_CardinalityType DEF Is
<1>2. CASE x \in S /\ x \notin T
  <2>1. T = S \ {x}
    BY <1>2
  <2>2. IsFiniteSet(T)
    BY <2>1, FS_RemoveElement
  <2> QED
    BY <1>2, <2>1, <2>2, CountLemma DEF Is
<1>3. CASE x \notin S /\ x \in T
  <2>1. T = S \union {x}
    BY <1>3
  <2>2. IsFiniteSet(T)
    BY <2>1, FS_AddElement
  <2> QED
    BY <1>3, <2>1, <2>2, CountLemma DEF Is
<1> QED
  BY <1>1, <1>2, <1>3

\* A process goes to another place.
LEMMA AmongLemma ==
  ASSUME NEW S, IsFiniteSet(S), NEW f, S \subseteq DOMAIN f, NEW p \in DOMAIN f, NEW to, NEW P,
         NEW g, Goes(f, g, p, to)
  PROVE  /\ Cardinality(Among(S, f, P)) \in Int /\ Cardinality(Among(S, g, P)) \in Int
         /\ Cardinality(Among(S, g, P))
              = Cardinality(Among(S, f, P)) + Is(p \in S /\ to \in P) - Is(p \in S /\ f[p] \in P)
<1> DEFINE A == Among(S, f, P)
           B == Among(S, g, P)
<1>1. \A q \in S : g[q] = IF q = p THEN to ELSE f[q]
  BY DEF Goes
<1>2. A \subseteq S /\ IsFiniteSet(A)
  BY FS_Subset DEF Among
<1>3. B \ {p} = A \ {p}
  BY <1>1 DEF Among
<1>4. (p \in B) = (p \in S /\ to \in P) /\ (p \in A) = (p \in S /\ f[p] \in P)
  BY <1>1 DEF Among
<1> HIDE DEF A, B
<1>5. /\ Cardinality(B) \in Int /\ Cardinality(A) \in Int
      /\ Cardinality(B) = Cardinality(A) + Is(p \in B) - Is(p \in A)
  BY <1>2, <1>3, MemberLemma
<1> QED
  BY <1>4, <1>5 DEF A, B

\* One that does not wait for the semaphore does.
LEMMA UnitsMoveLemma ==
  ASSUME NEW S, IsFiniteSet(S), NEW f, S \subseteq DOMAIN f, NEW p \in DOMAIN f, NEW to,
         NEW g, Goes(f, g, p, to), NEW P, NEW at, NEW sem,
         CountsSlots(sem, S, f, at), p \notin InQueue(sem.waiting)
  PROVE  /\ CountsSlots(sem, S, g, at)
         /\ Units(sem, S, f, P) \in Int
         /\ Units(sem, S, g, P)
              = Units(sem, S, f, P) + Is(p \in S /\ to \in P) - Is(p \in S /\ f[p] \in P)
<1> DEFINE A == Holding(sem, S, f, P)
           B == Holding(sem, S, g, P)
<1>1. \A q \in S : g[q] = IF q = p THEN to ELSE f[q]
  BY DEF Goes
<1>2. A \subseteq S /\ IsFiniteSet(A)
  BY FS_Subset DEF Holding, Among
<1>3. B \ {p} = A \ {p}
  BY <1>1 DEF Holding, Among
<1>4. (p \in B) = (p \in S /\ to \in P) /\ (p \in A) = (p \in S /\ f[p] \in P)
  BY <1>1 DEF Holding, Among
<1>5. CountsSlots(sem, S, g, at)
  <2>1. sem.waiting \in Seq(S) /\ InQueue(sem.waiting) \subseteq S
    BY DEF CountsSlots, InQueue
  <2> QED
    BY <1>1, <2>1 DEF CountsSlots
<1> HIDE DEF A, B
<1>6. /\ Cardinality(B) \in Int /\ Cardinality(A) \in Int
      /\ Cardinality(B) = Cardinality(A) + Is(p \in B) - Is(p \in A)
  BY <1>2, <1>3, MemberLemma
<1>7. sem.count \in Int /\ Is(p \in B) \in Int /\ Is(p \in A) \in Int
  BY DEF CountsSlots, Is
<1>8. /\ Units(sem, S, f, P) = sem.count + Cardinality(A)
      /\ Units(sem, S, g, P) = sem.count + Cardinality(B)
  BY DEF Units, A, B
<1>9. /\ Units(sem, S, f, P) \in Int
      /\ Units(sem, S, g, P) = Units(sem, S, f, P) + Is(p \in B) - Is(p \in A)
  BY <1>6, <1>7, <1>8
<1> QED
  BY <1>4, <1>5, <1>9

\* One that waits has its unit already, or joins the queue.
LEMMA UnitsWaitLemma ==
  ASSUME NEW S, IsFiniteSet(S), NEW f, S \subseteq DOMAIN f, NEW p \in S,
         NEW P, NEW at \in P, f[p] \notin P, NEW g, Goes(f, g, p, at),
         NEW sem, NEW next, CountsSlots(sem, S, f, at), p \notin InQueue(sem.waiting),
         AfterWait(sem, next, p)
  PROVE  CountsSlots(next, S, g, at) /\ Units(next, S, g, P) = Units(sem, S, f, P)
<1>1. \A q \in S : g[q] = IF q = p THEN at ELSE f[q]
  BY DEF Goes
<1>2. CountsSlots(sem, S, g, at) /\ Units(sem, S, f, P) \in Int
  BY UnitsMoveLemma
<1>3. Units(sem, S, g, P)
        = Units(sem, S, f, P) + Is(p \in S /\ at \in P) - Is(p \in S /\ f[p] \in P)
  BY UnitsMoveLemma
<1>4. Units(sem, S, g, P) = Units(sem, S, f, P) + 1
  BY <1>2, <1>3 DEF Is
<1>5. sem \in [count : Nat, waiting : Seq(S)] /\ NoDuplicates(sem.waiting)
  BY DEF CountsSlots
<1>6. CASE sem.count > 0 /\ next = [sem EXCEPT !.count = @ - 1]
  <2>1. /\ next \in [count : Nat, waiting : Seq(S)] /\ next.waiting = sem.waiting
        /\ next.count = sem.count - 1
    BY <1>5, <1>6
  <2>2. CountsSlots(next, S, g, at)
    BY <1>2, <2>1 DEF CountsSlots
  <2>3. Holding(next, S, g, P) = Holding(sem, S, g, P)
    BY <2>1 DEF Holding
  <2>4. Units(sem, S, g, P) \in Int
    BY <1>2, <1>4
  <2>5. IsFiniteSet(Holding(sem, S, g, P))
    BY FS_Subset DEF Holding, Among
  <2>6. Cardinality(Holding(sem, S, g, P)) \in Int
    BY <2>5, FS_CardinalityType
  <2>7. Units(next, S, g, P) = Units(sem, S, g, P) - 1
    BY <1>5, <2>1, <2>3, <2>6 DEF Units
  <2> QED
    BY <1>2, <1>4, <2>2, <2>7
<1>7. CASE sem.count <= 0 /\ next = [sem EXCEPT !.waiting = Append(@, p)]
  <2>1. /\ Append(sem.waiting, p) \in Seq(S) /\ NoDuplicates(Append(sem.waiting, p))
        /\ InQueue(Append(sem.waiting, p)) = InQueue(sem.waiting) \union {p}
    BY <1>5, AppendLemma
  <2>2. /\ next \in [count : Nat, waiting : Seq(S)] /\ next.waiting = Append(sem.waiting, p)
        /\ next.count = sem.count
    BY <1>5, <1>7, <2>1
  <2>3. CountsSlots(next, S, g, at)
    BY <1>1, <1>2, <2>1, <2>2 DEF CountsSlots
  <2>4. Holding(next, S, g, P) = Holding(sem, S, f, P)
    BY <1>1, <2>1, <2>2 DEF Holding, Among
  <2> QED
    BY <2>2, <2>3, <2>4 DEF Units
<1> QED
  BY <1>6, <1>7 DEF AfterWait

\* A signal adds a unit, which the process that waited longest has at once.
LEMMA UnitsSignalLemma ==
  ASSUME NEW S, IsFiniteSet(S), NEW f, NEW P, NEW at \in P, NEW sem, NEW next,
         CountsSlots(sem, S, f, at),
         AfterSignal(sem, next)
  PROVE  CountsSlots(next, S, f, at) /\ Units(next, S, f, P) = Units(sem, S, f, P) + 1
<1>1. /\ sem \in [count : Nat, waiting : Seq(S)] /\ NoDuplicates(sem.waiting)
      /\ \A q \in InQueue(sem.waiting) : f[q] = at
  BY DEF CountsSlots
<1> DEFINE A == Holding(sem, S, f, P)
           B == Holding(next, S, f, P)
<1>2. IsFiniteSet(A)
  BY FS_Subset DEF Holding, Among
<1>3. Cardinality(A) \in Int
  BY <1>2, FS_CardinalityType
<1>4. CASE sem.waiting # <<>> /\ next = [sem EXCEPT !.waiting = Tail(@)]
  <2> DEFINE w == sem.waiting
             h == Head(w)
  <2>1. /\ h \in S /\ Tail(w) \in Seq(S) /\ h \in InQueue(w) /\ NoDuplicates(Tail(w))
        /\ InQueue(Tail(w)) = InQueue(w) \ {h}
    BY <1>1, <1>4, TailLemma
  <2>2. next \in [count : Nat, waiting : Seq(S)] /\ next.waiting = Tail(w) /\ next.count = sem.count
    BY <1>1, <1>4, <2>1
  <2> HIDE DEF h
  <2>3. CountsSlots(next, S, f, at)
    BY <1>1, <2>1, <2>2 DEF CountsSlots
  <2>4. B = A \union {h} /\ h \notin A
    BY <1>1, <2>1, <2>2 DEF Holding, Among
  <2> HIDE DEF A, B
  <2>5. IsFiniteSet(B)
    BY <1>2, <2>4, FS_AddElement
  <2>6. Cardinality(B) = Cardinality(A) + 1
    BY <1>2, <2>4, <2>5, CountLemma
  <2>7. Units(next, S, f, P) = sem.count + Cardinality(B)
        /\ Units(sem, S, f, P) = sem.count + Cardinality(A)
    BY <2>2 DEF Units, A, B
  <2> QED
    BY <1>1, <1>3, <2>3, <2>6, <2>7
<1>5. CASE next = [sem EXCEPT !.count = @ + 1]
  <2>1. /\ next \in [count : Nat, waiting : Seq(S)] /\ next.waiting = sem.waiting
        /\ next.count = sem.count + 1
    BY <1>1, <1>5
  <2>2. CountsSlots(next, S, f, at)
    BY <1>1, <2>1 DEF CountsSlots
  <2>3. B = A
    BY <2>1 DEF Holding
  <2>4. Units(next, S, f, P) = sem.count + 1 + Cardinality(A)
        /\ Units(sem, S, f, P) = sem.count + Cardinality(A)
    BY <2>1, <2>3 DEF Units
  <2> HIDE DEF A
  <2> QED
    BY <1>1, <1>3, <2>2, <2>4
<1> QED
  BY <1>4, <1>5 DEF AfterSignal

-----------------------------------------------------------------------------
(* The semaphores of q3 *)

\* The places between taking a slot and having it counted.
Fills == {"acquire", "insert", "advance"}
Empties == {"take"}
Gives == {"release", "signal"}

EmptySlots == sems["s_emptyslots"]
FullSlots == sems["s_fullslots"]

SlotUnits(sem, S, f, P, T) == Units(sem, S, f, P) + Cardinality(Among(T, f, Gives))

\* Each slot is full, or counted as empty, or taken by a producer that will
\* fill it or given back by a consumer that has emptied it; and each full slot
\* is counted, or taken by a consumer, or by a producer not counted yet.
SlotsCounted ==
  /\ {"s_emptyslots", "s_fullslots"} \subseteq DOMAIN sems
  /\ CountsSlots(EmptySlots, Producer, pc, "acquire")
  /\ CountsSlots(FullSlots, Consumer, pc, "take")
  /\ SlotUnits(EmptySlots, Producer, pc, Fills, Consumer) + Filled = BUFFER_SIZE
  /\ SlotUnits(FullSlots, Consumer, pc, Empties, Producer) = Filled

\* What a step of p adds to the units of a semaphore that S waits for and T
\* signals.
Gain(S, P, T, p, from, to) ==
  Is(p \in S /\ to \in P) - Is(p \in S /\ from \in P)
    + Is(p \in T /\ to \in Gives) - Is(p \in T /\ from \in Gives)

\* A step without a call on the semaphore.
LEMMA SlotsMoveLemma ==
  ASSUME NEW S, IsFiniteSet(S), NEW T, IsFiniteSet(T), NEW f, S \union T \subseteq DOMAIN f,
         NEW p \in DOMAIN f, NEW to, NEW g, Goes(f, g, p, to), NEW P, NEW at, NEW sem,
         CountsSlots(sem, S, f, at), p \notin InQueue(sem.waiting)
  PROVE  /\ CountsSlots(sem, S, g, at)
         /\ SlotUnits(sem, S, f, P, T) \in Int
         /\ SlotUnits(sem, S, g, P, T) = SlotUnits(sem, S, f, P, T) + Gain(S, P, T, p, f[p], to)
<1> DEFINE u == Units(sem, S, f, P)
           v == Units(sem, S, g, P)
           a == Cardinality(Among(T, f, Gives))
           b == Cardinality(Among(T, g, Gives))
<1>1. /\ CountsSlots(sem, S, g, at) /\ u \in Int
      /\ v = u + Is(p \in S /\ to \in P) - Is(p \in S /\ f[p] \in P)
  BY UnitsMoveLemma
<1>2. /\ a \in Int /\ b \in Int
      /\ b = a + Is(p \in T /\ to \in Gives) - Is(p \in T /\ f[p] \in Gives)
  BY AmongLemma
<1>3. \A x : Is(x) \in Int
  BY DEF Is
<1>4. SlotUnits(sem, S, f, P, T) = u + a /\ SlotUnits(sem, S, g, P, T) = v + b
  BY DEF SlotUnits
<1> HIDE DEF u, v, a, b
<1>5. u + a \in Int /\ v + b = (u + a) + Gain(S, P, T, p, f[p], to)
  BY <1>1, <1>2, <1>3 DEF Gain
<1> QED
  BY <1>1, <1>4, <1>5

\* A wait of p, in S, for the semaphore.
LEMMA SlotsWaitLemma ==
  ASSUME NEW S, IsFiniteSet(S), NEW T, S \cap T = {}, NEW f, S \subseteq DOMAIN f,
         NEW p \in S, NEW P, NEW at \in P, f[p] \notin P, NEW g, Goes(f, g, p, at),
         NEW sem, NEW next,
         CountsSlots(sem, S, f, at), p \notin InQueue(sem.waiting),
         AfterWait(sem, next, p)
  PROVE  /\ CountsSlots(next, S, g, at)
         /\ SlotUnits(next, S, g, P, T) = SlotUnits(sem, S, f, P, T)
<1>1. CountsSlots(next, S, g, at) /\ Units(next, S, g, P) = Units(sem, S, f, P)
  BY UnitsWaitLemma
<1>2. Among(T, g, Gives) = Among(T, f, Gives)
  BY DEF Among, Goes
<1> QED
  BY <1>1, <1>2 DEF SlotUnits

\* A signal by p, in T, which is through with its slot.
LEMMA SlotsSignalLemma ==
  ASSUME NEW S, IsFiniteSet(S), NEW T, IsFiniteSet(T), S \cap T = {}, NEW f,
         S \union T \subseteq DOMAIN f,
         NEW p \in T, f[p] \in Gives, NEW to, to \notin Gives, NEW P, NEW at \in P,
         NEW g, Goes(f, g, p, to), NEW sem, NEW next, CountsSlots(sem, S, f, at),
         AfterSignal(sem, next)
  PROVE  /\ CountsSlots(next, S, g, at)
         /\ SlotUnits(next, S, g, P, T) = SlotUnits(sem, S, f, P, T)
<1>1. p \in DOMAIN f /\ p \notin S /\ p \notin InQueue(sem.waiting)
  BY DEF CountsSlots, InQueue
<1>2. /\ CountsSlots(sem, S, g, at) /\ SlotUnits(sem, S, f, P, T) \in Int
      /\ SlotUnits(sem, S, g, P, T) = SlotUnits(sem, S, f, P, T) + Gain(S, P, T, p, f[p], to)
  BY <1>1, SlotsMoveLemma
<1>3. Gain(S, P, T, p, f[p], to) = -1
  BY <1>1 DEF Gain, Is
<1>4. CountsSlots(next, S, g, at) /\ Units(next, S, g, P) = Units(sem, S, g, P) + 1
  BY <1>2, UnitsSignalLemma
<1>5. Units(sem, S, g, P) \in Int /\ Cardinality(Among(T, g, Gives)) \in Int
  <2>1. IsFiniteSet(Holding(sem, S, g, P)) /\ IsFiniteSet(Among(T, g, Gives))
    BY FS_Subset DEF Holding, Among
  <2>2. Cardinality(Holding(sem, S, g, P)) \in Int /\ Cardinality(Among(T, g, Gives)) \in Int
    BY <2>1, FS_CardinalityType
  <2> QED
    BY <1>2, <2>2 DEF Units, CountsSlots
<1>6. SlotUnits(next, S, g, P, T) = SlotUnits(sem, S, g, P, T) + 1
  BY <1>4, <1>5 DEF SlotUnits
<1>7. SlotUnits(next, S, g, P, T) = SlotUnits(sem, S, f, P, T)
  BY <1>2, <1>3, <1>6
<1> QED
  BY <1>4, <1>7

\* What calls do to the semaphores.
LEMMA SemCallsLemma ==
  /\ \A s \in DOMAIN sems : \A p : Wait(p, s) => AfterWait(sems[s], sems'[s], p)
  /\ \A s \in DOMAIN sems : Signal(s) => AfterSignal(sems[s], sems'[s])
  /\ \A s, p : Wait(p, s) =>
       DOMAIN sems' = DOMAIN sems /\ \A x \in DOMAIN sems \ {s} : sems'[x] = sems[x]
  /\ \A s : Signal(s) =>
       DOMAIN sems' = DOMAIN sems /\ \A x \in DOMAIN sems \ {s} : sems'[x] = sems[x]
<1>1. ASSUME NEW s \in DOMAIN sems, NEW p, Wait(p, s)
      PROVE  AfterWait(sems[s], sems'[s], p)
  BY <1>1 DEF Wait, AfterWait
<1>2. ASSUME NEW s \in DOMAIN sems, Signal(s)
      PROVE  AfterSignal(sems[s], sems'[s])
  BY <1>2 DEF Signal, AfterSignal
<1>3. ASSUME NEW s, NEW p, Wait(p, s)
      PROVE  DOMAIN sems' = DOMAIN sems /\ \A x \in DOMAIN sems \ {s} : sems'[x] = sems[x]
  BY <1>3 DEF Wait
<1>4. ASSUME NEW s, Signal(s)
      PROVE  DOMAIN sems' = DOMAIN sems /\ \A x \in DOMAIN sems \ {s} : sems'[x] = sems[x]
  BY <1>4 DEF Signal
<1> QED
  BY <1>1, <1>2, <1>3, <1>4, Zenon

\* A step of p, and what it does to each of them.
LEMMA SlotsStepLemma ==
  ASSUME Core, SlotsCounted, NEW p \in BufferProcess, NEW from, NEW to, Step(p, from, to)
  PROVE  LET e == SlotUnits(EmptySlots, Producer, pc, Fills, Consumer)
             f == SlotUnits(FullSlots, Consumer, pc, Empties, Producer)
         IN  /\ e \in Int /\ f \in Int
             /\ EmptySlots' = EmptySlots =>
                  /\ CountsSlots(EmptySlots, Producer, pc, "acquire")'
                  /\ e' = e + Gain(Producer, Fills, Consumer, p, from, to)
             /\ FullSlots' = FullSlots =>
                  /\ CountsSlots(FullSlots, Consumer, pc, "take")'
                  /\ f' = f + Gain(Consumer, Empties, Producer, p, from, to)
             /\ Wait(p, "s_emptyslots") /\ p \in Producer /\ from \notin Fills /\ to = "acquire" =>
                  CountsSlots(EmptySlots, Producer, pc, "acquire")' /\ e' = e
             /\ Wait(p, "s_fullslots") /\ p \in Consumer /\ from \notin Empties /\ to = "take" =>
                  CountsSlots(FullSlots, Consumer, pc, "take")' /\ f' = f
             /\ Signal("s_emptyslots") /\ p \in Consumer /\ from \in Gives /\ to \notin Gives =>
                  CountsSlots(EmptySlots, Producer, pc, "acquire")' /\ e' = e
             /\ Signal("s_fullslots") /\ p \in Producer /\ from \in Gives /\ to \notin Gives =>
                  CountsSlots(FullSlots, Consumer, pc, "take")' /\ f' = f
<1> DEFINE e == SlotUnits(EmptySlots, Producer, pc, Fills, Consumer)
           f == SlotUnits(FullSlots, Consumer, pc, Empties, Producer)
<1>1. /\ IsFiniteSet(Producer) /\ IsFiniteSet(Consumer)
      /\ Producer \cap Consumer = {} /\ Consumer \cap Producer = {}
  BY BufferAssumption
<1>2. /\ Producer \union Consumer \subseteq DOMAIN pc /\ Consumer \union Producer \subseteq DOMAIN pc
      /\ p \in DOMAIN pc
  BY CoreLemma DEF BufferTypeOK, BufferProcess
<1>3. pc[p] = from /\ Goes(pc, pc', p, to)
  BY DEF Step, Goes
<1>4. /\ CountsSlots(EmptySlots, Producer, pc, "acquire") /\ CountsSlots(FullSlots, Consumer, pc, "take")
      /\ {"s_emptyslots", "s_fullslots"} \subseteq DOMAIN sems
  BY DEF SlotsCounted
<1>5. p \notin InQueue(EmptySlots.waiting) /\ p \notin InQueue(FullSlots.waiting)
  BY <1>4 DEF Step, Awake, WaitsIn, EmptySlots, FullSlots
<1>6. "acquire" \in Fills /\ "take" \in Empties
  BY DEF Fills, Empties
<1>7. e \in Int /\ f \in Int
  BY <1>1, <1>2, <1>3, <1>4, <1>5, SlotsMoveLemma
<1>8. ASSUME EmptySlots' = EmptySlots
      PROVE  /\ CountsSlots(EmptySlots, Producer, pc, "acquire")'
             /\ e' = e + Gain(Producer, Fills, Consumer, p, from, to)
  <2>1. /\ CountsSlots(EmptySlots, Producer, pc', "acquire")
        /\ SlotUnits(EmptySlots, Producer, pc', Fills, Consumer)
             = e + Gain(Producer, Fills, Consumer, p, pc[p], to)
    BY <1>1, <1>2, <1>3, <1>4, <1>5, SlotsMoveLemma
  <2> QED
    BY <1>3, <1>8, <2>1
<1>9. ASSUME FullSlots' = FullSlots
      PROVE  /\ CountsSlots(FullSlots, Consumer, pc, "take")'
             /\ f' = f + Gain(Consumer, Empties, Producer, p, from, to)
  <2>1. /\ CountsSlots(FullSlots, Consumer, pc', "take")
        /\ SlotUnits(FullSlots, Consumer, pc', Empties, Producer)
             = f + Gain(Consumer, Empties, Producer, p, pc[p], to)
    BY <1>1, <1>2, <1>3, <1>4, <1>5, SlotsMoveLemma
  <2> QED
    BY <1>3, <1>9, <2>1
<1>10. ASSUME Wait(p, "s_emptyslots"), p \in Producer, from \notin Fills, to = "acquire"
       PROVE  CountsSlots(EmptySlots, Producer, pc, "acquire")' /\ e' = e
  <2>1. AfterWait(EmptySlots, EmptySlots', p)
    BY <1>4, <1>10, SemCallsLemma DEF EmptySlots
  <2> QED
    <3>1. /\ CountsSlots(EmptySlots', Producer, pc', "acquire")
          /\ SlotUnits(EmptySlots', Producer, pc', Fills, Consumer) = e
      BY <1>1, <1>2, <1>3, <1>4, <1>5, <1>6, <1>10, <2>1, SlotsWaitLemma
    <3> QED
      BY <1>3, <3>1
<1>11. ASSUME Wait(p, "s_fullslots"), p \in Consumer, from \notin Empties, to = "take"
       PROVE  CountsSlots(FullSlots, Consumer, pc, "take")' /\ f' = f
  <2>1. AfterWait(FullSlots, FullSlots', p)
    BY <1>4, <1>11, SemCallsLemma DEF FullSlots
  <2> QED
    <3>1. /\ CountsSlots(FullSlots', Consumer, pc', "take")
          /\ SlotUnits(FullSlots', Consumer, pc', Empties, Producer) = f
      BY <1>1, <1>2, <1>3, <1>4, <1>5, <1>6, <1>11, <2>1, SlotsWaitLemma
    <3> QED
      BY <1>3, <3>1
<1>12. ASSUME Signal("s_emptyslots"), p \in Consumer, from \in Gives, to \notin Gives
       PROVE  CountsSlots(EmptySlots, Producer, pc, "acquire")' /\ e' = e
  <2>1. AfterSignal(EmptySlots, EmptySlots')
    BY <1>4, <1>12, SemCallsLemma DEF EmptySlots
  <2> QED
    <3>1. /\ CountsSlots(EmptySlots', Producer, pc', "acquire")
          /\ SlotUnits(EmptySlots', Producer, pc', Fills, Consumer) = e
      BY <1>1, <1>2, <1>3, <1>4, <1>6, <1>12, <2>1, SlotsSignalLemma
    <3> QED
      BY <1>3, <3>1
<1>13. ASSUME Signal("s_fullslots"), p \in Producer, from \in Gives, to \notin Gives
       PROVE  CountsSlots(FullSlots, Consumer, pc, "take")' /\ f' = f
  <2>1. AfterSignal(FullSlots, FullSlots')
    BY <1>4, <1>13, SemCallsLemma DEF FullSlots
  <2> QED
    <3>1. /\ CountsSlots(FullSlots', Consumer, pc', "take")
          /\ SlotUnits(FullSlots', Consumer, pc', Empties, Producer) = f
      BY <1>1, <1>2, <1>3, <1>4, <1>6, <1>13, <2>1, SlotsSignalLemma
    <3> QED
      BY <1>3, <3>1
<1> HIDE DEF e, f
<1>14. QED
  BY <1>7, <1>8, <1>9, <1>10, <1>11, <1>12, <1>13, Zenon DEF e, f

\* There is room where a producer of q3 inserts, and a character where a
\* consumer takes one.
LEMMA SlotsEnoughLemma ==
  ASSUME Core, app = "q3", SlotsCounted
  PROVE  /\ \A p \in Producer : pc[p] \in {"insert", "advance"} => Filled < Room /\ Filled < BUFFER_SIZE
         /\ \A c \in Consumer : pc[c] = "take" /\ Awake(c) => Filled > 0
<1> DEFINE H == Holding(EmptySlots, Producer, pc, Fills)
           G == Among(Consumer, pc, Gives)
           K == Holding(FullSlots, Consumer, pc, Empties)
           J == Among(Producer, pc, Gives)
<1>1. IsFiniteSet(H) /\ IsFiniteSet(G) /\ IsFiniteSet(K) /\ IsFiniteSet(J)
  BY BufferAssumption, FS_Subset DEF Holding, Among
<1>2. /\ Cardinality(H) \in Nat /\ Cardinality(G) \in Nat
      /\ Cardinality(K) \in Nat /\ Cardinality(J) \in Nat
  BY <1>1, FS_CardinalityType
<1>3. /\ EmptySlots.count \in Nat /\ FullSlots.count \in Nat
      /\ EmptySlots.count + Cardinality(H) + Cardinality(G) + Filled = BUFFER_SIZE
      /\ FullSlots.count + Cardinality(K) + Cardinality(J) = Filled
  BY DEF SlotsCounted, CountsSlots, SlotUnits, Units
<1>4. Room = BUFFER_SIZE /\ BUFFER_SIZE \in Nat /\ Filled \in Nat
  BY CoreLemma, RoomLemma, BufferAssumption DEF Room
<1>5. ASSUME NEW p \in Producer, pc[p] \in {"insert", "advance"}
      PROVE  Filled < BUFFER_SIZE
  <2>1. p \in H
    BY <1>5 DEF SlotsCounted, CountsSlots, Holding, Among, Fills
  <2>2. Cardinality(H) # 0
    BY <1>1, <2>1, FS_EmptySet
  <2> HIDE DEF H, G, K, J
  <2> QED
    BY <1>2, <1>3, <1>4, <2>2
<1>6. ASSUME NEW c \in Consumer, pc[c] = "take", Awake(c)
      PROVE  Filled > 0
  <2>1. c \notin InQueue(FullSlots.waiting)
    BY <1>6 DEF SlotsCounted, Awake, WaitsIn, FullSlots
  <2>2. c \in K
    BY <1>6, <2>1 DEF Holding, Among, Empties
  <2>3. Cardinality(K) # 0
    BY <1>1, <2>2, FS_EmptySet
  <2>4. FullSlots.count + Cardinality(K) + Cardinality(J) = Filled
    BY <1>3
  <2>5. FullSlots.count \in Nat /\ Cardinality(K) \in Nat \ {0} /\ Cardinality(J) \in Nat
    BY <1>2, <1>3, <2>3
  <2> HIDE DEF H, G, K, J
  <2> QED
    BY <2>4, <2>5
<1> QED
  BY <1>4, <1>5, <1>6

\* The units after a step that adds d characters.
LEMMA SlotsCountedLemma ==
  ASSUME Core, SlotsCounted, NEW d \in {-1, 0, 1}, Filled' = Filled + d,
         DOMAIN sems' = DOMAIN sems,
         CountsSlots(EmptySlots, Producer, pc, "acquire")',
         CountsSlots(FullSlots, Consumer, pc, "take")',
         SlotUnits(EmptySlots, Producer, pc, Fills, Consumer)'
           = SlotUnits(EmptySlots, Producer, pc, Fills, Consumer) - d,
         SlotUnits(FullSlots, Consumer, pc, Empties, Producer)'
           = SlotUnits(FullSlots, Consumer, pc, Empties, Producer) + d,
         SlotUnits(EmptySlots, Producer, pc, Fills, Consumer) \in Int
  PROVE  SlotsCounted'
<1> DEFINE e == SlotUnits(EmptySlots, Producer, pc, Fills, Consumer)
           f == SlotUnits(FullSlots, Consumer, pc, Empties, Producer)
<1>1. e + Filled = BUFFER_SIZE /\ f = Filled
  BY DEF SlotsCounted
<1>2. Filled \in Int /\ BUFFER_SIZE \in Int
  BY CoreLemma, RoomLemma, BufferAssumption
<1>3. e' = e - d /\ f' = f + d /\ e \in Int
  OBVIOUS
<1> HIDE DEF e, f
<1>4. e' + Filled' = BUFFER_SIZE /\ f' = Filled'
  BY <1>1, <1>2, <1>3
<1> QED
  BY <1>4 DEF e, f, SlotsCounted

\* A step of p without a call on either of them.
LEMMA SlotsKeptLemma ==
  ASSUME Core, SlotsCounted, NEW p \in BufferProcess, NEW from, NEW to, Step(p, from, to),
         NEW d \in {-1, 0, 1}, Filled' = Filled + d,
         \/ sems' = sems
         \/ Signal("s_procs_completed"),
         Gain(Producer, Fills, Consumer, p, from, to) = 0 - d,
         Gain(Consumer, Empties, Producer, p, from, to) = d
  PROVE  SlotsCounted'
<1> DEFINE e == SlotUnits(EmptySlots, Producer, pc, Fills, Consumer)
           f == SlotUnits(FullSlots, Consumer, pc, Empties, Producer)
<1>1. DOMAIN sems' = DOMAIN sems /\ EmptySlots' = EmptySlots /\ FullSlots' = FullSlots
  BY SemCallsLemma DEF SlotsCounted, EmptySlots, FullSlots
<1>2. /\ e \in Int /\ f \in Int
      /\ CountsSlots(EmptySlots, Producer, pc, "acquire")'
      /\ e' = e + Gain(Producer, Fills, Consumer, p, from, to)
      /\ CountsSlots(FullSlots, Consumer, pc, "take")'
      /\ f' = f + Gain(Consumer, Empties, Producer, p, from, to)
  BY <1>1, SlotsStepLemma
<1>3. e' = e - d /\ f' = f + d
  BY <1>2
<1> QED
  BY <1>1, <1>2, <1>3, SlotsCountedLemma

\* A call of p on one of them.
LEMMA SlotsCalledLemma ==
  ASSUME Core, SlotsCounted, NEW p \in BufferProcess, NEW from, NEW to, Step(p, from, to),
         Filled' = Filled,
         \/ Wait(p, "s_emptyslots") /\ p \in Producer /\ from = "loop" /\ to = "acquire"
         \/ Wait(p, "s_fullslots") /\ p \in Consumer /\ from = "wait" /\ to = "take"
         \/ Signal("s_emptyslots") /\ p \in Consumer /\ from = "signal" /\ to = "loop"
         \/ Signal("s_fullslots") /\ p \in Producer /\ from = "signal" /\ to = "loop"
  PROVE  SlotsCounted'
<1> DEFINE e == SlotUnits(EmptySlots, Producer, pc, Fills, Consumer)
           f == SlotUnits(FullSlots, Consumer, pc, Empties, Producer)
<1>1. {"s_emptyslots", "s_fullslots"} \subseteq DOMAIN sems
  BY DEF SlotsCounted
<1>2. DOMAIN sems' = DOMAIN sems
  BY <1>1, SemCallsLemma
<1>3. /\ Wait(p, "s_emptyslots") \/ Signal("s_emptyslots") => FullSlots' = FullSlots
      /\ Wait(p, "s_fullslots") \/ Signal("s_fullslots") => EmptySlots' = EmptySlots
  BY <1>1, SemCallsLemma DEF EmptySlots, FullSlots
<1>4. /\ "loop" \notin Fills /\ "wait" \notin Empties
      /\ "signal" \in Gives /\ "loop" \notin Gives
  BY DEF Fills, Empties, Gives
<1>5. /\ p \in Producer => Gain(Consumer, Empties, Producer, p, "loop", "acquire") = 0
      /\ p \in Consumer => Gain(Producer, Fills, Consumer, p, "wait", "take") = 0
      /\ p \in Consumer => Gain(Consumer, Empties, Producer, p, "signal", "loop") = 0
      /\ p \in Producer => Gain(Producer, Fills, Consumer, p, "signal", "loop") = 0
  BY BufferAssumption DEF Gain, Is, Fills, Empties, Gives
<1>6. e \in Int /\ f \in Int
  BY SlotsStepLemma
<1>7. /\ CountsSlots(EmptySlots, Producer, pc, "acquire")' /\ e' = e
      /\ CountsSlots(FullSlots, Consumer, pc, "take")' /\ f' = f
  <2>1. CASE Wait(p, "s_emptyslots") /\ p \in Producer /\ from = "loop" /\ to = "acquire"
    BY <1>3, <1>4, <1>5, <1>6, <2>1, SlotsStepLemma
  <2>2. CASE Wait(p, "s_fullslots") /\ p \in Consumer /\ from = "wait" /\ to = "take"
    BY <1>3, <1>4, <1>5, <1>6, <2>2, SlotsStepLemma
  <2>3. CASE Signal("s_emptyslots") /\ p \in Consumer /\ from = "signal" /\ to = "loop"
    BY <1>3, <1>4, <1>5, <1>6, <2>3, SlotsStepLemma
  <2>4. CASE Signal("s_fullslots") /\ p \in Producer /\ from = "signal" /\ to = "loop"
    BY <1>3, <1>4, <1>5, <1>6, <2>4, SlotsStepLemma
  <2> QED
    BY <2>1, <2>2, <2>3, <2>4
<1>8. Filled' = Filled + 0 /\ e' = e - 0 /\ f' = f + 0
  <2>1. Filled \in Int
    BY CoreLemma, RoomLemma
  <2> HIDE DEF e, f
  <2> QED
    BY <1>6, <1>7, <2>1
<1> QED
  BY <1>2, <1>6, <1>7, <1>8, SlotsCountedLemma

\* q3.
LEMMA SemGood ==
  ASSUME Core, app = "q3", SlotsCounted, NEW p,
         \/ p \in Producer /\ SemProducer(p)
         \/ p \in Consumer /\ SemConsumer(p)
  PROVE  Good /\ SlotsCounted'
<1>1. p \in BufferProcess
  BY DEF BufferProcess
<1>2. Filled \in Int /\ \A x : x = Filled => x = Filled + 0
  BY CoreLemma, RoomLemma
<1>3. /\ Net(p, "loop", "test", 0) = 0 /\ Net(p, "loop", "done", 0) = 0
      /\ Net(p, "loop", "acquire", 0) = 0 /\ Net(p, "acquire", "insert", 0) = 0
      /\ Net(p, "test", "wait", 0) = 0 /\ Net(p, "test", "retry", 0) = 0
      /\ Net(p, "wait", "take", 0) = 0 /\ Net(p, "retry", "loop", 0) = 0
      /\ Net(p, "release", "signal", 0) = 0 /\ Net(p, "signal", "loop", 1) = 0
      /\ "release" \in PastPlaces(p) /\ "release" \in {"release", "signal"}
  BY DEF Net, Past, PastPlaces
<1>4. /\ "test" \in Unsure /\ "insert" \in Unsure
      /\ KnowsAt(p, "retry") /\ KnowsAt(p, "acquire")
      /\ 0 \in {0, 1} /\ 1 \in {0, 1} /\ 0 - 0 = 0
      /\ -1 \in {-1, 0, 1} /\ 0 \in {-1, 0, 1} /\ 1 \in {-1, 0, 1}
  <2>1. /\ 0 \in {0, 1} /\ 1 \in {0, 1} /\ 0 - 0 = 0
        /\ -1 \in {-1, 0, 1} /\ 0 \in {-1, 0, 1} /\ 1 \in {-1, 0, 1}
    OBVIOUS
  <2> QED
    BY <2>1 DEF Unsure, KnowsAt
<1> DEFINE GE(from, to) == Gain(Producer, Fills, Consumer, p, from, to)
           GF(from, to) == Gain(Consumer, Empties, Producer, p, from, to)
<1>5. /\ GE("loop", "test") = 0 /\ GF("loop", "test") = 0
      /\ GE("loop", "done") = 0 /\ GF("loop", "done") = 0
      /\ GE("acquire", "insert") = 0 /\ GF("acquire", "insert") = 0
      /\ GE("insert", "advance") = 0 /\ GF("insert", "advance") = 0
      /\ GE("test", "wait") = 0 /\ GF("test", "wait") = 0
      /\ GE("test", "retry") = 0 /\ GF("test", "retry") = 0
      /\ GE("retry", "loop") = 0 /\ GF("retry", "loop") = 0
      /\ GE("release", "signal") = 0 /\ GF("release", "signal") = 0
  BY DEF Gain, Is, Fills, Empties, Gives
<1>6. /\ p \in Producer => GE("advance", "release") = 0 - 1 /\ GF("advance", "release") = 1
      /\ p \in Consumer => GE("take", "release") = 1 /\ GF("take", "release") = -1
  BY BufferAssumption DEF Gain, Is, Fills, Empties, Gives
<1>7. /\ "s_emptyslots" # "s_procs_completed" /\ "s_fullslots" # "s_procs_completed"
  OBVIOUS
<1>8. ASSUME NEW from, NEW to, Step(p, from, to), Good /\ Filled' = Filled,
             sems' = sems \/ Signal("s_procs_completed"), GE(from, to) = 0, GF(from, to) = 0
      PROVE  Good /\ SlotsCounted'
  <2>1. Filled' = Filled + 0
    BY <1>2, <1>8
  <2> QED
    BY <1>1, <1>4, <1>8, <2>1, SlotsKeptLemma
<1>9. ASSUME AcquireLock(p, "loop", "test") \/ AcquireLock(p, "acquire", "insert")
      PROVE  Good /\ SlotsCounted'
  <2>1. Good /\ Filled' = Filled
    BY <1>1, <1>3, <1>4, <1>9, AcquireLockGood
  <2>2. Step(p, "loop", "test") \/ Step(p, "acquire", "insert")
    BY <1>9 DEF AcquireLock
  <2>3. sems' = sems
    BY <1>9 DEF AcquireLock, Acquire
  <2> QED
    BY <1>5, <1>8, <2>1, <2>2, <2>3
<1>10. ASSUME Test(p, "test", "retry")
       PROVE  Good /\ SlotsCounted'
  <2>1. Good /\ Filled' = Filled
    BY <1>1, <1>3, <1>4, <1>10, TestGood
  <2>2. Step(p, "test", "retry") /\ sems' = sems
    BY <1>10 DEF Test, synchVars
  <2> QED
    BY <1>5, <1>8, <2>1, <2>2
<1>11. ASSUME HeadChar = Item(p), Test(p, "test", "wait")
       PROVE  Good /\ SlotsCounted'
  <2>1. KnowsAt(p, "wait")
    BY <1>11 DEF KnowsAt
  <2>2. Good /\ Filled' = Filled
    BY <1>1, <1>3, <1>11, <2>1, TestGood
  <2>3. Step(p, "test", "wait") /\ sems' = sems
    BY <1>11 DEF Test, synchVars
  <2> QED
    BY <1>5, <1>8, <2>2, <2>3
<1>12. ASSUME ReleaseLock(p, "retry", 0)
       PROVE  Good /\ SlotsCounted'
  <2>1. Good /\ Filled' = Filled
    BY <1>1, <1>3, <1>4, <1>12, ReleaseLockGood
  <2>2. Step(p, "retry", "loop") /\ sems' = sems
    BY <1>12 DEF ReleaseLock, Release
  <2> QED
    BY <1>5, <1>8, <2>1, <2>2
<1>13. ASSUME ReleaseThenSignal(p)
       PROVE  Good /\ SlotsCounted'
  <2>1. Good /\ Filled' = Filled
    BY <1>1, <1>3, <1>13, ReleaseThenSignalGood
  <2>2. Step(p, "release", "signal") /\ sems' = sems
    BY <1>13 DEF ReleaseThenSignal, Release
  <2> QED
    BY <1>5, <1>8, <2>1, <2>2
<1>14. ASSUME Complete(p)
       PROVE  Good /\ SlotsCounted'
  <2>1. Good /\ Filled' = Filled
    BY <1>1, <1>3, <1>14, CompleteGood
  <2>2. Step(p, "loop", "done") /\ Signal("s_procs_completed")
    BY <1>14 DEF Complete
  <2> QED
    BY <1>5, <1>8, <2>1, <2>2
<1>15. ASSUME WaitOn(p, "s_emptyslots", "loop", "acquire"), p \in Producer
       PROVE  Good /\ SlotsCounted'
  <2>1. Good /\ Filled' = Filled
    BY <1>1, <1>3, <1>4, <1>7, <1>15, WaitOnGood
  <2>2. Step(p, "loop", "acquire") /\ Wait(p, "s_emptyslots")
    BY <1>15 DEF WaitOn
  <2> QED
    BY <1>1, <1>15, <2>1, <2>2, SlotsCalledLemma
<1>16. ASSUME WaitOn(p, "s_fullslots", "wait", "take"), p \in Consumer
       PROVE  Good /\ SlotsCounted'
  <2>1. KnowsAt(p, "wait")
    BY <1>1, <1>16, KnowsLemma DEF WaitOn
  <2>2. KnowsAt(p, "take")
    BY <2>1 DEF KnowsAt
  <2>3. Good /\ Filled' = Filled
    BY <1>1, <1>3, <1>7, <1>16, <2>2, WaitOnGood
  <2>4. Step(p, "wait", "take") /\ Wait(p, "s_fullslots")
    BY <1>16 DEF WaitOn
  <2> QED
    BY <1>1, <1>16, <2>3, <2>4, SlotsCalledLemma
<1>17. ASSUME NEW s, SignalSlot(p, s),
              \/ s = "s_fullslots" /\ p \in Producer
              \/ s = "s_emptyslots" /\ p \in Consumer
       PROVE  Good /\ SlotsCounted'
  <2>1. Good /\ Filled' = Filled
    BY <1>1, <1>3, <1>7, <1>17, SignalSlotGood
  <2>2. Step(p, "signal", "loop") /\ Signal(s)
    BY <1>17 DEF SignalSlot
  <2> QED
    BY <1>1, <1>17, <2>1, <2>2, SlotsCalledLemma
<1>18. ASSUME Insert(p), p \in Producer
       PROVE  Good /\ SlotsCounted'
  <2>1. Step(p, "insert", "advance") /\ sems' = sems
    BY <1>18 DEF Insert, synchVars
  <2>2. Filled < BUFFER_SIZE
    BY <1>18, <2>1, SlotsEnoughLemma DEF Step
  <2>3. Good /\ Filled' = Filled
    BY <1>1, <1>18, <2>2, BufferOperationsLemma
  <2> QED
    BY <1>5, <1>8, <2>1, <2>3
<1>19. ASSUME AdvanceWrite(p, "release"), p \in Producer
       PROVE  Good /\ SlotsCounted'
  <2>1. Step(p, "advance", "release") /\ sems' = sems
    BY <1>19 DEF AdvanceWrite, synchVars
  <2>2. Filled < Room
    BY <1>19, <2>1, SlotsEnoughLemma DEF Step
  <2>3. Good /\ Filled' = Filled + 1
    BY <1>1, <1>3, <1>19, <2>2, BufferOperationsLemma
  <2> QED
    BY <1>1, <1>4, <1>6, <1>19, <2>1, <2>3, SlotsKeptLemma
<1>20. ASSUME Take(p, "release"), p \in Consumer
       PROVE  Good /\ SlotsCounted'
  <2>1. Step(p, "take", "release") /\ sems' = sems
    BY <1>20 DEF Take, synchVars
  <2>2. Filled > 0
    BY <1>20, <2>1, SlotsEnoughLemma DEF Step
  <2>3. Good /\ Filled' = Filled - 1
    BY <1>1, <1>3, <1>20, <2>2, BufferOperationsLemma
  <2>4. Filled' = Filled + (-1) /\ GE("take", "release") = 0 - (-1)
    BY <1>2, <1>6, <1>20, <2>3
  <2> QED
    BY <1>1, <1>4, <1>6, <1>20, <2>1, <2>3, <2>4, SlotsKeptLemma
<1> QED
  BY <1>9, <1>10, <1>11, <1>12, <1>13, <1>14, <1>15, <1>16, <1>17, <1>18, <1>19, <1>20, Zenon
     DEF SemProducer, SemConsumer

-----------------------------------------------------------------------------
(* The other steps *)

\* Nobody but a process that is created leaves its place.
Stands ==
  \A q \in BufferProcess : pc'[q] = pc[q] \/ (pc[q] = "uncreated" /\ pc'[q] = "loop")

\* A step in which the processes do nothing to the buffer.
LEMMA StandGood ==
  ASSUME Core, UNCHANGED <<app, counter, page, locks, conds>>, Stands
  PROVE  Good /\ Filled' = Filled
<1>1. IsBuffer /\ BufferTypeOK /\ ReturnInv /\ PageInv /\ TestsInv /\ CondsExist
  BY CoreLemma
<1>2. \A q : /\ "uncreated" \notin PastPlaces(q) /\ "loop" \notin PastPlaces(q)
             /\ PastPlaces(q)' = PastPlaces(q)
  BY DEF PastPlaces
<1>3. \A q \in BufferProcess : Moved(q)' = Moved(q)
  <2> SUFFICES ASSUME NEW q \in BufferProcess PROVE Moved(q)' = Moved(q)
    OBVIOUS
  <2>1. Moved(q) = counter[q] + Past(q, pc[q]) /\ Moved(q)' = counter'[q] + Past(q, pc'[q])
    BY <1>1, PastLemma
  <2>2. Past(q, pc'[q]) = Past(q, pc[q])
    BY <1>2 DEF Past, Stands
  <2> QED
    BY <2>1, <2>2
<1>4. UNCHANGED <<Inserted, Taken>>
  BY <1>3 DEF Inserted, Taken, BufferProcess
<1>5. PageInv' /\ UNCHANGED <<Contents, Filled>>
  BY <1>1, <1>4, QuietLemma DEF Quiet
<1>6. \A q : OnCond(q)' = OnCond(q) /\ OnLock(q)' = OnLock(q)
  BY DEF OnCond, OnLock
<1>7. \A q : Item(q)' = Item(q) /\ HeadChar' = HeadChar /\ Room' = Room /\ Unsure' = Unsure
  BY DEF Item, HeadChar, Room, Unsure
<1>8. TestsHold'
  <2> SUFFICES ASSUME NEW q \in BufferProcess, ~OnCond(q) PROVE Knows(q)'
    BY <1>6 DEF TestsHold
  <2>1. KnowsAt(q, pc[q])
    BY <1>1 DEF TestsInv, TestsHold, Knows
  <2>2. CASE pc'[q] = pc[q]
    BY <1>5, <1>7, <2>1, <2>2, Zenon DEF Knows, KnowsAt
  <2>3. CASE pc'[q] = "loop"
    BY <2>3 DEF Knows, KnowsAt
  <2> QED
    BY <2>2, <2>3 DEF Stands
<1>9. LockWaiters'
  <2>1. "uncreated" \notin Unsure
    BY DEF Unsure
  <2> QED
    BY <1>1, <1>6, <1>7, <2>1 DEF LockWaiters, TestsInv, Stands
<1>10. CondWaiters'
  BY <1>1 DEF CondWaiters, TestsInv, Stands, BufferProcess
<1> QED
  BY <1>4, <1>5, <1>8, <1>9, <1>10 DEF Good, TestsInv, Simulates

\* It leaves the semaphores as they are, or is a call on the one of makeprocs.
LEMMA SlotsStandLemma ==
  ASSUME Core, SlotsCounted, Stands, Filled' = Filled,
         sems' = sems \/ Wait(makeprocs, "s_procs_completed")
  PROVE  SlotsCounted'
<1>1. DOMAIN sems' = DOMAIN sems /\ EmptySlots' = EmptySlots /\ FullSlots' = FullSlots
  BY SemCallsLemma DEF SlotsCounted, EmptySlots, FullSlots
<1>2. ASSUME NEW S, S \subseteq BufferProcess, NEW P, "uncreated" \notin P, "loop" \notin P
      PROVE  Among(S, pc', P) = Among(S, pc, P)
  BY <1>2 DEF Among, Stands
<1>3. ASSUME NEW S, S \subseteq BufferProcess, NEW at, at # "uncreated", NEW sem,
             CountsSlots(sem, S, pc, at)
      PROVE  CountsSlots(sem, S, pc', at)
  <2>1. InQueue(sem.waiting) \subseteq S
    BY <1>3 DEF CountsSlots, InQueue
  <2> QED
    BY <1>3, <2>1 DEF CountsSlots, Stands
<1>4. /\ "uncreated" \notin Fills /\ "loop" \notin Fills /\ "uncreated" \notin Empties
      /\ "loop" \notin Empties /\ "uncreated" \notin Gives /\ "loop" \notin Gives
  BY DEF Fills, Empties, Gives
<1>5. Producer \subseteq BufferProcess /\ Consumer \subseteq BufferProcess
  BY DEF BufferProcess
<1>6. /\ Among(Producer, pc', Fills) = Among(Producer, pc, Fills)
      /\ Among(Consumer, pc', Empties) = Among(Consumer, pc, Empties)
      /\ Among(Producer, pc', Gives) = Among(Producer, pc, Gives)
      /\ Among(Consumer, pc', Gives) = Among(Consumer, pc, Gives)
  BY <1>2, <1>4, <1>5
<1>7. /\ SlotUnits(EmptySlots, Producer, pc', Fills, Consumer)
           = SlotUnits(EmptySlots, Producer, pc, Fills, Consumer)
      /\ SlotUnits(FullSlots, Consumer, pc', Empties, Producer)
           = SlotUnits(FullSlots, Consumer, pc, Empties, Producer)
  BY <1>6 DEF SlotUnits, Units, Holding
<1>8. /\ CountsSlots(EmptySlots, Producer, pc', "acquire")
      /\ CountsSlots(FullSlots, Consumer, pc', "take")
  BY <1>3, <1>5 DEF SlotsCounted
<1> QED
  BY <1>1, <1>7, <1>8 DEF SlotsCounted

\* The steps that are not a round of a child.
LEMMA StandsLemma ==
  ASSUME Core, \/ \E p \in Children : CreateChild(p, CreatedFirst)
               \/ WaitForChildren
               \/ UNCHANGED vars
  PROVE  /\ UNCHANGED <<app, counter, page, locks, conds>> /\ Stands
         /\ sems' = sems \/ Wait(makeprocs, "s_procs_completed")
<1>1. /\ Children = BufferProcess /\ makeprocs \notin BufferProcess
      /\ DOMAIN pc = BufferProcess \union {makeprocs}
  BY CoreLemma, BufferAssumption DEF BufferProcess, BufferTypeOK
<1>2. CASE \E p \in Children : CreateChild(p, CreatedFirst)
  <2>1. PICK p \in Children : CreateChild(p, CreatedFirst)
    BY <1>2
  <2>2. pc[p] = "uncreated" /\ pc' = [pc EXCEPT ![p] = "loop"]
    BY <2>1 DEF CreateChild
  <2>3. Stands
    BY <1>1, <2>2 DEF Stands
  <2> QED
    BY <2>1, <2>3 DEF CreateChild, synchVars
<1>3. CASE WaitForChildren
  <2>1. pc' = [pc EXCEPT ![makeprocs] = "done"] /\ Wait(makeprocs, "s_procs_completed")
    BY <1>3 DEF WaitForChildren, Step
  <2>2. Stands
    BY <1>1, <2>1 DEF Stands
  <2> QED
    BY <1>3, <2>1, <2>2, SemaphoresLemma DEF WaitForChildren
<1>4. CASE UNCHANGED vars
  BY <1>4 DEF vars, synchVars, progVars, Stands
<1> QED
  BY <1>2, <1>3, <1>4

-----------------------------------------------------------------------------
(* The inductive invariant and the theorems *)

\* What the theorems need to know of a buffer's program that runs.
Known == Core /\ (app = "q3" => SlotsCounted)

ContentsInv == StrongInv /\ ReturnInv /\ (IsBuffer => Known)

\* Each step of q2, q3 and q4.
LEMMA StepGood ==
  ASSUME Known, [Next]_vars
  PROVE  Good /\ (app = "q3" => SlotsCounted')
<1>1. Core /\ IsBuffer /\ Children = BufferProcess
  BY CoreLemma DEF Known
<1>2. ASSUME \/ \E p \in Children : CreateChild(p, CreatedFirst)
             \/ WaitForChildren
             \/ UNCHANGED vars
      PROVE  Good /\ (app = "q3" => SlotsCounted')
  BY <1>1, <1>2, StandsLemma, StandGood, SlotsStandLemma DEF Known
<1>3. ASSUME NEW p \in Children, BufferStep(p)
      PROVE  Good /\ (app = "q3" => SlotsCounted')
  <2>1. CASE app = "q2"
    <3>1. \/ p \in Producer /\ LockProducer(p)
          \/ p \in Consumer /\ LockConsumer(p)
      BY <1>3, <2>1 DEF BufferStep
    <3> QED
      BY <1>1, <2>1, <3>1, LockGood
  <2>2. CASE app = "q3"
    <3>1. \/ p \in Producer /\ SemProducer(p)
          \/ p \in Consumer /\ SemConsumer(p)
      BY <1>3, <2>2 DEF BufferStep
    <3> QED
      BY <1>1, <2>2, <3>1, SemGood DEF Known
  <2>3. CASE app = "q4"
    <3>1. \/ p \in Producer /\ MonitorProducer(p)
          \/ p \in Consumer /\ MonitorConsumer(p)
      BY <1>3, <2>3 DEF BufferStep
    <3> QED
      BY <1>1, <2>3, <3>1, MonitorGood
  <2> QED
    BY <1>3, <2>1, <2>2, <2>3 DEF BufferStep
<1>4. ASSUME NEW p \in Children, ChildStep(p)
      PROVE  Good /\ (app = "q3" => SlotsCounted')
  BY <1>1, <1>2, <1>3, <1>4 DEF ChildStep, ReactionsStep, IsBuffer
<1> QED
  BY <1>2, <1>4, Zenon DEF Next, NobodyRuns

\* Each step of each of the programs preserves the invariant.
LEMMA NextPreservesContents == ContentsInv /\ [Next]_vars => ContentsInv'
<1> SUFFICES ASSUME ContentsInv, [Next]_vars PROVE ContentsInv'
  OBVIOUS
<1>1. StrongInv' /\ ReturnInv'
  BY NextPreservesInv, NextPreservesReturn DEF ContentsInv
<1>2. app' = app /\ IsBuffer' = IsBuffer
  BY AppLemma DEF IsBuffer
<1>3. ASSUME IsBuffer
      PROVE  Known'
  <2>1. Good /\ (app = "q3" => SlotsCounted')
    BY <1>3, StepGood DEF ContentsInv
  <2> QED
    BY <1>1, <1>2, <2>1 DEF Known, Core, Good
<1> QED
  BY <1>1, <1>2, <1>3 DEF ContentsInv

\* Nothing is in the buffer, and nobody in its code, when it is set up.
LEMMA InitContents ==
  ASSUME Init
  PROVE  /\ Contents = <<>>
         /\ Inserted = [p \in Producer |-> 0] /\ Taken = [c \in Consumer |-> 0]
         /\ IsBuffer => PageInv /\ TestsInv /\ \A p \in BufferProcess : pc[p] = "uncreated"
         /\ Filled = 0
<1>1. StrongInv
  BY InitEstablishesInv
<1>2. ASSUME IsBuffer
      PROVE  BufferInit /\ \A p \in BufferProcess : pc[p] = "uncreated" /\ counter[p] = 0
  <2>1. BufferInit
    BY <1>2 DEF Init, IsBuffer, LockBufferInit, SemBufferInit, MonitorBufferInit
  <2>2. makeprocs \notin BufferProcess
    BY BufferAssumption DEF BufferProcess
  <2> QED
    BY <2>1, <2>2 DEF BufferInit, Uncreated
<1>3. Inserted = [p \in Producer |-> 0] /\ Taken = [c \in Consumer |-> 0]
  <2>1. \A p \in BufferProcess : Moved(p) = 0
    BY <1>2, SMTT(30) DEF Moved, HasMoved
  <2> QED
    BY <2>1 DEF Inserted, Taken, BufferProcess
<1>4. Total(Inserted) = 0 /\ Total(Taken) = 0 /\ Filled = 0
  <2>1. Total(Inserted) = 0 /\ Total(Taken) = 0
    BY <1>3, NothingLemma
  <2> QED
    BY <2>1 DEF Filled
<1>5. Contents = <<>>
  <2>1. IsBuffer => Contents = RawRow(page, 0)
    BY <1>4 DEF Contents, RawRow
  <2>2. RawRow(page, 0) = <<>>
    BY DEF RawRow
  <2> QED
    BY <2>1, <2>2 DEF Contents
<1>6. ASSUME IsBuffer
      PROVE  PageInv /\ TestsInv
  <2>1. page = [buffer |-> [i \in Slot |-> Nothing], w_idx |-> 0, r_idx |-> 0]
    BY <1>2, <1>6 DEF BufferInit
  <2>2. 0 \in Slot /\ Nothing \in Int /\ Room \in Nat /\ BUFFER_SIZE \in Nat \ {0}
    BY BufferAssumption DEF Slot, Nothing, Room
  <2>3. PageOK
    <3>1. page \in [buffer : [Slot -> Int], w_idx : Slot, r_idx : Slot]
      BY <2>1, <2>2
    <3>2. Behind(0, 0) = 0
      BY <2>2 DEF Behind
    <3> QED
      BY <1>4, <2>1, <2>2, <3>1, <3>2 DEF PageOK
  <2>4. BufferInv(Contents, Inserted, Taken)
    BY <1>3, <1>5, EmptyLemma
  <2>5. TestsHold
    BY <1>2, <1>6 DEF TestsHold, Knows, KnowsAt
  <2>6. \A q \in BufferProcess : ~OnLock(q)
    BY <1>2, <1>6 DEF OnLock, BufferInit, InQueue
  <2>7. CondWaiters
    <3> SUFFICES ASSUME app = "q4"
                 PROVE  /\ InQueue(conds["not_full"].waiting) = {}
                        /\ InQueue(conds["not_empty"].waiting) = {}
      BY DEF CondWaiters
    <3>1. conds = [c \in {"not_full", "not_empty"} |-> [lock |-> "lock", waiting |-> <<>>]]
      BY DEF Init, MonitorBufferInit
    <3> QED
      BY <3>1 DEF InQueue
  <2> QED
    BY <1>6, <2>3, <2>4, <2>5, <2>6, <2>7 DEF PageInv, TestsInv, LockWaiters
<1> QED
  BY <1>2, <1>3, <1>4, <1>5, <1>6

\* The semaphores of q3 count that.
LEMMA InitSlots ==
  ASSUME Init, app = "q3"
  PROVE  SlotsCounted
<1>1. /\ sems = [s_procs_completed |-> ProcsCompleted,
                 s_fullslots |-> NewSemOf(0),
                 s_emptyslots |-> NewSemOf(BUFFER_SIZE)]
      /\ BUFFER_SIZE \in Nat
  BY BufferAssumption DEF Init, SemBufferInit
<1>2. Filled = 0 /\ \A p \in Producer \union Consumer : pc[p] = "uncreated"
  BY InitContents DEF IsBuffer, BufferProcess
<1>3. /\ EmptySlots = [count |-> BUFFER_SIZE, waiting |-> <<>>]
      /\ FullSlots = [count |-> 0, waiting |-> <<>>]
      /\ {"s_emptyslots", "s_fullslots"} \subseteq DOMAIN sems
  BY <1>1 DEF EmptySlots, FullSlots, NewSemOf
<1>4. /\ CountsSlots(EmptySlots, Producer, pc, "acquire")
      /\ CountsSlots(FullSlots, Consumer, pc, "take")
  <2>1. InQueue(<<>>) = {} /\ NoDuplicates(<<>>)
    BY DEF InQueue, NoDuplicates
  <2>2. \A S : <<>> \in Seq(S)
    OBVIOUS
  <2> QED
    BY <1>1, <1>3, <2>1, <2>2 DEF CountsSlots
<1>5. /\ Among(Producer, pc, Fills) = {} /\ Among(Consumer, pc, Empties) = {}
      /\ Among(Producer, pc, Gives) = {} /\ Among(Consumer, pc, Gives) = {}
  BY <1>2 DEF Among, Fills, Empties, Gives
<1>6. \A sem, S, P : Among(S, pc, P) = {} => Holding(sem, S, pc, P) = {}
  BY DEF Holding
<1>7. /\ SlotUnits(EmptySlots, Producer, pc, Fills, Consumer) = BUFFER_SIZE + 0 + 0
      /\ SlotUnits(FullSlots, Consumer, pc, Empties, Producer) = 0 + 0 + 0
  <2>1. Cardinality({}) = 0
    BY FS_EmptySet
  <2>2. EmptySlots.count = BUFFER_SIZE /\ FullSlots.count = 0
    BY <1>3
  <2> QED
    BY <1>5, <1>6, <2>1, <2>2 DEF SlotUnits, Units
<1> QED
  BY <1>1, <1>2, <1>3, <1>4, <1>7 DEF SlotsCounted

\* So the invariant holds at the beginning.
LEMMA InitEstablishesContents == Init => ContentsInv
BY InitEstablishesInv, InitEstablishesReturn, InitContents, InitSlots
   DEF ContentsInv, Known, Core

\* In q2, q3 and q4 a producer has room where it inserts, and the character
\* that a consumer expects heads the buffer where it takes one, whatever other
\* processes did since the test or the wait that said so.
THEOREM TestsStillHold == Spec => []TestStillHolds
<1>1. ASSUME ContentsInv, IsBuffer
      PROVE  /\ \A p \in Producer :
                  pc[p] \in {"insert", "advance"} /\ Awake(p) => Len(Contents) < Room
             /\ \A c \in Consumer :
                  /\ pc[c] = "take" /\ Awake(c) => Contents # <<>> /\ Head(Contents) = Item(c)
                  /\ pc[c] = "look" /\ Awake(c) => Contents # <<>>
  <2>1. Core /\ PageOK /\ TestsInv /\ (app = "q3" => SlotsCounted)
    BY <1>1, CoreLemma DEF ContentsInv, Known
  <2>2. /\ Len(Contents) = Filled /\ (Contents # <<>> <=> Filled > 0)
        /\ Filled > 0 => Head(Contents) = HeadChar
    BY <1>1, <2>1, ContentsLemma
  <2>3. ASSUME NEW p \in BufferProcess, Awake(p)
        PROVE  KnowsAt(p, pc[p])
    BY <2>1, <2>3 DEF TestsInv, TestsHold, Knows, Awake, WaitsIn, OnCond
  <2>4. ASSUME NEW p \in Producer, pc[p] \in {"insert", "advance"}, Awake(p)
        PROVE  Filled < Room
    BY <2>1, <2>3, <2>4, SlotsEnoughLemma DEF KnowsAt, BufferProcess
  <2>5. ASSUME NEW c \in Consumer, pc[c] = "take", Awake(c)
        PROVE  Filled > 0 /\ HeadChar = Item(c)
    BY <2>1, <2>3, <2>5, SlotsEnoughLemma DEF KnowsAt, BufferProcess
  <2>6. ASSUME NEW c \in Consumer, pc[c] = "look", Awake(c)
        PROVE  Filled > 0
    BY <2>3, <2>6 DEF KnowsAt, BufferProcess
  <2> QED
    BY <2>2, <2>4, <2>5, <2>6
<1>2. ContentsInv => TestStillHolds
  BY <1>1 DEF TestStillHolds
<1> QED
  BY InitEstablishesContents, NextPreservesContents, <1>2, PTL DEF Spec

\* In q2, q3 and q4 some consumer expects the head of the buffer, so the
\* characters never get stuck, in whatever order they were inserted.
THEOREM SomeoneExpectsHead == Spec => []HeadIsExpected
<1>1. ContentsInv => HeadIsExpected
  <2> SUFFICES ASSUME ContentsInv, Contents # <<>>
               PROVE  \E c \in Consumer : Taken[c] = Head(Contents)
    BY DEF HeadIsExpected
  <2>1. IsBuffer
    BY Zenon DEF Contents
  <2>2. BufferInv(Contents, Inserted, Taken)
    BY <2>1, CoreLemma DEF ContentsInv, Known, PageInv
  <2> QED
    BY <2>2, ExpectedLemma
<1> QED
  BY InitEstablishesContents, NextPreservesContents, <1>1, PTL DEF Spec

\* q2, q3 and q4 are bounded buffers: each character that a producer inserts is
\* taken once, in the order of insertion, and by a consumer whose turn it is.
THEOREM BufferIsBounded == Spec => ImplementsBoundedBuffer
<1>1. Init => Bounded!Init
  BY InitContents DEF Bounded!Init
<1>2. ContentsInv /\ [Next]_vars => [Bounded!Next]_<<Contents, Inserted, Taken>>
  <2> SUFFICES ASSUME ContentsInv, [Next]_vars
               PROVE  Bounded!Next \/ UNCHANGED <<Contents, Inserted, Taken>>
    OBVIOUS
  <2>1. CASE IsBuffer
    <3>1. Simulates
      BY <2>1, StepGood DEF ContentsInv, Good
    <3> QED
      BY <3>1 DEF Simulates, Bounded!Next
  <2>2. CASE ~IsBuffer
    <3>1. ~IsBuffer'
      BY <2>2, AppLemma DEF IsBuffer
    <3>2. \A p : Moved(p) = 0 /\ Moved(p)' = 0
      BY <2>2, <3>1 DEF Moved
    <3> QED
      BY <2>2, <3>1, <3>2 DEF Contents, Inserted, Taken
  <2> QED
    BY <2>1, <2>2
<1> QED
  BY InitEstablishesContents, NextPreservesContents, <1>1, <1>2, PTL
     DEF Spec, ImplementsBoundedBuffer, Bounded!Spec

-----------------------------------------------------------------------------
(* The rounds of a reaction *)

\* The length and the calls of a round.
LEMMA RoundLemma ==
  ASSUME NEW p \in Reaction
  PROVE  /\ Len(Waits[p]) \in 1 .. 2 /\ Len(Script(p)) \in 1 .. 5
         /\ Len(Waits[p]) < Len(Script(p))
         /\ \A i \in 1 .. Len(Script(p)) : Script(p)[i] \in Molecule
<1>1. /\ Waits[p] \in Seq(Molecule) /\ Len(Waits[p]) \in 1 .. 2
      /\ Signals[p] \in Seq(Molecule) /\ Len(Signals[p]) \in 1 .. 3
  <2>1. CASE p = "R1"
    BY <2>1 DEF Waits, Signals, Molecule
  <2>2. CASE p = "R2"
    BY <2>2 DEF Waits, Signals, Molecule
  <2>3. CASE p = "R3"
    BY <2>3 DEF Waits, Signals, Molecule
  <2> QED
    BY <2>1, <2>2, <2>3 DEF Reaction
<1>2. /\ Script(p) \in Seq(Molecule)
      /\ Len(Script(p)) = Len(Waits[p]) + Len(Signals[p])
  BY <1>1, ConcatProperties DEF Script
<1>3. \A i \in 1 .. Len(Script(p)) : Script(p)[i] \in Molecule
  BY <1>2, ElementOfSeq
<1>4. \A a \in 1 .. 2, b \in 1 .. 3 : a + b \in 1 .. 5 /\ a < a + b
  OBVIOUS
<1> QED
  BY <1>1, <1>2, <1>3, <1>4, Zenon

\* The calls among the first k for which Q holds, of which the last may be one.
LEMMA CallsCountLemma ==
  ASSUME NEW k \in Nat \ {0}, NEW Q, NEW A, NEW B,
         A = {i \in 1 .. k : i \in Q}, B = {i \in 1 .. k - 1 : i \in Q}
  PROVE  /\ Cardinality(A) \in Int /\ Cardinality(B) \in Int
         /\ Cardinality(A) = Cardinality(B) + Is(k \in Q)
<1>1. IsFiniteSet(B)
  <2>1. B \in SUBSET (1 .. k - 1) /\ 1 \in Int /\ k - 1 \in Int
    OBVIOUS
  <2> QED
    BY <2>1, FS_Interval, FS_Subset
<1>2. A \ {k} = B \ {k} /\ k \notin B /\ (k \in A) = (k \in Q)
  <2>1. \A i : i \in 1 .. k /\ i # k <=> i \in 1 .. k - 1
    OBVIOUS
  <2> QED
    BY <2>1
<1>3. /\ Cardinality(A) \in Int /\ Cardinality(B) \in Int
      /\ Cardinality(A) = Cardinality(B) + Is(k \in A) - Is(k \in B)
  BY <1>1, <1>2, MemberLemma
<1>4. Is(k \in B) = 0 /\ Is(k \in A) = Is(k \in Q) /\ Is(k \in Q) \in Int
  BY <1>2 DEF Is
<1> QED
  BY <1>3, <1>4

\* What the k-th call of p's round does to the molecules m that p holds.
Effect(p, k, m) ==
  IF Script(p)[k] # m THEN 0 ELSE IF k <= Len(Waits[p]) THEN 1 ELSE -1

\* What p holds after one call more.
LEMMA HeldLemma ==
  ASSUME NEW p \in Reaction, NEW k \in Nat, NEW m
  PROVE  /\ HeldAfter(p, k, m) \in Int
         /\ HeldAfter(p, 0, m) = 0
         /\ k > 0 => HeldAfter(p, k, m) = HeldAfter(p, k - 1, m) + Effect(p, k, m)
<1> DEFINE W(j) == {i \in 1 .. j : i <= Len(Waits[p]) /\ Script(p)[i] = m}
           S(j) == {i \in 1 .. j : i > Len(Waits[p]) /\ Script(p)[i] = m}
           WQ == {i \in Int : i <= Len(Waits[p]) /\ Script(p)[i] = m}
           SQ == {i \in Int : i > Len(Waits[p]) /\ Script(p)[i] = m}
<1>1. \A j : HeldAfter(p, j, m) = Cardinality(W(j)) - Cardinality(S(j))
  BY DEF HeldAfter
<1>2. HeldAfter(p, 0, m) = 0
  <2>1. W(0) = {} /\ S(0) = {}
    OBVIOUS
  <2> HIDE DEF W, S
  <2> QED
    BY <1>1, <2>1, FS_EmptySet
<1>3. \A j : W(j) = {i \in 1 .. j : i \in WQ} /\ S(j) = {i \in 1 .. j : i \in SQ}
  OBVIOUS
<1> HIDE DEF W, S
<1>4. HeldAfter(p, k, m) \in Int
  <2>1. IsFiniteSet(W(k)) /\ IsFiniteSet(S(k))
    <3>1. W(k) \in SUBSET (1 .. k) /\ S(k) \in SUBSET (1 .. k)
      BY DEF W, S
    <3> QED
      BY <3>1, FS_Interval, FS_Subset
  <2> QED
    BY <1>1, <2>1, FS_CardinalityType
<1>5. ASSUME k > 0
      PROVE  HeldAfter(p, k, m) = HeldAfter(p, k - 1, m) + Effect(p, k, m)
  <2>1. k \in Nat \ {0}
    BY <1>5
  <2>2. /\ W(k) = {i \in 1 .. k : i \in WQ} /\ W(k - 1) = {i \in 1 .. k - 1 : i \in WQ}
        /\ S(k) = {i \in 1 .. k : i \in SQ} /\ S(k - 1) = {i \in 1 .. k - 1 : i \in SQ}
    BY <1>3
  <2>3. Len(Waits[p]) \in Int
    BY RoundLemma
  <2>4. /\ Is(k \in WQ) - Is(k \in SQ) = Effect(p, k, m)
        /\ Is(k \in WQ) \in Int /\ Is(k \in SQ) \in Int
    BY <2>1, <2>3 DEF Is, Effect
  <2> HIDE DEF WQ, SQ
  <2>5. /\ Cardinality(W(k)) \in Int /\ Cardinality(W(k - 1)) \in Int
        /\ Cardinality(W(k)) = Cardinality(W(k - 1)) + Is(k \in WQ)
    BY <2>1, <2>2, CallsCountLemma
  <2>6. /\ Cardinality(S(k)) \in Int /\ Cardinality(S(k - 1)) \in Int
        /\ Cardinality(S(k)) = Cardinality(S(k - 1)) + Is(k \in SQ)
    BY <2>1, <2>2, CallsCountLemma
  <2> QED
    BY <1>1, <2>4, <2>5, <2>6
<1> QED
  BY <1>2, <1>4, <1>5

\* The scripts, spelled out.
LEMMA ScriptsLemma ==
  /\ Len(Waits["R1"]) = 1 /\ Len(Script("R1")) = 4
  /\ Script("R1")[1] = "N3" /\ Script("R1")[2] = "N" /\ Script("R1")[3] = "N"
  /\ Script("R1")[4] = "N"
  /\ Len(Waits["R2"]) = 2 /\ Len(Script("R2")) = 5
  /\ Script("R2")[1] = "H2O" /\ Script("R2")[2] = "H2O" /\ Script("R2")[3] = "H2"
  /\ Script("R2")[4] = "H2" /\ Script("R2")[5] = "O2"
  /\ Len(Waits["R3"]) = 2 /\ Len(Script("R3")) = 3
  /\ Script("R3")[1] = "N" /\ Script("R3")[2] = "O2" /\ Script("R3")[3] = "NO2"
<1>1. /\ Len(Waits["R1"]) = 1 /\ Len(Script("R1")) = 4
      /\ Script("R1")[1] = "N3" /\ Script("R1")[2] = "N" /\ Script("R1")[3] = "N"
      /\ Script("R1")[4] = "N"
  <2> DEFINE w == Waits["R1"]
             s == Signals["R1"]
  <2>1. w = <<"N3">> /\ s = <<"N", "N", "N">>
    BY DEF Waits, Signals
  <2>2. w \in Seq(Molecule) /\ s \in Seq(Molecule) /\ Len(w) = 1 /\ Len(s) = 3
    BY <2>1 DEF Molecule
  <2>3. w[1] = "N3" /\ s[1] = "N" /\ s[2] = "N" /\ s[3] = "N"
    BY <2>1
  <2> HIDE DEF w, s
  <2>4. /\ Len(w \o s) = Len(w) + Len(s)
        /\ \A i \in 1 .. Len(w) + Len(s) : (w \o s)[i] = IF i <= Len(w) THEN w[i] ELSE s[i - Len(w)]
    BY <2>2, ConcatProperties
  <2>5. Script("R1") = w \o s /\ Len(Waits["R1"]) = Len(w)
    BY DEF Script, w, s
  <2>6. /\ Len(w \o s) = 4
        /\ (w \o s)[1] = "N3" /\ (w \o s)[2] = "N" /\ (w \o s)[3] = "N" /\ (w \o s)[4] = "N"
    BY <2>2, <2>3, <2>4
  <2> QED
    BY <2>2, <2>5, <2>6, Zenon
<1>2. /\ Len(Waits["R2"]) = 2 /\ Len(Script("R2")) = 5
      /\ Script("R2")[1] = "H2O" /\ Script("R2")[2] = "H2O" /\ Script("R2")[3] = "H2"
      /\ Script("R2")[4] = "H2" /\ Script("R2")[5] = "O2"
  <2> DEFINE w == Waits["R2"]
             s == Signals["R2"]
  <2>1. w = <<"H2O", "H2O">> /\ s = <<"H2", "H2", "O2">>
    BY DEF Waits, Signals
  <2>2. w \in Seq(Molecule) /\ s \in Seq(Molecule) /\ Len(w) = 2 /\ Len(s) = 3
    BY <2>1 DEF Molecule
  <2>3. w[1] = "H2O" /\ w[2] = "H2O" /\ s[1] = "H2" /\ s[2] = "H2" /\ s[3] = "O2"
    BY <2>1
  <2> HIDE DEF w, s
  <2>4. /\ Len(w \o s) = Len(w) + Len(s)
        /\ \A i \in 1 .. Len(w) + Len(s) : (w \o s)[i] = IF i <= Len(w) THEN w[i] ELSE s[i - Len(w)]
    BY <2>2, ConcatProperties
  <2>5. Script("R2") = w \o s /\ Len(Waits["R2"]) = Len(w)
    BY DEF Script, w, s
  <2>6. /\ Len(w \o s) = 5 /\ (w \o s)[1] = "H2O" /\ (w \o s)[2] = "H2O"
        /\ (w \o s)[3] = "H2" /\ (w \o s)[4] = "H2" /\ (w \o s)[5] = "O2"
    BY <2>2, <2>3, <2>4
  <2> QED
    BY <2>2, <2>5, <2>6, Zenon
<1>3. /\ Len(Waits["R3"]) = 2 /\ Len(Script("R3")) = 3
      /\ Script("R3")[1] = "N" /\ Script("R3")[2] = "O2" /\ Script("R3")[3] = "NO2"
  <2> DEFINE w == Waits["R3"]
             s == Signals["R3"]
  <2>1. w = <<"N", "O2">> /\ s = <<"NO2">>
    BY DEF Waits, Signals
  <2>2. w \in Seq(Molecule) /\ s \in Seq(Molecule) /\ Len(w) = 2 /\ Len(s) = 1
    BY <2>1 DEF Molecule
  <2>3. w[1] = "N" /\ w[2] = "O2" /\ s[1] = "NO2"
    BY <2>1
  <2> HIDE DEF w, s
  <2>4. /\ Len(w \o s) = Len(w) + Len(s)
        /\ \A i \in 1 .. Len(w) + Len(s) : (w \o s)[i] = IF i <= Len(w) THEN w[i] ELSE s[i - Len(w)]
    BY <2>2, ConcatProperties
  <2>5. Script("R3") = w \o s /\ Len(Waits["R3"]) = Len(w)
    BY DEF Script, w, s
  <2>6. Len(w \o s) = 3 /\ (w \o s)[1] = "N" /\ (w \o s)[2] = "O2" /\ (w \o s)[3] = "NO2"
    BY <2>2, <2>3, <2>4
  <2> QED
    BY <2>2, <2>5, <2>6, Zenon
<1> QED
  BY <1>1, <1>2, <1>3

\* What p holds after a whole round, were it not to begin a new one.
Whole(p) == [m \in Molecule |-> HeldAfter(p, Len(Script(p)), m)]

\* A reaction makes as many atoms as it takes, of each kind.
LEMMA BalanceLemma ==
  ASSUME NEW p \in Reaction
  PROVE  Nitrogen(Whole(p)) = 0 /\ Hydrogen(Whole(p)) = 0 /\ Oxygen(Whole(p)) = 0
<1> DEFINE H(q, k, m) == HeldAfter(q, k, m)
<1>1. \A q \in Reaction : \A m : H(q, 0, m) = 0
  BY HeldLemma
<1>2. \A q \in Reaction : \A m :
        /\ H(q, 1, m) = H(q, 0, m) + Effect(q, 1, m)
        /\ H(q, 2, m) = H(q, 1, m) + Effect(q, 2, m)
        /\ H(q, 3, m) = H(q, 2, m) + Effect(q, 3, m)
        /\ H(q, 4, m) = H(q, 3, m) + Effect(q, 4, m)
        /\ H(q, 5, m) = H(q, 4, m) + Effect(q, 5, m)
  <2> SUFFICES ASSUME NEW q \in Reaction, NEW m, NEW k \in {1, 2, 3, 4, 5}
               PROVE  H(q, k, m) = H(q, k - 1, m) + Effect(q, k, m)
    OBVIOUS
  <2>1. k \in Nat /\ k > 0
    OBVIOUS
  <2> QED
    BY <2>1, HeldLemma
<1> HIDE DEF H
<1>3. \A q \in Reaction : \A k, m : Effect(q, k, m) \in Int
  BY DEF Effect
<1>4. \A q \in Reaction : \A m :
        /\ H(q, 3, m) = Effect(q, 1, m) + Effect(q, 2, m) + Effect(q, 3, m)
        /\ H(q, 4, m) = Effect(q, 1, m) + Effect(q, 2, m) + Effect(q, 3, m) + Effect(q, 4, m)
        /\ H(q, 5, m) = Effect(q, 1, m) + Effect(q, 2, m) + Effect(q, 3, m) + Effect(q, 4, m)
                          + Effect(q, 5, m)
  BY <1>1, <1>2, <1>3
<1>5. \A m : Whole(p) = [n \in Molecule |-> H(p, Len(Script(p)), n)]
  BY DEF Whole, H
<1>6. CASE p = "R1"
  <2>1. /\ Len(Script(p)) = 4
        /\ \A m : /\ Effect(p, 1, m) = IF m = "N3" THEN 1 ELSE 0
                  /\ Effect(p, 2, m) = IF m = "N" THEN -1 ELSE 0
                  /\ Effect(p, 3, m) = IF m = "N" THEN -1 ELSE 0
                  /\ Effect(p, 4, m) = IF m = "N" THEN -1 ELSE 0
    BY <1>6, ScriptsLemma DEF Effect
  <2>2. \A m : H(p, 4, m) = IF m = "N3" THEN 1 ELSE IF m = "N" THEN -3 ELSE 0
    BY <1>4, <2>1
  <2>3. \A m \in Molecule : Whole(p)[m] = IF m = "N3" THEN 1 ELSE IF m = "N" THEN -3 ELSE 0
    BY <1>5, <2>1, <2>2
  <2> QED
    BY <2>3 DEF Nitrogen, Hydrogen, Oxygen, Molecule
<1>7. CASE p = "R2"
  <2>1. /\ Len(Script(p)) = 5
        /\ \A m : /\ Effect(p, 1, m) = IF m = "H2O" THEN 1 ELSE 0
                  /\ Effect(p, 2, m) = IF m = "H2O" THEN 1 ELSE 0
                  /\ Effect(p, 3, m) = IF m = "H2" THEN -1 ELSE 0
                  /\ Effect(p, 4, m) = IF m = "H2" THEN -1 ELSE 0
                  /\ Effect(p, 5, m) = IF m = "O2" THEN -1 ELSE 0
    BY <1>7, ScriptsLemma DEF Effect
  <2>2. \A m : H(p, 5, m) = IF m = "H2O" THEN 2 ELSE IF m = "H2" THEN -2
                              ELSE IF m = "O2" THEN -1 ELSE 0
    BY <1>4, <2>1
  <2>3. \A m \in Molecule : Whole(p)[m] = IF m = "H2O" THEN 2 ELSE IF m = "H2" THEN -2
                                            ELSE IF m = "O2" THEN -1 ELSE 0
    BY <1>5, <2>1, <2>2
  <2> QED
    BY <2>3 DEF Nitrogen, Hydrogen, Oxygen, Molecule
<1>8. CASE p = "R3"
  <2>1. /\ Len(Script(p)) = 3
        /\ \A m : /\ Effect(p, 1, m) = IF m = "N" THEN 1 ELSE 0
                  /\ Effect(p, 2, m) = IF m = "O2" THEN 1 ELSE 0
                  /\ Effect(p, 3, m) = IF m = "NO2" THEN -1 ELSE 0
    BY <1>8, ScriptsLemma DEF Effect
  <2>2. \A m : H(p, 3, m) = IF m \in {"N", "O2"} THEN 1 ELSE IF m = "NO2" THEN -1 ELSE 0
    BY <1>4, <2>1
  <2>3. \A m \in Molecule :
          Whole(p)[m] = IF m \in {"N", "O2"} THEN 1 ELSE IF m = "NO2" THEN -1 ELSE 0
    BY <1>5, <2>1, <2>2
  <2> QED
    BY <2>3 DEF Nitrogen, Hydrogen, Oxygen, Molecule
<1> QED
  BY <1>6, <1>7, <1>8 DEF Reaction

-----------------------------------------------------------------------------
(* What the semaphores and the reactions hold *)

\* Whether q waits for a molecule, where sm tells the semaphores.
Sleeps(sm, q) == \E m \in Molecule : q \in InQueue(sm[m].waiting)

\* Whether a process at a place may wait for m: it has just called for it.
WaitsFor(q, at, m) == Calls[at] \in 1 .. Len(Waits[q]) /\ Script(q)[Calls[at]] = m

\* Reactions wait for what they have called for, each at most once.
MoleculesOK(sm, f) ==
  /\ \A m \in Molecule : /\ sm[m] \in [count : Nat, waiting : Seq(Reaction)]
                         /\ NoDuplicates(sm[m].waiting)
                         /\ \A q \in InQueue(sm[m].waiting) : WaitsFor(q, f[q], m)
  /\ \A q \in Reaction : f[q] \in DOMAIN Calls

\* The molecules n that q holds, where f tells its place.
HeldBy(sm, f, q, n) == HeldAfter(q, Calls[f[q]] - Is(Sleeps(sm, q)), n)

\* Those that are free or held.
PresentOf(sm, f, n) ==
  sm[n].count + HeldBy(sm, f, "R1", n) + HeldBy(sm, f, "R2", n) + HeldBy(sm, f, "R3", n)

\* The numbers of calls.
LEMMA CallsLemma ==
  /\ DOMAIN Calls = {"uncreated", "loop", "second", "third", "fourth", "fifth", "done"}
  /\ \A at \in DOMAIN Calls : Calls[at] \in 0 .. 4
  /\ Calls["uncreated"] = 0 /\ Calls["loop"] = 0 /\ Calls["second"] = 1 /\ Calls["third"] = 2
  /\ Calls["fourth"] = 3 /\ Calls["fifth"] = 4 /\ Calls["done"] = 0
BY DEF Calls

\* What a reaction holds is a number, and one that sleeps has made a call.
LEMMA HeldByLemma ==
  ASSUME NEW sm, NEW f, MoleculesOK(sm, f), NEW q \in Reaction, NEW n
  PROVE  /\ HeldBy(sm, f, q, n) \in Int
         /\ ~Sleeps(sm, q) => HeldBy(sm, f, q, n) = HeldAfter(q, Calls[f[q]], n)
         /\ Sleeps(sm, q) => /\ Calls[f[q]] \in Nat \ {0}
                             /\ HeldBy(sm, f, q, n) = HeldAfter(q, Calls[f[q]] - 1, n)
<1>1. Calls[f[q]] \in Nat
  BY CallsLemma DEF MoleculesOK
<1>2. CASE Sleeps(sm, q)
  <2>1. Calls[f[q]] \in Nat \ {0}
    BY <1>1, <1>2 DEF Sleeps, MoleculesOK, WaitsFor
  <2>2. HeldBy(sm, f, q, n) = HeldAfter(q, Calls[f[q]] - 1, n)
    BY <1>2 DEF HeldBy, Is
  <2>3. Calls[f[q]] - 1 \in Nat
    BY <2>1
  <2> QED
    BY <1>2, <2>1, <2>2, <2>3, HeldLemma
<1>3. CASE ~Sleeps(sm, q)
  <2>1. Calls[f[q]] - 0 = Calls[f[q]]
    BY <1>1
  <2>2. HeldBy(sm, f, q, n) = HeldAfter(q, Calls[f[q]], n)
    BY <1>3, <2>1 DEF HeldBy, Is
  <2> QED
    BY <1>1, <1>3, <2>2, HeldLemma
<1> QED
  BY <1>2, <1>3

\* One of them holds d more, and the others what they held.
LEMMA OneHoldsLemma ==
  ASSUME NEW sm, NEW f, MoleculesOK(sm, f), NEW tm, NEW g, MoleculesOK(tm, g), NEW n \in Molecule,
         NEW h \in Reaction, NEW d \in Int, HeldBy(tm, g, h, n) = HeldBy(sm, f, h, n) + d,
         \A q \in Reaction \ {h} : HeldBy(tm, g, q, n) = HeldBy(sm, f, q, n)
  PROVE  /\ PresentOf(sm, f, n) \in Int
         /\ PresentOf(tm, g, n) = PresentOf(sm, f, n) + d + tm[n].count - sm[n].count
<1>1. /\ HeldBy(sm, f, "R1", n) \in Int /\ HeldBy(tm, g, "R1", n) \in Int
      /\ HeldBy(sm, f, "R2", n) \in Int /\ HeldBy(tm, g, "R2", n) \in Int
      /\ HeldBy(sm, f, "R3", n) \in Int /\ HeldBy(tm, g, "R3", n) \in Int
  BY HeldByLemma DEF Reaction
<1>2. sm[n].count \in Int /\ tm[n].count \in Int
  BY DEF MoleculesOK
<1>3. Reaction = {"R1", "R2", "R3"}
  BY DEF Reaction
<1>4. HeldBy(tm, g, "R1", n) + HeldBy(tm, g, "R2", n) + HeldBy(tm, g, "R3", n)
        = HeldBy(sm, f, "R1", n) + HeldBy(sm, f, "R2", n) + HeldBy(sm, f, "R3", n) + d
  <2>1. CASE h = "R1"
    <3>1. /\ HeldBy(tm, g, "R1", n) = HeldBy(sm, f, "R1", n) + d
          /\ HeldBy(tm, g, "R2", n) = HeldBy(sm, f, "R2", n)
          /\ HeldBy(tm, g, "R3", n) = HeldBy(sm, f, "R3", n)
      BY <1>3, <2>1
    <3> QED
      BY <1>1, <3>1
  <2>2. CASE h = "R2"
    <3>1. /\ HeldBy(tm, g, "R1", n) = HeldBy(sm, f, "R1", n)
          /\ HeldBy(tm, g, "R2", n) = HeldBy(sm, f, "R2", n) + d
          /\ HeldBy(tm, g, "R3", n) = HeldBy(sm, f, "R3", n)
      BY <1>3, <2>2
    <3> QED
      BY <1>1, <3>1
  <2>3. CASE h = "R3"
    <3>1. /\ HeldBy(tm, g, "R1", n) = HeldBy(sm, f, "R1", n)
          /\ HeldBy(tm, g, "R2", n) = HeldBy(sm, f, "R2", n)
          /\ HeldBy(tm, g, "R3", n) = HeldBy(sm, f, "R3", n) + d
      BY <1>3, <2>3
    <3> QED
      BY <1>1, <3>1
  <2> QED
    BY <1>3, <2>1, <2>2, <2>3
<1> DEFINE S == HeldBy(sm, f, "R1", n) + HeldBy(sm, f, "R2", n) + HeldBy(sm, f, "R3", n)
           T == HeldBy(tm, g, "R1", n) + HeldBy(tm, g, "R2", n) + HeldBy(tm, g, "R3", n)
<1>5. S \in Int /\ T \in Int /\ T = S + d
  BY <1>1, <1>4
<1>6. PresentOf(sm, f, n) = sm[n].count + S
  BY <1>1, <1>2 DEF PresentOf
<1>7. PresentOf(tm, g, n) = tm[n].count + T
  BY <1>1, <1>2 DEF PresentOf
<1> HIDE DEF S, T
<1> QED
  BY <1>2, <1>5, <1>6, <1>7

\* What changes hands when q waits for m, or no longer does.
LEMMA CalledForLemma ==
  ASSUME NEW q \in Reaction, NEW at \in DOMAIN Calls, NEW m, WaitsFor(q, at, m), NEW n
  PROVE  HeldAfter(q, Calls[at], n) = HeldAfter(q, Calls[at] - 1, n) + Is(n = m)
<1>1. Calls[at] \in Nat /\ Calls[at] > 0 /\ Calls[at] <= Len(Waits[q]) /\ Script(q)[Calls[at]] = m
  BY CallsLemma, RoundLemma DEF WaitsFor
<1>2. HeldAfter(q, Calls[at], n) = HeldAfter(q, Calls[at] - 1, n) + Effect(q, Calls[at], n)
  BY <1>1, HeldLemma
<1>3. Effect(q, Calls[at], n) = Is(n = m)
  BY <1>1 DEF Effect, Is
<1> QED
  BY <1>2, <1>3

\* A reaction that is awake goes on to another place.
LEMMA ReactionMovesLemma ==
  ASSUME NEW sm, NEW f, MoleculesOK(sm, f), NEW p \in Reaction, ~Sleeps(sm, p),
         NEW g, g[p] \in DOMAIN Calls, \A q \in Reaction \ {p} : g[q] = f[q], NEW n \in Molecule
  PROVE  /\ MoleculesOK(sm, g) /\ PresentOf(sm, f, n) \in Int
         /\ PresentOf(sm, g, n) = PresentOf(sm, f, n)
              + HeldAfter(p, Calls[g[p]], n) - HeldAfter(p, Calls[f[p]], n)
<1>1. MoleculesOK(sm, g)
  <2>1. \A m \in Molecule : p \notin InQueue(sm[m].waiting)
    BY DEF Sleeps
  <2>2. \A m \in Molecule : InQueue(sm[m].waiting) \subseteq Reaction
    BY DEF MoleculesOK, InQueue
  <2>3. \A m \in Molecule : \A q \in InQueue(sm[m].waiting) : WaitsFor(q, g[q], m)
    BY <2>1, <2>2 DEF MoleculesOK
  <2>4. \A q \in Reaction : g[q] \in DOMAIN Calls
    BY DEF MoleculesOK
  <2> QED
    BY <2>3, <2>4 DEF MoleculesOK
<1>2. /\ HeldBy(sm, f, p, n) = HeldAfter(p, Calls[f[p]], n) /\ HeldBy(sm, f, p, n) \in Int
      /\ HeldBy(sm, g, p, n) = HeldAfter(p, Calls[g[p]], n) /\ HeldBy(sm, g, p, n) \in Int
  BY <1>1, HeldByLemma
<1>3. \A q \in Reaction \ {p} : HeldBy(sm, g, q, n) = HeldBy(sm, f, q, n)
  BY DEF HeldBy
<1> DEFINE d == HeldAfter(p, Calls[g[p]], n) - HeldAfter(p, Calls[f[p]], n)
<1>4. d \in Int /\ HeldBy(sm, g, p, n) = HeldBy(sm, f, p, n) + d
  BY <1>2
<1> HIDE DEF d
<1>5. /\ PresentOf(sm, f, n) \in Int
      /\ PresentOf(sm, g, n) = PresentOf(sm, f, n) + d + sm[n].count - sm[n].count
  BY <1>1, <1>3, <1>4, OneHoldsLemma
<1>6. sm[n].count \in Int
  BY DEF MoleculesOK
<1>7. PresentOf(sm, g, n) = PresentOf(sm, f, n) + d
  BY <1>4, <1>5, <1>6
<1> QED
  BY <1>1, <1>2, <1>5, <1>7 DEF d

\* A wait takes a molecule, or the process sleeps and has none of it yet.
LEMMA TakesLemma ==
  ASSUME NEW sm, NEW f, MoleculesOK(sm, f), NEW p \in Reaction, ~Sleeps(sm, p),
         NEW m \in Molecule, WaitsFor(p, f[p], m), NEW tm, AfterWait(sm[m], tm[m], p),
         \A x \in Molecule \ {m} : tm[x] = sm[x], NEW n \in Molecule
  PROVE  /\ MoleculesOK(tm, f) /\ PresentOf(sm, f, n) \in Int
         /\ PresentOf(tm, f, n) = PresentOf(sm, f, n) - Is(n = m)
<1>1. /\ sm[m] \in [count : Nat, waiting : Seq(Reaction)] /\ NoDuplicates(sm[m].waiting)
      /\ p \notin InQueue(sm[m].waiting) /\ \A q \in Reaction : f[q] \in DOMAIN Calls
  BY DEF MoleculesOK, Sleeps
<1>2. CASE sm[m].count > 0 /\ tm[m] = [sm[m] EXCEPT !.count = @ - 1]
  <2>1. /\ tm[m] \in [count : Nat, waiting : Seq(Reaction)] /\ tm[m].waiting = sm[m].waiting
        /\ tm[m].count = sm[m].count - 1
    BY <1>1, <1>2
  <2>2. \A x \in Molecule : tm[x].waiting = sm[x].waiting
    BY <2>1
  <2>3. MoleculesOK(tm, f)
    BY <2>1 DEF MoleculesOK
  <2>4. \A q : Sleeps(tm, q) <=> Sleeps(sm, q)
    BY <2>2 DEF Sleeps
  <2>5. \A q \in Reaction : HeldBy(tm, f, q, n) = HeldBy(sm, f, q, n) /\ HeldBy(sm, f, q, n) \in Int
    BY <2>4, HeldByLemma DEF HeldBy, Is
  <2>6. 0 \in Int /\ HeldBy(tm, f, p, n) = HeldBy(sm, f, p, n) + 0
    BY <2>5
  <2>7. /\ PresentOf(sm, f, n) \in Int
        /\ PresentOf(tm, f, n) = PresentOf(sm, f, n) + 0 + tm[n].count - sm[n].count
    BY <2>3, <2>5, <2>6, OneHoldsLemma
  <2>8. sm[n].count \in Int /\ tm[n].count = sm[n].count - Is(n = m) /\ Is(n = m) \in Int
    BY <2>1 DEF MoleculesOK, Is
  <2> QED
    BY <2>3, <2>7, <2>8
<1>3. CASE sm[m].count <= 0 /\ tm[m] = [sm[m] EXCEPT !.waiting = Append(@, p)]
  <2>1. /\ Append(sm[m].waiting, p) \in Seq(Reaction) /\ NoDuplicates(Append(sm[m].waiting, p))
        /\ InQueue(Append(sm[m].waiting, p)) = InQueue(sm[m].waiting) \union {p}
    BY <1>1, AppendLemma
  <2>2. /\ tm[m] \in [count : Nat, waiting : Seq(Reaction)]
        /\ tm[m].waiting = Append(sm[m].waiting, p) /\ tm[m].count = sm[m].count
    BY <1>1, <1>3, <2>1
  <2>3. /\ NoDuplicates(tm[m].waiting)
        /\ InQueue(tm[m].waiting) = InQueue(sm[m].waiting) \union {p}
    BY <2>1, <2>2
  <2>4. MoleculesOK(tm, f)
    BY <2>2, <2>3 DEF MoleculesOK
  <2>5. Sleeps(tm, p) /\ \A q \in Reaction \ {p} : Sleeps(tm, q) <=> Sleeps(sm, q)
    BY <2>3 DEF Sleeps
  <2>6. \A q \in Reaction \ {p} : HeldBy(tm, f, q, n) = HeldBy(sm, f, q, n)
    BY <2>5 DEF HeldBy, Is
  <2>7. /\ HeldBy(sm, f, p, n) = HeldAfter(p, Calls[f[p]], n) /\ HeldBy(sm, f, p, n) \in Int
        /\ HeldBy(tm, f, p, n) = HeldAfter(p, Calls[f[p]] - 1, n) /\ HeldBy(tm, f, p, n) \in Int
    BY <2>4, <2>5, HeldByLemma
  <2>8. HeldAfter(p, Calls[f[p]], n) = HeldAfter(p, Calls[f[p]] - 1, n) + Is(n = m)
    BY <1>1, CalledForLemma
  <2>9. Is(n = m) \in Int
    BY DEF Is
  <2>10. -Is(n = m) \in Int /\ HeldBy(tm, f, p, n) = HeldBy(sm, f, p, n) + (-Is(n = m))
    BY <2>7, <2>8, <2>9
  <2>11. /\ PresentOf(sm, f, n) \in Int
         /\ PresentOf(tm, f, n)
              = PresentOf(sm, f, n) + (-Is(n = m)) + tm[n].count - sm[n].count
    BY <2>4, <2>6, <2>10, OneHoldsLemma
  <2>12. sm[n].count \in Int /\ tm[n].count = sm[n].count
    BY <2>2 DEF MoleculesOK
  <2> QED
    BY <2>4, <2>9, <2>11, <2>12
<1> QED
  BY <1>2, <1>3 DEF AfterWait

\* A signal adds a molecule, which the reaction that waited longest has at once.
LEMMA MakesLemma ==
  ASSUME NEW sm, NEW f, MoleculesOK(sm, f),
         NEW m \in Molecule, NEW tm, AfterSignal(sm[m], tm[m]),
         \A x \in Molecule \ {m} : tm[x] = sm[x], NEW n \in Molecule
  PROVE  /\ MoleculesOK(tm, f) /\ PresentOf(sm, f, n) \in Int
         /\ PresentOf(tm, f, n) = PresentOf(sm, f, n) + Is(n = m)
         /\ \A q : Sleeps(tm, q) => Sleeps(sm, q)
<1>1. /\ sm[m] \in [count : Nat, waiting : Seq(Reaction)] /\ NoDuplicates(sm[m].waiting)
      /\ \A q \in Reaction : f[q] \in DOMAIN Calls
  BY DEF MoleculesOK
<1>2. CASE tm[m] = [sm[m] EXCEPT !.count = @ + 1]
  <2>1. /\ tm[m] \in [count : Nat, waiting : Seq(Reaction)] /\ tm[m].waiting = sm[m].waiting
        /\ tm[m].count = sm[m].count + 1
    BY <1>1, <1>2
  <2>2. \A x \in Molecule : tm[x].waiting = sm[x].waiting
    BY <2>1
  <2>3. MoleculesOK(tm, f)
    BY <2>1 DEF MoleculesOK
  <2>4. \A q : Sleeps(tm, q) <=> Sleeps(sm, q)
    BY <2>2 DEF Sleeps
  <2>5. \A q \in Reaction : HeldBy(tm, f, q, n) = HeldBy(sm, f, q, n) /\ HeldBy(sm, f, q, n) \in Int
    BY <2>4, HeldByLemma DEF HeldBy, Is
  <2>6. 0 \in Int /\ "R1" \in Reaction /\ HeldBy(tm, f, "R1", n) = HeldBy(sm, f, "R1", n) + 0
    BY <2>5 DEF Reaction
  <2>7. /\ PresentOf(sm, f, n) \in Int
        /\ PresentOf(tm, f, n) = PresentOf(sm, f, n) + 0 + tm[n].count - sm[n].count
    BY <2>3, <2>5, <2>6, OneHoldsLemma
  <2>8. sm[n].count \in Int /\ tm[n].count = sm[n].count + Is(n = m) /\ Is(n = m) \in Int
    BY <2>1 DEF MoleculesOK, Is
  <2> QED
    BY <2>3, <2>4, <2>7, <2>8
<1>3. CASE sm[m].waiting # <<>> /\ tm[m] = [sm[m] EXCEPT !.waiting = Tail(@)]
  <2> DEFINE w == sm[m].waiting
             h == Head(w)
  <2>1. /\ h \in Reaction /\ Tail(w) \in Seq(Reaction) /\ h \in InQueue(w) /\ NoDuplicates(Tail(w))
        /\ InQueue(Tail(w)) = InQueue(w) \ {h}
    BY <1>1, <1>3, TailLemma
  <2>2. /\ tm[m] \in [count : Nat, waiting : Seq(Reaction)]
        /\ tm[m].waiting = Tail(w) /\ tm[m].count = sm[m].count
    BY <1>1, <1>3, <2>1
  <2> HIDE DEF h
  <2>3. NoDuplicates(tm[m].waiting) /\ InQueue(tm[m].waiting) = InQueue(sm[m].waiting) \ {h}
    BY <2>1, <2>2
  <2>4. MoleculesOK(tm, f)
    BY <2>2, <2>3 DEF MoleculesOK
  <2>5. WaitsFor(h, f[h], m)
    BY <2>1 DEF MoleculesOK
  <2>6. \A x \in Molecule \ {m} : h \notin InQueue(sm[x].waiting)
    BY <2>5 DEF MoleculesOK, WaitsFor
  <2>7. Sleeps(sm, h) /\ ~Sleeps(tm, h)
    BY <2>1, <2>3, <2>6 DEF Sleeps
  <2>8. \A q : q # h => (Sleeps(tm, q) <=> Sleeps(sm, q))
    BY <2>3 DEF Sleeps
  <2>9. \A q \in Reaction \ {h} : HeldBy(tm, f, q, n) = HeldBy(sm, f, q, n)
    BY <2>8 DEF HeldBy, Is
  <2>10. /\ HeldBy(tm, f, h, n) = HeldAfter(h, Calls[f[h]], n) /\ HeldBy(tm, f, h, n) \in Int
         /\ HeldBy(sm, f, h, n) = HeldAfter(h, Calls[f[h]] - 1, n) /\ HeldBy(sm, f, h, n) \in Int
    BY <2>1, <2>4, <2>7, HeldByLemma
  <2>11. HeldAfter(h, Calls[f[h]], n) = HeldAfter(h, Calls[f[h]] - 1, n) + Is(n = m)
    BY <1>1, <2>1, <2>5, CalledForLemma
  <2>12. Is(n = m) \in Int /\ HeldBy(tm, f, h, n) = HeldBy(sm, f, h, n) + Is(n = m)
    BY <2>10, <2>11 DEF Is
  <2>13. /\ PresentOf(sm, f, n) \in Int
         /\ PresentOf(tm, f, n) = PresentOf(sm, f, n) + Is(n = m) + tm[n].count - sm[n].count
    BY <2>1, <2>4, <2>9, <2>12, OneHoldsLemma
  <2>14. sm[n].count \in Int /\ tm[n].count = sm[n].count
    BY <2>2 DEF MoleculesOK
  <2> QED
    BY <2>4, <2>7, <2>8, <2>12, <2>13, <2>14
<1> QED
  BY <1>2, <1>3 DEF AfterSignal

-----------------------------------------------------------------------------
(* The atoms of q5 *)

\* Atoms add up.
LEMMA AtomsAddLemma ==
  ASSUME NEW u \in [Molecule -> Int], NEW v \in [Molecule -> Int], NEW w \in [Molecule -> Int],
         \A n \in Molecule : u[n] = v[n] + w[n]
  PROVE  /\ Nitrogen(v) \in Int /\ Hydrogen(v) \in Int /\ Oxygen(v) \in Int
         /\ Nitrogen(u) = Nitrogen(v) + Nitrogen(w)
         /\ Hydrogen(u) = Hydrogen(v) + Hydrogen(w)
         /\ Oxygen(u) = Oxygen(v) + Oxygen(w)
<1>1. /\ u["N3"] = v["N3"] + w["N3"] /\ u["N"] = v["N"] + w["N"] /\ u["H2"] = v["H2"] + w["H2"]
      /\ u["H2O"] = v["H2O"] + w["H2O"] /\ u["O2"] = v["O2"] + w["O2"]
      /\ u["NO2"] = v["NO2"] + w["NO2"]
  BY DEF Molecule
<1>2. \A x \in {u, v, w} : /\ x["N3"] \in Int /\ x["N"] \in Int /\ x["H2"] \in Int
                           /\ x["H2O"] \in Int /\ x["O2"] \in Int /\ x["NO2"] \in Int
  BY DEF Molecule
<1>3. Nitrogen(v) \in Int /\ Nitrogen(u) = Nitrogen(v) + Nitrogen(w)
  BY <1>1, <1>2 DEF Nitrogen
<1>4. Hydrogen(v) \in Int /\ Hydrogen(u) = Hydrogen(v) + Hydrogen(w)
  BY <1>1, <1>2 DEF Hydrogen
<1>5. Oxygen(v) \in Int /\ Oxygen(u) = Oxygen(v) + Oxygen(w)
  BY <1>1, <1>2 DEF Oxygen
<1> QED
  BY <1>3, <1>4, <1>5

\* The i-th call of a round of p moves a molecule between the free ones and
\* those p holds; with the last call, what p holds becomes what it has made.
LEMMA ReactsLemma ==
  ASSUME NEW sm, NEW f, MoleculesOK(sm, f), NEW p \in Reaction, ~Sleeps(sm, p),
         NEW i \in 1 .. Len(Script(p)), Calls[f[p]] = i - 1,
         NEW g, g[p] \in DOMAIN Calls, \A q \in Reaction \ {p} : g[q] = f[q],
         Calls[g[p]] = IF i = Len(Script(p)) THEN 0 ELSE i,
         NEW tm, \A x \in Molecule \ {Script(p)[i]} : tm[x] = sm[x],
         \/ i <= Len(Waits[p]) /\ AfterWait(sm[Script(p)[i]], tm[Script(p)[i]], p)
         \/ i > Len(Waits[p]) /\ AfterSignal(sm[Script(p)[i]], tm[Script(p)[i]])
  PROVE  /\ MoleculesOK(tm, g)
         /\ \A n \in Molecule :
              /\ PresentOf(sm, f, n) \in Int /\ Whole(p)[n] \in Int
              /\ PresentOf(tm, g, n)
                   = PresentOf(sm, f, n) - (IF i = Len(Script(p)) THEN Whole(p)[n] ELSE 0)
<1> DEFINE m == Script(p)[i]
<1>1. /\ m \in Molecule /\ i \in Nat /\ i > 0 /\ Len(Script(p)) \in Nat /\ i <= Len(Script(p))
      /\ Len(Waits[p]) \in Nat /\ Len(Waits[p]) < Len(Script(p))
  BY RoundLemma
<1>2. ASSUME NEW n
      PROVE  /\ HeldAfter(p, i, n) \in Int /\ HeldAfter(p, i - 1, n) \in Int
             /\ HeldAfter(p, i, n) = HeldAfter(p, i - 1, n) + Effect(p, i, n)
             /\ HeldAfter(p, 0, n) = 0 /\ Is(n = m) \in Int
  <2>1. i - 1 \in Nat
    BY <1>1
  <2> QED
    BY <1>1, <2>1, HeldLemma DEF Is
<1>3. ASSUME NEW n \in Molecule
      PROVE  Whole(p)[n] \in Int /\ Whole(p)[n] = HeldAfter(p, Len(Script(p)), n)
  BY <1>1, <1>3, HeldLemma DEF Whole
<1>4. CASE i <= Len(Waits[p]) /\ AfterWait(sm[m], tm[m], p)
  <2>1. Calls[g[p]] = i /\ i # Len(Script(p)) /\ \A n : Effect(p, i, n) = Is(n = m)
    BY <1>1, <1>4 DEF Effect, Is
  <2>2. WaitsFor(p, g[p], m)
    BY <1>1, <1>4, <2>1 DEF WaitsFor
  <2> HIDE DEF m
  <2>3. ASSUME NEW n \in Molecule
        PROVE  /\ MoleculesOK(sm, g) /\ PresentOf(sm, f, n) \in Int
               /\ PresentOf(sm, g, n) = PresentOf(sm, f, n)
                    + HeldAfter(p, Calls[g[p]], n) - HeldAfter(p, Calls[f[p]], n)
    BY <2>3, ReactionMovesLemma
  <2>4. MoleculesOK(sm, g)
    BY <1>1, <2>3
  <2>5. \A x \in Molecule \ {m} : tm[x] = sm[x]
    BY DEF m
  <2>6. ASSUME NEW n \in Molecule
        PROVE  /\ MoleculesOK(tm, g) /\ PresentOf(sm, g, n) \in Int
               /\ PresentOf(tm, g, n) = PresentOf(sm, g, n) - Is(n = m)
    BY <1>1, <1>4, <2>2, <2>4, <2>5, <2>6, TakesLemma
  <2>7. ASSUME NEW n \in Molecule
        PROVE  PresentOf(sm, f, n) \in Int /\ PresentOf(tm, g, n) = PresentOf(sm, f, n) - 0
    BY <1>2, <2>1, <2>3, <2>6
  <2> QED
    BY <1>1, <1>3, <2>1, <2>6, <2>7
<1>5. CASE i > Len(Waits[p]) /\ AfterSignal(sm[m], tm[m])
  <2>1. \A n : Effect(p, i, n) = -Is(n = m)
    BY <1>1, <1>5 DEF Effect, Is
  <2> HIDE DEF m
  <2>2. \A x \in Molecule \ {m} : tm[x] = sm[x]
    BY DEF m
  <2>3. ASSUME NEW n \in Molecule
        PROVE  /\ MoleculesOK(tm, f) /\ PresentOf(sm, f, n) \in Int
               /\ PresentOf(tm, f, n) = PresentOf(sm, f, n) + Is(n = m)
               /\ \A q : Sleeps(tm, q) => Sleeps(sm, q)
    BY <1>1, <1>5, <2>2, <2>3, MakesLemma
  <2>4. MoleculesOK(tm, f) /\ ~Sleeps(tm, p)
    BY <1>1, <2>3
  <2>5. ASSUME NEW n \in Molecule
        PROVE  /\ MoleculesOK(tm, g) /\ PresentOf(tm, f, n) \in Int
               /\ PresentOf(tm, g, n) = PresentOf(tm, f, n)
                    + HeldAfter(p, Calls[g[p]], n) - HeldAfter(p, Calls[f[p]], n)
    BY <2>4, <2>5, ReactionMovesLemma
  <2>6. ASSUME NEW n \in Molecule
        PROVE  PresentOf(tm, g, n)
                 = PresentOf(sm, f, n) - (IF i = Len(Script(p)) THEN Whole(p)[n] ELSE 0)
    <3>1. /\ PresentOf(tm, g, n) = PresentOf(tm, f, n)
               + HeldAfter(p, Calls[g[p]], n) - HeldAfter(p, i - 1, n)
          /\ PresentOf(tm, f, n) = PresentOf(sm, f, n) + Is(n = m)
          /\ PresentOf(sm, f, n) \in Int
      BY <2>3, <2>5, <2>6
    <3>2. HeldAfter(p, i - 1, n) = HeldAfter(p, i, n) + Is(n = m)
      BY <1>2, <2>1
    <3>3. CASE i = Len(Script(p))
      <4>1. HeldAfter(p, Calls[g[p]], n) = 0 /\ HeldAfter(p, i, n) = Whole(p)[n]
        BY <1>2, <1>3, <2>6, <3>3
      <4> QED
        BY <1>2, <3>1, <3>2, <3>3, <4>1
    <3>4. CASE i # Len(Script(p))
      <4>1. HeldAfter(p, Calls[g[p]], n) = HeldAfter(p, i, n)
        BY <3>4
      <4>2. PresentOf(tm, g, n) = PresentOf(sm, f, n) - 0
        BY <1>2, <3>1, <3>2, <4>1
      <4> QED
        BY <3>4, <4>2
    <3> QED
      BY <3>3, <3>4
  <2> QED
    BY <1>1, <1>3, <2>3, <2>5, <2>6
<1> QED
  BY <1>4, <1>5

\* Steps that change neither the molecules nor how many calls were made.
LEMMA MoleculesStayLemma ==
  ASSUME NEW sm, NEW f, MoleculesOK(sm, f), NEW tm, \A x \in Molecule : tm[x] = sm[x],
         NEW g, \A q \in Reaction : g[q] \in DOMAIN Calls /\ Calls[g[q]] = Calls[f[q]]
  PROVE  /\ MoleculesOK(tm, g)
         /\ \A n \in Molecule : /\ PresentOf(sm, f, n) \in Int
                                /\ PresentOf(tm, g, n) = PresentOf(sm, f, n)
<1>1. \A m \in Molecule : InQueue(sm[m].waiting) \subseteq Reaction
  BY DEF MoleculesOK, InQueue
<1>2. \A q \in Reaction : \A m : WaitsFor(q, f[q], m) => WaitsFor(q, g[q], m)
  BY DEF WaitsFor
<1>3. MoleculesOK(tm, g)
  BY <1>1, <1>2 DEF MoleculesOK
<1>4. \A q : Sleeps(tm, q) <=> Sleeps(sm, q)
  BY DEF Sleeps
<1>5. \A q \in Reaction : \A n : HeldBy(tm, g, q, n) = HeldBy(sm, f, q, n)
  BY <1>4 DEF HeldBy, Is
<1>6. ASSUME NEW n \in Molecule
      PROVE  PresentOf(sm, f, n) \in Int /\ PresentOf(tm, g, n) = PresentOf(sm, f, n)
  <2>1. 0 \in Int /\ "R1" \in Reaction /\ HeldBy(sm, f, "R1", n) \in Int
    BY HeldByLemma DEF Reaction
  <2>2. HeldBy(tm, g, "R1", n) = HeldBy(sm, f, "R1", n) + 0
    BY <1>5, <2>1
  <2>3. /\ PresentOf(sm, f, n) \in Int
        /\ PresentOf(tm, g, n) = PresentOf(sm, f, n) + 0 + tm[n].count - sm[n].count
    BY <1>3, <1>5, <2>1, <2>2, OneHoldsLemma
  <2>4. sm[n].count \in Int /\ tm[n].count = sm[n].count
    BY DEF MoleculesOK
  <2> QED
    BY <2>3, <2>4
<1> QED
  BY <1>3, <1>6

\* The places of a round and the calls made when a reaction is there.
LEMMA PlacesLemma ==
  ASSUME NEW p \in Reaction, NEW i \in 1 .. Len(Script(p))
  PROVE  /\ Calls[Place[i]] = i - 1
         /\ After(p, i) \in DOMAIN Calls
         /\ Calls[After(p, i)] = IF i = Len(Script(p)) THEN 0 ELSE i
<1>1. /\ Place[1] = "loop" /\ Place[2] = "second" /\ Place[3] = "third"
      /\ Place[4] = "fourth" /\ Place[5] = "fifth"
  BY DEF Place
<1>2. Len(Script(p)) \in 1 .. 5
  BY RoundLemma
<1>3. \A k \in 1 .. 5 : Place[k] \in DOMAIN Calls /\ Calls[Place[k]] = k - 1
  <2> SUFFICES ASSUME NEW k \in {1, 2, 3, 4, 5}
               PROVE  Place[k] \in DOMAIN Calls /\ Calls[Place[k]] = k - 1
    OBVIOUS
  <2> QED
    BY <1>1, CallsLemma
<1>4. i \in 1 .. 5 /\ (i # Len(Script(p)) => i + 1 \in 1 .. 5) /\ (i + 1) - 1 = i
  <2> DEFINE n == Len(Script(p))
  <2>1. n \in 1 .. 5 /\ i \in 1 .. n
    BY <1>2
  <2> HIDE DEF n
  <2>2. i \in 1 .. 5 /\ (i # n => i + 1 \in 1 .. 5) /\ (i + 1) - 1 = i
    BY <2>1
  <2> QED
    BY <2>2 DEF n
<1>5. CASE i = Len(Script(p))
  BY <1>3, <1>4, <1>5, CallsLemma DEF After
<1>6. CASE i # Len(Script(p))
  <2>1. i + 1 \in 1 .. 5 /\ (i + 1) - 1 = i
    BY <1>4, <1>6
  <2>2. After(p, i) = Place[i + 1]
    BY <1>6 DEF After
  <2> QED
    BY <1>3, <1>4, <1>6, <2>1, <2>2
<1> QED
  BY <1>5, <1>6

PresentIn(sm, f) == [n \in Molecule |-> PresentOf(sm, f, n)]

\* The semaphores of q5, what is in them and that the atoms are those injected.
ReactionsKnown ==
  /\ DOMAIN sems = Molecule \union {"s_procs_completed"}
  /\ DOMAIN locks = {} /\ DOMAIN conds = {}
  /\ MoleculesOK(sems, pc)
  /\ \A m \in Injector : page[m] \in Int
  /\ Nitrogen(PresentIn(sems, pc)) = Nitrogen(Injected)
  /\ Hydrogen(PresentIn(sems, pc)) = Hydrogen(Injected)
  /\ Oxygen(PresentIn(sems, pc)) = Oxygen(Injected)

\* A step that changes the molecules by e and what was injected by j, where e
\* and j have the same atoms.
LEMMA BalancedStepLemma ==
  ASSUME ReactionsKnown, NEW e \in [Molecule -> Int], NEW j \in [Molecule -> Int],
         Nitrogen(e) = Nitrogen(j), Hydrogen(e) = Hydrogen(j), Oxygen(e) = Oxygen(j),
         UNCHANGED <<DOMAIN sems, locks, conds, page>>, MoleculesOK(sems', pc'),
         \A n \in Molecule : /\ PresentOf(sems, pc, n) \in Int
                             /\ PresentOf(sems', pc', n) = PresentOf(sems, pc, n) + e[n],
         \A n \in Injector : counter[n] \in Int,
         \A n \in Molecule : Injected'[n] = Injected[n] + j[n]
  PROVE  ReactionsKnown'
<1> DEFINE u == PresentIn(sems', pc')
           v == PresentIn(sems, pc)
<1>1. /\ \A n \in Molecule : u[n] = v[n] + e[n]
      /\ u \in [Molecule -> Int] /\ v \in [Molecule -> Int]
  BY DEF PresentIn
<1>2. Injected \in [Molecule -> Int] /\ Injected' \in [Molecule -> Int]
  <2>1. Injected \in [Molecule -> Int]
    BY DEF Injected, ReactionsKnown
  <2>2. Injected' = [n \in Molecule |-> Injected[n] + j[n]]
    BY DEF Injected
  <2> QED
    BY <2>1, <2>2
<1> HIDE DEF u, v
<1>3. /\ Nitrogen(v) \in Int /\ Hydrogen(v) \in Int /\ Oxygen(v) \in Int
      /\ Nitrogen(u) = Nitrogen(v) + Nitrogen(e)
      /\ Hydrogen(u) = Hydrogen(v) + Hydrogen(e)
      /\ Oxygen(u) = Oxygen(v) + Oxygen(e)
  BY <1>1, AtomsAddLemma
<1>4. /\ Nitrogen(Injected') = Nitrogen(Injected) + Nitrogen(j)
      /\ Hydrogen(Injected') = Hydrogen(Injected) + Hydrogen(j)
      /\ Oxygen(Injected') = Oxygen(Injected) + Oxygen(j)
  BY <1>2, AtomsAddLemma
<1>5. /\ Nitrogen(v) = Nitrogen(Injected) /\ Hydrogen(v) = Hydrogen(Injected)
      /\ Oxygen(v) = Oxygen(Injected)
  BY DEF ReactionsKnown, v
<1>6. /\ Nitrogen(u) = Nitrogen(Injected') /\ Hydrogen(u) = Hydrogen(Injected')
      /\ Oxygen(u) = Oxygen(Injected')
  BY <1>3, <1>4, <1>5
<1>7. /\ Nitrogen(Injected') = Nitrogen(Injected)' /\ Hydrogen(Injected') = Hydrogen(Injected)'
      /\ Oxygen(Injected') = Oxygen(Injected)'
  BY DEF Nitrogen, Hydrogen, Oxygen
<1>8. /\ Nitrogen(u) = Nitrogen(PresentIn(sems, pc))'
      /\ Hydrogen(u) = Hydrogen(PresentIn(sems, pc))'
      /\ Oxygen(u) = Oxygen(PresentIn(sems, pc))'
  BY DEF u
<1>9. MoleculesOK(sems, pc)'
  OBVIOUS
<1> QED
  BY <1>6, <1>7, <1>8, <1>9 DEF ReactionsKnown

\* A process of q5 injects a molecule.
LEMMA InjectBalancedLemma ==
  ASSUME ReactionsKnown, app = "q5", ReturnInv, NEW p \in Injector, Inject(p)
  PROVE  ReactionsKnown'
<1>1. /\ DOMAIN sems = Molecule \union {"s_procs_completed"} /\ MoleculesOK(sems, pc)
      /\ p \in Molecule /\ p \in DOMAIN sems /\ p \notin Reaction
  BY DEF ReactionsKnown, Injector, Molecule, Reaction
<1>2. /\ Signal(p) /\ page' = page /\ Counts(p, -1)
      /\ pc[p] = "loop" /\ pc' = [pc EXCEPT ![p] = "loop"]
  BY DEF Inject, Step
<1>3. /\ AfterSignal(sems[p], sems'[p]) /\ DOMAIN sems' = DOMAIN sems
      /\ \A x \in Molecule \ {p} : sems'[x] = sems[x]
  BY <1>1, <1>2, SemCallsLemma
<1>4. UNCHANGED <<locks, conds>>
  BY <1>2, SemaphoresLemma
<1>5. DOMAIN counter = ReactionsProcess /\ \A q \in ReactionsProcess : counter[q] \in Nat
  BY DEF ReturnInv, KnownChildren, RoundsCounted, RoundOK, IsBuffer
<1>6. \A q \in Reaction : pc'[q] = pc[q] /\ pc[q] \in DOMAIN Calls
  BY <1>1, <1>2 DEF MoleculesOK
<1> DEFINE e == [n \in Molecule |-> Is(n = p)]
<1>7. e \in [Molecule -> Int] /\ \A n \in Molecule : e[n] = Is(n = p)
  BY DEF Is
<1>8. ASSUME NEW n \in Molecule
      PROVE  /\ MoleculesOK(sems', pc) /\ PresentOf(sems, pc, n) \in Int
             /\ PresentOf(sems', pc, n) = PresentOf(sems, pc, n) + Is(n = p)
  BY <1>1, <1>3, <1>8, MakesLemma
<1>9. MoleculesOK(sems', pc)
  BY <1>1, <1>8
<1>10. /\ MoleculesOK(sems', pc')
       /\ \A n \in Molecule : PresentOf(sems', pc', n) = PresentOf(sems', pc, n)
  BY <1>6, <1>9, MoleculesStayLemma
<1>11. \A n \in Molecule : Injected'[n] = Injected[n] + e[n]
  <2> SUFFICES ASSUME NEW n \in Molecule PROVE Injected'[n] = Injected[n] + e[n]
    OBVIOUS
  <2>1. /\ Injected[n] = IF n \in Injector THEN page[n] - counter[n] ELSE 0
        /\ Injected'[n] = IF n \in Injector THEN page[n] - counter'[n] ELSE 0
    BY <1>2 DEF Injected
  <2>2. n \in Injector => page[n] \in Int /\ counter[n] \in Nat
    BY <1>5 DEF ReactionsKnown, ReactionsProcess
  <2>3. n \in Injector => counter'[n] = counter[n] - Is(n = p)
    BY <1>2, <1>5, <2>2 DEF Counts, Is, ReactionsProcess
  <2>4. Is(n = p) \in Int /\ (n \notin Injector => Is(n = p) = 0)
    BY DEF Is
  <2> QED
    BY <1>7, <2>1, <2>2, <2>3, <2>4
<1> HIDE DEF e
<1>12. \A n \in Molecule : /\ PresentOf(sems, pc, n) \in Int
                           /\ PresentOf(sems', pc', n) = PresentOf(sems, pc, n) + e[n]
  BY <1>7, <1>8, <1>10
<1>13. \A n \in Injector : counter[n] \in Int
  BY <1>5 DEF ReactionsProcess
<1> QED
  BY <1>2, <1>3, <1>4, <1>7, <1>10, <1>11, <1>12, <1>13, BalancedStepLemma

\* A step of q5 that neither injects a molecule nor is a call of a round.
LEMMA OthersBalancedLemma ==
  ASSUME ReactionsKnown, ReturnInv, app = "q5",
         UNCHANGED <<locks, conds, page, counter>>, DOMAIN sems' = DOMAIN sems,
         \A x \in Molecule : sems'[x] = sems[x],
         \A q \in Reaction : \/ pc'[q] = pc[q]
                             \/ /\ pc[q] \in {"uncreated", "loop", "done"}
                                /\ pc'[q] \in {"uncreated", "loop", "done"}
  PROVE  ReactionsKnown'
<1>1. MoleculesOK(sems, pc) /\ \A q \in Reaction : pc[q] \in DOMAIN Calls
  BY DEF ReactionsKnown, MoleculesOK
<1>2. \A q \in Reaction : pc'[q] \in DOMAIN Calls /\ Calls[pc'[q]] = Calls[pc[q]]
  BY <1>1, CallsLemma
<1>3. /\ MoleculesOK(sems', pc')
      /\ \A n \in Molecule : /\ PresentOf(sems, pc, n) \in Int
                             /\ PresentOf(sems', pc', n) = PresentOf(sems, pc, n)
  BY <1>1, <1>2, MoleculesStayLemma
<1> DEFINE e == [n \in Molecule |-> 0]
<1>4. e \in [Molecule -> Int] /\ \A n \in Molecule : e[n] = 0
  OBVIOUS
<1>5. \A n \in Injector : counter[n] \in Int
  BY DEF ReturnInv, KnownChildren, RoundsCounted, RoundOK, IsBuffer, ReactionsProcess
<1>6. Injected' = Injected /\ \A n \in Molecule : Injected[n] \in Int
  BY <1>5 DEF Injected, ReactionsKnown
<1> HIDE DEF e
<1>7. \A n \in Molecule : Injected'[n] = Injected[n] + e[n]
  BY <1>4, <1>6
<1>8. \A n \in Molecule : PresentOf(sems', pc', n) = PresentOf(sems, pc, n) + e[n]
  BY <1>3, <1>4
<1> QED
  BY <1>3, <1>4, <1>5, <1>7, <1>8, BalancedStepLemma

\* A reaction makes a call of its round.
LEMMA ReactBalancedLemma ==
  ASSUME ReactionsKnown, ReturnInv, app = "q5", NEW p \in Reaction, React(p)
  PROVE  ReactionsKnown'
<1>1. PICK i \in 1 .. Len(Script(p)) :
        /\ Step(p, Place[i], After(p, i))
        /\ \/ i <= Len(Waits[p]) /\ Wait(p, Script(p)[i])
           \/ i > Len(Waits[p]) /\ Signal(Script(p)[i])
        /\ Counts(p, IF i = Len(Script(p)) THEN -1 ELSE 0)
        /\ page' = page
  BY Zenon DEF React
<1> DEFINE m == Script(p)[i]
<1>2. /\ DOMAIN sems = Molecule \union {"s_procs_completed"} /\ MoleculesOK(sems, pc)
      /\ m \in Molecule /\ m \in DOMAIN sems
  BY RoundLemma DEF ReactionsKnown
<1>3. /\ pc[p] = Place[i] /\ pc' = [pc EXCEPT ![p] = After(p, i)] /\ Awake(p)
  BY <1>1 DEF Step
<1>4. ~Sleeps(sems, p)
  BY <1>2, <1>3 DEF Awake, WaitsIn, Sleeps
<1>5. DOMAIN pc \ {makeprocs} = ReactionsProcess /\ DOMAIN counter = ReactionsProcess
      /\ \A q \in ReactionsProcess : counter[q] \in Nat
  BY DEF ReturnInv, KnownChildren, RoundsCounted, RoundOK, IsBuffer, Children
<1>6. p \in DOMAIN pc /\ pc'[p] = After(p, i) /\ \A q \in Reaction \ {p} : pc'[q] = pc[q]
  BY <1>3, <1>5 DEF ReactionsProcess
<1>7. /\ Calls[pc[p]] = i - 1 /\ pc'[p] \in DOMAIN Calls
      /\ Calls[pc'[p]] = IF i = Len(Script(p)) THEN 0 ELSE i
  BY <1>3, <1>6, PlacesLemma
<1>8. UNCHANGED <<locks, conds>>
  BY <1>1, SemaphoresLemma
<1>9. DOMAIN sems' = DOMAIN sems /\ \A x \in DOMAIN sems \ {m} : sems'[x] = sems[x]
  BY <1>1, SemCallsLemma
<1>10. \/ i <= Len(Waits[p]) /\ AfterWait(sems[m], sems'[m], p)
       \/ i > Len(Waits[p]) /\ AfterSignal(sems[m], sems'[m])
  BY <1>1, <1>2, SemCallsLemma
<1>11. \A x \in Molecule \ {m} : sems'[x] = sems[x]
  BY <1>2, <1>9
<1>12. /\ MoleculesOK(sems', pc')
       /\ \A n \in Molecule :
            /\ PresentOf(sems, pc, n) \in Int /\ Whole(p)[n] \in Int
            /\ PresentOf(sems', pc', n)
                 = PresentOf(sems, pc, n) - (IF i = Len(Script(p)) THEN Whole(p)[n] ELSE 0)
  BY <1>2, <1>4, <1>6, <1>7, <1>10, <1>11, ReactsLemma
<1> HIDE DEF m
<1> DEFINE e == [n \in Molecule |-> IF i = Len(Script(p)) THEN -Whole(p)[n] ELSE 0]
           j == [n \in Molecule |-> 0]
<1>13. e \in [Molecule -> Int] /\ j \in [Molecule -> Int]
  BY <1>12
<1>14. Nitrogen(j) = 0 /\ Hydrogen(j) = 0 /\ Oxygen(j) = 0
  BY DEF Nitrogen, Hydrogen, Oxygen, Molecule
<1>15. Nitrogen(e) = 0 /\ Hydrogen(e) = 0 /\ Oxygen(e) = 0
  <2>1. CASE i = Len(Script(p))
    <3> DEFINE w == [n \in Molecule |-> Whole(p)[n]]
    <3>1. w \in [Molecule -> Int] /\ w = Whole(p)
      BY <1>12 DEF Whole
    <3>2. \A n \in Molecule : j[n] = w[n] + e[n]
      BY <1>12, <2>1
    <3> HIDE DEF w, e, j
    <3>3. /\ Nitrogen(w) \in Int /\ Hydrogen(w) \in Int /\ Oxygen(w) \in Int
          /\ Nitrogen(j) = Nitrogen(w) + Nitrogen(e)
          /\ Hydrogen(j) = Hydrogen(w) + Hydrogen(e)
          /\ Oxygen(j) = Oxygen(w) + Oxygen(e)
      BY <1>13, <3>1, <3>2, AtomsAddLemma
    <3>4. Nitrogen(w) = 0 /\ Hydrogen(w) = 0 /\ Oxygen(w) = 0
      BY <3>1, BalanceLemma
    <3>5. \A n \in Molecule : e[n] = e[n] + j[n]
      BY <1>13 DEF j
    <3>6. Nitrogen(e) \in Int /\ Hydrogen(e) \in Int /\ Oxygen(e) \in Int
      BY <1>13, <3>5, AtomsAddLemma
    <3> QED
      BY <1>14, <3>3, <3>4, <3>6
  <2>2. CASE i # Len(Script(p))
    <3>1. e = j
      BY <2>2
    <3> QED
      BY <1>14, <3>1
  <2> QED
    BY <2>1, <2>2
<1>16. \A n \in Injector : counter'[n] = counter[n] /\ counter[n] \in Int
  <2>1. \A n \in Injector : n # p /\ n \in ReactionsProcess
    BY DEF Injector, Reaction, ReactionsProcess
  <2> QED
    BY <1>1, <1>5, <2>1 DEF Counts
<1>17. \A n \in Molecule : Injected'[n] = Injected[n] + j[n]
  <2>1. \A n \in Molecule : Injected'[n] = Injected[n] /\ Injected[n] \in Int
    BY <1>1, <1>16 DEF Injected, ReactionsKnown
  <2> QED
    BY <2>1
<1>18. \A n \in Molecule : PresentOf(sems', pc', n) = PresentOf(sems, pc, n) + e[n]
  BY <1>12
<1>19. Nitrogen(e) = Nitrogen(j) /\ Hydrogen(e) = Hydrogen(j) /\ Oxygen(e) = Oxygen(j)
  BY <1>14, <1>15
<1> HIDE DEF e, j
<1> QED
  BY <1>1, <1>8, <1>9, <1>12, <1>13, <1>16, <1>17, <1>18, <1>19, BalancedStepLemma

\* Each step keeps the atoms.
LEMMA NextPreservesReactions ==
  ASSUME ReactionsKnown, ReturnInv, app = "q5", [Next]_vars
  PROVE  ReactionsKnown'
<1>1. /\ DOMAIN sems = Molecule \union {"s_procs_completed"} /\ "s_procs_completed" \notin Molecule
      /\ Children = ReactionsProcess /\ ReactionsProcess \subseteq DOMAIN pc
      /\ makeprocs \notin ReactionsProcess
  BY DEF ReactionsKnown, ReturnInv, KnownChildren, IsBuffer, Molecule, Children
<1>2. ASSUME NEW p \in Children, CreateChild(p, CreatedFirst)
      PROVE  ReactionsKnown'
  <2>1. /\ UNCHANGED <<sems, locks, conds, page, counter>>
        /\ pc[p] = "uncreated" /\ pc' = [pc EXCEPT ![p] = "loop"]
    BY <1>2 DEF CreateChild, synchVars
  <2>2. \A q \in Reaction : pc'[q] = pc[q] \/ (pc[q] = "uncreated" /\ pc'[q] = "loop")
    BY <1>1, <2>1 DEF ReactionsProcess
  <2> QED
    BY <2>1, <2>2, OthersBalancedLemma
<1>3. ASSUME NEW p \in Children, Complete(p)
      PROVE  ReactionsKnown'
  <2>1. /\ Signal("s_procs_completed") /\ UNCHANGED <<page, counter>>
        /\ pc[p] = "loop" /\ pc' = [pc EXCEPT ![p] = "done"]
    BY <1>3 DEF Complete, Step
  <2>2. UNCHANGED <<locks, conds>>
    BY <2>1, SemaphoresLemma
  <2>3. DOMAIN sems' = DOMAIN sems /\ \A x \in Molecule : sems'[x] = sems[x]
    BY <1>1, <2>1, SemCallsLemma
  <2>4. \A q \in Reaction : pc'[q] = pc[q] \/ (pc[q] = "loop" /\ pc'[q] = "done")
    BY <1>1, <2>1 DEF ReactionsProcess
  <2> QED
    BY <2>1, <2>2, <2>3, <2>4, OthersBalancedLemma
<1>4. CASE WaitForChildren
  <2>1. /\ Wait(makeprocs, "s_procs_completed") /\ UNCHANGED <<page, counter>>
        /\ pc' = [pc EXCEPT ![makeprocs] = "done"]
    BY <1>4 DEF WaitForChildren, Step
  <2>2. UNCHANGED <<locks, conds>>
    BY <2>1, SemaphoresLemma
  <2>3. DOMAIN sems' = DOMAIN sems /\ \A x \in Molecule : sems'[x] = sems[x]
    BY <1>1, <2>1, SemCallsLemma
  <2>4. \A q \in Reaction : pc'[q] = pc[q]
    BY <1>1, <2>1 DEF ReactionsProcess
  <2> QED
    BY <2>1, <2>2, <2>3, <2>4, OthersBalancedLemma
<1>5. CASE UNCHANGED vars
  <2>1. UNCHANGED <<sems, locks, conds, page, counter, pc>>
    BY <1>5 DEF vars, synchVars, progVars
  <2> QED
    BY <2>1, OthersBalancedLemma
<1>6. ASSUME NEW p \in Children, ReactionsStep(p)
      PROVE  ReactionsKnown'
  BY <1>3, <1>6, InjectBalancedLemma, ReactBalancedLemma DEF ReactionsStep
<1>7. ASSUME NEW p \in Children, ChildStep(p)
      PROVE  ReactionsKnown'
  BY <1>2, <1>6, <1>7 DEF ChildStep, BufferStep
<1> QED
  BY <1>4, <1>5, <1>7 DEF Next, NobodyRuns

\* Nothing is injected, free or held at the beginning.
LEMMA InitReactions ==
  ASSUME Init, app = "q5"
  PROVE  ReactionsKnown
<1>1. PICK n3 \in 0 .. MAX_N3, h2o \in 0 .. MAX_H2O, layout \in StackLayout :
        /\ pc = Uncreated(ReactionsProcess)
        /\ counter = Arguments(n3, h2o, layout)
        /\ page = Arguments(n3, h2o, layout)
        /\ sems = [s \in Molecule \union {"s_procs_completed"} |->
                     NewSemOf(IF s \in Molecule THEN 0
                              ELSE CompletedCount(Cardinality(ReactionsProcess)))]
        /\ locks = << >> /\ conds = << >>
  BY DEF Init, ReactionsInit
<1>2. DOMAIN locks = {} /\ DOMAIN conds = {}
  BY <1>1
<1>3. DOMAIN sems = Molecule \union {"s_procs_completed"}
      /\ \A m \in Molecule : sems[m] = [count |-> 0, waiting |-> <<>>]
  BY <1>1 DEF NewSemOf
<1>4. \A q \in Reaction : pc[q] = "uncreated"
  BY <1>1, ReactionsAssumption DEF Uncreated, ReactionsProcess
<1>5. InQueue(<<>>) = {} /\ NoDuplicates(<<>>) /\ <<>> \in Seq(Reaction)
  BY DEF InQueue, NoDuplicates
<1>6. MoleculesOK(sems, pc)
  <2>1. \A w \in Seq(Reaction) :
          [count |-> 0, waiting |-> w] \in [count : Nat, waiting : Seq(Reaction)]
    OBVIOUS
  <2>2. \A m \in Molecule : sems[m] \in [count : Nat, waiting : Seq(Reaction)]
    BY <1>3, <1>5, <2>1, Zenon
  <2> QED
    BY <1>3, <1>4, <1>5, <2>2, CallsLemma DEF MoleculesOK
<1>7. \A m \in Injector : page[m] \in Int /\ counter[m] = page[m]
  <2>1. n3 \in Int /\ h2o \in Int /\ h2o \div 2 \in Int /\ 3 * n3 \in Int
    BY ReactionsAssumption
  <2>2. \A m \in Injector : Arguments(n3, h2o, layout)[m] \in Int
    BY <2>1 DEF Arguments, ExpectedReactions, ReactionsProcess, Injector, Reaction, StackLayout
  <2> QED
    BY <1>1, <2>2
<1>8. \A m \in Molecule : Injected[m] = 0
  BY <1>7 DEF Injected
<1>9. \A m \in Molecule : PresentIn(sems, pc)[m] = 0
  <2> SUFFICES ASSUME NEW n \in Molecule PROVE PresentOf(sems, pc, n) = 0
    BY DEF PresentIn
  <2>1. \A q : ~Sleeps(sems, q)
    BY <1>3, <1>5 DEF Sleeps
  <2>2. \A q \in Reaction : HeldBy(sems, pc, q, n) = 0
    <3> SUFFICES ASSUME NEW q \in Reaction PROVE HeldBy(sems, pc, q, n) = 0
      OBVIOUS
    <3>1. HeldBy(sems, pc, q, n) = HeldAfter(q, 0, n)
      BY <1>4, <1>6, <2>1, CallsLemma, HeldByLemma
    <3> QED
      BY <3>1, HeldLemma
  <2> QED
    BY <1>3, <2>2 DEF PresentOf, Reaction
<1> QED
  BY <1>2, <1>3, <1>6, <1>7, <1>8, <1>9
     DEF ReactionsKnown, Nitrogen, Hydrogen, Oxygen, Molecule

\* Only makeprocs waits for s_procs_completed, so a reaction sleeps when it is
\* not awake, and what is known of the atoms is said of those that are present.
LEMMA PresentLemma ==
  ASSUME ReactionsKnown, ReturnInv, app = "q5"
  PROVE  Present = PresentIn(sems, pc)
<1>1. /\ DOMAIN sems = Molecule \union {"s_procs_completed"}
      /\ DOMAIN locks = {} /\ DOMAIN conds = {}
  BY DEF ReactionsKnown
<1>2. InQueue(sems["s_procs_completed"].waiting) \subseteq {makeprocs}
  BY DEF ReturnInv, SignalsCounted, Completed, InQueue
<1>3. \A q \in Reaction : Awake(q) <=> ~Sleeps(sems, q)
  <2> SUFFICES ASSUME NEW q \in Reaction PROVE WaitsIn(sems, q) <=> Sleeps(sems, q)
    BY <1>1 DEF Awake, WaitsIn
  <2>1. q # makeprocs
    BY ReactionsAssumption DEF ReactionsProcess
  <2> QED
    BY <1>1, <1>2, <2>1 DEF WaitsIn, Sleeps
<1>4. \A q \in Reaction : \A m : Held(q, m) = HeldBy(sems, pc, q, m)
  BY <1>3 DEF Held, HeldBy, Returned, Is
<1>5. \A m : /\ Held("R1", m) = HeldBy(sems, pc, "R1", m)
             /\ Held("R2", m) = HeldBy(sems, pc, "R2", m)
             /\ Held("R3", m) = HeldBy(sems, pc, "R3", m)
  BY <1>4 DEF Reaction
<1> QED
  BY <1>5 DEF Present, PresentIn, PresentOf

ReactionsInv == ReturnInv /\ (app = "q5" => ReactionsKnown)

\* In q5 the free molecules and those that reactions hold always have the atoms
\* of the molecules that were injected, however many that are.
THEOREM AtomsAreConserved == Spec => []AtomsConserved
<1>1. Init => ReactionsInv
  BY InitEstablishesReturn, InitReactions DEF ReactionsInv
<1>2. ReactionsInv /\ [Next]_vars => ReactionsInv'
  <2> SUFFICES ASSUME ReactionsInv, [Next]_vars PROVE ReactionsInv'
    OBVIOUS
  <2>1. ReturnInv' /\ app' = app
    BY NextPreservesReturn, AppLemma DEF ReactionsInv
  <2> QED
    BY <2>1, NextPreservesReactions DEF ReactionsInv
<1>3. ReactionsInv => AtomsConserved
  BY PresentLemma DEF ReactionsInv, ReactionsKnown, AtomsConserved
<1> QED
  BY <1>1, <1>2, <1>3, PTL DEF Spec

=============================================================================
