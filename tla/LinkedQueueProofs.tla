------------------------- MODULE LinkedQueueProofs --------------------------
(***************************************************************************)
(* Theorems about LinkedQueue: the links of each queue are a sequence that *)
(* the fields of the heap describe, and every operation of os/queue.c does *)
(* to that sequence what Queues says it does.  The proof goes up in three  *)
(* layers: the fields, the sequences of links (Holds), and the sequences   *)
(* of objects (Good), where the kernel's steps are those of Queues.        *)
(***************************************************************************)
EXTENDS LinkedQueue, FiniteSetTheorems, SequenceTheorems, TLAPS

Q == INSTANCE QueueProofs

LinkOrNull == Link \union {NULL}

\* What a heap is made of.
Heap ==
  [next   : [Link -> LinkOrNull],
   prev   : [Link -> LinkOrNull],
   queue  : [Link -> AllQueues \union {NULL}],
   object : [Link -> Object \union {NULL}],
   first  : [AllQueues -> LinkOrNull],
   last   : [AllQueues -> LinkOrNull],
   nitems : [AllQueues -> Nat]]

-----------------------------------------------------------------------------
(* The fields of the heap after each operation *)

\* What AQueueInsertAfter assigns.
InsertedAfter(h, g, q, after, l, n) ==
  /\ g.queue = [h.queue EXCEPT ![l] = q]
  /\ g.prev = SetIf([h.prev EXCEPT ![l] = after], n, l)
  /\ g.next = SetIf([h.next EXCEPT ![l] = n], after, l)
  /\ g.first = [h.first EXCEPT ![q] = IF after = NULL THEN l ELSE @]
  /\ g.last = [h.last EXCEPT ![q] = IF after = @ THEN l ELSE @]
  /\ g.nitems = [h.nitems EXCEPT ![q] = @ + 1]
  /\ g.object = h.object
  /\ g \in Heap

\* The nested updates of AQueueInsertAfter are those assignments.
LEMMA InsertAfterFields ==
  ASSUME NEW h \in Heap, NEW q \in AllQueues, NEW after \in LinkOrNull, NEW l \in Link,
         NEW g, g = AQueueInsertAfter(h, q, after, l),
         NEW n, n = IF after = NULL THEN NULL ELSE h.next[after]
  PROVE  InsertedAfter(h, g, q, after, l, n)
<1> DEFINE Qu == [h.queue EXCEPT ![l] = q]
           Pr == SetIf([h.prev EXCEPT ![l] = after], n, l)
           Ne == SetIf([h.next EXCEPT ![l] = n], after, l)
           Fi == [h.first EXCEPT ![q] = IF after = NULL THEN l ELSE @]
           La == [h.last EXCEPT ![q] = IF after = @ THEN l ELSE @]
           Ni == [h.nitems EXCEPT ![q] = @ + 1]
<1>1. n \in LinkOrNull
  BY DEF Heap, LinkOrNull
<1>2. /\ Qu \in [Link -> AllQueues \union {NULL}] /\ Ni \in [AllQueues -> Nat]
      /\ Fi \in [AllQueues -> LinkOrNull] /\ La \in [AllQueues -> LinkOrNull]
  BY DEF Heap, LinkOrNull
<1>3. Pr \in [Link -> LinkOrNull] /\ Ne \in [Link -> LinkOrNull]
  BY <1>1 DEF Heap, SetIf, LinkOrNull
<1>4. g = [h EXCEPT !.queue = Qu, !.prev = Pr, !.next = Ne, !.first = Fi, !.last = La,
                    !.nitems = Ni]
  BY Zenon DEF AQueueInsertAfter
<1> HIDE DEF Qu, Pr, Ne, Fi, La, Ni
<1>5. /\ g.queue = Qu /\ g.prev = Pr /\ g.next = Ne /\ g.first = Fi /\ g.last = La
      /\ g.nitems = Ni /\ g.object = h.object /\ g \in Heap
  BY <1>2, <1>3, <1>4 DEF Heap
<1> QED
  BY <1>5 DEF InsertedAfter, Qu, Pr, Ne, Fi, La, Ni

\* What AQueueInsertBefore assigns.
InsertedBefore(h, g, q, before, l, p) ==
  /\ g.queue = [h.queue EXCEPT ![l] = q]
  /\ g.next = SetIf([h.next EXCEPT ![l] = before], p, l)
  /\ g.prev = SetIf([h.prev EXCEPT ![l] = p], before, l)
  /\ g.last = [h.last EXCEPT ![q] = IF before = NULL THEN l ELSE @]
  /\ g.first = [h.first EXCEPT ![q] = IF before = @ THEN l ELSE @]
  /\ g.nitems = [h.nitems EXCEPT ![q] = @ + 1]
  /\ g.object = h.object
  /\ g \in Heap

\* The nested updates of AQueueInsertBefore are those assignments.
LEMMA InsertBeforeFields ==
  ASSUME NEW h \in Heap, NEW q \in AllQueues, NEW before \in LinkOrNull, NEW l \in Link,
         NEW g, g = AQueueInsertBefore(h, q, before, l),
         NEW p, p = IF before = NULL THEN NULL ELSE h.prev[before]
  PROVE  InsertedBefore(h, g, q, before, l, p)
<1> DEFINE Qu == [h.queue EXCEPT ![l] = q]
           Ne == SetIf([h.next EXCEPT ![l] = before], p, l)
           Pr == SetIf([h.prev EXCEPT ![l] = p], before, l)
           La == [h.last EXCEPT ![q] = IF before = NULL THEN l ELSE @]
           Fi == [h.first EXCEPT ![q] = IF before = @ THEN l ELSE @]
           Ni == [h.nitems EXCEPT ![q] = @ + 1]
<1>1. p \in LinkOrNull
  BY DEF Heap, LinkOrNull
<1>2. /\ Qu \in [Link -> AllQueues \union {NULL}] /\ Ni \in [AllQueues -> Nat]
      /\ Fi \in [AllQueues -> LinkOrNull] /\ La \in [AllQueues -> LinkOrNull]
  BY DEF Heap, LinkOrNull
<1>3. Pr \in [Link -> LinkOrNull] /\ Ne \in [Link -> LinkOrNull]
  BY <1>1 DEF Heap, SetIf, LinkOrNull
<1>4. g = [h EXCEPT !.queue = Qu, !.next = Ne, !.prev = Pr, !.last = La, !.first = Fi,
                    !.nitems = Ni]
  BY Zenon DEF AQueueInsertBefore
<1> HIDE DEF Qu, Pr, Ne, Fi, La, Ni
<1>5. /\ g.queue = Qu /\ g.prev = Pr /\ g.next = Ne /\ g.first = Fi /\ g.last = La
      /\ g.nitems = Ni /\ g.object = h.object /\ g \in Heap
  BY <1>2, <1>3, <1>4 DEF Heap
<1> QED
  BY <1>5 DEF InsertedBefore, Qu, Pr, Ne, Fi, La, Ni

\* What the unlinking of AQueueAllocLink and AQueueRemove assigns.
WithoutLink(h, g, q, l) ==
  /\ g.queue = h.queue /\ g.object = h.object
  /\ g.next = SetIf(h.next, h.prev[l], h.next[l])
  /\ g.prev = SetIf(h.prev, h.next[l], h.prev[l])
  /\ g.first = [h.first EXCEPT ![q] = IF @ = l THEN h.next[l] ELSE @]
  /\ g.last = [h.last EXCEPT ![q] = IF @ = l THEN h.prev[l] ELSE @]
  /\ g.nitems = [h.nitems EXCEPT ![q] = @ - 1]
  /\ g \in Heap

\* A queue that counts at least one link still counts a natural number.
LEMMA UnlinkedFields ==
  ASSUME NEW h \in Heap, NEW q \in AllQueues, NEW l \in Link, h.nitems[q] > 0,
         NEW g, g = Unlinked(h, q, l)
  PROVE  WithoutLink(h, g, q, l)
<1> DEFINE Ne == SetIf(h.next, h.prev[l], h.next[l])
           Pr == SetIf(h.prev, h.next[l], h.prev[l])
           Fi == [h.first EXCEPT ![q] = IF @ = l THEN h.next[l] ELSE @]
           La == [h.last EXCEPT ![q] = IF @ = l THEN h.prev[l] ELSE @]
           Ni == [h.nitems EXCEPT ![q] = @ - 1]
<1>1. h.next[l] \in LinkOrNull /\ h.prev[l] \in LinkOrNull
  BY DEF Heap, LinkOrNull
<1>2. /\ Ni \in [AllQueues -> Nat]
      /\ Fi \in [AllQueues -> LinkOrNull] /\ La \in [AllQueues -> LinkOrNull]
  BY <1>1 DEF Heap, LinkOrNull
<1>3. Pr \in [Link -> LinkOrNull] /\ Ne \in [Link -> LinkOrNull]
  BY <1>1 DEF Heap, SetIf, LinkOrNull
<1>4. g = [h EXCEPT !.first = Fi, !.last = La, !.next = Ne, !.prev = Pr, !.nitems = Ni]
  BY Zenon DEF Unlinked
<1> HIDE DEF Pr, Ne, Fi, La, Ni
<1>5. /\ g.queue = h.queue /\ g.prev = Pr /\ g.next = Ne /\ g.first = Fi /\ g.last = La
      /\ g.nitems = Ni /\ g.object = h.object /\ g \in Heap
  BY <1>2, <1>3, <1>4 DEF Heap
<1> QED
  BY <1>5 DEF WithoutLink, Pr, Ne, Fi, La, Ni

\* What AQueueAllocLink assigns to the link that it has unlinked.
Cleared(h, g, l, obj) ==
  /\ g.next = [h.next EXCEPT ![l] = NULL]
  /\ g.prev = [h.prev EXCEPT ![l] = NULL]
  /\ g.queue = [h.queue EXCEPT ![l] = NULL]
  /\ g.object = [h.object EXCEPT ![l] = obj]
  /\ g.first = h.first /\ g.last = h.last /\ g.nitems = h.nitems
  /\ g \in Heap

\* The four assignments at the end of AQueueAllocLink are these.
LEMMA ClearedFields ==
  ASSUME NEW h \in Heap, NEW l \in Link, NEW obj \in Object,
         NEW g, g = [h EXCEPT !.next[l] = NULL, !.prev[l] = NULL, !.queue[l] = NULL,
                              !.object[l] = obj]
  PROVE  Cleared(h, g, l, obj)
<1> DEFINE Ne == [h.next EXCEPT ![l] = NULL]
           Pr == [h.prev EXCEPT ![l] = NULL]
           Qu == [h.queue EXCEPT ![l] = NULL]
           Ob == [h.object EXCEPT ![l] = obj]
<1>1. /\ Ne \in [Link -> LinkOrNull] /\ Pr \in [Link -> LinkOrNull]
      /\ Qu \in [Link -> AllQueues \union {NULL}] /\ Ob \in [Link -> Object \union {NULL}]
  BY DEF Heap, LinkOrNull
<1>2. g = [h EXCEPT !.next = Ne, !.prev = Pr, !.queue = Qu, !.object = Ob]
  BY Zenon
<1> HIDE DEF Ne, Pr, Qu, Ob
<1>3. /\ g.next = Ne /\ g.prev = Pr /\ g.queue = Qu /\ g.object = Ob
      /\ g.first = h.first /\ g.last = h.last /\ g.nitems = h.nitems /\ g \in Heap
  BY <1>1, <1>2 DEF Heap
<1> QED
  BY <1>3 DEF Cleared, Ne, Pr, Qu, Ob

\* What AQueueMoveAfter assigns.
MovedAfter(h, g, q, after, l, next, prev) ==
  /\ g.queue = h.queue /\ g.object = h.object /\ g.nitems = h.nitems
  /\ g.next = [next EXCEPT ![l] = next[after], ![after] = l]
  /\ g.prev = SetIf([prev EXCEPT ![l] = after], next[after], l)
  /\ g.first = [h.first EXCEPT ![q] = IF @ = l THEN h.next[l] ELSE @]
  /\ g.last = [h.last EXCEPT ![q] = IF @ = after THEN l ELSE @]
  /\ g \in Heap

\* The nested updates of AQueueMoveAfter are those assignments.
LEMMA MoveAfterFields ==
  ASSUME NEW h \in Heap, NEW q \in AllQueues, NEW after \in Link, NEW l \in Link,
         NEW g, g = AQueueMoveAfter(h, q, after, l),
         NEW next, next = SetIf(h.next, h.prev[l], h.next[l]),
         NEW prev, prev = SetIf(h.prev, h.next[l], h.prev[l])
  PROVE  MovedAfter(h, g, q, after, l, next, prev)
<1> DEFINE Ne == [next EXCEPT ![l] = next[after], ![after] = l]
           Pr == SetIf([prev EXCEPT ![l] = after], next[after], l)
           Fi == [h.first EXCEPT ![q] = IF @ = l THEN h.next[l] ELSE @]
           La == [h.last EXCEPT ![q] = IF @ = after THEN l ELSE @]
<1>1. h.next[l] \in LinkOrNull /\ h.prev[l] \in LinkOrNull
  BY DEF Heap, LinkOrNull
<1>2. Fi \in [AllQueues -> LinkOrNull] /\ La \in [AllQueues -> LinkOrNull]
  BY <1>1 DEF Heap, LinkOrNull
<1>3. next \in [Link -> LinkOrNull] /\ prev \in [Link -> LinkOrNull]
  BY <1>1 DEF Heap, SetIf, LinkOrNull
<1>4. Pr \in [Link -> LinkOrNull] /\ Ne \in [Link -> LinkOrNull]
  BY <1>3 DEF SetIf, LinkOrNull
<1>5. g = [h EXCEPT !.first = Fi, !.last = La, !.next = Ne, !.prev = Pr]
  BY Zenon DEF AQueueMoveAfter
<1> HIDE DEF Pr, Ne, Fi, La
<1>6. /\ g.queue = h.queue /\ g.prev = Pr /\ g.next = Ne /\ g.first = Fi /\ g.last = La
      /\ g.nitems = h.nitems /\ g.object = h.object /\ g \in Heap
  BY <1>2, <1>4, <1>5 DEF Heap
<1> QED
  BY <1>6 DEF MovedAfter, Pr, Ne, Fi, La

-----------------------------------------------------------------------------
(* Lists as sequences of links *)

\* The link at place i, or the null pointer beyond the ends.
At(s, i) == IF i \in 1 .. Len(s) THEN s[i] ELSE NULL

On(s) == {s[i] : i \in 1 .. Len(s)}

\* The fields of the heap make s the links of queue q.
IsList(h, q, s) ==
  /\ s \in Seq(Link)
  /\ h.nitems[q] = Len(s) /\ h.first[q] = At(s, 1) /\ h.last[q] = At(s, Len(s))
  /\ \A i \in 1 .. Len(s) :
       /\ h.queue[s[i]] = q
       /\ h.prev[s[i]] = At(s, i - 1) /\ h.next[s[i]] = At(s, i + 1)
       /\ \A j \in 1 .. Len(s) : s[i] = s[j] => i = j

\* c has the lists of all queues; the links out are on none of them.
Holds(h, c, out) ==
  /\ h \in Heap /\ c \in [AllQueues -> Seq(Link)]
  /\ \A q \in AllQueues : IsList(h, q, c[q])
  /\ \A l \in Link \ out : h.queue[l] \in AllQueues /\ l \in On(c[h.queue[l]])
  /\ \A l \in out : \A q \in AllQueues : l \notin On(c[q])

\* An operation on queue q and link l leaves the others as they are.
SameElsewhere(h, g, q, l) ==
  /\ \A k \in Link \ {l} :
       /\ g.queue[k] = h.queue[k]
       /\ h.queue[k] # q => g.next[k] = h.next[k] /\ g.prev[k] = h.prev[k]
  /\ \A r \in AllQueues \ {q} :
       g.first[r] = h.first[r] /\ g.last[r] = h.last[r] /\ g.nitems[r] = h.nitems[r]

\* The lists c, but s on queue q.
Put(c, q, s) == [c EXCEPT ![q] = s]

\* g has the queue and object fields of h.
SameOwners(h, g) == g \in Heap /\ g.queue = h.queue /\ g.object = h.object

\* Link l comes to be on queue q, or gets the object obj.
Requeued(h, g, l, q) == g.queue = [h.queue EXCEPT ![l] = q]

Reassigned(h, g, l, obj) == g.object = [h.object EXCEPT ![l] = obj]

\* The null pointer is not a link, and stands for the places beyond the ends.
LEMMA OnLemma ==
  ASSUME NEW s \in Seq(Link)
  PROVE  /\ Len(s) \in Nat /\ On(s) \subseteq Link /\ NULL \notin Link
         /\ \A i \in 1 .. Len(s) : s[i] \in On(s) /\ s[i] \in Link
         /\ \A i \in Int : At(s, i) \in LinkOrNull
         /\ \A i \in Int : At(s, i) = NULL <=> i \notin 1 .. Len(s)
<1>1. Len(s) \in Nat /\ \A i \in 1 .. Len(s) : s[i] \in Link
  OBVIOUS
<1>2. NULL \notin Link
  BY LinksAssumption DEF NULL, Link
<1> QED
  BY <1>1, <1>2 DEF On, At, LinkOrNull

\* The lists of other queues stay what they are.
LEMMA Elsewhere ==
  ASSUME NEW h, NEW g, NEW q \in AllQueues, NEW l \in Link, SameElsewhere(h, g, q, l),
         NEW r \in AllQueues \ {q}, NEW s, IsList(h, r, s), l \notin On(s)
  PROVE  IsList(g, r, s)
<1>1. s \in Seq(Link)
  BY DEF IsList
<1>2. \A i \in 1 .. Len(s) : s[i] \in Link \ {l} /\ h.queue[s[i]] = r
  BY <1>1, OnLemma DEF IsList
<1> QED
  BY <1>1, <1>2, SMTT(30) DEF IsList, SameElsewhere

\* An operation that makes t the list of queue q, and puts l on it or takes it
\* from it.
LEMMA Update ==
  ASSUME NEW h, NEW g \in Heap, NEW c, NEW out, NEW outn, Holds(h, c, out),
         NEW q \in AllQueues, NEW l \in Link, SameElsewhere(h, g, q, l),
         NEW t, IsList(g, q, t),
         out \ {l} = outn \ {l}, l \in out \/ l \in On(c[q]),
         \A k \in Link \ {l} : k \in On(t) <=> k \in On(c[q]),
         l \in outn => l \notin On(t),
         l \notin outn => l \in On(t)
  PROVE  Holds(g, Put(c, q, t), outn)
<1> DEFINE d == Put(c, q, t)
<1>1. /\ c \in [AllQueues -> Seq(Link)] /\ t \in Seq(Link)
      /\ \A r \in AllQueues : IsList(h, r, c[r])
      /\ \A k \in Link \ out : h.queue[k] \in AllQueues /\ k \in On(c[h.queue[k]])
      /\ \A k \in out : \A r \in AllQueues : k \notin On(c[r])
  BY DEF Holds, IsList
<1>2. d \in [AllQueues -> Seq(Link)] /\ d[q] = t /\ \A r \in AllQueues \ {q} : d[r] = c[r]
  BY <1>1 DEF Put
<1>3. \A r \in AllQueues : \A k \in On(c[r]) : h.queue[k] = r
  BY <1>1 DEF IsList, On
<1>4. \A k \in On(t) : g.queue[k] = q
  BY DEF IsList, On
<1>5. \A r \in AllQueues \ {q} : l \notin On(c[r])
  BY <1>1, <1>3
<1>6. ASSUME NEW r \in AllQueues
      PROVE  IsList(g, r, d[r])
  <2>1. CASE r = q
    BY <2>1, <1>2
  <2>2. CASE r # q
    <3>1. r \in AllQueues \ {q} /\ d[r] = c[r] /\ IsList(h, r, c[r]) /\ l \notin On(c[r])
      BY <2>2, <1>1, <1>2, <1>5
    <3>2. IsList(g, r, c[r])
      BY <3>1, Elsewhere
    <3> QED
      BY <3>1, <3>2
  <2> QED
    BY <2>1, <2>2
<1>7. ASSUME NEW k \in Link \ outn
      PROVE  g.queue[k] \in AllQueues /\ k \in On(d[g.queue[k]])
  <2>1. CASE k = l
    BY <2>1, <1>2, <1>4
  <2>2. CASE k # l
    <3>1. /\ k \notin out /\ g.queue[k] = h.queue[k]
          /\ h.queue[k] \in AllQueues /\ k \in On(c[h.queue[k]])
      BY <2>2, <1>1 DEF SameElsewhere
    <3> QED
      BY <3>1, <2>2, <1>2
  <2> QED
    BY <2>1, <2>2
<1>8. ASSUME NEW k \in outn, NEW r \in AllQueues
      PROVE  k \notin On(d[r])
  <2>1. CASE k = l
    BY <2>1, <1>2, <1>5
  <2>2. CASE k # l
    <3>1. k \in out /\ k \notin On(c[r])
      BY <2>2, <1>1
    <3>2. On(t) \subseteq Link
      BY <1>1, OnLemma
    <3> QED
      BY <3>1, <3>2, <2>2, <1>1, <1>2
  <2> QED
    BY <2>1, <2>2
<1> HIDE DEF d
<1>9. Holds(g, d, outn)
  BY <1>2, <1>6, <1>7, <1>8 DEF Holds
<1> QED
  BY <1>9 DEF d

\* Unlinking needs a list that has the link, at one place.
LEMMA HoldsLemma ==
  ASSUME NEW h, NEW c, NEW out, Holds(h, c, out), NEW q \in AllQueues
  PROVE  /\ h \in Heap /\ c[q] \in Seq(Link) /\ IsList(h, q, c[q])
         /\ \A l \in On(c[q]) : l \in Link /\ h.queue[l] = q /\ l \notin out
         /\ \A l \in Link \ out : h.queue[l] = q => l \in On(c[q])
<1>1. c[q] \in Seq(Link) /\ IsList(h, q, c[q])
  BY DEF Holds
<1>2. On(c[q]) \subseteq Link /\ \A l \in On(c[q]) : h.queue[l] = q
  BY <1>1, OnLemma DEF IsList, On
<1> QED
  BY <1>1, <1>2 DEF Holds
-----------------------------------------------------------------------------
(* What the operations do to the lists *)

\* AQueueInsertLast always succeeds, and appends.
LEMMA InsertLastLemma ==
  ASSUME NEW h, NEW c, NEW out, Holds(h, c, out), NEW q \in AllQueues,
         NEW l \in Link, l \in out, NEW g, g = AQueueInsertLast(h, q, l)
  PROVE  /\ CanInsert(h, q, h.last[q])
         /\ g \in Heap /\ Requeued(h, g, l, q) /\ g.object = h.object
         /\ Holds(g, Put(c, q, Append(c[q], l)), out \ {l})
<1> PICK after : after = h.last[q]
  OBVIOUS
<1> DEFINE s == c[q]
           n == Len(s)
           t == Append(s, l)
<1>1. h \in Heap /\ s \in Seq(Link) /\ IsList(h, q, s) /\ n \in Nat
  BY HoldsLemma
<1>2. /\ t \in Seq(Link) /\ Len(t) = n + 1 /\ t[n + 1] = l
      /\ \A i \in 1 .. n : t[i] = s[i]
  BY <1>1
<1>3. \A i \in 1 .. n : s[i] \in Link \ {l}
  BY <1>1, OnLemma, HoldsLemma
<1>4. after = At(s, n) /\ after \in LinkOrNull /\ after # l /\ (n > 0 => after = s[n])
  BY <1>1, <1>3, OnLemma DEF IsList, At, LinkOrNull
<1>5. (after = NULL <=> n = 0) /\ NULL \notin Link
  BY <1>1, <1>4, OnLemma
<1>6. CanInsert(h, q, after)
  BY <1>1, <1>4, <1>5 DEF CanInsert, AQueueEmpty, IsList, At
<1>7. (IF after = NULL THEN NULL ELSE h.next[after]) = NULL
  BY <1>1, <1>4, <1>5 DEF IsList, At
<1>8. /\ g \in Heap
      /\ g.queue = [h.queue EXCEPT ![l] = q]
      /\ g.prev = [h.prev EXCEPT ![l] = after]
      /\ g.next = SetIf([h.next EXCEPT ![l] = NULL], after, l)
      /\ g.first = [h.first EXCEPT ![q] = IF after = NULL THEN l ELSE @]
      /\ g.last = [h.last EXCEPT ![q] = l]
      /\ g.nitems = [h.nitems EXCEPT ![q] = @ + 1]
      /\ g.object = h.object
  <2>1. PICK m : m = NULL /\ m = IF after = NULL THEN NULL ELSE h.next[after]
    BY <1>7
  <2>2. g = AQueueInsertAfter(h, q, after, l)
    BY DEF AQueueInsertLast
  <2>3. [h.last EXCEPT ![q] = IF after = @ THEN l ELSE @] = [h.last EXCEPT ![q] = l]
    OBVIOUS
  <2>4. InsertedAfter(h, g, q, after, l, m)
    <3>1. h \in Heap /\ after \in LinkOrNull
      BY <1>1, <1>4
    <3> QED
      BY <3>1, <2>1, <2>2, InsertAfterFields
  <2>5. g.prev = [h.prev EXCEPT ![l] = after]
    BY <2>1, <2>4 DEF InsertedAfter, SetIf
  <2> QED
    BY <2>1, <2>3, <2>4, <2>5 DEF InsertedAfter
<1>9. \A k \in Link : g.next[k] = IF k = after THEN l ELSE IF k = l THEN NULL ELSE h.next[k]
  BY <1>1, <1>4, <1>5, <1>8 DEF SetIf, Heap, LinkOrNull
<1>10. \A k \in Link : /\ g.prev[k] = IF k = l THEN after ELSE h.prev[k]
                       /\ g.queue[k] = IF k = l THEN q ELSE h.queue[k]
  BY <1>1, <1>8 DEF Heap
<1>11. SameElsewhere(h, g, q, l)
  <2>1. n > 0 => h.queue[after] = q
    BY <1>1, <1>4 DEF IsList
  <2>2. \A k \in Link : h.queue[k] # q => k # after
    BY <2>1, <1>1, <1>5
  <2>3. \A r \in AllQueues \ {q} :
          g.first[r] = h.first[r] /\ g.last[r] = h.last[r] /\ g.nitems[r] = h.nitems[r]
    BY <1>1, <1>8 DEF Heap
  <2> QED
    BY <2>2, <2>3, <1>9, <1>10 DEF SameElsewhere
<1>12. IsList(g, q, t)
  <2>1. g.nitems[q] = Len(t)
    BY <1>1, <1>2, <1>8 DEF IsList, Heap
  <2>2. g.first[q] = At(t, 1)
    <3>1. h.first[q] = At(s, 1) /\ h.first \in [AllQueues -> LinkOrNull]
      BY <1>1 DEF IsList, Heap
    <3> QED
      BY <3>1, <1>1, <1>2, <1>5, <1>8 DEF At
  <2>3. g.last[q] = At(t, Len(t))
    BY <1>1, <1>2, <1>8 DEF At, Heap
  <2>4. ASSUME NEW i \in 1 .. Len(t)
        PROVE  /\ g.queue[t[i]] = q
               /\ g.prev[t[i]] = At(t, i - 1) /\ g.next[t[i]] = At(t, i + 1)
               /\ \A j \in 1 .. Len(t) : t[i] = t[j] => i = j
    <3>1. CASE i = n + 1
      BY <3>1, <1>1, <1>2, <1>3, <1>4, <1>9, <1>10 DEF At
    <3>2. CASE i # n + 1
      <4>1. i \in 1 .. n /\ t[i] = s[i] /\ s[i] \in Link \ {l}
        BY <3>2, <1>1, <1>2, <1>3
      <4>2. /\ h.queue[s[i]] = q /\ h.prev[s[i]] = At(s, i - 1) /\ h.next[s[i]] = At(s, i + 1)
            /\ \A j \in 1 .. n : s[i] = s[j] => i = j
        BY <4>1, <1>1 DEF IsList
      <4>3. At(t, i - 1) = At(s, i - 1)
        BY <4>1, <1>1, <1>2 DEF At
      <4>4. At(t, i + 1) = IF i = n THEN l ELSE At(s, i + 1)
        BY <4>1, <1>1, <1>2 DEF At
      <4>5. s[i] = after <=> i = n
        BY <4>1, <4>2, <1>1, <1>4
      <4>6. \A j \in 1 .. n + 1 : t[i] = t[j] => i = j
        BY <4>1, <4>2, <1>1, <1>2
      <4> QED
        BY <4>1, <4>2, <4>3, <4>4, <4>5, <4>6, <1>2, <1>9, <1>10
    <3> QED
      BY <3>1, <3>2
  <2> QED
    BY <2>1, <2>2, <2>3, <2>4, <1>2 DEF IsList
<1>13. \A k \in Link : k \in On(t) <=> k \in On(s) \/ k = l
  BY <1>1, <1>2 DEF On
<1> HIDE DEF t
<1>14. Holds(g, Put(c, q, t), out \ {l})
  BY <1>8, <1>11, <1>12, <1>13, Update
<1> QED
  BY <1>6, <1>8, <1>14 DEF t, Requeued
\* AQueueInsertFirst always succeeds, and puts the link before the others.
LEMMA InsertFirstLemma ==
  ASSUME NEW h, NEW c, NEW out, Holds(h, c, out), NEW q \in AllQueues,
         NEW l \in Link, l \in out, NEW g, g = AQueueInsertFirst(h, q, l)
  PROVE  /\ CanInsert(h, q, h.first[q])
         /\ g \in Heap /\ Requeued(h, g, l, q) /\ g.object = h.object
         /\ Holds(g, Put(c, q, <<l>> \o c[q]), out \ {l})
<1> PICK before : before = h.first[q]
  OBVIOUS
<1> DEFINE s == c[q]
           n == Len(s)
           t == <<l>> \o s
<1>1. h \in Heap /\ s \in Seq(Link) /\ IsList(h, q, s) /\ n \in Nat
  BY HoldsLemma
<1>2. /\ t \in Seq(Link) /\ Len(t) = n + 1 /\ t[1] = l
      /\ \A i \in 1 .. n : t[i + 1] = s[i]
      /\ \A i \in 2 .. n + 1 : t[i] = s[i - 1] /\ i - 1 \in 1 .. n
  BY <1>1
<1>3. \A i \in 1 .. n : s[i] \in Link \ {l}
  BY <1>1, OnLemma, HoldsLemma
<1>4. before = At(s, 1) /\ before \in LinkOrNull /\ before # l /\ (n > 0 => before = s[1])
  BY <1>1, <1>3, OnLemma DEF IsList, At, LinkOrNull
<1>5. (before = NULL <=> n = 0) /\ NULL \notin Link
  BY <1>1, <1>4, OnLemma
<1>6. CanInsert(h, q, before)
  BY <1>1, <1>4, <1>5 DEF CanInsert, AQueueEmpty, IsList, At
<1>7. (IF before = NULL THEN NULL ELSE h.prev[before]) = NULL
  BY <1>1, <1>4, <1>5 DEF IsList, At
<1>8. /\ g \in Heap
      /\ g.queue = [h.queue EXCEPT ![l] = q]
      /\ g.next = [h.next EXCEPT ![l] = before]
      /\ g.prev = SetIf([h.prev EXCEPT ![l] = NULL], before, l)
      /\ g.last = [h.last EXCEPT ![q] = IF before = NULL THEN l ELSE @]
      /\ g.first = [h.first EXCEPT ![q] = l]
      /\ g.nitems = [h.nitems EXCEPT ![q] = @ + 1]
      /\ g.object = h.object
  <2>1. PICK m : m = NULL /\ m = IF before = NULL THEN NULL ELSE h.prev[before]
    BY <1>7
  <2>2. g = AQueueInsertBefore(h, q, before, l)
    BY DEF AQueueInsertFirst
  <2>3. [h.first EXCEPT ![q] = IF before = @ THEN l ELSE @] = [h.first EXCEPT ![q] = l]
    OBVIOUS
  <2>4. InsertedBefore(h, g, q, before, l, m)
    <3>1. h \in Heap /\ before \in LinkOrNull
      BY <1>1, <1>4
    <3> QED
      BY <3>1, <2>1, <2>2, InsertBeforeFields
  <2>5. g.next = [h.next EXCEPT ![l] = before]
    BY <2>1, <2>4 DEF InsertedBefore, SetIf
  <2> QED
    BY <2>1, <2>3, <2>4, <2>5 DEF InsertedBefore
<1>9. \A k \in Link : g.prev[k] = IF k = before THEN l ELSE IF k = l THEN NULL ELSE h.prev[k]
  BY <1>1, <1>4, <1>5, <1>8 DEF SetIf, Heap, LinkOrNull
<1>10. \A k \in Link : /\ g.next[k] = IF k = l THEN before ELSE h.next[k]
                       /\ g.queue[k] = IF k = l THEN q ELSE h.queue[k]
  BY <1>1, <1>8 DEF Heap
<1>11. SameElsewhere(h, g, q, l)
  <2>1. n > 0 => h.queue[before] = q
    BY <1>1, <1>4 DEF IsList
  <2>2. \A k \in Link : h.queue[k] # q => k # before
    BY <2>1, <1>1, <1>5
  <2>3. \A r \in AllQueues \ {q} :
          g.first[r] = h.first[r] /\ g.last[r] = h.last[r] /\ g.nitems[r] = h.nitems[r]
    BY <1>1, <1>8 DEF Heap
  <2> QED
    BY <2>2, <2>3, <1>9, <1>10 DEF SameElsewhere
<1>12. IsList(g, q, t)
  <2>1. g.nitems[q] = Len(t)
    BY <1>1, <1>2, <1>8 DEF IsList, Heap
  <2>2. g.last[q] = At(t, Len(t))
    <3>1. h.last[q] = At(s, n) /\ h.last \in [AllQueues -> LinkOrNull]
      BY <1>1 DEF IsList, Heap
    <3> QED
      BY <3>1, <1>1, <1>2, <1>5, <1>8 DEF At
  <2>3. g.first[q] = At(t, 1)
    BY <1>1, <1>2, <1>8 DEF At, Heap
  <2>4. ASSUME NEW i \in 1 .. Len(t)
        PROVE  /\ g.queue[t[i]] = q
               /\ g.prev[t[i]] = At(t, i - 1) /\ g.next[t[i]] = At(t, i + 1)
               /\ \A j \in 1 .. Len(t) : t[i] = t[j] => i = j
    <3>1. CASE i = 1
      <4>1. At(t, 2) = before
        BY <1>1, <1>2, <1>4 DEF At
      <4>2. \A j \in 2 .. n + 1 : t[j] # l
        BY <1>2, <1>3
      <4> QED
        BY <4>1, <4>2, <3>1, <1>1, <1>2, <1>4, <1>9, <1>10 DEF At
    <3>2. CASE i # 1
      <4> PICK k : k = i - 1
        OBVIOUS
      <4>1. k \in 1 .. n /\ t[i] = s[k] /\ s[k] \in Link \ {l} /\ i = k + 1
        BY <3>2, <1>1, <1>2, <1>3
      <4>2. /\ h.queue[s[k]] = q /\ h.prev[s[k]] = At(s, k - 1) /\ h.next[s[k]] = At(s, k + 1)
            /\ \A j \in 1 .. n : s[k] = s[j] => k = j
        BY <4>1, <1>1 DEF IsList
      <4>3. At(t, i - 1) = IF k = 1 THEN l ELSE At(s, k - 1)
        BY <4>1, <1>1, <1>2 DEF At
      <4>4. At(t, i + 1) = At(s, k + 1)
        BY <4>1, <1>1, <1>2 DEF At
      <4>5. s[k] = before <=> k = 1
        BY <4>1, <4>2, <1>1, <1>4
      <4>6. \A j \in 1 .. n + 1 : t[i] = t[j] => i = j
        BY <4>1, <4>2, <1>1, <1>2
      <4> QED
        BY <4>1, <4>2, <4>3, <4>4, <4>5, <4>6, <1>2, <1>9, <1>10
    <3> QED
      BY <3>1, <3>2
  <2> QED
    BY <2>1, <2>2, <2>3, <2>4, <1>2 DEF IsList
<1>13. \A k \in Link : k \in On(t) <=> k \in On(s) \/ k = l
  <2>1. ASSUME NEW k \in Link, k \in On(t) PROVE k \in On(s) \/ k = l
    BY <2>1, <1>1, <1>2 DEF On
  <2>2. ASSUME NEW k \in Link, k \in On(s) PROVE k \in On(t)
    BY <2>2, <1>1, <1>2 DEF On
  <2>3. l \in On(t)
    BY <1>1, <1>2 DEF On
  <2> QED
    BY <2>1, <2>2, <2>3
<1> HIDE DEF t
<1>14. Holds(g, Put(c, q, t), out \ {l})
  BY <1>8, <1>11, <1>12, <1>13, Update
<1> QED
  BY <1>6, <1>8, <1>14 DEF t, Requeued
\* The sequence without its k-th element.
Without(s, k) == [i \in 1 .. Len(s) - 1 |-> IF i < k THEN s[i] ELSE s[i + 1]]

\* Taking out the k-th link repairs its neighbours and the ends of the queue.
LEMMA UnlinkLemma ==
  ASSUME NEW h, NEW c, NEW out, Holds(h, c, out), NEW q \in AllQueues,
         NEW k \in 1 .. Len(c[q]), NEW l, l = c[q][k], NEW g, g = Unlinked(h, q, l)
  PROVE  /\ l \in Link /\ l \notin out
         /\ SameOwners(h, g)
         /\ Holds(g, Put(c, q, Without(c[q], k)), out \union {l})
<1> DEFINE s == c[q]
           n == Len(s)
           t == Without(s, k)
<1>1. h \in Heap /\ s \in Seq(Link) /\ IsList(h, q, s) /\ n \in Nat /\ k \in 1 .. n
  BY HoldsLemma
<1>2. PICK P \in LinkOrNull : P = At(s, k - 1) /\ P = h.prev[l]
  BY <1>1, OnLemma DEF IsList
<1>3. PICK N \in LinkOrNull : N = At(s, k + 1) /\ N = h.next[l]
  BY <1>1, OnLemma DEF IsList
<1>4. l \in Link /\ l \in On(s) /\ l \notin out /\ NULL \notin Link
  BY <1>1, OnLemma, HoldsLemma
<1>5. \A i, j \in 1 .. n : s[i] \in Link /\ (s[i] = s[j] => i = j)
  BY <1>1 DEF IsList
<1>6. /\ t \in Seq(Link) /\ Len(t) = n - 1
      /\ \A i \in 1 .. n - 1 : t[i] = IF i < k THEN s[i] ELSE s[i + 1]
  <2>1. \A i \in 1 .. n - 1 : (IF i < k THEN s[i] ELSE s[i + 1]) \in Link
    BY <1>1, <1>5
  <2> QED
    BY <2>1, <1>1 DEF Without
<1>7. /\ g \in Heap /\ g.queue = h.queue /\ g.object = h.object
      /\ g.next = SetIf(h.next, P, N) /\ g.prev = SetIf(h.prev, N, P)
      /\ g.first = [h.first EXCEPT ![q] = IF @ = l THEN N ELSE @]
      /\ g.last = [h.last EXCEPT ![q] = IF @ = l THEN P ELSE @]
      /\ g.nitems = [h.nitems EXCEPT ![q] = @ - 1]
  <2>1. h.nitems[q] > 0
    BY <1>1 DEF IsList
  <2>2. WithoutLink(h, g, q, l)
    BY <1>1, <1>4, <2>1, UnlinkedFields
  <2> QED
    BY <2>2, <1>2, <1>3 DEF WithoutLink
<1>8. \A x \in Link : /\ g.next[x] = IF x = P THEN N ELSE h.next[x]
                      /\ g.prev[x] = IF x = N THEN P ELSE h.prev[x]
  BY <1>1, <1>2, <1>3, <1>4, <1>7 DEF SetIf, Heap, LinkOrNull
<1>9. SameElsewhere(h, g, q, l)
  <2>1. \A x \in Link : h.queue[x] # q => x # P /\ x # N
    BY <1>1, <1>2, <1>3, <1>4 DEF IsList, At
  <2>2. \A r \in AllQueues \ {q} :
          g.first[r] = h.first[r] /\ g.last[r] = h.last[r] /\ g.nitems[r] = h.nitems[r]
    BY <1>1, <1>7 DEF Heap
  <2> QED
    BY <2>1, <2>2, <1>7, <1>8 DEF SameElsewhere
<1>10. IsList(g, q, t)
  <2>1. g.nitems[q] = Len(t)
    BY <1>1, <1>6, <1>7 DEF IsList, Heap
  <2>2. g.first[q] = At(t, 1)
    <3>1. g.first[q] = IF At(s, 1) = l THEN N ELSE At(s, 1)
      BY <1>1, <1>7 DEF IsList, Heap
    <3>2. At(s, 1) = l <=> k = 1
      BY <1>1, <1>5 DEF At
    <3> QED
      BY <3>1, <3>2, <1>1, <1>3, <1>6 DEF At
  <2>3. g.last[q] = At(t, Len(t))
    <3>1. g.last[q] = IF At(s, n) = l THEN P ELSE At(s, n)
      BY <1>1, <1>7 DEF IsList, Heap
    <3>2. At(s, n) = l <=> k = n
      BY <1>1, <1>5 DEF At
    <3> QED
      BY <3>1, <3>2, <1>1, <1>2, <1>6 DEF At
  <2>4. ASSUME NEW i \in 1 .. Len(t)
        PROVE  /\ g.queue[t[i]] = q
               /\ g.prev[t[i]] = At(t, i - 1) /\ g.next[t[i]] = At(t, i + 1)
               /\ \A j \in 1 .. Len(t) : t[i] = t[j] => i = j
    <3>1. PICK m \in 1 .. n : m = IF i < k THEN i ELSE i + 1
      BY <1>1, <1>6
    <3>2. t[i] = s[m] /\ s[m] \in Link /\ i \in 1 .. n - 1
      BY <3>1, <1>1, <1>5, <1>6
    <3>3. h.queue[s[m]] = q /\ h.prev[s[m]] = At(s, m - 1) /\ h.next[s[m]] = At(s, m + 1)
      BY <3>1, <1>1 DEF IsList
    <3>4. At(t, i - 1) = IF i = k THEN At(s, k - 1) ELSE At(s, m - 1)
      BY <3>1, <3>2, <1>1, <1>6 DEF At
    <3>5. At(t, i + 1) = IF i = k - 1 THEN At(s, k + 1) ELSE At(s, m + 1)
      BY <3>1, <3>2, <1>1, <1>6, SMTT(30) DEF At
    <3>6. s[m] = N <=> i = k
      BY <3>1, <3>2, <1>1, <1>3, <1>4, <1>5 DEF At
    <3>7. s[m] = P <=> i = k - 1
      BY <3>1, <3>2, <1>1, <1>2, <1>4, <1>5 DEF At
    <3>8. \A j \in 1 .. n - 1 : t[i] = t[j] => i = j
      <4> SUFFICES ASSUME NEW j \in 1 .. n - 1, t[i] = t[j] PROVE i = j
        OBVIOUS
      <4>1. PICK v \in 1 .. n : v = IF j < k THEN j ELSE j + 1
        BY <1>1
      <4>2. t[j] = s[v]
        BY <4>1, <1>1, <1>6
      <4>3. m = v
        BY <4>2, <3>2, <1>5
      <4> QED
        BY <4>1, <4>3, <3>1, <3>2, <1>1
    <3> HIDE DEF t
    <3>9. g.prev[t[i]] = At(t, i - 1)
      BY <3>2, <3>3, <3>4, <3>6, <1>2, <1>8
    <3>10. g.next[t[i]] = At(t, i + 1)
      BY <3>2, <3>3, <3>5, <3>7, <1>3, <1>8
    <3> QED
      BY <3>2, <3>3, <3>8, <3>9, <3>10, <1>6, <1>7
  <2> QED
    BY <2>1, <2>2, <2>3, <2>4, <1>6 DEF IsList
<1>11. \A x \in Link : x \in On(t) <=> x \in On(s) /\ x # l
  <2>1. ASSUME NEW x \in Link, x \in On(t) PROVE x \in On(s) /\ x # l
    <3>1. PICK i \in 1 .. n - 1 : x = t[i]
      BY <2>1, <1>6 DEF On
    <3>2. PICK m \in 1 .. n : m # k /\ x = s[m]
      BY <3>1, <1>1, <1>6
    <3> QED
      BY <3>2, <1>1, <1>5 DEF On
  <2>2. ASSUME NEW x \in Link, x \in On(s), x # l PROVE x \in On(t)
    <3>1. PICK m \in 1 .. n : x = s[m]
      BY <2>2 DEF On
    <3>2. PICK i \in 1 .. n - 1 : i = IF m < k THEN m ELSE m - 1
      BY <3>1, <2>2, <1>1
    <3>3. x = t[i]
      BY <3>1, <3>2, <2>2, <1>1, <1>6
    <3> QED
      BY <3>3, <1>6 DEF On
  <2> QED
    BY <2>1, <2>2
<1> HIDE DEF t
<1>12. Holds(g, Put(c, q, t), out \union {l})
  BY <1>4, <1>7, <1>9, <1>10, <1>11, Update
<1> QED
  BY <1>4, <1>7, <1>12 DEF SameOwners, t
\* The sequence with its first element behind the others.
Rotated(s) == [i \in 1 .. Len(s) |-> IF i < Len(s) THEN s[i + 1] ELSE s[1]]

\* The move of the first link behind the last one fails only if they are the same.
LEMMA MoveFirstLemma ==
  ASSUME NEW h, NEW c, NEW out, Holds(h, c, out), NEW q \in AllQueues, c[q] # <<>>
  PROVE  CanMove(h, q, h.last[q], h.first[q]) <=> Len(c[q]) > 1
<1> DEFINE s == c[q]
           n == Len(s)
<1>1. h \in Heap /\ s \in Seq(Link) /\ IsList(h, q, s) /\ n \in Nat /\ n > 0
  BY HoldsLemma
<1>2. h.first[q] = s[1] /\ h.last[q] = s[n] /\ s[1] \in Link /\ s[n] \in Link
  BY <1>1 DEF IsList, At
<1>3. h.queue[s[1]] = q /\ h.queue[s[n]] = q /\ (s[1] = s[n] => n = 1)
  <2>1. 1 \in 1 .. n /\ n \in 1 .. n
    BY <1>1
  <2>2. \A i, j \in 1 .. n : h.queue[s[i]] = q /\ (s[i] = s[j] => i = j)
    BY <1>1 DEF IsList
  <2> QED
    BY <2>1, <2>2
<1>4. NULL \notin Link
  BY <1>1, OnLemma
<1> QED
  BY <1>1, <1>2, <1>3, <1>4 DEF CanMove

\* ProcessSchedule's AQueueMoveAfter rotates the queue.
LEMMA MoveAfterLemma ==
  ASSUME NEW h, NEW c, NEW out, Holds(h, c, out), NEW q \in AllQueues, Len(c[q]) > 1,
         NEW g, g = AQueueMoveAfter(h, q, h.last[q], h.first[q])
  PROVE  /\ g \in Heap /\ g.queue = h.queue /\ g.object = h.object
         /\ Holds(g, Put(c, q, Rotated(c[q])), out)
<1> DEFINE s == c[q]
           n == Len(s)
           t == Rotated(s)
<1>1. h \in Heap /\ s \in Seq(Link) /\ IsList(h, q, s) /\ n \in Nat /\ n > 1
  BY HoldsLemma
<1>2. \A i, j \in 1 .. n : s[i] \in Link /\ (s[i] = s[j] => i = j)
  BY <1>1 DEF IsList
<1>3. PICK l \in Link, after \in Link, N \in Link :
        /\ l = h.first[q] /\ after = h.last[q] /\ N = h.next[l]
        /\ l = s[1] /\ after = s[n] /\ N = s[2]
        /\ h.prev[l] = NULL /\ h.next[after] = NULL
        /\ h.queue[l] = q /\ h.queue[after] = q /\ h.queue[N] = q
  BY <1>1, <1>2 DEF IsList, At
<1>4. l # after /\ l # N /\ NULL \notin Link
  BY <1>1, <1>2, <1>3, OnLemma
<1>5. /\ t \in Seq(Link) /\ Len(t) = n /\ t[n] = l
      /\ \A i \in 1 .. n - 1 : t[i] = s[i + 1] /\ i + 1 \in 1 .. n
  <2>1. \A i \in 1 .. n : (IF i < n THEN s[i + 1] ELSE s[1]) \in Link
    BY <1>1, <1>2
  <2> QED
    BY <2>1, <1>1, <1>3 DEF Rotated
<1>6. /\ g \in Heap /\ g.queue = h.queue /\ g.object = h.object /\ g.nitems = h.nitems
      /\ g.next = [h.next EXCEPT ![l] = NULL, ![after] = l]
      /\ g.prev = [h.prev EXCEPT ![N] = NULL, ![l] = after]
      /\ g.first = [h.first EXCEPT ![q] = N]
      /\ g.last = [h.last EXCEPT ![q] = l]
  <2>1. PICK next : next = h.next /\ next = SetIf(h.next, h.prev[l], h.next[l])
    BY <1>3 DEF SetIf
  <2>2. PICK prev : prev = [h.prev EXCEPT ![N] = NULL]
                    /\ prev = SetIf(h.prev, h.next[l], h.prev[l])
    BY <1>3, <1>4 DEF SetIf
  <2>3. MovedAfter(h, g, q, after, l, next, prev)
    BY <1>1, <1>3, <2>1, <2>2, MoveAfterFields
  <2>4. [h.first EXCEPT ![q] = IF @ = l THEN h.next[l] ELSE @] = [h.first EXCEPT ![q] = N]
    BY <1>3
  <2>5. [h.last EXCEPT ![q] = IF @ = after THEN l ELSE @] = [h.last EXCEPT ![q] = l]
    BY <1>3
  <2>6. g.prev = [prev EXCEPT ![l] = after] /\ next[after] = NULL
    BY <2>1, <2>3, <1>3 DEF MovedAfter, SetIf
  <2> QED
    BY <2>1, <2>2, <2>3, <2>4, <2>5, <2>6 DEF MovedAfter
<1>7. \A x \in Link :
        /\ g.next[x] = IF x = after THEN l ELSE IF x = l THEN NULL ELSE h.next[x]
        /\ g.prev[x] = IF x = l THEN after ELSE IF x = N THEN NULL ELSE h.prev[x]
  <2>1. /\ h.next \in [Link -> LinkOrNull] /\ h.prev \in [Link -> LinkOrNull]
    BY <1>1 DEF Heap
  <2> QED
    BY <2>1, <1>4, <1>6
<1>8. SameElsewhere(h, g, q, l)
  <2>1. \A r \in AllQueues \ {q} :
          g.first[r] = h.first[r] /\ g.last[r] = h.last[r] /\ g.nitems[r] = h.nitems[r]
    BY <1>1, <1>6 DEF Heap
  <2> QED
    BY <2>1, <1>3, <1>6, <1>7 DEF SameElsewhere
<1>9. IsList(g, q, t)
  <2>1. g.nitems[q] = Len(t) /\ g.first[q] = At(t, 1) /\ g.last[q] = At(t, Len(t))
    <3>1. h.nitems[q] = n /\ g.nitems[q] = n
      BY <1>1, <1>6 DEF IsList
    <3>2. At(t, 1) = N /\ At(t, n) = l
      BY <1>1, <1>3, <1>5 DEF At
    <3>3. g.first[q] = N /\ g.last[q] = l
      BY <1>1, <1>6 DEF Heap
    <3> QED
      BY <3>1, <3>2, <3>3, <1>5
  <2>2. ASSUME NEW i \in 1 .. Len(t)
        PROVE  /\ g.queue[t[i]] = q
               /\ g.prev[t[i]] = At(t, i - 1) /\ g.next[t[i]] = At(t, i + 1)
               /\ \A j \in 1 .. Len(t) : t[i] = t[j] => i = j
    <3>1. CASE i = n
      <4>1. At(t, n - 1) = after /\ At(t, n + 1) = NULL
        BY <1>1, <1>3, <1>5 DEF At
      <4>2. \A j \in 1 .. n - 1 : t[j] # l
        BY <1>1, <1>2, <1>3, <1>5
      <4> QED
        BY <4>1, <4>2, <3>1, <1>1, <1>3, <1>4, <1>5, <1>6, <1>7, SMTT(30)
    <3>2. CASE i # n
      <4> PICK m : m = i + 1
        OBVIOUS
      <4>1. m \in 2 .. n /\ t[i] = s[m] /\ s[m] \in Link /\ i = m - 1 /\ i \in 1 .. n - 1
        BY <3>2, <1>1, <1>2, <1>5
      <4>2. h.queue[s[m]] = q /\ h.prev[s[m]] = At(s, m - 1) /\ h.next[s[m]] = At(s, m + 1)
        BY <4>1, <1>1 DEF IsList
      <4>3. At(t, i - 1) = IF m = 2 THEN NULL ELSE At(s, m - 1)
        <5>1. CASE m = 2
          BY <5>1, <4>1 DEF At
        <5>2. CASE m # 2
          <6>1. i - 1 \in 1 .. n - 1 /\ i - 1 \in 1 .. n /\ m - 1 \in 1 .. n /\ m - 1 = (i - 1) + 1
            BY <5>2, <4>1, <1>1
          <6>2. t[i - 1] = s[m - 1]
            BY <6>1, <1>5
          <6> QED
            BY <5>2, <6>1, <6>2, <1>5 DEF At
        <5> QED
          BY <5>1, <5>2
      <4>4. At(t, i + 1) = IF m = n THEN l ELSE At(s, m + 1)
        BY <4>1, <1>1, <1>5 DEF At
      <4>5. (s[m] = N <=> m = 2) /\ (s[m] = after <=> m = n) /\ s[m] # l
        BY <4>1, <1>1, <1>2, <1>3
      <4>6. \A j \in 1 .. n : t[i] = t[j] => i = j
        BY <4>1, <4>5, <1>1, <1>2, <1>5
      <4> HIDE DEF t
      <4>7. g.prev[t[i]] = At(t, i - 1) /\ g.next[t[i]] = At(t, i + 1)
        BY <4>1, <4>2, <4>3, <4>4, <4>5, <1>7
      <4> QED
        BY <4>1, <4>2, <4>6, <4>7, <1>5, <1>6
    <3> QED
      BY <3>1, <3>2
  <2> QED
    BY <2>1, <2>2, <1>5 DEF IsList
<1>10. \A x \in Link : x \in On(t) <=> x \in On(s)
  <2>1. ASSUME NEW x \in Link, x \in On(t) PROVE x \in On(s)
    BY <2>1, <1>1, <1>3, <1>5 DEF On
  <2>2. ASSUME NEW x \in Link, x \in On(s) PROVE x \in On(t)
    <3>1. PICK i \in 1 .. n : x = s[i]
      BY <2>2 DEF On
    <3>2. CASE i = 1
      BY <3>1, <3>2, <1>1, <1>3, <1>5 DEF On
    <3>3. CASE i # 1
      <4>1. i - 1 \in 1 .. n - 1 /\ t[i - 1] = s[i]
        BY <3>1, <3>3, <1>1, <1>5
      <4> QED
        BY <4>1, <3>1, <1>1, <1>5 DEF On
    <3> QED
      BY <3>2, <3>3
  <2> QED
    BY <2>1, <2>2
<1>11. l \in On(s) /\ l \notin out
  <2>1. l \in On(s)
    BY <1>1, <1>3 DEF On
  <2> QED
    BY <2>1, HoldsLemma
<1> HIDE DEF t
<1>12. Holds(g, Put(c, q, t), out)
  BY <1>6, <1>8, <1>9, <1>10, <1>11, Update
<1> QED
  BY <1>6, <1>12 DEF t
-----------------------------------------------------------------------------
(* The walk along a list, and what the lists contain *)

\* Walking from first by the next pointers visits the links in order.
LEMMA WalkLemma ==
  ASSUME NEW h, NEW q, NEW s, IsList(h, q, s)
  PROVE  Links(h, q) = s
<1> DEFINE n == Len(s)
           Next1(l) == IF l = NULL THEN NULL ELSE h.next[l]
           Walk(f) == f = [i \in 1 .. n |-> IF i = 1 THEN h.first[q] ELSE Next1(f[i - 1])]
<1>1. s \in Seq(Link) /\ n \in Nat /\ h.nitems[q] = n /\ NULL \notin Link
  BY OnLemma DEF IsList
<1>2. n > 0 => h.first[q] = s[1]
  BY <1>1 DEF IsList, At
<1>3. \A i \in 2 .. n : s[i] = Next1(s[i - 1])
  <2> SUFFICES ASSUME NEW i \in 2 .. n PROVE s[i] = Next1(s[i - 1])
    OBVIOUS
  <2>1. i - 1 \in 1 .. n /\ i \in 1 .. n
    BY <1>1
  <2>2. h.next[s[i - 1]] = At(s, (i - 1) + 1) /\ s[i - 1] \in Link
    BY <2>1, <1>1 DEF IsList
  <2> QED
    BY <2>1, <2>2, <1>1 DEF At
<1>4. Walk(s)
  <2>1. \A i \in 1 .. n : s[i] = IF i = 1 THEN h.first[q] ELSE Next1(s[i - 1])
    BY <1>1, <1>2, <1>3
  <2>2. s = [i \in 1 .. n |-> s[i]]
    BY <1>1
  <2> HIDE DEF Next1
  <2> QED
    BY <2>1, <2>2
<1>5. ASSUME NEW f, Walk(f) PROVE f = s
  <2> DEFINE A == {i \in 0 .. n : i = 0 \/ f[i] = s[i]}
  <2>1. \A i \in 1 .. n : f[i] = IF i = 1 THEN h.first[q] ELSE Next1(f[i - 1])
    BY <1>5
  <2>2. \A i \in 1 .. n : i - 1 \in A => i \in A
    BY <2>1, <1>1, <1>2, <1>3
  <2>3. 0 \in A
    BY <1>1
  <2> HIDE DEF A
  <2>4. 0 .. n \subseteq A
    BY <2>2, <2>3, <1>1, Q!IntervalInduction
  <2>5. \A i \in 1 .. n : f[i] = s[i]
    BY <2>4, <1>1 DEF A
  <2>6. f = [i \in 1 .. n |-> f[i]] /\ s = [i \in 1 .. n |-> s[i]]
    BY <1>5, <1>1
  <2> QED
    BY <2>5, <2>6
<1>6. Links(h, q) = CHOOSE f : Walk(f)
  BY <1>1 DEF Links
<1> HIDE DEF Walk
<1> QED
  BY <1>4, <1>5, <1>6

\* The objects of the links s.
ObjectsAt(h, s) == [i \in 1 .. Len(s) |-> h.object[s[i]]]

\* What the queues of the kernel contain.
ContentsOf(h, c) == [q \in QueueName |-> ObjectsAt(h, c[q])]

\* The refinement mapping reads these contents off the heap.
LEMMA ContentsLemma ==
  ASSUME NEW h, NEW c, Holds(h, c, {})
  PROVE  [q \in QueueName |-> Objects(h, q)] = ContentsOf(h, c)
<1> SUFFICES ASSUME NEW q \in QueueName PROVE Objects(h, q) = ObjectsAt(h, c[q])
  BY DEF ContentsOf
<1> PICK s : s = c[q]
  OBVIOUS
<1>1. s \in Seq(Link) /\ IsList(h, q, s) /\ NULL \notin Link
  BY HoldsLemma, OnLemma DEF AllQueues
<1>2. Links(h, q) = s /\ h.nitems[q] = Len(s)
  <2>1. Links(h, q) = s
    BY <1>1, WalkLemma
  <2> QED
    BY <2>1, <1>1 DEF IsList
<1>3. \A i \in 1 .. Len(s) : s[i] # NULL
  BY <1>1
<1> QED
  BY <1>2, <1>3 DEF Objects, ObjectsAt

\* The objects of a sequence that an operation has changed.
LEMMA ObjectsLemma ==
  ASSUME NEW h, NEW s \in Seq(Link), NEW l \in Link
  PROVE  /\ ObjectsAt(h, Append(s, l)) = Append(ObjectsAt(h, s), h.object[l])
         /\ ObjectsAt(h, <<l>> \o s) = <<h.object[l]>> \o ObjectsAt(h, s)
         /\ ObjectsAt(h, Rotated(s)) = Lists!Rotate(ObjectsAt(h, s))
         /\ s # <<>> => ObjectsAt(h, Tail(s)) = Tail(ObjectsAt(h, s))
<1> DEFINE r == ObjectsAt(h, s)
           n == Len(s)
           V == {h.object[x] : x \in Link}
<1>1. n \in Nat /\ \A i \in 1 .. n : s[i] \in Link
  OBVIOUS
<1>2. r \in Seq(V) /\ Len(r) = n /\ \A i \in 1 .. n : r[i] = h.object[s[i]]
  BY <1>1 DEF ObjectsAt
<1>3. ObjectsAt(h, Append(s, l)) = Append(r, h.object[l])
  <2> DEFINE u == ObjectsAt(h, Append(s, l))
             v == Append(r, h.object[l])
  <2>1. u \in Seq(V) /\ Len(u) = n + 1 /\ v \in Seq(V) /\ Len(v) = n + 1
    BY <1>1, <1>2 DEF ObjectsAt
  <2>2. \A i \in 1 .. n + 1 : u[i] = v[i]
    BY <1>1, <1>2 DEF ObjectsAt
  <2> HIDE DEF u, v
  <2>3. u = v
    BY <2>1, <2>2
  <2> QED
    BY <2>3 DEF u, v
<1>4. ObjectsAt(h, <<l>> \o s) = <<h.object[l]>> \o r
  <2> DEFINE u == ObjectsAt(h, <<l>> \o s)
             v == <<h.object[l]>> \o r
  <2>1. u \in Seq(V) /\ Len(u) = n + 1 /\ v \in Seq(V) /\ Len(v) = n + 1
    BY <1>1, <1>2 DEF ObjectsAt
  <2>2. \A i \in 1 .. n + 1 : u[i] = v[i]
    BY <1>1, <1>2 DEF ObjectsAt
  <2> HIDE DEF u, v
  <2>3. u = v
    BY <2>1, <2>2
  <2> QED
    BY <2>3 DEF u, v
<1>5. ObjectsAt(h, Rotated(s)) = Lists!Rotate(r)
  <2>1. CASE s = <<>>
    BY <2>1, <1>2 DEF ObjectsAt, Rotated, Lists!Rotate
  <2>2. CASE s # <<>>
    <3> DEFINE u == ObjectsAt(h, Rotated(s))
               v == Append(Tail(r), Head(r))
    <3>1. n > 0 /\ r # <<>>
      BY <2>2, <1>1, <1>2
    <3>2. u \in Seq(V) /\ Len(u) = n /\ v \in Seq(V) /\ Len(v) = n
      BY <3>1, <1>1, <1>2 DEF ObjectsAt, Rotated
    <3>3. \A i \in 1 .. n : u[i] = v[i]
      <4>1. /\ \A i \in 1 .. n - 1 : u[i] = h.object[s[i + 1]]
            /\ u[n] = h.object[s[1]]
        BY <3>1, <1>1 DEF ObjectsAt, Rotated
      <4>2. \A i \in 1 .. n - 1 : v[i] = r[i + 1]
        BY <3>1, <1>1, <1>2
      <4>3. v[n] = r[1]
        BY <3>1, <1>1, <1>2
      <4> HIDE DEF u, v, r
      <4> QED
        BY <4>1, <4>2, <4>3, <3>1, <1>1, <1>2
    <3> HIDE DEF u, v
    <3>4. u = v
      BY <3>2, <3>3
    <3> QED
      BY <3>1, <3>4 DEF u, v, Lists!Rotate
  <2> QED
    BY <2>1, <2>2
<1>6. ASSUME s # <<>> PROVE ObjectsAt(h, Tail(s)) = Tail(r)
  <2> DEFINE u == ObjectsAt(h, Tail(s))
             v == Tail(r)
  <2>1. n > 0 /\ r # <<>>
    BY <1>6, <1>1, <1>2
  <2>2. u \in Seq(V) /\ Len(u) = n - 1 /\ v \in Seq(V) /\ Len(v) = n - 1
    BY <2>1, <1>1, <1>2 DEF ObjectsAt
  <2>3. \A i \in 1 .. n - 1 : u[i] = v[i]
    BY <2>1, <1>1, <1>2 DEF ObjectsAt
  <2> HIDE DEF u, v
  <2>4. u = v
    BY <2>2, <2>3
  <2> QED
    BY <2>4 DEF u, v
<1> QED
  BY <1>3, <1>4, <1>5, <1>6
\* Without the link of an object that is on the queue once, the object is gone.
LEMMA RemovedObjectsLemma ==
  ASSUME NEW h, NEW s \in Seq(Link), NEW k \in 1 .. Len(s), NEW o, h.object[s[k]] = o,
         \A i, j \in 1 .. Len(s) : h.object[s[i]] = h.object[s[j]] => i = j
  PROVE  /\ o \in Lists!InQueue(ObjectsAt(h, s))
         /\ Lists!AQueueRemove(ObjectsAt(h, s), o) = ObjectsAt(h, Without(s, k))
<1> DEFINE r == ObjectsAt(h, s)
           n == Len(s)
           V == {h.object[x] : x \in Link}
           m == CHOOSE j \in 1 .. Len(r) : r[j] = o
           u == ObjectsAt(h, Without(s, k))
<1>1. n \in Nat /\ \A i \in 1 .. n : s[i] \in Link
  OBVIOUS
<1>2. r \in Seq(V) /\ Len(r) = n /\ \A i \in 1 .. n : r[i] = h.object[s[i]]
  BY <1>1 DEF ObjectsAt
<1>3. m = k
  BY <1>2
<1>4. o \in Lists!InQueue(r)
  BY <1>2 DEF Lists!InQueue
<1>5. /\ u \in Seq(V) /\ Len(u) = n - 1
      /\ \A i \in 1 .. n - 1 : u[i] = IF i < k THEN r[i] ELSE r[i + 1]
  <2>1. Len(Without(s, k)) = n - 1
    BY <1>1 DEF Without
  <2>2. \A i \in 1 .. n - 1 : Without(s, k)[i] = IF i < k THEN s[i] ELSE s[i + 1]
    BY DEF Without
  <2>3. \A i \in 1 .. n - 1 : (IF i < k THEN s[i] ELSE s[i + 1]) \in Link
    BY <1>1
  <2>4. u = [i \in 1 .. n - 1 |-> h.object[IF i < k THEN s[i] ELSE s[i + 1]]]
    BY <2>1, <2>2 DEF ObjectsAt
  <2>5. u \in Seq(V) /\ Len(u) = n - 1
    BY <2>3, <2>4, <1>1
  <2> HIDE DEF u, r
  <2> QED
    BY <2>4, <2>5, <1>1, <1>2
<1>6. u = SubSeq(r, 1, k - 1) \o SubSeq(r, k + 1, n)
  <2> HIDE DEF u, r, V
  <2>1. PICK a : a = SubSeq(r, 1, k - 1)
    OBVIOUS
  <2>2. PICK b : b = SubSeq(r, k + 1, n)
    OBVIOUS
  <2>3. /\ a \in Seq(V) /\ Len(a) = k - 1 /\ \A i \in 1 .. k - 1 : a[i] = r[i]
    BY <1>1, <1>2, <2>1
  <2>4. /\ b \in Seq(V) /\ Len(b) = n - k /\ \A i \in 1 .. n - k : b[i] = r[k + i]
    BY <1>1, <1>2, <2>2
  <2>5. PICK v : v = a \o b
    OBVIOUS
  <2>6. /\ v \in Seq(V) /\ Len(v) = n - 1
        /\ \A i \in 1 .. n - 1 : v[i] = IF i <= k - 1 THEN a[i] ELSE b[i - (k - 1)]
    <3>1. /\ v \in Seq(V) /\ Len(v) = Len(a) + Len(b)
          /\ \A i \in 1 .. Len(a) + Len(b) :
               v[i] = IF i <= Len(a) THEN a[i] ELSE b[i - Len(a)]
      <4>1. a \in Seq(V) /\ b \in Seq(V)
        BY <2>3, <2>4
      <4>2. /\ a \o b \in Seq(V) /\ Len(a \o b) = Len(a) + Len(b)
            /\ \A i \in 1 .. Len(a) + Len(b) :
                 (a \o b)[i] = IF i <= Len(a) THEN a[i] ELSE b[i - Len(a)]
        BY <4>1, ConcatProperties
      <4> QED
        BY <4>2, <2>5, Zenon
    <3>2. Len(a) = k - 1 /\ Len(a) + Len(b) = n - 1
      BY <2>3, <2>4, <1>1
    <3> QED
      BY <3>1, <3>2
  <2>7. ASSUME NEW i \in 1 .. n - 1 PROVE v[i] = u[i]
    <3>1. CASE i < k
      BY <3>1, <2>3, <2>6, <1>1, <1>5
    <3>2. CASE i >= k
      <4>1. i - (k - 1) \in 1 .. n - k /\ k + (i - (k - 1)) = i + 1 /\ ~(i <= k - 1)
        BY <3>2, <1>1
      <4> QED
        BY <4>1, <3>2, <2>4, <2>6, <1>1, <1>5
    <3> QED
      BY <3>1, <3>2, <1>1
  <2>8. u = v
    BY <2>6, <2>7, <1>5, SMTT(30)
  <2> QED
    BY <2>1, <2>2, <2>5, <2>8
<1> HIDE DEF u
<1>7. Lists!AQueueRemove(r, o) = u
  BY <1>2, <1>3, <1>6 DEF Lists!AQueueRemove
<1> QED
  BY <1>4, <1>7 DEF u

\* The queues of the kernel are not those of free links, and none is null.
LEMMA NamesLemma ==
  /\ QueueName \subseteq AllQueues /\ freeLinks \in AllQueues /\ freeLinks \notin QueueName
  /\ NULL \notin AllQueues /\ SchedQueue \subseteq QueueName /\ WaitingQueue \subseteq QueueName
  /\ AllQueues = QueueName \union {freeLinks} /\ SchedQueue \cap WaitingQueue = {}
BY LinksAssumption DEF QueueName, AllQueues, NULL

\* Every link is on a queue; or l is the only one that is on none.
Complete(h, c) == Holds(h, c, {})

Loose(h, c, l) == Holds(h, c, {l})

\* What the list operations do when they start with every link on a queue, or
\* with one that is on none.
LEMMA UnlinkOne ==
  ASSUME NEW h, NEW c, Complete(h, c), NEW q \in AllQueues, NEW k \in 1 .. Len(c[q]),
         NEW l, l = c[q][k], NEW g, g = Unlinked(h, q, l)
  PROVE  l \in Link /\ SameOwners(h, g) /\ Loose(g, Put(c, q, Without(c[q], k)), l)
<1>1. Holds(h, c, {})
  BY DEF Complete
<1>2. Holds(g, Put(c, q, Without(c[q], k)), {} \union {l})
  BY <1>1, UnlinkLemma
<1>3. l \in Link /\ SameOwners(h, g)
  BY <1>1, <1>2, UnlinkLemma
<1>4. {} \union {l} = {l}
  OBVIOUS
<1>5. Loose(g, Put(c, q, Without(c[q], k)), l)
  BY <1>2, <1>4, Zenon DEF Loose
<1> QED
  BY <1>3, <1>5

\* The only loose link gets to the end of a queue.
LEMMA InsertLastOne ==
  ASSUME NEW h, NEW c, NEW l \in Link, Loose(h, c, l), NEW q \in AllQueues,
         NEW g, g = AQueueInsertLast(h, q, l)
  PROVE  /\ CanInsert(h, q, h.last[q])
         /\ g \in Heap /\ Requeued(h, g, l, q) /\ g.object = h.object
         /\ Complete(g, Put(c, q, Append(c[q], l)))
<1>1. Holds(h, c, {l}) /\ l \in {l}
  BY DEF Loose
<1>2. Holds(g, Put(c, q, Append(c[q], l)), {l} \ {l})
  BY <1>1, InsertLastLemma
<1>3. /\ CanInsert(h, q, h.last[q])
      /\ g \in Heap /\ Requeued(h, g, l, q) /\ g.object = h.object
  BY <1>1, <1>2, InsertLastLemma
<1>4. {l} \ {l} = {}
  OBVIOUS
<1>5. Complete(g, Put(c, q, Append(c[q], l)))
  BY <1>2, <1>4, Zenon DEF Complete
<1> QED
  BY <1>3, <1>5

\* The only loose link gets to the front of a queue.
LEMMA InsertFirstOne ==
  ASSUME NEW h, NEW c, NEW l \in Link, Loose(h, c, l), NEW q \in AllQueues,
         NEW g, g = AQueueInsertFirst(h, q, l)
  PROVE  /\ CanInsert(h, q, h.first[q])
         /\ g \in Heap /\ Requeued(h, g, l, q) /\ g.object = h.object
         /\ Complete(g, Put(c, q, <<l>> \o c[q]))
<1>1. Holds(h, c, {l}) /\ l \in {l}
  BY DEF Loose
<1>2. Holds(g, Put(c, q, <<l>> \o c[q]), {l} \ {l})
  BY <1>1, InsertFirstLemma
<1>3. /\ CanInsert(h, q, h.first[q])
      /\ g \in Heap /\ Requeued(h, g, l, q) /\ g.object = h.object
  BY <1>1, <1>2, InsertFirstLemma
<1>4. {l} \ {l} = {}
  OBVIOUS
<1>5. Complete(g, Put(c, q, <<l>> \o c[q]))
  BY <1>2, <1>4, Zenon DEF Complete
<1> QED
  BY <1>3, <1>5

\* AQueueRemove always succeeds, and gives the link to the pool.
LEMMA RemoveLemma ==
  ASSUME NEW h, NEW c, Complete(h, c), NEW q \in QueueName, NEW k \in 1 .. Len(c[q]),
         NEW l, l = c[q][k], NEW g, g = AQueueRemove(h, l)
  PROVE  /\ l \in Link /\ h.queue[l] = q /\ CanRemove(h, l)
         /\ g \in Heap /\ g.object = h.object /\ Requeued(h, g, l, freeLinks)
         /\ Complete(g, Put(Put(c, q, Without(c[q], k)), freeLinks, Append(c[freeLinks], l)))
<1>1. q \in AllQueues /\ freeLinks \in AllQueues /\ q # freeLinks /\ q # NULL
  BY NamesLemma
<1> PICK f : f = Unlinked(h, q, l)
  OBVIOUS
<1> PICK b : b = Put(c, q, Without(c[q], k))
  OBVIOUS
<1>2. l \in Link /\ SameOwners(h, f) /\ Loose(f, b, l)
  BY <1>1, UnlinkOne
<1>3. h.queue[l] = q
  <2>1. Holds(h, c, {})
    BY DEF Complete
  <2>2. l \in On(c[q])
    BY DEF On
  <2> QED
    BY <2>1, <2>2, <1>1, HoldsLemma
<1>4. l # NULL
  BY <1>2 DEF Link, NULL
<1> PICK e : e = AQueueInsertLast(f, freeLinks, l)
  OBVIOUS
<1>5. /\ CanInsert(f, freeLinks, f.last[freeLinks])
      /\ e \in Heap /\ Requeued(f, e, l, freeLinks) /\ e.object = f.object
      /\ Complete(e, Put(b, freeLinks, Append(b[freeLinks], l)))
  BY <1>1, <1>2, InsertLastOne
<1>6. g = e
  BY <1>3, <1>5 DEF AQueueRemove
<1>7. CanRemove(h, l)
  BY <1>1, <1>3, <1>4 DEF CanRemove
<1>8. b[freeLinks] = c[freeLinks]
  BY <1>1 DEF Put, Holds, Complete
<1>9. g \in Heap /\ g.object = h.object /\ Requeued(h, g, l, freeLinks)
  BY <1>2, <1>5, <1>6 DEF Requeued, SameOwners
<1>10. Complete(g, Put(b, freeLinks, Append(c[freeLinks], l)))
  BY <1>5, <1>6, <1>8
<1> QED
  BY <1>2, <1>3, <1>7, <1>9, <1>10

\* The fields of a link that is on no queue are of no importance.
LEMMA ClearLemma ==
  ASSUME NEW h, NEW c, NEW l \in Link, Loose(h, c, l), NEW obj \in Object,
         NEW g, Cleared(h, g, l, obj)
  PROVE  g \in Heap /\ Requeued(h, g, l, NULL) /\ Reassigned(h, g, l, obj) /\ Loose(g, c, l)
<1>1. Holds(h, c, {l}) /\ h \in Heap /\ c \in [AllQueues -> Seq(Link)]
  BY DEF Holds, Loose
<1>2. Cleared(h, g, l, obj)
  OBVIOUS
<1>3. \A k \in Link \ {l} : /\ g.queue[k] = h.queue[k]
                            /\ g.next[k] = h.next[k] /\ g.prev[k] = h.prev[k]
  BY <1>1, <1>2 DEF Cleared, Heap
<1>4. ASSUME NEW q \in AllQueues PROVE IsList(g, q, c[q])
  <2>1. IsList(h, q, c[q]) /\ c[q] \in Seq(Link) /\ l \notin On(c[q])
    BY <1>1 DEF Holds
  <2>2. \A i \in 1 .. Len(c[q]) : c[q][i] \in Link \ {l}
    BY <2>1, OnLemma
  <2>3. g.first = h.first /\ g.last = h.last /\ g.nitems = h.nitems
    BY <1>2 DEF Cleared
  <2> QED
    BY <2>1, <2>2, <2>3, <1>3 DEF IsList
<1>5. Holds(g, c, {l})
  BY <1>1, <1>2, <1>3, <1>4 DEF Holds, Cleared
<1> QED
  BY <1>2, <1>5 DEF Loose, Cleared, Requeued, Reassigned

\* AQueueAllocLink takes the first free link, if there is one.
LEMMA AllocLemma ==
  ASSUME NEW h, NEW c, Complete(h, c), c[freeLinks] # <<>>, NEW obj \in Object,
         NEW l, l = h.first[freeLinks], NEW g, g = AQueueAllocLink(h, obj)
  PROVE  /\ CanAlloc(h) /\ l \in Link /\ h.queue[l] = freeLinks /\ l = c[freeLinks][1]
         /\ g \in Heap /\ Requeued(h, g, l, NULL) /\ Reassigned(h, g, l, obj)
         /\ Loose(g, Put(c, freeLinks, Tail(c[freeLinks])), l)
<1> PICK s : s = c[freeLinks]
  OBVIOUS
<1>1. freeLinks \in AllQueues
  BY NamesLemma
<1>2. s \in Seq(Link) /\ IsList(h, freeLinks, s) /\ Len(s) \in Nat /\ Len(s) > 0
  <2>1. Holds(h, c, {})
    BY DEF Complete
  <2>2. c[freeLinks] \in Seq(Link) /\ IsList(h, freeLinks, c[freeLinks])
    BY <2>1, <1>1, HoldsLemma
  <2> QED
    BY <2>2
<1>3. 1 \in 1 .. Len(s)
  BY <1>2
<1>4. l = s[1] /\ l \in Link /\ h.queue[l] = freeLinks
  BY <1>2, <1>3 DEF IsList, At
<1>5. CanAlloc(h)
  BY <1>2, <1>4 DEF CanAlloc, AQueueEmpty, IsList, Link, NULL
<1>6. Without(s, 1) = Tail(s)
  BY <1>2 DEF Without
<1> PICK f : f = Unlinked(h, freeLinks, l)
  OBVIOUS
<1> PICK d : d = Put(c, freeLinks, Tail(c[freeLinks]))
  OBVIOUS
<1>7. SameOwners(h, f) /\ Loose(f, d, l)
  <2>1. SameOwners(h, f) /\ Loose(f, Put(c, freeLinks, Without(c[freeLinks], 1)), l)
    BY <1>1, <1>3, <1>4, UnlinkOne
  <2> QED
    BY <2>1, <1>6
<1>8. Cleared(f, g, l, obj)
  <2>1. g = [f EXCEPT !.next[l] = NULL, !.prev[l] = NULL, !.queue[l] = NULL, !.object[l] = obj]
    BY DEF AQueueAllocLink
  <2> QED
    BY <2>1, <1>4, <1>7, ClearedFields DEF SameOwners
<1>9. g \in Heap /\ Requeued(f, g, l, NULL) /\ Reassigned(f, g, l, obj) /\ Loose(g, d, l)
  BY <1>4, <1>7, <1>8, ClearLemma
<1>10. Requeued(h, g, l, NULL) /\ Reassigned(h, g, l, obj)
  BY <1>7, <1>9 DEF Requeued, Reassigned, SameOwners
<1> QED
  BY <1>4, <1>5, <1>9, <1>10

-----------------------------------------------------------------------------
(* The contents of the queues, without the links *)

\* The contents C, but t on queue q.
Changed(C, q, t) == [C EXCEPT ![q] = t]

\* The contents C without object o on queue q, or with it at one of its ends.
Taken(C, q, o) == Changed(C, q, Lists!AQueueRemove(C[q], o))

AddedLast(C, q, o) == Changed(C, q, Append(C[q], o))

AddedFirst(C, q, o) == Changed(C, q, <<o>> \o C[q])

\* The lists of heap h are well formed and have the contents C, either with
\* every link on a queue or with all but l.
Good(h, C) == \E c : Complete(h, c) /\ C = ContentsOf(h, c)

Spare(h, l, C) == \E c : Loose(h, c, l) /\ C = ContentsOf(h, c)

\* No two links on queue q are for the same object.
Distinct(h, q) ==
  \A x, y \in Link : h.queue[x] = q /\ h.queue[y] = q /\ h.object[x] = h.object[y] => x = y

\* Two heaps have the same objects in the lists of c, but perhaps in that of q.
SameObjects(h, g, c, q) ==
  \A r \in QueueName \ {q} : \A l \in On(c[r]) : g.object[l] = h.object[l]

\* What a change of one list does to the contents.
LEMMA ChangeLemma ==
  ASSUME NEW h, NEW g, NEW c \in [AllQueues -> Seq(Link)], NEW q \in QueueName, NEW s,
         SameObjects(h, g, c, q), NEW d, d = Put(c, q, s)
  PROVE  ContentsOf(g, d) = Changed(ContentsOf(h, c), q, ObjectsAt(g, s))
<1>1. \A r \in AllQueues : d[r] = IF r = q THEN s ELSE c[r]
  BY DEF Put
<1>2. ASSUME NEW r \in QueueName, r # q PROVE ObjectsAt(g, d[r]) = ObjectsAt(h, c[r])
  <2>1. r \in AllQueues /\ d[r] = c[r]
    BY <1>1, <1>2, NamesLemma
  <2>2. \A i \in 1 .. Len(c[r]) : g.object[c[r][i]] = h.object[c[r][i]]
    BY <1>2 DEF SameObjects, On
  <2> QED
    BY <2>1, <2>2 DEF ObjectsAt
<1>3. d[q] = s
  BY <1>1, NamesLemma
<1> QED
  BY <1>2, <1>3 DEF ContentsOf, Changed

\* The list of the free links is not part of them.
LEMMA ChangeFreeLemma ==
  ASSUME NEW h, NEW g, NEW c \in [AllQueues -> Seq(Link)], NEW s,
         SameObjects(h, g, c, freeLinks), NEW d, d = Put(c, freeLinks, s)
  PROVE  ContentsOf(g, d) = ContentsOf(h, c)
<1>1. ASSUME NEW r \in QueueName PROVE ObjectsAt(g, d[r]) = ObjectsAt(h, c[r])
  <2>1. r \in AllQueues /\ d[r] = c[r] /\ r # freeLinks
    BY NamesLemma DEF Put
  <2>2. \A i \in 1 .. Len(c[r]) : g.object[c[r][i]] = h.object[c[r][i]]
    BY <2>1 DEF SameObjects, On
  <2> QED
    BY <2>1, <2>2 DEF ObjectsAt
<1> QED
  BY <1>1 DEF ContentsOf

\* What the lists say of their links when only l is on none.
LEMMA LooseLemma ==
  ASSUME NEW h, NEW c, NEW l, Loose(h, c, l)
  PROVE  /\ c \in [AllQueues -> Seq(Link)] /\ h \in Heap
         /\ \A q \in AllQueues : \A y \in On(c[q]) : y \in Link /\ y # l /\ h.queue[y] = q
<1>1. Holds(h, c, {l})
  BY DEF Loose
<1> SUFFICES ASSUME NEW q \in AllQueues, NEW y \in On(c[q])
             PROVE  y \in Link /\ y # l /\ h.queue[y] = q
  BY <1>1 DEF Holds
<1>2. y \in Link /\ h.queue[y] = q /\ y \notin {l}
  BY <1>1, HoldsLemma
<1> QED
  BY <1>2

\* The list of a queue that is not empty has a link, and the other way round.
LEMMA SomeLinkLemma ==
  ASSUME NEW h, NEW c, Complete(h, c), NEW q \in AllQueues
  PROVE  /\ c \in [AllQueues -> Seq(Link)] /\ h \in Heap
         /\ Len(c[q]) \in Nat /\ h.nitems[q] = Len(c[q])
         /\ \A l \in Link : h.queue[l] = q => l \in On(c[q])
         /\ \A k \in 1 .. Len(c[q]) : c[q][k] \in Link /\ h.queue[c[q][k]] = q
         /\ \A i, j \in 1 .. Len(c[q]) : c[q][i] = c[q][j] => i = j
         /\ c[q] # <<>> => 1 \in 1 .. Len(c[q]) /\ h.first[q] = c[q][1]
<1>1. Holds(h, c, {})
  BY DEF Complete
<1>2. c \in [AllQueues -> Seq(Link)] /\ h \in Heap
  BY <1>1 DEF Holds
<1>3. /\ c[q] \in Seq(Link) /\ IsList(h, q, c[q])
      /\ \A l \in Link : h.queue[l] = q => l \in On(c[q])
  BY <1>1, HoldsLemma
<1>4. Len(c[q]) \in Nat /\ \A i \in 1 .. Len(c[q]) : c[q][i] \in Link
  BY <1>3
<1>5. c[q] # <<>> => Len(c[q]) > 0
  BY <1>3
<1> QED
  BY <1>2, <1>3, <1>4, <1>5 DEF On, IsList, At

\* Removing an object takes it out of the contents of its queue.
LEMMA RemoveStep ==
  ASSUME NEW h, NEW C, Good(h, C), NEW l \in Link, NEW q \in QueueName, h.queue[l] = q,
         Distinct(h, q), NEW o, o = h.object[l], NEW g, g = AQueueRemove(h, l)
  PROVE  /\ CanRemove(h, l)
         /\ g \in Heap /\ g.object = h.object /\ Requeued(h, g, l, freeLinks)
         /\ o \in Lists!InQueue(C[q])
         /\ Good(g, Taken(C, q, o))
<1>1. PICK c : Complete(h, c) /\ C = ContentsOf(h, c)
  BY DEF Good
<1>2. q \in AllQueues /\ freeLinks \in AllQueues /\ freeLinks \notin QueueName /\ q # freeLinks
  BY NamesLemma
<1>3. /\ c \in [AllQueues -> Seq(Link)] /\ c[q] \in Seq(Link) /\ Len(c[q]) \in Nat
      /\ \A k \in 1 .. Len(c[q]) : c[q][k] \in Link /\ h.queue[c[q][k]] = q
      /\ \A i, j \in 1 .. Len(c[q]) : c[q][i] = c[q][j] => i = j
  BY <1>1, <1>2, SomeLinkLemma
<1>4. PICK k \in 1 .. Len(c[q]) : l = c[q][k]
  <2>1. l \in On(c[q])
    BY <1>1, <1>2, SomeLinkLemma
  <2> QED
    BY <2>1 DEF On
<1> PICK s : s = c[q]
  OBVIOUS
<1> PICK b : b = Put(c, q, Without(s, k))
  OBVIOUS
<1> PICK d : d = Put(b, freeLinks, Append(c[freeLinks], l))
  OBVIOUS
<1>5. /\ CanRemove(h, l)
      /\ g \in Heap /\ g.object = h.object /\ Requeued(h, g, l, freeLinks)
      /\ Complete(g, d)
  BY <1>1, <1>4, RemoveLemma
<1>6. /\ o \in Lists!InQueue(ObjectsAt(h, s))
      /\ Lists!AQueueRemove(ObjectsAt(h, s), o) = ObjectsAt(h, Without(s, k))
  <2>1. \A i, j \in 1 .. Len(s) : h.object[s[i]] = h.object[s[j]] => i = j
    BY <1>3, SMTT(30) DEF Distinct
  <2>2. s \in Seq(Link) /\ k \in 1 .. Len(s) /\ h.object[s[k]] = o
    BY <1>3, <1>4
  <2> QED
    BY <2>1, <2>2, RemovedObjectsLemma
<1>7. C[q] = ObjectsAt(h, s)
  BY <1>1 DEF ContentsOf
<1>8. ContentsOf(h, b) = Changed(C, q, ObjectsAt(h, Without(s, k)))
  <2>1. SameObjects(h, h, c, q)
    BY DEF SameObjects
  <2> QED
    BY <2>1, <1>1, <1>3, ChangeLemma
<1>9. ContentsOf(g, d) = ContentsOf(h, b)
  <2>1. b \in [AllQueues -> Seq(Link)]
    <3>1. Without(s, k) \in Seq(Link)
      BY <1>3 DEF Without
    <3> QED
      BY <3>1, <1>3 DEF Put
  <2>2. SameObjects(h, g, b, freeLinks)
    BY <1>5 DEF SameObjects
  <2> QED
    BY <2>1, <2>2, ChangeFreeLemma
<1> QED
  BY <1>5, <1>6, <1>7, <1>8, <1>9 DEF Good, Taken

\* A link for an object changes no contents, wherever it was free.
LEMMA AllocStep ==
  ASSUME NEW h, NEW C, Good(h, C), NEW x \in Link, h.queue[x] = freeLinks, NEW obj \in Object,
         NEW l, l = h.first[freeLinks], NEW g, g = AQueueAllocLink(h, obj)
  PROVE  /\ CanAlloc(h) /\ l \in Link /\ h.queue[l] = freeLinks
         /\ g \in Heap /\ Requeued(h, g, l, NULL) /\ Reassigned(h, g, l, obj)
         /\ Spare(g, l, C)
<1>1. PICK c : Complete(h, c) /\ C = ContentsOf(h, c)
  BY DEF Good
<1>2. freeLinks \in AllQueues
  BY NamesLemma
<1>3. PICK k \in 1 .. Len(c[freeLinks]) : c[freeLinks][k] = x
  <2>1. x \in On(c[freeLinks])
    BY <1>1, <1>2, SomeLinkLemma
  <2> QED
    BY <2>1 DEF On
<1>4. c \in [AllQueues -> Seq(Link)] /\ h \in Heap /\ Len(c[freeLinks]) \in Nat
  BY <1>1, <1>2, SomeLinkLemma
<1>5. c[freeLinks] # <<>>
  BY <1>3, <1>4
<1> PICK d : d = Put(c, freeLinks, Tail(c[freeLinks]))
  OBVIOUS
<1>6. /\ CanAlloc(h) /\ l \in Link /\ h.queue[l] = freeLinks
      /\ g \in Heap /\ Requeued(h, g, l, NULL) /\ Reassigned(h, g, l, obj)
      /\ Loose(g, d, l)
  BY <1>1, <1>5, AllocLemma
<1>7. SameObjects(h, g, c, freeLinks)
  <2> SUFFICES ASSUME NEW r \in QueueName, NEW y \in On(c[r]) PROVE g.object[y] = h.object[y]
    BY DEF SameObjects
  <2>1. r \in AllQueues /\ r # freeLinks
    BY NamesLemma
  <2>2. d[r] = c[r]
    BY <2>1, <1>4 DEF Put
  <2>3. y \in Link /\ y # l
    BY <2>1, <2>2, <1>6, LooseLemma
  <2> QED
    BY <2>3, <1>6, <1>4 DEF Reassigned, Heap
<1>8. ContentsOf(g, d) = C
  BY <1>1, <1>4, <1>7, ChangeFreeLemma
<1> QED
  BY <1>6, <1>8 DEF Spare

\* An insertion adds the link's object to the contents of its queue.
LEMMA InsertLastStep ==
  ASSUME NEW h, NEW C, NEW l \in Link, Spare(h, l, C), NEW q \in QueueName,
         NEW o, o = h.object[l], NEW g, g = AQueueInsertLast(h, q, l)
  PROVE  /\ CanInsert(h, q, h.last[q])
         /\ g \in Heap /\ Requeued(h, g, l, q) /\ g.object = h.object
         /\ Good(g, AddedLast(C, q, o))
<1>1. PICK c : Loose(h, c, l) /\ C = ContentsOf(h, c)
  BY DEF Spare
<1>2. q \in AllQueues
  BY NamesLemma
<1>3. c \in [AllQueues -> Seq(Link)] /\ h \in Heap
  BY <1>1, LooseLemma
<1> PICK s : s = c[q]
  OBVIOUS
<1> PICK d : d = Put(c, q, Append(s, l))
  OBVIOUS
<1>4. /\ CanInsert(h, q, h.last[q])
      /\ g \in Heap /\ Requeued(h, g, l, q) /\ g.object = h.object
      /\ Complete(g, d)
  BY <1>1, <1>2, InsertLastOne
<1>5. s \in Seq(Link)
  BY <1>2, <1>3
<1>6. C[q] = ObjectsAt(h, s)
  BY <1>1 DEF ContentsOf
<1>7. ObjectsAt(g, Append(s, l)) = Append(C[q], o)
  <2>1. ObjectsAt(g, Append(s, l)) = ObjectsAt(h, Append(s, l))
    BY <1>4 DEF ObjectsAt
  <2> QED
    BY <2>1, <1>5, <1>6, ObjectsLemma
<1>8. SameObjects(h, g, c, q)
  BY <1>4 DEF SameObjects
<1>9. ContentsOf(g, d) = Changed(C, q, Append(C[q], o))
  <2>1. ContentsOf(g, d) = Changed(C, q, ObjectsAt(g, Append(s, l)))
    BY <1>1, <1>3, <1>8, ChangeLemma
  <2> QED
    BY <2>1, <1>7
<1> QED
  BY <1>4, <1>9 DEF Good, AddedLast

\* The same at the other end of the queue.
LEMMA InsertFirstStep ==
  ASSUME NEW h, NEW C, NEW l \in Link, Spare(h, l, C), NEW q \in QueueName,
         NEW o, o = h.object[l], NEW g, g = AQueueInsertFirst(h, q, l)
  PROVE  /\ CanInsert(h, q, h.first[q])
         /\ g \in Heap /\ Requeued(h, g, l, q) /\ g.object = h.object
         /\ Good(g, AddedFirst(C, q, o))
<1>1. PICK c : Loose(h, c, l) /\ C = ContentsOf(h, c)
  BY DEF Spare
<1>2. q \in AllQueues
  BY NamesLemma
<1>3. c \in [AllQueues -> Seq(Link)] /\ h \in Heap
  BY <1>1, LooseLemma
<1> PICK s : s = c[q]
  OBVIOUS
<1> PICK d : d = Put(c, q, <<l>> \o s)
  OBVIOUS
<1>4. /\ CanInsert(h, q, h.first[q])
      /\ g \in Heap /\ Requeued(h, g, l, q) /\ g.object = h.object
      /\ Complete(g, d)
  BY <1>1, <1>2, InsertFirstOne
<1>5. s \in Seq(Link)
  BY <1>2, <1>3
<1>6. C[q] = ObjectsAt(h, s)
  BY <1>1 DEF ContentsOf
<1>7. ObjectsAt(g, <<l>> \o s) = <<o>> \o C[q]
  <2>1. ObjectsAt(g, <<l>> \o s) = ObjectsAt(h, <<l>> \o s)
    BY <1>4 DEF ObjectsAt
  <2> QED
    BY <2>1, <1>5, <1>6, ObjectsLemma, SMTT(30)
<1>8. SameObjects(h, g, c, q)
  BY <1>4 DEF SameObjects
<1>9. ContentsOf(g, d) = Changed(C, q, <<o>> \o C[q])
  <2>1. ContentsOf(g, d) = Changed(C, q, ObjectsAt(g, <<l>> \o s))
    BY <1>1, <1>3, <1>8, ChangeLemma
  <2> QED
    BY <2>1, <1>7
<1> QED
  BY <1>4, <1>9 DEF Good, AddedFirst

\* The first link of a queue is for the first object; removing that object
\* leaves the others.
LEMMA FirstStep ==
  ASSUME NEW h, NEW C, Good(h, C), NEW q \in QueueName, ~AQueueEmpty(h, q), Distinct(h, q),
         NEW l, l = h.first[q]
  PROVE  /\ l \in Link /\ h.queue[l] = q /\ C[q] # <<>>
         /\ Lists!AQueueRemove(C[q], h.object[l]) = Tail(C[q])
<1>1. PICK c : Complete(h, c) /\ C = ContentsOf(h, c)
  BY DEF Good
<1>2. q \in AllQueues
  BY NamesLemma
<1> PICK s : s = c[q]
  OBVIOUS
<1> PICK r : r = ObjectsAt(h, s)
  OBVIOUS
<1>3. /\ s \in Seq(Link) /\ Len(s) \in Nat /\ h.nitems[q] = Len(s)
      /\ \A k \in 1 .. Len(s) : s[k] \in Link /\ h.queue[s[k]] = q
      /\ \A i, j \in 1 .. Len(s) : s[i] = s[j] => i = j
      /\ s # <<>> => 1 \in 1 .. Len(s) /\ h.first[q] = s[1]
  BY <1>1, <1>2, SomeLinkLemma
<1>4. s # <<>> /\ 1 \in 1 .. Len(s) /\ l = s[1] /\ l \in Link /\ h.queue[l] = q
  BY <1>3 DEF AQueueEmpty
<1> DEFINE V == {h.object[x] : x \in Link}
<1>5. r \in Seq(V) /\ Len(r) = Len(s) /\ \A i \in 1 .. Len(s) : r[i] = h.object[s[i]]
  BY <1>3 DEF ObjectsAt
<1> HIDE DEF V
<1>6. r # <<>> /\ Head(r) = h.object[l]
  BY <1>3, <1>4, <1>5
<1>7. Q!NoDuplicates(r)
  BY <1>3, <1>5 DEF Q!NoDuplicates, Distinct
<1>8. Q!AQueueRemove(r, Head(r)) = Tail(r)
  BY <1>5, <1>6, <1>7, Q!RemoveHeadLemma
<1>9. Lists!AQueueRemove(r, Head(r)) = Tail(r)
  BY <1>8 DEF Q!AQueueRemove, Lists!AQueueRemove
<1>10. C[q] = r
  BY <1>1 DEF ContentsOf
<1> QED
  BY <1>4, <1>6, <1>9, <1>10

\* What ProcessSchedule makes of the heap h, moving the first link behind the
\* last one if AQueueMoveAfter lets it.
Rotation(h, g, q) ==
  g = IF CanMove(h, q, h.last[q], h.first[q])
        THEN AQueueMoveAfter(h, q, h.last[q], h.first[q]) ELSE h

\* The rotation of a queue that is not empty.
LEMMA RotateStep ==
  ASSUME NEW h, NEW C, Good(h, C), NEW q \in QueueName, ~AQueueEmpty(h, q),
         NEW g, Rotation(h, g, q)
  PROVE  /\ SameOwners(h, g) /\ Good(g, Changed(C, q, Lists!Rotate(C[q])))
<1>1. PICK c : Complete(h, c) /\ C = ContentsOf(h, c)
  BY DEF Good
<1>2. q \in AllQueues
  BY NamesLemma
<1> PICK s : s = c[q]
  OBVIOUS
<1>3. /\ c \in [AllQueues -> Seq(Link)] /\ h \in Heap
      /\ s \in Seq(Link) /\ Len(s) \in Nat /\ h.nitems[q] = Len(s)
      /\ \A k \in 1 .. Len(s) : s[k] \in Link
  BY <1>1, <1>2, SomeLinkLemma
<1>4. Len(s) > 0 /\ s # <<>> /\ Holds(h, c, {})
  BY <1>1, <1>3 DEF AQueueEmpty, Complete
<1>5. CanMove(h, q, h.last[q], h.first[q]) <=> Len(s) > 1
  BY <1>2, <1>4, MoveFirstLemma
<1> PICK d : d = Put(c, q, Rotated(s))
  OBVIOUS
<1>6. SameOwners(h, g) /\ Complete(g, d)
  <2>1. CASE Len(s) > 1
    <3>1. g = AQueueMoveAfter(h, q, h.last[q], h.first[q])
      BY <2>1, <1>5 DEF Rotation
    <3>2. /\ g \in Heap /\ g.queue = h.queue /\ g.object = h.object
          /\ Holds(g, Put(c, q, Rotated(c[q])), {})
      BY <3>1, <2>1, <1>2, <1>4, MoveAfterLemma
    <3> QED
      BY <3>2 DEF SameOwners, Complete
  <2>2. CASE Len(s) = 1
    <3>1. g = h
      BY <2>2, <1>5 DEF Rotation
    <3>2. Rotated(s) = s
      BY <2>2, <1>3 DEF Rotated
    <3>3. d = c
      BY <3>2, <1>2, <1>3 DEF Put
    <3> QED
      BY <3>1, <3>3, <1>1, <1>3 DEF SameOwners
  <2>3. Len(s) \in Nat /\ Len(s) > 0
    BY <1>3, <1>4
  <2>4. \A n \in Nat : n > 0 => n > 1 \/ n = 1
    OBVIOUS
  <2>5. Len(s) > 1 \/ Len(s) = 1
    BY <2>3, <2>4, Zenon
  <2> QED
    BY <2>1, <2>2, <2>5
<1>7. C[q] = ObjectsAt(h, s)
  BY <1>1 DEF ContentsOf
<1>8. ObjectsAt(g, Rotated(s)) = Lists!Rotate(C[q])
  <2>1. ObjectsAt(g, Rotated(s)) = ObjectsAt(h, Rotated(s))
    BY <1>6 DEF ObjectsAt, SameOwners
  <2>2. s[1] \in Link
    BY <1>3, <1>4
  <2>3. ObjectsAt(h, Rotated(s)) = Lists!Rotate(ObjectsAt(h, s))
    BY <2>2, <1>3, ObjectsLemma
  <2> QED
    BY <2>1, <2>3, <1>7
<1>9. SameObjects(h, g, c, q)
  BY <1>6 DEF SameObjects, SameOwners
<1>10. ContentsOf(g, d) = Changed(C, q, Lists!Rotate(C[q]))
  BY <1>1, <1>3, <1>8, <1>9, ChangeLemma
<1> QED
  BY <1>6, <1>10 DEF Good

-----------------------------------------------------------------------------
(* What the links are for *)

\* Each PCB's link is on a queue of the scheduler and is for that PCB.
PCBLinksOK(h, link) ==
  /\ link \in [Object -> Link]
  /\ \A o \in Object : h.queue[link[o]] \in SchedQueue /\ h.object[link[o]] = o

\* The scheduler's queues have no other links.
SchedLinksOK(h, link) ==
  \A l \in Link : h.queue[l] \in SchedQueue => h.object[l] \in Object /\ link[h.object[l]] = l

\* An object is on at most one waiting queue, and there once.
WaitingLinksOK(h) ==
  /\ \A l \in Link : h.queue[l] \in WaitingQueue => h.object[l] \in Object
  /\ \A l, m \in Link : /\ h.queue[l] \in WaitingQueue /\ h.queue[m] \in WaitingQueue
                        /\ h.object[l] = h.object[m]
                        => l = m

OwnersOK(h, link) == PCBLinksOK(h, link) /\ SchedLinksOK(h, link) /\ WaitingLinksOK(h)

\* So no queue of the kernel has two links for the same object.
LEMMA DistinctLemma ==
  ASSUME NEW h, NEW link, OwnersOK(h, link), NEW q \in QueueName
  PROVE  Distinct(h, q)
<1>1. CASE q \in SchedQueue
  BY <1>1 DEF OwnersOK, SchedLinksOK, Distinct
<1>2. CASE q \in WaitingQueue
  BY <1>2 DEF OwnersOK, WaitingLinksOK, Distinct
<1> QED
  BY <1>1, <1>2 DEF QueueName

\* While some object is not waiting there is a free link: the others are at
\* most one on the scheduler's queues for each object, and one on a waiting
\* queue for each object but that one.
LEMMA FreeLinkLemma ==
  ASSUME NEW h, NEW C, Good(h, C), NEW link, OwnersOK(h, link), NEW o \in Object,
         \A l \in Link : h.queue[l] \in WaitingQueue => h.object[l] # o
  PROVE  \E x \in Link : h.queue[x] = freeLinks
<1> SUFFICES ASSUME \A x \in Link : h.queue[x] # freeLinks PROVE FALSE
  OBVIOUS
<1> DEFINE S == {l \in Link : h.queue[l] \in SchedQueue}
           W == {l \in Link : h.queue[l] \in WaitingQueue}
           n == Cardinality(Object)
<1>1. \A l \in Link : h.queue[l] \in AllQueues
  BY DEF Good, Complete, Holds
<1>2. Link = S \union W
  BY <1>1 DEF AllQueues, QueueName
<1>3. IsFiniteSet(Link) /\ Cardinality(Link) = QUEUE_MAX_LINKS
  <2>1. QUEUE_MAX_LINKS \in Nat /\ QUEUE_MAX_LINKS \in Int /\ 1 \in Int
    BY LinksAssumption
  <2>2. /\ IsFiniteSet(1 .. QUEUE_MAX_LINKS)
        /\ Cardinality(1 .. QUEUE_MAX_LINKS)
             = IF 1 > QUEUE_MAX_LINKS THEN 0 ELSE QUEUE_MAX_LINKS - 1 + 1
    BY <2>1, FS_Interval
  <2> QED
    BY <2>1, <2>2 DEF Link
<1>4. IsFiniteSet(Object) /\ n \in Nat
  BY LinksAssumption, FS_CardinalityType
<1>5. IsFiniteSet(Object \ {o}) /\ Cardinality(Object \ {o}) = n - 1
  BY <1>4, FS_RemoveElement
<1>6. IsFiniteSet(S) /\ Cardinality(S) <= n
  <2> DEFINE f == [l \in S |-> h.object[l]]
  <2>1. f \in Injection(S, Object)
    BY DEF Injection, IsInjective, OwnersOK, SchedLinksOK
  <2> HIDE DEF f, S
  <2> QED
    BY <2>1, <1>4, FS_Injection
<1>7. IsFiniteSet(W) /\ Cardinality(W) <= n - 1
  <2> DEFINE f == [l \in W |-> h.object[l]]
             T == Object \ {o}
  <2>1. f \in Injection(W, T)
    BY DEF Injection, IsInjective, OwnersOK, WaitingLinksOK
  <2> HIDE DEF f, W, T
  <2>2. IsFiniteSet(T) /\ Cardinality(T) = n - 1
    BY <1>5 DEF T
  <2> QED
    BY <2>1, <2>2, FS_Injection
<1> HIDE DEF S, W
<1>8. /\ Cardinality(S \union W) = Cardinality(S) + Cardinality(W) - Cardinality(S \intersect W)
      /\ Cardinality(S) \in Nat /\ Cardinality(W) \in Nat
  BY <1>6, <1>7, FS_Union, FS_CardinalityType
<1>9. Cardinality(S \intersect W) \in Nat
  <2>1. IsFiniteSet(S \intersect W)
    BY <1>6, FS_Subset
  <2> QED
    BY <2>1, FS_CardinalityType
<1> QED
  BY <1>2, <1>3, <1>4, <1>6, <1>7, <1>8, <1>9, LinksAssumption

\* Between two heaps, the link l0 goes to the free links and l, which is l0 or
\* a free one, to queue q with the object o.
Relinked(h, g, l0, l, q, o) ==
  /\ l0 \in Link /\ l \in Link /\ (l = l0 \/ h.queue[l] = freeLinks)
  /\ \A x \in Link :
       /\ g.queue[x] = IF x = l THEN q ELSE IF x = l0 THEN freeLinks ELSE h.queue[x]
       /\ g.object[x] = IF x = l THEN o ELSE h.object[x]

\* The PCB o keeps another link.
WithLink(link, o, l) == [link EXCEPT ![o] = l]

\* When that happens to the link of a PCB, the PCB must learn of the new one.
LEMMA RelinkedOwners ==
  ASSUME NEW h, NEW g, NEW link, OwnersOK(h, link), NEW o \in Object,
         NEW l0, l0 = link[o], NEW l, NEW q \in SchedQueue, Relinked(h, g, l0, l, q, o),
         NEW link2, link2 = WithLink(link, o, l)
  PROVE  OwnersOK(g, link2)
<1>1. /\ link \in [Object -> Link]
      /\ \A p \in Object : h.queue[link[p]] \in SchedQueue /\ h.object[link[p]] = p
      /\ \A x \in Link :
           h.queue[x] \in SchedQueue => h.object[x] \in Object /\ link[h.object[x]] = x
  BY DEF OwnersOK, PCBLinksOK, SchedLinksOK
<1>2. /\ freeLinks \notin SchedQueue /\ freeLinks \notin WaitingQueue
      /\ \A w \in WaitingQueue : w \notin SchedQueue
  BY NamesLemma
<1>3. /\ l0 \in Link /\ l \in Link /\ (l = l0 \/ h.queue[l] = freeLinks)
      /\ \A x \in Link :
           /\ g.queue[x] = IF x = l THEN q ELSE IF x = l0 THEN freeLinks ELSE h.queue[x]
           /\ g.object[x] = IF x = l THEN o ELSE h.object[x]
  BY DEF Relinked
<1>4. link2 \in [Object -> Link] /\ \A p \in Object : link2[p] = IF p = o THEN l ELSE link[p]
  BY <1>1, <1>3 DEF WithLink
<1>5. PCBLinksOK(g, link2)
  <2> SUFFICES ASSUME NEW p \in Object
               PROVE  g.queue[link2[p]] \in SchedQueue /\ g.object[link2[p]] = p
    BY <1>4 DEF PCBLinksOK
  <2>1. CASE p = o
    BY <2>1, <1>3, <1>4
  <2>2. CASE p # o
    <3>1. link2[p] = link[p] /\ link[p] \in Link /\ link[p] # l0 /\ link[p] # l
      BY <2>2, <1>1, <1>2, <1>3, <1>4
    <3> QED
      BY <3>1, <1>1, <1>3
  <2> QED
    BY <2>1, <2>2
<1>6. SchedLinksOK(g, link2)
  <2> SUFFICES ASSUME NEW x \in Link, g.queue[x] \in SchedQueue
               PROVE  g.object[x] \in Object /\ link2[g.object[x]] = x
    BY DEF SchedLinksOK
  <2>1. CASE x = l
    BY <2>1, <1>3, <1>4
  <2>2. CASE x # l
    <3>1. x # l0 /\ h.queue[x] \in SchedQueue /\ g.object[x] = h.object[x]
      BY <2>2, <1>2, <1>3
    <3>2. h.object[x] \in Object /\ link[h.object[x]] = x
      BY <3>1, <1>1
    <3> QED
      BY <3>1, <3>2, <1>4
  <2> QED
    BY <2>1, <2>2
<1>7. \A x \in Link : g.queue[x] \in WaitingQueue =>
                        h.queue[x] \in WaitingQueue /\ g.object[x] = h.object[x]
  BY <1>2, <1>3
<1>8. WaitingLinksOK(g)
  BY <1>7 DEF OwnersOK, WaitingLinksOK
<1> QED
  BY <1>5, <1>6, <1>8 DEF OwnersOK

\* A free link goes to a waiting queue with an object that waits nowhere.
LEMMA JoinedOwners ==
  ASSUME NEW h, NEW g, NEW link, OwnersOK(h, link), NEW o \in Object,
         NEW l \in Link, h.queue[l] = freeLinks, NEW w \in WaitingQueue,
         \A x \in Link : h.queue[x] \in WaitingQueue => h.object[x] # o,
         \A x \in Link : /\ g.queue[x] = IF x = l THEN w ELSE h.queue[x]
                         /\ g.object[x] = IF x = l THEN o ELSE h.object[x]
  PROVE  OwnersOK(g, link)
<1>1. /\ freeLinks \notin SchedQueue /\ freeLinks \notin WaitingQueue
      /\ \A q \in WaitingQueue : q \notin SchedQueue
  BY NamesLemma
<1>2. PCBLinksOK(g, link)
  BY <1>1 DEF OwnersOK, PCBLinksOK
<1>3. SchedLinksOK(g, link)
  BY <1>1 DEF OwnersOK, SchedLinksOK
<1>4. WaitingLinksOK(g)
  BY <1>1 DEF OwnersOK, WaitingLinksOK
<1> QED
  BY <1>2, <1>3, <1>4 DEF OwnersOK

\* A link of a waiting queue becomes free.
LEMMA LeftOwners ==
  ASSUME NEW h, NEW g, NEW link, OwnersOK(h, link),
         NEW l \in Link, h.queue[l] \in WaitingQueue,
         \A x \in Link : g.queue[x] = IF x = l THEN freeLinks ELSE h.queue[x],
         g.object = h.object
  PROVE  OwnersOK(g, link)
<1>1. /\ freeLinks \notin SchedQueue /\ freeLinks \notin WaitingQueue
      /\ \A q \in WaitingQueue : q \notin SchedQueue
  BY NamesLemma
<1>2. PCBLinksOK(g, link)
  BY <1>1 DEF OwnersOK, PCBLinksOK
<1>3. SchedLinksOK(g, link)
  BY <1>1 DEF OwnersOK, SchedLinksOK
<1>4. WaitingLinksOK(g)
  BY <1>1 DEF OwnersOK, WaitingLinksOK
<1> QED
  BY <1>2, <1>3, <1>4 DEF OwnersOK

\* The new link gets to a queue after it has been made.
LEMMA RelinkedOn ==
  ASSUME NEW h, NEW a \in Heap, NEW g, NEW l0, NEW l, NEW o, Relinked(h, a, l0, l, NULL, o),
         NEW q, Requeued(a, g, l, q), g.object = a.object
  PROVE  Relinked(h, g, l0, l, q, o)
<1>1. l \in Link
  BY DEF Relinked
<1>2. \A x \in Link : g.queue[x] = IF x = l THEN q ELSE a.queue[x]
  BY <1>1 DEF Requeued, Heap
<1> QED
  BY <1>2 DEF Relinked

\* A PCB's link is taken off its queue, and a new one is made for the PCB.
LEMMA TakeLemma ==
  ASSUME NEW h, NEW C, Good(h, C), NEW link, OwnersOK(h, link), NEW o \in Object,
         NEW l0, l0 = link[o], NEW from, from = h.queue[l0],
         NEW r, r = AQueueRemove(h, l0), NEW a, a = AQueueAllocLink(r, o),
         NEW l, l = r.first[freeLinks]
  PROVE  /\ from \in SchedQueue /\ o \in Lists!InQueue(C[from])
         /\ CanRemove(h, l0) /\ CanAlloc(r)
         /\ Spare(a, l, Taken(C, from, o))
         /\ Relinked(h, a, l0, l, NULL, o)
<1>1. l0 \in Link /\ from \in SchedQueue /\ h.object[l0] = o
  BY DEF OwnersOK, PCBLinksOK
<1>2. from \in QueueName
  BY <1>1, NamesLemma
<1>3. Distinct(h, from)
  BY <1>2, DistinctLemma
<1> PICK D : D = Taken(C, from, o)
  OBVIOUS
<1>4. /\ CanRemove(h, l0)
      /\ r \in Heap /\ r.object = h.object /\ Requeued(h, r, l0, freeLinks)
      /\ o \in Lists!InQueue(C[from])
      /\ Good(r, D)
  BY <1>1, <1>2, <1>3, RemoveStep
<1>5. h \in Heap
  BY DEF Good, Complete, Holds
<1>6. \A x \in Link : r.queue[x] = IF x = l0 THEN freeLinks ELSE h.queue[x]
  BY <1>4, <1>5 DEF Requeued, Heap
<1>7. /\ CanAlloc(r) /\ l \in Link /\ r.queue[l] = freeLinks
      /\ a \in Heap /\ Requeued(r, a, l, NULL) /\ Reassigned(r, a, l, o)
      /\ Spare(a, l, D)
  <2>1. r.queue[l0] = freeLinks
    BY <1>1, <1>6
  <2> QED
    BY <2>1, <1>1, <1>4, AllocStep
<1>8. \A x \in Link : /\ a.queue[x] = IF x = l THEN NULL ELSE r.queue[x]
                      /\ a.object[x] = IF x = l THEN o ELSE r.object[x]
  BY <1>4, <1>7 DEF Requeued, Reassigned, Heap
<1>9. Relinked(h, a, l0, l, NULL, o)
  BY <1>1, <1>4, <1>6, <1>7, <1>8 DEF Relinked
<1> QED
  BY <1>1, <1>4, <1>7, <1>9

-----------------------------------------------------------------------------
(* The invariant, and what the kernel's steps do *)

\* The lists are well formed, every link on them is for the right object, and
\* nothing has failed yet.
LinkInv == fatal = FALSE /\ OwnersOK(heap, pcbLink) /\ \E C : Good(heap, C)

\* The refinement mapping gives the contents of well formed lists.
LEMMA MappingLemma ==
  ASSUME NEW h, NEW C, Good(h, C)
  PROVE  [q \in QueueName |-> Objects(h, q)] = C
<1>1. PICK c : Holds(h, c, {}) /\ C = ContentsOf(h, c)
  BY DEF Good, Complete
<1> QED
  BY <1>1, ContentsLemma

\* The heap when a PCB moves to the end of another queue.
LEMMA MoveToEndHeap ==
  ASSUME NEW h, NEW C, Good(h, C), NEW link, OwnersOK(h, link), NEW o \in Object,
         NEW to \in SchedQueue,
         NEW l0, l0 = link[o], NEW from, from = h.queue[l0],
         NEW r, r = AQueueRemove(h, l0), NEW a, a = AQueueAllocLink(r, o),
         NEW l, l = r.first[freeLinks], NEW g, g = AQueueInsertLast(a, to, l),
         NEW link2, link2 = WithLink(link, o, l)
  PROVE  /\ from \in SchedQueue /\ o \in Lists!InQueue(C[from])
         /\ CanRemove(h, l0) /\ CanAlloc(r) /\ CanInsert(a, to, a.last[to])
         /\ OwnersOK(g, link2) /\ Good(g, AddedLast(Taken(C, from, o), to, o))
<1>1. /\ from \in SchedQueue /\ o \in Lists!InQueue(C[from])
      /\ CanRemove(h, l0) /\ CanAlloc(r)
      /\ Spare(a, l, Taken(C, from, o)) /\ Relinked(h, a, l0, l, NULL, o)
  BY TakeLemma
<1>2. a \in Heap
  BY <1>1, LooseLemma DEF Spare
<1>3. l \in Link /\ a.object[l] = o /\ to \in QueueName 
  BY <1>1, NamesLemma DEF Relinked
<1>4. /\ CanInsert(a, to, a.last[to])
      /\ g \in Heap /\ Requeued(a, g, l, to) /\ g.object = a.object
      /\ Good(g, AddedLast(Taken(C, from, o), to, o))
  BY <1>1, <1>3, InsertLastStep
<1>5. Relinked(h, g, l0, l, to, o)
  BY <1>1, <1>2, <1>4, RelinkedOn
<1>6. OwnersOK(g, link2)
  BY <1>3, <1>5, RelinkedOwners
<1> QED
  BY <1>1, <1>4, <1>6

\* It is a step of the sequences, and nothing fails.
LEMMA MoveToEndStep ==
  ASSUME LinkInv, NEW o \in Object, NEW to \in SchedQueue \ {zombieQueue}, MoveToEnd(o, to)
  PROVE  LinkInv' /\ \E from \in SchedQueue : Lists!MoveToEnd(o, from, to)
<1> PICK h, link : h = heap /\ link = pcbLink
  OBVIOUS
<1> PICK l0 : l0 = link[o]
  OBVIOUS
<1> PICK from : from = h.queue[l0]
  OBVIOUS
<1> PICK r : r = AQueueRemove(h, l0)
  OBVIOUS
<1> PICK a : a = AQueueAllocLink(r, o)
  OBVIOUS
<1> PICK l : l = r.first[freeLinks]
  OBVIOUS
<1> PICK g : g = AQueueInsertLast(a, to, l)
  OBVIOUS
<1> PICK link2 : link2 = WithLink(link, o, l)
  OBVIOUS
<1>1. PICK C : Good(h, C) /\ OwnersOK(h, link)
  BY DEF LinkInv
<1> PICK E : E = AddedLast(Taken(C, from, o), to, o)
  OBVIOUS
<1>2. /\ from \in SchedQueue /\ o \in Lists!InQueue(C[from])
      /\ CanRemove(h, l0) /\ CanAlloc(r) /\ CanInsert(a, to, a.last[to])
      /\ OwnersOK(g, link2) /\ Good(g, E)
  BY <1>1, MoveToEndHeap
<1>3. heap' = g /\ pcbLink' = link2 /\ fatal' = FALSE
  <2> DEFINE ok == CanRemove(h, l0) /\ CanAlloc(r) /\ CanInsert(a, to, a.last[to])
  <2>1. Succeeds(ok, g) /\ pcbLink' = [link EXCEPT ![o] = IF ok THEN l ELSE @]
    BY Zenon DEF MoveToEnd
  <2>2. ok
    BY <1>2
  <2> HIDE DEF ok
  <2>3. fatal' = ~ok /\ heap' = IF ok THEN g ELSE heap
    BY <2>1, Zenon DEF Succeeds
  <2>4. fatal' = FALSE
    BY <2>2, <2>3, Zenon
  <2>5. heap' = g
    BY <2>2, <2>3, Zenon
  <2>6. pcbLink' = link2
    BY <2>1, <2>2, Zenon DEF WithLink
  <2> QED
    BY <2>4, <2>5, <2>6
<1>4. LinkInv'
  BY <1>2, <1>3 DEF LinkInv
<1>5. Contents = C /\ Contents' = E
  BY <1>1, <1>2, <1>3, MappingLemma DEF Contents
<1>6. Lists!MoveToEnd(o, from, to)
  BY <1>2, <1>5 DEF Lists!MoveToEnd, Changed, Taken, AddedLast
<1> QED
  BY <1>2, <1>4, <1>6

\* The heap when the PCB of a process that is destroyed moves to the zombies.
LEMMA MoveToZombiesHeap ==
  ASSUME NEW h, NEW C, Good(h, C), NEW link, OwnersOK(h, link), NEW o \in Object,
         NEW l0, l0 = link[o], NEW from, from = h.queue[l0],
         NEW r, r = AQueueRemove(h, l0), NEW a, a = AQueueAllocLink(r, o),
         NEW l, l = r.first[freeLinks], NEW g, g = AQueueInsertFirst(a, zombieQueue, l),
         NEW link2, link2 = WithLink(link, o, l)
  PROVE  /\ from \in SchedQueue /\ o \in Lists!InQueue(C[from])
         /\ CanRemove(h, l0) /\ CanAlloc(r) /\ CanInsert(a, zombieQueue, a.first[zombieQueue])
         /\ OwnersOK(g, link2) /\ Good(g, AddedFirst(Taken(C, from, o), zombieQueue, o))
<1>1. /\ from \in SchedQueue /\ o \in Lists!InQueue(C[from])
      /\ CanRemove(h, l0) /\ CanAlloc(r)
      /\ Spare(a, l, Taken(C, from, o)) /\ Relinked(h, a, l0, l, NULL, o)
  BY TakeLemma
<1>2. a \in Heap
  BY <1>1, LooseLemma DEF Spare
<1>3. l \in Link /\ a.object[l] = o /\ zombieQueue \in QueueName /\ zombieQueue \in SchedQueue 
  BY <1>1, NamesLemma, LinksAssumption DEF Relinked
<1>4. /\ CanInsert(a, zombieQueue, a.first[zombieQueue])
      /\ g \in Heap /\ Requeued(a, g, l, zombieQueue) /\ g.object = a.object
      /\ Good(g, AddedFirst(Taken(C, from, o), zombieQueue, o))
  BY <1>1, <1>3, InsertFirstStep
<1>5. Relinked(h, g, l0, l, zombieQueue, o)
  BY <1>1, <1>2, <1>4, RelinkedOn
<1>6. OwnersOK(g, link2)
  BY <1>3, <1>5, RelinkedOwners
<1> QED
  BY <1>1, <1>4, <1>6

\* It is a step of the sequences, and nothing fails.
LEMMA MoveToZombiesStep ==
  ASSUME LinkInv, NEW o \in Object, MoveToZombies(o)
  PROVE  LinkInv' /\ \E from \in SchedQueue : Lists!MoveToZombies(o, from)
<1> PICK h, link : h = heap /\ link = pcbLink
  OBVIOUS
<1> PICK l0 : l0 = link[o]
  OBVIOUS
<1> PICK from : from = h.queue[l0]
  OBVIOUS
<1> PICK r : r = AQueueRemove(h, l0)
  OBVIOUS
<1> PICK a : a = AQueueAllocLink(r, o)
  OBVIOUS
<1> PICK l : l = r.first[freeLinks]
  OBVIOUS
<1> PICK g : g = AQueueInsertFirst(a, zombieQueue, l)
  OBVIOUS
<1> PICK link2 : link2 = WithLink(link, o, l)
  OBVIOUS
<1>1. PICK C : Good(h, C) /\ OwnersOK(h, link)
  BY DEF LinkInv
<1> PICK E : E = AddedFirst(Taken(C, from, o), zombieQueue, o)
  OBVIOUS
<1>2. /\ from \in SchedQueue /\ o \in Lists!InQueue(C[from])
      /\ CanRemove(h, l0) /\ CanAlloc(r) /\ CanInsert(a, zombieQueue, a.first[zombieQueue])
      /\ OwnersOK(g, link2) /\ Good(g, E)
  BY <1>1, MoveToZombiesHeap
<1>3. heap' = g /\ pcbLink' = link2 /\ fatal' = FALSE
  <2> DEFINE ok == /\ CanRemove(h, l0) /\ CanAlloc(r)
                   /\ CanInsert(a, zombieQueue, a.first[zombieQueue])
  <2>1. Succeeds(ok, g) /\ pcbLink' = [link EXCEPT ![o] = IF ok THEN l ELSE @]
    BY Zenon DEF MoveToZombies
  <2>2. ok
    BY <1>2
  <2> HIDE DEF ok
  <2>3. fatal' = ~ok /\ heap' = IF ok THEN g ELSE heap
    BY <2>1, Zenon DEF Succeeds
  <2>4. fatal' = FALSE
    BY <2>2, <2>3, Zenon
  <2>5. heap' = g
    BY <2>2, <2>3, Zenon
  <2>6. pcbLink' = link2
    BY <2>1, <2>2, Zenon DEF WithLink
  <2> QED
    BY <2>4, <2>5, <2>6
<1>4. LinkInv'
  BY <1>2, <1>3 DEF LinkInv
<1>5. Contents = C /\ Contents' = E
  BY <1>1, <1>2, <1>3, MappingLemma DEF Contents
<1>6. Lists!MoveToZombies(o, from)
  BY <1>2, <1>5 DEF Lists!MoveToZombies, Changed, Taken, AddedFirst
<1> QED
  BY <1>2, <1>4, <1>6

\* A queue of the scheduler is rotated.
LEMMA RotateQueueStep ==
  ASSUME LinkInv, NEW q \in SchedQueue, RotateQueue(q)
  PROVE  LinkInv' /\ Lists!RotateQueue(q)
<1> PICK h, g : h = heap /\ g = heap'
  OBVIOUS
<1>1. PICK C : Good(h, C)
  BY DEF LinkInv
<1> PICK E : E = Changed(C, q, Lists!Rotate(C[q]))
  OBVIOUS
<1>2. q \in QueueName /\ ~AQueueEmpty(h, q) /\ Rotation(h, g, q)
  BY NamesLemma DEF RotateQueue, Rotation
<1>3. SameOwners(h, g) /\ Good(g, E)
  BY <1>1, <1>2, RotateStep
<1>4. OwnersOK(g, pcbLink)
  BY <1>3 DEF LinkInv, OwnersOK, PCBLinksOK, SchedLinksOK, WaitingLinksOK, SameOwners
<1>5. LinkInv'
  BY <1>3, <1>4 DEF LinkInv, RotateQueue
<1>6. Contents = C /\ Contents' = E
  BY <1>1, <1>3, MappingLemma DEF Contents
<1>7. Lists!RotateQueue(q)
  BY <1>6 DEF Lists!RotateQueue, Changed
<1> QED
  BY <1>5, <1>7

\* What a queue contains are the objects of its links.
LEMMA MemberLemma ==
  ASSUME NEW h, NEW C, Good(h, C), NEW q \in QueueName, NEW x \in Lists!InQueue(C[q])
  PROVE  \E l \in Link : h.queue[l] = q /\ h.object[l] = x
<1>1. PICK c : Complete(h, c) /\ C = ContentsOf(h, c)
  BY DEF Good
<1> PICK s : s = c[q]
  OBVIOUS
<1>2. q \in AllQueues
  BY NamesLemma
<1>3. Len(s) \in Nat /\ \A k \in 1 .. Len(s) : s[k] \in Link /\ h.queue[s[k]] = q
  BY <1>1, <1>2, SomeLinkLemma
<1>4. C[q] = ObjectsAt(h, s)
  BY <1>1 DEF ContentsOf
<1>5. PICK i \in 1 .. Len(s) : x = h.object[s[i]]
  BY <1>3, <1>4 DEF Lists!InQueue, ObjectsAt
<1> QED
  BY <1>3, <1>5

\* The heap when a PCB joins a waiting queue.
LEMMA EnqueueHeap ==
  ASSUME NEW h, NEW C, Good(h, C), NEW link, OwnersOK(h, link), NEW o \in Object,
         NEW w \in WaitingQueue,
         \A x \in Link : h.queue[x] \in WaitingQueue => h.object[x] # o,
         NEW a, a = AQueueAllocLink(h, o), NEW l, l = h.first[freeLinks],
         NEW g, g = AQueueInsertLast(a, w, l)
  PROVE  /\ CanAlloc(h) /\ CanInsert(a, w, a.last[w])
         /\ \A v \in WaitingQueue : o \notin Lists!InQueue(C[v])
         /\ OwnersOK(g, link) /\ Good(g, AddedLast(C, w, o))
<1>1. PICK k \in Link : h.queue[k] = freeLinks
  BY FreeLinkLemma
<1>2. /\ CanAlloc(h) /\ l \in Link /\ h.queue[l] = freeLinks
      /\ a \in Heap /\ Requeued(h, a, l, NULL) /\ Reassigned(h, a, l, o)
      /\ Spare(a, l, C)
  BY <1>1, AllocStep
<1>3. h \in Heap /\ w \in QueueName /\ \A v \in WaitingQueue : v \in QueueName
  BY NamesLemma DEF Good, Complete, Holds
<1>4. \A x \in Link : /\ a.queue[x] = IF x = l THEN NULL ELSE h.queue[x]
                      /\ a.object[x] = IF x = l THEN o ELSE h.object[x]
  BY <1>2, <1>3 DEF Requeued, Reassigned, Heap
<1>5. /\ CanInsert(a, w, a.last[w])
      /\ g \in Heap /\ Requeued(a, g, l, w) /\ g.object = a.object
      /\ Good(g, AddedLast(C, w, o))
  <2>1. a.object[l] = o
    BY <1>2, <1>4
  <2> QED
    BY <2>1, <1>2, <1>3, InsertLastStep
<1>6. \A x \in Link : g.queue[x] = IF x = l THEN w ELSE a.queue[x]
  BY <1>2, <1>5 DEF Requeued, Heap
<1>7. OwnersOK(g, link)
  <2>1. \A x \in Link : /\ g.queue[x] = IF x = l THEN w ELSE h.queue[x]
                        /\ g.object[x] = IF x = l THEN o ELSE h.object[x]
    BY <1>4, <1>5, <1>6
  <2> QED
    BY <2>1, <1>2, JoinedOwners
<1>8. ASSUME NEW v \in WaitingQueue PROVE o \notin Lists!InQueue(C[v])
  <2> SUFFICES ASSUME o \in Lists!InQueue(C[v]) PROVE FALSE
    OBVIOUS
  <2>1. PICK y \in Link : h.queue[y] = v /\ h.object[y] = o
    BY <1>3, MemberLemma
  <2> QED
    BY <2>1
<1> QED
  BY <1>2, <1>5, <1>7, <1>8

\* It is a step of the sequences, and there was a link for it.
LEMMA EnqueueStep ==
  ASSUME LinkInv, NEW o \in Object, NEW w \in WaitingQueue, Enqueue(o, w)
  PROVE  LinkInv' /\ Lists!Enqueue(o, w)
<1> PICK h, link : h = heap /\ link = pcbLink
  OBVIOUS
<1> PICK a : a = AQueueAllocLink(h, o)
  OBVIOUS
<1> PICK l : l = h.first[freeLinks]
  OBVIOUS
<1> PICK g : g = AQueueInsertLast(a, w, l)
  OBVIOUS
<1>1. PICK C : Good(h, C) /\ OwnersOK(h, link)
  BY DEF LinkInv
<1> PICK E : E = AddedLast(C, w, o)
  OBVIOUS
<1>2. \A x \in Link : h.queue[x] \in WaitingQueue => h.object[x] # o
  BY DEF Enqueue, Waiting
<1>3. /\ CanAlloc(h) /\ CanInsert(a, w, a.last[w])
      /\ \A v \in WaitingQueue : o \notin Lists!InQueue(C[v])
      /\ OwnersOK(g, link) /\ Good(g, E)
  BY <1>1, <1>2, EnqueueHeap
<1>4. heap' = g /\ pcbLink' = link /\ fatal' = FALSE
  <2> DEFINE ok == CanAlloc(h) /\ CanInsert(a, w, a.last[w])
  <2>1. Succeeds(ok, g) /\ pcbLink' = link
    BY Zenon DEF Enqueue
  <2>2. ok
    BY <1>3
  <2> HIDE DEF ok
  <2>3. fatal' = ~ok /\ heap' = IF ok THEN g ELSE heap
    BY <2>1, Zenon DEF Succeeds
  <2>4. fatal' = FALSE
    BY <2>2, <2>3, Zenon
  <2>5. heap' = g
    BY <2>2, <2>3, Zenon
  <2> QED
    BY <2>1, <2>4, <2>5
<1>5. LinkInv'
  BY <1>3, <1>4 DEF LinkInv
<1>6. Contents = C /\ Contents' = E
  BY <1>1, <1>3, <1>4, MappingLemma DEF Contents
<1>7. Lists!Enqueue(o, w)
  BY <1>3, <1>6 DEF Lists!Enqueue, Changed, AddedLast
<1> QED
  BY <1>5, <1>7

\* The heap when the first PCB leaves a waiting queue.
LEMMA DequeueHeap ==
  ASSUME NEW h, NEW C, Good(h, C), NEW link, OwnersOK(h, link), NEW w \in WaitingQueue,
         ~AQueueEmpty(h, w), NEW l, l = h.first[w], NEW g, g = AQueueRemove(h, l)
  PROVE  /\ CanRemove(h, l) /\ C[w] # <<>>
         /\ OwnersOK(g, link) /\ Good(g, Changed(C, w, Tail(C[w])))
<1>1. w \in QueueName
  BY NamesLemma
<1>2. Distinct(h, w)
  BY <1>1, DistinctLemma
<1> PICK o : o = h.object[l]
  OBVIOUS
<1>3. l \in Link /\ h.queue[l] = w /\ C[w] # <<>> /\ Lists!AQueueRemove(C[w], o) = Tail(C[w])
  BY <1>1, <1>2, FirstStep
<1>4. /\ CanRemove(h, l)
      /\ g \in Heap /\ g.object = h.object /\ Requeued(h, g, l, freeLinks)
      /\ Good(g, Taken(C, w, o))
  BY <1>1, <1>2, <1>3, RemoveStep
<1>5. h \in Heap
  BY DEF Good, Complete, Holds
<1>6. \A x \in Link : g.queue[x] = IF x = l THEN freeLinks ELSE h.queue[x]
  BY <1>3, <1>4, <1>5 DEF Requeued, Heap
<1>7. OwnersOK(g, link)
  BY <1>3, <1>4, <1>6, LeftOwners
<1> QED
  BY <1>3, <1>4, <1>7 DEF Taken

\* It is a step of the sequences.
LEMMA DequeueStep ==
  ASSUME LinkInv, NEW w \in WaitingQueue, Dequeue(w)
  PROVE  LinkInv' /\ Lists!Dequeue(w)
<1> PICK h, link : h = heap /\ link = pcbLink
  OBVIOUS
<1> PICK l : l = h.first[w]
  OBVIOUS
<1> PICK g : g = AQueueRemove(h, l)
  OBVIOUS
<1>1. PICK C : Good(h, C) /\ OwnersOK(h, link)
  BY DEF LinkInv
<1> PICK E : E = Changed(C, w, Tail(C[w]))
  OBVIOUS
<1>2. ~AQueueEmpty(h, w)
  BY DEF Dequeue
<1>3. CanRemove(h, l) /\ C[w] # <<>> /\ OwnersOK(g, link) /\ Good(g, E)
  BY <1>1, <1>2, DequeueHeap
<1>4. heap' = g /\ pcbLink' = link /\ fatal' = FALSE
  <2> DEFINE ok == CanRemove(h, l)
  <2>1. Succeeds(ok, g) /\ pcbLink' = link
    BY Zenon DEF Dequeue
  <2>2. ok
    BY <1>3
  <2> HIDE DEF ok
  <2>3. fatal' = ~ok /\ heap' = IF ok THEN g ELSE heap
    BY <2>1, Zenon DEF Succeeds
  <2>4. fatal' = FALSE
    BY <2>2, <2>3, Zenon
  <2>5. heap' = g
    BY <2>2, <2>3, Zenon
  <2> QED
    BY <2>1, <2>4, <2>5
<1>5. LinkInv'
  BY <1>3, <1>4 DEF LinkInv
<1>6. Contents = C /\ Contents' = E
  BY <1>1, <1>3, <1>4, MappingLemma DEF Contents
<1>7. Lists!Dequeue(w)
  BY <1>3, <1>6 DEF Lists!Dequeue, Changed
<1> QED
  BY <1>5, <1>7

\* Every step keeps the invariant and is a step of the sequences.
LEMMA NextStep ==
  ASSUME LinkInv, [Next]_vars
  PROVE  LinkInv' /\ [Lists!Next]_Contents
<1>1. ASSUME NEW o \in Object, NEW to \in SchedQueue \ {zombieQueue}, MoveToEnd(o, to)
      PROVE  LinkInv' /\ Lists!Next
  BY <1>1, MoveToEndStep DEF Lists!Next
<1>2. ASSUME NEW o \in Object, MoveToZombies(o) PROVE LinkInv' /\ Lists!Next
  BY <1>2, MoveToZombiesStep DEF Lists!Next
<1>3. ASSUME NEW q \in SchedQueue, RotateQueue(q) PROVE LinkInv' /\ Lists!Next
  BY <1>3, RotateQueueStep DEF Lists!Next
<1>4. ASSUME NEW o \in Object, NEW w \in WaitingQueue, Enqueue(o, w)
      PROVE  LinkInv' /\ Lists!Next
  BY <1>4, EnqueueStep DEF Lists!Next
<1>5. ASSUME NEW w \in WaitingQueue, Dequeue(w) PROVE LinkInv' /\ Lists!Next
  BY <1>5, DequeueStep DEF Lists!Next
<1>6. CASE UNCHANGED vars
  BY <1>6 DEF LinkInv, vars, Contents
<1> QED
  BY <1>1, <1>2, <1>3, <1>4, <1>5, <1>6 DEF Next

-----------------------------------------------------------------------------
(* The lists at the start *)

\* A sequence of n different elements has n elements.
LEMMA CountLemma ==
  ASSUME NEW s \in Seq(Link), \A i, j \in 1 .. Len(s) : s[i] = s[j] => i = j
  PROVE  Cardinality(On(s)) = Len(s)
<1> PICK n : n = Len(s)
  OBVIOUS
<1> DEFINE f == [i \in 1 .. n |-> s[i]]
           I == 1 .. n
           T == On(s)
<1> n \in Nat
  OBVIOUS
<1>1. f \in Surjection(I, T)
  BY DEF Surjection, On
<1>2. f \in Injection(I, T)
  BY <1>1 DEF Injection, IsInjective, Surjection
<1>3. IsFiniteSet(I) /\ Cardinality(I) = n
  <2>1. 1 \in Int /\ n \in Int
    OBVIOUS
  <2>2. IsFiniteSet(1 .. n) /\ Cardinality(1 .. n) = IF 1 > n THEN 0 ELSE n - 1 + 1
    BY <2>1, FS_Interval
  <2> QED
    BY <2>2
<1> HIDE DEF f, I, T
<1>4. Cardinality(T) = n
  BY <1>1, <1>2, <1>3, FS_Surjection
<1> QED
  BY <1>4 DEF T

\* What well formed lists are, for a heap that is not a variable.
WellFormed(h) ==
  /\ \A l \in Link : h.queue[l] \in AllQueues
  /\ \A q \in AllQueues :
       LET n == h.nitems[q]
           s == Links(h, q)
       IN  /\ {l \in Link : h.queue[l] = q} = {s[i] : i \in 1 .. n}
           /\ Cardinality({s[i] : i \in 1 .. n}) = n
           /\ IF n = 0 THEN h.first[q] = NULL /\ h.last[q] = NULL
              ELSE /\ h.last[q] = s[n] /\ h.next[s[n]] = NULL
                   /\ h.prev[s[1]] = NULL
                   /\ \A i \in 2 .. n : h.prev[s[i]] = s[i - 1]

\* Lists that Complete describes are well formed.
LEMMA WellFormedLemma ==
  ASSUME NEW h, NEW c, Complete(h, c)
  PROVE  WellFormed(h)
<1>1. Holds(h, c, {})
  BY DEF Complete
<1>2. \A l \in Link : h.queue[l] \in AllQueues
  BY <1>1 DEF Holds
<1>3. ASSUME NEW q \in AllQueues, NEW n, n = h.nitems[q], NEW s, s = Links(h, q)
      PROVE  /\ {l \in Link : h.queue[l] = q} = {s[i] : i \in 1 .. n}
             /\ Cardinality({s[i] : i \in 1 .. n}) = n
             /\ IF n = 0 THEN h.first[q] = NULL /\ h.last[q] = NULL
                ELSE /\ h.last[q] = s[n] /\ h.next[s[n]] = NULL
                     /\ h.prev[s[1]] = NULL
                     /\ \A i \in 2 .. n : h.prev[s[i]] = s[i - 1]
  <2>1. IsList(h, q, c[q])
    BY <1>1, HoldsLemma
  <2>2. s = c[q]
    BY <1>3, <2>1, WalkLemma
  <2>3. /\ s \in Seq(Link) /\ IsList(h, q, s)
        /\ \A l \in Link : h.queue[l] = q => l \in On(s)
        /\ \A l \in On(s) : l \in Link /\ h.queue[l] = q
    BY <1>1, <2>2, HoldsLemma
  <2>4. n \in Nat /\ n = Len(s)
    BY <1>3, <2>3 DEF IsList
  <2>5. On(s) = {s[i] : i \in 1 .. n}
    BY <2>4 DEF On
  <2>6. {l \in Link : h.queue[l] = q} = On(s)
    BY <2>3
  <2>7. Cardinality({s[i] : i \in 1 .. n}) = n
    <3>1. \A i, j \in 1 .. Len(s) : s[i] = s[j] => i = j
      BY <2>3 DEF IsList
    <3>2. Cardinality(On(s)) = Len(s)
      BY <3>1, <2>3, CountLemma
    <3> QED
      BY <3>2, <2>4, <2>5
  <2>8. /\ h.first[q] = At(s, 1) /\ h.last[q] = At(s, n)
        /\ \A i \in 1 .. n : h.prev[s[i]] = At(s, i - 1) /\ h.next[s[i]] = At(s, i + 1)
    BY <2>3, <2>4 DEF IsList
  <2>9. CASE n = 0
    BY <2>4, <2>5, <2>6, <2>7, <2>8, <2>9 DEF At
  <2>10. CASE n > 0
    <3>1. 1 \in 1 .. n /\ n \in 1 .. n
      BY <2>4, <2>10
    <3>2. h.last[q] = s[n] /\ h.next[s[n]] = NULL /\ h.prev[s[1]] = NULL
      BY <3>1, <2>4, <2>8 DEF At
    <3>3. \A i \in 2 .. n : h.prev[s[i]] = s[i - 1]
      BY <2>4, <2>8 DEF At
    <3> QED
      BY <3>2, <3>3, <2>5, <2>6, <2>7, <2>10
  <2> QED
    BY <2>4, <2>9, <2>10
<1> QED
  BY <1>2, <1>3 DEF WellFormed

\* The kernel's queues are empty when all links are in the pool.
NoContents == [q \in QueueName |-> <<>>]

\* The first i links are free, the others nowhere yet.
Pooled(h, i) ==
  \E c : Holds(h, c, (i + 1) .. QUEUE_MAX_LINKS) /\ \A q \in QueueName : c[q] = <<>>

\* One more link gets into the pool.
LEMMA PoolStep ==
  ASSUME NEW h, NEW i \in 1 .. QUEUE_MAX_LINKS, Pooled(h, i - 1),
         NEW g, g = AQueueInsertLast(h, freeLinks, i)
  PROVE  Pooled(g, i)
<1> DEFINE N == QUEUE_MAX_LINKS
<1>1. N \in Nat /\ i \in Link
  BY LinksAssumption DEF Link
<1> PICK out : out = i .. N
  OBVIOUS
<1>2. (i - 1) + 1 = i
  BY <1>1 DEF Link
<1>3. PICK c : Holds(h, c, out) /\ \A q \in QueueName : c[q] = <<>>
  BY <1>2 DEF Pooled
<1>4. i \in out /\ out \ {i} = (i + 1) .. N
  BY <1>1 DEF Link
<1>5. freeLinks \in AllQueues
  BY NamesLemma
<1> PICK d : d = Put(c, freeLinks, Append(c[freeLinks], i))
  OBVIOUS
<1>6. Holds(g, d, out \ {i})
  BY <1>1, <1>3, <1>4, <1>5, InsertLastLemma
<1>7. \A q \in QueueName : d[q] = <<>>
  BY <1>3, NamesLemma DEF Put, Holds
<1> QED
  BY <1>4, <1>6, <1>7 DEF Pooled

\* Before the first, no link is anywhere.
LEMMA EmptyHeapLemma == EmptyHeap \in Heap /\ Pooled(EmptyHeap, 0)
<1>1. EmptyHeap \in Heap
  BY DEF EmptyHeap, Heap, LinkOrNull
<1> PICK c : c = [q \in AllQueues |-> <<>>]
  OBVIOUS
<1>2. /\ c \in [AllQueues -> Seq(Link)]
      /\ \A q \in AllQueues : c[q] = <<>> /\ Len(c[q]) = 0 /\ On(c[q]) = {}
  BY DEF On
<1>3. ASSUME NEW q \in AllQueues PROVE IsList(EmptyHeap, q, c[q])
  BY <1>2 DEF IsList, EmptyHeap, At
<1>4. (0 + 1) .. QUEUE_MAX_LINKS = Link
  BY DEF Link
<1>5. Holds(EmptyHeap, c, Link)
  BY <1>1, <1>2, <1>3 DEF Holds
<1>6. \A q \in QueueName : c[q] = <<>>
  BY <1>2, NamesLemma
<1> QED
  BY <1>1, <1>4, <1>5, <1>6 DEF Pooled

\* The recursion of PoolHeap.
Pools(f) ==
  f = [l \in 0 .. QUEUE_MAX_LINKS |->
         IF l = 0 THEN EmptyHeap ELSE AQueueInsertLast(f[l - 1], freeLinks, l)]

\* AQueueModuleInit puts all links in the pool.
LEMMA PoolLemma == PoolHeap \in Heap /\ Good(PoolHeap, NoContents)
<1> DEFINE N == QUEUE_MAX_LINKS
<1>1. N \in Nat /\ N \in 0 .. N
  BY LinksAssumption
<1>2. \E f \in [0 .. N -> Heap] : Pools(f)
  <2> DEFINE F == [z \in Heap \X (1 .. N) |-> AQueueInsertLast(z[1], freeLinks, z[2])]
  <2>1. \A x \in Heap, i \in 1 .. N : F[<<x, i>>] = AQueueInsertLast(x, freeLinks, i)
    OBVIOUS
  <2>2. ASSUME NEW x \in Heap, NEW i \in 1 .. N PROVE F[<<x, i>>] \in Heap
    <3> PICK g : g = AQueueInsertLast(x, freeLinks, i)
      OBVIOUS
    <3> PICK after : after = x.last[freeLinks]
      OBVIOUS
    <3> PICK n : n = IF after = NULL THEN NULL ELSE x.next[after]
      OBVIOUS
    <3>1. freeLinks \in AllQueues /\ i \in Link
      BY NamesLemma DEF Link
    <3>2. after \in LinkOrNull
      BY <3>1 DEF Heap
    <3>3. g = AQueueInsertAfter(x, freeLinks, after, i)
      BY DEF AQueueInsertLast
    <3>4. InsertedAfter(x, g, freeLinks, after, i, n)
      BY <3>1, <3>2, <3>3, InsertAfterFields
    <3> QED
      BY <3>4, <2>1 DEF InsertedAfter
  <2>3. EmptyHeap \in Heap
    BY EmptyHeapLemma
  <2> HIDE DEF F
  <2>4. PICK f \in [0 .. N -> Heap] : Q!Iterates(f, N, EmptyHeap, F)
    BY <1>1, <2>2, <2>3, Q!Iteration DEF Q!Closed
  <2>5. [i \in 0 .. N |-> IF i = 0 THEN EmptyHeap ELSE F[<<f[i - 1], i>>]] =
        [i \in 0 .. N |-> IF i = 0 THEN EmptyHeap
                          ELSE AQueueInsertLast(f[i - 1], freeLinks, i)]
    BY <1>1, <2>1
  <2> QED
    BY <2>4, <2>5 DEF Q!Iterates, Pools
<1> DEFINE pool[l \in 0 .. N] ==
             IF l = 0 THEN EmptyHeap ELSE AQueueInsertLast(pool[l - 1], freeLinks, l)
<1>3. Pools(pool)
  BY <1>2 DEF Pools
<1>4. PoolHeap = pool[N]
  BY DEF PoolHeap
<1> HIDE DEF pool
<1>5. /\ pool[0] = EmptyHeap
      /\ \A l \in 1 .. N : pool[l] = AQueueInsertLast(pool[l - 1], freeLinks, l)
  BY <1>1, <1>3 DEF Pools
<1> DEFINE A == {i \in 0 .. N : Pooled(pool[i], i)}
<1>6. 0 \in A
  BY <1>1, <1>5, EmptyHeapLemma
<1>7. \A i \in 1 .. N : i - 1 \in A => i \in A
  <2> SUFFICES ASSUME NEW i \in 1 .. N, i - 1 \in A PROVE Pooled(pool[i], i)
    BY <1>1
  <2> QED
    BY <1>5, PoolStep
<1> HIDE DEF A
<1>8. N \in A
  BY <1>1, <1>6, <1>7, Q!IntervalInduction
<1>9. Pooled(PoolHeap, N)
  BY <1>4, <1>8 DEF A
<1>10. (N + 1) .. N = {}
  BY <1>1
<1>11. PICK c : Complete(PoolHeap, c) /\ \A q \in QueueName : c[q] = <<>>
  BY <1>9, <1>10 DEF Pooled, Complete
<1>12. ContentsOf(PoolHeap, c) = NoContents
  <2>1. \A h : ObjectsAt(h, <<>>) = <<>>
    BY DEF ObjectsAt
  <2> QED
    BY <2>1, <1>11 DEF ContentsOf, NoContents
<1>13. PoolHeap \in Heap
  BY <1>11 DEF Complete, Holds
<1> QED
  BY <1>11, <1>12, <1>13 DEF Good

\* An object is on a queue when its link is.
LEMMA ContainedLemma ==
  ASSUME NEW h, NEW C, Good(h, C), NEW l \in Link, NEW q \in QueueName, h.queue[l] = q
  PROVE  \E i \in 1 .. Len(C[q]) : C[q][i] = h.object[l]
<1>1. PICK c : Complete(h, c) /\ C = ContentsOf(h, c)
  BY DEF Good
<1> PICK s : s = c[q]
  OBVIOUS
<1>2. q \in AllQueues
  BY NamesLemma
<1>3. Len(s) \in Nat /\ l \in On(s)
  BY <1>1, <1>2, SomeLinkLemma
<1>4. C[q] = ObjectsAt(h, s)
  BY <1>1 DEF ContentsOf
<1>5. Len(ObjectsAt(h, s)) = Len(s) /\ \A i \in 1 .. Len(s) : ObjectsAt(h, s)[i] = h.object[s[i]]
  BY <1>3 DEF ObjectsAt
<1>6. PICK i \in 1 .. Len(s) : s[i] = l
  BY <1>3 DEF On
<1> QED
  BY <1>4, <1>5, <1>6

\* The free queue has been filled with the last i objects of InitialOrder.
Filled(i) ==
  [q \in QueueName |-> IF q = FreeQueue
                         THEN SubSeq(InitialOrder, Len(InitialOrder) + 1 - i, Len(InitialOrder))
                         ELSE <<>>]

\* Before all objects have a link there is a free one.
LEMMA FillingLemma ==
  ASSUME NEW h, NEW i \in 1 .. Len(InitialOrder), Good(h, Filled(i - 1))
  PROVE  \E x \in Link : h.queue[x] = freeLinks
<1> DEFINE n == Len(InitialOrder)
<1> SUFFICES ASSUME \A x \in Link : h.queue[x] # freeLinks PROVE FALSE
  OBVIOUS
<1>1. PICK c : Complete(h, c) /\ Filled(i - 1) = ContentsOf(h, c)
  BY DEF Good
<1> PICK s : s = c[FreeQueue]
  OBVIOUS
<1>2. n \in Nat /\ QUEUE_MAX_LINKS \in Nat /\ QUEUE_MAX_LINKS >= 2 * n
  BY LinksAssumption, FS_CardinalityType
<1>3. FreeQueue \in QueueName /\ FreeQueue \in AllQueues
  BY NamesLemma, LinksAssumption
<1>4. /\ Len(s) \in Nat
      /\ \A k \in 1 .. Len(s) : s[k] \in Link
      /\ \A k, m \in 1 .. Len(s) : s[k] = s[m] => k = m
  BY <1>1, <1>3, SomeLinkLemma
<1>5. Len(s) = i - 1
  <2>1. ObjectsAt(h, s) = SubSeq(InitialOrder, n + 1 - (i - 1), n)
    BY <1>1, <1>3 DEF ContentsOf, Filled
  <2>2. Len(ObjectsAt(h, s)) = Len(s)
    BY <1>4 DEF ObjectsAt
  <2>3. Len(SubSeq(InitialOrder, n + 1 - (i - 1), n)) = i - 1
    BY <1>2, LinksAssumption, SMTT(30)
  <2> QED
    BY <2>1, <2>2, <2>3
<1>6. ASSUME NEW l \in Link PROVE l \in On(s)
  <2>1. h.queue[l] \in QueueName
    BY <1>1, NamesLemma DEF Complete, Holds
  <2>2. h.queue[l] = FreeQueue
    <3> SUFFICES ASSUME h.queue[l] # FreeQueue PROVE FALSE
      OBVIOUS
    <3>1. Filled(i - 1)[h.queue[l]] = <<>>
      BY <2>1 DEF Filled
    <3>2. \E j \in 1 .. Len(<<>>) : <<>>[j] = h.object[l]
      BY <2>1, <3>1, ContainedLemma
    <3> QED
      BY <3>2
  <2> QED
    BY <2>2, <1>1, <1>3, SomeLinkLemma
<1>7. Link = {s[k] : k \in 1 .. Len(s)}
  BY <1>4, <1>6 DEF On
<1>8. Cardinality(Link) = Len(s)
  <2>1. s \in Seq(Link)
    BY <1>1, <1>3 DEF Complete, Holds
  <2>2. Cardinality(On(s)) = Len(s)
    BY <2>1, <1>4, CountLemma
  <2> QED
    BY <2>2, <1>7 DEF On
<1>9. Cardinality(Link) = QUEUE_MAX_LINKS
  <2>1. 1 \in Int /\ QUEUE_MAX_LINKS \in Int
    BY <1>2
  <2>2. Cardinality(1 .. QUEUE_MAX_LINKS)
          = IF 1 > QUEUE_MAX_LINKS THEN 0 ELSE QUEUE_MAX_LINKS - 1 + 1
    BY <2>1, FS_Interval
  <2> QED
    BY <2>2, <1>2 DEF Link
<1> QED
  BY <1>2, <1>5, <1>8, <1>9

\* The loop of ProcessModuleInit puts one more object first.
LEMMA FillStep ==
  ASSUME NEW h, NEW i \in 1 .. Len(InitialOrder), Good(h, Filled(i - 1)),
         NEW o, o = InitialOrder[Len(InitialOrder) + 1 - i],
         NEW a, a = AQueueAllocLink(h, o), NEW l, l = h.first[freeLinks],
         NEW g, g = AQueueInsertFirst(a, FreeQueue, l)
  PROVE  g \in Heap /\ Good(g, Filled(i))
<1> DEFINE n == Len(InitialOrder)
<1>1. n \in Nat /\ InitialOrder \in Seq(Object) /\ FreeQueue \in QueueName
  BY LinksAssumption, NamesLemma
<1>2. o \in Object
  BY <1>1
<1> PICK C : C = Filled(i - 1)
  OBVIOUS
<1>3. PICK x \in Link : h.queue[x] = freeLinks
  BY FillingLemma
<1>4. l \in Link /\ a \in Heap /\ Reassigned(h, a, l, o) /\ Spare(a, l, C)
  BY <1>2, <1>3, AllocStep
<1>5. a.object[l] = o
  BY <1>4 DEF Reassigned, Good, Complete, Holds, Heap
<1>6. g \in Heap /\ Good(g, AddedFirst(C, FreeQueue, o))
  BY <1>1, <1>4, <1>5, InsertFirstStep
<1>7. AddedFirst(C, FreeQueue, o) = Filled(i)
  <2> PICK u : u = SubSeq(InitialOrder, n + 1 - (i - 1), n)
    OBVIOUS
  <2> PICK v : v = SubSeq(InitialOrder, n + 1 - i, n)
    OBVIOUS
  <2>1. <<o>> \o u = v
    <3>1. /\ u \in Seq(Object) /\ Len(u) = i - 1
          /\ \A k \in 1 .. i - 1 : u[k] = InitialOrder[n + 1 - i + k]
      BY <1>1
    <3>2. v \in Seq(Object) /\ Len(v) = i /\ \A k \in 1 .. i : v[k] = InitialOrder[n - i + k]
      BY <1>1
    <3> PICK w : w = <<o>> \o u
      OBVIOUS
    <3>3. w \in Seq(Object) /\ Len(w) = i /\ w[1] = o /\ \A k \in 2 .. i : w[k] = u[k - 1]
      BY <1>1, <1>2, <3>1
    <3>4. \A k \in 1 .. i : w[k] = v[k]
      BY <1>1, <3>1, <3>2, <3>3
    <3> QED
      BY <3>2, <3>3, <3>4
  <2>2. C[FreeQueue] = u
    BY <1>1 DEF Filled
  <2>3. AddedFirst(C, FreeQueue, o) = [C EXCEPT ![FreeQueue] = v]
    BY <2>1, <2>2 DEF AddedFirst, Changed
  <2> QED
    BY <2>3, <1>1 DEF Filled
<1> QED
  BY <1>6, <1>7

\* The recursion of InitialHeap.
FillHeap(h, i) ==
  AQueueInsertFirst(AQueueAllocLink(h, InitialOrder[Len(InitialOrder) + 1 - i]), FreeQueue,
                    h.first[freeLinks])

Fills(f) ==
  f = [i \in 0 .. Len(InitialOrder) |-> IF i = 0 THEN PoolHeap ELSE FillHeap(f[i - 1], i)]

\* ProcessModuleInit leaves all objects on the free queue, in InitialOrder.
LEMMA InitialHeapLemma == Good(InitialHeap, Filled(Len(InitialOrder)))
<1> DEFINE n == Len(InitialOrder)
<1>1. n \in Nat /\ n \in 0 .. n /\ InitialOrder \in Seq(Object)
  BY LinksAssumption
<1>2. Good(PoolHeap, Filled(0)) /\ PoolHeap \in Heap
  <2>1. SubSeq(InitialOrder, n + 1 - 0, n) = <<>>
    BY <1>1
  <2>2. Filled(0) = NoContents
    BY <2>1 DEF Filled, NoContents
  <2> QED
    BY <2>2, PoolLemma
<1>3. ASSUME NEW h, NEW i \in 1 .. n, Good(h, Filled(i - 1))
      PROVE  FillHeap(h, i) \in Heap /\ Good(FillHeap(h, i), Filled(i))
  <2> PICK g : g = FillHeap(h, i)
    OBVIOUS
  <2> PICK o : o = InitialOrder[n + 1 - i]
    OBVIOUS
  <2> PICK a : a = AQueueAllocLink(h, o)
    OBVIOUS
  <2> PICK l : l = h.first[freeLinks]
    OBVIOUS
  <2>1. g = AQueueInsertFirst(a, FreeQueue, l)
    BY DEF FillHeap
  <2>2. g \in Heap /\ Good(g, Filled(i))
    BY <2>1, <1>3, FillStep
  <2> QED
    BY <2>2
<1>4. \E f : Fills(f)
  <2> DEFINE F == [z \in Heap \X (1 .. n) |->
                     IF FillHeap(z[1], z[2]) \in Heap THEN FillHeap(z[1], z[2]) ELSE z[1]]
  <2>1. \A x \in Heap, i \in 1 .. n :
          F[<<x, i>>] = IF FillHeap(x, i) \in Heap THEN FillHeap(x, i) ELSE x
    OBVIOUS
  <2>2. \A x \in Heap, i \in 1 .. n : F[<<x, i>>] \in Heap
    BY <2>1
  <2> HIDE DEF F
  <2>3. PICK f \in [0 .. n -> Heap] : Q!Iterates(f, n, PoolHeap, F)
    BY <1>1, <1>2, <2>2, Q!Iteration DEF Q!Closed
  <2>4. /\ f[0] = PoolHeap /\ \A i \in 1 .. n : f[i] = F[<<f[i - 1], i>>]
    <3> DEFINE v == [i \in 0 .. n |-> IF i = 0 THEN PoolHeap ELSE F[<<f[i - 1], i>>]]
    <3>1. v[0] = PoolHeap /\ \A i \in 1 .. n : v[i] = F[<<f[i - 1], i>>]
      BY <1>1
    <3> HIDE DEF v
    <3>2. f = v
      BY <2>3 DEF Q!Iterates, v
    <3> QED
      BY <3>1, <3>2
  <2> DEFINE A == {i \in 0 .. n : Good(f[i], Filled(i))}
  <2>5. 0 \in A
    BY <1>1, <1>2, <2>4
  <2>6. ASSUME NEW i \in 1 .. n, i - 1 \in A
        PROVE  i \in A /\ f[i] = FillHeap(f[i - 1], i)
    <3>1. i - 1 \in 0 .. n /\ i \in 0 .. n
      BY <1>1
    <3>2. FillHeap(f[i - 1], i) \in Heap /\ Good(FillHeap(f[i - 1], i), Filled(i))
      BY <2>6, <1>3
    <3>3. f[i] = FillHeap(f[i - 1], i)
      BY <3>1, <3>2, <2>1, <2>4
    <3> QED
      BY <3>1, <3>2, <3>3
  <2> HIDE DEF A
  <2>7. 0 .. n \subseteq A
    BY <1>1, <2>5, <2>6, Q!IntervalInduction
  <2>8. \A i \in 1 .. n : f[i] = FillHeap(f[i - 1], i)
    <3> SUFFICES ASSUME NEW i \in 1 .. n PROVE f[i] = FillHeap(f[i - 1], i)
      OBVIOUS
    <3>1. i - 1 \in 0 .. n
      BY <1>1
    <3> QED
      BY <3>1, <2>6, <2>7
  <2>9. f = [i \in 0 .. n |-> IF i = 0 THEN PoolHeap ELSE FillHeap(f[i - 1], i)]
    <3> DEFINE v == [i \in 0 .. n |-> IF i = 0 THEN PoolHeap ELSE FillHeap(f[i - 1], i)]
    <3>1. \A i \in 0 .. n : f[i] = v[i]
      BY <1>1, <2>4, <2>8
    <3>2. f = [i \in 0 .. n |-> f[i]] /\ v = [i \in 0 .. n |-> v[i]]
      OBVIOUS
    <3> HIDE DEF v
    <3>3. f = v
      BY <3>1, <3>2
    <3> QED
      BY <3>3 DEF v
  <2> QED
    BY <2>9 DEF Fills
<1> DEFINE fill[i \in 0 .. n] ==
             IF i = 0 THEN PoolHeap ELSE
               AQueueInsertFirst(AQueueAllocLink(fill[i - 1], InitialOrder[n + 1 - i]), FreeQueue,
                                 fill[i - 1].first[freeLinks])
<1>5. Fills(fill)
  BY <1>4 DEF Fills, FillHeap
<1>6. InitialHeap = fill[n]
  BY DEF InitialHeap
<1> HIDE DEF fill
<1>7. fill[0] = PoolHeap /\ \A i \in 1 .. n : fill[i] = FillHeap(fill[i - 1], i)
  BY <1>1, <1>5 DEF Fills
<1> DEFINE A == {i \in 0 .. n : Good(fill[i], Filled(i))}
<1>8. 0 \in A
  BY <1>1, <1>2, <1>7
<1>9. ASSUME NEW i \in 1 .. n, i - 1 \in A PROVE i \in A
  <2>1. i \in 0 .. n
    BY <1>1
  <2>2. Good(FillHeap(fill[i - 1], i), Filled(i))
    BY <1>3, <1>9
  <2> QED
    BY <2>1, <2>2, <1>7
<1> HIDE DEF A
<1>10. n \in A
  BY <1>1, <1>8, <1>9, Q!IntervalInduction
<1> QED
  BY <1>6, <1>10 DEF A

\* No two places of InitialOrder are for the same object.
LEMMA OrderLemma ==
  \A i, j \in 1 .. Len(InitialOrder) : InitialOrder[i] = InitialOrder[j] => i = j
<1> DEFINE n == Len(InitialOrder)
           f == [i \in 1 .. n |-> InitialOrder[i]]
           I == 1 .. n
<1>1. /\ n \in Nat /\ n \in Int /\ 1 \in Int /\ n = Cardinality(Object)
      /\ \A i \in 1 .. n : InitialOrder[i] \in Object
      /\ Object = {InitialOrder[i] : i \in 1 .. n}
  BY LinksAssumption
<1>2. f \in Surjection(I, Object)
  BY <1>1 DEF Surjection
<1>3. IsFiniteSet(I) /\ Cardinality(I) = n
  <2>1. IsFiniteSet(1 .. n) /\ Cardinality(1 .. n) = IF 1 > n THEN 0 ELSE n - 1 + 1
    BY <1>1, FS_Interval
  <2> QED
    BY <2>1, <1>1
<1> HIDE DEF f, I, n
<1>4. f \in Injection(I, Object)
  BY <1>1, <1>2, <1>3, FS_Surjection
<1> QED
  BY <1>4 DEF f, I, n, Injection, IsInjective

\* At the start the PCBs have the links that they are on.
LEMMA InitOwnersLemma ==
  ASSUME NEW h, Good(h, Filled(Len(InitialOrder))),
         NEW link, link = [o \in Object |->
                             CHOOSE l \in Link : h.queue[l] = FreeQueue /\ h.object[l] = o]
  PROVE  OwnersOK(h, link)
<1> DEFINE n == Len(InitialOrder)
           C == Filled(n)
<1>1. n \in Nat /\ InitialOrder \in Seq(Object) /\ FreeQueue \in SchedQueue
  BY LinksAssumption
<1>2. /\ FreeQueue \in QueueName /\ FreeQueue \in AllQueues /\ FreeQueue \notin WaitingQueue
      /\ \A q \in SchedQueue \union WaitingQueue : q \in QueueName
  BY <1>1, NamesLemma
<1>3. PICK c : Complete(h, c) /\ C = ContentsOf(h, c)
  BY DEF Good
<1> PICK s : s = c[FreeQueue]
  OBVIOUS
<1>4. /\ Len(s) \in Nat
      /\ \A k \in 1 .. Len(s) : s[k] \in Link /\ h.queue[s[k]] = FreeQueue
      /\ \A l \in Link : h.queue[l] = FreeQueue => l \in On(s)
  BY <1>2, <1>3, SomeLinkLemma
<1>5. Len(s) = n /\ \A k \in 1 .. n : h.object[s[k]] = InitialOrder[k]
  <2>1. SubSeq(InitialOrder, n + 1 - n, n) = InitialOrder
    BY <1>1
  <2>2. ObjectsAt(h, s) = InitialOrder
    BY <2>1, <1>2, <1>3 DEF ContentsOf, Filled
  <2> PICK u : u = ObjectsAt(h, s)
    OBVIOUS
  <2>3. Len(u) = Len(s) /\ \A k \in 1 .. Len(s) : u[k] = h.object[s[k]]
    BY <1>4 DEF ObjectsAt
  <2> QED
    BY <2>2, <2>3
<1>6. ASSUME NEW q \in QueueName, q # FreeQueue, NEW l \in Link PROVE h.queue[l] # q
  <2> SUFFICES ASSUME h.queue[l] = q PROVE FALSE
    OBVIOUS
  <2>1. C[q] = <<>>
    BY <1>6 DEF Filled
  <2>2. \E j \in 1 .. Len(C[q]) : C[q][j] = h.object[l]
    BY <1>6, ContainedLemma
  <2> QED
    BY <2>1, <2>2
<1>7. \A l \in Link : h.queue[l] \in SchedQueue => h.queue[l] = FreeQueue
  BY <1>2, <1>6
<1>8. \A l \in Link : h.queue[l] \notin WaitingQueue
  BY <1>2, <1>6
<1>9. \A l, m \in Link : /\ h.queue[l] = FreeQueue /\ h.queue[m] = FreeQueue
                         /\ h.object[l] = h.object[m]
                         => l = m
  <2> SUFFICES ASSUME NEW l \in Link, NEW m \in Link,
                      h.queue[l] = FreeQueue, h.queue[m] = FreeQueue, h.object[l] = h.object[m]
               PROVE  l = m
    OBVIOUS
  <2>1. PICK i \in 1 .. n, j \in 1 .. n : l = s[i] /\ m = s[j]
    BY <1>4, <1>5 DEF On
  <2> QED
    BY <2>1, <1>5, OrderLemma
<1>10. ASSUME NEW o \in Object
       PROVE  link[o] \in Link /\ h.queue[link[o]] = FreeQueue /\ h.object[link[o]] = o
  <2>1. PICK k \in 1 .. n : InitialOrder[k] = o
    BY LinksAssumption
  <2>2. \E l \in Link : h.queue[l] = FreeQueue /\ h.object[l] = o
    BY <2>1, <1>4, <1>5
  <2>3. link[o] = CHOOSE l \in Link : h.queue[l] = FreeQueue /\ h.object[l] = o
    OBVIOUS
  <2> QED
    BY <2>2, <2>3
<1>11. link \in [Object -> Link]
  BY <1>10
<1>12. PCBLinksOK(h, link)
  BY <1>1, <1>10, <1>11 DEF PCBLinksOK
<1>13. SchedLinksOK(h, link)
  <2> SUFFICES ASSUME NEW l \in Link, h.queue[l] = FreeQueue
               PROVE  h.object[l] \in Object /\ link[h.object[l]] = l
    BY <1>7 DEF SchedLinksOK
  <2>1. PICK k \in 1 .. n : l = s[k]
    BY <1>4, <1>5 DEF On
  <2>2. h.object[l] = InitialOrder[k] /\ InitialOrder[k] \in Object
    BY <2>1, <1>1, <1>5
  <2> QED
    BY <2>2, <1>9, <1>10
<1>14. WaitingLinksOK(h)
  BY <1>8 DEF WaitingLinksOK
<1> QED
  BY <1>12, <1>13, <1>14 DEF OwnersOK

\* The initial states have the invariant and are those of the sequences.
LEMMA InitLemma ==
  ASSUME Init
  PROVE  LinkInv /\ Lists!Init
<1> DEFINE n == Len(InitialOrder)
<1> PICK h, link : h = heap /\ link = pcbLink
  OBVIOUS
<1>1. Good(h, Filled(n))
  BY InitialHeapLemma DEF Init
<1>2. link = [o \in Object |->
                CHOOSE l \in Link : h.queue[l] = FreeQueue /\ h.object[l] = o]
  BY DEF Init
<1>3. OwnersOK(h, link)
  BY <1>1, <1>2, InitOwnersLemma
<1>4. LinkInv
  BY <1>1, <1>3 DEF LinkInv, Init
<1>5. Contents = Filled(n)
  BY <1>1, MappingLemma DEF Contents
<1>6. Filled(n) = [q \in QueueName |-> IF q = FreeQueue THEN InitialOrder ELSE <<>>]
  <2>1. SubSeq(InitialOrder, n + 1 - n, n) = InitialOrder
    BY LinksAssumption
  <2> QED
    BY <2>1 DEF Filled
<1>7. Lists!Init
  BY <1>5, <1>6 DEF Lists!Init, Lists!QueueName, QueueName
<1> QED
  BY <1>4, <1>7

-----------------------------------------------------------------------------
(* Theorems *)

\* The lists are well formed, their links are for the right objects and no
\* list operation has failed, in every state.
THEOREM LinkInvariant == Spec => []LinkInv
<1>1. Init => LinkInv
  BY InitLemma
<1>2. LinkInv /\ [Next]_vars => LinkInv'
  BY NextStep
<1> QED
  BY <1>1, <1>2, PTL DEF Spec

\* The lists of os/queue.c stay well formed and lose no link, whatever the
\* kernel does with them.
THEOREM ListsStayWellFormed == Spec => []ListsWellFormed
<1>1. LinkInv => ListsWellFormed
  <2> SUFFICES ASSUME LinkInv PROVE ListsWellFormed
    OBVIOUS
  <2> PICK h : h = heap
    OBVIOUS
  <2>1. WellFormed(h)
    BY WellFormedLemma DEF LinkInv, Good
  <2>2. WellFormed(heap)
    BY <2>1
  <2> QED
    BY <2>2, Zenon DEF WellFormed, ListsWellFormed
<1> QED
  BY <1>1, LinkInvariant, PTL

\* The link that a PCB keeps is on a queue of the scheduler and is for that
\* PCB: the l field is up to date after every move.
THEOREM PCBLinksStayValid == Spec => []PCBLinksValid
<1>1. LinkInv => PCBLinksValid
  BY DEF LinkInv, OwnersOK, PCBLinksOK, PCBLinksValid
<1> QED
  BY <1>1, LinkInvariant, PTL

\* No list operation of the kernel fails, for any number of PCBs, as long as
\* there are two links for each: the FATAL ERROR exits are not reached.
THEOREM LinksNeverRunOut == Spec => []NeverFails
<1>1. LinkInv => NeverFails
  BY DEF LinkInv, NeverFails
<1> QED
  BY <1>1, LinkInvariant, PTL

\* The linked lists implement the queues that are sequences, which the other
\* modules take them for.
THEOREM ListsImplementSequences == Spec => ImplementsSequences
<1>1. Init => Lists!Init
  BY InitLemma
<1>2. LinkInv /\ [Next]_vars => [Lists!Next]_Contents
  BY NextStep
<1> QED
  BY <1>1, <1>2, LinkInvariant, PTL DEF Spec, ImplementsSequences, Lists!Spec

=============================================================================
