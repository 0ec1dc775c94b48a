---------------------------- MODULE LinkedQueue ----------------------------
(***************************************************************************)
(* The doubly linked lists and the pool of links of os/queue.c.  The       *)
(* memory they live in is one record, heap; an operation that the code     *)
(* calls in the middle of another is an operator from heap to heap.  What  *)
(* the kernel does with the lists is in the actions: it moves a PCB from   *)
(* one queue of the scheduler to another by the link in the PCB, rotates   *)
(* the run queue, and puts a PCB on a waiting queue and takes it off.      *)
(***************************************************************************)
EXTENDS Integers, Sequences, FiniteSets

CONSTANTS QUEUE_MAX_LINKS, SchedQueue, WaitingQueue, FreeQueue, Object,
          InitialOrder,
          zombieQueue,    \* the one of SchedQueue that is filled from the front
          freeLinks       \* the queue of the links that are in no other

QueueName == SchedQueue \union WaitingQueue

\* 400 links for 32 PCBs in the code, each of which ProcessModuleInit inserts
\* once.  No queue is at the address of the null pointer.
ASSUME LinksAssumption ==
  /\ QUEUE_MAX_LINKS \in Nat /\ IsFiniteSet(Object)
  /\ QUEUE_MAX_LINKS >= 2 * Cardinality(Object)
  /\ SchedQueue \intersect WaitingQueue = {}
  /\ FreeQueue \in SchedQueue /\ zombieQueue \in SchedQueue
  /\ freeLinks \notin QueueName /\ 0 \notin QueueName \union {freeLinks}
  /\ InitialOrder \in Seq(Object) /\ Len(InitialOrder) = Cardinality(Object)
  /\ Object = {InitialOrder[i] : i \in 1 .. Len(InitialOrder)}

VARIABLES heap,    \* the fields of the links and of the queues
          pcbLink, \* the link pointer l in each PCB
          fatal    \* a list operation failed, and its caller exited

vars == <<heap, pcbLink, fatal>>

Link == 1 .. QUEUE_MAX_LINKS
NULL == 0
AllQueues == QueueName \union {freeLinks}

\* The assignment f[x] = v, where x may be the null pointer.
SetIf(f, x, v) == IF x = NULL THEN f ELSE [f EXCEPT ![x] = v]

-----------------------------------------------------------------------------
(* The operations of queue.c *)

AQueueEmpty(h, q) == h.nitems[q] = 0

\* after is on q, or q is empty.
CanInsert(h, q, after) ==
  \/ after # NULL /\ h.queue[after] = q
  \/ after = NULL /\ h.first[q] = NULL /\ h.last[q] = NULL /\ AQueueEmpty(h, q)

AQueueInsertAfter(h, q, after, l) ==
  LET n == IF after = NULL THEN NULL ELSE h.next[after]
  IN  [h EXCEPT !.queue[l] = q,
                !.prev = SetIf([@ EXCEPT ![l] = after], n, l),
                !.next = SetIf([@ EXCEPT ![l] = n], after, l),
                !.first[q] = IF after = NULL THEN l ELSE @,
                !.last[q] = IF after = @ THEN l ELSE @,
                !.nitems[q] = @ + 1]

AQueueInsertBefore(h, q, before, l) ==
  LET p == IF before = NULL THEN NULL ELSE h.prev[before]
  IN  [h EXCEPT !.queue[l] = q,
                !.next = SetIf([@ EXCEPT ![l] = before], p, l),
                !.prev = SetIf([@ EXCEPT ![l] = p], before, l),
                !.last[q] = IF before = NULL THEN l ELSE @,
                !.first[q] = IF before = @ THEN l ELSE @,
                !.nitems[q] = @ + 1]

AQueueInsertLast(h, q, l) == AQueueInsertAfter(h, q, h.last[q], l)

AQueueInsertFirst(h, q, l) == AQueueInsertBefore(h, q, h.first[q], l)

\* Faulty: the queue's last pointer is not repaired.
UnlinkedKeepsLast(h, q, l) ==
  [h EXCEPT !.first[q] = IF @ = l THEN h.next[l] ELSE @,
            !.next = SetIf(@, h.prev[l], h.next[l]),
            !.prev = SetIf(@, h.next[l], h.prev[l]),
            !.nitems[q] = @ - 1]

\* Faulty: the neighbour behind the link still points back to it.
UnlinkedKeepsPrev(h, q, l) ==
  [h EXCEPT !.first[q] = IF @ = l THEN h.next[l] ELSE @,
            !.last[q] = IF @ = l THEN h.prev[l] ELSE @,
            !.next = SetIf(@, h.prev[l], h.next[l]),
            !.nitems[q] = @ - 1]

\* The part that AQueueAllocLink and AQueueRemove share: l out of queue q.
Unlinked(h, q, l) ==
  [h EXCEPT !.first[q] = IF @ = l THEN h.next[l] ELSE @,
            !.last[q] = IF @ = l THEN h.prev[l] ELSE @,
            !.next = SetIf(@, h.prev[l], h.next[l]),
            !.prev = SetIf(@, h.next[l], h.prev[l]),
            !.nitems[q] = @ - 1]

\* A link for obj, if there is one: the first of freeLinks.
CanAlloc(h) == ~AQueueEmpty(h, freeLinks) /\ h.first[freeLinks] # NULL

AQueueAllocLink(h, obj) ==
  LET l == h.first[freeLinks]
  IN  [Unlinked(h, freeLinks, l) EXCEPT !.next[l] = NULL, !.prev[l] = NULL,
                                        !.queue[l] = NULL, !.object[l] = obj]

\* The link keeps its object; freeLinks takes it, if it can.
CanRemove(h, l) == l # NULL /\ h.queue[l] # NULL

AQueueRemove(h, l) ==
  LET g == Unlinked(h, h.queue[l], l)
  IN  IF CanInsert(g, freeLinks, g.last[freeLinks])
        THEN AQueueInsertLast(g, freeLinks, l) ELSE g

CanMove(h, q, after, l) ==
  /\ l # NULL /\ h.queue[l] = q
  /\ after \notin {NULL, l} /\ h.queue[after] = q
  /\ h.last[q] # l

\* Faulty: the link that was last keeps that place in the queue's last pointer.
MovedButNotLast(h, q, after, l) ==
  LET next == SetIf(h.next, h.prev[l], h.next[l])
      prev == SetIf(h.prev, h.next[l], h.prev[l])
  IN  [h EXCEPT !.first[q] = IF @ = l THEN h.next[l] ELSE @,
                !.next = [next EXCEPT ![l] = next[after], ![after] = l],
                !.prev = SetIf([prev EXCEPT ![l] = after], next[after], l)]

AQueueMoveAfter(h, q, after, l) ==
  LET next == SetIf(h.next, h.prev[l], h.next[l])
      prev == SetIf(h.prev, h.next[l], h.prev[l])
  IN  [h EXCEPT !.first[q] = IF @ = l THEN h.next[l] ELSE @,
                !.last[q] = IF @ = after THEN l ELSE @,
                !.next = [next EXCEPT ![l] = next[after], ![after] = l],
                !.prev = SetIf([prev EXCEPT ![l] = after], next[after], l)]

-----------------------------------------------------------------------------
(* What the kernel does with them *)

\* AQueueModuleInit, AQueueInit of every queue, and the loop of
\* ProcessModuleInit that puts each PCB first on the free queue.
EmptyHeap ==
  [next |-> [l \in Link |-> NULL], prev |-> [l \in Link |-> NULL],
   queue |-> [l \in Link |-> NULL], object |-> [l \in Link |-> NULL],
   first |-> [q \in AllQueues |-> NULL], last |-> [q \in AllQueues |-> NULL],
   nitems |-> [q \in AllQueues |-> 0]]

PoolHeap ==
  LET h[l \in 0 .. QUEUE_MAX_LINKS] ==
        IF l = 0 THEN EmptyHeap ELSE AQueueInsertLast(h[l - 1], freeLinks, l)
  IN  h[QUEUE_MAX_LINKS]

\* The last object to be inserted is the first in InitialOrder.
InitialHeap ==
  LET n == Len(InitialOrder)
      h[i \in 0 .. n] ==
        IF i = 0 THEN PoolHeap ELSE
          AQueueInsertFirst(AQueueAllocLink(h[i - 1], InitialOrder[n + 1 - i]), FreeQueue,
                            h[i - 1].first[freeLinks])
  IN  h[n]

Init ==
  /\ heap = InitialHeap
  /\ pcbLink = [o \in Object |->
                  CHOOSE l \in Link : heap.queue[l] = FreeQueue /\ heap.object[l] = o]
  /\ fatal = FALSE

\* The list operations of a handler all succeed, or its caller prints FATAL
\* ERROR and exits.
Succeeds(ok, h) == fatal' = ~ok /\ heap' = IF ok THEN h ELSE heap

\* Faulty: the PCB does not learn of its new link.
MoveWithoutLink(o, to) ==
  LET r == AQueueRemove(heap, pcbLink[o])
      a == AQueueAllocLink(r, o)
      ok == CanRemove(heap, pcbLink[o]) /\ CanAlloc(r) /\ CanInsert(a, to, a.last[to])
  IN  /\ Succeeds(ok, AQueueInsertLast(a, to, r.first[freeLinks]))
      /\ UNCHANGED pcbLink

\* The PCB o leaves the queue of the scheduler that it is on and goes to the
\* end of another: ProcessSuspend, ProcessWakeup, ProcessFork and
\* ProcessFreeResources.
MoveToEnd(o, to) ==
  LET r == AQueueRemove(heap, pcbLink[o])
      a == AQueueAllocLink(r, o)
      l == r.first[freeLinks]
      ok == CanRemove(heap, pcbLink[o]) /\ CanAlloc(r) /\ CanInsert(a, to, a.last[to])
  IN  /\ Succeeds(ok, AQueueInsertLast(a, to, l))
      /\ pcbLink' = [pcbLink EXCEPT ![o] = IF ok THEN l ELSE @]

\* The PCB o goes to the front of the zombie queue: ProcessDestroy.
MoveToZombies(o) ==
  LET r == AQueueRemove(heap, pcbLink[o])
      a == AQueueAllocLink(r, o)
      l == r.first[freeLinks]
      ok == /\ CanRemove(heap, pcbLink[o]) /\ CanAlloc(r)
            /\ CanInsert(a, zombieQueue, a.first[zombieQueue])
  IN  /\ Succeeds(ok, AQueueInsertFirst(a, zombieQueue, l))
      /\ pcbLink' = [pcbLink EXCEPT ![o] = IF ok THEN l ELSE @]

\* ProcessSchedule does not look at what AQueueMoveAfter returns.
RotateQueue(q) ==
  /\ ~AQueueEmpty(heap, q)
  /\ heap' = IF CanMove(heap, q, heap.last[q], heap.first[q])
               THEN AQueueMoveAfter(heap, q, heap.last[q], heap.first[q]) ELSE heap
  /\ UNCHANGED <<pcbLink, fatal>>

\* The objects waiting somewhere: a process sleeps in one call at a time.
Waiting == {heap.object[l] : l \in {k \in Link : heap.queue[k] \in WaitingQueue}}

\* A process that is to sleep joins a waiting queue: SemWait, LockAcquire,
\* CondWait, CondSignal.
Enqueue(o, w) ==
  LET a == AQueueAllocLink(heap, o)
  IN  /\ o \notin Waiting
      /\ Succeeds(CanAlloc(heap) /\ CanInsert(a, w, a.last[w]),
                  AQueueInsertLast(a, w, heap.first[freeLinks]))
      /\ UNCHANGED pcbLink

\* The first one leaves it: SemSignal, LockRelease, CondWait, CondSignal.
Dequeue(w) ==
  LET l == heap.first[w]
  IN  /\ ~AQueueEmpty(heap, w)
      /\ Succeeds(CanRemove(heap, l), AQueueRemove(heap, l))
      /\ UNCHANGED pcbLink

Next ==
  /\ ~fatal
  /\ \/ \E o \in Object, to \in SchedQueue \ {zombieQueue} : MoveToEnd(o, to)
     \/ \E o \in Object : MoveToZombies(o)
     \/ \E q \in SchedQueue : RotateQueue(q)
     \/ \E o \in Object, w \in WaitingQueue : Enqueue(o, w)
     \/ \E w \in WaitingQueue : Dequeue(w)

Spec == Init /\ [][Next]_vars

-----------------------------------------------------------------------------
(* Properties *)

\* The links of queue q from front to back, as many as it says it has.
Links(h, q) ==
  LET Behind(l) == IF l = NULL THEN NULL ELSE h.next[l]
      at[i \in 1 .. h.nitems[q]] ==
        IF i = 1 THEN h.first[q] ELSE Behind(at[i - 1])
  IN  at

\* Every list is well formed and no link is lost: each link is on exactly one
\* queue, the one it names, which can be walked in both directions and ends
\* where its first and last pointers say.
ListsWellFormed ==
  /\ \A l \in Link : heap.queue[l] \in AllQueues
  /\ \A q \in AllQueues :
       LET n == heap.nitems[q]
           s == Links(heap, q)
       IN  /\ {l \in Link : heap.queue[l] = q} = {s[i] : i \in 1 .. n}
           /\ Cardinality({s[i] : i \in 1 .. n}) = n
           /\ IF n = 0 THEN heap.first[q] = NULL /\ heap.last[q] = NULL
              ELSE /\ heap.last[q] = s[n] /\ heap.next[s[n]] = NULL
                   /\ heap.prev[s[1]] = NULL
                   /\ \A i \in 2 .. n : heap.prev[s[i]] = s[i - 1]

\* The link that a PCB keeps is the one it is on in a queue of the scheduler.
PCBLinksValid ==
  \A o \in Object : /\ pcbLink[o] \in Link /\ heap.object[pcbLink[o]] = o
                    /\ heap.queue[pcbLink[o]] \in SchedQueue

\* With two links for each PCB the pool never runs empty when a link is
\* needed, and no other list operation of the kernel fails either.
NeverFails == ~fatal

\* The objects on queue q, first to last.
Objects(h, q) ==
  LET s == Links(h, q)
  IN  [i \in 1 .. h.nitems[q] |-> IF s[i] = NULL THEN NULL ELSE h.object[s[i]]]

Contents == [q \in QueueName |-> Objects(heap, q)]

Lists == INSTANCE Queues WITH content <- Contents

\* The linked lists behave as sequences.
ImplementsSequences == Lists!Spec

=============================================================================
