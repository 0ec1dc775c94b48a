---------------------------- MODULE SharedBuffer ----------------------------
(***************************************************************************)
(* The circular buffer that the producers and consumers of q2, q3 and q4   *)
(* share, and the code these programs have in common.  A character is the  *)
(* number it shows: a producer inserts 0, 1, ... ITEMS - 1, and a consumer *)
(* takes them in that order, leaving to others what it does not expect.    *)
(***************************************************************************)
EXTENDS UserPrograms

CONSTANTS Producer, Consumer,
          ITEMS,          \* how many characters each of them inserts or takes
          BUFFER_SIZE

\* There are 32 slots and at most 32 processes, one of which is makeprocs.
ASSUME BufferAssumption ==
  /\ ITEMS \in Nat /\ BUFFER_SIZE \in Nat \ {0}
  /\ IsFiniteSet(Producer) /\ IsFiniteSet(Consumer)
  /\ Cardinality(Producer) = Cardinality(Consumer)
  /\ Cardinality(Producer) < BUFFER_SIZE
  /\ Producer \intersect Consumer = {}
  /\ makeprocs \notin Producer \union Consumer
  /\ NoOwner \notin Producer \union Consumer

BufferProcess == Producer \union Consumer

Slot == 0 .. BUFFER_SIZE - 1
Nothing == -1             \* what a page that was never written holds

NextSlot(i) == (i + 1) % BUFFER_SIZE

Empty == page.w_idx = page.r_idx

\* Faulty: the index behind the last slot is not the first.
FullWithoutWrap == page.w_idx + 1 = page.r_idx

Full == NextSlot(page.w_idx) = page.r_idx

HeadChar == page.buffer[page.r_idx]

\* The character that p inserts or expects next.
Item(p) == counter[p]

HasMore(p) == counter[p] < ITEMS

\* makeprocs before it creates processes.  No program has used the page, so
\* it holds zeros; makeprocs of q2 relies on that for the two indices.
BufferInit ==
  /\ pc = Uncreated(BufferProcess)
  /\ counter = [p \in BufferProcess |-> 0]
  /\ page = [buffer |-> [i \in Slot |-> Nothing], w_idx |-> 0, r_idx |-> 0]
  /\ locks = [k \in {"lock"} |-> [owner |-> NoOwner, waiting |-> <<>>]]

ProcsCompleted == NewSemOf(CompletedCount(Cardinality(BufferProcess)))

\* A test of the buffer, of which nothing but the outcome is kept.
Test(p, from, to) ==
  /\ Step(p, from, to)
  /\ UNCHANGED <<synchVars, app, counter, page>>

WaitOn(p, s, from, to) ==
  /\ Step(p, from, to)
  /\ Wait(p, s)
  /\ UNCHANGED <<app, counter, page>>

\* Faulty: goes on without the lock.
AcquireNothing(p, from, to) == Test(p, from, to)

AcquireLock(p, from, to) ==
  /\ Step(p, from, to)
  /\ Acquire(p, "lock")
  /\ UNCHANGED <<app, counter, page>>

\* Faulty: a round without a character counts.
ReleaseAndCount(p, from, n) ==
  /\ Step(p, from, "loop")
  /\ Release(p, "lock")
  /\ Counts(p, 1)
  /\ UNCHANGED <<app, page>>

\* lock_release at the end of a round; n is what is added to the index.
ReleaseLock(p, from, n) ==
  /\ Step(p, from, "loop")
  /\ Release(p, "lock")
  /\ Counts(p, n)
  /\ UNCHANGED <<app, page>>

\* buffer[w_idx] = product
Insert(p) ==
  /\ Step(p, "insert", "advance")
  /\ page' = [page EXCEPT !.buffer[page.w_idx] = Item(p)]
  /\ UNCHANGED <<synchVars, app, counter>>

AdvanceWrite(p, to) ==
  /\ Step(p, "advance", to)
  /\ page' = [page EXCEPT !.w_idx = NextSlot(@)]
  /\ UNCHANGED <<synchVars, app, counter>>

\* Faulty: the character stays in the buffer.
TakeAndKeep(p, to) == Test(p, "take", to)

\* product = buffer[r_idx], and r_idx moves on.
Take(p, to) ==
  /\ Step(p, "take", to)
  /\ page' = [page EXCEPT !.r_idx = NextSlot(@)]
  /\ UNCHANGED <<synchVars, app, counter>>

=============================================================================
