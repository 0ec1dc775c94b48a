--------------------------- MODULE MCLinkedQueue ---------------------------
(***************************************************************************)
(* Three PCBs on two queues of the scheduler and one waiting queue,       *)
(* with the fewest links that are enough, so that the pool does    *)
(* become empty.                                                           *)
(***************************************************************************)
EXTENDS LinkedQueue, TLC

CONSTANTS p1, p2, p3, runQueue, waiting

MCOrder == <<p1, p2, p3>>

\* Next and the properties treat all PCBs alike, and there is one initial state.
Symmetry == Permutations({p1, p2, p3})

\* The state without the objects of free links, which AQueueAllocLink sets
\* before anything reads them.
View ==
  <<[heap EXCEPT !.object = [l \in Link |->
                               IF heap.queue[l] = freeLinks THEN NULL ELSE @[l]]],
    pcbLink, fatal>>

=============================================================================
