--------------------------- MODULE BoundedBuffer ----------------------------
(***************************************************************************)
(* What q2, q3 and q4 are to be: a queue of bounded length, filled by      *)
(* producers and emptied by consumers, each in the order 0, 1, ...  No     *)
(* character is lost, invented, taken twice or out of order.               *)
(***************************************************************************)
EXTENDS Integers, Sequences

CONSTANTS Producer, Consumer, ITEMS, Capacity

VARIABLES queue,
          put,    \* how many characters each producer has inserted
          got     \* how many characters each consumer has taken

Init ==
  /\ queue = <<>>
  /\ put = [p \in Producer |-> 0]
  /\ got = [c \in Consumer |-> 0]

Put(p) ==
  /\ put[p] < ITEMS
  /\ Len(queue) < Capacity
  /\ queue' = Append(queue, put[p])
  /\ put' = [put EXCEPT ![p] = @ + 1]
  /\ UNCHANGED got

Get(c) ==
  /\ queue # <<>>
  /\ Head(queue) = got[c]
  /\ queue' = Tail(queue)
  /\ got' = [got EXCEPT ![c] = @ + 1]
  /\ UNCHANGED put

Next == (\E p \in Producer : Put(p)) \/ (\E c \in Consumer : Get(c))

Spec == Init /\ [][Next]_<<queue, put, got>>

=============================================================================
