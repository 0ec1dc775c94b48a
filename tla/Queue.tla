------------------------------- MODULE Queue -------------------------------
(***************************************************************************)
(* The queues of os/queue.c as their callers see them: a queue is the      *)
(* sequence of the objects its links hold, first to last.  Appending with  *)
(* AQueueInsertLast is Append, AQueueFirst is Head, and an object is on at *)
(* most one link of a queue, so its link is named by the object.           *)
(***************************************************************************)
EXTENDS Integers, Sequences

\* The objects on the queue.
InQueue(q) == {q[i] : i \in 1 .. Len(q)}

NoDuplicates(q) == \A i, j \in 1 .. Len(q) : q[i] = q[j] => i = j

\* Faulty: the link stays on its queue.
AQueueRemoveNothing(q, p) == q

\* The queue without the link of p, wherever that link is.
AQueueRemove(q, p) ==
  LET i == CHOOSE j \in 1 .. Len(q) : q[j] = p
  IN  SubSeq(q, 1, i - 1) \o SubSeq(q, i + 1, Len(q))

\* The first link moved behind the last one: AQueueMoveAfter(q, last, first).
Rotate(q) == IF q = <<>> THEN q ELSE Append(Tail(q), Head(q))

=============================================================================
