------------------------------- MODULE Queues -------------------------------
(***************************************************************************)
(* What os/queue.c promises the kernel: every queue is a sequence.  Each   *)
(* object (a PCB) is on one queue of the scheduler, from where it is moved *)
(* to another, and on at most one queue of a semaphore, lock or condition  *)
(* variable, which it leaves from the front.                               *)
(***************************************************************************)
EXTENDS Queue

CONSTANTS SchedQueue,     \* the queues of the scheduler
          WaitingQueue,   \* the queues of the synchronisation objects
          FreeQueue,      \* the one of SchedQueue that holds all PCBs first
          zombieQueue,    \* the one of SchedQueue that is filled from the front
          Object,         \* the PCBs
          InitialOrder    \* the order in which ProcessModuleInit leaves them

QueueName == SchedQueue \union WaitingQueue

VARIABLE content

Init == content = [q \in QueueName |-> IF q = FreeQueue THEN InitialOrder ELSE <<>>]

MoveToEnd(o, from, to) ==
  /\ o \in InQueue(content[from])
  /\ LET left == [content EXCEPT ![from] = AQueueRemove(@, o)]
     IN  content' = [left EXCEPT ![to] = Append(@, o)]

MoveToZombies(o, from) ==
  /\ o \in InQueue(content[from])
  /\ LET left == [content EXCEPT ![from] = AQueueRemove(@, o)]
     IN  content' = [left EXCEPT ![zombieQueue] = <<o>> \o @]

RotateQueue(q) == content' = [content EXCEPT ![q] = Rotate(@)]

Enqueue(o, w) ==
  /\ \A x \in WaitingQueue : o \notin InQueue(content[x])
  /\ content' = [content EXCEPT ![w] = Append(@, o)]

Dequeue(w) ==
  /\ content[w] # <<>>
  /\ content' = [content EXCEPT ![w] = Tail(@)]

Next ==
  \/ \E w \in WaitingQueue : Dequeue(w)
  \/ \E o \in Object, w \in WaitingQueue : Enqueue(o, w)
  \/ \E q \in SchedQueue : RotateQueue(q)
  \/ \E o \in Object, from \in SchedQueue, to \in SchedQueue \ {zombieQueue} :
       MoveToEnd(o, from, to)
  \/ \E o \in Object, from \in SchedQueue : MoveToZombies(o, from)

Spec == Init /\ [][Next]_content

=============================================================================
