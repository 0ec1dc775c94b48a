----------------------------- MODULE SynchCalls -----------------------------
(***************************************************************************)
(* The semaphores, locks and condition variables of the kernel as programs *)
(* see them.  Nothing is said of PCBs, run queues or the timer: a process  *)
(* waits in the queue of an object, or it is awake and may make its next   *)
(* call.  The programs are written with these calls, and SynchSpec is the  *)
(* specification of them that Kernel implements.                           *)
(***************************************************************************)
EXTENDS Queue

CONSTANT NoOwner     \* the owner of a lock that is available

\* Functions from the handles of the objects created so far.
VARIABLES sems, locks, conds

synchVars == <<sems, locks, conds>>

WaitsIn(pool, p) == \E h \in DOMAIN pool : p \in InQueue(pool[h].waiting)

Awake(p) == ~WaitsIn(sems, p) /\ ~WaitsIn(locks, p) /\ ~WaitsIn(conds, p)

\* The pool with a new object in it.
With(pool, h, object) ==
  [x \in DOMAIN pool \union {h} |-> IF x = h THEN object ELSE pool[x]]

-----------------------------------------------------------------------------
(* Semaphores *)

NewSem(s, n) ==
  /\ s \notin DOMAIN sems
  /\ sems' = With(sems, s, [count |-> n, waiting |-> <<>>])
  /\ UNCHANGED <<locks, conds>>

\* Takes a unit, or waits for one that a signal brings.
Wait(p, s) ==
  /\ \/ sems[s].count > 0 /\ sems' = [sems EXCEPT ![s].count = @ - 1]
     \/ sems[s].count <= 0 /\ sems' = [sems EXCEPT ![s].waiting = Append(@, p)]
  /\ UNCHANGED <<locks, conds>>

\* A unit goes to the process that waited longest, unless units are owed.
Signal(s) ==
  /\ \/ /\ sems[s].count >= 0 /\ sems[s].waiting # <<>>
        /\ sems' = [sems EXCEPT ![s].waiting = Tail(@)]
     \/ /\ sems[s].count < 0 \/ sems[s].waiting = <<>>
        /\ sems' = [sems EXCEPT ![s].count = @ + 1]
  /\ UNCHANGED <<locks, conds>>

-----------------------------------------------------------------------------
(* Locks *)

NewLock(k) ==
  /\ k \notin DOMAIN locks
  /\ locks' = With(locks, k, [owner |-> NoOwner, waiting |-> <<>>])
  /\ UNCHANGED <<sems, conds>>

Acquire(p, k) ==
  /\ \/ locks[k].owner = p /\ UNCHANGED locks
     \/ locks[k].owner = NoOwner /\ locks' = [locks EXCEPT ![k].owner = p]
     \/ /\ locks[k].owner \notin {p, NoOwner}
        /\ locks' = [locks EXCEPT ![k].waiting = Append(@, p)]
  /\ UNCHANGED <<sems, conds>>

\* Lock k passes to the process that waited longest for it.
PassedOn(k) ==
  IF locks[k].waiting = <<>>
  THEN [locks EXCEPT ![k].owner = NoOwner]
  ELSE [locks EXCEPT ![k] = [owner |-> Head(@.waiting), waiting |-> Tail(@.waiting)]]

\* Fails, and changes nothing, for a process that is not the owner.
Release(p, k) ==
  /\ \/ locks[k].owner = p /\ locks' = PassedOn(k)
     \/ locks[k].owner # p /\ UNCHANGED locks
  /\ UNCHANGED <<sems, conds>>

-----------------------------------------------------------------------------
(* Condition variables: a monitor with Hoare's hand-off *)

NewCond(c, k) ==
  /\ c \notin DOMAIN conds /\ k \in DOMAIN locks
  /\ conds' = With(conds, c, [lock |-> k, waiting |-> <<>>])
  /\ UNCHANGED <<sems, locks>>

CondWait(p, c) ==
  LET k == conds[c].lock
  IN  /\ \/ /\ locks[k].owner = p
            /\ conds' = [conds EXCEPT ![c].waiting = Append(@, p)]
            /\ locks' = PassedOn(k)
         \/ locks[k].owner # p /\ UNCHANGED <<locks, conds>>
      /\ UNCHANGED sems

\* The process that waited longest has the lock at once; the signaler joins
\* those waiting for it.
CondSignal(p, c) ==
  LET k == conds[c].lock
      w == conds[c].waiting
  IN  /\ \/ /\ locks[k].owner = p /\ w # <<>>
            /\ conds' = [conds EXCEPT ![c].waiting = Tail(@)]
            /\ locks' = [locks EXCEPT ![k] = [owner |-> Head(w), waiting |-> Append(@.waiting, p)]]
         \/ /\ locks[k].owner # p \/ w = <<>>
            /\ UNCHANGED <<locks, conds>>
      /\ UNCHANGED sems

=============================================================================
