----------------------------- MODULE SynchSpec -----------------------------
(***************************************************************************)
(* What the kernel promises its programs: at any time some process that is *)
(* awake makes one of the calls of SynchCalls, and nothing else happens to *)
(* the objects.                                                            *)
(***************************************************************************)
EXTENDS SynchCalls

CONSTANTS Process,    \* the processes that may make calls
          Handle,     \* the handles of objects
          Counts      \* the counts semaphores are created with

\* No object has been created.
NoObject == [h \in {} |-> NoOwner]

Init == sems = NoObject /\ locks = NoObject /\ conds = NoObject

Call(p) ==
  \/ \E s \in Handle, n \in Counts : NewSem(s, n)
  \/ \E s \in DOMAIN sems : Wait(p, s) \/ Signal(s)
  \/ \E k \in Handle : NewLock(k)
  \/ \E k \in DOMAIN locks : Acquire(p, k) \/ Release(p, k)
  \/ \E c \in Handle, k \in DOMAIN locks : NewCond(c, k)
  \/ \E c \in DOMAIN conds : CondWait(p, c) \/ CondSignal(p, c)

Next == \E p \in Process : Awake(p) /\ Call(p)

Spec == Init /\ [][Next]_synchVars

=============================================================================
