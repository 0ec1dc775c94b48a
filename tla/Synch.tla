------------------------------- MODULE Synch -------------------------------
(***************************************************************************)
(* Semaphores, locks and condition variables, os/synch.c, as the traps of  *)
(* os/traps.c call them.  Every operation runs with interrupts disabled up *)
(* to its end, or up to the ProcessSleep() in it.  A process that slept    *)
(* goes on inside the operation when it is scheduled again: HandlerReturns *)
(* is that second part.                                                    *)
(***************************************************************************)
EXTENDS Process

CONSTANTS MAX_SEMS, MAX_LOCKS, MAX_CONDS,
          InitialCounts,       \* the counts programs pass to sem_create
          SemCountBound        \* the model's bound on a semaphore's count

\* CondHandleWait and CondHandleSignal compare a condition variable's handle
\* with MAX_SEMS, which stays inside conds[] as long as this holds.
ASSUME SynchAssumption ==
  /\ MAX_SEMS \in Nat /\ MAX_LOCKS \in Nat /\ MAX_CONDS \in Nat
  /\ MAX_SEMS <= MAX_CONDS
  /\ InitialCounts \subseteq Int
  /\ SemCountBound \in Int

VARIABLES sems, locks, conds,
          trap,   \* the call each process sleeps in, inside the kernel
          r1      \* the result of each process's last trap (ProcessSetResult)

synchVars == <<sems, locks, conds>>
userVars == <<trap, r1>>
vars == <<schedVars, synchVars, userVars>>

SemHandle == 0 .. MAX_SEMS - 1
LockHandle == 0 .. MAX_LOCKS - 1
CondHandle == 0 .. MAX_CONDS - 1

SYNC_FAIL == -1
SYNC_SUCCESS == 1
INVALID_COND == -1
NoOwner == -1          \* the pid of a lock that is available
NoResult == -2         \* the r1 of a process that has made no call yet

NoTrap == [op |-> "none", on |-> -1]
LockOps == {"lock_acquire", "cond_wait", "cond_signal"}
Ops == LockOps \union {"none", "sem_wait"}

SynchModuleInit ==
  /\ sems = [s \in SemHandle |-> [inuse |-> FALSE, count |-> 0, waiting |-> <<>>]]
  /\ locks = [k \in LockHandle |-> [inuse |-> FALSE, pid |-> NoOwner, waiting |-> <<>>]]
  /\ conds = [c \in CondHandle |-> [inuse |-> FALSE, lock |-> NoOwner, waiting |-> <<>>]]
  /\ trap = [p \in Pid |-> NoTrap]
  /\ r1 = [p \in Pid |-> NoResult]

\* The running process executes its own program, interrupts enabled.
UserMode == stopped = "no" /\ trap[currentPCB] = NoTrap

SetResult(v) ==
  /\ r1' = [r1 EXCEPT ![currentPCB] = v]
  /\ UNCHANGED trap

\* The caller sleeps inside op; its result is set when it is back.
SleepsIn(op, h) ==
  /\ trap' = [trap EXCEPT ![currentPCB] = [op |-> op, on |-> h]]
  /\ UNCHANGED r1

FailsUnchanged ==
  /\ SetResult(SYNC_FAIL)
  /\ UNCHANGED <<schedVars, synchVars>>

AllInUse(pool) == \A h \in DOMAIN pool : pool[h].inuse

\* A create operation takes the first slot of its pool that is not in use.
FirstUnused(pool, h) ==
  /\ ~pool[h].inuse
  /\ \A g \in DOMAIN pool : g < h => pool[g].inuse

\* The remainder of an operation whose caller slept, once the caller runs
\* again: nothing but its result is left to do.
HandlerReturns ==
  /\ stopped = "no"
  /\ trap[currentPCB] # NoTrap
  /\ trap' = [trap EXCEPT ![currentPCB] = NoTrap]
  /\ r1' = [r1 EXCEPT ![currentPCB] = SYNC_SUCCESS]
  /\ UNCHANGED <<schedVars, synchVars>>

-----------------------------------------------------------------------------
(* Semaphores *)

SemCreate(count) ==
  /\ UserMode
  /\ \/ AllInUse(sems) /\ FailsUnchanged
     \/ \E s \in SemHandle :
          /\ FirstUnused(sems, s)
          /\ sems' = [sems EXCEPT ![s] = [inuse |-> TRUE, count |-> count, waiting |-> <<>>]]
          /\ SetResult(s)
          /\ UNCHANGED <<schedVars, locks, conds>>

\* A caller that has to wait sleeps without taking anything off the count:
\* the SemSignal that wakes it does that.
SemWait(s) ==
  \/ /\ sems[s].count <= 0
     /\ sems' = [sems EXCEPT ![s].waiting = Append(@, currentPCB)]
     /\ ProcessSleep
     /\ SleepsIn("sem_wait", s)
     /\ UNCHANGED <<locks, conds>>
  \/ /\ sems[s].count > 0
     /\ sems' = [sems EXCEPT ![s].count = @ - 1]
     /\ SetResult(SYNC_SUCCESS)
     /\ UNCHANGED <<schedVars, locks, conds>>

SemHandleValid(h) == h \in SemHandle /\ sems[h].inuse

SemHandleWait(h) ==
  /\ UserMode
  /\ \/ ~SemHandleValid(h) /\ FailsUnchanged
     \/ SemHandleValid(h) /\ SemWait(h)

\* Faulty: the count is tested before it is raised.
WakesTestingOldCount(s) == sems[s].count > 0 /\ sems[s].waiting # <<>>

\* Faulty: a count of zero after the increment already wakes a process.
WakesAtZero(s) == sems[s].count + 1 >= 0 /\ sems[s].waiting # <<>>

\* The count is raised before it is tested.
SignalWakes(s) == sems[s].count + 1 > 0 /\ sems[s].waiting # <<>>

\* For a woken process the count is lowered again on its behalf.
SemSignal(s) ==
  /\ sems[s].count < SemCountBound
  /\ SetResult(SYNC_SUCCESS)
  /\ UNCHANGED <<locks, conds>>
  /\ \/ /\ SignalWakes(s)
        /\ sems' = [sems EXCEPT ![s].waiting = Tail(@)]
        /\ ProcessWakeup(Head(sems[s].waiting))
     \/ /\ ~SignalWakes(s)
        /\ sems' = [sems EXCEPT ![s].count = @ + 1]
        /\ UNCHANGED schedVars

SemHandleSignal(h) ==
  /\ UserMode
  /\ \/ ~SemHandleValid(h) /\ FailsUnchanged
     \/ SemHandleValid(h) /\ SemSignal(h)

-----------------------------------------------------------------------------
(* Locks *)

LockCreate ==
  /\ UserMode
  /\ \/ AllInUse(locks) /\ FailsUnchanged
     \/ \E k \in LockHandle :
          /\ FirstUnused(locks, k)
          /\ locks' = [locks EXCEPT ![k] = [inuse |-> TRUE, pid |-> NoOwner, waiting |-> <<>>]]
          /\ SetResult(k)
          /\ UNCHANGED <<schedVars, sems, conds>>

\* The owner acquires again at no cost and without counting.
LockAcquire(k) ==
  /\ UNCHANGED <<sems, conds>>
  /\ \/ /\ locks[k].pid = currentPCB
        /\ SetResult(SYNC_SUCCESS)
        /\ UNCHANGED <<schedVars, locks>>
     \/ /\ locks[k].pid \notin {currentPCB, NoOwner}
        /\ locks' = [locks EXCEPT ![k].waiting = Append(@, currentPCB)]
        /\ ProcessSleep
        /\ SleepsIn("lock_acquire", k)
     \/ /\ locks[k].pid = NoOwner
        /\ locks' = [locks EXCEPT ![k].pid = currentPCB]
        /\ SetResult(SYNC_SUCCESS)
        /\ UNCHANGED schedVars

LockHandleValid(h) == h \in LockHandle /\ locks[h].inuse

LockHandleAcquire(h) ==
  /\ UserMode
  /\ \/ ~LockHandleValid(h) /\ FailsUnchanged
     \/ LockHandleValid(h) /\ LockAcquire(h)

\* Faulty: the first waiter is taken off the queue to try again later.
ReleasedWithoutHandoff(k) ==
  LET w == locks[k].waiting
  IN  [locks EXCEPT ![k].pid = NoOwner,
                    ![k].waiting = IF w = <<>> THEN w ELSE Tail(w)]

\* Faulty: the new owner stays on the waiting queue.
ReleasedKeepsWaiter(k) ==
  LET w == locks[k].waiting
  IN  [locks EXCEPT ![k].pid = IF w = <<>> THEN NoOwner ELSE Head(w)]

\* Faulty: the process that came last gets the lock.
ReleasedToLast(k) ==
  LET w == locks[k].waiting
  IN  [locks EXCEPT ![k].pid = IF w = <<>> THEN NoOwner ELSE w[Len(w)],
                    ![k].waiting = IF w = <<>> THEN w ELSE SubSeq(w, 1, Len(w) - 1)]

\* Lock k given to the first process waiting for it, or to nobody.
Released(k) ==
  LET w == locks[k].waiting
  IN  [locks EXCEPT ![k].pid = IF w = <<>> THEN NoOwner ELSE Head(w),
                    ![k].waiting = IF w = <<>> THEN w ELSE Tail(w)]

\* Faulty: any process may release the lock.
AnyoneMayRelease(k) == locks[k].pid # NoOwner

Owns(k) == locks[k].pid = currentPCB

LockRelease(k) ==
  \/ ~Owns(k) /\ FailsUnchanged
  \/ /\ Owns(k)
     /\ locks' = Released(k)
     /\ SetResult(SYNC_SUCCESS)
     /\ \/ locks[k].waiting = <<>> /\ UNCHANGED schedVars
        \/ locks[k].waiting # <<>> /\ ProcessWakeup(Head(locks[k].waiting))
     /\ UNCHANGED <<sems, conds>>

LockHandleRelease(h) ==
  /\ UserMode
  /\ \/ ~LockHandleValid(h) /\ FailsUnchanged
     \/ LockHandleValid(h) /\ LockRelease(h)

-----------------------------------------------------------------------------
(* Condition variables *)

\* CondCreate reads locks[k].inuse before it checks anything, so k is taken
\* from the handles for which that read stays inside the array.
CondCreate(k) ==
  /\ UserMode
  /\ \/ /\ ~locks[k].inuse \/ AllInUse(conds)
        /\ SetResult(INVALID_COND)
        /\ UNCHANGED <<schedVars, synchVars>>
     \/ /\ locks[k].inuse
        /\ \E c \in CondHandle :
             /\ FirstUnused(conds, c)
             /\ conds' = [conds EXCEPT ![c] = [inuse |-> TRUE, lock |-> k, waiting |-> <<>>]]
             /\ SetResult(c)
             /\ UNCHANGED <<schedVars, sems, locks>>

\* The caller joins the condition's queue, gives its lock up and sleeps.
CondWait(c) ==
  LET k == conds[c].lock
  IN  \/ ~Owns(k) /\ FailsUnchanged
      \/ /\ Owns(k)
         /\ conds' = [conds EXCEPT ![c].waiting = Append(@, currentPCB)]
         /\ locks' = Released(k)
         /\ SleepsIn("cond_wait", c)
         /\ \/ locks[k].waiting = <<>> /\ ProcessSleep
            \/ locks[k].waiting # <<>> /\ WakeupAndSleep(Head(locks[k].waiting))
         /\ UNCHANGED sems

\* Compares with MAX_SEMS, as the code does.
CondHandleValid(h) == h \in 0 .. MAX_SEMS - 1 /\ conds[h].inuse

CondHandleWait(h) ==
  /\ UserMode
  /\ \/ ~CondHandleValid(h) /\ FailsUnchanged
     \/ CondHandleValid(h) /\ CondWait(h)

\* The lock goes straight to the process that waited longest, and the
\* signaler queues for the lock it gave away.
CondSignal(c) ==
  LET k == conds[c].lock
      w == conds[c].waiting
  IN  \/ ~Owns(k) /\ FailsUnchanged
      \/ /\ Owns(k)
         /\ w = <<>>
         /\ SetResult(SYNC_SUCCESS)
         /\ UNCHANGED <<schedVars, synchVars>>
      \/ /\ Owns(k)
         /\ w # <<>>
         /\ conds' = [conds EXCEPT ![c].waiting = Tail(@)]
         /\ locks' = [locks EXCEPT ![k].pid = Head(w), ![k].waiting = Append(@, currentPCB)]
         /\ WakeupAndSleep(Head(w))
         /\ SleepsIn("cond_signal", c)
         /\ UNCHANGED sems

CondHandleSignal(h) ==
  /\ UserMode
  /\ \/ ~CondHandleValid(h) /\ FailsUnchanged
     \/ CondHandleValid(h) /\ CondSignal(h)

=============================================================================
