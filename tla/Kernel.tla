------------------------------- MODULE Kernel -------------------------------
(***************************************************************************)
(* The DLXOS kernel under every possible set of user programs: whichever   *)
(* process runs may make any synchronisation call with any handle, create  *)
(* a process, exit, or be preempted by the timer.  Interrupts are disabled *)
(* in the kernel, so each handler is one step; a call that sleeps is two.  *)
(***************************************************************************)
EXTENDS Synch

Init == ProcessInit /\ SynchModuleInit

\* The handles a program may pass: the valid ones and one beyond each end.
SemArg == -1 .. MAX_SEMS
LockArg == -1 .. MAX_LOCKS
CondArg == -1 .. MAX_CONDS

-----------------------------------------------------------------------------
TimerInterrupt ==
  /\ UserMode
  /\ Preempt
  /\ UNCHANGED <<synchVars, userVars>>

\* process_create sets no result: its caller's r1 keeps what it held.
ProcessCreate ==
  /\ UserMode
  /\ ProcessFork
  /\ UNCHANGED <<synchVars, userVars>>

\* The page with the saved registers is freed when the zombie is reaped.
\* Locks that the process owns stay with its PID.
Exit ==
  /\ UserMode
  /\ ProcessDestroyCurrent
  /\ SetResult(NoResult)
  /\ UNCHANGED synchVars

\* exitsim() never returns.
Stopped ==
  /\ stopped # "no"
  /\ UNCHANGED vars

Next ==
  \/ TimerInterrupt
  \/ ProcessCreate
  \/ Exit
  \/ HandlerReturns
  \/ \E n \in InitialCounts : SemCreate(n)
  \/ \E h \in SemArg : SemHandleWait(h)
  \/ \E h \in SemArg : SemHandleSignal(h)
  \/ LockCreate
  \/ \E h \in LockArg : LockHandleAcquire(h)
  \/ \E h \in LockArg : LockHandleRelease(h)
  \/ \E k \in LockHandle : CondCreate(k)
  \/ \E h \in CondArg : CondHandleWait(h)
  \/ \E h \in CondArg : CondHandleSignal(h)
  \/ Stopped

Spec == Init /\ [][Next]_vars

\* A process that slept in the kernel finishes its call once it runs.
\* ProcessSchedule arms the timer each time it picks a process, so a process
\* that keeps the processor is interrupted; one that sleeps or exits before its
\* quantum is over is not.
Quantum(p) == currentPCB = p /\ TimerInterrupt

FairSpec ==
  /\ Spec
  /\ WF_vars(HandlerReturns)
  /\ \A p \in Pid : WF_vars(Quantum(p))

-----------------------------------------------------------------------------
(* Types *)

\* Type invariant of the kernel's state.
TypeOK ==
  /\ SchedTypeOK
  /\ sems \in [SemHandle -> [inuse : BOOLEAN, count : Int, waiting : Seq(Pid)]]
  /\ locks \in [LockHandle ->
                  [inuse : BOOLEAN, pid : Pid \union {NoOwner}, waiting : Seq(Pid)]]
  /\ conds \in [CondHandle ->
                  [inuse : BOOLEAN, lock : LockHandle \union {NoOwner}, waiting : Seq(Pid)]]
  /\ trap \in [Pid -> [op : Ops, on : Int]]
  /\ r1 \in [Pid -> Int]

-----------------------------------------------------------------------------
(* Sleeping and waking *)

\* The lock that a call on a lock or on a condition variable is about.
LockOf(t) == IF t.op = "lock_acquire" THEN t.on ELSE conds[t.on].lock

SleepsOnSem(p, s) == p \in waitQueue /\ trap[p] = [op |-> "sem_wait", on |-> s]

SleepsOnCond(p, c) == p \in waitQueue /\ trap[p] = [op |-> "cond_wait", on |-> c]

SleepsForLock(p, k) ==
  /\ p \in waitQueue
  /\ trap[p].op \in {"lock_acquire", "cond_signal"}
  /\ LockOf(trap[p]) = k

\* A process inside the kernel is in a call on an object in use.
CallOK(t) ==
  \/ t = NoTrap
  \/ t.op = "sem_wait" /\ t.on \in SemHandle /\ sems[t.on].inuse
  \/ t.op = "lock_acquire" /\ t.on \in LockHandle /\ locks[t.on].inuse
  \/ t.op \in {"cond_wait", "cond_signal"} /\ t.on \in CondHandle /\ conds[t.on].inuse

\* No wakeup is lost or misdirected: a process is on the waiting queue of a
\* semaphore, lock or condition variable, and once, if and only if it sleeps
\* in a call that put it there.  So every sleeper is on exactly one waiting
\* queue, whoever serves that queue finds it, and nobody awake is on one.
SleepersInv ==
  /\ \A p \in Pid : CallOK(trap[p])
  /\ \A p \in waitQueue : trap[p] # NoTrap
  /\ \A s \in SemHandle :
       /\ NoDuplicates(sems[s].waiting)
       /\ InQueue(sems[s].waiting) = {p \in Pid : SleepsOnSem(p, s)}
  /\ \A k \in LockHandle :
       /\ NoDuplicates(locks[k].waiting)
       /\ InQueue(locks[k].waiting) = {p \in Pid : SleepsForLock(p, k)}
  /\ \A c \in CondHandle :
       /\ NoDuplicates(conds[c].waiting)
       /\ InQueue(conds[c].waiting) = {p \in Pid : SleepsOnCond(p, c)}

\* The processes in q that are still in q', in the order they had, are
\* followed by newcomers: nobody overtakes, and only the head leaves.
ServesInOrder(q, r) ==
  \/ \E n \in 0 .. 1 : Len(r) = Len(q) + n /\ SubSeq(r, 1, Len(q)) = q
  \/ /\ q # <<>>
     /\ \E n \in 0 .. 1 : Len(r) = Len(q) - 1 + n /\ SubSeq(r, 1, Len(q) - 1) = Tail(q)

\* Waiting processes are served first come first served: a step takes nobody
\* but the head off a waiting queue, and newcomers go to its end.
FirstComeFirstServed ==
  [][/\ \A s \in SemHandle : ServesInOrder(sems[s].waiting, sems'[s].waiting)
     /\ \A k \in LockHandle : ServesInOrder(locks[k].waiting, locks'[k].waiting)
     /\ \A c \in CondHandle : ServesInOrder(conds[c].waiting, conds'[c].waiting)]_vars

-----------------------------------------------------------------------------
(* Semaphores *)

\* Nobody sleeps on a semaphore that has units left.
NoSleeperWithUnits ==
  \A s \in SemHandle : sems[s].waiting # <<>> => sems[s].count <= 0

\* A sleeper is woken only by a signal that finds the count at zero, and the
\* unit that signal brings is the sleeper's: while the count is negative, as
\* programs create it to wait for several signals, signals pay the debt.
GrantsAreBacked ==
  [][\A s \in SemHandle :
       Len(sems'[s].waiting) < Len(sems[s].waiting)
         => sems[s].count = 0 /\ sems'[s].count = 0]_vars

-----------------------------------------------------------------------------
(* Locks and condition variables *)

\* A lock somebody waits for is held, by a process that is not itself among
\* those waiting for it or for one of its condition variables; a condition
\* variable in use has a lock in use.
LockInv ==
  /\ \A k \in LockHandle :
       /\ locks[k].waiting # <<>> => locks[k].pid # NoOwner
       /\ locks[k].pid \notin InQueue(locks[k].waiting)
       /\ ~locks[k].inuse => locks[k].pid = NoOwner
  /\ \A c \in CondHandle :
       conds[c].inuse =>
         /\ conds[c].lock \in LockHandle /\ locks[conds[c].lock].inuse
         /\ locks[conds[c].lock].pid \notin InQueue(conds[c].waiting)

\* Hoare hand-off: a process woken in lock_acquire, cond_wait or cond_signal
\* owns the lock from the moment it is woken until it runs again, whatever
\* the others do in between, so "the process will be holding the lock after
\* woken up".  Programs that test their condition with an if rely on it.
WokenOwnsLock ==
  \A p \in Pid :
    p \notin waitQueue /\ trap[p].op \in LockOps => locks[LockOf(trap[p])].pid = p

\* A held lock changes hands by an act of its owner alone.
OnlyOwnerGivesUp ==
  [][\A k \in LockHandle :
       locks[k].pid # NoOwner /\ locks'[k].pid # locks[k].pid
         => locks[k].pid = currentPCB]_vars

-----------------------------------------------------------------------------
(* Liveness *)

\* Once processes stop exiting, every runnable process gets to run, unless
\* the kernel exits: the round robin of timer, sleeps and wakeups passes
\* nobody over.
RoundRobin ==
  ([]<><<Exit>>_vars) \/
  (\A p \in Pid : p \in InQueue(runQueue) ~> (currentPCB = p \/ stopped # "no"))

SignalsSem(s) == UserMode /\ SemHandleValid(s) /\ SemSignal(s)

\* A process that sleeps on a semaphore is woken if signals to it keep
\* coming, however many others wait on it in the meantime.
SignalsServeSleepers ==
  \A s \in SemHandle :
    (<>[][~SignalsSem(s)]_vars) \/
    (\A p \in Pid : p \in InQueue(sems[s].waiting) ~> p \notin InQueue(sems[s].waiting))

ReleasesLock(k) == UserMode /\ LockHandleValid(k) /\ Owns(k) /\ LockRelease(k)

\* A process that sleeps for a lock gets it if its owners keep releasing it.
ReleasesServeSleepers ==
  \A k \in LockHandle :
    (<>[][~ReleasesLock(k)]_vars) \/
    (\A p \in Pid : p \in InQueue(locks[k].waiting) ~> locks[k].pid = p)

-----------------------------------------------------------------------------
(* The services that programs are written against *)

Created(pool) == {h \in DOMAIN pool : pool[h].inuse}

SemObjects == [s \in Created(sems) |-> [count |-> sems[s].count, waiting |-> sems[s].waiting]]
LockObjects == [k \in Created(locks) |-> [owner |-> locks[k].pid, waiting |-> locks[k].waiting]]
CondObjects == [c \in Created(conds) |-> [lock |-> conds[c].lock, waiting |-> conds[c].waiting]]

Services == INSTANCE SynchSpec WITH
  Process <- Pid,
  Handle <- SemHandle \union LockHandle \union CondHandle,
  Counts <- InitialCounts,
  sems <- SemObjects,
  locks <- LockObjects,
  conds <- CondObjects

\* Scheduler, traps and handles together give programs the services of
\* SynchSpec: whatever processes are created, preempted, woken late or gone,
\* each step is one call of a process that waits for nothing, or changes no
\* object.
ImplementsServices == Services!Spec

-----------------------------------------------------------------------------
(* What the code's comments say and the code does not do *)

\* "Move the front of the queue to the end.  The running process was the one
\* in front." (ProcessSchedule): the process that a step moves from inside
\* the run queue to its end is the one that was running.
RotatesTheRunning ==
  [][\A p \in Pid :
       /\ p \in InQueue(runQueue) /\ p # runQueue[Len(runQueue)]
       /\ runQueue' # <<>> /\ p = runQueue'[Len(runQueue')]
       => p = currentPCB]_vars

\* "PID of process holding the lock, -1 if lock is available" (synch.h): the
\* pid of a lock is that of a process that exists.
OwnerExists ==
  \A k \in LockHandle : locks[k].pid # NoOwner => flags[locks[k].pid] # "free"

=============================================================================
