---------------------------- MODULE KernelProofs ----------------------------
(***************************************************************************)
(* The invariants of Kernel hold for any number of processes, semaphores,  *)
(* locks and condition variables.                                          *)
(***************************************************************************)
EXTENDS Kernel, QueueProofs

-----------------------------------------------------------------------------
(* The scheduler: its operations keep the queues and the flags consistent *)

\* ProcessSchedule restores QueueInv from queues that match the flags: it
\* makes the head of the run queue the running process and reaps zombies.
LEMMA ScheduleLemma ==
  ASSUME SchedTypeOK, stopped = "no",
         NEW rq \in Seq(Pid), NEW wq \in SUBSET Pid, NEW zq \in Seq(Pid),
         NEW fl \in [Pid -> Status],
         QueuesMatch(freepcbs, rq, wq, zq, fl),
         ProcessSchedule(rq, wq, zq, fl)
  PROVE  SchedTypeOK' /\ QueueInv'
<1>1. CASE rq = <<>>
  <2>1. stopped' \in {"idle", "asleep"}
    BY <1>1 DEF ProcessSchedule
  <2> QED
    BY <1>1, <2>1 DEF ProcessSchedule, SchedTypeOK, ExitReason, QueueInv
<1>2. CASE rq # <<>>
  <2>1. /\ runQueue' = rq /\ waitQueue' = wq /\ zombieQueue' = <<>>
        /\ currentPCB' = Head(rq) /\ stopped' = "no"
        /\ freepcbs' = freepcbs \o zq
        /\ flags' = [p \in Pid |-> IF p \in InQueue(zq) THEN "free" ELSE fl[p]]
    BY <1>2 DEF ProcessSchedule
  <2>2. Head(rq) \in Pid
    BY <1>2, TailLemma
  <2>3. InQueue(freepcbs) \cap InQueue(zq) = {}
    BY DEF QueuesMatch, WithStatus
  <2>4. /\ freepcbs \o zq \in Seq(Pid)
        /\ InQueue(freepcbs \o zq) = InQueue(freepcbs) \union InQueue(zq)
        /\ NoDuplicates(freepcbs \o zq)
    BY <2>3, ConcatLemma DEF SchedTypeOK, QueuesMatch
  <2>5. flags' \in [Pid -> Status]
    BY <2>1 DEF Status
  <2>6. /\ WithStatus(flags', "free") = WithStatus(fl, "free") \union InQueue(zq)
        /\ WithStatus(flags', "runnable") = WithStatus(fl, "runnable")
        /\ WithStatus(flags', "waiting") = WithStatus(fl, "waiting")
        /\ WithStatus(flags', "zombie") = {}
    BY <2>1 DEF WithStatus, QueuesMatch
  <2>7. <<>> \in Seq(Pid) /\ InQueue(<<>>) = {} /\ NoDuplicates(<<>>)
    BY <2>2, SmallQueueLemma
  <2>8. SchedTypeOK'
    BY <2>1, <2>2, <2>4, <2>5, <2>7 DEF SchedTypeOK, ExitReason
  <2>9. QueuesMatch(freepcbs', runQueue', waitQueue', zombieQueue', flags')
    BY <2>1, <2>4, <2>6, <2>7 DEF QueuesMatch
  <2> QED
    BY <1>2, <2>1, <2>8, <2>9 DEF QueueInv
<1> QED
  BY <1>1, <1>2

\* The running process is the head of the run queue and of no other.
LEMMA CurrentLemma ==
  ASSUME SchedTypeOK, QueueInv, stopped = "no"
  PROVE  /\ currentPCB \in Pid
         /\ flags[currentPCB] = "runnable"
         /\ currentPCB \notin waitQueue
         /\ AQueueRemove(runQueue, currentPCB) = Tail(runQueue)
         /\ Tail(runQueue) \in Seq(Pid) /\ NoDuplicates(Tail(runQueue))
         /\ InQueue(Tail(runQueue)) = WithStatus(flags, "runnable") \ {currentPCB}
<1>1. /\ runQueue \in Seq(Pid) /\ runQueue # <<>> /\ NoDuplicates(runQueue)
      /\ currentPCB = Head(runQueue)
      /\ InQueue(runQueue) = WithStatus(flags, "runnable")
      /\ waitQueue = WithStatus(flags, "waiting")
  BY DEF SchedTypeOK, QueueInv, QueuesMatch
<1>2. AQueueRemove(runQueue, Head(runQueue)) = Tail(runQueue)
  BY <1>1, RemoveHeadLemma
<1>3. /\ Head(runQueue) \in Pid /\ Tail(runQueue) \in Seq(Pid)
      /\ NoDuplicates(Tail(runQueue)) /\ Head(runQueue) \in InQueue(runQueue)
      /\ InQueue(Tail(runQueue)) = InQueue(runQueue) \ {Head(runQueue)}
  BY <1>1, TailLemma
<1>4. flags[currentPCB] = "runnable"
  BY <1>1, <1>3 DEF WithStatus
<1> QED
  BY <1>1, <1>2, <1>3, <1>4 DEF WithStatus

\* The timer interrupt.
LEMMA PreemptLemma ==
  ASSUME SchedTypeOK, QueueInv, stopped = "no", Preempt
  PROVE  SchedTypeOK' /\ QueueInv'
<1> DEFINE rq == Rotate(runQueue)
<1>1. QueuesMatch(freepcbs, runQueue, waitQueue, zombieQueue, flags)
  BY DEF QueueInv
<1>2. rq \in Seq(Pid) /\ InQueue(rq) = InQueue(runQueue) /\ NoDuplicates(rq)
  BY <1>1, RotateLemma DEF SchedTypeOK, QueuesMatch
<1>3. ProcessSchedule(rq, waitQueue, zombieQueue, flags)
  BY DEF Preempt
<1> HIDE DEF rq
<1>4. QueuesMatch(freepcbs, rq, waitQueue, zombieQueue, flags)
  BY <1>1, <1>2 DEF QueuesMatch
<1> QED
  BY <1>2, <1>3, <1>4, ScheduleLemma DEF SchedTypeOK

\* Waking a sleeper while the caller runs on.
LEMMA WakeupLemma ==
  ASSUME SchedTypeOK, QueueInv, stopped = "no",
         NEW w \in waitQueue, ProcessWakeup(w)
  PROVE  SchedTypeOK' /\ QueueInv'
<1>1. /\ QueuesMatch(freepcbs, runQueue, waitQueue, zombieQueue, flags)
      /\ runQueue \in Seq(Pid) /\ w \in Pid /\ runQueue # <<>>
      /\ currentPCB = Head(runQueue) /\ zombieQueue = <<>>
  BY DEF QueueInv, SchedTypeOK
<1>2. w \notin InQueue(runQueue) /\ flags[w] = "waiting"
  BY <1>1 DEF QueuesMatch, WithStatus
<1>3. /\ Append(runQueue, w) \in Seq(Pid) /\ Append(runQueue, w) # <<>>
      /\ InQueue(Append(runQueue, w)) = InQueue(runQueue) \union {w}
      /\ NoDuplicates(Append(runQueue, w))
  BY <1>1, <1>2, AppendLemma DEF QueuesMatch
<1>4. Head(Append(runQueue, w)) = Head(runQueue)
  BY <1>1, HeadTailAppend
<1>5. SchedTypeOK'
  BY <1>1, <1>3 DEF ProcessWakeup, SchedTypeOK, Status
<1>6. /\ WithStatus(flags', "free") = WithStatus(flags, "free")
      /\ WithStatus(flags', "runnable") = WithStatus(flags, "runnable") \union {w}
      /\ WithStatus(flags', "waiting") = WithStatus(flags, "waiting") \ {w}
      /\ WithStatus(flags', "zombie") = WithStatus(flags, "zombie")
  BY <1>1, <1>2 DEF ProcessWakeup, SchedTypeOK, WithStatus
<1>7. QueuesMatch(freepcbs', runQueue', waitQueue', zombieQueue', flags')
  BY <1>1, <1>3, <1>6 DEF ProcessWakeup, QueuesMatch
<1> QED
  BY <1>1, <1>3, <1>4, <1>5, <1>7 DEF ProcessWakeup, QueueInv

\* The running process goes to sleep.
LEMMA SleepLemma ==
  ASSUME SchedTypeOK, QueueInv, stopped = "no", ProcessSleep
  PROVE  /\ SchedTypeOK' /\ QueueInv'
         /\ waitQueue' = waitQueue \union {currentPCB}
<1> DEFINE rq == Tail(runQueue)
           wq == waitQueue \union {currentPCB}
           fl == [flags EXCEPT ![currentPCB] = "waiting"]
<1>1. /\ currentPCB \in Pid /\ flags[currentPCB] = "runnable"
      /\ AQueueRemove(runQueue, currentPCB) = rq
      /\ rq \in Seq(Pid) /\ NoDuplicates(rq)
      /\ InQueue(rq) = WithStatus(flags, "runnable") \ {currentPCB}
  BY CurrentLemma
<1>2. ProcessSchedule(rq, wq, zombieQueue, fl)
  BY <1>1 DEF ProcessSleep
<1>3. fl \in [Pid -> Status] /\ wq \in SUBSET Pid /\ zombieQueue \in Seq(Pid)
  BY <1>1 DEF SchedTypeOK, Status
<1>4. /\ WithStatus(fl, "free") = WithStatus(flags, "free")
      /\ WithStatus(fl, "runnable") = WithStatus(flags, "runnable") \ {currentPCB}
      /\ WithStatus(fl, "waiting") = WithStatus(flags, "waiting") \union {currentPCB}
      /\ WithStatus(fl, "zombie") = WithStatus(flags, "zombie")
  BY <1>1 DEF SchedTypeOK, WithStatus
<1>5. waitQueue' = wq
  BY <1>2 DEF ProcessSchedule
<1> HIDE DEF rq, fl
<1>6. QueuesMatch(freepcbs, rq, wq, zombieQueue, fl)
  BY <1>1, <1>4 DEF QueuesMatch, QueueInv
<1> QED
  BY <1>1, <1>2, <1>3, <1>5, <1>6, ScheduleLemma

\* The running process wakes a sleeper and goes to sleep in its place.
LEMMA WakeupAndSleepLemma ==
  ASSUME SchedTypeOK, QueueInv, stopped = "no",
         NEW w \in waitQueue, WakeupAndSleep(w)
  PROVE  /\ SchedTypeOK' /\ QueueInv'
         /\ waitQueue' = (waitQueue \ {w}) \union {currentPCB}
<1> DEFINE aq == Append(runQueue, w)
           rq == Append(Tail(runQueue), w)
           wq == (waitQueue \ {w}) \union {currentPCB}
           fl == [flags EXCEPT ![w] = "runnable", ![currentPCB] = "waiting"]
<1>1. /\ currentPCB \in Pid /\ flags[currentPCB] = "runnable"
      /\ currentPCB \notin waitQueue
      /\ Tail(runQueue) \in Seq(Pid) /\ NoDuplicates(Tail(runQueue))
      /\ InQueue(Tail(runQueue)) = WithStatus(flags, "runnable") \ {currentPCB}
  BY CurrentLemma
<1>2. /\ runQueue \in Seq(Pid) /\ runQueue # <<>> /\ currentPCB = Head(runQueue)
      /\ NoDuplicates(runQueue) /\ InQueue(runQueue) = WithStatus(flags, "runnable")
      /\ waitQueue = WithStatus(flags, "waiting")
      /\ w \in Pid /\ flags[w] = "waiting"
  BY DEF SchedTypeOK, QueueInv, QueuesMatch, WithStatus
<1>3. w \notin InQueue(runQueue) /\ w \notin InQueue(Tail(runQueue)) /\ w # currentPCB
  BY <1>1, <1>2 DEF WithStatus
<1>4. aq \in Seq(Pid) /\ aq # <<>> /\ NoDuplicates(aq)
  BY <1>2, <1>3, AppendLemma
<1>5. Head(aq) = currentPCB /\ Tail(aq) = rq
  BY <1>2, HeadTailAppend
<1>6. AQueueRemove(aq, currentPCB) = rq
  BY <1>4, <1>5, RemoveHeadLemma
<1>7. /\ rq \in Seq(Pid) /\ NoDuplicates(rq)
      /\ InQueue(rq) = InQueue(Tail(runQueue)) \union {w}
  BY <1>1, <1>2, <1>3, AppendLemma, ZenonT(30)
<1>8. ProcessSchedule(rq, wq, zombieQueue, fl)
  BY <1>6 DEF WakeupAndSleep
<1>9. fl \in [Pid -> Status] /\ wq \in SUBSET Pid /\ zombieQueue \in Seq(Pid)
  BY <1>1 DEF SchedTypeOK, Status
<1>10. /\ WithStatus(fl, "free") = WithStatus(flags, "free")
       /\ WithStatus(fl, "runnable")
            = (WithStatus(flags, "runnable") \ {currentPCB}) \union {w}
       /\ WithStatus(fl, "waiting")
            = (WithStatus(flags, "waiting") \ {w}) \union {currentPCB}
       /\ WithStatus(fl, "zombie") = WithStatus(flags, "zombie")
  BY <1>1, <1>2, <1>3 DEF SchedTypeOK, WithStatus
<1>11. waitQueue' = wq
  BY <1>8 DEF ProcessSchedule
<1> HIDE DEF rq, fl
<1>12. QueuesMatch(freepcbs, rq, wq, zombieQueue, fl)
  BY <1>1, <1>2, <1>7, <1>10 DEF QueuesMatch, QueueInv
<1> QED
  BY <1>7, <1>8, <1>9, <1>11, <1>12, ScheduleLemma

\* The exit trap.
LEMMA DestroyLemma ==
  ASSUME SchedTypeOK, QueueInv, stopped = "no", ProcessDestroyCurrent
  PROVE  SchedTypeOK' /\ QueueInv' /\ waitQueue' = waitQueue
<1> DEFINE rq == Rotate(Tail(runQueue))
           zq == <<currentPCB>>
           fl == [flags EXCEPT ![currentPCB] = "zombie"]
<1>1. /\ currentPCB \in Pid /\ flags[currentPCB] = "runnable"
      /\ AQueueRemove(runQueue, currentPCB) = Tail(runQueue)
      /\ Tail(runQueue) \in Seq(Pid) /\ NoDuplicates(Tail(runQueue))
      /\ InQueue(Tail(runQueue)) = WithStatus(flags, "runnable") \ {currentPCB}
  BY CurrentLemma
<1>2. zombieQueue = <<>> /\ InQueue(zombieQueue) = WithStatus(flags, "zombie")
  BY DEF QueueInv, QueuesMatch
<1>3. <<currentPCB>> \o zombieQueue = zq
  BY <1>1, <1>2, SmallQueueLemma, ConcatEmptySeq
<1>4. /\ zq \in Seq(Pid) /\ InQueue(zq) = {currentPCB} /\ NoDuplicates(zq)
      /\ InQueue(zombieQueue) = {}
  BY <1>1, <1>2, SmallQueueLemma
<1>5. ProcessSchedule(rq, waitQueue, zq, fl)
  BY <1>1, <1>3 DEF ProcessDestroyCurrent
<1>6. /\ rq \in Seq(Pid) /\ NoDuplicates(rq)
      /\ InQueue(rq) = WithStatus(flags, "runnable") \ {currentPCB}
  BY <1>1, RotateLemma
<1>7. fl \in [Pid -> Status] /\ waitQueue \in SUBSET Pid
  BY <1>1 DEF SchedTypeOK, Status
<1>8. /\ WithStatus(fl, "free") = WithStatus(flags, "free")
      /\ WithStatus(fl, "runnable") = WithStatus(flags, "runnable") \ {currentPCB}
      /\ WithStatus(fl, "waiting") = WithStatus(flags, "waiting")
      /\ WithStatus(fl, "zombie") = {currentPCB}
  BY <1>1, <1>2, <1>4 DEF SchedTypeOK, WithStatus
<1>9. waitQueue' = waitQueue
  BY <1>5 DEF ProcessSchedule
<1> HIDE DEF rq, fl, zq
<1>10. QueuesMatch(freepcbs, rq, waitQueue, zq, fl)
  BY <1>4, <1>6, <1>8 DEF QueuesMatch, QueueInv
<1> QED
  BY <1>4, <1>5, <1>6, <1>7, <1>9, <1>10, ScheduleLemma

\* process_create, whatever becomes of it.
LEMMA ForkLemma ==
  ASSUME SchedTypeOK, QueueInv, stopped = "no", ProcessFork
  PROVE  SchedTypeOK' /\ QueueInv' /\ waitQueue' = waitQueue
<1> DEFINE new == Head(freepcbs)
<1>1. /\ freepcbs \in Seq(Pid) /\ NoDuplicates(freepcbs)
      /\ runQueue \in Seq(Pid) /\ runQueue # <<>> /\ NoDuplicates(runQueue)
      /\ currentPCB = Head(runQueue) /\ zombieQueue = <<>>
      /\ InQueue(freepcbs) = WithStatus(flags, "free")
      /\ InQueue(runQueue) = WithStatus(flags, "runnable")
      /\ QueuesMatch(freepcbs, runQueue, waitQueue, zombieQueue, flags)
  BY DEF SchedTypeOK, QueueInv, QueuesMatch
<1>2. ASSUME freepcbs # <<>>
      PROVE  /\ new \in Pid /\ Tail(freepcbs) \in Seq(Pid)
             /\ flags[new] = "free" /\ new \notin InQueue(runQueue)
             /\ NoDuplicates(Tail(freepcbs))
             /\ InQueue(Tail(freepcbs)) = WithStatus(flags, "free") \ {new}
  <2>1. /\ new \in Pid /\ Tail(freepcbs) \in Seq(Pid) /\ new \in InQueue(freepcbs)
        /\ NoDuplicates(Tail(freepcbs))
        /\ InQueue(Tail(freepcbs)) = InQueue(freepcbs) \ {new}
    BY <1>1, <1>2, TailLemma
  <2> QED
    BY <1>1, <2>1 DEF WithStatus
<1>3. CASE ForkWithoutPCB
  BY <1>3 DEF ForkWithoutPCB, StopFor, SchedTypeOK, ExitReason, QueueInv
<1>4. CASE ForkWithoutPage
  BY <1>2, <1>4 DEF ForkWithoutPage, StopFor, SchedTypeOK, ExitReason, QueueInv, Status
<1>5. CASE ForkWithoutProgram
  <2>1. new \in Pid /\ flags[new] = "free" /\ flags' = [flags EXCEPT ![new] = "free"]
    BY <1>2, <1>5 DEF ForkWithoutProgram
  <2>2. flags' = flags
    BY <2>1 DEF SchedTypeOK
  <2>3. /\ Rotate(freepcbs) \in Seq(Pid) /\ NoDuplicates(Rotate(freepcbs))
        /\ InQueue(Rotate(freepcbs)) = InQueue(freepcbs)
    BY <1>1, RotateLemma
  <2>4. /\ freepcbs' = Rotate(freepcbs)
        /\ UNCHANGED <<runQueue, waitQueue, zombieQueue, currentPCB, stopped>>
    BY <1>5 DEF ForkWithoutProgram
  <2> QED
    BY <1>1, <2>2, <2>3, <2>4 DEF SchedTypeOK, QueueInv, QueuesMatch
<1>6. CASE ForkOK
  <2>1. /\ freepcbs # <<>> /\ freepcbs' = Tail(freepcbs)
        /\ flags' = [flags EXCEPT ![new] = "runnable"]
        /\ runQueue' = Append(runQueue, new)
        /\ UNCHANGED <<waitQueue, zombieQueue, currentPCB, stopped>>
    BY <1>6 DEF ForkOK
  <2>2. new \in Pid /\ flags[new] = "free" /\ new \notin InQueue(runQueue)
    BY <1>2, <2>1
  <2>3. /\ Append(runQueue, new) \in Seq(Pid) /\ Append(runQueue, new) # <<>>
        /\ InQueue(Append(runQueue, new)) = InQueue(runQueue) \union {new}
        /\ NoDuplicates(Append(runQueue, new))
    BY <1>1, <2>2, AppendLemma
  <2>4. Head(Append(runQueue, new)) = Head(runQueue)
    BY <1>1, HeadTailAppend
  <2>5. /\ WithStatus(flags', "free") = WithStatus(flags, "free") \ {new}
        /\ WithStatus(flags', "runnable") = WithStatus(flags, "runnable") \union {new}
        /\ WithStatus(flags', "waiting") = WithStatus(flags, "waiting")
        /\ WithStatus(flags', "zombie") = WithStatus(flags, "zombie")
    BY <2>1, <2>2 DEF SchedTypeOK, WithStatus
  <2> HIDE DEF new
  <2>6. SchedTypeOK'
    BY <1>2, <2>1, <2>2, <2>3 DEF SchedTypeOK, Status
  <2>7. QueuesMatch(freepcbs', runQueue', waitQueue', zombieQueue', flags')
    BY <1>1, <1>2, <2>1, <2>3, <2>5 DEF QueuesMatch
  <2> QED
    BY <1>1, <2>1, <2>3, <2>4, <2>6, <2>7 DEF QueueInv
<1> QED
  BY <1>3, <1>4, <1>5, <1>6 DEF ProcessFork

\* The state that main() leaves.
LEMMA InitLemma ==
  ASSUME ProcessInit
  PROVE  SchedTypeOK /\ QueueInv
<1>1. FirstPid \in Pid /\ FirstPid \in Nat
  BY ProcsAssumption DEF FirstPid, Pid
<1>2. freepcbs = [i \in 1 .. FirstPid |-> FirstPid - i] /\ runQueue = <<FirstPid>>
  BY DEF ProcessInit, InitialFreePCBs
<1>3. /\ freepcbs \in Seq(Pid) /\ Len(freepcbs) = FirstPid
      /\ \A i \in 1 .. FirstPid : freepcbs[i] = FirstPid - i
  <2>1. freepcbs \in [1 .. FirstPid -> Pid]
    BY <1>1, <1>2, ProcsAssumption DEF FirstPid, Pid
  <2> QED
    BY <1>1, <1>2, <2>1
<1>4. NoDuplicates(freepcbs)
  BY <1>1, <1>3 DEF NoDuplicates
<1>5. InQueue(freepcbs) = WithStatus(flags, "free")
  <2>1. ASSUME NEW p \in Pid, p # FirstPid
        PROVE  FirstPid - p \in 1 .. FirstPid /\ FirstPid - (FirstPid - p) = p
    BY <2>1, ProcsAssumption DEF FirstPid, Pid
  <2>2. InQueue(freepcbs) = Pid \ {FirstPid}
    <3>1. ASSUME NEW p \in Pid, p # FirstPid
          PROVE  p \in InQueue(freepcbs)
      BY <1>3, <2>1, <3>1 DEF InQueue
    <3>2. ASSUME NEW i \in 1 .. FirstPid
          PROVE  freepcbs[i] \in Pid /\ freepcbs[i] # FirstPid
      BY <1>3, <3>2, ProcsAssumption DEF FirstPid, Pid
    <3> QED
      BY <1>3, <3>1, <3>2 DEF InQueue
  <2> QED
    BY <2>2, <1>1 DEF ProcessInit, WithStatus
<1>6. /\ runQueue \in Seq(Pid) /\ NoDuplicates(runQueue)
      /\ InQueue(runQueue) = {FirstPid} /\ Head(runQueue) = FirstPid
      /\ runQueue # <<>>
      /\ <<>> \in Seq(Pid) /\ InQueue(<<>>) = {} /\ NoDuplicates(<<>>)
  BY <1>1, <1>2, SmallQueueLemma
<1>7. /\ WithStatus(flags, "runnable") = {FirstPid}
      /\ WithStatus(flags, "waiting") = {} /\ WithStatus(flags, "zombie") = {}
  BY <1>1 DEF ProcessInit, WithStatus
<1>8. SchedTypeOK
  BY <1>1, <1>3, <1>6 DEF ProcessInit, SchedTypeOK, ExitReason, Status
<1> QED
  BY <1>4, <1>5, <1>6, <1>7, <1>8 DEF ProcessInit, QueueInv, QueuesMatch

-----------------------------------------------------------------------------
(* The inductive invariant *)

\* No part is inductive alone: a hand-off keeps WokenOwnsLock because the
\* process woken sleeps (SleepersInv), and leaves no sleeper behind on a free
\* lock (LockInv); the types of the queues make the heads processes.
IInv ==
  /\ TypeOK
  /\ QueueInv
  /\ SleepersInv
  /\ NoSleeperWithUnits
  /\ LockInv
  /\ WokenOwnsLock

SemSleepers(s) == {p \in Pid : SleepsOnSem(p, s)}
LockSleepers(k) == {p \in Pid : SleepsForLock(p, k)}
CondSleepers(c) == {p \in Pid : SleepsOnCond(p, c)}

-----------------------------------------------------------------------------
(* What every action needs *)

\* The running process in its own program waits for nothing.
LEMMA UserLemma ==
  ASSUME IInv, UserMode
  PROVE  /\ SchedTypeOK /\ QueueInv /\ stopped = "no"
         /\ currentPCB \in Pid /\ currentPCB \notin waitQueue
         /\ trap[currentPCB] = NoTrap
         /\ \A s \in SemHandle : currentPCB \notin InQueue(sems[s].waiting)
         /\ \A k \in LockHandle : currentPCB \notin InQueue(locks[k].waiting)
         /\ \A c \in CondHandle : currentPCB \notin InQueue(conds[c].waiting)
<1>1. SchedTypeOK /\ QueueInv /\ stopped = "no" /\ trap[currentPCB] = NoTrap
  BY DEF IInv, TypeOK, UserMode
<1>2. currentPCB \in Pid /\ currentPCB \notin waitQueue
  BY <1>1, CurrentLemma
<1> QED
  BY <1>1, <1>2 DEF IInv, SleepersInv, SleepsOnSem, SleepsForLock, SleepsOnCond

\* A step that neither puts a process to sleep nor wakes one, and leaves the
\* objects alone.
LEMMA QuietLemma ==
  ASSUME IInv, SchedTypeOK', QueueInv', r1' \in [Pid -> Int],
         UNCHANGED <<waitQueue, trap, synchVars>>
  PROVE  IInv'
<1>1. waitQueue' = waitQueue /\ trap' = trap
      /\ sems' = sems /\ locks' = locks /\ conds' = conds
  BY DEF synchVars
<1>2. TypeOK'
  BY <1>1 DEF IInv, TypeOK
<1>3. SleepersInv'
  BY <1>1 DEF IInv, SleepersInv, CallOK, SleepsOnSem, SleepsForLock, SleepsOnCond, LockOf
<1>4. NoSleeperWithUnits' /\ LockInv' /\ WokenOwnsLock'
  BY <1>1 DEF IInv, NoSleeperWithUnits, LockInv, WokenOwnsLock, LockOf
<1> QED
  BY <1>2, <1>3, <1>4 DEF IInv

\* A trap that answers SYNC_SUCCESS keeps the results typed and leaves the
\* calls in progress alone.
LEMMA SuccessLemma ==
  ASSUME TypeOK, SetResult(SYNC_SUCCESS)
  PROVE  r1' \in [Pid -> Int] /\ trap' = trap
<1>1. SYNC_SUCCESS \in Int
  BY DEF SYNC_SUCCESS
<1> QED
  BY <1>1 DEF SetResult, TypeOK

\* The running process keeps the processor and gets a result.
LEMMA ResultLemma ==
  ASSUME IInv, NEW v \in Int, SetResult(v), UNCHANGED <<schedVars, synchVars>>
  PROVE  IInv'
<1>1. SchedTypeOK' /\ QueueInv' /\ waitQueue' = waitQueue
  BY DEF IInv, TypeOK, schedVars, SchedTypeOK, QueueInv, QueuesMatch
<1>2. r1' \in [Pid -> Int] /\ trap' = trap
  BY DEF IInv, TypeOK, SetResult
<1> QED
  BY <1>1, <1>2, QuietLemma

\* A trap that only answers SYNC_FAIL preserves the invariant.
LEMMA FailsLemma ==
  ASSUME IInv, FailsUnchanged
  PROVE  IInv'
<1>1. SYNC_FAIL \in Int
  BY DEF SYNC_FAIL
<1> QED
  BY <1>1, ResultLemma DEF FailsUnchanged

\* An object in use stays in use, and a condition variable keeps its lock.
ObjectsStay ==
  /\ \A s \in SemHandle : sems[s].inuse => sems'[s].inuse
  /\ \A k \in LockHandle : locks[k].inuse => locks'[k].inuse
  /\ \A c \in CondHandle :
       conds[c].inuse => conds'[c].inuse /\ conds'[c].lock = conds[c].lock

\* The part of SleepersInv about the processes alone.
CallsOK ==
  /\ \A p \in Pid : CallOK(trap[p])
  /\ \A p \in waitQueue : trap[p] # NoTrap

\* The part of SleepersInv about the waiting queues.
QueuesOfSleepers ==
  /\ \A s \in SemHandle :
       NoDuplicates(sems[s].waiting) /\ InQueue(sems[s].waiting) = SemSleepers(s)
  /\ \A k \in LockHandle :
       NoDuplicates(locks[k].waiting) /\ InQueue(locks[k].waiting) = LockSleepers(k)
  /\ \A c \in CondHandle :
       NoDuplicates(conds[c].waiting) /\ InQueue(conds[c].waiting) = CondSleepers(c)

\* SleepersInv in two parts: the calls in progress are on objects in use, and
\* the waiting queues hold the sleepers.
LEMMA SleepersInvParts == SleepersInv <=> CallsOK /\ QueuesOfSleepers
BY DEF SleepersInv, CallsOK, QueuesOfSleepers, SemSleepers, LockSleepers, CondSleepers

\* The same two parts in the next state.
LEMMA SleepersInvPartsNext == SleepersInv' <=> CallsOK' /\ QueuesOfSleepers'
BY DEF SleepersInv, CallsOK, QueuesOfSleepers, SemSleepers, LockSleepers, CondSleepers

Caller(b) == {p \in {currentPCB} : b}

\* The processes W stop sleeping and the running one sleeps in the call t.
Sleeps(W, t) ==
  /\ \A s \in SemHandle : SemSleepers(s)' =
       (SemSleepers(s) \ W) \union Caller(t = [op |-> "sem_wait", on |-> s])
  /\ \A k \in LockHandle : LockSleepers(k)' =
       (LockSleepers(k) \ W)
         \union Caller(t.op \in {"lock_acquire", "cond_signal"} /\ LockOf(t) = k)
  /\ \A c \in CondHandle : CondSleepers(c)' =
       (CondSleepers(c) \ W) \union Caller(t = [op |-> "cond_wait", on |-> c])

\* The running process goes to sleep in the call t, perhaps waking those in W:
\* it is the only one to join the sleepers, and t says whose sleepers.
LEMMA BlocksLemma ==
  ASSUME IInv, UserMode, ObjectsStay,
         NEW W \in SUBSET waitQueue, NEW t, CallOK(t), CallOK(t)', t # NoTrap,
         waitQueue' = (waitQueue \ W) \union {currentPCB},
         trap' = [trap EXCEPT ![currentPCB] = t]
  PROVE  CallsOK' /\ Sleeps(W, t)
<1>1. /\ currentPCB \in Pid /\ currentPCB \notin waitQueue
      /\ trap \in [Pid -> [op : Ops, on : Int]] /\ waitQueue \subseteq Pid
  BY UserLemma DEF IInv, TypeOK, SchedTypeOK
<1>2. /\ trap'[currentPCB] = t
      /\ \A p \in Pid \ {currentPCB} : trap'[p] = trap[p]
  BY <1>1
<1>3. \A p \in Pid : CallOK(trap[p])
  BY DEF IInv, SleepersInv
<1>4. ASSUME NEW s \in SemHandle
      PROVE  SemSleepers(s)' =
              (SemSleepers(s) \ W) \union Caller(t = [op |-> "sem_wait", on |-> s])
  BY <1>1, <1>2 DEF Caller, SemSleepers, SleepsOnSem
<1>5. ASSUME NEW p \in Pid
      PROVE  CallOK(trap[p])'
  BY <1>2, <1>3 DEF ObjectsStay, CallOK, NoTrap
<1>6. ASSUME NEW k \in LockHandle
      PROVE  LockSleepers(k)' =
              (LockSleepers(k) \ W)
                \union Caller(t.op \in {"lock_acquire", "cond_signal"} /\ LockOf(t) = k)
  BY <1>1, <1>2, <1>3 DEF Caller, ObjectsStay, LockSleepers, SleepsForLock, LockOf, CallOK, NoTrap
<1>7. ASSUME NEW c \in CondHandle
      PROVE  CondSleepers(c)' =
              (CondSleepers(c) \ W) \union Caller(t = [op |-> "cond_wait", on |-> c])
  BY <1>1, <1>2 DEF Caller, CondSleepers, SleepsOnCond
<1>8. CallsOK'
  BY <1>1, <1>2, <1>5 DEF IInv, SleepersInv, CallsOK
<1> QED
  BY <1>4, <1>6, <1>7, <1>8 DEF Sleeps

\* The running process wakes those in W and runs on.
LEMMA WakesLemma ==
  ASSUME IInv, ObjectsStay, NEW W \in SUBSET waitQueue,
         waitQueue' = waitQueue \ W, trap' = trap
  PROVE  /\ CallsOK'
         /\ \A s \in SemHandle : SemSleepers(s)' = SemSleepers(s) \ W
         /\ \A k \in LockHandle : LockSleepers(k)' = LockSleepers(k) \ W
         /\ \A c \in CondHandle : CondSleepers(c)' = CondSleepers(c) \ W
<1>1. \A p \in Pid : CallOK(trap[p])
  BY DEF IInv, SleepersInv
<1>2. ASSUME NEW k \in LockHandle
      PROVE  LockSleepers(k)' = LockSleepers(k) \ W
  BY <1>1 DEF ObjectsStay, LockSleepers, SleepsForLock, LockOf, CallOK, NoTrap
<1>3. CallsOK'
  BY <1>1 DEF ObjectsStay, IInv, SleepersInv, CallsOK, CallOK
<1> QED
  BY <1>2, <1>3 DEF SemSleepers, CondSleepers, SleepsOnSem, SleepsOnCond

-----------------------------------------------------------------------------
(* Semaphores *)

SemsType == [SemHandle -> [inuse : BOOLEAN, count : Int, waiting : Seq(Pid)]]

\* What an assignment to one semaphore's count leaves alone.
LEMMA SemCountLemma ==
  ASSUME sems \in SemsType, NEW s \in SemHandle, NEW n \in Int,
         sems' = [sems EXCEPT ![s].count = n]
  PROVE  /\ sems' \in SemsType
         /\ \A x \in SemHandle : /\ sems'[x].waiting = sems[x].waiting
                                 /\ sems'[x].inuse = sems[x].inuse
                                 /\ sems'[x].count = IF x = s THEN n ELSE sems[x].count
BY DEF SemsType

\* What an assignment to one semaphore's waiting queue leaves alone.
LEMMA SemQueueLemma ==
  ASSUME sems \in SemsType, NEW s \in SemHandle, NEW q \in Seq(Pid),
         sems' = [sems EXCEPT ![s].waiting = q]
  PROVE  /\ sems' \in SemsType
         /\ \A x \in SemHandle : /\ sems'[x].waiting = IF x = s THEN q ELSE sems[x].waiting
                                 /\ sems'[x].inuse = sems[x].inuse
                                 /\ sems'[x].count = sems[x].count
BY DEF SemsType

\* A step on a semaphore's count alone.
LEMMA CountStepLemma ==
  ASSUME IInv, UserMode, NEW s \in SemHandle, NEW n \in Int,
         n > sems[s].count => n <= 0 \/ sems[s].waiting = <<>>,
         sems' = [sems EXCEPT ![s].count = n], SetResult(SYNC_SUCCESS),
         UNCHANGED <<schedVars, locks, conds>>
  PROVE  IInv'
<1>1. /\ SchedTypeOK' /\ QueueInv' /\ waitQueue' = waitQueue /\ trap' = trap
      /\ r1' \in [Pid -> Int] /\ locks' = locks /\ conds' = conds
  BY DEF schedVars, SchedTypeOK, QueueInv, QueuesMatch, SetResult, SYNC_SUCCESS,
         IInv, TypeOK
<1>2. sems \in SemsType
  BY DEF IInv, TypeOK, SemsType
<1>3. /\ sems' \in SemsType
      /\ \A x \in SemHandle : /\ sems'[x].waiting = sems[x].waiting
                              /\ sems'[x].inuse = sems[x].inuse
                              /\ sems'[x].count = IF x = s THEN n ELSE sems[x].count
  BY <1>2, SemCountLemma
<1>4. TypeOK'
  BY <1>1, <1>3 DEF IInv, TypeOK, SemsType
<1>5. /\ CallsOK'
      /\ \A x \in SemHandle : SemSleepers(x)' = SemSleepers(x)
      /\ \A k \in LockHandle : LockSleepers(k)' = LockSleepers(k)
      /\ \A c \in CondHandle : CondSleepers(c)' = CondSleepers(c)
  <2>1. ObjectsStay /\ waitQueue' = waitQueue \ {} /\ {} \in SUBSET waitQueue
    BY <1>1, <1>3 DEF ObjectsStay
  <2>2. /\ CallsOK'
        /\ \A x \in SemHandle : SemSleepers(x)' = SemSleepers(x) \ {}
        /\ \A k \in LockHandle : LockSleepers(k)' = LockSleepers(k) \ {}
        /\ \A c \in CondHandle : CondSleepers(c)' = CondSleepers(c) \ {}
    BY <1>1, <2>1, WakesLemma
  <2> QED
    BY <2>2
<1>6. SleepersInv'
  <2>1. QueuesOfSleepers
    BY SleepersInvParts DEF IInv
  <2>2. QueuesOfSleepers'
    BY <1>1, <1>3, <1>5, <2>1 DEF QueuesOfSleepers
  <2> QED
    BY <1>5, <2>2, SleepersInvPartsNext
<1>7. NoSleeperWithUnits'
  <2>1. ASSUME NEW x \in SemHandle, sems'[x].waiting # <<>>
        PROVE  sems'[x].count <= 0
    <3>1. sems[x].waiting # <<>> /\ sems[x].count <= 0 /\ sems[x].count \in Int
      BY <1>2, <1>3, <2>1 DEF IInv, NoSleeperWithUnits, SemsType
    <3> QED
      BY <1>3, <3>1
  <2> QED
    BY <2>1 DEF NoSleeperWithUnits
<1>8. LockInv' /\ WokenOwnsLock'
  BY <1>1 DEF IInv, LockInv, WokenOwnsLock, LockOf
<1> QED
  BY <1>1, <1>4, <1>6, <1>7, <1>8 DEF IInv

\* SemWait preserves the invariant, whether it takes a unit or sleeps.
LEMMA SemWaitLemma ==
  ASSUME IInv, UserMode, NEW s \in SemHandle, sems[s].inuse, SemWait(s)
  PROVE  IInv'
<1> DEFINE q == Append(sems[s].waiting, currentPCB)
<1>0. PICK t : t = [op |-> "sem_wait", on |-> s]
  OBVIOUS
<1>1. /\ SchedTypeOK /\ QueueInv /\ stopped = "no"
      /\ currentPCB \in Pid /\ currentPCB \notin waitQueue
      /\ currentPCB \notin InQueue(sems[s].waiting)
      /\ sems \in SemsType /\ sems[s].count \in Int /\ sems[s].waiting \in Seq(Pid)
      /\ QueuesOfSleepers
  BY UserLemma, SleepersInvParts DEF IInv, TypeOK, SemsType
<1>2. CASE sems[s].count > 0
  <2>1. /\ sems' = [sems EXCEPT ![s].count = sems[s].count - 1]
        /\ SetResult(SYNC_SUCCESS) /\ UNCHANGED <<schedVars, locks, conds>>
    BY <1>1, <1>2 DEF SemWait
  <2>2. sems[s].count - 1 \in Int /\ ~(sems[s].count - 1 > sems[s].count)
    BY <1>1
  <2> QED
    BY <2>1, <2>2, CountStepLemma
<1>3. CASE sems[s].count <= 0
  <2>1. /\ sems' = [sems EXCEPT ![s].waiting = q] /\ ProcessSleep
        /\ trap' = [trap EXCEPT ![currentPCB] = t] /\ r1' = r1
        /\ locks' = locks /\ conds' = conds
    BY <1>0, <1>1, <1>3 DEF SemWait, SleepsIn
  <2>2. /\ SchedTypeOK' /\ QueueInv'
        /\ waitQueue' = waitQueue \union {currentPCB}
    BY <1>1, <2>1, SleepLemma
  <2>3. /\ q \in Seq(Pid) /\ NoDuplicates(q)
        /\ InQueue(q) = InQueue(sems[s].waiting) \union {currentPCB}
    BY <1>1, AppendLemma DEF QueuesOfSleepers
  <2> HIDE DEF q
  <2>4. /\ sems' \in SemsType
        /\ \A x \in SemHandle : /\ sems'[x].waiting = IF x = s THEN q ELSE sems[x].waiting
                                /\ sems'[x].inuse = sems[x].inuse
                                /\ sems'[x].count = sems[x].count
    BY <1>1, <2>1, <2>3, SemQueueLemma
  <2>5. /\ CallsOK'
        /\ \A x \in SemHandle : SemSleepers(x)' =
             SemSleepers(x) \union (IF x = s THEN {currentPCB} ELSE {})
        /\ \A k \in LockHandle : LockSleepers(k)' = LockSleepers(k)
        /\ \A c \in CondHandle : CondSleepers(c)' = CondSleepers(c)
    <3>1. /\ ObjectsStay /\ CallOK(t) /\ CallOK(t)' /\ t # NoTrap
          /\ waitQueue' = (waitQueue \ {}) \union {currentPCB}
          /\ {} \in SUBSET waitQueue
      BY <1>0, <2>1, <2>2, <2>4 DEF CallOK, ObjectsStay, NoTrap
    <3>2. CallsOK' /\ Sleeps({}, t)
      BY <2>1, <3>1, BlocksLemma
    <3> QED
      BY <1>0, <3>2 DEF Sleeps, Caller
  <2>6. TypeOK'
    <3>1. trap' \in [Pid -> [op : Ops, on : Int]]
      BY <1>0, <1>1, <2>1 DEF IInv, TypeOK, Ops, LockOps, SemHandle
    <3> QED
      BY <2>1, <2>2, <2>4, <3>1 DEF IInv, TypeOK, SemsType
  <2>7. QueuesOfSleepers'
    <3>1. ASSUME NEW x \in SemHandle
          PROVE  NoDuplicates(sems'[x].waiting) /\ InQueue(sems'[x].waiting) = SemSleepers(x)'
      <4>1. CASE x = s
        BY <1>1, <2>3, <2>4, <2>5, <4>1 DEF QueuesOfSleepers
      <4>2. CASE x # s
        <5>1. SemSleepers(x)' = SemSleepers(x)
          BY <2>5, <4>2
        <5> QED
          BY <1>1, <2>4, <4>2, <5>1 DEF QueuesOfSleepers
      <4> QED
        BY <4>1, <4>2
    <3> QED
      BY <1>1, <2>1, <2>5, <3>1 DEF QueuesOfSleepers
  <2>8. NoSleeperWithUnits'
    BY <1>3, <2>4 DEF IInv, NoSleeperWithUnits
  <2>9. LockInv' /\ WokenOwnsLock'
    BY <1>0, <1>1, <2>1, <2>2 DEF IInv, TypeOK, LockInv, WokenOwnsLock, LockOf, LockOps
  <2> QED
    BY <2>2, <2>5, <2>6, <2>7, <2>8, <2>9, SleepersInvPartsNext DEF IInv
<1> QED
  BY <1>1, <1>2, <1>3

\* SemSignal preserves the invariant, whether it adds a unit or wakes the head
\* of the waiting queue.
LEMMA SemSignalLemma ==
  ASSUME IInv, UserMode, NEW s \in SemHandle, sems[s].inuse, SemSignal(s)
  PROVE  IInv'
<1> DEFINE w == Head(sems[s].waiting)
           q == Tail(sems[s].waiting)
<1>1. /\ SchedTypeOK /\ QueueInv /\ stopped = "no"
      /\ sems \in SemsType /\ sems[s].count \in Int /\ sems[s].waiting \in Seq(Pid)
      /\ QueuesOfSleepers
  BY UserLemma, SleepersInvParts DEF IInv, TypeOK, SemsType
<1>2. CASE ~SignalWakes(s)
  <2>1. /\ sems' = [sems EXCEPT ![s].count = sems[s].count + 1]
        /\ SetResult(SYNC_SUCCESS) /\ UNCHANGED <<schedVars, locks, conds>>
    BY <1>2 DEF SemSignal
  <2>2. sems[s].count + 1 \in Int
        /\ (sems[s].count + 1 <= 0 \/ sems[s].waiting = <<>>)
    BY <1>1, <1>2 DEF SignalWakes
  <2> QED
    BY <2>1, <2>2, CountStepLemma
<1>3. CASE SignalWakes(s)
  <2>1. /\ sems' = [sems EXCEPT ![s].waiting = q] /\ ProcessWakeup(w)
        /\ sems[s].waiting # <<>>
        /\ SetResult(SYNC_SUCCESS) /\ locks' = locks /\ conds' = conds
    BY <1>3 DEF SemSignal, SignalWakes
  <2>2. r1' \in [Pid -> Int] /\ trap' = trap
    BY <2>1, SuccessLemma DEF IInv
  <2>3. /\ w \in Pid /\ q \in Seq(Pid) /\ NoDuplicates(q)
        /\ InQueue(q) = InQueue(sems[s].waiting) \ {w}
        /\ w \in SemSleepers(s)
    BY <1>1, <2>1, TailLemma DEF QueuesOfSleepers
  <2> HIDE DEF w, q
  <2>4. w \in waitQueue /\ trap[w] = [op |-> "sem_wait", on |-> s]
    BY <2>3 DEF SemSleepers, SleepsOnSem
  <2>5. SchedTypeOK' /\ QueueInv' /\ waitQueue' = waitQueue \ {w}
    BY <1>1, <2>1, <2>4, WakeupLemma DEF ProcessWakeup
  <2>6. /\ sems' \in SemsType
        /\ \A x \in SemHandle : /\ sems'[x].waiting = IF x = s THEN q ELSE sems[x].waiting
                                /\ sems'[x].inuse = sems[x].inuse
                                /\ sems'[x].count = sems[x].count
    BY <1>1, <2>1, <2>3, SemQueueLemma
  <2>7. /\ CallsOK'
        /\ \A x \in SemHandle : SemSleepers(x)' = SemSleepers(x) \ {w}
        /\ \A k \in LockHandle : LockSleepers(k)' = LockSleepers(k) \ {w}
        /\ \A c \in CondHandle : CondSleepers(c)' = CondSleepers(c) \ {w}
    <3>1. ObjectsStay /\ {w} \in SUBSET waitQueue
      BY <2>1, <2>4, <2>6 DEF ObjectsStay
    <3> QED
      BY <2>2, <2>5, <3>1, WakesLemma
  <2>8. /\ \A x \in SemHandle \ {s} : SemSleepers(x) \ {w} = SemSleepers(x)
        /\ \A k \in LockHandle : LockSleepers(k) \ {w} = LockSleepers(k)
        /\ \A c \in CondHandle : CondSleepers(c) \ {w} = CondSleepers(c)
    BY <2>4 DEF SemSleepers, LockSleepers, CondSleepers, SleepsOnSem, SleepsForLock,
                SleepsOnCond
  <2>9. TypeOK'
    BY <2>1, <2>2, <2>5, <2>6 DEF IInv, TypeOK, SemsType
  <2>10. QueuesOfSleepers'
    <3>1. ASSUME NEW x \in SemHandle
          PROVE  NoDuplicates(sems'[x].waiting) /\ InQueue(sems'[x].waiting) = SemSleepers(x)'
      <4>1. CASE x = s
        BY <1>1, <2>3, <2>6, <2>7, <4>1 DEF QueuesOfSleepers
      <4>2. CASE x # s
        BY <1>1, <2>6, <2>7, <2>8, <4>2 DEF QueuesOfSleepers
      <4> QED
        BY <4>1, <4>2
    <3>2. ASSUME NEW k \in LockHandle
          PROVE  NoDuplicates(locks'[k].waiting) /\ InQueue(locks'[k].waiting) = LockSleepers(k)'
      BY <1>1, <2>1, <2>7, <2>8 DEF QueuesOfSleepers
    <3>3. ASSUME NEW c \in CondHandle
          PROVE  NoDuplicates(conds'[c].waiting) /\ InQueue(conds'[c].waiting) = CondSleepers(c)'
      BY <1>1, <2>1, <2>7, <2>8 DEF QueuesOfSleepers
    <3> QED
      BY <3>1, <3>2, <3>3 DEF QueuesOfSleepers
  <2>11. NoSleeperWithUnits'
    <3>1. sems[s].count <= 0
      BY <2>1 DEF IInv, NoSleeperWithUnits
    <3> QED
      BY <2>6, <3>1 DEF IInv, NoSleeperWithUnits
  <2>12. LockInv' /\ WokenOwnsLock'
    BY <2>1, <2>2, <2>4, <2>5 DEF IInv, LockInv, WokenOwnsLock, LockOf, LockOps
  <2> QED
    BY <2>5, <2>7, <2>9, <2>10, <2>11, <2>12, SleepersInvPartsNext DEF IInv
<1> QED
  BY <1>2, <1>3

-----------------------------------------------------------------------------
(* Locks *)

LocksType ==
  [LockHandle -> [inuse : BOOLEAN, pid : Pid \union {NoOwner}, waiting : Seq(Pid)]]

\* The locks with a new owner and a new waiting queue for lock k.
LocksWith(k, p, q) == [locks EXCEPT ![k].pid = p, ![k].waiting = q]

\* What a change of one lock's owner and queue leaves alone.
LEMMA LockUpdateLemma ==
  ASSUME locks \in LocksType, NEW k \in LockHandle,
         NEW p \in Pid \union {NoOwner}, NEW q \in Seq(Pid),
         locks' = LocksWith(k, p, q)
  PROVE  /\ locks' \in LocksType
         /\ locks'[k].pid = p /\ locks'[k].waiting = q /\ locks'[k].inuse = locks[k].inuse
         /\ \A x \in LockHandle \ {k} : locks'[x] = locks[x]
BY DEF LocksType, LocksWith

\* The process a lock handed over wakes, if there is one.
Handed(k) == IF locks[k].waiting = <<>> THEN {} ELSE {Head(locks[k].waiting)}

\* Who owns and who waits after a release.
LEMMA ReleasedLemma ==
  ASSUME IInv, UserMode, NEW k \in LockHandle, Owns(k), locks' = Released(k)
  PROVE  /\ locks' \in LocksType /\ locks'[k].inuse = locks[k].inuse
         /\ \A x \in LockHandle \ {k} : locks'[x] = locks[x]
         /\ Handed(k) \subseteq LockSleepers(k)
         /\ NoDuplicates(locks'[k].waiting)
         /\ InQueue(locks'[k].waiting) = LockSleepers(k) \ Handed(k)
         /\ locks'[k].waiting # <<>> => locks'[k].pid # NoOwner
         /\ locks'[k].pid \notin InQueue(locks'[k].waiting)
         /\ \/ Handed(k) = {} /\ locks'[k].pid = NoOwner
            \/ locks'[k].pid \in Pid /\ Handed(k) = {locks'[k].pid}
<1>1. /\ locks \in LocksType /\ locks[k].waiting \in Seq(Pid)
      /\ NoDuplicates(locks[k].waiting)
      /\ InQueue(locks[k].waiting) = LockSleepers(k)
  BY SleepersInvParts DEF IInv, TypeOK, LocksType, QueuesOfSleepers
<1>2. NoOwner \notin Pid
  BY DEF NoOwner, Pid
<1>3. CASE locks[k].waiting = <<>>
  <2>1. locks' = LocksWith(k, NoOwner, locks[k].waiting)
    BY <1>3 DEF Released, LocksWith
  <2>2. /\ locks' \in LocksType
        /\ locks'[k].pid = NoOwner /\ locks'[k].waiting = locks[k].waiting
        /\ locks'[k].inuse = locks[k].inuse
        /\ \A x \in LockHandle \ {k} : locks'[x] = locks[x]
    <3>1. NoOwner \in Pid \union {NoOwner}
      OBVIOUS
    <3> QED
      BY <1>1, <2>1, <3>1, LockUpdateLemma
  <2>3. Handed(k) = {}
    BY <1>3 DEF Handed
  <2>4. NoOwner \notin LockSleepers(k)
    BY <1>2 DEF LockSleepers
  <2> QED
    BY <1>1, <1>3, <2>2, <2>3, <2>4
<1>4. CASE locks[k].waiting # <<>>
  <2> DEFINE w == Head(locks[k].waiting)
             q == Tail(locks[k].waiting)
  <2>1. locks' = LocksWith(k, w, q)
    BY <1>4 DEF Released, LocksWith
  <2>2. /\ w \in Pid /\ q \in Seq(Pid) /\ NoDuplicates(q)
        /\ w \in LockSleepers(k) /\ InQueue(q) = LockSleepers(k) \ {w}
    BY <1>1, <1>4, TailLemma
  <2>3. Handed(k) = {w}
    BY <1>4 DEF Handed
  <2> HIDE DEF w, q
  <2>4. /\ locks' \in LocksType
        /\ locks'[k].pid = w /\ locks'[k].waiting = q
        /\ locks'[k].inuse = locks[k].inuse
        /\ \A x \in LockHandle \ {k} : locks'[x] = locks[x]
    BY <1>1, <2>1, <2>2, LockUpdateLemma
  <2> QED
    BY <1>2, <2>2, <2>3, <2>4
<1> QED
  BY <1>3, <1>4

\* A process woken by the release of k sleeps for no other object.
LEMMA HandedLemma ==
  ASSUME IInv, NEW k \in LockHandle, NEW W \in SUBSET LockSleepers(k)
  PROVE  /\ W \subseteq waitQueue
         /\ \A s \in SemHandle : SemSleepers(s) \ W = SemSleepers(s)
         /\ \A x \in LockHandle \ {k} : LockSleepers(x) \ W = LockSleepers(x)
         /\ \A c \in CondHandle : CondSleepers(c) \ W = CondSleepers(c)
BY DEF SemSleepers, LockSleepers, CondSleepers, SleepsOnSem, SleepsForLock, SleepsOnCond

\* The lock of a call on a lock or condition variable is a lock in use, and
\* no step that keeps the objects changes which one it is.
LEMMA LockOfLemma ==
  ASSUME IInv, NEW p \in Pid, trap[p].op \in LockOps
  PROVE  /\ LockOf(trap[p]) \in LockHandle
         /\ ObjectsStay /\ trap'[p] = trap[p] => LockOf(trap[p])' = LockOf(trap[p])
<1>1. CallOK(trap[p])
  BY DEF IInv, SleepersInv
<1>2. LockInv
  BY DEF IInv
<1> QED
  BY <1>1, <1>2 DEF CallOK, LockOf, LockOps, NoTrap, LockInv, ObjectsStay

\* LockRelease preserves the invariant: the lock goes to the process it wakes.
LEMMA LockReleaseLemma ==
  ASSUME IInv, UserMode, NEW k \in LockHandle, locks[k].inuse, LockRelease(k)
  PROVE  IInv'
<1>1. CASE FailsUnchanged
  BY <1>1, FailsLemma
<1>2. CASE ~FailsUnchanged
  <2> DEFINE W == Handed(k)
  <2>1. /\ SchedTypeOK /\ QueueInv /\ stopped = "no" /\ trap[currentPCB] = NoTrap
        /\ QueuesOfSleepers /\ TypeOK /\ locks \in LocksType
    BY UserLemma, SleepersInvParts DEF IInv, TypeOK, LocksType
  <2>2. /\ Owns(k) /\ locks' = Released(k) /\ SetResult(SYNC_SUCCESS)
        /\ sems' = sems /\ conds' = conds
        /\ \/ locks[k].waiting = <<>> /\ UNCHANGED schedVars
           \/ locks[k].waiting # <<>> /\ ProcessWakeup(Head(locks[k].waiting))
    BY <1>2 DEF LockRelease
  <2>3. /\ locks' \in LocksType /\ locks'[k].inuse = locks[k].inuse
        /\ \A x \in LockHandle \ {k} : locks'[x] = locks[x]
        /\ W \subseteq LockSleepers(k)
        /\ NoDuplicates(locks'[k].waiting)
        /\ InQueue(locks'[k].waiting) = LockSleepers(k) \ W
        /\ locks'[k].waiting # <<>> => locks'[k].pid # NoOwner
        /\ locks'[k].pid \notin InQueue(locks'[k].waiting)
        /\ \/ W = {} /\ locks'[k].pid = NoOwner
           \/ locks'[k].pid \in Pid /\ W = {locks'[k].pid}
    BY <2>2, ReleasedLemma
  <2>4. /\ W \subseteq waitQueue
        /\ \A s \in SemHandle : SemSleepers(s) \ W = SemSleepers(s)
        /\ \A x \in LockHandle \ {k} : LockSleepers(x) \ W = LockSleepers(x)
        /\ \A c \in CondHandle : CondSleepers(c) \ W = CondSleepers(c)
    BY <2>3, HandedLemma
  <2>5. r1' \in [Pid -> Int] /\ trap' = trap
    BY <2>1, <2>2, SuccessLemma
  <2>6. SchedTypeOK' /\ QueueInv' /\ waitQueue' = waitQueue \ W
    <3>1. CASE locks[k].waiting = <<>>
      BY <2>1, <2>2, <3>1 DEF schedVars, SchedTypeOK, QueueInv, QueuesMatch, Handed
    <3>2. CASE locks[k].waiting # <<>>
      <4>1. W = {Head(locks[k].waiting)}
        BY <3>2 DEF Handed
      <4>2. Head(locks[k].waiting) \in waitQueue /\ ProcessWakeup(Head(locks[k].waiting))
        BY <2>2, <2>4, <3>2, <4>1
      <4> QED
        BY <2>1, <4>1, <4>2, WakeupLemma DEF ProcessWakeup
    <3> QED
      BY <3>1, <3>2
  <2> HIDE DEF W
  <2>7. ObjectsStay
    BY <2>2, <2>3 DEF ObjectsStay
  <2>8. /\ CallsOK'
        /\ \A x \in SemHandle : SemSleepers(x)' = SemSleepers(x) \ W
        /\ \A x \in LockHandle : LockSleepers(x)' = LockSleepers(x) \ W
        /\ \A c \in CondHandle : CondSleepers(c)' = CondSleepers(c) \ W
    BY <2>4, <2>5, <2>6, <2>7, WakesLemma
  <2>9. TypeOK'
    BY <2>1, <2>2, <2>3, <2>5, <2>6 DEF TypeOK, LocksType
  <2>10. QueuesOfSleepers'
    BY <2>1, <2>2, <2>3, <2>4, <2>8 DEF QueuesOfSleepers
  <2>11. LockInv'
    <3>1. ASSUME NEW c \in CondHandle, conds[c].inuse
          PROVE  /\ conds[c].lock \in LockHandle /\ locks'[conds[c].lock].inuse
                 /\ locks'[conds[c].lock].pid \notin InQueue(conds[c].waiting)
      <4>1. /\ conds[c].lock \in LockHandle /\ locks[conds[c].lock].inuse
            /\ locks[conds[c].lock].pid \notin InQueue(conds[c].waiting)
            /\ InQueue(conds[c].waiting) = CondSleepers(c)
        BY <2>1, <3>1 DEF IInv, LockInv, QueuesOfSleepers
      <4>2. locks'[k].pid \notin CondSleepers(c)
        BY <2>3, <2>4 DEF CondSleepers, NoOwner, Pid
      <4> QED
        BY <2>3, <4>1, <4>2
    <3>2. ASSUME NEW x \in LockHandle
          PROVE  /\ locks'[x].waiting # <<>> => locks'[x].pid # NoOwner
                 /\ locks'[x].pid \notin InQueue(locks'[x].waiting)
                 /\ ~locks'[x].inuse => locks'[x].pid = NoOwner
      BY <2>3 DEF IInv, LockInv
    <3> QED
      BY <2>2, <3>1, <3>2 DEF LockInv
  <2>12. WokenOwnsLock'
    <3>1. ASSUME NEW p \in Pid, p \notin waitQueue', trap'[p].op \in LockOps
          PROVE  locks'[LockOf(trap[p])'].pid = p
      <4>1. /\ trap[p].op \in LockOps /\ LockOf(trap[p])' = LockOf(trap[p])
            /\ LockOf(trap[p]) \in LockHandle
        BY <2>5, <2>7, <3>1, LockOfLemma
      <4>2. CASE p \in W
        BY <2>3, <4>1, <4>2 DEF LockSleepers, SleepsForLock
      <4>3. CASE p \notin W
        <5>1. locks[LockOf(trap[p])].pid = p
          BY <2>6, <3>1, <4>1, <4>3 DEF IInv, WokenOwnsLock
        <5>2. p # currentPCB
          BY <2>1, <4>1 DEF NoTrap, LockOps
        <5> QED
          BY <2>2, <2>3, <4>1, <5>1, <5>2 DEF Owns
      <4> QED
        BY <4>2, <4>3
    <3> QED
      BY <3>1 DEF WokenOwnsLock
  <2>13. NoSleeperWithUnits'
    BY <2>2 DEF IInv, NoSleeperWithUnits
  <2> QED
    BY <2>6, <2>8, <2>9, <2>10, <2>11, <2>12, <2>13, SleepersInvPartsNext DEF IInv
<1> QED
  BY <1>1, <1>2

\* LockAcquire preserves the invariant: taken again, taken, or waited for.
LEMMA LockAcquireLemma ==
  ASSUME IInv, UserMode, NEW k \in LockHandle, locks[k].inuse, LockAcquire(k)
  PROVE  IInv'
<1> DEFINE q == Append(locks[k].waiting, currentPCB)
<1>0. PICK t : t = [op |-> "lock_acquire", on |-> k]
  OBVIOUS
<1>1. /\ SchedTypeOK /\ QueueInv /\ stopped = "no" /\ trap[currentPCB] = NoTrap
      /\ currentPCB \in Pid /\ currentPCB \notin waitQueue
      /\ currentPCB \notin InQueue(locks[k].waiting)
      /\ \A c \in CondHandle : currentPCB \notin InQueue(conds[c].waiting)
  BY UserLemma
<1>2. /\ QueuesOfSleepers /\ TypeOK /\ LockInv /\ WokenOwnsLock
      /\ locks \in LocksType /\ locks[k].waiting \in Seq(Pid)
      /\ sems' = sems /\ conds' = conds
  BY SleepersInvParts DEF IInv, TypeOK, LocksType, LockAcquire
<1>3. NoSleeperWithUnits'
  BY <1>2 DEF IInv, NoSleeperWithUnits
<1>4. CASE locks[k].pid = currentPCB
  <2>1. SetResult(SYNC_SUCCESS) /\ UNCHANGED <<schedVars, synchVars>>
    BY <1>1, <1>2, <1>4 DEF LockAcquire, synchVars, NoOwner, Pid
  <2>2. SYNC_SUCCESS \in Int
    BY DEF SYNC_SUCCESS
  <2> QED
    BY <2>1, <2>2, ResultLemma
<1>5. CASE locks[k].pid \notin {currentPCB, NoOwner}
  <2>1. /\ locks' = [locks EXCEPT ![k].waiting = q] /\ ProcessSleep
        /\ trap' = [trap EXCEPT ![currentPCB] = t] /\ r1' = r1
    BY <1>0, <1>5 DEF LockAcquire, SleepsIn
  <2>2. /\ SchedTypeOK' /\ QueueInv'
        /\ waitQueue' = waitQueue \union {currentPCB}
    BY <1>1, <2>1, SleepLemma
  <2>3. /\ q \in Seq(Pid) /\ NoDuplicates(q)
        /\ InQueue(q) = InQueue(locks[k].waiting) \union {currentPCB}
    BY <1>1, <1>2, AppendLemma DEF QueuesOfSleepers
  <2> HIDE DEF q
  <2>4. /\ locks' \in LocksType
        /\ \A x \in LockHandle :
             /\ locks'[x].waiting = IF x = k THEN q ELSE locks[x].waiting
             /\ locks'[x].inuse = locks[x].inuse
             /\ locks'[x].pid = locks[x].pid
    BY <1>2, <2>1, <2>3 DEF LocksType
  <2>5. /\ CallsOK'
        /\ \A s \in SemHandle : SemSleepers(s)' = SemSleepers(s)
        /\ \A x \in LockHandle : LockSleepers(x)' =
             LockSleepers(x) \union (IF x = k THEN {currentPCB} ELSE {})
        /\ \A c \in CondHandle : CondSleepers(c)' = CondSleepers(c)
    <3>1. /\ ObjectsStay /\ CallOK(t) /\ CallOK(t)' /\ t # NoTrap
          /\ waitQueue' = (waitQueue \ {}) \union {currentPCB}
          /\ {} \in SUBSET waitQueue
      BY <1>0, <1>2, <2>2, <2>4 DEF CallOK, ObjectsStay, NoTrap
    <3>2. CallsOK' /\ Sleeps({}, t)
      BY <2>1, <3>1, BlocksLemma
    <3> QED
      BY <1>0, <3>2 DEF Sleeps, Caller, LockOf
  <2>6. TypeOK'
    <3>1. trap' \in [Pid -> [op : Ops, on : Int]]
      BY <1>0, <1>1, <1>2, <2>1 DEF TypeOK, Ops, LockOps, LockHandle
    <3> QED
      BY <1>2, <2>1, <2>2, <2>4, <3>1 DEF TypeOK, LocksType
  <2>7. QueuesOfSleepers'
    <3>1. ASSUME NEW x \in LockHandle
          PROVE  NoDuplicates(locks'[x].waiting) /\ InQueue(locks'[x].waiting) = LockSleepers(x)'
      <4>1. CASE x = k
        BY <1>2, <2>3, <2>4, <2>5, <4>1 DEF QueuesOfSleepers
      <4>2. CASE x # k
        <5>1. LockSleepers(x)' = LockSleepers(x)
          BY <2>5, <4>2
        <5> QED
          BY <1>2, <2>4, <4>2, <5>1 DEF QueuesOfSleepers
      <4> QED
        BY <4>1, <4>2
    <3> QED
      BY <1>2, <2>5, <3>1 DEF QueuesOfSleepers
  <2>8. LockInv'
    BY <1>2, <1>5, <2>3, <2>4 DEF LockInv
  <2>9. WokenOwnsLock'
    <3>1. ASSUME NEW p \in Pid, p \notin waitQueue', trap'[p].op \in LockOps
          PROVE  locks'[LockOf(trap[p])'].pid = p
      <4>1. p # currentPCB /\ p \notin waitQueue
        BY <2>2, <3>1
      <4>2. trap'[p] = trap[p] /\ ObjectsStay
        BY <1>2, <2>1, <2>4, <4>1 DEF TypeOK, ObjectsStay
      <4>3. /\ LockOf(trap[p])' = LockOf(trap[p]) /\ LockOf(trap[p]) \in LockHandle
            /\ locks[LockOf(trap[p])].pid = p
        BY <1>2, <3>1, <4>1, <4>2, LockOfLemma DEF WokenOwnsLock
      <4> QED
        BY <2>4, <4>3
    <3> QED
      BY <3>1 DEF WokenOwnsLock
  <2> QED
    BY <1>3, <2>2, <2>5, <2>6, <2>7, <2>8, <2>9, SleepersInvPartsNext DEF IInv
<1>6. CASE locks[k].pid = NoOwner
  <2>1. /\ locks' = [locks EXCEPT ![k].pid = currentPCB]
        /\ SetResult(SYNC_SUCCESS) /\ UNCHANGED schedVars
    BY <1>1, <1>6 DEF LockAcquire, NoOwner, Pid
  <2>2. /\ SchedTypeOK' /\ QueueInv' /\ waitQueue' = waitQueue
        /\ r1' \in [Pid -> Int] /\ trap' = trap
    BY <1>1, <1>2, <2>1, SuccessLemma DEF schedVars, SchedTypeOK, QueueInv, QueuesMatch
  <2>3. /\ locks' \in LocksType
        /\ \A x \in LockHandle :
             /\ locks'[x].waiting = locks[x].waiting
             /\ locks'[x].inuse = locks[x].inuse
             /\ locks'[x].pid = IF x = k THEN currentPCB ELSE locks[x].pid
    BY <1>1, <1>2, <2>1 DEF LocksType
  <2>4. ObjectsStay /\ waitQueue' = waitQueue \ {} /\ {} \in SUBSET waitQueue
    BY <1>2, <2>2, <2>3 DEF ObjectsStay
  <2>5. /\ CallsOK'
        /\ \A x \in SemHandle : SemSleepers(x)' = SemSleepers(x) \ {}
        /\ \A x \in LockHandle : LockSleepers(x)' = LockSleepers(x) \ {}
        /\ \A c \in CondHandle : CondSleepers(c)' = CondSleepers(c) \ {}
    BY <2>2, <2>4, WakesLemma
  <2>6. TypeOK'
    BY <1>2, <2>2, <2>3 DEF TypeOK, LocksType
  <2>7. QueuesOfSleepers'
    BY <1>2, <2>3, <2>5 DEF QueuesOfSleepers
  <2>8. LockInv'
    <3>1. ASSUME NEW x \in LockHandle
          PROVE  /\ locks'[x].waiting # <<>> => locks'[x].pid # NoOwner
                 /\ locks'[x].pid \notin InQueue(locks'[x].waiting)
                 /\ ~locks'[x].inuse => locks'[x].pid = NoOwner
      BY <1>1, <1>2, <1>6, <2>3 DEF LockInv
    <3>2. ASSUME NEW c \in CondHandle, conds[c].inuse
          PROVE  /\ conds[c].lock \in LockHandle /\ locks'[conds[c].lock].inuse
                 /\ locks'[conds[c].lock].pid \notin InQueue(conds[c].waiting)
      BY <1>1, <1>2, <2>3, <3>2 DEF LockInv
    <3> QED
      BY <1>2, <3>1, <3>2 DEF LockInv
  <2>9. WokenOwnsLock'
    <3>1. ASSUME NEW p \in Pid, p \notin waitQueue', trap'[p].op \in LockOps
          PROVE  locks'[LockOf(trap[p])'].pid = p
      <4>1. /\ LockOf(trap[p])' = LockOf(trap[p]) /\ LockOf(trap[p]) \in LockHandle
            /\ locks[LockOf(trap[p])].pid = p
        BY <1>2, <2>2, <2>4, <3>1, LockOfLemma DEF WokenOwnsLock
      <4>2. LockOf(trap[p]) # k
        BY <1>6, <4>1 DEF NoOwner, Pid
      <4> QED
        BY <2>3, <4>1, <4>2
    <3> QED
      BY <3>1 DEF WokenOwnsLock
  <2> QED
    BY <1>3, <2>2, <2>5, <2>6, <2>7, <2>8, <2>9, SleepersInvPartsNext DEF IInv
<1> QED
  BY <1>4, <1>5, <1>6

-----------------------------------------------------------------------------
(* Creating semaphores, locks and condition variables *)

\* Nobody sleeps for an object that is not in use.
LEMMA UnusedLemma ==
  ASSUME IInv
  PROVE  /\ \A s \in SemHandle : ~sems[s].inuse => SemSleepers(s) = {}
         /\ \A k \in LockHandle : ~locks[k].inuse => LockSleepers(k) = {}
         /\ \A c \in CondHandle : ~conds[c].inuse => CondSleepers(c) = {}
<1>1. \A p \in Pid : CallOK(trap[p])
  BY DEF IInv, SleepersInv
<1>2. ASSUME NEW s \in SemHandle, ~sems[s].inuse
      PROVE  SemSleepers(s) = {}
  BY <1>1, <1>2 DEF CallOK, SemSleepers, SleepsOnSem, NoTrap
<1>3. ASSUME NEW k \in LockHandle, ~locks[k].inuse
      PROVE  LockSleepers(k) = {}
  <2>1. ASSUME NEW p \in Pid, SleepsForLock(p, k)
        PROVE  FALSE
    <3>1. trap[p].op \in LockOps /\ LockOf(trap[p]) = k /\ CallOK(trap[p])
      BY <1>1, <2>1 DEF SleepsForLock, LockOps
    <3>2. \A c \in CondHandle : conds[c].inuse => locks[conds[c].lock].inuse
      BY DEF IInv, LockInv
    <3> QED
      BY <1>3, <3>1, <3>2 DEF CallOK, LockOf, NoTrap, LockOps
  <2> QED
    BY <2>1 DEF LockSleepers
<1>4. ASSUME NEW c \in CondHandle, ~conds[c].inuse
      PROVE  CondSleepers(c) = {}
  BY <1>1, <1>4 DEF CallOK, CondSleepers, SleepsOnCond, NoTrap
<1> QED
  BY <1>2, <1>3, <1>4

\* A step that sets a result and puts an unused object to use moves nobody.
LEMMA CreatesLemma ==
  ASSUME IInv, UserMode, ObjectsStay, NEW h \in Int, SetResult(h), UNCHANGED schedVars,
         \A k \in LockHandle : locks'[k].pid = locks[k].pid
  PROVE  /\ SchedTypeOK' /\ QueueInv' /\ CallsOK' /\ r1' \in [Pid -> Int] /\ trap' = trap
         /\ \A s \in SemHandle : SemSleepers(s)' = SemSleepers(s)
         /\ \A k \in LockHandle : LockSleepers(k)' = LockSleepers(k)
         /\ \A c \in CondHandle : CondSleepers(c)' = CondSleepers(c)
         /\ WokenOwnsLock'
<1>1. SchedTypeOK' /\ QueueInv' /\ waitQueue' = waitQueue
  BY DEF IInv, TypeOK, schedVars, SchedTypeOK, QueueInv, QueuesMatch
<1>2. r1' \in [Pid -> Int] /\ trap' = trap
  BY DEF SetResult, IInv, TypeOK
<1>3. waitQueue' = waitQueue \ {} /\ {} \in SUBSET waitQueue
  BY <1>1
<1>4. /\ CallsOK'
      /\ \A s \in SemHandle : SemSleepers(s)' = SemSleepers(s) \ {}
      /\ \A k \in LockHandle : LockSleepers(k)' = LockSleepers(k) \ {}
      /\ \A c \in CondHandle : CondSleepers(c)' = CondSleepers(c) \ {}
  BY <1>2, <1>3, WakesLemma
<1>5. ASSUME NEW p \in Pid, p \notin waitQueue', trap'[p].op \in LockOps
      PROVE  locks'[LockOf(trap[p])'].pid = p
  <2>1. /\ LockOf(trap[p])' = LockOf(trap[p]) /\ LockOf(trap[p]) \in LockHandle
        /\ locks[LockOf(trap[p])].pid = p
    BY <1>1, <1>2, <1>5, LockOfLemma DEF IInv, WokenOwnsLock
  <2> QED
    BY <2>1
<1> QED
  BY <1>1, <1>2, <1>4, <1>5 DEF WokenOwnsLock

\* A new semaphore takes a slot on whose queue nobody was.
LEMMA SemCreateLemma ==
  ASSUME IInv, NEW n \in InitialCounts, SemCreate(n)
  PROVE  IInv'
<1>1. CASE FailsUnchanged
  BY <1>1, FailsLemma
<1>2. CASE ~FailsUnchanged
  <2>1. PICK s \in SemHandle :
          /\ FirstUnused(sems, s)
          /\ sems' = [sems EXCEPT ![s] = [inuse |-> TRUE, count |-> n, waiting |-> <<>>]]
          /\ SetResult(s)
          /\ UNCHANGED <<schedVars, locks, conds>>
    BY <1>2 DEF SemCreate
  <2>2. /\ sems \in SemsType /\ QueuesOfSleepers /\ currentPCB \in Pid
        /\ UserMode /\ ~sems[s].inuse /\ s \in Int /\ n \in Int
        /\ SemSleepers(s) = {}
    <3>1. UserMode /\ ~sems[s].inuse
      BY <2>1 DEF SemCreate, FirstUnused
    <3>2. sems \in SemsType /\ QueuesOfSleepers
      BY SleepersInvParts DEF IInv, TypeOK, SemsType
    <3>3. s \in Int /\ n \in Int
      BY SynchAssumption DEF SemHandle
    <3> QED
      BY <3>1, <3>2, <3>3, UserLemma, UnusedLemma
  <2>3. <<>> \in Seq(Pid) /\ InQueue(<<>>) = {} /\ NoDuplicates(<<>>)
    BY <2>2, SmallQueueLemma
  <2>4. /\ sems' \in SemsType /\ locks' = locks /\ conds' = conds
        /\ sems'[s].inuse /\ sems'[s].waiting = <<>>
        /\ \A x \in SemHandle \ {s} : sems'[x] = sems[x]
    BY <2>1, <2>2, <2>3 DEF SemsType
  <2>5. ObjectsStay /\ UNCHANGED schedVars
    BY <2>1, <2>2, <2>4 DEF ObjectsStay
  <2>6. /\ SchedTypeOK' /\ QueueInv' /\ CallsOK' /\ r1' \in [Pid -> Int] /\ trap' = trap
        /\ \A x \in SemHandle : SemSleepers(x)' = SemSleepers(x)
        /\ \A k \in LockHandle : LockSleepers(k)' = LockSleepers(k)
        /\ \A c \in CondHandle : CondSleepers(c)' = CondSleepers(c)
        /\ WokenOwnsLock'
    BY <2>1, <2>2, <2>4, <2>5, CreatesLemma
  <2>7. TypeOK'
    BY <2>4, <2>6 DEF IInv, TypeOK, SemsType
  <2>8. QueuesOfSleepers'
    BY <2>2, <2>3, <2>4, <2>6 DEF QueuesOfSleepers
  <2>9. NoSleeperWithUnits' /\ LockInv'
    BY <2>4 DEF IInv, NoSleeperWithUnits, LockInv
  <2> QED
    BY <2>6, <2>7, <2>8, <2>9, SleepersInvPartsNext DEF IInv
<1> QED
  BY <1>1, <1>2

\* A new lock takes a slot that nobody owned or waited for.
LEMMA LockCreateLemma ==
  ASSUME IInv, LockCreate
  PROVE  IInv'
<1>1. CASE FailsUnchanged
  BY <1>1, FailsLemma
<1>2. CASE ~FailsUnchanged
  <2>1. PICK k \in LockHandle :
          /\ FirstUnused(locks, k)
          /\ locks' = [locks EXCEPT ![k] = [inuse |-> TRUE, pid |-> NoOwner,
                                            waiting |-> <<>>]]
          /\ SetResult(k)
          /\ UNCHANGED <<schedVars, sems, conds>>
    BY <1>2 DEF LockCreate
  <2>2. /\ locks \in LocksType /\ QueuesOfSleepers /\ currentPCB \in Pid /\ LockInv
        /\ UserMode /\ ~locks[k].inuse /\ k \in Int
        /\ LockSleepers(k) = {}
    <3>1. UserMode /\ ~locks[k].inuse /\ k \in Int
      BY <2>1 DEF LockCreate, FirstUnused, LockHandle
    <3>2. locks \in LocksType /\ QueuesOfSleepers /\ LockInv
      BY SleepersInvParts DEF IInv, TypeOK, LocksType
    <3> QED
      BY <3>1, <3>2, UserLemma, UnusedLemma
  <2>3. <<>> \in Seq(Pid) /\ InQueue(<<>>) = {} /\ NoDuplicates(<<>>)
    BY <2>2, SmallQueueLemma
  <2>4. /\ locks' \in LocksType /\ sems' = sems /\ conds' = conds
        /\ locks'[k].inuse /\ locks'[k].pid = NoOwner /\ locks'[k].waiting = <<>>
        /\ \A x \in LockHandle \ {k} : locks'[x] = locks[x]
    BY <2>1, <2>2, <2>3 DEF LocksType
  <2>5. /\ ObjectsStay /\ UNCHANGED schedVars
        /\ \A x \in LockHandle : locks'[x].pid = locks[x].pid
    BY <2>1, <2>2, <2>4 DEF ObjectsStay, LockInv
  <2>6. /\ SchedTypeOK' /\ QueueInv' /\ CallsOK' /\ r1' \in [Pid -> Int] /\ trap' = trap
        /\ \A s \in SemHandle : SemSleepers(s)' = SemSleepers(s)
        /\ \A x \in LockHandle : LockSleepers(x)' = LockSleepers(x)
        /\ \A c \in CondHandle : CondSleepers(c)' = CondSleepers(c)
        /\ WokenOwnsLock'
    BY <2>1, <2>2, <2>5, CreatesLemma
  <2>7. TypeOK'
    BY <2>4, <2>6 DEF IInv, TypeOK, LocksType
  <2>8. QueuesOfSleepers'
    BY <2>2, <2>3, <2>4, <2>6 DEF QueuesOfSleepers
  <2>9. NoSleeperWithUnits'
    BY <2>4 DEF IInv, NoSleeperWithUnits
  <2>10. LockInv'
    <3>1. ASSUME NEW x \in LockHandle
          PROVE  /\ locks'[x].waiting # <<>> => locks'[x].pid # NoOwner
                 /\ locks'[x].pid \notin InQueue(locks'[x].waiting)
                 /\ ~locks'[x].inuse => locks'[x].pid = NoOwner
      <4>1. CASE x = k
        BY <2>3, <2>4, <4>1
      <4>2. CASE x # k
        BY <2>2, <2>4, <4>2 DEF LockInv
      <4> QED
        BY <4>1, <4>2
    <3>2. ASSUME NEW c \in CondHandle, conds[c].inuse
          PROVE  /\ conds[c].lock \in LockHandle /\ locks'[conds[c].lock].inuse
                 /\ locks'[conds[c].lock].pid \notin InQueue(conds[c].waiting)
      BY <2>2, <2>5, <3>2 DEF LockInv, ObjectsStay
    <3> QED
      BY <2>4, <3>1, <3>2 DEF LockInv
  <2> QED
    BY <2>6, <2>7, <2>8, <2>9, <2>10, SleepersInvPartsNext DEF IInv
<1> QED
  BY <1>1, <1>2

CondsType ==
  [CondHandle -> [inuse : BOOLEAN, lock : LockHandle \union {NoOwner}, waiting : Seq(Pid)]]

\* A new condition variable takes a slot on whose queue nobody was, and its
\* lock is in use.
LEMMA CondCreateLemma ==
  ASSUME IInv, NEW k \in LockHandle, CondCreate(k)
  PROVE  IInv'
<1>1. CASE SetResult(INVALID_COND) /\ UNCHANGED <<schedVars, synchVars>>
  <2>1. INVALID_COND \in Int
    BY DEF INVALID_COND
  <2> QED
    BY <1>1, <2>1, ResultLemma
<1>2. CASE ~(SetResult(INVALID_COND) /\ UNCHANGED <<schedVars, synchVars>>)
  <2>1. PICK c \in CondHandle :
          /\ FirstUnused(conds, c)
          /\ conds' = [conds EXCEPT ![c] = [inuse |-> TRUE, lock |-> k, waiting |-> <<>>]]
          /\ SetResult(c)
          /\ UNCHANGED <<schedVars, sems, locks>>
    BY <1>2 DEF CondCreate
  <2>2. /\ conds \in CondsType /\ QueuesOfSleepers /\ currentPCB \in Pid /\ LockInv
        /\ UserMode /\ ~conds[c].inuse /\ c \in Int /\ CondSleepers(c) = {}
    <3>1. UserMode /\ ~conds[c].inuse /\ c \in Int
      BY <2>1 DEF CondCreate, FirstUnused, CondHandle
    <3>2. conds \in CondsType /\ QueuesOfSleepers /\ LockInv
      BY SleepersInvParts DEF IInv, TypeOK, CondsType
    <3> QED
      BY <3>1, <3>2, UserLemma, UnusedLemma
  <2>3. locks[k].inuse
    BY <1>2 DEF CondCreate
  <2>4. <<>> \in Seq(Pid) /\ InQueue(<<>>) = {} /\ NoDuplicates(<<>>)
    BY <2>2, SmallQueueLemma
  <2>5. /\ conds' \in CondsType /\ sems' = sems /\ locks' = locks
        /\ conds'[c].inuse /\ conds'[c].lock = k /\ conds'[c].waiting = <<>>
        /\ \A x \in CondHandle \ {c} : conds'[x] = conds[x]
    BY <2>1, <2>2, <2>4 DEF CondsType
  <2>6. /\ ObjectsStay /\ UNCHANGED schedVars
        /\ \A x \in LockHandle : locks'[x].pid = locks[x].pid
    BY <2>1, <2>2, <2>5 DEF ObjectsStay
  <2>7. /\ SchedTypeOK' /\ QueueInv' /\ CallsOK' /\ r1' \in [Pid -> Int] /\ trap' = trap
        /\ \A s \in SemHandle : SemSleepers(s)' = SemSleepers(s)
        /\ \A x \in LockHandle : LockSleepers(x)' = LockSleepers(x)
        /\ \A x \in CondHandle : CondSleepers(x)' = CondSleepers(x)
        /\ WokenOwnsLock'
    BY <2>1, <2>2, <2>6, CreatesLemma
  <2>8. TypeOK'
    BY <2>5, <2>7 DEF IInv, TypeOK, CondsType
  <2>9. QueuesOfSleepers'
    BY <2>2, <2>4, <2>5, <2>7 DEF QueuesOfSleepers
  <2>10. NoSleeperWithUnits'
    BY <2>5 DEF IInv, NoSleeperWithUnits
  <2>11. LockInv'
    BY <2>2, <2>3, <2>4, <2>5 DEF LockInv
  <2> QED
    BY <2>7, <2>8, <2>9, <2>10, <2>11, SleepersInvPartsNext DEF IInv
<1> QED
  BY <1>1, <1>2

-----------------------------------------------------------------------------
(* Waiting on and signalling condition variables *)

\* What an assignment to one condition variable's waiting queue leaves alone.
LEMMA CondQueueLemma ==
  ASSUME conds \in CondsType, NEW c \in CondHandle, NEW q \in Seq(Pid),
         conds' = [conds EXCEPT ![c].waiting = q]
  PROVE  /\ conds' \in CondsType
         /\ \A x \in CondHandle : /\ conds'[x].waiting = IF x = c THEN q ELSE conds[x].waiting
                                  /\ conds'[x].inuse = conds[x].inuse
                                  /\ conds'[x].lock = conds[x].lock
BY DEF CondsType

\* CondWait preserves the invariant: the caller joins the condition's queue and
\* its lock goes to the first process waiting for it.
LEMMA CondWaitLemma ==
  ASSUME IInv, UserMode, NEW c \in CondHandle, conds[c].inuse, CondWait(c)
  PROVE  IInv'
<1> DEFINE k == conds[c].lock
           q == Append(conds[c].waiting, currentPCB)
           W == Handed(k)
<1>0. PICK t : t = [op |-> "cond_wait", on |-> c]
  OBVIOUS
<1>1. CASE FailsUnchanged
  BY <1>1, FailsLemma
<1>2. CASE ~FailsUnchanged
  <2>1. /\ SchedTypeOK /\ QueueInv /\ stopped = "no" /\ trap[currentPCB] = NoTrap
        /\ currentPCB \in Pid /\ currentPCB \notin waitQueue
        /\ currentPCB \notin InQueue(conds[c].waiting)
    BY UserLemma
  <2>2. /\ QueuesOfSleepers /\ TypeOK /\ LockInv /\ WokenOwnsLock
        /\ locks \in LocksType /\ conds \in CondsType /\ conds[c].waiting \in Seq(Pid)
        /\ k \in LockHandle
    BY SleepersInvParts DEF IInv, TypeOK, LocksType, CondsType, LockInv
  <2>3. /\ Owns(k) /\ conds' = [conds EXCEPT ![c].waiting = q] /\ locks' = Released(k)
        /\ SleepsIn("cond_wait", c) /\ sems' = sems
        /\ \/ locks[k].waiting = <<>> /\ ProcessSleep
           \/ locks[k].waiting # <<>> /\ WakeupAndSleep(Head(locks[k].waiting))
    BY <1>2 DEF CondWait
  <2>4. trap' = [trap EXCEPT ![currentPCB] = t] /\ r1' = r1
    BY <1>0, <2>3 DEF SleepsIn
  <2>5. /\ q \in Seq(Pid) /\ NoDuplicates(q)
        /\ InQueue(q) = InQueue(conds[c].waiting) \union {currentPCB}
    BY <2>1, <2>2, AppendLemma DEF QueuesOfSleepers
  <2> HIDE DEF k, q
  <2>6. /\ locks' \in LocksType /\ locks'[k].inuse = locks[k].inuse
        /\ \A x \in LockHandle \ {k} : locks'[x] = locks[x]
        /\ W \subseteq LockSleepers(k)
        /\ NoDuplicates(locks'[k].waiting)
        /\ InQueue(locks'[k].waiting) = LockSleepers(k) \ W
        /\ locks'[k].waiting # <<>> => locks'[k].pid # NoOwner
        /\ locks'[k].pid \notin InQueue(locks'[k].waiting)
        /\ \/ W = {} /\ locks'[k].pid = NoOwner
           \/ locks'[k].pid \in Pid /\ W = {locks'[k].pid}
    BY <2>2, <2>3, ReleasedLemma
  <2>7. /\ W \subseteq waitQueue
        /\ \A s \in SemHandle : SemSleepers(s) \ W = SemSleepers(s)
        /\ \A x \in LockHandle \ {k} : LockSleepers(x) \ W = LockSleepers(x)
        /\ \A x \in CondHandle : CondSleepers(x) \ W = CondSleepers(x)
    BY <2>2, <2>6, HandedLemma
  <2>8. SchedTypeOK' /\ QueueInv' /\ waitQueue' = (waitQueue \ W) \union {currentPCB}
    <3>1. CASE locks[k].waiting = <<>>
      BY <2>1, <2>3, <3>1, SleepLemma DEF Handed
    <3>2. CASE locks[k].waiting # <<>>
      <4>1. W = {Head(locks[k].waiting)}
        BY <3>2 DEF Handed
      <4>2. Head(locks[k].waiting) \in waitQueue /\ WakeupAndSleep(Head(locks[k].waiting))
        BY <2>3, <2>7, <3>2, <4>1
      <4> QED
        BY <2>1, <4>1, <4>2, WakeupAndSleepLemma
    <3> QED
      BY <3>1, <3>2
  <2> HIDE DEF W
  <2>9. /\ conds' \in CondsType
        /\ \A x \in CondHandle : /\ conds'[x].waiting = IF x = c THEN q ELSE conds[x].waiting
                                 /\ conds'[x].inuse = conds[x].inuse
                                 /\ conds'[x].lock = conds[x].lock
    BY <2>2, <2>3, <2>5, CondQueueLemma
  <2>10. ObjectsStay
    BY <2>3, <2>6, <2>9 DEF ObjectsStay
  <2>11. /\ CallsOK'
         /\ \A x \in SemHandle : SemSleepers(x)' = SemSleepers(x)
         /\ \A x \in LockHandle : LockSleepers(x)' = LockSleepers(x) \ W
         /\ \A x \in CondHandle : CondSleepers(x)' =
              CondSleepers(x) \union (IF x = c THEN {currentPCB} ELSE {})
    <3>1. CallOK(t) /\ CallOK(t)' /\ t # NoTrap
      BY <1>0, <2>9 DEF CallOK, NoTrap
    <3>2. CallsOK' /\ Sleeps(W, t)
      BY <2>4, <2>7, <2>8, <2>10, <3>1, BlocksLemma
    <3>3. /\ \A x \in SemHandle : Caller(t = [op |-> "sem_wait", on |-> x]) = {}
          /\ ~(t.op \in {"lock_acquire", "cond_signal"}) /\ Caller(FALSE) = {}
          /\ \A x \in CondHandle : Caller(t = [op |-> "cond_wait", on |-> x]) =
                                   IF x = c THEN {currentPCB} ELSE {}
      BY <1>0 DEF Caller
    <3>4. \A x \in SemHandle : SemSleepers(x)' = SemSleepers(x)
      BY <2>7, <3>2, <3>3 DEF Sleeps
    <3>5. \A x \in LockHandle : LockSleepers(x)' = LockSleepers(x) \ W
      BY <3>2, <3>3 DEF Sleeps, Caller
    <3>6. \A x \in CondHandle : CondSleepers(x)' =
              CondSleepers(x) \union (IF x = c THEN {currentPCB} ELSE {})
      BY <2>7, <3>2, <3>3 DEF Sleeps
    <3> QED
      BY <3>2, <3>4, <3>5, <3>6
  <2>12. TypeOK'
    <3>1. trap' \in [Pid -> [op : Ops, on : Int]]
      BY <1>0, <2>1, <2>2, <2>4 DEF TypeOK, Ops, LockOps, CondHandle
    <3> QED
      BY <2>2, <2>3, <2>4, <2>6, <2>8, <2>9, <3>1 DEF TypeOK, LocksType, CondsType
  <2>13. QueuesOfSleepers'
    <3>1. ASSUME NEW x \in LockHandle
          PROVE  NoDuplicates(locks'[x].waiting) /\ InQueue(locks'[x].waiting) = LockSleepers(x)'
      BY <2>2, <2>6, <2>7, <2>11 DEF QueuesOfSleepers
    <3>2. ASSUME NEW x \in CondHandle
          PROVE  NoDuplicates(conds'[x].waiting) /\ InQueue(conds'[x].waiting) = CondSleepers(x)'
      <4>1. CASE x = c
        BY <2>2, <2>5, <2>9, <2>11, <4>1 DEF QueuesOfSleepers
      <4>2. CASE x # c
        <5>1. CondSleepers(x)' = CondSleepers(x)
          BY <2>11, <4>2
        <5> QED
          BY <2>2, <2>9, <4>2, <5>1 DEF QueuesOfSleepers
      <4> QED
        BY <4>1, <4>2
    <3> QED
      BY <2>2, <2>3, <2>11, <3>1, <3>2 DEF QueuesOfSleepers
  <2>14. NoSleeperWithUnits'
    BY <2>3 DEF IInv, NoSleeperWithUnits
  <2>15. LockInv'
    <3>1. ASSUME NEW x \in LockHandle
          PROVE  /\ locks'[x].waiting # <<>> => locks'[x].pid # NoOwner
                 /\ locks'[x].pid \notin InQueue(locks'[x].waiting)
                 /\ ~locks'[x].inuse => locks'[x].pid = NoOwner
      <4>1. locks[k].inuse
        BY <2>2 DEF LockInv, k
      <4> QED
        BY <2>2, <2>6, <4>1 DEF LockInv
    <3>2. ASSUME NEW x \in CondHandle, conds'[x].inuse
          PROVE  /\ conds'[x].lock \in LockHandle /\ locks'[conds'[x].lock].inuse
                 /\ locks'[conds'[x].lock].pid \notin InQueue(conds'[x].waiting)
      <4>1. /\ conds[x].lock \in LockHandle /\ locks[conds[x].lock].inuse
            /\ locks[conds[x].lock].pid \notin InQueue(conds[x].waiting)
            /\ InQueue(conds[x].waiting) = CondSleepers(x)
        BY <2>2, <2>9, <3>2 DEF LockInv, QueuesOfSleepers
      <4>2. locks'[k].pid \notin CondSleepers(x) /\ locks'[k].pid # currentPCB
        BY <2>1, <2>6, <2>7 DEF CondSleepers, NoOwner, Pid
      <4>3. CASE x = c
        BY <2>5, <2>6, <2>9, <4>1, <4>2, <4>3 DEF k
      <4>4. CASE x # c
        BY <2>6, <2>9, <4>1, <4>2, <4>4
      <4> QED
        BY <4>3, <4>4
    <3> QED
      BY <3>1, <3>2 DEF LockInv
  <2>16. WokenOwnsLock'
    <3>1. ASSUME NEW p \in Pid, p \notin waitQueue', trap'[p].op \in LockOps
          PROVE  locks'[LockOf(trap[p])'].pid = p
      <4>1. p # currentPCB /\ trap'[p] = trap[p]
        BY <2>2, <2>4, <2>8, <3>1 DEF TypeOK
      <4>2. LockOf(trap[p])' = LockOf(trap[p]) /\ LockOf(trap[p]) \in LockHandle
        BY <2>10, <3>1, <4>1, LockOfLemma
      <4>3. CASE p \in W
        BY <2>6, <4>2, <4>3 DEF LockSleepers, SleepsForLock
      <4>4. CASE p \notin W
        <5>1. locks[LockOf(trap[p])].pid = p
          BY <2>2, <2>8, <3>1, <4>1, <4>4 DEF WokenOwnsLock
        <5> QED
          BY <2>3, <2>6, <4>1, <4>2, <5>1 DEF Owns
      <4> QED
        BY <4>3, <4>4
    <3> QED
      BY <3>1 DEF WokenOwnsLock
  <2> QED
    BY <2>8, <2>11, <2>12, <2>13, <2>14, <2>15, <2>16, SleepersInvPartsNext DEF IInv
<1> QED
  BY <1>1, <1>2

\* CondSignal preserves the invariant: lock and processor pass to the woken
\* process and the signaler queues for the lock.
LEMMA CondSignalLemma ==
  ASSUME IInv, UserMode, NEW c \in CondHandle, conds[c].inuse, CondSignal(c)
  PROVE  IInv'
<1> DEFINE k == conds[c].lock
           w == Head(conds[c].waiting)
           cq == Tail(conds[c].waiting)
           lq == Append(locks[k].waiting, currentPCB)
<1>0. PICK t : t = [op |-> "cond_signal", on |-> c]
  OBVIOUS
<1>1. CASE FailsUnchanged
  BY <1>1, FailsLemma
<1>2. CASE SetResult(SYNC_SUCCESS) /\ UNCHANGED <<schedVars, synchVars>>
  <2>1. SYNC_SUCCESS \in Int
    BY DEF SYNC_SUCCESS
  <2> QED
    BY <1>2, <2>1, ResultLemma
<1>3. CASE /\ ~FailsUnchanged
           /\ ~(SetResult(SYNC_SUCCESS) /\ UNCHANGED <<schedVars, synchVars>>)
  <2>1. /\ SchedTypeOK /\ QueueInv /\ stopped = "no" /\ trap[currentPCB] = NoTrap
        /\ currentPCB \in Pid /\ currentPCB \notin waitQueue
        /\ \A x \in LockHandle : currentPCB \notin InQueue(locks[x].waiting)
    BY UserLemma
  <2>2. /\ QueuesOfSleepers /\ TypeOK /\ LockInv /\ WokenOwnsLock
        /\ locks \in LocksType /\ conds \in CondsType /\ conds[c].waiting \in Seq(Pid)
        /\ k \in LockHandle /\ locks[k].inuse /\ locks[k].waiting \in Seq(Pid)
    BY SleepersInvParts DEF IInv, TypeOK, LocksType, CondsType, LockInv
  <2>3. /\ Owns(k) /\ conds[c].waiting # <<>>
        /\ conds' = [conds EXCEPT ![c].waiting = cq] /\ locks' = LocksWith(k, w, lq)
        /\ WakeupAndSleep(w) /\ SleepsIn("cond_signal", c) /\ sems' = sems
    BY <1>3 DEF CondSignal, LocksWith
  <2>4. trap' = [trap EXCEPT ![currentPCB] = t] /\ r1' = r1
    BY <1>0, <2>3 DEF SleepsIn
  <2>5. /\ lq \in Seq(Pid) /\ NoDuplicates(lq) /\ lq # <<>>
        /\ InQueue(lq) = InQueue(locks[k].waiting) \union {currentPCB}
    BY <2>1, <2>2, AppendLemma DEF QueuesOfSleepers
  <2>6. /\ w \in Pid /\ cq \in Seq(Pid) /\ NoDuplicates(cq)
        /\ w \in CondSleepers(c) /\ InQueue(cq) = CondSleepers(c) \ {w}
    BY <2>2, <2>3, TailLemma DEF QueuesOfSleepers
  <2> HIDE DEF k, w, cq, lq
  <2>7. w \in waitQueue /\ trap[w] = [op |-> "cond_wait", on |-> c] /\ w # NoOwner
    BY <2>6 DEF CondSleepers, SleepsOnCond, NoOwner, Pid
  <2>8. /\ \A x \in SemHandle : SemSleepers(x) \ {w} = SemSleepers(x)
        /\ \A x \in LockHandle : LockSleepers(x) \ {w} = LockSleepers(x)
        /\ \A x \in CondHandle \ {c} : CondSleepers(x) \ {w} = CondSleepers(x)
        /\ \A x \in LockHandle : w \notin LockSleepers(x)
    BY <2>7 DEF SemSleepers, LockSleepers, CondSleepers, SleepsOnSem, SleepsForLock,
                SleepsOnCond
  <2>9. /\ SchedTypeOK' /\ QueueInv'
        /\ waitQueue' = (waitQueue \ {w}) \union {currentPCB}
    BY <2>1, <2>3, <2>7, WakeupAndSleepLemma
  <2>10. /\ conds' \in CondsType
         /\ \A x \in CondHandle : /\ conds'[x].waiting = IF x = c THEN cq ELSE conds[x].waiting
                                  /\ conds'[x].inuse = conds[x].inuse
                                  /\ conds'[x].lock = conds[x].lock
    BY <2>2, <2>3, <2>6, CondQueueLemma
  <2>11. /\ locks' \in LocksType
         /\ locks'[k].pid = w /\ locks'[k].waiting = lq /\ locks'[k].inuse
         /\ \A x \in LockHandle \ {k} : locks'[x] = locks[x]
    <3>1. w \in Pid \union {NoOwner}
      BY <2>6
    <3> QED
      BY <2>2, <2>3, <2>5, <3>1, LockUpdateLemma
  <2>12. ObjectsStay
    BY <2>3, <2>10, <2>11 DEF ObjectsStay
  <2>13. /\ CallsOK'
         /\ \A x \in SemHandle : SemSleepers(x)' = SemSleepers(x)
         /\ \A x \in LockHandle : LockSleepers(x)' =
              LockSleepers(x) \union (IF x = k THEN {currentPCB} ELSE {})
         /\ \A x \in CondHandle : CondSleepers(x)' = CondSleepers(x) \ {w}
    <3>1. /\ CallOK(t) /\ CallOK(t)' /\ t # NoTrap /\ {w} \in SUBSET waitQueue
      BY <1>0, <2>7, <2>10 DEF CallOK, NoTrap
    <3>2. CallsOK' /\ Sleeps({w}, t)
      BY <2>4, <2>9, <2>12, <3>1, BlocksLemma
    <3>3. LockOf(t) = k
      BY <1>0 DEF LockOf, k
    <3>4. /\ \A x \in SemHandle : Caller(t = [op |-> "sem_wait", on |-> x]) = {}
          /\ \A x \in LockHandle : Caller(k = x) = IF x = k THEN {currentPCB} ELSE {}
          /\ \A x \in CondHandle : Caller(t = [op |-> "cond_wait", on |-> x]) = {}
      BY <1>0 DEF Caller
    <3>5. \A x \in SemHandle : SemSleepers(x)' = SemSleepers(x)
      BY <2>8, <3>2, <3>4 DEF Sleeps
    <3>6. \A x \in LockHandle : LockSleepers(x)' =
              LockSleepers(x) \union (IF x = k THEN {currentPCB} ELSE {})
      BY <1>0, <2>8, <3>2, <3>3 DEF Sleeps, Caller
    <3>7. \A x \in CondHandle : CondSleepers(x)' = CondSleepers(x) \ {w}
      BY <3>2, <3>4 DEF Sleeps
    <3> QED
      BY <3>2, <3>5, <3>6, <3>7
  <2>14. TypeOK'
    <3>1. trap' \in [Pid -> [op : Ops, on : Int]]
      BY <1>0, <2>1, <2>2, <2>4 DEF TypeOK, Ops, LockOps, CondHandle
    <3> QED
      BY <2>2, <2>3, <2>4, <2>9, <2>10, <2>11, <3>1 DEF TypeOK, LocksType, CondsType
  <2>15. QueuesOfSleepers'
    <3>1. ASSUME NEW x \in LockHandle
          PROVE  NoDuplicates(locks'[x].waiting) /\ InQueue(locks'[x].waiting) = LockSleepers(x)'
      <4>1. CASE x = k
        BY <2>2, <2>5, <2>11, <2>13, <4>1 DEF QueuesOfSleepers
      <4>2. CASE x # k
        <5>1. LockSleepers(x)' = LockSleepers(x)
          BY <2>13, <4>2
        <5> QED
          BY <2>2, <2>11, <4>2, <5>1 DEF QueuesOfSleepers
      <4> QED
        BY <4>1, <4>2
    <3>2. ASSUME NEW x \in CondHandle
          PROVE  NoDuplicates(conds'[x].waiting) /\ InQueue(conds'[x].waiting) = CondSleepers(x)'
      BY <2>2, <2>6, <2>8, <2>10, <2>13 DEF QueuesOfSleepers
    <3> QED
      BY <2>2, <2>3, <2>13, <3>1, <3>2 DEF QueuesOfSleepers
  <2>16. NoSleeperWithUnits'
    BY <2>3 DEF IInv, NoSleeperWithUnits
  <2>17. LockInv'
    <3>1. w \notin InQueue(lq)
      BY <2>1, <2>2, <2>5, <2>7, <2>8 DEF QueuesOfSleepers
    <3>2. ASSUME NEW x \in LockHandle
          PROVE  /\ locks'[x].waiting # <<>> => locks'[x].pid # NoOwner
                 /\ locks'[x].pid \notin InQueue(locks'[x].waiting)
                 /\ ~locks'[x].inuse => locks'[x].pid = NoOwner
      BY <2>2, <2>7, <2>11, <3>1 DEF LockInv
    <3>3. ASSUME NEW x \in CondHandle, conds'[x].inuse
          PROVE  /\ conds'[x].lock \in LockHandle /\ locks'[conds'[x].lock].inuse
                 /\ locks'[conds'[x].lock].pid \notin InQueue(conds'[x].waiting)
      <4>1. /\ conds[x].lock \in LockHandle /\ locks[conds[x].lock].inuse
            /\ locks[conds[x].lock].pid \notin InQueue(conds[x].waiting)
            /\ InQueue(conds[x].waiting) = CondSleepers(x)
        BY <2>2, <2>10, <3>3 DEF LockInv, QueuesOfSleepers
      <4>2. CASE x = c
        BY <2>6, <2>10, <2>11, <4>1, <4>2 DEF k
      <4>3. CASE x # c
        <5>1. w \notin CondSleepers(x)
          BY <2>8, <4>3
        <5> QED
          BY <2>10, <2>11, <4>1, <4>3, <5>1
      <4> QED
        BY <4>2, <4>3
    <3> QED
      BY <3>2, <3>3 DEF LockInv
  <2>18. WokenOwnsLock'
    <3>1. ASSUME NEW p \in Pid, p \notin waitQueue', trap'[p].op \in LockOps
          PROVE  locks'[LockOf(trap[p])'].pid = p
      <4>1. p # currentPCB /\ trap'[p] = trap[p]
        BY <2>2, <2>4, <2>9, <3>1 DEF TypeOK
      <4>2. LockOf(trap[p])' = LockOf(trap[p]) /\ LockOf(trap[p]) \in LockHandle
        BY <2>12, <3>1, <4>1, LockOfLemma
      <4>3. CASE p = w
        <5>1. LockOf(trap[p]) = k
          BY <2>7, <4>3 DEF LockOf, k
        <5> QED
          BY <2>11, <4>2, <4>3, <5>1
      <4>4. CASE p # w
        <5>1. locks[LockOf(trap[p])].pid = p
          BY <2>2, <2>9, <3>1, <4>1, <4>4 DEF WokenOwnsLock
        <5> QED
          BY <2>3, <2>11, <4>1, <4>2, <5>1 DEF Owns
      <4> QED
        BY <4>3, <4>4
    <3> QED
      BY <3>1 DEF WokenOwnsLock
  <2> QED
    BY <2>9, <2>13, <2>14, <2>15, <2>16, <2>17, <2>18, SleepersInvPartsNext DEF IInv
<1> QED
  BY <1>1, <1>2, <1>3

-----------------------------------------------------------------------------
(* A process that slept is back from the kernel *)

\* A process that leaves the call it slept in preserves the invariant.
LEMMA HandlerReturnsLemma ==
  ASSUME IInv, HandlerReturns
  PROVE  IInv'
<1>1. /\ TypeOK /\ SchedTypeOK /\ QueueInv /\ stopped = "no"
      /\ QueuesOfSleepers /\ CallsOK
  BY SleepersInvParts DEF IInv, TypeOK, HandlerReturns
<1>2. currentPCB \in Pid /\ currentPCB \notin waitQueue
  BY <1>1, CurrentLemma
<1>3. /\ trap' = [trap EXCEPT ![currentPCB] = NoTrap]
      /\ r1' = [r1 EXCEPT ![currentPCB] = SYNC_SUCCESS]
      /\ sems' = sems /\ locks' = locks /\ conds' = conds
      /\ UNCHANGED schedVars
  BY DEF HandlerReturns, synchVars
<1>4. SchedTypeOK' /\ QueueInv' /\ waitQueue' = waitQueue
  BY <1>1, <1>3 DEF schedVars, SchedTypeOK, QueueInv, QueuesMatch
<1>5. /\ trap'[currentPCB] = NoTrap
      /\ \A p \in Pid \ {currentPCB} : trap'[p] = trap[p]
  BY <1>1, <1>2, <1>3 DEF TypeOK
<1>6. TypeOK'
  <2>1. trap' \in [Pid -> [op : Ops, on : Int]]
    BY <1>1, <1>2, <1>3 DEF TypeOK, NoTrap, Ops
  <2>2. r1' \in [Pid -> Int]
    <3>1. SYNC_SUCCESS \in Int
      BY DEF SYNC_SUCCESS
    <3> QED
      BY <1>1, <1>3, <3>1 DEF TypeOK
  <2> QED
    BY <1>1, <1>3, <1>4, <2>1, <2>2 DEF TypeOK
<1>7. CallsOK'
  BY <1>1, <1>2, <1>3, <1>4, <1>5 DEF CallsOK, CallOK, SchedTypeOK
<1>8. /\ \A s \in SemHandle : SemSleepers(s)' = SemSleepers(s)
      /\ \A k \in LockHandle : LockSleepers(k)' = LockSleepers(k)
      /\ \A c \in CondHandle : CondSleepers(c)' = CondSleepers(c)
  BY <1>2, <1>3, <1>4, <1>5 DEF SemSleepers, LockSleepers, CondSleepers, SleepsOnSem,
     SleepsForLock, SleepsOnCond, LockOf
<1>9. QueuesOfSleepers'
  BY <1>1, <1>3, <1>8 DEF QueuesOfSleepers
<1>10. NoSleeperWithUnits' /\ LockInv'
  BY <1>3 DEF IInv, NoSleeperWithUnits, LockInv
<1>11. WokenOwnsLock'
  BY <1>3, <1>4, <1>5 DEF IInv, WokenOwnsLock, LockOf, LockOps, NoTrap
<1> QED
  BY <1>4, <1>6, <1>7, <1>9, <1>10, <1>11, SleepersInvPartsNext DEF IInv

-----------------------------------------------------------------------------
(* The theorems *)

\* The kernel that main() leaves satisfies the invariant.
THEOREM InitEstablishesIInv == Init => IInv
<1> SUFFICES ASSUME Init PROVE IInv
  OBVIOUS
<1>1. SchedTypeOK /\ QueueInv /\ waitQueue = {}
  BY InitLemma DEF Init, ProcessInit
<1>2. <<>> \in Seq(Pid) /\ InQueue(<<>>) = {} /\ NoDuplicates(<<>>)
  BY <1>1, SmallQueueLemma DEF SchedTypeOK
<1>3. TypeOK
  BY <1>1, <1>2 DEF Init, SynchModuleInit, TypeOK, NoTrap, Ops, NoOwner, NoResult
<1>4. SleepersInv
  <2>1. \A p \in Pid : CallOK(trap[p])
    BY DEF Init, SynchModuleInit, CallOK
  <2>2. \A p \in Pid : p \notin waitQueue
    BY <1>1
  <2> QED
    BY <1>1, <1>2, <2>1, <2>2 DEF Init, SynchModuleInit, SleepersInv, SleepsOnSem,
       SleepsForLock, SleepsOnCond
<1>5. NoSleeperWithUnits /\ LockInv
  BY <1>2 DEF Init, SynchModuleInit, NoSleeperWithUnits, LockInv
<1>6. WokenOwnsLock
  BY DEF Init, SynchModuleInit, WokenOwnsLock, NoTrap, LockOps
<1> QED
  BY <1>1, <1>3, <1>4, <1>5, <1>6 DEF IInv

\* Every handler preserves the invariant.
THEOREM NextPreservesIInv == IInv /\ [Next]_vars => IInv'
<1> SUFFICES ASSUME IInv, [Next]_vars PROVE IInv'
  OBVIOUS
<1>1. CASE UNCHANGED vars
  <2>1. SchedTypeOK' /\ QueueInv' /\ UNCHANGED <<waitQueue, trap, synchVars>> /\ r1' = r1
    BY <1>1 DEF IInv, TypeOK, vars, schedVars, userVars, SchedTypeOK, QueueInv, QueuesMatch
  <2> QED
    BY <2>1, QuietLemma DEF IInv, TypeOK
<1>2. CASE TimerInterrupt
  <2>1. /\ SchedTypeOK' /\ QueueInv' /\ UNCHANGED <<trap, synchVars>> /\ r1' = r1
        /\ waitQueue' = waitQueue
    BY <1>2, PreemptLemma DEF TimerInterrupt, UserMode, userVars, IInv, TypeOK, Preempt,
       ProcessSchedule
  <2> QED
    BY <2>1, QuietLemma DEF IInv, TypeOK
<1>3. CASE ProcessCreate
  <2>1. /\ SchedTypeOK' /\ QueueInv' /\ UNCHANGED <<trap, synchVars>> /\ r1' = r1
        /\ waitQueue' = waitQueue
    BY <1>3, ForkLemma DEF ProcessCreate, UserMode, userVars, IInv, TypeOK
  <2> QED
    BY <2>1, QuietLemma DEF IInv, TypeOK
<1>4. CASE Exit
  <2>1. /\ SchedTypeOK' /\ QueueInv' /\ UNCHANGED synchVars /\ SetResult(NoResult)
        /\ waitQueue' = waitQueue
    BY <1>4, DestroyLemma DEF Exit, UserMode, IInv, TypeOK
  <2>2. r1' \in [Pid -> Int] /\ trap' = trap
    <3>1. NoResult \in Int
      BY DEF NoResult
    <3> QED
      BY <2>1, <3>1 DEF SetResult, IInv, TypeOK
  <2> QED
    BY <2>1, <2>2, QuietLemma
<1>5. CASE HandlerReturns
  BY <1>5, HandlerReturnsLemma
<1>6. CASE \E n \in InitialCounts : SemCreate(n)
  BY <1>6, SemCreateLemma
<1>7. CASE \E h \in SemArg : SemHandleWait(h)
  BY <1>7, FailsLemma, SemWaitLemma DEF SemHandleWait, SemHandleValid
<1>8. CASE \E h \in SemArg : SemHandleSignal(h)
  BY <1>8, FailsLemma, SemSignalLemma DEF SemHandleSignal, SemHandleValid
<1>9. CASE LockCreate
  BY <1>9, LockCreateLemma
<1>10. CASE \E h \in LockArg : LockHandleAcquire(h)
  BY <1>10, FailsLemma, LockAcquireLemma DEF LockHandleAcquire, LockHandleValid
<1>11. CASE \E h \in LockArg : LockHandleRelease(h)
  BY <1>11, FailsLemma, LockReleaseLemma DEF LockHandleRelease, LockHandleValid
<1>12. CASE \E k \in LockHandle : CondCreate(k)
  BY <1>12, CondCreateLemma
<1>13. 0 .. MAX_SEMS - 1 \subseteq CondHandle
  BY SynchAssumption DEF CondHandle
<1>14. CASE \E h \in CondArg : CondHandleWait(h)
  BY <1>13, <1>14, FailsLemma, CondWaitLemma DEF CondHandleWait, CondHandleValid
<1>15. CASE \E h \in CondArg : CondHandleSignal(h)
  BY <1>13, <1>15, FailsLemma, CondSignalLemma DEF CondHandleSignal, CondHandleValid
<1>16. CASE Stopped
  BY <1>1, <1>16 DEF Stopped
<1> QED
  BY <1>1, <1>2, <1>3, <1>4, <1>5, <1>6, <1>7, <1>8, <1>9, <1>10, <1>11, <1>12, <1>14,
     <1>15, <1>16 DEF Next

\* The invariant holds for every number of processes and objects, every set
\* of initial counts, and every bound on the counts.
THEOREM IInvHolds == Spec => []IInv
BY InitEstablishesIInv, NextPreservesIInv, PTL DEF Spec

\* The kernel's state keeps its types.
THEOREM TypeCorrect == Spec => []TypeOK
<1>1. IInv => TypeOK
  BY DEF IInv
<1> QED
  BY <1>1, IInvHolds, PTL

\* Every PCB is on exactly the queue that its status names, once, and the
\* running process is the head of the run queue, whatever traps and
\* interrupts come in whatever order.
THEOREM QueuesCorrect == Spec => []QueueInv
<1>1. IInv => QueueInv
  BY DEF IInv
<1> QED
  BY <1>1, IInvHolds, PTL

\* No wakeup is lost: the waiting queues hold exactly the processes that
\* sleep in a call on their object.
THEOREM NoLostWakeup == Spec => []SleepersInv
<1>1. IInv => SleepersInv
  BY DEF IInv
<1> QED
  BY <1>1, IInvHolds, PTL

\* Nobody sleeps on a semaphore that has units left.
THEOREM UnitsAreTaken == Spec => []NoSleeperWithUnits
<1>1. IInv => NoSleeperWithUnits
  BY DEF IInv
<1> QED
  BY <1>1, IInvHolds, PTL

\* A lock that processes wait for is held, by none of them.
THEOREM LocksCorrect == Spec => []LockInv
<1>1. IInv => LockInv
  BY DEF IInv
<1> QED
  BY <1>1, IInvHolds, PTL

\* Hoare hand-off: who wakes in a call on a lock or a condition variable
\* holds the lock.
THEOREM HandOff == Spec => []WokenOwnsLock
<1>1. IInv => WokenOwnsLock
  BY DEF IInv
<1> QED
  BY <1>1, IInvHolds, PTL

-----------------------------------------------------------------------------
(* What a step may do to the objects *)

\* A queue with nobody on it is the empty sequence.
LEMMA EmptyLemma ==
  ASSUME NEW S, NEW q \in Seq(S), InQueue(q) = {}
  PROVE  q = <<>>
BY TailLemma

\* What a step does to the owners of locks: a taken lock stays with its owner
\* unless the owner acts.
LEMMA OwnersLemma ==
  ASSUME IInv, Next, NEW k \in LockHandle,
         locks[k].pid # NoOwner, locks'[k].pid # locks[k].pid
  PROVE  locks[k].pid = currentPCB
<1>1. /\ locks \in LocksType /\ LockInv
      /\ locks' # locks
  BY DEF IInv, TypeOK, LocksType
<1>2. CASE \E h \in LockArg : LockHandleAcquire(h)
  <2>1. PICK h \in LockHandle : LockAcquire(h)
    BY <1>1, <1>2 DEF LockHandleAcquire, LockHandleValid, FailsUnchanged, synchVars
  <2>2. \/ locks' = [locks EXCEPT ![h].waiting = Append(@, currentPCB)]
        \/ locks[h].pid = NoOwner /\ locks' = [locks EXCEPT ![h].pid = currentPCB]
    BY <1>1, <2>1 DEF LockAcquire
  <2> QED
    BY <1>1, <2>2 DEF LocksType
<1>3. CASE \E h \in LockArg : LockHandleRelease(h)
  BY <1>1, <1>3 DEF LockHandleRelease, LockHandleValid, LockRelease, FailsUnchanged,
     synchVars, LocksType, Released, Owns
<1>4. CASE LockCreate
  BY <1>1, <1>4 DEF LockCreate, FirstUnused, FailsUnchanged, synchVars, LocksType, LockInv
<1>5. CASE \E h \in CondArg : CondHandleWait(h)
  BY <1>1, <1>5 DEF CondHandleWait, CondHandleValid, CondWait, FailsUnchanged,
     synchVars, LocksType, Released, Owns
<1>6. CASE \E h \in CondArg : CondHandleSignal(h)
  BY <1>1, <1>6 DEF CondHandleSignal, CondHandleValid, CondSignal, FailsUnchanged,
     synchVars, LocksType, Owns
<1>7. CASE TimerInterrupt \/ ProcessCreate \/ Exit \/ HandlerReturns \/ Stopped
  BY <1>1, <1>7 DEF TimerInterrupt, ProcessCreate, Exit, HandlerReturns, Stopped,
     synchVars, vars
<1>8. CASE \/ \E n \in InitialCounts : SemCreate(n)
           \/ \E h \in SemArg : SemHandleWait(h)
           \/ \E h \in SemArg : SemHandleSignal(h)
           \/ \E l \in LockHandle : CondCreate(l)
  BY <1>1, <1>8 DEF SemCreate, SemHandleWait, SemWait, SemHandleSignal, SemSignal,
     CondCreate, FailsUnchanged, synchVars
<1> QED
  BY <1>2, <1>3, <1>4, <1>5, <1>6, <1>7, <1>8 DEF Next

\* The three things that may happen to a waiting queue.
Moves(q, r) ==
  \/ r = q
  \/ r = Append(q, currentPCB)
  \/ q # <<>> /\ r = Tail(q)

\* What a step may do to a semaphore's waiting queue, and that it shortens the
\* queue only by a signal that raised the count above zero.
LEMMA SemMovesLemma ==
  ASSUME IInv, Next, NEW s \in SemHandle
  PROVE  /\ Moves(sems[s].waiting, sems'[s].waiting)
         /\ \/ sems'[s].waiting = sems[s].waiting
            \/ sems'[s].waiting = Append(sems[s].waiting, currentPCB)
            \/ /\ sems[s].waiting # <<>> /\ sems[s].count >= 0
               /\ sems'[s].count = sems[s].count
<1>1. sems \in SemsType /\ sems[s].count \in Int
  BY DEF IInv, TypeOK, SemsType
<1>2. CASE sems' = sems
  BY <1>2 DEF Moves
<1>3. CASE sems' # sems /\ \E n \in InitialCounts : SemCreate(n)
  <2>1. PICK x \in SemHandle, n \in InitialCounts :
          /\ ~sems[x].inuse
          /\ sems' = [sems EXCEPT ![x] = [inuse |-> TRUE, count |-> n, waiting |-> <<>>]]
    BY <1>3 DEF SemCreate, FirstUnused, FailsUnchanged, synchVars
  <2>2. sems[x].waiting = <<>>
    <3>1. InQueue(sems[x].waiting) = {} /\ sems[x].waiting \in Seq(Pid)
      BY <1>1, <2>1, UnusedLemma, SleepersInvParts DEF IInv, QueuesOfSleepers, SemsType
    <3> QED
      BY <3>1, EmptyLemma
  <2>3. sems'[s].waiting = sems[s].waiting
    BY <1>1, <2>1, <2>2 DEF SemsType
  <2> QED
    BY <2>3 DEF Moves
<1>4. CASE sems' # sems /\ \E h \in SemArg : SemHandleWait(h)
  <2>1. PICK h \in SemHandle : SemWait(h)
    BY <1>4 DEF SemHandleWait, SemHandleValid, FailsUnchanged, synchVars
  <2>2. \/ sems' = [sems EXCEPT ![h].waiting = Append(@, currentPCB)]
        \/ sems' = [sems EXCEPT ![h].count = @ - 1]
    BY <2>1 DEF SemWait
  <2>3. CASE sems' = [sems EXCEPT ![h].waiting = Append(@, currentPCB)]
    BY <1>1, <2>3 DEF SemsType, Moves
  <2>4. CASE sems' = [sems EXCEPT ![h].count = @ - 1]
    <3>1. sems'[s].waiting = sems[s].waiting
      BY <1>1, <2>4 DEF SemsType
    <3> QED
      BY <3>1 DEF Moves
  <2> QED
    BY <2>2, <2>3, <2>4
<1>5. CASE sems' # sems /\ \E h \in SemArg : SemHandleSignal(h)
  <2>1. PICK h \in SemHandle : SemSignal(h)
    BY <1>5 DEF SemHandleSignal, SemHandleValid, FailsUnchanged, synchVars
  <2>2. \/ SignalWakes(h) /\ sems' = [sems EXCEPT ![h].waiting = Tail(@)]
        \/ sems' = [sems EXCEPT ![h].count = @ + 1]
    BY <2>1 DEF SemSignal
  <2>3. CASE SignalWakes(h) /\ sems' = [sems EXCEPT ![h].waiting = Tail(@)] /\ s = h
    <3>1. sems'[s].waiting = Tail(sems[s].waiting) /\ sems'[s].count = sems[s].count
      BY <1>1, <2>3 DEF SemsType
    <3>2. sems[s].waiting # <<>> /\ sems[s].count >= 0
      BY <1>1, <2>3 DEF SignalWakes
    <3> QED
      BY <3>1, <3>2 DEF Moves
  <2>4. CASE s # h \/ sems' = [sems EXCEPT ![h].count = @ + 1]
    <3>1. sems'[s].waiting = sems[s].waiting
      BY <1>1, <2>2, <2>4 DEF SemsType
    <3> QED
      BY <3>1 DEF Moves
  <2> QED
    BY <2>2, <2>3, <2>4
<1>6. CASE /\ sems' # sems
           /\ ~(\E n \in InitialCounts : SemCreate(n))
           /\ ~(\E h \in SemArg : SemHandleWait(h))
           /\ ~(\E h \in SemArg : SemHandleSignal(h))
  BY <1>6, Zenon DEF Next, TimerInterrupt, ProcessCreate, Exit, HandlerReturns, Stopped, LockCreate,
     LockHandleAcquire, LockAcquire, LockHandleRelease, LockRelease, CondCreate,
     CondHandleWait, CondWait, CondHandleSignal, CondSignal, FailsUnchanged, synchVars, vars
<1> QED
  BY <1>2, <1>3, <1>4, <1>5, <1>6

\* What a step may do to a lock's waiting queue.
LEMMA LockMovesLemma ==
  ASSUME IInv, Next, NEW k \in LockHandle
  PROVE  Moves(locks[k].waiting, locks'[k].waiting)
<1>1. locks \in LocksType
  BY DEF IInv, TypeOK, LocksType
<1>2. CASE locks' = locks
  BY <1>2 DEF Moves
<1>3. CASE locks' # locks /\ LockCreate
  <2>1. PICK x \in LockHandle :
          /\ ~locks[x].inuse
          /\ locks' = [locks EXCEPT ![x] = [inuse |-> TRUE, pid |-> NoOwner,
                                            waiting |-> <<>>]]
    BY <1>3 DEF LockCreate, FirstUnused, FailsUnchanged, synchVars
  <2>2. locks[x].waiting = <<>>
    <3>1. InQueue(locks[x].waiting) = {} /\ locks[x].waiting \in Seq(Pid)
      BY <1>1, <2>1, UnusedLemma, SleepersInvParts DEF IInv, QueuesOfSleepers, LocksType
    <3> QED
      BY <3>1, EmptyLemma
  <2>3. locks'[k].waiting = locks[k].waiting
    BY <1>1, <2>1, <2>2 DEF LocksType
  <2> QED
    BY <2>3 DEF Moves
<1>4. CASE locks' # locks /\ \E h \in LockArg : LockHandleAcquire(h)
  <2>1. PICK h \in LockHandle : LockAcquire(h)
    BY <1>4 DEF LockHandleAcquire, LockHandleValid, FailsUnchanged, synchVars
  <2>2. \/ locks' = [locks EXCEPT ![h].waiting = Append(@, currentPCB)]
        \/ locks' = [locks EXCEPT ![h].pid = currentPCB]
    BY <1>4, <2>1 DEF LockAcquire
  <2>3. \/ locks'[k].waiting = locks[k].waiting
        \/ locks'[k].waiting = Append(locks[k].waiting, currentPCB)
    BY <1>1, <2>2 DEF LocksType
  <2> QED
    BY <2>3 DEF Moves
<1>5. ASSUME NEW h \in LockHandle, locks' = Released(h)
      PROVE  Moves(locks[k].waiting, locks'[k].waiting)
  <2>1. \/ locks'[k].waiting = locks[k].waiting
        \/ locks[k].waiting # <<>> /\ locks'[k].waiting = Tail(locks[k].waiting)
    BY <1>1, <1>5 DEF LocksType, Released
  <2> QED
    BY <2>1 DEF Moves
<1>6. CASE locks' # locks /\ \E h \in LockArg : LockHandleRelease(h)
  <2>1. PICK h \in LockHandle : LockRelease(h)
    BY <1>6 DEF LockHandleRelease, LockHandleValid, FailsUnchanged, synchVars
  <2>2. locks' = Released(h)
    BY <1>6, <2>1 DEF LockRelease, FailsUnchanged, synchVars
  <2> QED
    BY <1>5, <2>2
<1>7. \A h \in 0 .. MAX_SEMS - 1 :
        h \in CondHandle /\ (conds[h].inuse => conds[h].lock \in LockHandle)
  BY SynchAssumption DEF CondHandle, IInv, LockInv
<1>8. CASE locks' # locks /\ \E h \in CondArg : CondHandleWait(h)
  <2>1. PICK h \in CondHandle : CondWait(h) /\ conds[h].lock \in LockHandle
    BY <1>7, <1>8 DEF CondHandleWait, CondHandleValid, FailsUnchanged, synchVars
  <2>2. locks' = Released(conds[h].lock)
    BY <1>8, <2>1 DEF CondWait, FailsUnchanged, synchVars
  <2> QED
    BY <1>5, <2>1, <2>2
<1>9. CASE locks' # locks /\ \E h \in CondArg : CondHandleSignal(h)
  <2>1. PICK h \in CondHandle : CondSignal(h) /\ conds[h].lock \in LockHandle
    BY <1>7, <1>9 DEF CondHandleSignal, CondHandleValid, FailsUnchanged, synchVars
  <2>2. locks' = [locks EXCEPT ![conds[h].lock].pid = Head(conds[h].waiting),
                               ![conds[h].lock].waiting = Append(@, currentPCB)]
    BY <1>9, <2>1 DEF CondSignal, FailsUnchanged, synchVars
  <2>3. \/ locks'[k].waiting = locks[k].waiting
        \/ locks'[k].waiting = Append(locks[k].waiting, currentPCB)
    BY <1>1, <2>1, <2>2 DEF LocksType
  <2> QED
    BY <2>3 DEF Moves
<1>10. CASE /\ locks' # locks
            /\ ~LockCreate
            /\ ~(\E h \in LockArg : LockHandleAcquire(h))
            /\ ~(\E h \in LockArg : LockHandleRelease(h))
            /\ ~(\E h \in CondArg : CondHandleWait(h))
            /\ ~(\E h \in CondArg : CondHandleSignal(h))
  BY <1>10 DEF Next, TimerInterrupt, ProcessCreate, Exit, HandlerReturns, Stopped, SemCreate,
     SemHandleWait, SemWait, SemHandleSignal, SemSignal, CondCreate, FailsUnchanged,
     synchVars, vars
<1> QED
  BY <1>2, <1>3, <1>4, <1>6, <1>8, <1>9, <1>10

\* What a step may do to a condition variable's waiting queue.
LEMMA CondMovesLemma ==
  ASSUME IInv, Next, NEW c \in CondHandle
  PROVE  Moves(conds[c].waiting, conds'[c].waiting)
<1>1. conds \in CondsType
  BY DEF IInv, TypeOK, CondsType
<1>2. CASE conds' = conds
  BY <1>2 DEF Moves
<1>3. CASE conds' # conds /\ \E k \in LockHandle : CondCreate(k)
  <2>1. PICK x \in CondHandle, k \in LockHandle :
          /\ ~conds[x].inuse
          /\ conds' = [conds EXCEPT ![x] = [inuse |-> TRUE, lock |-> k, waiting |-> <<>>]]
    BY <1>3 DEF CondCreate, FirstUnused, synchVars
  <2>2. conds[x].waiting = <<>>
    <3>1. InQueue(conds[x].waiting) = {} /\ conds[x].waiting \in Seq(Pid)
      BY <1>1, <2>1, UnusedLemma, SleepersInvParts DEF IInv, QueuesOfSleepers, CondsType
    <3> QED
      BY <3>1, EmptyLemma
  <2>3. conds'[c].waiting = conds[c].waiting
    BY <1>1, <2>1, <2>2 DEF CondsType
  <2> QED
    BY <2>3 DEF Moves
<1>4. 0 .. MAX_SEMS - 1 \subseteq CondHandle
  BY SynchAssumption DEF CondHandle
<1>5. CASE conds' # conds /\ \E h \in CondArg : CondHandleWait(h)
  <2>1. PICK h \in CondHandle : CondWait(h)
    BY <1>4, <1>5 DEF CondHandleWait, CondHandleValid, FailsUnchanged, synchVars
  <2>2. conds' = [conds EXCEPT ![h].waiting = Append(@, currentPCB)]
    BY <1>5, <2>1 DEF CondWait, FailsUnchanged, synchVars
  <2>3. \/ conds'[c].waiting = conds[c].waiting
        \/ conds'[c].waiting = Append(conds[c].waiting, currentPCB)
    BY <1>1, <2>2 DEF CondsType
  <2> QED
    BY <2>3 DEF Moves
<1>6. CASE conds' # conds /\ \E h \in CondArg : CondHandleSignal(h)
  <2>1. PICK h \in CondHandle : CondSignal(h)
    BY <1>4, <1>6 DEF CondHandleSignal, CondHandleValid, FailsUnchanged, synchVars
  <2>2. conds[h].waiting # <<>> /\ conds' = [conds EXCEPT ![h].waiting = Tail(@)]
    BY <1>6, <2>1 DEF CondSignal, FailsUnchanged, synchVars
  <2>3. \/ conds'[c].waiting = conds[c].waiting
        \/ conds[c].waiting # <<>> /\ conds'[c].waiting = Tail(conds[c].waiting)
    BY <1>1, <2>2 DEF CondsType
  <2> QED
    BY <2>3 DEF Moves
<1>7. CASE /\ conds' # conds
           /\ ~(\E k \in LockHandle : CondCreate(k))
           /\ ~(\E h \in CondArg : CondHandleWait(h))
           /\ ~(\E h \in CondArg : CondHandleSignal(h))
  BY <1>7 DEF Next, TimerInterrupt, ProcessCreate, Exit, HandlerReturns, Stopped, SemCreate,
     SemHandleWait, SemWait, SemHandleSignal, SemSignal, LockCreate, LockHandleAcquire,
     LockAcquire, LockHandleRelease, LockRelease, FailsUnchanged, synchVars, vars
<1> QED
  BY <1>2, <1>3, <1>5, <1>6, <1>7

\* Every move of a queue is first come first served.
LEMMA ServesLemma ==
  ASSUME NEW q \in Seq(Pid), NEW r, Moves(q, r), currentPCB \in Pid
  PROVE  ServesInOrder(q, r)
<1>1. Len(q) \in Nat /\ SubSeq(q, 1, Len(q)) = q
  BY SubSeqFull, LenProperties
<1>2. CASE r = q
  <2>1. 0 \in 0 .. 1 /\ Len(q) = Len(q) + 0
    BY <1>1
  <2> QED
    BY <1>1, <1>2, <2>1, Zenon DEF ServesInOrder
<1>3. CASE r = Append(q, currentPCB)
  <2>1. /\ Len(Append(q, currentPCB)) = Len(q) + 1 /\ 1 \in 0 .. 1
        /\ SubSeq(Append(q, currentPCB), 1, Len(q)) = q
    BY <1>1, AppendProperties
  <2> QED
    BY <1>3, <2>1, Zenon DEF ServesInOrder
<1>4. CASE q # <<>> /\ r = Tail(q)
  <2>1. Tail(q) \in Seq(Pid) /\ Len(Tail(q)) = Len(q) - 1 /\ 0 \in 0 .. 1
    BY <1>4, HeadTailProperties
  <2>2. SubSeq(Tail(q), 1, Len(Tail(q))) = Tail(q)
    BY <2>1, SubSeqFull
  <2>3. Len(Tail(q)) = Len(q) - 1 + 0
    BY <1>1, <2>1
  <2> QED
    BY <1>4, <2>1, <2>2, <2>3, Zenon DEF ServesInOrder
<1> QED
  BY <1>2, <1>3, <1>4 DEF Moves

\* A held lock changes hands by an act of its owner alone.
THEOREM LockIsKept == Spec => OnlyOwnerGivesUp
<1>1. IInv /\ [Next]_vars =>
        [\A k \in LockHandle :
           locks[k].pid # NoOwner /\ locks'[k].pid # locks[k].pid
             => locks[k].pid = currentPCB]_vars
  <2> SUFFICES ASSUME IInv, Next
               PROVE  \A k \in LockHandle :
                        locks[k].pid # NoOwner /\ locks'[k].pid # locks[k].pid
                          => locks[k].pid = currentPCB
    OBVIOUS
  <2> QED
    BY OwnersLemma
<1> QED
  BY <1>1, IInvHolds, PTL DEF Spec, OnlyOwnerGivesUp

\* A sleeper is woken only by a signal that finds the count at zero, and it
\* takes the unit of that signal.
THEOREM WakeupsAreBacked == Spec => GrantsAreBacked
<1>1. IInv /\ [Next]_vars =>
        [\A s \in SemHandle :
           Len(sems'[s].waiting) < Len(sems[s].waiting)
             => sems[s].count = 0 /\ sems'[s].count = 0]_vars
  <2> SUFFICES ASSUME IInv, Next, NEW s \in SemHandle,
                      Len(sems'[s].waiting) < Len(sems[s].waiting)
               PROVE  sems[s].count = 0 /\ sems'[s].count = 0
    OBVIOUS
  <2>1. sems[s].waiting \in Seq(Pid) /\ sems[s].count \in Int /\ currentPCB \in Pid
    BY DEF IInv, TypeOK, SchedTypeOK
  <2>2. /\ Len(sems[s].waiting) \in Nat
        /\ Len(Append(sems[s].waiting, currentPCB)) = Len(sems[s].waiting) + 1
    BY <2>1, AppendProperties, LenProperties
  <2>3. /\ sems[s].waiting # <<>> /\ sems[s].count >= 0
        /\ sems'[s].count = sems[s].count
    <3>1. ~(Len(sems[s].waiting) < Len(sems[s].waiting))
          /\ ~(Len(Append(sems[s].waiting, currentPCB)) < Len(sems[s].waiting))
      BY <2>2
    <3> QED
      BY <3>1, SemMovesLemma
  <2>4. sems[s].count <= 0
    BY <2>3 DEF IInv, NoSleeperWithUnits
  <2> QED
    BY <2>1, <2>3, <2>4
<1> QED
  BY <1>1, IInvHolds, PTL DEF Spec, GrantsAreBacked

\* Waiting processes are served first come first served.
THEOREM ServedInOrder == Spec => FirstComeFirstServed
<1>1. IInv /\ [Next]_vars =>
        [/\ \A s \in SemHandle : ServesInOrder(sems[s].waiting, sems'[s].waiting)
         /\ \A k \in LockHandle : ServesInOrder(locks[k].waiting, locks'[k].waiting)
         /\ \A c \in CondHandle : ServesInOrder(conds[c].waiting, conds'[c].waiting)]_vars
  <2> SUFFICES ASSUME IInv, Next
               PROVE  /\ \A s \in SemHandle :
                           ServesInOrder(sems[s].waiting, sems'[s].waiting)
                      /\ \A k \in LockHandle :
                           ServesInOrder(locks[k].waiting, locks'[k].waiting)
                      /\ \A c \in CondHandle :
                           ServesInOrder(conds[c].waiting, conds'[c].waiting)
    OBVIOUS
  <2>1. /\ \A s \in SemHandle : sems[s].waiting \in Seq(Pid)
        /\ \A k \in LockHandle : locks[k].waiting \in Seq(Pid)
        /\ \A c \in CondHandle : conds[c].waiting \in Seq(Pid)
        /\ currentPCB \in Pid
    BY DEF IInv, TypeOK, SchedTypeOK
  <2>2. ASSUME NEW s \in SemHandle
        PROVE  ServesInOrder(sems[s].waiting, sems'[s].waiting)
    BY <2>1, SemMovesLemma, ServesLemma
  <2>3. ASSUME NEW k \in LockHandle
        PROVE  ServesInOrder(locks[k].waiting, locks'[k].waiting)
    BY <2>1, LockMovesLemma, ServesLemma
  <2>4. ASSUME NEW c \in CondHandle
        PROVE  ServesInOrder(conds[c].waiting, conds'[c].waiting)
    BY <2>1, CondMovesLemma, ServesLemma
  <2> QED
    BY <2>2, <2>3, <2>4
<1> QED
  BY <1>1, IInvHolds, PTL DEF Spec, FirstComeFirstServed

=============================================================================
