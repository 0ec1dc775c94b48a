------------------------------ MODULE Process ------------------------------
(***************************************************************************)
(* The scheduler of the DLXOS kernel, os/process.c: the four queues of     *)
(* process control blocks, the status in each block's flags and the        *)
(* pointer currentPCB.  A trap or interrupt handler runs with interrupts   *)
(* disabled, so each operator below is (part of) one atomic step.          *)
(*                                                                         *)
(* A PCB is named by its index in pcbs[], which is also the process's PID. *)
(* waitQueue is a set: the code takes a process off it by the link kept in *)
(* the PCB and reads its order only to print it.  The order of the other   *)
(* queues decides who runs, and which PID a new process gets.              *)
(***************************************************************************)
EXTENDS Queue

CONSTANT PROCESS_MAX_PROCS

ASSUME ProcsAssumption == PROCESS_MAX_PROCS \in Nat \ {0}

VARIABLES freepcbs,      \* sequence of the free PCBs, the next one to use first
          runQueue,      \* sequence of the runnable processes
          waitQueue,     \* set of the sleeping processes
          zombieQueue,   \* sequence of the exited processes not yet reaped
          flags,         \* the PROCESS_STATUS_* bits of each PCB
          currentPCB,    \* the process whose context the next return restores
          stopped        \* "no", or why the kernel called exitsim()

schedVars == <<freepcbs, runQueue, waitQueue, zombieQueue, flags, currentPCB, stopped>>

Pid == 0 .. PROCESS_MAX_PROCS - 1

Status == {"free", "runnable", "waiting", "zombie"}

\* "idle": nothing left to run. "asleep": processes sleep and none can run.
\* "noprocs", "nomemory": ProcessFork found no free PCB or no free page.
ExitReason == {"no", "idle", "asleep", "noprocs", "nomemory"}

-----------------------------------------------------------------------------
(***************************************************************************)
(* The state main() leaves: ProcessModuleInit put each PCB at the front of *)
(* freepcbs in turn, so the highest index is first, and process_create()   *)
(* made the user program named on the command line the first process.      *)
(***************************************************************************)
FirstPid == PROCESS_MAX_PROCS - 1

\* Faulty: the loop over pcbs[] runs one slot too far.
InitialFreePCBsTooMany == [i \in 1 .. PROCESS_MAX_PROCS |-> FirstPid - i]

InitialFreePCBs == [i \in 1 .. FirstPid |-> FirstPid - i]

ProcessInit ==
  /\ freepcbs = InitialFreePCBs
  /\ runQueue = <<FirstPid>>
  /\ waitQueue = {}
  /\ zombieQueue = <<>>
  /\ flags = [p \in Pid |-> IF p = FirstPid THEN "runnable" ELSE "free"]
  /\ currentPCB = FirstPid
  /\ stopped = "no"

-----------------------------------------------------------------------------
(***************************************************************************)
(* ProcessSchedule, on the queues rq, wq, zq and the flags fl as the rest  *)
(* of the handler left them.  With nothing to run the kernel exits, before *)
(* it reaps.  Otherwise the head of the run queue becomes currentPCB, and  *)
(* ProcessFreeResources puts the PCB of every zombie behind freepcbs.      *)
(***************************************************************************)
ProcessSchedule(rq, wq, zq, fl) ==
  /\ runQueue' = rq
  /\ waitQueue' = wq
  /\ \/ /\ rq = <<>>
        /\ stopped' = IF wq = {} THEN "idle" ELSE "asleep"
        /\ zombieQueue' = zq
        /\ flags' = fl
        /\ UNCHANGED <<freepcbs, currentPCB>>
     \/ /\ rq # <<>>
        /\ currentPCB' = Head(rq)
        /\ zombieQueue' = <<>>
        /\ freepcbs' = freepcbs \o zq
        /\ flags' = [p \in Pid |-> IF p \in InQueue(zq) THEN "free" ELSE fl[p]]
        /\ UNCHANGED stopped

\* Faulty: the timer runs the next process without moving the running one.
PreemptWithoutRotating == ProcessSchedule(runQueue, waitQueue, zombieQueue, flags)

\* ProcessSchedule(0), as the timer interrupt calls it.
Preempt == ProcessSchedule(Rotate(runQueue), waitQueue, zombieQueue, flags)

\* ProcessWakeup: w joins the end of the run queue, the caller runs on.
ProcessWakeup(w) ==
  /\ flags' = [flags EXCEPT ![w] = "runnable"]
  /\ waitQueue' = waitQueue \ {w}
  /\ runQueue' = Append(runQueue, w)
  /\ UNCHANGED <<freepcbs, zombieQueue, currentPCB, stopped>>

\* ProcessSleep: ProcessSuspend(currentPCB), then ProcessSchedule(1).
ProcessSleep ==
  ProcessSchedule(AQueueRemove(runQueue, currentPCB),
                  waitQueue \union {currentPCB},
                  zombieQueue,
                  [flags EXCEPT ![currentPCB] = "waiting"])

\* ProcessWakeup(w) and then ProcessSleep in the same handler.
WakeupAndSleep(w) ==
  ProcessSchedule(AQueueRemove(Append(runQueue, w), currentPCB),
                  (waitQueue \ {w}) \union {currentPCB},
                  zombieQueue,
                  [flags EXCEPT ![w] = "runnable", ![currentPCB] = "waiting"])

(***************************************************************************)
(* The exit trap: ProcessDestroy(currentPCB), then ProcessSchedule(0).     *)
(* The exiting process is off the run queue when ProcessSchedule rotates   *)
(* it, so what moves to the end is the process that was next in line.      *)
(***************************************************************************)
ProcessDestroyCurrent ==
  ProcessSchedule(Rotate(AQueueRemove(runQueue, currentPCB)),
                  waitQueue,
                  <<currentPCB>> \o zombieQueue,
                  [flags EXCEPT ![currentPCB] = "zombie"])

-----------------------------------------------------------------------------
(***************************************************************************)
(* ProcessFork, called from the process_create trap.  Its four outcomes:   *)
(* no free PCB and no free page stop the simulator; a program that is not  *)
(* found gives the PCB back, at the other end of freepcbs; otherwise the   *)
(* new process joins the end of the run queue.  Whether pages are left and *)
(* whether the file is there is not this module's state: both outcomes of  *)
(* each are possible.                                                      *)
(***************************************************************************)
StopFor(why) ==
  /\ stopped' = why
  /\ UNCHANGED <<runQueue, waitQueue, zombieQueue, currentPCB>>

ForkWithoutPCB ==
  /\ freepcbs = <<>>
  /\ StopFor("noprocs")
  /\ UNCHANGED <<freepcbs, flags>>

\* The PCB is off freepcbs and marked runnable when the page is missing.
ForkWithoutPage ==
  /\ freepcbs # <<>>
  /\ StopFor("nomemory")
  /\ freepcbs' = Tail(freepcbs)
  /\ flags' = [flags EXCEPT ![Head(freepcbs)] = "runnable"]

ForkWithoutProgram ==
  /\ freepcbs # <<>>
  /\ freepcbs' = Rotate(freepcbs)
  /\ flags' = [flags EXCEPT ![Head(freepcbs)] = "free"]
  /\ UNCHANGED <<runQueue, waitQueue, zombieQueue, currentPCB, stopped>>

ForkOK ==
  /\ freepcbs # <<>>
  /\ freepcbs' = Tail(freepcbs)
  /\ flags' = [flags EXCEPT ![Head(freepcbs)] = "runnable"]
  /\ runQueue' = Append(runQueue, Head(freepcbs))
  /\ UNCHANGED <<waitQueue, zombieQueue, currentPCB, stopped>>

ProcessFork == ForkWithoutPCB \/ ForkWithoutPage \/ ForkWithoutProgram \/ ForkOK

-----------------------------------------------------------------------------
SchedTypeOK ==
  /\ freepcbs \in Seq(Pid)
  /\ runQueue \in Seq(Pid)
  /\ waitQueue \subseteq Pid
  /\ zombieQueue \in Seq(Pid)
  /\ flags \in [Pid -> Status]
  /\ currentPCB \in Pid
  /\ stopped \in ExitReason

WithStatus(fl, s) == {p \in Pid : fl[p] = s}

\* The queues hold each process once, on the queue its status names.
QueuesMatch(fq, rq, wq, zq, fl) ==
  /\ NoDuplicates(fq) /\ NoDuplicates(rq) /\ NoDuplicates(zq)
  /\ InQueue(fq) = WithStatus(fl, "free")
  /\ InQueue(rq) = WithStatus(fl, "runnable")
  /\ wq = WithStatus(fl, "waiting")
  /\ InQueue(zq) = WithStatus(fl, "zombie")

\* While the kernel runs, every PCB is on exactly the queue its flags name,
\* once: each AQueueRemove puts the PCB's link back in the pool and the
\* insertion that follows sets the PCB's one link pointer again, so a PCB on
\* two queues, or on none, would be lost.  No zombie outlives the handler of
\* its exit trap.  The running process is the head of the run queue, which
\* ProcessSchedule counts on when it rotates the queue.
QueueInv ==
  stopped = "no" =>
    /\ QueuesMatch(freepcbs, runQueue, waitQueue, zombieQueue, flags)
    /\ zombieQueue = <<>>
    /\ runQueue # <<>> /\ currentPCB = Head(runQueue)

=============================================================================
