----------------------------- MODULE SemBuffer ------------------------------
(***************************************************************************)
(* apps/q3: the buffer under a lock, with a semaphore that counts the full *)
(* slots and one that counts the empty ones.  A consumer looks at the head *)
(* of the buffer, whether there is anything in it or not, and waits for a  *)
(* full slot with the lock held.                                           *)
(***************************************************************************)
EXTENDS SharedBuffer

SemBufferInit ==
  /\ BufferInit
  /\ sems = [s_procs_completed |-> ProcsCompleted,
             s_fullslots |-> NewSemOf(0),
             s_emptyslots |-> NewSemOf(BUFFER_SIZE)]
  /\ conds = << >>

ReleaseThenSignal(p) ==
  /\ Step(p, "release", "signal")
  /\ Release(p, "lock")
  /\ UNCHANGED <<app, counter, page>>

SignalSlot(p, s) ==
  /\ Step(p, "signal", "loop")
  /\ Signal(s)
  /\ Counts(p, 1)
  /\ UNCHANGED <<app, page>>

SemProducer(p) ==
  \/ HasMore(p) /\ WaitOn(p, "s_emptyslots", "loop", "acquire")
  \/ AcquireLock(p, "acquire", "insert")
  \/ Insert(p)
  \/ AdvanceWrite(p, "release")
  \/ ReleaseThenSignal(p)
  \/ SignalSlot(p, "s_fullslots")
  \/ ~HasMore(p) /\ Complete(p)

SemConsumer(p) ==
  \/ HasMore(p) /\ AcquireLock(p, "loop", "test")
  \/ HeadChar = Item(p) /\ Test(p, "test", "wait")
  \/ HeadChar # Item(p) /\ Test(p, "test", "retry")
  \/ WaitOn(p, "s_fullslots", "wait", "take")
  \/ Take(p, "release")
  \/ ReleaseThenSignal(p)
  \/ SignalSlot(p, "s_emptyslots")
  \/ ReleaseLock(p, "retry", 0)
  \/ ~HasMore(p) /\ Complete(p)

=============================================================================
