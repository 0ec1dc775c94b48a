--------------------------- MODULE MonitorBuffer ----------------------------
(***************************************************************************)
(* apps/q4: the buffer in a monitor, with condition variables not_full and *)
(* not_empty.  Both are waited for under an if, not a while.               *)
(***************************************************************************)
EXTENDS SharedBuffer

MonitorBufferInit ==
  /\ BufferInit
  /\ sems = [s_procs_completed |-> ProcsCompleted]
  /\ conds = [c \in {"not_full", "not_empty"} |-> [lock |-> "lock", waiting |-> <<>>]]

CondWaitOn(p, c, to) ==
  /\ Step(p, "test", to)
  /\ CondWait(p, c)
  /\ UNCHANGED <<app, counter, page>>

\* cond_signal; n is what is added to the index before the lock is released.
CondSignalOn(p, c, n) ==
  /\ Step(p, "signal", "release")
  /\ CondSignal(p, c)
  /\ Counts(p, n)
  /\ UNCHANGED <<app, page>>

MonitorProducer(p) ==
  \/ HasMore(p) /\ AcquireLock(p, "loop", "test")
  \/ Full /\ CondWaitOn(p, "not_full", "insert")
  \/ ~Full /\ Test(p, "test", "insert")
  \/ Insert(p)
  \/ AdvanceWrite(p, "signal")
  \/ CondSignalOn(p, "not_empty", 0)
  \/ ReleaseLock(p, "release", 1)
  \/ ~HasMore(p) /\ Complete(p)

MonitorConsumer(p) ==
  \/ HasMore(p) /\ AcquireLock(p, "loop", "test")
  \/ Empty /\ CondWaitOn(p, "not_empty", "look")
  \/ ~Empty /\ Test(p, "test", "look")
  \/ HeadChar # Item(p) /\ Test(p, "look", "release")
  \/ HeadChar = Item(p) /\ Test(p, "look", "take")
  \/ Take(p, "signal")
  \/ CondSignalOn(p, "not_full", 1)
  \/ ReleaseLock(p, "release", 0)
  \/ ~HasMore(p) /\ Complete(p)

=============================================================================
