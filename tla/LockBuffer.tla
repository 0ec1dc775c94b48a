----------------------------- MODULE LockBuffer -----------------------------
(***************************************************************************)
(* apps/q2: the buffer under a lock.  A process that cannot go on releases *)
(* the lock and tries again.                                               *)
(***************************************************************************)
EXTENDS SharedBuffer

LockBufferInit ==
  /\ BufferInit
  /\ sems = [s_procs_completed |-> ProcsCompleted]
  /\ conds = << >>

LockProducer(p) ==
  \/ HasMore(p) /\ AcquireLock(p, "loop", "test")
  \/ Full /\ Test(p, "test", "retry")
  \/ ~Full /\ Test(p, "test", "insert")
  \/ Insert(p)
  \/ AdvanceWrite(p, "release")
  \/ ReleaseLock(p, "release", 1)
  \/ ReleaseLock(p, "retry", 0)
  \/ ~HasMore(p) /\ Complete(p)

LockConsumer(p) ==
  \/ HasMore(p) /\ AcquireLock(p, "loop", "test")
  \/ (Empty \/ HeadChar # Item(p)) /\ Test(p, "test", "retry")
  \/ ~Empty /\ HeadChar = Item(p) /\ Test(p, "test", "take")
  \/ Take(p, "release")
  \/ ReleaseLock(p, "release", 1)
  \/ ReleaseLock(p, "retry", 0)
  \/ ~HasMore(p) /\ Complete(p)

=============================================================================
