--------------------------- MODULE ProgramsProofs ---------------------------
(***************************************************************************)
(* q2, q3 and q4 never have two processes in the buffer, for any number of *)
(* producers and consumers, any buffer and any number of characters.  In   *)
(* all four programs makeprocs goes on only when its children are done.    *)
(***************************************************************************)
EXTENDS Programs, QueueProofs, FiniteSetTheorems

-----------------------------------------------------------------------------
(* The inductive invariant *)

\* Where a process of the program that runs needs the lock.  q4 signals with
\* the lock held, q3 without it.
Guarded == IF app = "q4" THEN Critical \union {"signal"} ELSE Critical

LocksType == [{"lock"} -> [owner : BufferProcess \union {NoOwner}, waiting : Seq(BufferProcess)]]
CondsType == [DOMAIN conds -> [lock : {"lock"}, waiting : Seq(BufferProcess)]]

BufferTypeOK ==
  /\ DOMAIN pc = BufferProcess \union {makeprocs}
  /\ locks \in LocksType
  /\ conds \in CondsType

\* p waits for a condition, or for the lock.
OnCond(p) == \E c \in DOMAIN conds : p \in InQueue(conds[c].waiting)
OnLock(p) == p \in InQueue(locks["lock"].waiting)

\* A process that needs the lock and does not wait for it has it.
HasLock ==
  \A p \in BufferProcess :
    pc[p] \in Guarded /\ ~OnCond(p) /\ ~OnLock(p) => locks["lock"].owner = p

IInv == IsBuffer => BufferTypeOK /\ HasLock

-----------------------------------------------------------------------------
(* How a step of a process moves the lock *)

\* The steps of a buffer's process.
Moves(p, from, to) ==
  /\ p \in BufferProcess /\ pc[p] = from
  /\ ~OnCond(p) /\ ~OnLock(p)
  /\ pc' = [pc EXCEPT ![p] = to]
  /\ app' = app

\* A process that is awake waits for neither condition nor lock.
LEMMA MovesLemma ==
  ASSUME BufferTypeOK, NEW p \in BufferProcess, NEW from, NEW to,
         Step(p, from, to), app' = app
  PROVE  Moves(p, from, to)
BY DEF Step, Awake, WaitsIn, Moves, OnCond, OnLock, BufferTypeOK, LocksType

\* What HasLock says of p, and of the others, when p has made a step.
LEMMA OthersLemma ==
  ASSUME BufferTypeOK, NEW p, NEW from, NEW to, Moves(p, from, to)
  PROVE  /\ DOMAIN pc' = BufferProcess \union {makeprocs}
         /\ pc'[p] = to /\ Guarded' = Guarded
         /\ \A q \in BufferProcess \ {p} : pc'[q] = pc[q]
BY DEF Moves, BufferTypeOK, Guarded

\* A step that leaves the lock and its waiters alone.
LEMMA StayLemma ==
  ASSUME BufferTypeOK, HasLock, NEW p, NEW from, NEW to, Moves(p, from, to),
         from \in Guarded \/ to \notin Guarded, UNCHANGED <<locks, conds>>
  PROVE  BufferTypeOK' /\ HasLock'
<1>1. /\ DOMAIN pc' = BufferProcess \union {makeprocs}
      /\ pc'[p] = to /\ Guarded' = Guarded
      /\ \A q \in BufferProcess \ {p} : pc'[q] = pc[q]
  BY OthersLemma
<1>2. BufferTypeOK'
  BY <1>1 DEF BufferTypeOK, LocksType, CondsType
<1>3. \A q \in BufferProcess : OnCond(q)' = OnCond(q) /\ OnLock(q)' = OnLock(q)
  BY DEF OnCond, OnLock
<1>4. ASSUME NEW q \in BufferProcess, pc'[q] \in Guarded, ~OnCond(q), ~OnLock(q)
      PROVE  locks["lock"].owner = q
  BY <1>1, <1>4 DEF HasLock, Moves
<1> QED
  BY <1>1, <1>2, <1>3, <1>4 DEF HasLock

\* What a call of p on the lock or a condition does to the other processes:
\* those that waited still do, but for the one that has the lock now, and the
\* lock is taken from nobody but p.
Serves(p) ==
  /\ \A q \in BufferProcess \ {p} :
       OnCond(q) \/ OnLock(q) => OnCond(q)' \/ OnLock(q)' \/ locks'["lock"].owner = q
  /\ \/ locks["lock"].owner \in {p, NoOwner}
     \/ locks'["lock"].owner = locks["lock"].owner

\* A step with such a call, after which p has the lock, waits, or needs none.
LEMMA CallLemma ==
  ASSUME BufferTypeOK, HasLock, NEW p, NEW from, NEW to, Moves(p, from, to),
         locks' \in LocksType, conds' \in CondsType',
         Serves(p),
         to \notin Guarded \/ OnCond(p)' \/ OnLock(p)' \/ locks'["lock"].owner = p
  PROVE  BufferTypeOK' /\ HasLock'
<1>1. /\ DOMAIN pc' = BufferProcess \union {makeprocs}
      /\ pc'[p] = to /\ Guarded' = Guarded
      /\ \A q \in BufferProcess \ {p} : pc'[q] = pc[q]
  BY OthersLemma
<1>2. BufferTypeOK'
  BY <1>1 DEF BufferTypeOK, LocksType
<1>3. ASSUME NEW q \in BufferProcess \ {p}, pc'[q] \in Guarded', ~OnCond(q)', ~OnLock(q)'
      PROVE  locks'["lock"].owner = q
  <2>1. CASE OnCond(q) \/ OnLock(q)
    BY <1>3, <2>1 DEF Serves
  <2>2. CASE ~OnCond(q) /\ ~OnLock(q)
    <3>1. locks["lock"].owner = q
      BY <1>1, <1>3, <2>2 DEF HasLock
    <3>2. q # NoOwner /\ q # p
      BY BufferAssumption DEF BufferProcess
    <3> QED
      BY <3>1, <3>2 DEF Serves
  <2> QED
    BY <2>1, <2>2
<1> QED
  BY <1>1, <1>2, <1>3 DEF HasLock

\* lock_acquire.
LEMMA AcquireLemma ==
  ASSUME BufferTypeOK, HasLock, NEW p, NEW from, NEW to, Moves(p, from, to),
         Acquire(p, "lock")
  PROVE  BufferTypeOK' /\ HasLock'
<1>1. /\ p \in BufferProcess /\ locks \in LocksType /\ conds' = conds /\ conds \in CondsType
  BY DEF Moves, BufferTypeOK, Acquire
<1>2. conds' \in CondsType' /\ \A q \in BufferProcess : OnCond(q)' = OnCond(q)
  BY <1>1 DEF CondsType, OnCond
<1>3. CASE locks["lock"].owner = p /\ UNCHANGED locks
  <2>1. Serves(p) /\ locks'["lock"].owner = p /\ locks' \in LocksType
    BY <1>1, <1>2, <1>3 DEF Serves, OnLock
  <2> QED
    BY <1>2, <2>1, CallLemma
<1>4. CASE locks["lock"].owner = NoOwner /\ locks' = [locks EXCEPT !["lock"].owner = p]
  <2>1. /\ locks' \in LocksType /\ locks'["lock"].owner = p
        /\ locks'["lock"].waiting = locks["lock"].waiting
    BY <1>1, <1>4 DEF LocksType
  <2>2. Serves(p)
    BY <1>2, <1>4, <2>1 DEF Serves, OnLock
  <2> QED
    BY <1>2, <2>1, <2>2, CallLemma
<1>5. CASE /\ locks["lock"].owner \notin {p, NoOwner}
           /\ locks' = [locks EXCEPT !["lock"].waiting = Append(@, p)]
  <2> DEFINE w == locks["lock"].waiting
  <2>1. w \in Seq(BufferProcess)
    BY <1>1 DEF LocksType
  <2>2. /\ Append(w, p) \in Seq(BufferProcess)
        /\ InQueue(Append(w, p)) = InQueue(w) \union {p}
    BY <1>1, <2>1, AppendLemma
  <2>3. /\ locks' \in LocksType /\ locks'["lock"].owner = locks["lock"].owner
        /\ locks'["lock"].waiting = Append(w, p)
    BY <1>1, <1>5, <2>2 DEF LocksType
  <2>4. Serves(p) /\ OnLock(p)'
    BY <1>1, <1>2, <2>2, <2>3 DEF Serves, OnLock
  <2> QED
    BY <1>2, <2>3, <2>4, CallLemma
<1> QED
  BY <1>3, <1>4, <1>5 DEF Acquire

\* The lock passes from p to the first that waits for it, if any does.
LEMMA PassedOnLemma ==
  ASSUME locks \in LocksType, locks' = PassedOn("lock")
  PROVE  /\ locks' \in LocksType
         /\ \A q : OnLock(q) => OnLock(q)' \/ locks'["lock"].owner = q
<1> DEFINE w == locks["lock"].waiting
<1>1. w \in Seq(BufferProcess)
  BY DEF LocksType
<1>2. CASE w = <<>>
  <2>1. locks' \in LocksType /\ locks'["lock"].waiting = w
    BY <1>2 DEF PassedOn, LocksType
  <2> QED
    BY <2>1 DEF OnLock
<1>3. CASE w # <<>>
  <2>1. /\ Head(w) \in BufferProcess /\ Tail(w) \in Seq(BufferProcess)
        /\ InQueue(w) = InQueue(Tail(w)) \union {Head(w)}
    BY <1>1, <1>3, TailLemma
  <2>2. locks' = [locks EXCEPT !["lock"] = [owner |-> Head(w), waiting |-> Tail(w)]]
    BY <1>3 DEF PassedOn
  <2>3. PICK h \in BufferProcess, t \in Seq(BufferProcess) : h = Head(w) /\ t = Tail(w)
    BY <2>1
  <2>4. locks' = [locks EXCEPT !["lock"] = [owner |-> h, waiting |-> t]]
    BY <2>2, <2>3
  <2> HIDE DEF w
  <2>5. /\ locks' \in LocksType /\ locks'["lock"].owner = h
        /\ locks'["lock"].waiting = t
    BY <2>4 DEF LocksType
  <2> QED
    BY <2>1, <2>3, <2>5 DEF OnLock, w
<1> QED
  BY <1>2, <1>3

\* lock_release, on the way to a place where the lock is not needed.
LEMMA ReleaseLemma ==
  ASSUME BufferTypeOK, HasLock, NEW p, NEW from, NEW to, Moves(p, from, to),
         Release(p, "lock"), to \notin Guarded
  PROVE  BufferTypeOK' /\ HasLock'
<1>1. locks \in LocksType /\ conds' = conds /\ conds \in CondsType
  BY DEF BufferTypeOK, Release
<1>2. conds' \in CondsType' /\ \A q \in BufferProcess : OnCond(q)' = OnCond(q)
  BY <1>1 DEF CondsType, OnCond
<1>3. CASE locks["lock"].owner = p /\ locks' = PassedOn("lock")
  <2>1. locks' \in LocksType /\ Serves(p)
    BY <1>1, <1>2, <1>3, PassedOnLemma DEF Serves
  <2> QED
    BY <1>2, <2>1, CallLemma
<1>4. CASE UNCHANGED locks
  BY <1>1, <1>4, StayLemma
<1> QED
  BY <1>3, <1>4 DEF Release

\* cond_wait.
LEMMA CondWaitLemma ==
  ASSUME BufferTypeOK, HasLock, NEW p, NEW from, NEW to, Moves(p, from, to),
         NEW c \in DOMAIN conds, CondWait(p, c), from \in Guarded
  PROVE  BufferTypeOK' /\ HasLock'
<1>1. /\ p \in BufferProcess /\ locks \in LocksType /\ conds \in CondsType
      /\ conds[c].lock = "lock"
  BY DEF Moves, BufferTypeOK, CondsType
<1>2. CASE UNCHANGED <<locks, conds>>
  BY <1>2, StayLemma
<1>3. CASE /\ locks["lock"].owner = p /\ locks' = PassedOn("lock")
           /\ conds' = [conds EXCEPT ![c].waiting = Append(@, p)]
  <2> DEFINE w == conds[c].waiting
  <2>1. w \in Seq(BufferProcess)
    BY <1>1 DEF CondsType
  <2>2. /\ Append(w, p) \in Seq(BufferProcess)
        /\ InQueue(Append(w, p)) = InQueue(w) \union {p}
    BY <1>1, <2>1, AppendLemma
  <2>3. /\ conds' \in CondsType /\ DOMAIN conds' = DOMAIN conds
        /\ conds'[c].waiting = Append(w, p)
        /\ \A x \in DOMAIN conds \ {c} : conds'[x] = conds[x]
    BY <1>1, <1>3, <2>2 DEF CondsType
  <2>4. conds' \in CondsType'
    BY <2>3 DEF CondsType
  <2>5. OnCond(p)' /\ \A q : OnCond(q) => OnCond(q)'
    BY <2>2, <2>3 DEF OnCond
  <2>6. locks' \in LocksType /\ Serves(p)
    BY <1>1, <1>3, <2>5, PassedOnLemma DEF Serves
  <2> QED
    BY <2>4, <2>5, <2>6, CallLemma
<1> QED
  BY <1>1, <1>2, <1>3 DEF CondWait

\* cond_signal.
LEMMA CondSignalLemma ==
  ASSUME BufferTypeOK, HasLock, NEW p, NEW from, NEW to, Moves(p, from, to),
         NEW c \in DOMAIN conds, CondSignal(p, c), from \in Guarded
  PROVE  BufferTypeOK' /\ HasLock'
<1> DEFINE w == conds[c].waiting
           v == locks["lock"].waiting
<1>1. /\ p \in BufferProcess /\ locks \in LocksType /\ conds \in CondsType
      /\ conds[c].lock = "lock"
      /\ w \in Seq(BufferProcess) /\ v \in Seq(BufferProcess)
  BY DEF Moves, BufferTypeOK, CondsType, LocksType
<1>2. CASE UNCHANGED <<locks, conds>>
  BY <1>2, StayLemma
<1>3. CASE /\ locks["lock"].owner = p /\ w # <<>>
           /\ conds' = [conds EXCEPT ![c].waiting = Tail(@)]
           /\ locks' = [locks EXCEPT !["lock"] = [owner |-> Head(w), waiting |-> Append(v, p)]]
  <2>1. /\ Head(w) \in BufferProcess /\ Tail(w) \in Seq(BufferProcess)
        /\ InQueue(w) = InQueue(Tail(w)) \union {Head(w)}
    BY <1>1, <1>3, TailLemma
  <2>2. /\ Append(v, p) \in Seq(BufferProcess)
        /\ InQueue(Append(v, p)) = InQueue(v) \union {p}
    BY <1>1, AppendLemma
  <2>3. /\ conds' \in CondsType /\ DOMAIN conds' = DOMAIN conds
        /\ conds'[c].waiting = Tail(w)
        /\ \A x \in DOMAIN conds \ {c} : conds'[x] = conds[x]
    BY <1>1, <1>3, <2>1 DEF CondsType
  <2>4. /\ locks' \in LocksType /\ locks'["lock"].owner = Head(w)
        /\ locks'["lock"].waiting = Append(v, p)
    BY <1>1, <1>3, <2>1, <2>2 DEF LocksType
  <2>5. conds' \in CondsType'
    BY <2>3 DEF CondsType
  <2>6. \A q : OnCond(q) => OnCond(q)' \/ locks'["lock"].owner = q
    BY <2>1, <2>3, <2>4 DEF OnCond
  <2>7. OnLock(p)' /\ \A q : OnLock(q) => OnLock(q)'
    BY <2>2, <2>4 DEF OnLock
  <2>8. Serves(p)
    BY <1>3, <2>6, <2>7 DEF Serves
  <2> QED
    BY <2>4, <2>5, <2>7, <2>8, CallLemma
<1> QED
  BY <1>1, <1>2, <1>3 DEF CondSignal

-----------------------------------------------------------------------------
(* The steps that programs are made of *)

\* A step of p that makes no call on the lock or a condition.
Stays(p, from, to) ==
  /\ Step(p, from, to)
  /\ from \in Guarded \/ to \notin Guarded
  /\ UNCHANGED <<app, locks, conds>>

\* Such a step leaves everybody who had the lock with it.
LEMMA StaysLemma ==
  ASSUME BufferTypeOK, HasLock, NEW p \in BufferProcess, NEW from, NEW to, Stays(p, from, to)
  PROVE  BufferTypeOK' /\ HasLock'
<1>1. Moves(p, from, to)
  BY MovesLemma DEF Stays
<1> QED
  BY <1>1, StayLemma DEF Stays

\* Tests of the buffer are made with the lock.
LEMMA TestLemma ==
  ASSUME BufferTypeOK, HasLock, NEW p \in BufferProcess, NEW from \in Guarded, NEW to,
         Test(p, from, to)
  PROVE  BufferTypeOK' /\ HasLock'
<1>1. Stays(p, from, to)
  BY DEF Stays, Test, synchVars
<1> QED
  BY <1>1, StaysLemma

\* So are the steps that change it.
LEMMA PageLemma ==
  ASSUME BufferTypeOK, HasLock, NEW p \in BufferProcess, NEW to,
         Insert(p) \/ AdvanceWrite(p, to) \/ Take(p, to)
  PROVE  BufferTypeOK' /\ HasLock'
<1>1. {"insert", "advance", "take"} \subseteq Guarded
  BY DEF Guarded, Critical
<1>2. CASE Insert(p)
  <2>1. Step(p, "insert", "advance") /\ UNCHANGED <<app, synchVars>>
    BY <1>2, Zenon DEF Insert
  <2>2. Stays(p, "insert", "advance")
    BY <1>1, <2>1 DEF Stays, synchVars
  <2> QED
    BY <2>2, StaysLemma
<1>3. CASE AdvanceWrite(p, to)
  <2>1. Stays(p, "advance", to)
    BY <1>1, <1>3 DEF Stays, AdvanceWrite, synchVars
  <2> QED
    BY <2>1, StaysLemma
<1>4. CASE Take(p, to)
  <2>1. Stays(p, "take", to)
    BY <1>1, <1>4 DEF Stays, Take, synchVars
  <2> QED
    BY <2>1, StaysLemma
<1> QED
  BY <1>2, <1>3, <1>4

\* Calls on semaphores leave locks and condition variables alone.
LEMMA SemaphoresLemma ==
  /\ \A s : Signal(s) => UNCHANGED <<locks, conds>>
  /\ \A p, s : Wait(p, s) => UNCHANGED <<locks, conds>>
BY Zenon DEF Signal, Wait

\* sem_wait on a semaphore of q3.
LEMMA SemWaitLemma ==
  ASSUME BufferTypeOK, HasLock, NEW p \in BufferProcess, NEW s, NEW from, NEW to,
         from \in Guarded \/ to \notin Guarded, WaitOn(p, s, from, to)
  PROVE  BufferTypeOK' /\ HasLock'
<1>1. Stays(p, from, to)
  BY SemaphoresLemma DEF Stays, WaitOn
<1> QED
  BY <1>1, StaysLemma

\* sem_signal on a semaphore of q3, after the lock was released.
LEMMA SignalSlotLemma ==
  ASSUME BufferTypeOK, HasLock, NEW p \in BufferProcess, NEW s, SignalSlot(p, s)
  PROVE  BufferTypeOK' /\ HasLock'
<1>1. "loop" \notin Guarded
  BY DEF Guarded, Critical
<1>2. Stays(p, "signal", "loop")
  BY <1>1, SemaphoresLemma DEF Stays, SignalSlot
<1> QED
  BY <1>2, StaysLemma

\* The last signal of a child.
LEMMA CompleteLemma ==
  ASSUME BufferTypeOK, HasLock, NEW p \in BufferProcess, Complete(p)
  PROVE  BufferTypeOK' /\ HasLock'
<1>1. "done" \notin Guarded
  BY DEF Guarded, Critical
<1>2. Stays(p, "loop", "done")
  BY <1>1, SemaphoresLemma DEF Stays, Complete
<1> QED
  BY <1>2, StaysLemma

\* lock_acquire.
LEMMA AcquireLockLemma ==
  ASSUME BufferTypeOK, HasLock, NEW p \in BufferProcess, NEW from, NEW to,
         AcquireLock(p, from, to)
  PROVE  BufferTypeOK' /\ HasLock'
<1>1. Moves(p, from, to) /\ Acquire(p, "lock")
  BY MovesLemma DEF AcquireLock
<1> QED
  BY <1>1, AcquireLemma

\* lock_release.
LEMMA ReleaseLockLemma ==
  ASSUME BufferTypeOK, HasLock, NEW p \in BufferProcess, NEW from, NEW n,
         ReleaseLock(p, from, n)
  PROVE  BufferTypeOK' /\ HasLock'
<1>1. "loop" \notin Guarded
  BY DEF Guarded, Critical
<1>2. Moves(p, from, "loop") /\ Release(p, "lock")
  BY MovesLemma DEF ReleaseLock
<1> QED
  BY <1>1, <1>2, ReleaseLemma

-----------------------------------------------------------------------------
(* The programs *)

\* q2.
LEMMA LockBufferLemma ==
  ASSUME BufferTypeOK, HasLock, NEW p \in BufferProcess, LockProducer(p) \/ LockConsumer(p)
  PROVE  BufferTypeOK' /\ HasLock'
<1>1. "test" \in Guarded
  BY DEF Guarded, Critical
<1>2. CASE LockProducer(p)
  BY <1>1, <1>2, AcquireLockLemma, TestLemma, PageLemma, ReleaseLockLemma, CompleteLemma
     DEF LockProducer
<1>3. CASE LockConsumer(p)
  BY <1>1, <1>3, AcquireLockLemma, TestLemma, PageLemma, ReleaseLockLemma, CompleteLemma
     DEF LockConsumer
<1> QED
  BY <1>2, <1>3

\* q3.
LEMMA SemBufferLemma ==
  ASSUME BufferTypeOK, HasLock, app = "q3", NEW p \in BufferProcess,
         SemProducer(p) \/ SemConsumer(p)
  PROVE  BufferTypeOK' /\ HasLock'
<1>1. /\ "test" \in Guarded /\ "wait" \in Guarded
      /\ "acquire" \notin Guarded /\ "signal" \notin Guarded
  BY DEF Guarded, Critical
<1>2. ASSUME ReleaseThenSignal(p)
      PROVE  BufferTypeOK' /\ HasLock'
  <2>1. Moves(p, "release", "signal") /\ Release(p, "lock")
    BY <1>2, MovesLemma DEF ReleaseThenSignal
  <2> QED
    BY <1>1, <2>1, ReleaseLemma
<1>3. CASE SemProducer(p)
  BY <1>1, <1>2, <1>3, AcquireLockLemma, PageLemma, SemWaitLemma, SignalSlotLemma,
     CompleteLemma DEF SemProducer
<1>4. CASE SemConsumer(p)
  BY <1>1, <1>2, <1>4, AcquireLockLemma, TestLemma, PageLemma, SemWaitLemma,
     SignalSlotLemma, ReleaseLockLemma, CompleteLemma DEF SemConsumer
<1> QED
  BY <1>3, <1>4

\* q4.
LEMMA MonitorBufferLemma ==
  ASSUME BufferTypeOK, HasLock, app = "q4", DOMAIN conds = {"not_full", "not_empty"},
         NEW p \in BufferProcess, MonitorProducer(p) \/ MonitorConsumer(p)
  PROVE  BufferTypeOK' /\ HasLock'
<1>1. "test" \in Guarded /\ "look" \in Guarded /\ "signal" \in Guarded
  BY DEF Guarded, Critical
<1>2. ASSUME NEW c \in DOMAIN conds, NEW to, CondWaitOn(p, c, to)
      PROVE  BufferTypeOK' /\ HasLock'
  <2>1. Moves(p, "test", to) /\ CondWait(p, c)
    BY <1>2, MovesLemma DEF CondWaitOn
  <2> QED
    BY <1>1, <2>1, CondWaitLemma
<1>3. ASSUME NEW c \in DOMAIN conds, NEW n, CondSignalOn(p, c, n)
      PROVE  BufferTypeOK' /\ HasLock'
  <2>1. Moves(p, "signal", "release") /\ CondSignal(p, c)
    BY <1>3, MovesLemma DEF CondSignalOn
  <2> QED
    BY <1>1, <2>1, CondSignalLemma
<1>4. CASE MonitorProducer(p)
  BY <1>1, <1>2, <1>3, <1>4, AcquireLockLemma, TestLemma, PageLemma, ReleaseLockLemma,
     CompleteLemma DEF MonitorProducer
<1>5. CASE MonitorConsumer(p)
  BY <1>1, <1>2, <1>3, <1>5, AcquireLockLemma, TestLemma, PageLemma, ReleaseLockLemma,
     CompleteLemma DEF MonitorConsumer
<1> QED
  BY <1>4, <1>5

-----------------------------------------------------------------------------
(* The theorem *)

\* q4 has its two condition variables from the beginning.
CondsExist == app = "q4" => DOMAIN conds = {"not_full", "not_empty"}

StrongInv == IInv /\ CondsExist

\* A buffer's program starts with its lock free and nobody in the buffer.
LEMMA BufferInitLemma ==
  ASSUME BufferInit, conds \in CondsType
  PROVE  BufferTypeOK /\ HasLock
<1>1. DOMAIN pc = BufferProcess \union {makeprocs}
  BY DEF BufferInit, Uncreated
<1>2. \A p \in BufferProcess : pc[p] = "uncreated"
  BY BufferAssumption DEF BufferInit, Uncreated, BufferProcess
<1>3. locks \in LocksType
  <2>1. <<>> \in Seq(BufferProcess)
    OBVIOUS
  <2> QED
    BY <2>1 DEF BufferInit, LocksType
<1>4. HasLock
  BY <1>2 DEF HasLock, Guarded, Critical
<1> QED
  BY <1>1, <1>3, <1>4 DEF BufferTypeOK

\* makeprocs creates the first process when the invariant holds.
LEMMA InitEstablishesInv == Init => StrongInv
<1> SUFFICES ASSUME Init PROVE StrongInv
  OBVIOUS
<1>1. CASE app = "q2" /\ LockBufferInit
  <2>1. conds = << >>
    BY <1>1 DEF LockBufferInit
  <2>2. conds \in CondsType
    BY <2>1 DEF CondsType
  <2> QED
    BY <1>1, <2>2, BufferInitLemma DEF LockBufferInit, StrongInv, IInv, CondsExist
<1>2. CASE app = "q3" /\ SemBufferInit
  <2>1. conds = << >>
    BY <1>2 DEF SemBufferInit
  <2>2. conds \in CondsType
    BY <2>1 DEF CondsType
  <2> QED
    BY <1>2, <2>2, BufferInitLemma DEF SemBufferInit, StrongInv, IInv, CondsExist
<1>3. CASE app = "q4" /\ MonitorBufferInit
  <2>1. /\ BufferInit
        /\ conds = [c \in {"not_full", "not_empty"} |-> [lock |-> "lock", waiting |-> <<>>]]
    BY <1>3 DEF MonitorBufferInit
  <2>2. conds \in CondsType /\ DOMAIN conds = {"not_full", "not_empty"}
    BY <2>1 DEF CondsType
  <2> QED
    BY <1>3, <2>1, <2>2, BufferInitLemma DEF StrongInv, IInv, CondsExist
<1>4. CASE app = "q5"
  BY <1>4 DEF StrongInv, IInv, CondsExist, IsBuffer
<1> QED
  BY <1>1, <1>2, <1>3, <1>4 DEF Init

\* No step changes which program runs.
LEMMA AppLemma ==
  ASSUME [Next]_vars
  PROVE  app' = app
<1>1. ASSUME NEW p, LockProducer(p) \/ LockConsumer(p)
      PROVE  app' = app
  BY <1>1, Zenon DEF LockProducer, LockConsumer, AcquireLock, Test, Insert, AdvanceWrite, Take,
     ReleaseLock, Complete
<1>2. ASSUME NEW p, SemProducer(p) \/ SemConsumer(p)
      PROVE  app' = app
  BY <1>2, Zenon DEF SemProducer, SemConsumer, AcquireLock, Test, Insert, AdvanceWrite, Take,
     WaitOn, ReleaseThenSignal, SignalSlot, ReleaseLock, Complete
<1>3. ASSUME NEW p, MonitorProducer(p) \/ MonitorConsumer(p)
      PROVE  app' = app
  BY <1>3, Zenon DEF MonitorProducer, MonitorConsumer, AcquireLock, Test, Insert, AdvanceWrite,
     Take, CondWaitOn, CondSignalOn, ReleaseLock, Complete
<1>4. ASSUME NEW p, ReactionsStep(p)
      PROVE  app' = app
  BY <1>4, Zenon DEF ReactionsStep, Inject, React, Complete
<1>5. ASSUME NEW p, ChildStep(p)
      PROVE  app' = app
  BY <1>1, <1>2, <1>3, <1>4, <1>5 DEF ChildStep, BufferStep, CreateChild
<1>6. CASE WaitForChildren \/ NobodyRuns \/ UNCHANGED vars
  BY <1>6 DEF WaitForChildren, NobodyRuns, vars, progVars
<1> QED
  BY <1>5, <1>6 DEF Next

\* The monitor keeps its condition variables.
LEMMA CondsLemma ==
  ASSUME NEW p, MonitorProducer(p) \/ MonitorConsumer(p)
  PROVE  DOMAIN conds' = DOMAIN conds
<1>1. ASSUME NEW c, CondWait(p, c) \/ CondSignal(p, c)
      PROVE  DOMAIN conds' = DOMAIN conds
  BY <1>1, Zenon DEF CondWait, CondSignal
<1>2. ASSUME \/ AcquireLock(p, "loop", "test")
             \/ \E from, to : Test(p, from, to)
             \/ \E from, n : ReleaseLock(p, from, n)
             \/ Complete(p)
      PROVE  conds' = conds
  BY <1>2, Zenon DEF AcquireLock, Acquire, Test, synchVars, ReleaseLock, Release, Complete, Signal
<1>3. ASSUME Insert(p) \/ AdvanceWrite(p, "signal") \/ Take(p, "signal")
      PROVE  conds' = conds
  BY <1>3, Zenon DEF Insert, AdvanceWrite, Take, synchVars
<1> QED
  BY <1>1, <1>2, <1>3, Zenon DEF MonitorProducer, MonitorConsumer, CondWaitOn, CondSignalOn

\* A step of a child of a buffer's makeprocs.
LEMMA BufferStepLemma ==
  ASSUME StrongInv, IsBuffer, NEW p \in BufferProcess, BufferStep(p)
  PROVE  BufferTypeOK' /\ HasLock'
<1>1. BufferTypeOK /\ HasLock /\ CondsExist
  BY DEF StrongInv, IInv
<1>2. CASE app = "q2" /\ (LockProducer(p) \/ LockConsumer(p))
  BY <1>1, <1>2, LockBufferLemma
<1>3. CASE app = "q3" /\ (SemProducer(p) \/ SemConsumer(p))
  BY <1>1, <1>3, SemBufferLemma
<1>4. CASE app = "q4" /\ (MonitorProducer(p) \/ MonitorConsumer(p))
  BY <1>1, <1>4, MonitorBufferLemma DEF CondsExist
<1> QED
  BY <1>2, <1>3, <1>4 DEF BufferStep

\* process_create.
LEMMA CreateChildLemma ==
  ASSUME BufferTypeOK, HasLock, NEW p \in BufferProcess, NEW first, CreateChild(p, first)
  PROVE  BufferTypeOK' /\ HasLock'
<1>1. /\ pc' = [pc EXCEPT ![p] = "loop"] /\ locks' = locks /\ conds' = conds /\ app' = app
  BY DEF CreateChild, synchVars
<1>2. BufferTypeOK'
  BY <1>1 DEF BufferTypeOK, LocksType, CondsType
<1>3. /\ Guarded' = Guarded /\ "loop" \notin Guarded
      /\ \A q : OnCond(q)' = OnCond(q) /\ OnLock(q)' = OnLock(q)
  BY <1>1 DEF Guarded, Critical, OnCond, OnLock
<1>4. \A q \in BufferProcess : pc'[q] = pc[q] \/ pc'[q] = "loop"
  BY <1>1 DEF BufferTypeOK
<1> QED
  BY <1>1, <1>2, <1>3, <1>4 DEF HasLock

\* A step in which the children stay where they are.
LEMMA ChildrenStayLemma ==
  ASSUME BufferTypeOK, HasLock, UNCHANGED <<app, locks, conds>>, DOMAIN pc' = DOMAIN pc,
         \A q \in BufferProcess : pc'[q] = pc[q]
  PROVE  BufferTypeOK' /\ HasLock'
<1>1. BufferTypeOK'
  BY DEF BufferTypeOK, LocksType, CondsType
<1>2. /\ Guarded' = Guarded
      /\ \A q : OnCond(q)' = OnCond(q) /\ OnLock(q)' = OnLock(q)
  BY DEF Guarded, OnCond, OnLock
<1> QED
  BY <1>1, <1>2 DEF HasLock

\* The wait of makeprocs.
LEMMA WaitForChildrenLemma ==
  ASSUME BufferTypeOK, HasLock, WaitForChildren
  PROVE  BufferTypeOK' /\ HasLock'
<1>1. UNCHANGED <<app, locks, conds>>
  BY SemaphoresLemma DEF WaitForChildren
<1>2. pc' = [pc EXCEPT ![makeprocs] = "done"]
  BY DEF WaitForChildren, Step
<1>3. DOMAIN pc' = DOMAIN pc /\ \A q \in BufferProcess : pc'[q] = pc[q]
  BY <1>2, BufferAssumption DEF BufferTypeOK, BufferProcess
<1> QED
  BY <1>1, <1>3, ChildrenStayLemma

\* Each step of each of the programs preserves the invariant.
LEMMA NextPreservesInv == StrongInv /\ [Next]_vars => StrongInv'
<1> SUFFICES ASSUME StrongInv, [Next]_vars PROVE StrongInv'
  OBVIOUS
<1>1. app' = app
  BY AppLemma
<1>2. CASE app = "q5"
  BY <1>1, <1>2 DEF StrongInv, IInv, CondsExist, IsBuffer
<1>3. CASE IsBuffer
  <2>1. BufferTypeOK /\ HasLock /\ Children = BufferProcess
    BY <1>3, BufferAssumption
       DEF StrongInv, IInv, BufferTypeOK, Children, BufferProcess
  <2>2. ASSUME NEW p \in Children, ChildStep(p)
        PROVE  BufferTypeOK' /\ HasLock'
    BY <1>3, <2>1, <2>2, CreateChildLemma, BufferStepLemma DEF ChildStep, ReactionsStep, IsBuffer
  <2>3. ASSUME UNCHANGED vars
        PROVE  BufferTypeOK' /\ HasLock'
    <3>1. UNCHANGED <<app, locks, conds, pc>>
      BY <2>3 DEF vars, synchVars, progVars
    <3> QED
      BY <2>1, <3>1, ChildrenStayLemma
  <2>4. BufferTypeOK' /\ HasLock'
    BY <2>1, <2>2, <2>3, WaitForChildrenLemma DEF Next, NobodyRuns
  <2>5. CondsExist'
    <3> SUFFICES ASSUME app = "q4" PROVE DOMAIN conds' = DOMAIN conds
      BY <1>1 DEF StrongInv, CondsExist
    <3>1. ASSUME NEW p \in Children, ChildStep(p)
          PROVE  DOMAIN conds' = DOMAIN conds
      BY <3>1, CondsLemma DEF ChildStep, BufferStep, ReactionsStep, CreateChild, synchVars
    <3>2. CASE WaitForChildren
      BY <3>2, SemaphoresLemma DEF WaitForChildren
    <3>3. CASE NobodyRuns \/ UNCHANGED vars
      BY <3>3 DEF NobodyRuns, vars, synchVars
    <3> QED
      BY <3>1, <3>2, <3>3 DEF Next
  <2> QED
    BY <2>4, <2>5 DEF StrongInv, IInv
<1> QED
  BY <1>2, <1>3 DEF IsBuffer

\* In q2, q3 and q4 whoever uses the buffer owns the lock, so no two do.
THEOREM BufferIsExclusive == Spec => []MutualExclusion
<1>1. StrongInv => MutualExclusion
  <2> SUFFICES ASSUME StrongInv, IsBuffer, NEW p \in BufferProcess, pc[p] \in Critical, Awake(p)
               PROVE  locks["lock"].owner = p
    BY DEF MutualExclusion
  <2>1. BufferTypeOK /\ HasLock
    BY DEF StrongInv, IInv
  <2>2. ~OnCond(p) /\ ~OnLock(p)
    BY <2>1 DEF Awake, WaitsIn, OnCond, OnLock, BufferTypeOK, LocksType
  <2>3. pc[p] \in Guarded
    BY DEF Guarded
  <2> QED
    BY <2>1, <2>2, <2>3 DEF HasLock
<1> QED
  BY InitEstablishesInv, NextPreservesInv, <1>1, PTL DEF Spec

-----------------------------------------------------------------------------
(* makeprocs counts its children *)

Completed == sems["s_procs_completed"]

DoneChildren == {p \in Children : pc[p] = "done"}

\* What the count of s_procs_completed shows while no wait has taken from it.
Told == Cardinality(DoneChildren) - (Cardinality(Children) - 1)

\* One signal for each child that is done, and makeprocs waits for all of them.
SignalsCounted ==
  /\ makeprocs \in DOMAIN pc
  /\ IsFiniteSet(Children)
  /\ "s_procs_completed" \in DOMAIN sems
  /\ \/ /\ pc[makeprocs] = "create"
        /\ Completed = [count |-> Told, waiting |-> <<>>]
     \/ /\ pc[makeprocs] = "done" /\ Told <= 0
        /\ Completed = [count |-> Told, waiting |-> <<makeprocs>>]
     \/ /\ pc[makeprocs] = "done" /\ Told = 1
        /\ Completed = [count |-> 0, waiting |-> <<>>]

\* The number of children that are done is a number, and at most all.
LEMMA DoneLemma ==
  ASSUME IsFiniteSet(Children)
  PROVE  /\ IsFiniteSet(DoneChildren)
         /\ Cardinality(DoneChildren) \in Nat /\ Cardinality(Children) \in Nat
         /\ Cardinality(DoneChildren) <= Cardinality(Children)
         /\ Cardinality(DoneChildren) = Cardinality(Children) => DoneChildren = Children
<1>1. DoneChildren \in SUBSET Children
  BY DEF DoneChildren
<1> QED
  BY <1>1, FS_Subset, FS_CardinalityType

\* A call that does not touch s_procs_completed.
Kept == DOMAIN sems' = DOMAIN sems /\ Completed' = Completed

\* A call on another semaphore is one.
LEMMA KeptLemma ==
  ASSUME "s_procs_completed" \in DOMAIN sems
  PROVE  /\ sems' = sems => Kept
         /\ \A s : s # "s_procs_completed" /\ Signal(s) => Kept
         /\ \A p, s : s # "s_procs_completed" /\ Wait(p, s) => Kept
<1>1. ASSUME NEW s, NEW v, s # "s_procs_completed", sems' = [sems EXCEPT ![s] = v],
             "s_procs_completed" \in DOMAIN sems
      PROVE  Kept
  BY <1>1 DEF Kept, Completed
<1>2. ASSUME NEW s, s # "s_procs_completed", Signal(s)
      PROVE  Kept
  BY <1>1, <1>2 DEF Signal
<1>3. ASSUME NEW p, NEW s, s # "s_procs_completed", Wait(p, s)
      PROVE  Kept
  BY <1>1, <1>3 DEF Wait
<1> QED
  BY <1>2, <1>3 DEF Kept, Completed

\* A step of p, which is not done, to a place where it is not done either.
Works(p, from, to, n) ==
  /\ p \in Children
  /\ pc[p] = from /\ pc' = [pc EXCEPT ![p] = to]
  /\ from # "done" /\ to # "done"
  /\ counter' = [counter EXCEPT ![p] = @ + n] \/ (n = 0 /\ counter' = counter)
  /\ app' = app
  /\ Kept

\* Such a step changes neither the children that are done nor what was counted.
LEMMA WorksLemma ==
  ASSUME SignalsCounted, NEW p, NEW from, NEW to, NEW n, Works(p, from, to, n)
  PROVE  SignalsCounted' /\ Children' = Children
<1>1. p \in Children /\ p # makeprocs /\ p \in DOMAIN pc
  BY DEF Works, Children
<1>2. DOMAIN pc' = DOMAIN pc /\ Children' = Children /\ pc'[makeprocs] = pc[makeprocs]
  BY <1>1 DEF Works, Children
<1>3. DoneChildren' = DoneChildren
  <2>1. \A q \in Children : pc'[q] = "done" <=> pc[q] = "done"
    BY <1>1 DEF Works, Children
  <2> QED
    BY <1>2, <2>1 DEF DoneChildren
<1>4. Told' = Told
  BY <1>2, <1>3 DEF Told
<1> QED
  BY <1>2, <1>4 DEF SignalsCounted, Works, Kept

\* The signal of a child that is done is counted, and the last one wakes makeprocs.
LEMMA LastSignalLemma ==
  ASSUME SignalsCounted, NEW p \in Children, Complete(p)
  PROVE  SignalsCounted' /\ Children' = Children
<1> DEFINE D == DoneChildren
<1>1. p # makeprocs /\ p \in DOMAIN pc /\ pc[p] = "loop" /\ pc' = [pc EXCEPT ![p] = "done"]
  BY DEF Complete, Step, Children
<1>2. DOMAIN pc' = DOMAIN pc /\ Children' = Children /\ pc'[makeprocs] = pc[makeprocs]
  BY <1>1 DEF Children
<1>3. DoneChildren' = D \union {p} /\ p \notin D
  BY <1>1, <1>2 DEF DoneChildren, Children
<1>4. /\ IsFiniteSet(D) /\ Cardinality(D) \in Nat /\ Cardinality(Children) \in Nat
      /\ Cardinality(D) <= Cardinality(Children)
      /\ Cardinality(D) = Cardinality(Children) => D = Children
  BY DoneLemma DEF SignalsCounted
<1>5. Cardinality(DoneChildren') = Cardinality(D) + 1
  BY <1>3, <1>4, FS_AddElement
<1>6. Told' = Told + 1 /\ Told \in Int /\ Told # 1
  <2>1. D # Children
    BY <1>3
  <2> QED
    BY <1>2, <1>4, <1>5, <2>1 DEF Told
<1>7. Signal("s_procs_completed") /\ DOMAIN sems' = DOMAIN sems
  BY Zenon DEF Complete, Signal
<1>8. CASE pc[makeprocs] = "create" /\ Completed = [count |-> Told, waiting |-> <<>>]
  <2>1. Completed' = [count |-> Told + 1, waiting |-> <<>>]
    BY <1>7, <1>8 DEF SignalsCounted, Signal, Completed
  <2> QED
    BY <1>2, <1>6, <1>7, <1>8, <2>1 DEF SignalsCounted
<1>9. CASE /\ pc[makeprocs] = "done" /\ Told <= 0
           /\ Completed = [count |-> Told, waiting |-> <<makeprocs>>]
  <2>1. CASE Told = 0
    <3>1. Completed' = [count |-> 0, waiting |-> <<>>]
      BY <1>7, <1>9, <2>1 DEF SignalsCounted, Signal, Completed
    <3> QED
      BY <1>2, <1>6, <1>7, <1>9, <2>1, <3>1 DEF SignalsCounted
  <2>2. CASE Told < 0
    <3>1. Completed' = [count |-> Told + 1, waiting |-> <<makeprocs>>]
      BY <1>6, <1>7, <1>9, <2>2 DEF SignalsCounted, Signal, Completed
    <3> QED
      BY <1>2, <1>6, <1>7, <1>9, <2>2, <3>1 DEF SignalsCounted
  <2> QED
    BY <1>6, <1>9, <2>1, <2>2
<1> QED
  BY <1>2, <1>6, <1>8, <1>9 DEF SignalsCounted

\* The wait of makeprocs returns at once, or when the last child has signalled.
LEMMA WaitForAllLemma ==
  ASSUME SignalsCounted, WaitForChildren
  PROVE  /\ SignalsCounted' /\ Children' = Children
         /\ \A p \in Children : pc'[p] = pc[p]
<1>1. pc[makeprocs] = "create" /\ pc' = [pc EXCEPT ![makeprocs] = "done"]
  BY DEF WaitForChildren, Step
<1>2. /\ DOMAIN pc' = DOMAIN pc /\ Children' = Children /\ pc'[makeprocs] = "done"
      /\ \A p \in Children : pc'[p] = pc[p]
  BY <1>1 DEF Children, SignalsCounted
<1>3. DoneChildren' = DoneChildren /\ Told' = Told
  BY <1>2 DEF DoneChildren, Told
<1>4. Told \in Int /\ Told <= 1
  BY DoneLemma DEF SignalsCounted, Told
<1>5. /\ Wait(makeprocs, "s_procs_completed") /\ DOMAIN sems' = DOMAIN sems
      /\ Completed = [count |-> Told, waiting |-> <<>>]
  BY <1>1, Zenon DEF WaitForChildren, Wait, SignalsCounted
<1>6. CASE Told = 1
  <2>1. Completed' = [count |-> 0, waiting |-> <<>>]
    BY <1>5, <1>6 DEF SignalsCounted, Wait, Completed
  <2> QED
    BY <1>2, <1>3, <1>5, <1>6, <2>1 DEF SignalsCounted
<1>7. CASE Told <= 0
  <2>1. Completed' = [count |-> Told, waiting |-> <<makeprocs>>]
    BY <1>4, <1>5, <1>7 DEF SignalsCounted, Wait, Completed
  <2> QED
    BY <1>2, <1>3, <1>5, <1>7, <2>1 DEF SignalsCounted
<1> QED
  BY <1>4, <1>6, <1>7

-----------------------------------------------------------------------------
(* The rounds of the children *)

\* The places at which a process may have no round left.
Idle(p) ==
  {"uncreated", "loop", "done"}
    \union (IF app = "q4" /\ p \in Consumer THEN {"release"} ELSE {})

\* A process in the middle of a round has that round to do, and one that is
\* done has none.
RoundOK(p) ==
  IF IsBuffer
  THEN /\ counter[p] \in 0 .. ITEMS
       /\ pc[p] = "done" => counter[p] = ITEMS
       /\ pc[p] \notin Idle(p) => HasMore(p)
  ELSE /\ counter[p] \in Nat
       /\ pc[p] = "done" => counter[p] = 0

RoundsCounted ==
  /\ DOMAIN counter = Children
  /\ \A p \in Children : RoundOK(p)

\* The step of a buffer's process: it counts where a round ends, and it leaves
\* the places without a round with a round to do.
BufferWorks(p, from, to, n) ==
  /\ Works(p, from, to, n)
  /\ IsBuffer
  /\ \/ n = 1 /\ from \notin Idle(p) /\ to \in Idle(p)
     \/ n = 0 /\ (to \in Idle(p) \/ from \notin Idle(p) \/ HasMore(p))

\* Such a step keeps the counters right.
LEMMA BufferWorksLemma ==
  ASSUME SignalsCounted, RoundsCounted, NEW p, NEW from, NEW to, NEW n,
         BufferWorks(p, from, to, n)
  PROVE  SignalsCounted' /\ RoundsCounted' /\ Children' = Children
<1>1. SignalsCounted' /\ Children' = Children /\ p \in Children /\ p \in DOMAIN pc
  BY WorksLemma DEF BufferWorks, Works, Children
<1>2. DOMAIN counter' = Children
  BY DEF BufferWorks, Works, RoundsCounted
<1>3. \A q \in Children \ {p} : pc'[q] = pc[q] /\ counter'[q] = counter[q]
  BY <1>1 DEF BufferWorks, Works, RoundsCounted, Children
<1>4. \A q : Idle(q)' = Idle(q) /\ IsBuffer' = IsBuffer /\ IsBuffer
  BY DEF BufferWorks, Works, Idle, IsBuffer
<1>5. \A q \in Children \ {p} : RoundOK(q)'
  BY <1>3, <1>4 DEF RoundsCounted, RoundOK, HasMore
<1>6. counter[p] \in 0 .. ITEMS /\ (from \notin Idle(p) => HasMore(p)) /\ ITEMS \in Nat
  BY <1>1, BufferAssumption DEF BufferWorks, Works, RoundsCounted, RoundOK
<1>7. pc'[p] = to /\ counter'[p] = counter[p] + n /\ to # "done"
  BY <1>1, <1>6 DEF BufferWorks, Works, RoundsCounted
<1>8. RoundOK(p)'
  BY <1>4, <1>6, <1>7 DEF BufferWorks, RoundOK, HasMore
<1> QED
  BY <1>1, <1>2, <1>5, <1>8 DEF RoundsCounted

\* A child that is done keeps its counter, which shows that it is.
LEMMA DoneWithLemma ==
  ASSUME SignalsCounted, RoundsCounted, NEW p \in Children, Complete(p),
         IF IsBuffer THEN ~HasMore(p) ELSE counter[p] \in Nat => counter[p] = 0
  PROVE  SignalsCounted' /\ RoundsCounted' /\ Children' = Children
<1>1. SignalsCounted' /\ Children' = Children /\ p \in DOMAIN pc
  BY LastSignalLemma DEF Children
<1>2. pc' = [pc EXCEPT ![p] = "done"] /\ counter' = counter /\ app' = app
  BY DEF Complete, Step
<1>3. \A q \in Children : pc'[q] = IF q = p THEN "done" ELSE pc[q]
  BY <1>1, <1>2 DEF Children
<1>4. \A q : Idle(q)' = Idle(q) /\ IsBuffer' = IsBuffer
  BY <1>2 DEF Idle, IsBuffer
<1>5. \A q \in Children : RoundOK(q) => q = p \/ RoundOK(q)'
  BY <1>2, <1>3, <1>4 DEF RoundOK, HasMore
<1>6. RoundOK(p)'
  <2>1. pc'[p] = "done" /\ RoundOK(p) /\ "done" \in Idle(p)
    BY <1>3 DEF RoundsCounted, Idle
  <2> QED
    BY <1>2, <1>4, <2>1, BufferAssumption DEF RoundOK, HasMore
<1> QED
  BY <1>1, <1>2, <1>5, <1>6 DEF RoundsCounted

\* A step of p in a buffer's program, from place to place, with n more
\* characters and a call that is not on s_procs_completed.
Rounds(p, from, to, n) ==
  /\ Step(p, from, to)
  /\ counter' = [counter EXCEPT ![p] = @ + n] \/ (n = 0 /\ counter' = counter)
  /\ app' = app
  /\ Kept

\* What the operations of the buffer do to the counters and s_procs_completed.
LEMMA OperationsLemma ==
  ASSUME "s_procs_completed" \in DOMAIN sems, NEW p
  PROVE  /\ \A from, to : Test(p, from, to) \/ AcquireLock(p, from, to) => Rounds(p, from, to, 0)
         /\ \A from, to, s : s # "s_procs_completed" /\ WaitOn(p, s, from, to)
                               => Rounds(p, from, to, 0)
         /\ \A c, to : CondWaitOn(p, c, to) => Rounds(p, "test", to, 0)
         /\ \A c, n : CondSignalOn(p, c, n) => Rounds(p, "signal", "release", n)
         /\ \A from, n : ReleaseLock(p, from, n) => Rounds(p, from, "loop", n)
         /\ ReleaseThenSignal(p) => Rounds(p, "release", "signal", 0)
         /\ \A s : s # "s_procs_completed" /\ SignalSlot(p, s) => Rounds(p, "signal", "loop", 1)
         /\ Insert(p) => Rounds(p, "insert", "advance", 0)
         /\ \A to : AdvanceWrite(p, to) => Rounds(p, "advance", to, 0)
         /\ \A to : Take(p, to) => Rounds(p, "take", to, 0)
<1> USE KeptLemma DEF Rounds, synchVars, Counts
<1>1. \A from, to : Test(p, from, to) => Rounds(p, from, to, 0)
  BY DEF Test
<1>2. \A from, to : AcquireLock(p, from, to) => Rounds(p, from, to, 0)
  BY DEF AcquireLock, Acquire
<1>3. \A from, to, s : s # "s_procs_completed" /\ WaitOn(p, s, from, to)
                         => Rounds(p, from, to, 0)
  BY DEF WaitOn
<1>4. \A c, to : CondWaitOn(p, c, to) => Rounds(p, "test", to, 0)
  BY DEF CondWaitOn, CondWait
<1>5. \A c, n : CondSignalOn(p, c, n) => Rounds(p, "signal", "release", n)
  BY DEF CondSignalOn, CondSignal
<1>6. \A from, n : ReleaseLock(p, from, n) => Rounds(p, from, "loop", n)
  BY DEF ReleaseLock, Release
<1>7. ReleaseThenSignal(p) => Rounds(p, "release", "signal", 0)
  BY DEF ReleaseThenSignal, Release
<1>8. \A s : s # "s_procs_completed" /\ SignalSlot(p, s) => Rounds(p, "signal", "loop", 1)
  BY DEF SignalSlot
<1>9. Insert(p) => Rounds(p, "insert", "advance", 0)
  BY DEF Insert
<1>10. \A to : AdvanceWrite(p, to) => Rounds(p, "advance", to, 0)
  BY DEF AdvanceWrite
<1>11. \A to : Take(p, to) => Rounds(p, "take", to, 0)
  BY DEF Take
<1> QED
  BY <1>1, <1>2, <1>3, <1>4, <1>5, <1>6, <1>7, <1>8, <1>9, <1>10, <1>11, Zenon

\* Counting fits the places a step of p leads from and to.
Fits(p, from, to, n) ==
  /\ from # "done" /\ to # "done"
  /\ \/ n = 1 /\ from \notin Idle(p) /\ to \in Idle(p)
     \/ n = 0 /\ (to \in Idle(p) \/ from \notin Idle(p) \/ HasMore(p))

\* A step of a buffer's process that counts where it should.
LEMMA RoundsLemma ==
  ASSUME SignalsCounted, RoundsCounted, IsBuffer, NEW p \in Children,
         NEW from, NEW to, NEW n, Rounds(p, from, to, n), Fits(p, from, to, n)
  PROVE  SignalsCounted' /\ RoundsCounted' /\ Children' = Children
<1>1. BufferWorks(p, from, to, n)
  BY DEF Rounds, Fits, BufferWorks, Works, Step
<1> QED
  BY <1>1, BufferWorksLemma

\* The rounds of q2.
LEMMA LockRoundsLemma ==
  ASSUME SignalsCounted, RoundsCounted, app = "q2", NEW p \in Children,
         LockProducer(p) \/ LockConsumer(p)
  PROVE  SignalsCounted' /\ RoundsCounted' /\ Children' = Children
<1>1. IsBuffer /\ "s_procs_completed" \in DOMAIN sems
  BY DEF IsBuffer, SignalsCounted
<1>2. /\ HasMore(p) => Fits(p, "loop", "test", 0)
      /\ Fits(p, "test", "retry", 0) /\ Fits(p, "retry", "loop", 0)
      /\ Fits(p, "test", "insert", 0) /\ Fits(p, "insert", "advance", 0)
      /\ Fits(p, "advance", "release", 0)
      /\ Fits(p, "test", "take", 0) /\ Fits(p, "take", "release", 0)
      /\ Fits(p, "release", "loop", 1)
  BY DEF Fits, Idle
<1>3. CASE LockProducer(p)
  BY <1>1, <1>2, <1>3, OperationsLemma, RoundsLemma, DoneWithLemma DEF LockProducer
<1>4. CASE LockConsumer(p)
  BY <1>1, <1>2, <1>4, OperationsLemma, RoundsLemma, DoneWithLemma DEF LockConsumer
<1> QED
  BY <1>3, <1>4

\* The rounds of q3.
LEMMA SemRoundsLemma ==
  ASSUME SignalsCounted, RoundsCounted, app = "q3", NEW p \in Children,
         SemProducer(p) \/ SemConsumer(p)
  PROVE  SignalsCounted' /\ RoundsCounted' /\ Children' = Children
<1>1. IsBuffer /\ "s_procs_completed" \in DOMAIN sems
  BY DEF IsBuffer, SignalsCounted
<1>2. /\ HasMore(p) => Fits(p, "loop", "acquire", 0) /\ Fits(p, "loop", "test", 0)
      /\ Fits(p, "acquire", "insert", 0) /\ Fits(p, "insert", "advance", 0)
      /\ Fits(p, "advance", "release", 0)
      /\ Fits(p, "test", "retry", 0) /\ Fits(p, "retry", "loop", 0)
      /\ Fits(p, "test", "wait", 0) /\ Fits(p, "wait", "take", 0)
      /\ Fits(p, "take", "release", 0)
      /\ Fits(p, "release", "signal", 0) /\ Fits(p, "signal", "loop", 1)
  BY DEF Fits, Idle
<1>3. CASE SemProducer(p)
  BY <1>1, <1>2, <1>3, OperationsLemma, RoundsLemma, DoneWithLemma DEF SemProducer
<1>4. CASE SemConsumer(p)
  BY <1>1, <1>2, <1>4, OperationsLemma, RoundsLemma, DoneWithLemma DEF SemConsumer
<1> QED
  BY <1>3, <1>4

\* The rounds of q4, where a consumer counts before it releases the lock.
LEMMA MonitorRoundsLemma ==
  ASSUME SignalsCounted, RoundsCounted, app = "q4", NEW p \in Children,
         \/ p \in Producer /\ MonitorProducer(p)
         \/ p \in Consumer /\ MonitorConsumer(p)
  PROVE  SignalsCounted' /\ RoundsCounted' /\ Children' = Children
<1>1. IsBuffer /\ "s_procs_completed" \in DOMAIN sems
  BY DEF IsBuffer, SignalsCounted
<1>2. /\ HasMore(p) => Fits(p, "loop", "test", 0)
      /\ Fits(p, "test", "insert", 0) /\ Fits(p, "insert", "advance", 0)
      /\ Fits(p, "advance", "signal", 0) /\ Fits(p, "signal", "release", 0)
      /\ Fits(p, "test", "look", 0) /\ Fits(p, "look", "take", 0)
      /\ Fits(p, "look", "release", 0) /\ Fits(p, "take", "signal", 0)
      /\ p \in Consumer => Fits(p, "signal", "release", 1) /\ Fits(p, "release", "loop", 0)
      /\ p \in Producer => Fits(p, "release", "loop", 1)
  BY BufferAssumption DEF Fits, Idle
<1>3. CASE p \in Producer /\ MonitorProducer(p)
  BY <1>1, <1>2, <1>3, OperationsLemma, RoundsLemma, DoneWithLemma DEF MonitorProducer
<1>4. CASE p \in Consumer /\ MonitorConsumer(p)
  BY <1>1, <1>2, <1>4, OperationsLemma, RoundsLemma, DoneWithLemma DEF MonitorConsumer
<1> QED
  BY <1>3, <1>4

\* A step in a round of q5 keeps the counters right.
LEMMA ReactionRoundsLemma ==
  ASSUME SignalsCounted, RoundsCounted, app = "q5", NEW p \in Children, HasRounds(p),
         NEW from, NEW to, NEW n \in {0, -1}, Works(p, from, to, n)
  PROVE  SignalsCounted' /\ RoundsCounted' /\ Children' = Children
<1>1. SignalsCounted' /\ Children' = Children /\ p \in DOMAIN pc
  BY WorksLemma DEF Children
<1>2. DOMAIN counter' = Children
  BY DEF Works, RoundsCounted
<1>3. \A q \in Children \ {p} : pc'[q] = pc[q] /\ counter'[q] = counter[q]
  BY <1>1 DEF Works, RoundsCounted, Children
<1>4. ~IsBuffer /\ ~IsBuffer'
  BY DEF Works, IsBuffer
<1>5. \A q \in Children \ {p} : RoundOK(q)'
  BY <1>3, <1>4 DEF RoundsCounted, RoundOK
<1>6. counter[p] \in Nat /\ counter[p] > 0
  BY <1>4 DEF RoundsCounted, RoundOK, HasRounds
<1>7. pc'[p] = to /\ counter'[p] = counter[p] + n /\ to # "done"
  BY <1>1, <1>6 DEF Works, RoundsCounted
<1>8. RoundOK(p)'
  BY <1>4, <1>6, <1>7 DEF RoundOK
<1> QED
  BY <1>1, <1>2, <1>5, <1>8 DEF RoundsCounted

\* The calls of a reaction are on molecules, made from places where it is not done.
LEMMA ScriptLemma ==
  ASSUME NEW p \in Reaction
  PROVE  /\ Len(Script(p)) \in 1 .. 5
         /\ \A i \in 1 .. Len(Script(p)) : Script(p)[i] # "s_procs_completed"
<1>1. /\ Waits[p] \in Seq(Molecule) /\ Len(Waits[p]) \in 1 .. 2
      /\ Signals[p] \in Seq(Molecule) /\ Len(Signals[p]) \in 1 .. 3
  <2>1. CASE p = "R1"
    BY <2>1 DEF Waits, Signals, Molecule
  <2>2. CASE p = "R2"
    BY <2>2 DEF Waits, Signals, Molecule
  <2>3. CASE p = "R3"
    BY <2>3 DEF Waits, Signals, Molecule
  <2> QED
    BY <2>1, <2>2, <2>3 DEF Reaction
<1>2. /\ Script(p) \in Seq(Molecule)
      /\ Len(Script(p)) = Len(Waits[p]) + Len(Signals[p])
  BY <1>1, ConcatProperties DEF Script
<1>3. \A i \in 1 .. Len(Script(p)) : Script(p)[i] \in Molecule
  BY <1>2, ElementOfSeq
<1>4. "s_procs_completed" \notin Molecule
  BY DEF Molecule
<1>5. Len(Script(p)) \in 1 .. 5
  <2>1. \A a \in 1 .. 2, b \in 1 .. 3 : a + b \in 1 .. 5
    OBVIOUS
  <2> QED
    BY <1>1, <1>2, <2>1, Zenon
<1> QED
  BY <1>3, <1>4, <1>5

\* The steps of q5.
LEMMA ReactionsRoundsLemma ==
  ASSUME SignalsCounted, RoundsCounted, NEW p \in Children, ReactionsStep(p)
  PROVE  SignalsCounted' /\ RoundsCounted' /\ Children' = Children
<1>1. app = "q5" /\ ~IsBuffer /\ "s_procs_completed" \in DOMAIN sems
  BY DEF ReactionsStep, IsBuffer, SignalsCounted
<1>2. CASE p \in Injector /\ Inject(p)
  <2>1. p # "s_procs_completed"
    BY <1>2 DEF Injector
  <2>2. Works(p, "loop", "loop", -1) /\ HasRounds(p)
    BY <1>1, <1>2, <2>1, KeptLemma DEF Works, Inject, Step, Counts
  <2> QED
    BY <1>1, <2>2, ReactionRoundsLemma
<1>3. CASE p \in Reaction /\ React(p)
  <2>1. PICK i \in 1 .. Len(Script(p)) :
          /\ HasRounds(p)
          /\ Step(p, Place[i], After(p, i))
          /\ Wait(p, Script(p)[i]) \/ Signal(Script(p)[i])
          /\ Counts(p, IF i = Len(Script(p)) THEN -1 ELSE 0)
          /\ UNCHANGED <<app, page>>
    BY <1>3, Zenon DEF React
  <2>2. /\ Len(Script(p)) \in 1 .. 5
        /\ Script(p)[i] # "s_procs_completed"
    BY <1>3, ScriptLemma
  <2>3. Kept
    BY <1>1, <2>1, <2>2, KeptLemma
  <2>4. Place[i] # "done" /\ After(p, i) # "done"
    <3>1. \A j \in 1 .. 5 : Place[j] # "done"
      <4>1. \A j \in 1 .. 5 : j = 1 \/ j = 2 \/ j = 3 \/ j = 4 \/ j = 5
        OBVIOUS
      <4> QED
        BY <4>1 DEF Place
    <3> QED
      BY <2>2, <3>1, SMTT(30) DEF After
  <2>5. PICK n \in {0, -1} : Counts(p, n)
    BY <2>1
  <2>6. Works(p, Place[i], After(p, i), n)
    BY <2>1, <2>3, <2>4, <2>5 DEF Works, Step, Counts
  <2> QED
    BY <1>1, <2>1, <2>6, ReactionRoundsLemma
<1>4. CASE ~HasRounds(p) /\ Complete(p)
  <2>1. counter[p] \in Nat => counter[p] = 0
    BY <1>4 DEF HasRounds
  <2> QED
    BY <1>1, <1>4, <2>1, DoneWithLemma
<1> QED
  BY <1>2, <1>3, <1>4 DEF ReactionsStep

-----------------------------------------------------------------------------
(* makeprocs returns last *)

\* The children of a buffer's program, and of q5.
KnownChildren == Children = IF IsBuffer THEN BufferProcess ELSE ReactionsProcess

ReturnInv == KnownChildren /\ SignalsCounted /\ RoundsCounted

\* makeprocs sets up the semaphore, and the counters, before it creates a child.
LEMMA InitEstablishesReturn == Init => ReturnInv
<1> SUFFICES ASSUME Init PROVE ReturnInv
  OBVIOUS
<1>1. ASSUME NEW S, IsFiniteSet(S), makeprocs \notin S, pc = Uncreated(S),
             "s_procs_completed" \in DOMAIN sems,
             Completed = NewSemOf(CompletedCount(Cardinality(S)))
      PROVE  Children = S /\ SignalsCounted /\ \A p \in S : pc[p] = "uncreated"
  <2>1. /\ DOMAIN pc = S \union {makeprocs} /\ pc[makeprocs] = "create"
        /\ Children = S /\ \A p \in S : pc[p] = "uncreated"
    BY <1>1 DEF Uncreated, Children
  <2>2. DoneChildren = {}
    BY <2>1 DEF DoneChildren
  <2>3. Told = -(Cardinality(S) - 1)
    BY <1>1, <2>1, <2>2, FS_EmptySet, FS_CardinalityType DEF Told
  <2> QED
    BY <1>1, <2>1, <2>3 DEF SignalsCounted, NewSemOf, CompletedCount
<1>2. CASE app \in {"q2", "q3", "q4"}
  <2>1. BufferInit
    BY <1>2 DEF Init, LockBufferInit, SemBufferInit, MonitorBufferInit
  <2>2. IsFiniteSet(BufferProcess) /\ makeprocs \notin BufferProcess
    BY BufferAssumption, FS_Union DEF BufferProcess
  <2>3. "s_procs_completed" \in DOMAIN sems /\ Completed = ProcsCompleted
    BY <1>2 DEF Init, LockBufferInit, SemBufferInit, MonitorBufferInit, Completed
  <2>4. Children = BufferProcess /\ SignalsCounted /\ \A p \in BufferProcess : pc[p] = "uncreated"
    BY <1>1, <2>1, <2>2, <2>3 DEF BufferInit, ProcsCompleted
  <2>5. RoundsCounted
    BY <2>1, <2>4, BufferAssumption DEF RoundsCounted, RoundOK, BufferInit, Idle
  <2> QED
    BY <1>2, <2>4, <2>5 DEF ReturnInv, KnownChildren, IsBuffer
<1>3. CASE app = "q5"
  <2>1. PICK n3 \in 0 .. MAX_N3, h2o \in 0 .. MAX_H2O, layout \in StackLayout :
          /\ pc = Uncreated(ReactionsProcess)
          /\ counter = Arguments(n3, h2o, layout)
          /\ sems = [s \in Molecule \union {"s_procs_completed"} |->
                       NewSemOf(IF s \in Molecule THEN 0
                                ELSE CompletedCount(Cardinality(ReactionsProcess)))]
    BY <1>3 DEF Init, ReactionsInit
  <2>2. IsFiniteSet(ReactionsProcess) /\ makeprocs \notin ReactionsProcess
    <3>1. /\ Injector = {"N3"} \union {"H2O"}
          /\ Reaction = ({"R1"} \union {"R2"}) \union {"R3"}
      BY DEF Injector, Reaction
    <3>2. IsFiniteSet(Injector) /\ IsFiniteSet(Reaction)
      BY <3>1, FS_AddElement, FS_Singleton
    <3> QED
      BY <3>2, FS_Union, ReactionsAssumption DEF ReactionsProcess
  <2>3. /\ "s_procs_completed" \in DOMAIN sems
        /\ Completed = NewSemOf(CompletedCount(Cardinality(ReactionsProcess)))
    BY <2>1 DEF Completed, Molecule
  <2>4. Children = ReactionsProcess /\ SignalsCounted
        /\ \A p \in ReactionsProcess : pc[p] = "uncreated"
    BY <1>1, <2>1, <2>2, <2>3
  <2>5. n3 \in Nat /\ h2o \in Nat /\ h2o \div 2 \in Nat
    BY ReactionsAssumption
  <2>6. \A p \in ReactionsProcess : Arguments(n3, h2o, layout)[p] \in Nat
    BY <2>5 DEF Arguments, ExpectedReactions, ReactionsProcess, Injector, Reaction, StackLayout
  <2>7. RoundsCounted
    BY <1>3, <2>1, <2>4, <2>6 DEF RoundsCounted, RoundOK, IsBuffer, Arguments
  <2> QED
    BY <1>3, <2>4, <2>7 DEF ReturnInv, KnownChildren, IsBuffer
<1> QED
  BY <1>2, <1>3, AppsAssumption DEF Init

\* Each step of each of the programs preserves it.
LEMMA NextPreservesReturn == ReturnInv /\ [Next]_vars => ReturnInv'
<1> SUFFICES ASSUME ReturnInv, [Next]_vars PROVE ReturnInv'
  OBVIOUS
<1>1. app' = app /\ IsBuffer' = IsBuffer
  BY AppLemma DEF IsBuffer
<1>2. SignalsCounted /\ RoundsCounted /\ KnownChildren
  BY DEF ReturnInv
<1>3. ASSUME NEW p \in Children, ChildStep(p)
      PROVE  SignalsCounted' /\ RoundsCounted' /\ Children' = Children
  <2>1. CASE CreateChild(p, CreatedFirst)
    <3>1. /\ pc[p] = "uncreated" /\ pc' = [pc EXCEPT ![p] = "loop"]
          /\ counter' = counter /\ app' = app /\ sems' = sems
      BY <2>1 DEF CreateChild, synchVars
    <3>2. Works(p, "uncreated", "loop", 0)
      BY <3>1, KeptLemma, <1>2 DEF Works, SignalsCounted
    <3>3. CASE IsBuffer
      <4>1. BufferWorks(p, "uncreated", "loop", 0)
        BY <3>2, <3>3 DEF BufferWorks, Idle
      <4> QED
        BY <1>2, <3>2, <4>1, BufferWorksLemma, WorksLemma
    <3>4. CASE ~IsBuffer
      <4>1. SignalsCounted' /\ Children' = Children
        BY <1>2, <3>2, WorksLemma
      <4>2. \A q \in Children : pc'[q] = "done" => pc[q] = "done"
        BY <3>1 DEF Children
      <4> QED
        BY <1>1, <1>2, <3>1, <3>4, <4>1, <4>2 DEF RoundsCounted, RoundOK
    <3> QED
      BY <3>3, <3>4
  <2>2. CASE BufferStep(p)
    BY <1>2, <2>2, LockRoundsLemma, SemRoundsLemma, MonitorRoundsLemma DEF BufferStep
  <2>3. CASE ReactionsStep(p)
    BY <1>2, <2>3, ReactionsRoundsLemma
  <2> QED
    BY <1>3, <2>1, <2>2, <2>3 DEF ChildStep
<1>4. CASE WaitForChildren
  <2>1. SignalsCounted' /\ Children' = Children /\ \A p \in Children : pc'[p] = pc[p]
    BY <1>2, <1>4, WaitForAllLemma
  <2>2. counter' = counter
    BY <1>4 DEF WaitForChildren
  <2>3. RoundsCounted'
    BY <1>1, <1>2, <2>1, <2>2 DEF RoundsCounted, RoundOK, HasMore, Idle
  <2> QED
    BY <1>1, <1>2, <2>1, <2>3 DEF ReturnInv, KnownChildren
<1>5. CASE UNCHANGED vars
  <2>1. UNCHANGED <<app, pc, counter, sems>>
    BY <1>5 DEF vars, synchVars, progVars
  <2> QED
    BY <1>2, <2>1 DEF ReturnInv, KnownChildren, SignalsCounted, RoundsCounted, RoundOK, HasMore,
       Idle, IsBuffer, Children, DoneChildren, Told, Completed
<1> QED
  BY <1>1, <1>2, <1>3, <1>4, <1>5 DEF Next, NobodyRuns, ReturnInv, KnownChildren

\* The wait of makeprocs returns when all its children are done, and not before,
\* however many there are and however much they have to do.
THEOREM MakeprocsReturnsLast == Spec => []ReturnsLast
<1>1. ReturnInv => ReturnsLast
  <2> SUFFICES ASSUME ReturnInv, MakeprocsIsBack, NEW p \in Children
               PROVE  pc[p] = "done" /\ counter[p] = IF app = "q5" THEN 0 ELSE ITEMS
    BY DEF ReturnsLast
  <2>1. SignalsCounted /\ RoundsCounted /\ pc[makeprocs] = "done" /\ ~WaitsIn(sems, makeprocs)
    BY DEF ReturnInv, MakeprocsIsBack, Awake
  <2>2. makeprocs \in InQueue(<<makeprocs>>)
    BY DEF InQueue
  <2>3. Told = 1
    BY <2>1, <2>2 DEF SignalsCounted, WaitsIn, Completed
  <2>4. DoneChildren = Children
    BY <2>1, <2>3, DoneLemma DEF SignalsCounted, Told
  <2>5. pc[p] = "done"
    BY <2>4 DEF DoneChildren
  <2> QED
    BY <2>1, <2>5 DEF RoundsCounted, RoundOK, IsBuffer
<1> QED
  BY InitEstablishesReturn, NextPreservesReturn, <1>1, PTL DEF Spec

=============================================================================
