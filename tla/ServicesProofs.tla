--------------------------- MODULE ServicesProofs ---------------------------
(***************************************************************************)
(* The kernel implements the services of SynchSpec, for any number of      *)
(* processes and objects: the programs may be understood on SynchSpec.     *)
(***************************************************************************)
EXTENDS KernelProofs

-----------------------------------------------------------------------------
(* What programs see of the pools *)

\* f on the handles C alone.
Part(f, C) == [h \in C |-> f[h]]

SemShown(pool) ==
  [s \in SemHandle |-> [count |-> pool[s].count, waiting |-> pool[s].waiting]]
LockShown(pool) ==
  [k \in LockHandle |-> [owner |-> pool[k].pid, waiting |-> pool[k].waiting]]
CondShown(pool) ==
  [c \in CondHandle |-> [lock |-> pool[c].lock, waiting |-> pool[c].waiting]]

\* The objects of the refinement mapping are those shown and in use.
LEMMA ShownLemma ==
  ASSUME sems \in SemsType, locks \in LocksType, conds \in CondsType
  PROVE  /\ SemObjects = Part(SemShown(sems), Created(sems))
         /\ LockObjects = Part(LockShown(locks), Created(locks))
         /\ CondObjects = Part(CondShown(conds), Created(conds))
BY DEF SemObjects, LockObjects, CondObjects, Part, SemShown, LockShown, CondShown, Created,
   SemsType, LocksType, CondsType

\* The same in the next state.
LEMMA ShownLemmaNext ==
  ASSUME sems' \in SemsType, locks' \in LocksType, conds' \in CondsType
  PROVE  /\ SemObjects' = Part(SemShown(sems'), Created(sems'))
         /\ LockObjects' = Part(LockShown(locks'), Created(locks'))
         /\ CondObjects' = Part(CondShown(conds'), Created(conds'))
BY DEF SemObjects, LockObjects, CondObjects, Part, SemShown, LockShown, CondShown, Created,
   SemsType, LocksType, CondsType

\* From pool to next, and from f to g, nothing changes but h, which is in use.
OneChanges(D, pool, next, f, g, h) ==
  /\ DOMAIN pool = D /\ DOMAIN next = D
  /\ h \in D /\ next[h].inuse
  /\ \A x \in D \ {h} : next[x] = pool[x] /\ g[x] = f[x]

\* What the step from pool to next looks like, when f and g show the two.
SeenChange(pool, next, f, g, h) ==
  /\ pool[h].inuse =>
       /\ h \in Created(pool)
       /\ Part(g, Created(next)) = [Part(f, Created(pool)) EXCEPT ![h] = g[h]]
  /\ ~pool[h].inuse =>
       /\ h \notin Created(pool)
       /\ Part(g, Created(next)) = Services!With(Part(f, Created(pool)), h, g[h])

\* One object of a pool changes, or is created: so programs see it, and they
\* see no other change.
LEMMA PartLemma ==
  ASSUME NEW D, NEW pool, NEW next, NEW f, NEW g, NEW h,
         OneChanges(D, pool, next, f, g, h)
  PROVE  SeenChange(pool, next, f, g, h)
<1>1. Created(next) = Created(pool) \union {h} /\ Created(pool) \subseteq D
  BY DEF Created, OneChanges
<1>2. (pool[h].inuse => h \in Created(pool)) /\ (~pool[h].inuse => h \notin Created(pool))
  BY DEF Created, OneChanges
<1>3. \A x \in Created(next) : g[x] = IF x = h THEN g[h] ELSE Part(f, Created(pool))[x]
  BY <1>1 DEF Part, OneChanges
<1>4. Part(g, Created(next))
        = [x \in Created(next) |-> IF x = h THEN g[h] ELSE Part(f, Created(pool))[x]]
  BY <1>3 DEF Part
<1>5. ASSUME pool[h].inuse
      PROVE  Part(g, Created(next)) = [Part(f, Created(pool)) EXCEPT ![h] = g[h]]
  <2>1. Created(next) = Created(pool)
    BY <1>1, <1>2, <1>5
  <2>2. [Part(f, Created(pool)) EXCEPT ![h] = g[h]]
          = [x \in Created(pool) |-> IF x = h THEN g[h] ELSE Part(f, Created(pool))[x]]
    BY DEF Part
  <2> QED
    BY <1>4, <2>1, <2>2
<1>6. DOMAIN Part(f, Created(pool)) = Created(pool)
  BY DEF Part
<1>7. Part(g, Created(next)) = Services!With(Part(f, Created(pool)), h, g[h])
  BY <1>1, <1>4, <1>6 DEF Services!With
<1> QED
  BY <1>2, <1>5, <1>7 DEF SeenChange

\* A semaphore in use changes, or one is created, as programs see it.
LEMMA SemSeenLemma ==
  ASSUME TypeOK, TypeOK', NEW s \in SemHandle, sems'[s].inuse,
         \A x \in SemHandle \ {s} : sems'[x] = sems[x]
  PROVE  /\ sems[s].inuse =>
              /\ s \in DOMAIN SemObjects
              /\ SemObjects[s] = [count |-> sems[s].count, waiting |-> sems[s].waiting]
              /\ SemObjects' = [SemObjects EXCEPT ![s] =
                   [count |-> sems'[s].count, waiting |-> sems'[s].waiting]]
         /\ ~sems[s].inuse =>
              /\ s \notin DOMAIN SemObjects
              /\ SemObjects' = Services!With(SemObjects, s,
                   [count |-> sems'[s].count, waiting |-> sems'[s].waiting])
<1>1. /\ DOMAIN sems = SemHandle /\ DOMAIN sems' = SemHandle
      /\ SemObjects = Part(SemShown(sems), Created(sems))
      /\ SemObjects' = Part(SemShown(sems'), Created(sems'))
  BY ShownLemma, ShownLemmaNext DEF TypeOK, SemsType, LocksType, CondsType
<1>2. /\ \A x \in SemHandle \ {s} : SemShown(sems')[x] = SemShown(sems)[x]
      /\ SemShown(sems)[s] = [count |-> sems[s].count, waiting |-> sems[s].waiting]
      /\ SemShown(sems')[s] = [count |-> sems'[s].count, waiting |-> sems'[s].waiting]
  BY DEF SemShown
<1>3. /\ sems[s].inuse =>
           /\ s \in Created(sems)
           /\ SemObjects' = [SemObjects EXCEPT ![s] = SemShown(sems')[s]]
      /\ ~sems[s].inuse =>
           /\ s \notin Created(sems)
           /\ SemObjects' = Services!With(SemObjects, s, SemShown(sems')[s])
  <2> DEFINE old == Part(SemShown(sems), Created(sems))
             new == Part(SemShown(sems'), Created(sems'))
             v == SemShown(sems')[s]
  <2>1. /\ sems[s].inuse => s \in Created(sems) /\ new = [old EXCEPT ![s] = v]
        /\ ~sems[s].inuse => s \notin Created(sems) /\ new = Services!With(old, s, v)
    <3>1. OneChanges(SemHandle, sems, sems', SemShown(sems), SemShown(sems'), s)
      BY <1>1, <1>2 DEF OneChanges
    <3> QED
      BY <3>1, PartLemma DEF SeenChange
  <2> QED
    BY <1>1, <2>1
<1>4. DOMAIN SemObjects = Created(sems)
      /\ \A x \in Created(sems) : SemObjects[x] = SemShown(sems)[x]
  BY <1>1 DEF Part
<1> QED
  BY <1>2, <1>3, <1>4

\* A lock in use changes, or one is created, as programs see it.
LEMMA LockSeenLemma ==
  ASSUME TypeOK, TypeOK', NEW k \in LockHandle, locks'[k].inuse,
         \A x \in LockHandle \ {k} : locks'[x] = locks[x]
  PROVE  /\ locks[k].inuse =>
              /\ k \in DOMAIN LockObjects
              /\ LockObjects[k] = [owner |-> locks[k].pid, waiting |-> locks[k].waiting]
              /\ LockObjects' = [LockObjects EXCEPT ![k] =
                   [owner |-> locks'[k].pid, waiting |-> locks'[k].waiting]]
         /\ ~locks[k].inuse =>
              /\ k \notin DOMAIN LockObjects
              /\ LockObjects' = Services!With(LockObjects, k,
                   [owner |-> locks'[k].pid, waiting |-> locks'[k].waiting])
<1>1. /\ DOMAIN locks = LockHandle /\ DOMAIN locks' = LockHandle
      /\ LockObjects = Part(LockShown(locks), Created(locks))
      /\ LockObjects' = Part(LockShown(locks'), Created(locks'))
  BY ShownLemma, ShownLemmaNext DEF TypeOK, SemsType, LocksType, CondsType
<1>2. /\ \A x \in LockHandle \ {k} : LockShown(locks')[x] = LockShown(locks)[x]
      /\ LockShown(locks)[k] = [owner |-> locks[k].pid, waiting |-> locks[k].waiting]
      /\ LockShown(locks')[k] = [owner |-> locks'[k].pid, waiting |-> locks'[k].waiting]
  BY DEF LockShown
<1>3. /\ locks[k].inuse =>
           /\ k \in Created(locks)
           /\ LockObjects' = [LockObjects EXCEPT ![k] = LockShown(locks')[k]]
      /\ ~locks[k].inuse =>
           /\ k \notin Created(locks)
           /\ LockObjects' = Services!With(LockObjects, k, LockShown(locks')[k])
  <2> DEFINE old == Part(LockShown(locks), Created(locks))
             new == Part(LockShown(locks'), Created(locks'))
             v == LockShown(locks')[k]
  <2>1. /\ locks[k].inuse => k \in Created(locks) /\ new = [old EXCEPT ![k] = v]
        /\ ~locks[k].inuse => k \notin Created(locks) /\ new = Services!With(old, k, v)
    <3>1. OneChanges(LockHandle, locks, locks', LockShown(locks), LockShown(locks'), k)
      BY <1>1, <1>2 DEF OneChanges
    <3> QED
      BY <3>1, PartLemma DEF SeenChange
  <2> QED
    BY <1>1, <2>1
<1>4. DOMAIN LockObjects = Created(locks)
      /\ \A x \in Created(locks) : LockObjects[x] = LockShown(locks)[x]
  BY <1>1 DEF Part
<1> QED
  BY <1>2, <1>3, <1>4

\* A condition variable in use changes, or one is created, as programs see it.
LEMMA CondSeenLemma ==
  ASSUME TypeOK, TypeOK', NEW c \in CondHandle, conds'[c].inuse,
         \A x \in CondHandle \ {c} : conds'[x] = conds[x]
  PROVE  /\ conds[c].inuse =>
              /\ c \in DOMAIN CondObjects
              /\ CondObjects[c] = [lock |-> conds[c].lock, waiting |-> conds[c].waiting]
              /\ CondObjects' = [CondObjects EXCEPT ![c] =
                   [lock |-> conds'[c].lock, waiting |-> conds'[c].waiting]]
         /\ ~conds[c].inuse =>
              /\ c \notin DOMAIN CondObjects
              /\ CondObjects' = Services!With(CondObjects, c,
                   [lock |-> conds'[c].lock, waiting |-> conds'[c].waiting])
<1>1. /\ DOMAIN conds = CondHandle /\ DOMAIN conds' = CondHandle
      /\ CondObjects = Part(CondShown(conds), Created(conds))
      /\ CondObjects' = Part(CondShown(conds'), Created(conds'))
  BY ShownLemma, ShownLemmaNext DEF TypeOK, SemsType, LocksType, CondsType
<1>2. /\ \A x \in CondHandle \ {c} : CondShown(conds')[x] = CondShown(conds)[x]
      /\ CondShown(conds)[c] = [lock |-> conds[c].lock, waiting |-> conds[c].waiting]
      /\ CondShown(conds')[c] = [lock |-> conds'[c].lock, waiting |-> conds'[c].waiting]
  BY DEF CondShown
<1>3. /\ conds[c].inuse =>
           /\ c \in Created(conds)
           /\ CondObjects' = [CondObjects EXCEPT ![c] = CondShown(conds')[c]]
      /\ ~conds[c].inuse =>
           /\ c \notin Created(conds)
           /\ CondObjects' = Services!With(CondObjects, c, CondShown(conds')[c])
  <2> DEFINE old == Part(CondShown(conds), Created(conds))
             new == Part(CondShown(conds'), Created(conds'))
             v == CondShown(conds')[c]
  <2>1. /\ conds[c].inuse => c \in Created(conds) /\ new = [old EXCEPT ![c] = v]
        /\ ~conds[c].inuse => c \notin Created(conds) /\ new = Services!With(old, c, v)
    <3>1. OneChanges(CondHandle, conds, conds', CondShown(conds), CondShown(conds'), c)
      BY <1>1, <1>2 DEF OneChanges
    <3> QED
      BY <3>1, PartLemma DEF SeenChange
  <2> QED
    BY <1>1, <2>1
<1>4. DOMAIN CondObjects = Created(conds)
      /\ \A x \in Created(conds) : CondObjects[x] = CondShown(conds)[x]
  BY <1>1 DEF Part
<1> QED
  BY <1>2, <1>3, <1>4

\* An assignment to one field of one object.
SetCount(F, h, v) == [F EXCEPT ![h].count = v]
SetWaiting(F, h, v) == [F EXCEPT ![h].waiting = v]
SetOwner(F, h, v) == [F EXCEPT ![h].owner = v]

\* From F to G semaphore s changes, from count n and queue q to m and r.
SemChanges(F, G, s, n, q, m, r) ==
  /\ F[s] = [count |-> n, waiting |-> q]
  /\ G = [F EXCEPT ![s] = [count |-> m, waiting |-> r]]

\* A change of one field is an assignment to it: semaphores.
LEMMA SemFieldsLemma ==
  ASSUME NEW F, NEW G, NEW s, NEW n, NEW q, NEW m, NEW r, SemChanges(F, G, s, n, q, m, r)
  PROVE  /\ n = m => G = SetWaiting(F, s, r)
         /\ q = r => G = SetCount(F, s, m)
<1>1. [F[s] EXCEPT !.waiting = r] = [count |-> n, waiting |-> r]
  BY DEF SemChanges
<1>2. [F[s] EXCEPT !.count = m] = [count |-> m, waiting |-> q]
  BY DEF SemChanges
<1>3. SetWaiting(F, s, r) = [F EXCEPT ![s] = [F[s] EXCEPT !.waiting = r]]
  BY Zenon DEF SetWaiting
<1>4. SetCount(F, s, m) = [F EXCEPT ![s] = [F[s] EXCEPT !.count = m]]
  BY Zenon DEF SetCount
<1> QED
  BY <1>1, <1>2, <1>3, <1>4 DEF SemChanges

\* The same for locks, from owner o and queue q to p and r.
LockChanges(F, G, k, o, q, p, r) ==
  /\ F[k] = [owner |-> o, waiting |-> q]
  /\ G = [F EXCEPT ![k] = [owner |-> p, waiting |-> r]]

\* A change of one field is an assignment to it: locks.
LEMMA LockFieldsLemma ==
  ASSUME NEW F, NEW G, NEW k, NEW o, NEW q, NEW p, NEW r, LockChanges(F, G, k, o, q, p, r)
  PROVE  /\ o = p => G = SetWaiting(F, k, r)
         /\ q = r => G = SetOwner(F, k, p)
<1>1. [F[k] EXCEPT !.waiting = r] = [owner |-> o, waiting |-> r]
  BY DEF LockChanges
<1>2. [F[k] EXCEPT !.owner = p] = [owner |-> p, waiting |-> q]
  BY DEF LockChanges
<1>3. SetWaiting(F, k, r) = [F EXCEPT ![k] = [F[k] EXCEPT !.waiting = r]]
  BY Zenon DEF SetWaiting
<1>4. SetOwner(F, k, p) = [F EXCEPT ![k] = [F[k] EXCEPT !.owner = p]]
  BY Zenon DEF SetOwner
<1> QED
  BY <1>1, <1>2, <1>3, <1>4 DEF LockChanges

\* The same for condition variables, with the same lock k.
CondChanges(F, G, c, k, q, r) ==
  /\ F[c] = [lock |-> k, waiting |-> q]
  /\ G = [F EXCEPT ![c] = [lock |-> k, waiting |-> r]]

\* A change of the queue is an assignment to it: condition variables.
LEMMA CondFieldsLemma ==
  ASSUME NEW F, NEW G, NEW c, NEW k, NEW q, NEW r, CondChanges(F, G, c, k, q, r)
  PROVE  G = SetWaiting(F, c, r)
<1>1. [F[c] EXCEPT !.waiting = r] = [lock |-> k, waiting |-> r]
  BY DEF CondChanges
<1>2. SetWaiting(F, c, r) = [F EXCEPT ![c] = [F[c] EXCEPT !.waiting = r]]
  BY Zenon DEF SetWaiting
<1> QED
  BY <1>1, <1>2 DEF CondChanges

\* A semaphore in use changes, as its fields show it.
LEMMA SemStepLemma ==
  ASSUME TypeOK, TypeOK', NEW s \in SemHandle, sems[s].inuse, sems'[s].inuse,
         \A x \in SemHandle \ {s} : sems'[x] = sems[x]
  PROVE  /\ s \in DOMAIN SemObjects
         /\ SemObjects[s].count = sems[s].count
         /\ SemObjects[s].waiting = sems[s].waiting
         /\ sems'[s].count = sems[s].count
              => SemObjects' = SetWaiting(SemObjects, s, sems'[s].waiting)
         /\ sems'[s].waiting = sems[s].waiting
              => SemObjects' = SetCount(SemObjects, s, sems'[s].count)
<1>1. /\ s \in DOMAIN SemObjects
      /\ SemObjects[s] = [count |-> sems[s].count, waiting |-> sems[s].waiting]
      /\ SemObjects' = [SemObjects EXCEPT ![s] =
           [count |-> sems'[s].count, waiting |-> sems'[s].waiting]]
  BY SemSeenLemma
<1>2. SemChanges(SemObjects, SemObjects', s, sems[s].count, sems[s].waiting,
                 sems'[s].count, sems'[s].waiting)
  BY <1>1 DEF SemChanges
<1>3. /\ sems[s].count = sems'[s].count
           => SemObjects' = SetWaiting(SemObjects, s, sems'[s].waiting)
      /\ sems[s].waiting = sems'[s].waiting
           => SemObjects' = SetCount(SemObjects, s, sems'[s].count)
  BY <1>2, SemFieldsLemma
<1> QED
  BY <1>1, <1>3

\* A lock in use changes, as its fields show it.
LEMMA LockStepLemma ==
  ASSUME TypeOK, TypeOK', NEW k \in LockHandle, locks[k].inuse, locks'[k].inuse,
         \A x \in LockHandle \ {k} : locks'[x] = locks[x]
  PROVE  /\ k \in DOMAIN LockObjects
         /\ LockObjects[k].owner = locks[k].pid
         /\ LockObjects[k].waiting = locks[k].waiting
         /\ LockObjects' = [LockObjects EXCEPT ![k] =
              [owner |-> locks'[k].pid, waiting |-> locks'[k].waiting]]
         /\ locks'[k].pid = locks[k].pid
              => LockObjects' = SetWaiting(LockObjects, k, locks'[k].waiting)
         /\ locks'[k].waiting = locks[k].waiting
              => LockObjects' = SetOwner(LockObjects, k, locks'[k].pid)
<1>1. /\ k \in DOMAIN LockObjects
      /\ LockObjects[k] = [owner |-> locks[k].pid, waiting |-> locks[k].waiting]
      /\ LockObjects' = [LockObjects EXCEPT ![k] =
           [owner |-> locks'[k].pid, waiting |-> locks'[k].waiting]]
  BY LockSeenLemma
<1>2. LockChanges(LockObjects, LockObjects', k, locks[k].pid, locks[k].waiting,
                  locks'[k].pid, locks'[k].waiting)
  BY <1>1 DEF LockChanges
<1>3. /\ locks[k].pid = locks'[k].pid
           => LockObjects' = SetWaiting(LockObjects, k, locks'[k].waiting)
      /\ locks[k].waiting = locks'[k].waiting
           => LockObjects' = SetOwner(LockObjects, k, locks'[k].pid)
  BY <1>2, LockFieldsLemma
<1> QED
  BY <1>1, <1>3

\* A condition variable in use changes, as its fields show it.
LEMMA CondStepLemma ==
  ASSUME TypeOK, TypeOK', NEW c \in CondHandle, conds[c].inuse, conds'[c].inuse,
         \A x \in CondHandle \ {c} : conds'[x] = conds[x],
         conds'[c].lock = conds[c].lock
  PROVE  /\ c \in DOMAIN CondObjects
         /\ CondObjects[c].lock = conds[c].lock
         /\ CondObjects[c].waiting = conds[c].waiting
         /\ CondObjects' = SetWaiting(CondObjects, c, conds'[c].waiting)
<1>1. /\ c \in DOMAIN CondObjects
      /\ CondObjects[c] = [lock |-> conds[c].lock, waiting |-> conds[c].waiting]
      /\ CondObjects' = [CondObjects EXCEPT ![c] =
           [lock |-> conds[c].lock, waiting |-> conds'[c].waiting]]
  BY CondSeenLemma
<1>2. CondChanges(CondObjects, CondObjects', c, conds[c].lock, conds[c].waiting,
                  conds'[c].waiting)
  BY <1>1 DEF CondChanges
<1>3. CondObjects' = SetWaiting(CondObjects, c, conds'[c].waiting)
  BY <1>2, CondFieldsLemma
<1>4. CondObjects[c].lock = conds[c].lock /\ CondObjects[c].waiting = conds[c].waiting
  BY <1>1
<1> QED
  BY <1>1, <1>3, <1>4, Zenon

-----------------------------------------------------------------------------
(* Each handler is a call *)

\* Pools that stay as they are look as they did.
LEMMA FrameLemma ==
  /\ sems' = sems => SemObjects' = SemObjects
  /\ locks' = locks => LockObjects' = LockObjects
  /\ conds' = conds => CondObjects' = CondObjects
BY DEF SemObjects, LockObjects, CondObjects, Created

\* The running process waits for nothing.
LEMMA AwakeLemma ==
  ASSUME IInv, UserMode
  PROVE  currentPCB \in Pid /\ Services!Awake(currentPCB)
<1>1. /\ currentPCB \in Pid
      /\ \A s \in SemHandle : currentPCB \notin InQueue(sems[s].waiting)
      /\ \A k \in LockHandle : currentPCB \notin InQueue(locks[k].waiting)
      /\ \A c \in CondHandle : currentPCB \notin InQueue(conds[c].waiting)
  BY UserLemma
<1>2. DOMAIN sems = SemHandle /\ DOMAIN locks = LockHandle /\ DOMAIN conds = CondHandle
  BY DEF IInv, TypeOK
<1>3. \A q : Services!InQueue(q) = InQueue(q)
  BY DEF Services!InQueue, InQueue
<1>4. ~Services!WaitsIn(SemObjects, currentPCB)
  BY <1>1, <1>2, <1>3 DEF Services!WaitsIn, SemObjects, Created
<1>5. ~Services!WaitsIn(LockObjects, currentPCB)
  BY <1>1, <1>2, <1>3 DEF Services!WaitsIn, LockObjects, Created
<1>6. ~Services!WaitsIn(CondObjects, currentPCB)
  BY <1>1, <1>2, <1>3 DEF Services!WaitsIn, CondObjects, Created
<1> QED
  BY <1>1, <1>4, <1>5, <1>6 DEF Services!Awake

\* sem_wait.
LEMMA WaitLemma ==
  ASSUME IInv, IInv', NEW s \in SemHandle, sems[s].inuse, SemWait(s)
  PROVE  s \in DOMAIN SemObjects /\ Services!Wait(currentPCB, s)
<1>1. TypeOK /\ TypeOK' /\ sems \in SemsType
  BY DEF IInv, TypeOK, SemsType
<1>2. LockObjects' = LockObjects /\ CondObjects' = CondObjects
  BY FrameLemma DEF SemWait
<1>3. CASE sems[s].count <= 0 /\ sems' = [sems EXCEPT ![s].waiting = Append(@, currentPCB)]
  <2>1. /\ sems'[s].inuse /\ sems'[s].count = sems[s].count
        /\ sems'[s].waiting = Append(sems[s].waiting, currentPCB)
        /\ \A x \in SemHandle \ {s} : sems'[x] = sems[x]
    BY <1>1, <1>3 DEF SemsType
  <2>2. /\ s \in DOMAIN SemObjects
        /\ SemObjects[s].count <= 0 /\ SemObjects[s].waiting = sems[s].waiting
        /\ SemObjects' = SetWaiting(SemObjects, s, Append(sems[s].waiting, currentPCB))
    BY <1>1, <1>3, <2>1, SemStepLemma
  <2> QED
    BY <1>2, <2>2, Zenon DEF Services!Wait, SetWaiting
<1>4. CASE sems[s].count > 0 /\ sems' = [sems EXCEPT ![s].count = @ - 1]
  <2>1. /\ sems'[s].inuse /\ sems'[s].count = sems[s].count - 1
        /\ sems'[s].waiting = sems[s].waiting
        /\ \A x \in SemHandle \ {s} : sems'[x] = sems[x]
    BY <1>1, <1>4 DEF SemsType
  <2>2. /\ s \in DOMAIN SemObjects
        /\ SemObjects[s].count > 0 /\ SemObjects[s].count = sems[s].count
        /\ SemObjects' = SetCount(SemObjects, s, sems[s].count - 1)
    BY <1>1, <1>4, <2>1, SemStepLemma
  <2> QED
    BY <1>2, <2>2, Zenon DEF Services!Wait, SetCount
<1> QED
  BY <1>3, <1>4 DEF SemWait

\* sem_signal.
LEMMA SignalLemma ==
  ASSUME IInv, IInv', NEW s \in SemHandle, sems[s].inuse, SemSignal(s)
  PROVE  s \in DOMAIN SemObjects /\ Services!Signal(s)
<1>1. TypeOK /\ TypeOK' /\ sems \in SemsType /\ sems[s].count \in Int
  BY DEF IInv, TypeOK, SemsType
<1>2. LockObjects' = LockObjects /\ CondObjects' = CondObjects
  BY FrameLemma DEF SemSignal
<1>3. CASE SignalWakes(s) /\ sems' = [sems EXCEPT ![s].waiting = Tail(@)]
  <2>1. /\ sems'[s].inuse /\ sems'[s].count = sems[s].count
        /\ sems'[s].waiting = Tail(sems[s].waiting)
        /\ \A x \in SemHandle \ {s} : sems'[x] = sems[x]
    BY <1>1, <1>3 DEF SemsType
  <2>2. sems[s].count >= 0 /\ sems[s].waiting # <<>>
    BY <1>1, <1>3 DEF SignalWakes
  <2>3. /\ s \in DOMAIN SemObjects
        /\ SemObjects[s].count >= 0 /\ SemObjects[s].waiting # <<>>
        /\ SemObjects[s].waiting = sems[s].waiting
        /\ SemObjects' = SetWaiting(SemObjects, s, Tail(sems[s].waiting))
    BY <1>1, <2>1, <2>2, SemStepLemma
  <2> QED
    BY <1>2, <2>3, Zenon DEF Services!Signal, SetWaiting
<1>4. CASE ~SignalWakes(s) /\ sems' = [sems EXCEPT ![s].count = @ + 1]
  <2>1. /\ sems'[s].inuse /\ sems'[s].count = sems[s].count + 1
        /\ sems'[s].waiting = sems[s].waiting
        /\ \A x \in SemHandle \ {s} : sems'[x] = sems[x]
    BY <1>1, <1>4 DEF SemsType
  <2>2. sems[s].count < 0 \/ sems[s].waiting = <<>>
    BY <1>1, <1>4 DEF SignalWakes
  <2>3. /\ s \in DOMAIN SemObjects
        /\ SemObjects[s].count < 0 \/ SemObjects[s].waiting = <<>>
        /\ SemObjects[s].count = sems[s].count
        /\ SemObjects' = SetCount(SemObjects, s, sems[s].count + 1)
    BY <1>1, <2>1, <2>2, SemStepLemma
  <2> QED
    BY <1>2, <2>3, Zenon DEF Services!Signal, SetCount
<1> QED
  BY <1>3, <1>4 DEF SemSignal

\* lock_acquire.
LEMMA AcquireLemma ==
  ASSUME IInv, IInv', NEW k \in LockHandle, locks[k].inuse, LockAcquire(k)
  PROVE  k \in DOMAIN LockObjects /\ Services!Acquire(currentPCB, k)
<1>1. TypeOK /\ TypeOK' /\ locks \in LocksType
  BY DEF IInv, TypeOK, LocksType
<1>2. SemObjects' = SemObjects /\ CondObjects' = CondObjects
  BY FrameLemma DEF LockAcquire
<1>3. k \in DOMAIN LockObjects /\ LockObjects[k].owner = locks[k].pid
  BY <1>1 DEF LocksType, LockObjects, Created
<1>4. CASE locks[k].pid = currentPCB /\ UNCHANGED locks
  <2>1. LockObjects' = LockObjects /\ LockObjects[k].owner = currentPCB
    BY <1>3, <1>4, FrameLemma
  <2> QED
    BY <1>2, <1>3, <2>1, Zenon DEF Services!Acquire
<1>5. CASE /\ locks[k].pid \notin {currentPCB, NoOwner}
           /\ locks' = [locks EXCEPT ![k].waiting = Append(@, currentPCB)]
  <2>1. /\ locks'[k].inuse /\ locks'[k].pid = locks[k].pid
        /\ locks'[k].waiting = Append(locks[k].waiting, currentPCB)
        /\ \A x \in LockHandle \ {k} : locks'[x] = locks[x]
    BY <1>1, <1>5 DEF LocksType
  <2>2. /\ LockObjects[k].waiting = locks[k].waiting
        /\ LockObjects' = SetWaiting(LockObjects, k, Append(locks[k].waiting, currentPCB))
    BY <1>1, <2>1, LockStepLemma
  <2> QED
    BY <1>2, <1>3, <1>5, <2>2, Zenon DEF Services!Acquire, SetWaiting
<1>6. CASE locks[k].pid = NoOwner /\ locks' = [locks EXCEPT ![k].pid = currentPCB]
  <2>1. /\ locks'[k].inuse /\ locks'[k].pid = currentPCB
        /\ locks'[k].waiting = locks[k].waiting
        /\ \A x \in LockHandle \ {k} : locks'[x] = locks[x]
    BY <1>1, <1>6 DEF LocksType
  <2>2. LockObjects' = SetOwner(LockObjects, k, currentPCB)
    BY <1>1, <2>1, LockStepLemma
  <2> QED
    BY <1>2, <1>3, <1>6, <2>2, Zenon DEF Services!Acquire, SetOwner
<1> QED
  BY <1>4, <1>5, <1>6 DEF LockAcquire

\* A lock given up, as programs see it.
LEMMA PassedOnLemma ==
  ASSUME TypeOK, TypeOK', NEW k \in LockHandle, locks[k].inuse, locks' = Released(k)
  PROVE  /\ k \in DOMAIN LockObjects
         /\ LockObjects[k].owner = locks[k].pid
         /\ LockObjects' = Services!PassedOn(k)
<1>1. locks \in LocksType
  BY DEF TypeOK, LocksType
<1>2. \A x \in LockHandle \ {k} : locks'[x] = locks[x]
  BY <1>1 DEF Released, LocksType
<1>3. CASE locks[k].waiting = <<>>
  <2>1. locks'[k].inuse /\ locks'[k].pid = NoOwner /\ locks'[k].waiting = locks[k].waiting
    BY <1>1, <1>3 DEF Released, LocksType
  <2>2. /\ k \in DOMAIN LockObjects /\ LockObjects[k].owner = locks[k].pid
        /\ LockObjects[k].waiting = <<>>
        /\ LockObjects' = SetOwner(LockObjects, k, NoOwner)
    BY <1>2, <1>3, <2>1, LockStepLemma
  <2> QED
    BY <2>2, Zenon DEF Services!PassedOn, SetOwner
<1>4. CASE locks[k].waiting # <<>>
  <2>1. /\ locks'[k].inuse /\ locks'[k].pid = Head(locks[k].waiting)
        /\ locks'[k].waiting = Tail(locks[k].waiting)
    BY <1>1, <1>4 DEF Released, LocksType
  <2>2. /\ k \in DOMAIN LockObjects /\ LockObjects[k].owner = locks[k].pid
        /\ LockObjects[k].waiting = locks[k].waiting
        /\ LockObjects' = [LockObjects EXCEPT ![k] =
             [owner |-> locks'[k].pid, waiting |-> locks'[k].waiting]]
    BY <1>2, <2>1, LockStepLemma
  <2>3. LockObjects' = [LockObjects EXCEPT ![k] =
          [owner |-> Head(LockObjects[k].waiting), waiting |-> Tail(LockObjects[k].waiting)]]
    BY <2>1, <2>2, Zenon
  <2> QED
    BY <1>4, <2>2, <2>3, Zenon DEF Services!PassedOn
<1> QED
  BY <1>3, <1>4

\* lock_release.
LEMMA ReleaseLemma ==
  ASSUME IInv, IInv', NEW k \in LockHandle, locks[k].inuse, LockRelease(k)
  PROVE  k \in DOMAIN LockObjects /\ Services!Release(currentPCB, k)
<1>1. TypeOK /\ TypeOK' /\ locks \in LocksType
  BY DEF IInv, TypeOK, LocksType
<1>2. SemObjects' = SemObjects /\ CondObjects' = CondObjects
  BY FrameLemma DEF LockRelease, FailsUnchanged, synchVars
<1>3. k \in DOMAIN LockObjects /\ LockObjects[k].owner = locks[k].pid
  BY <1>1 DEF LocksType, LockObjects, Created
<1>4. CASE ~Owns(k) /\ UNCHANGED locks
  <2>1. LockObjects' = LockObjects /\ LockObjects[k].owner # currentPCB
    BY <1>3, <1>4, FrameLemma DEF Owns
  <2> QED
    BY <1>2, <1>3, <2>1, Zenon DEF Services!Release
<1>5. CASE Owns(k) /\ locks' = Released(k)
  <2>1. LockObjects[k].owner = currentPCB /\ LockObjects' = Services!PassedOn(k)
    BY <1>1, <1>3, <1>5, PassedOnLemma DEF Owns
  <2> QED
    BY <1>2, <1>3, <2>1, Zenon DEF Services!Release
<1> QED
  BY <1>4, <1>5 DEF LockRelease, FailsUnchanged, synchVars

\* A condition variable that a program may name, and its lock.
LEMMA NamedLemma ==
  ASSUME IInv, NEW c, CondHandleValid(c)
  PROVE  /\ c \in CondHandle /\ conds[c].inuse
         /\ conds[c].lock \in LockHandle /\ locks[conds[c].lock].inuse
         /\ c \in DOMAIN CondObjects /\ conds[c].lock \in DOMAIN LockObjects
         /\ CondObjects[c].lock = conds[c].lock
         /\ CondObjects[c].waiting = conds[c].waiting
         /\ LockObjects[conds[c].lock].owner = locks[conds[c].lock].pid
<1>1. locks \in LocksType /\ conds \in CondsType
  BY DEF IInv, TypeOK, LocksType, CondsType
<1>2. c \in CondHandle /\ conds[c].inuse
  BY SynchAssumption DEF CondHandleValid, CondHandle
<1>3. conds[c].lock \in LockHandle /\ locks[conds[c].lock].inuse
  BY <1>2 DEF IInv, LockInv
<1> QED
  BY <1>1, <1>2, <1>3 DEF LocksType, CondsType, LockObjects, CondObjects, Created

\* cond_wait.
LEMMA CondWaitCallLemma ==
  ASSUME IInv, IInv', NEW c, CondHandleValid(c), CondWait(c)
  PROVE  c \in DOMAIN CondObjects /\ Services!CondWait(currentPCB, c)
<1> DEFINE k == conds[c].lock
<1>1. TypeOK /\ TypeOK' /\ conds \in CondsType
  BY DEF IInv, TypeOK, CondsType
<1>2. /\ c \in CondHandle /\ conds[c].inuse /\ k \in LockHandle /\ locks[k].inuse
      /\ c \in DOMAIN CondObjects
      /\ CondObjects[c].lock = k /\ LockObjects[k].owner = locks[k].pid
  BY NamedLemma
<1>3. SemObjects' = SemObjects
  BY FrameLemma DEF CondWait, FailsUnchanged, synchVars
<1>4. CASE ~Owns(k) /\ UNCHANGED <<locks, conds>>
  <2>1. /\ LockObjects' = LockObjects /\ CondObjects' = CondObjects
        /\ LockObjects[CondObjects[c].lock].owner # currentPCB
    BY <1>2, <1>4, FrameLemma DEF Owns
  <2> QED
    BY <1>2, <1>3, <2>1, Zenon DEF Services!CondWait
<1>5. CASE /\ Owns(k) /\ locks' = Released(k)
           /\ conds' = [conds EXCEPT ![c].waiting = Append(@, currentPCB)]
  <2>1. /\ conds'[c].inuse /\ conds'[c].lock = conds[c].lock
        /\ conds'[c].waiting = Append(conds[c].waiting, currentPCB)
        /\ \A x \in CondHandle \ {c} : conds'[x] = conds[x]
    BY <1>1, <1>2, <1>5 DEF CondsType
  <2>2. /\ CondObjects[c].waiting = conds[c].waiting
        /\ CondObjects' = SetWaiting(CondObjects, c, Append(conds[c].waiting, currentPCB))
    BY <1>1, <1>2, <2>1, CondStepLemma
  <2>3. LockObjects[k].owner = currentPCB /\ LockObjects' = Services!PassedOn(k)
    BY <1>1, <1>2, <1>5, PassedOnLemma DEF Owns
  <2> HIDE DEF k
  <2> QED
    BY <1>2, <1>3, <2>2, <2>3, Zenon DEF Services!CondWait, SetWaiting
<1> QED
  BY <1>4, <1>5 DEF CondWait, FailsUnchanged, synchVars

\* cond_signal.
LEMMA CondSignalCallLemma ==
  ASSUME IInv, IInv', NEW c, CondHandleValid(c), CondSignal(c)
  PROVE  c \in DOMAIN CondObjects /\ Services!CondSignal(currentPCB, c)
<1> DEFINE k == conds[c].lock
           w == conds[c].waiting
<1>1. TypeOK /\ TypeOK' /\ locks \in LocksType /\ conds \in CondsType
  BY DEF IInv, TypeOK, LocksType, CondsType
<1>2. /\ c \in CondHandle /\ conds[c].inuse /\ k \in LockHandle /\ locks[k].inuse
      /\ c \in DOMAIN CondObjects
      /\ CondObjects[c].lock = k /\ LockObjects[k].owner = locks[k].pid
      /\ CondObjects[c].waiting = w
  BY NamedLemma
<1>3. SemObjects' = SemObjects
  BY FrameLemma DEF CondSignal, FailsUnchanged, synchVars
<1>4. CASE (~Owns(k) \/ w = <<>>) /\ UNCHANGED <<locks, conds>>
  <2>1. /\ LockObjects' = LockObjects /\ CondObjects' = CondObjects
        /\ \/ LockObjects[CondObjects[c].lock].owner # currentPCB
           \/ CondObjects[c].waiting = <<>>
    BY <1>2, <1>4, FrameLemma DEF Owns
  <2> QED
    BY <1>2, <1>3, <2>1, Zenon DEF Services!CondSignal
<1>5. CASE /\ Owns(k) /\ w # <<>>
           /\ conds' = [conds EXCEPT ![c].waiting = Tail(@)]
           /\ locks' = [locks EXCEPT ![k].pid = Head(w), ![k].waiting = Append(@, currentPCB)]
  <2>1. /\ conds'[c].inuse /\ conds'[c].lock = conds[c].lock
        /\ conds'[c].waiting = Tail(conds[c].waiting)
        /\ \A x \in CondHandle \ {c} : conds'[x] = conds[x]
    BY <1>1, <1>2, <1>5 DEF CondsType
  <2>2. CondObjects' = SetWaiting(CondObjects, c, Tail(w))
    BY <1>1, <1>2, <2>1, CondStepLemma
  <2>3. /\ locks'[k].inuse /\ locks'[k].pid = Head(w)
        /\ locks'[k].waiting = Append(locks[k].waiting, currentPCB)
        /\ \A x \in LockHandle \ {k} : locks'[x] = locks[x]
    BY <1>1, <1>2, <1>5 DEF LocksType
  <2>4. /\ LockObjects[k].owner = currentPCB /\ LockObjects[k].waiting = locks[k].waiting
        /\ LockObjects' = [LockObjects EXCEPT ![k] =
             [owner |-> locks'[k].pid, waiting |-> locks'[k].waiting]]
    BY <1>1, <1>2, <1>5, <2>3, LockStepLemma DEF Owns
  <2>5. LockObjects' = [LockObjects EXCEPT ![k] =
          [owner |-> Head(w), waiting |-> Append(LockObjects[k].waiting, currentPCB)]]
    BY <2>3, <2>4, Zenon
  <2> HIDE DEF k, w
  <2> QED
    BY <1>2, <1>3, <1>5, <2>2, <2>4, <2>5, Zenon DEF Services!CondSignal, SetWaiting
<1> QED
  BY <1>4, <1>5 DEF CondSignal, FailsUnchanged, synchVars

\* The handles of all objects.
AnyHandle == SemHandle \union LockHandle \union CondHandle

\* No object changes.
SameObjects == SemObjects' = SemObjects /\ LockObjects' = LockObjects /\ CondObjects' = CondObjects

\* A handler that leaves the pools alone changes no object.
LEMMA SameLemma ==
  ASSUME UNCHANGED synchVars
  PROVE  SameObjects
BY FrameLemma DEF synchVars, SameObjects

\* sem_create.
LEMMA NewSemLemma ==
  ASSUME IInv, IInv', NEW n \in InitialCounts, SemCreate(n)
  PROVE  SameObjects \/ \E s \in AnyHandle : Services!NewSem(s, n)
<1>1. CASE FailsUnchanged
  BY <1>1, SameLemma DEF FailsUnchanged
<1>2. CASE ~FailsUnchanged
  <2>1. PICK s \in SemHandle :
          /\ FirstUnused(sems, s)
          /\ sems' = [sems EXCEPT ![s] = [inuse |-> TRUE, count |-> n, waiting |-> <<>>]]
          /\ UNCHANGED <<locks, conds>>
    BY <1>2 DEF SemCreate
  <2>2. TypeOK /\ TypeOK' /\ sems \in SemsType /\ ~sems[s].inuse
    BY <2>1 DEF IInv, TypeOK, SemsType, FirstUnused
  <2>3. /\ sems'[s].inuse /\ sems'[s].count = n /\ sems'[s].waiting = <<>>
        /\ \A x \in SemHandle \ {s} : sems'[x] = sems[x]
    BY <2>1, <2>2 DEF SemsType
  <2>4. /\ s \notin DOMAIN SemObjects
        /\ SemObjects' = Services!With(SemObjects, s,
             [count |-> sems'[s].count, waiting |-> sems'[s].waiting])
    BY <2>2, <2>3, SemSeenLemma
  <2>5. LockObjects' = LockObjects /\ CondObjects' = CondObjects
    BY <2>1, FrameLemma
  <2>6. Services!NewSem(s, n)
    BY <2>3, <2>4, <2>5, Zenon DEF Services!NewSem
  <2> QED
    BY <2>6 DEF AnyHandle
<1> QED
  BY <1>1, <1>2

\* lock_create.
LEMMA NewLockLemma ==
  ASSUME IInv, IInv', LockCreate
  PROVE  SameObjects \/ \E k \in AnyHandle : Services!NewLock(k)
<1>1. CASE FailsUnchanged
  BY <1>1, SameLemma DEF FailsUnchanged
<1>2. CASE ~FailsUnchanged
  <2>1. PICK k \in LockHandle :
          /\ FirstUnused(locks, k)
          /\ locks' = [locks EXCEPT ![k] = [inuse |-> TRUE, pid |-> NoOwner,
                                            waiting |-> <<>>]]
          /\ UNCHANGED <<sems, conds>>
    BY <1>2 DEF LockCreate
  <2>2. TypeOK /\ TypeOK' /\ locks \in LocksType /\ ~locks[k].inuse
    BY <2>1 DEF IInv, TypeOK, LocksType, FirstUnused
  <2>3. /\ locks'[k].inuse /\ locks'[k].pid = NoOwner /\ locks'[k].waiting = <<>>
        /\ \A x \in LockHandle \ {k} : locks'[x] = locks[x]
    BY <2>1, <2>2 DEF LocksType
  <2>4. /\ k \notin DOMAIN LockObjects
        /\ LockObjects' = Services!With(LockObjects, k,
             [owner |-> locks'[k].pid, waiting |-> locks'[k].waiting])
    BY <2>2, <2>3, LockSeenLemma
  <2>5. SemObjects' = SemObjects /\ CondObjects' = CondObjects
    BY <2>1, FrameLemma
  <2>6. Services!NewLock(k)
    BY <2>3, <2>4, <2>5, Zenon DEF Services!NewLock
  <2> QED
    BY <2>6 DEF AnyHandle
<1> QED
  BY <1>1, <1>2

\* cond_create.
LEMMA NewCondLemma ==
  ASSUME IInv, IInv', NEW k \in LockHandle, CondCreate(k)
  PROVE  \/ SameObjects
         \/ k \in DOMAIN LockObjects /\ \E c \in AnyHandle : Services!NewCond(c, k)
<1>1. CASE UNCHANGED synchVars
  BY <1>1, SameLemma
<1>2. CASE ~UNCHANGED synchVars
  <2>1. PICK c \in CondHandle :
          /\ locks[k].inuse /\ FirstUnused(conds, c)
          /\ conds' = [conds EXCEPT ![c] = [inuse |-> TRUE, lock |-> k, waiting |-> <<>>]]
          /\ UNCHANGED <<sems, locks>>
    BY <1>2 DEF CondCreate
  <2>2. TypeOK /\ TypeOK' /\ conds \in CondsType /\ ~conds[c].inuse
    BY <2>1 DEF IInv, TypeOK, CondsType, FirstUnused
  <2>3. /\ conds'[c].inuse /\ conds'[c].lock = k /\ conds'[c].waiting = <<>>
        /\ \A x \in CondHandle \ {c} : conds'[x] = conds[x]
    BY <2>1, <2>2 DEF CondsType
  <2>4. /\ c \notin DOMAIN CondObjects
        /\ CondObjects' = Services!With(CondObjects, c,
             [lock |-> conds'[c].lock, waiting |-> conds'[c].waiting])
    BY <2>2, <2>3, CondSeenLemma
  <2>5. SemObjects' = SemObjects /\ LockObjects' = LockObjects
    BY <2>1, FrameLemma
  <2>6. k \in DOMAIN LockObjects
    BY <2>1 DEF LockObjects, Created, IInv, TypeOK
  <2>7. Services!NewCond(c, k)
    BY <2>3, <2>4, <2>5, <2>6, Zenon DEF Services!NewCond
  <2> QED
    BY <2>6, <2>7 DEF AnyHandle
<1> QED
  BY <1>1, <1>2

-----------------------------------------------------------------------------
(* The refinement *)

\* The running process makes the call.
Calls == UserMode /\ Services!Call(currentPCB)

\* When the kernel has started no object has been created.
LEMMA NoObjectsLemma == Init => Services!Init
<1> SUFFICES ASSUME Init PROVE Services!Init
  OBVIOUS
<1>1. Created(sems) = {} /\ Created(locks) = {} /\ Created(conds) = {}
  BY DEF Init, SynchModuleInit, Created
<1>2. SemObjects = [h \in {} |-> NoOwner]
  BY <1>1 DEF SemObjects
<1>3. LockObjects = [h \in {} |-> NoOwner]
  BY <1>1 DEF LockObjects
<1>4. CondObjects = [h \in {} |-> NoOwner]
  BY <1>1 DEF CondObjects
<1> QED
  BY <1>2, <1>3, <1>4 DEF Services!Init, Services!NoObject

\* Each step of the kernel is a call of the running process, or changes no
\* object.
LEMMA StepLemma ==
  ASSUME IInv, IInv', [Next]_vars
  PROVE  SameObjects \/ Calls
<1>1. CASE UNCHANGED synchVars
  BY <1>1, SameLemma
<1>2. CASE \E n \in InitialCounts : SemCreate(n)
  <2>1. PICK n \in InitialCounts : SemCreate(n)
    BY <1>2
  <2>2. UserMode /\ (SameObjects \/ \E s \in AnyHandle : Services!NewSem(s, n))
    BY <2>1, NewSemLemma DEF SemCreate
  <2> QED
    BY <2>2 DEF Calls, Services!Call, AnyHandle
<1>3. CASE \E s \in SemHandle : UserMode /\ sems[s].inuse /\ SemWait(s)
  BY <1>3, WaitLemma DEF Calls, Services!Call
<1>4. CASE \E s \in SemHandle : UserMode /\ sems[s].inuse /\ SemSignal(s)
  BY <1>4, SignalLemma DEF Calls, Services!Call
<1>5. CASE LockCreate
  <2>1. UserMode /\ (SameObjects \/ \E k \in AnyHandle : Services!NewLock(k))
    BY <1>5, NewLockLemma DEF LockCreate
  <2> QED
    BY <2>1 DEF Calls, Services!Call, AnyHandle
<1>6. CASE \E k \in LockHandle : UserMode /\ locks[k].inuse /\ LockAcquire(k)
  BY <1>6, AcquireLemma DEF Calls, Services!Call
<1>7. CASE \E k \in LockHandle : UserMode /\ locks[k].inuse /\ LockRelease(k)
  BY <1>7, ReleaseLemma DEF Calls, Services!Call
<1>8. CASE \E k \in LockHandle : CondCreate(k)
  <2>1. PICK k \in LockHandle : CondCreate(k)
    BY <1>8
  <2>2. UserMode /\ \/ SameObjects
                    \/ /\ k \in DOMAIN LockObjects
                       /\ \E c \in AnyHandle : Services!NewCond(c, k)
    BY <2>1, NewCondLemma DEF CondCreate
  <2> QED
    BY <2>2 DEF Calls, Services!Call, AnyHandle
<1>9. CASE \E c \in CondArg : UserMode /\ CondHandleValid(c) /\ CondWait(c)
  BY <1>9, CondWaitCallLemma DEF Calls, Services!Call
<1>10. CASE \E c \in CondArg : UserMode /\ CondHandleValid(c) /\ CondSignal(c)
  BY <1>10, CondSignalCallLemma DEF Calls, Services!Call
<1>11. CASE TimerInterrupt \/ ProcessCreate \/ Exit \/ HandlerReturns \/ Stopped \/ UNCHANGED vars
  <2>1. UNCHANGED synchVars
    BY <1>11 DEF TimerInterrupt, ProcessCreate, Exit, HandlerReturns, Stopped, vars
  <2> QED
    BY <2>1, <1>1
<1>12. CASE \E h \in SemArg : SemHandleWait(h)
  BY <1>1, <1>3, <1>12 DEF SemHandleWait, SemHandleValid, FailsUnchanged
<1>13. CASE \E h \in SemArg : SemHandleSignal(h)
  BY <1>1, <1>4, <1>13 DEF SemHandleSignal, SemHandleValid, FailsUnchanged
<1>14. CASE \E h \in LockArg : LockHandleAcquire(h)
  BY <1>1, <1>6, <1>14 DEF LockHandleAcquire, LockHandleValid, FailsUnchanged
<1>15. CASE \E h \in LockArg : LockHandleRelease(h)
  BY <1>1, <1>7, <1>15 DEF LockHandleRelease, LockHandleValid, FailsUnchanged
<1>16. CASE \E h \in CondArg : CondHandleWait(h)
  BY <1>1, <1>9, <1>16 DEF CondHandleWait, FailsUnchanged
<1>17. CASE \E h \in CondArg : CondHandleSignal(h)
  BY <1>1, <1>10, <1>17 DEF CondHandleSignal, FailsUnchanged
<1> QED
  BY <1>2, <1>5, <1>8, <1>11, <1>12, <1>13, <1>14, <1>15, <1>16, <1>17 DEF Next

\* Every step of the kernel is a step of the services' specification.
LEMMA RefinesStepLemma ==
  ASSUME IInv, IInv', [Next]_vars
  PROVE  [Services!Next]_<<SemObjects, LockObjects, CondObjects>>
<1>1. CASE SameObjects
  BY <1>1 DEF SameObjects
<1>2. CASE Calls
  <2>1. currentPCB \in Pid /\ Services!Awake(currentPCB) /\ Services!Call(currentPCB)
    BY <1>2, AwakeLemma DEF Calls
  <2>2. Services!Next
    BY <2>1, Zenon DEF Services!Next
  <2> QED
    BY <2>2
<1> QED
  BY <1>1, <1>2, StepLemma

\* Programs may be understood on the calls of SynchSpec: scheduler, traps and
\* handles implement them, whatever is created, preempted, or gone.
THEOREM KernelServes == Spec => ImplementsServices
<1>1. IInv /\ IInv' /\ [Next]_vars
        => [Services!Next]_<<SemObjects, LockObjects, CondObjects>>
  BY RefinesStepLemma
<1> QED
  BY <1>1, IInvHolds, NoObjectsLemma, PTL DEF Spec, ImplementsServices, Services!Spec,
     Services!synchVars

=============================================================================
