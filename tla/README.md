# DLXOS: a TLA+ model of the kernel and its programs

DLXOS is a small teaching kernel for a simulated DLX processor. It has one
processor, up to 32 processes, preemptive round-robin scheduling, semaphores,
locks, condition variables and shared pages, and with four programs that use
them. This directory holds TLA+ modules that model its scheduler, its
synchronisation primitives, its pages, its loader and the programs, the TLC
configurations that check them on small instances, and proofs that hold for every
number of processes, objects, links and pages: of the safety properties of the
kernel and of what it promises to programs, of its linked lists, its pages and its
loader, and of the mutual exclusion and the end of the programs.

Run from this directory:

    tlc -config MCKernel.cfg MCKernel        # and the other .cfg files
    tlapm KernelProofs.tla                   # and the other *Proofs.tla

## 1. Inventory of the system

| Component | State | Operations | Correct when |
|---|---|---|---|
| Process scheduler, `os/process.c` | `pcbs[]`, the queues `freepcbs`, `runQueue`, `waitQueue`, `zombieQueue`, `currentPCB` | `ProcessSchedule`, `ProcessSuspend`, `ProcessWakeup`, `ProcessDestroy`, `ProcessFork` | each PCB is on one queue, the one its status names; the running process heads `runQueue`; every runnable process runs |
| Synchronisation, `os/synch.c` | `sems[]`, `locks[]`, `conds[]`, each with a queue of waiting processes | create, wait, signal, acquire, release | no lost or misdirected wakeup; mutual exclusion; Hoare hand-off; first come first served |
| Queues, `os/queue.c` | links in a pool of 400, doubly linked lists | `AQueueAllocLink`, `AQueueRemove`, insertions, `AQueueMoveAfter` | each list is well formed and no link is lost |
| Trap dispatch, `os/traps.c` | none of its own | one branch for each trap or interrupt | each branch is one call into the modules above, and a result |
| Memory, `os/memory.c` | bitmap of free pages, a count, page tables | allocate, free, translate, copy | count and bitmap agree; a page has one owner |
| Shared pages, `lib/share_memory.o` | 32 slots with a page and a reference count | create, map, free | a shared page is freed with its last process |
| File system, `os/filesys.c` | table of 32 open files | open, close, read, write, seek | a slot is given back when its file is closed |
| System processes, `os/sysproc.c` | none | none active: the forks are commented out | |
| Assembly, `os/*.s` | saved register frames | interrupt entry and return, trap stubs | a process resumes where it stopped |
| Loader, `os/process.c` | the file being read, the address it has come to | `ProcessGetCodeInfo`, `ProcessGetFromFile`, `main`'s options | each byte of the file is at its address; files are closed |
| Buffers, `apps/q2`, `q3`, `q4` | a page with a circular buffer and two indices; a lock, semaphores, condition variables | `makeprocs`, producer, consumer | bounded buffer: nothing lost, doubled or reordered; the program ends |
| Atmosphere, `apps/q5` | a semaphore for each kind of molecule | two injectors, three reactions | atoms are conserved; all reactions expected take place; the program ends |
| Example, `apps/example` | a shared page and a semaphore | creates processes and waits for them | as the buffers |
| Formatting, `os/misc.c` | none | number conversion, string copies | |

How they interact. A user process traps into `dointerrupt`, which calls one
operation of the kernel with interrupts disabled. An operation that blocks
issues a second trap, `ProcessSleep`, inside the kernel: the process leaves the
run queue, another one is resumed, and the first goes on *inside* the operation
when a later call wakes it and the scheduler reaches it. The timer interrupts
user code only and calls `ProcessSchedule(0)`. When nothing can run the
simulator exits.

What is hard here. A process holds one link pointer for all the queues of the
scheduler; a wakeup and the run of the woken process are separate, and everybody
else may act in between; a semaphore's count may be created negative; locks are
named by PID and PIDs are reused; processes exit anywhere, also inside a
critical section. The programs add their own: conditions tested before they can
be relied on, waiting with a lock held, a wakeup that reaches a process that has
no use for it, a handshake by a semaphore that starts below zero. `PROJECT.json`
lists each hazard at its line.

## 2. The modules

| Module | Models | |
|---|---|---|
| `Queue` | `os/queue.c` as its callers see it | sequences of objects |
| `Queues` | what `os/queue.c` promises | extends `Queue`; the abstract specification |
| `LinkedQueue` | the linked lists and the pool of `os/queue.c` | implements `Queues` |
| `Process` | `os/process.c` | extends `Queue` |
| `Synch` | `os/synch.c` | extends `Process` |
| `Kernel` | `os/traps.c` and all programs | extends `Synch`; `Next`, fairness, properties |
| `Memory` | the page allocator of `os/memory.c` | operators on a record |
| `SharedPages` | pages of processes, `lib/share_memory.o`, copies | extends `Memory` |
| `SynchCalls` | the primitives as programs see them | the calls, on waiting queues alone |
| `SynchSpec` | what the kernel promises its programs | extends `SynchCalls`; `Kernel` implements it |
| `UserPrograms` | what `makeprocs` and all children have in common | extends `SynchCalls` |
| `SharedBuffer` | the buffer in the shared page, and the code q2, q3 and q4 share | extends `UserPrograms` |
| `LockBuffer`, `SemBuffer`, `MonitorBuffer` | `apps/q2`, `apps/q3`, `apps/q4` | extend `SharedBuffer` |
| `Reactions` | `apps/q5` | extends `UserPrograms` |
| `Programs` | the system started with one of the four | extends these; `Next`, fairness, properties |
| `BoundedBuffer` | what q2, q3 and q4 are to be | the abstract specification |
| `BufferContents` | the refinement of `BoundedBuffer`, and further properties | extends `Programs` |
| `FileSys` | `os/filesys.c` | operations on the table of open files |
| `Loader` | the part of `os/process.c` that reads files | extends `FileSys` |
| `MCKernel`, `MCLinkedQueue`, `MCSharedPages`, `MCPrograms`, `MCLoader` | constants for TLC | extend the module they are for |
| `QueueProofs`, `KernelProofs`, `ServicesProofs`, `ProgramsProofs`, `ContentsProofs`, `LinkedQueueProofs`, `PagesProofs`, `LoaderProofs` | the theorems | |

**State.** A PCB is named by its index in `pcbs[]`, its PID. `freepcbs`,
`runQueue` and `zombieQueue` are sequences; `waitQueue` is a set, because the
code takes a process off it by the link in the PCB and its order only decides
what is printed. `flags` is the status in each PCB. `stopped` says whether and
why the kernel called `exitsim()`. `sems`, `locks`, `conds` are the arrays of
`synch.c`. Two variables stand for what is on the processes' stacks: `trap[p]`,
the call that `p` sleeps in inside the kernel, and `r1[p]`, the result of its
last call, which `ProcessSetResult` puts in its saved register.

**Actions.** Each trap is one action, with its error returns: `SemCreate`,
`SemHandleWait`, `SemHandleSignal`, `LockCreate`, `LockHandleAcquire`,
`LockHandleRelease`, `CondCreate`, `CondHandleWait`, `CondHandleSignal`,
`ProcessCreate`, `Exit`. `TimerInterrupt` is the timer, and also the context
switch trap, whose branch makes the same call. `HandlerReturns` is what is left
of an operation after its `ProcessSleep`: all of them then only return
`SYNC_SUCCESS`. An operation changes the state and calls the scheduler in one
step because interrupts stay disabled from its entry to the sleep.

**The programs** are unconstrained in `Kernel`: whoever runs may make any call
with any handle, valid or not, in any order. So what holds here holds for every
program.

**Modelling decisions.**

- `ProcessSchedule` is an operator on the queues as the rest of the handler
  leaves them, since its callers move processes first. It frees zombies
  (`ProcessFreeResources`, whose pages are in `SharedPages`) unless the run queue is empty: then it exits first.
- `ProcessFork` has four outcomes. Whether a page is free and whether the
  program file exists is not the scheduler's state, so each may go either way. `process_create` sets no result: `r1` stays as it was.
- `CondHandleWait` and `CondHandleSignal` compare the handle with `MAX_SEMS`,
  and so does the model. The assumption `MAX_SEMS <= MAX_CONDS` keeps the
  access inside the array; both are 32 in the code.
- `CondCreate` reads `locks[lock].inuse` for the handle it is given without a
  test. Outside the array that read has no defined value; the model passes
  handles inside it only.
- `ASSERT` in `include/os/dlxos.h` only prints, so the assertions in
  `ProcessSuspend` and `ProcessWakeup` guard nothing. `QueueInv` and
  `SleepersInv` imply that neither ever fires.
- `LockRelease` by a process that is not the owner returns without
  `RestoreIntrs`. It is only called from a trap, where interrupts were disabled
  already and the return from the trap restores them, so nothing is lost.
- `SemCountBound` limits a semaphore's count: a signal beyond it is not taken.
  The overflow of the count's 32 bits is not modelled.
- When `Exit` frees a process its `r1` becomes `NoResult`: the page with the
  saved registers is freed with the process.

**Services.** `SynchCalls` says what a call does to the objects that programs
share: `sems[s]` has a count and the processes that wait, `locks[k]` an owner and
those that wait, `conds[c]` a lock and those that wait. A process that waits
nowhere is awake. There are no PCBs, run queues, timer, results or `inuse`
flags, and the sleep inside an operation is one step: the call puts the process
in a queue, and the call that serves it takes it out. `SynchSpec` lets any
process that is awake make any of these calls. `Kernel` maps its arrays to these
functions, an object being there when it is in use, and `ImplementsServices`
says that every step of the kernel is one such call or changes nothing a program
can see: a fork, an exit, a timer interrupt, a call that fails, the return from
an operation. `NewCond` takes a lock that exists, which is the test in
`CondCreate`.

**Programs.** They run on `SynchCalls`. `pc[p]` is where process `p` is in its
program, `counter[p]` its index or remaining count, `page` what is in the shared
page; `app` says which of the four programs was started. A step is a call with
the local computation up to the next one, or one access to the shared page that
others could interleave with: a test of the indices, the store into a slot, the
move of an index. Any process that is awake may take the next step, which covers
every preemption by the timer. In `Programs`, `ChildStep(p)` is one step of a
child: it is created, goes on in its loop, or completes; `WaitForChildren` is
the `sem_wait` at the end of `makeprocs`; `NobodyRuns` is the exit of the kernel
when the run queue is empty, be it that all is done or that all sleep.

- A character is the digit it shows. Each producer inserts 0, 1, ...,
  `ITEMS - 1`, the consumers take them in that order.
- Printing is left out, and so are the stores into `c_depot.nums`, which nobody reads.
  The assignments to the index of a depot are part of the call next to them
  that ends or follows the critical section, because no other process sees the
  index.
- `makeprocs` of q2 sets neither index. The page was never used before, so both
  are 0; `BufferInit` says so for all three.
- `BufferAssumption` has the bounds of the code: at most 31 processes besides
  `makeprocs`, so at most 15 producers for 32 slots: fewer producers than slots.
- In q5 the string of the third reaction is written behind the end of
  `expected_reactions_str`. Whether `inj_count_str` lies there is up to the
  compiler: `layout` is chosen in `ReactionsInit`. If it does, the injector of N3
  gets the count of the third reaction. `page` keeps what the processes were
  started with.

**Files.** `openfiles` is the table of `filesys.c`; `host` stands for the
simulator, the file and position behind each of its descriptors. `FsOpen`,
`FsClose` and `FsSeek` are actions on them, `FsRead` returns how much a read
gets. `task` is what is being done with a file: `pc` says whether its header, its
lines or its end is next. It is `main` with one of its options (`phase` is
"options"), then `main` with the file `vm`, then `process_create`, called any
number of times. There is one task at a time since all of this runs with
interrupts disabled. A program file is a header and a sequence of lines, each
with its length in characters, the number of its bytes, and an address or
`SameAddress`; byte `j` of line `k` is `<<k, j>>`, so `image` shows which byte
was put where. `GetFromFile` is one round: read, cut back to the last newline,
parse up to the first new address, seek, copy to the process. The other files
are one that is too short, one without `start:`, one on the DLX file system, whose
operations are stubs, and one that does not exist.

**Linked lists.** `LinkedQueue` keeps the fields of all links and queues in one
record, `heap`, and translates each operation of `os/queue.c` to an operator from
heap to heap. `pcbLink` is the pointer `l` in each PCB; `fatal` says that a list
operation failed and its caller exited. The actions are what the kernel does
with lists: a PCB goes from its queue to the end of another (`MoveToEnd`) or to
the front of the zombie queue, the run queue is rotated, a PCB joins the end of a
waiting queue, and the first one leaves it. `Enqueue` requires that the PCB waits
nowhere else, which is what `SleepersInv` shows of the kernel. `Objects(q)`
walks the list; with it `LinkedQueue` implements `Queues`.

**Pages.** `mem` is the allocator: the bitmap as a set of bits for each word, the
count, and the word where the last search ended. `spages` are the slots of shared
pages, each with a page number and the set of its processes (a word of bits in
the code). `pcb` holds the page table, `npages` and the stack page of each PCB;
entries behind `npages` keep what was there, also from one process to the next.
`MemoryFreeSharedPte` and `ProcessFreeResources` work on a *cleanup*, the memory,
the slots and the count as they are in the middle of a handler; the two loops of
`ProcessFreeResources` are recursive functions. `lib/share_memory.o` is assembler
text, compiled from a C file that the repository does not have: the definitions
are translated from the instructions. Which process runs is left open, as is
which free PCB a fork takes: the scheduler is `Process`.

`program` stands for what programs do with a page, taken from the four
`makeprocs`: they create it, tell the processes they create of it, and end after
those have mapped it, which they wait for with a semaphore. With `MAPS_FIRST`
they also map it before they create anybody, as all four do. A program may
create further pages and keep them to itself. `PAGE_SIZE` is the number of bytes
the copies see in a page.

## 3. The properties

Safety, in `Kernel` and `Process`:

- `QueueInv`: each PCB is on exactly the queue its status names, once; there is
  no zombie between handlers; the running process heads the run queue.
- `SleepersInv`: a process is on the waiting queue of an object if and only if
  it sleeps in a call that put it there. A lost wakeup is a sleeper on no queue.
- `NoSleeperWithUnits`, `GrantsAreBacked`: nobody sleeps on a semaphore that has
  units; a sleeper is woken by a unit a signal brought, and by nothing else.
  The second distinguishes counts created below zero, which signals pay off
  before anyone is woken.
- `LockInv`, `WokenOwnsLock`, `OnlyOwnerGivesUp`: a lock somebody waits for is
  held; a woken process owns its lock although it does not run yet, as the
  comments on `CondHandleWait` and `CondHandleSignal` promise; nobody but its
  owner gives a lock up.
- `FirstComeFirstServed`: only the head leaves a waiting queue, newcomers join
  its end.

In `LinkedQueue`:

- `ListsWellFormed`: every link is on exactly one list, the one it names, and
  each list can be walked in both directions, so no link is lost.
- `PCBLinksValid`: the pointer a PCB keeps is its link on a scheduler queue.
- `NeverFails`: with two links for each PCB, the least the kernel needs, the pool
  never runs out and no list operation fails. The code has 400 links for 32
  PCBs.
- `ImplementsSequences`: the lists behave as the sequences of `Queues`.

In `SharedPages`:

- `MemoryAgrees`: the count of free pages is the number of bits set, so the
  search of `MemoryAllocPage` ends. A page freed twice breaks it.
- `PrivatePagesAreOwned`, `HeldPagesAreNotFree`, `NoPageLost`: a program page or
  stack has one owner; nothing a process has is free; what nobody has is free.
  Hard because a process's pages go back in three ways, and because slots of
  freed pages still name them and are found by every search.
- `CopyIsComplete`: a copy inside a process's pages moves each byte to its place,
  also across pages.

In `Kernel`, as a refinement:

- `ImplementsServices`: programs get what `SynchSpec` promises. Hard because the
  kernel delivers a unit or a lock to a process that sleeps inside a call and
  may run much later.

In `Programs` and `BufferContents`, of q2, q3 and q4:

- `MutualExclusion`: a process that is awake and where it uses the buffer owns
  the lock, also after it gave the lock away in `cond_wait` or `cond_signal` and got it back.
- `TestStillHolds`: what a process tested, or waited for, is so when it acts on
  it. q4 tests with an `if` and relies on the hand-off; q3 trusts its semaphores.
- `HeadIsExpected`: somebody always expects the first character of the buffer. A
  consumer leaves what it does not expect to others, so if this failed the
  buffer would be stuck. It holds because every consumer takes the digits in
  order and there are as many consumers as producers.
- `ImplementsBoundedBuffer`: the indices and slots behave as a bounded queue, to
  which producers append and from which consumers take what they expect.

Of q5: `AtomsConserved`, the atoms in the semaphores and those in the hands of
reactions are those injected.

Of all four: `ReturnsLast`, `makeprocs` goes on only when each child has done all
its rounds; and `MakeprocsReturns`, it does go on.

In `Loader`:

- `ImageFollowsFile`: wherever the chunks end, the image is that of the lines
  read so far, each at its address, and in the end of all of them.
- `LoadsGiveBack`: a load that is over has given its slot back and changed no
  other. The exceptions are a file without `start:` and slot 0, see section 5.
- `ProgramsAreRead`: a program that could be opened can be read, if it has the
  100 characters that `ProcessGetCodeInfo` asks for. It holds only because `main`
  has opened a file first, see section 5.

Liveness:

- `MakeprocsReturns`: q2 to q5 end, however they are scheduled.
- `RoundRobin`: if processes stop exiting at some point, every runnable process
  runs, unless the kernel exits. The premise is needed because of what an exit
  does to the run queue, see section 5.
- `SignalsServeSleepers`, `ReleasesServeSleepers`: whoever waits on a semaphore
  or lock is served if signals or releases of it keep coming.

## 4. The runs

| Run | Instance | Shows |
|---|---|---|
| `kernel` | `Spec`, 3 processes, 1 semaphore, 1 lock, 1 condition variable, counts -1, 0, 1 | all nine safety and action properties and the refinement of `SynchSpec`; 358,056 states |
| `locks_liveness` | `FairSpec`, 3 processes, 1 lock, 1 condition variable | `RoundRobin`, `ReleasesServeSleepers` |
| `sems_liveness` | `FairSpec`, 3 processes, 1 semaphore | `SignalsServeSleepers` |
| `linked_lists` | 3 PCBs, 6 links, the run and zombie queues and one waiting queue | the four properties of `LinkedQueue`; 71,952 states |
| `pages` | 3 processes, 6 pages, 2 slots, 2 entries in a page table, words of 3 bits | the properties of `SharedPages`; about 104,000 states |
| `map_later` | the same, 7 pages, 3 slots and entries, without `MAPS_FIRST` | `HeldPagesAreNotFree` is violated |
| `copy_end` | the same with `MAPS_FIRST` and 5 entries | `CopyStopsAtUnmapped` is violated |
| `programs` | q2, q3 and q4 with 2 producers, 2 consumers, 2 characters each, 3 slots; q5 with up to 2 N3 and 4 H2O | the properties of `Programs` and `BufferContents`; 115,298 states |
| `files` | 3 slots, 3 simulator descriptors, every program of up to 3 lines | the properties of `Loader`; about 243,000 states |
| `q3_deadlock` | q3 with 3 characters each | `MakeprocsReturns` is violated |
| `exit_rotation` | `Spec`, 3 processes | `RotatesTheRunning` is violated |
| `lock_owner` | `Spec`, 2 processes, 1 lock | `OwnerExists` is violated |

Why these bounds. Three processes are the least for an owner, a waiter that has
been handed the lock and a third that interferes, and for two waiters in a queue
whose order matters. An object's operations touch that object, its lock and the
scheduler, so one object of each kind shows every interaction; the handles tried
include one below and one above the range. A count of -1 is a debt a signal has
to pay. All PCBs can be in use, so fork also finds none free. There is no
symmetry: PIDs are ordered in the initial free list. In `linked_lists` three PCBs
give a list with a middle, and six links are the least that are enough, so the
pool does become empty. PCBs are symmetric there, and the view leaves out the
objects of free links, which `AQueueAllocLink` sets before anything reads them.
Deadlock is checked in
every run; the stopped kernel stutters by the action `Stopped`.

In `pages` six pages are enough for three processes, or for two that share one and
have one more each, and too few for anything beyond, so forks and creations also
find none. Two slots let a freed page come back while its old slot still names
it, and run out. A table of two entries gets full and has a page boundary to
copy across. Words of three bits make the search go through three words. PCBs
are symmetric, and the view leaves out free PCBs and entries behind `npages`,
which no checked property reads before they are set again.

In `programs` two producers and two consumers are the least for characters of
several producers to mix and for a consumer to meet a head it does not expect
and another does. Three slots, of which q2 and q4 use two, are filled, emptied
and passed over the wrap of the indices: four characters go through. The buffer
has more slots than there are producers, as in the code. With two characters
each q3 is within the bound at which it works, see section 5. Two N3 and four
H2O are the smallest numbers with which both outcomes of the comparison in
`makeprocs` occur and every reaction runs more than once. The programs
end, so the run has no need to switch deadlock checking off: `NobodyRuns`
stutters then.

In `files` the table has three slots, of which slot 0 is special, and gets full
by the leaks of section 5. A chunk has 9 characters and lines have 4 to 7, so a chunk
holds one or two lines and ends in the middle of the next, or earlier, at a new
address. Lines may overlap or leave a gap. The header has 2 of the 7 characters in
which it is searched for, as in the code it is shorter than 100, so a program
without lines or with one short line is refused, and others are read.

Fairness. `FairSpec` of `Kernel` assumes two things.
`WF_vars(HandlerReturns)`: a process that is current and is inside an operation
leaves it; it does so with interrupts disabled. `WF_vars(Quantum(p))` for each
process `p`: one that keeps the processor in user mode is interrupted by the
timer. `ProcessSchedule` arms the timer (`TimerSet`, process.c:240) each time it
picks a process, which is why the condition is about one process that stays
current, and nothing is assumed of processes that sleep or exit before their
quantum is over. No program is assumed to make any call; the premises of
`SignalsServeSleepers` and `ReleasesServeSleepers` say which calls have to keep
coming.

`FairSpec` of `Programs` assumes weak fairness of each child and of `makeprocs`:
one that is awake takes its next step at some time. That is `RoundRobin`, which
the kernel provides while nobody exits; each program has finitely many exits.
Nothing is assumed of who gets a lock or a unit: that is the order of the waiting
queues.

## 5. Findings

- **An exit makes the next process lose its turn** (`exit_rotation`). The exit
  trap destroys the running process and then calls `ProcessSchedule(0)`. That
  moves the front of the run queue to the end, on the ground that "the running
  process was the one in front"; but it is off the queue by then. With A
  running, B next and C after it, A's exit runs C and puts B behind it.
- **A lock outlives its owner** (`lock_owner`). Exit does not release locks.
  The lock keeps the PID of a free PCB, so it can be released by nobody, until
  a new process gets that PCB: that process then passes for the owner.

- **A shared page is freed while its creator has it** (`map_later`). A slot keeps
  the number of its page when the page is freed. The page comes back, and
  `shmget` puts its creator in a new slot; `shmat` and the release find the old
  one. A child that maps the page and ends is the last process of the old slot,
  so the page is freed under its creator. The header promises that it "is not
  actually deallocated untill all the process release it". A creator that calls
  `shmat` at once, as the programs do, is in the old slot too: `pages` holds.
- **A copy runs into the page behind the last** (`copy_end`). The test
  `page > npages` admits page `npages`. Its entry may be left over from another
  process, as in the trace; behind a full table it is the field `npages`, 16,
  which is an address in the kernel. Only an entry that is 0 ends the copy. The
  comment on the copy says it stops at the first unmapped address. The run has
  more entries than a process can fill, so it shows the first of the two.

- **The programs of q3 can deadlock** (`q3_deadlock`). A consumer takes the lock
  and compares the head of the buffer with what it expects, whether the buffer
  holds anything or not. If so, it waits on `s_fullslots` and keeps the lock.
  When the buffer has gone round once, an empty slot still shows the character
  of the last lap. A consumer that expects that character sleeps with the lock;
  producers need the lock to insert, and nothing is ever inserted. It takes a
  consumer that is a lap behind the indices, so the producers other than one
  must have filled the buffer: with the 10 characters and 32 slots of the code,
  from five producers on. `makeprocs` then waits for ever and the kernel exits
  with its FATAL ERROR.

Read on the way, without a run of their own.

In the programs: a consumer converts its index with `ditoa` into a single
`char`, so the terminating 0 is written behind it; the third string of q5 is
written behind its array, and with an unlucky layout and more N3 than third
reactions the first reaction waits for ever (`EnoughN3` is the condition under
which `MakeprocsReturns` holds).

In the file system: `FdValid` refuses descriptor 0, which `FsOpen` hands out
first, so that file can neither be read nor closed. The kernel works because
`main` opens `vm` and loses slot 0 to it before it loads anything; if an option
`-f` comes first, that option reads nothing. `ProcessGetCodeInfo` asks for 100
characters and refuses a program file that has fewer. It returns failure for a
file without `start:` and keeps it open, although its comment says that the
descriptor "MUST be closed": after 31 attempts nothing can be loaded. The option
`-f` closes its file with the simulator's `close()` and the index of the slot
instead of the simulator's descriptor, so the slot stays in use.

In the kernel: the comments on `CondHandleWait`
and `CondHandleSignal` speak of return values 0 and 1, the code returns 1 and
-1; the comment on `SemWait` says it decrements first and suspends below zero,
the code suspends at zero or below and decrements otherwise; `synch.h` says
locks and condition variables are built from semaphores, and they are not.

## 6. What is proved

Every theorem holds for all values of the constants that the named assumptions
admit: `ProcsAssumption`, `SynchAssumption`, `LinksAssumption`,
`MemoryAssumption`, `PagesAssumption`, `FileSysAssumption`, `LoaderAssumption`,
`BufferAssumption`, `ReactionsAssumption` and `AppsAssumption`, each in the
module that declares the constants. A theorem that needs more says so as its own
hypothesis.

| Module | Theorem | Property |
|---|---|---|
| `KernelProofs` | `TypeCorrect` | `[]TypeOK` |
| | `QueuesCorrect` | `[]QueueInv` |
| | `NoLostWakeup` | `[]SleepersInv` |
| | `UnitsAreTaken` | `[]NoSleeperWithUnits` |
| | `LocksCorrect` | `[]LockInv` |
| | `HandOff` | `[]WokenOwnsLock` |
| | `LockIsKept` | `OnlyOwnerGivesUp` |
| | `WakeupsAreBacked` | `GrantsAreBacked` |
| | `ServedInOrder` | `FirstComeFirstServed` |
| `ServicesProofs` | `KernelServes` | `ImplementsServices` |
| `LinkedQueueProofs` | `ListsStayWellFormed` | `[]ListsWellFormed` |
| | `PCBLinksStayValid` | `[]PCBLinksValid` |
| | `LinksNeverRunOut` | `[]NeverFails` |
| | `ListsImplementSequences` | `ImplementsSequences` |
| `PagesProofs` | `PagesTypeCorrect` | `[]TypeOK` |
| | `MemoryKeepsAgreeing`, if `MAPS_FIRST` | `[]MemoryAgrees` |
| | `PrivatePagesStayOwned`, if `MAPS_FIRST` | `[]PrivatePagesAreOwned` |
| | `HeldPagesAreNeverFree`, if `MAPS_FIRST` | `[]HeldPagesAreNotFree` |
| | `NoPageIsEverLost`, if `MAPS_FIRST` | `[]NoPageLost` |
| | `CopiesAreComplete` | `[]CopyIsComplete` |
| `LoaderProofs` | `LoadsAreFaithful` | `[]ImageFollowsFile` |
| | `SlotsComeBack` | `LoadsGiveBack` |
| | `VmMakesProgramsReadable`, if `vm` can be opened and `program` is a file of the simulator | `ProgramsAreRead` |
| `ProgramsProofs` | `BufferIsExclusive` | `[]MutualExclusion` |
| | `MakeprocsReturnsLast` | `[]ReturnsLast` |
| `ContentsProofs` | `TestsStillHold` | `[]TestStillHolds` |
| | `SomeoneExpectsHead` | `[]HeadIsExpected` |
| | `BufferIsBounded` | `ImplementsBoundedBuffer` |
| | `AtomsAreConserved` | `[]AtomsConserved` |

**The kernel.** `KernelProofs` needs at least one process, natural numbers of
objects with `MAX_SEMS <= MAX_CONDS`, and integer counts. The inductive
invariant `IInv` is the conjunction of the six state invariants. None of them is
inductive alone: that a wakeup finds its process asleep (`QueueInv`) needs that
only sleepers are on waiting queues (`SleepersInv`); that a release hands the
lock to somebody who then owns it (`WokenOwnsLock`) needs that nobody waits
twice and that an owner does not wait (`SleepersInv`, `LockInv`); that a sleeper
is on one queue needs that the running process sleeps in no call (`QueueInv`).
`InitEstablishesIInv`, `NextPreservesIInv` and `IInvHolds` are the three steps;
`NextPreservesIInv` has one lemma per action. The action properties follow from
`IInv` and a lemma per kind of object that says what a step may do to a waiting
queue (`SemMovesLemma`, `LockMovesLemma`, `CondMovesLemma`). `QueueProofs` holds
the facts on `AQueueRemove`, `Append`, `Tail` and `Rotate`; the first part of
`KernelProofs` shows that each operation of the scheduler preserves its types
and `QueueInv`.

**Services.** `ServicesProofs` proves the simulation of `SynchSpec` from `IInv`.
The three arrays are mapped one at a time: a lemma for each says what its image
looks like after an object was created or changed, and then there is one lemma
per action of the kernel, which names the call it is or shows that it stutters.
`IInv` is what makes the cases of the kernel those of the abstract call: that
the running process is awake in the abstract sense is `SleepersInv` with
`QueueInv`.

**Linked lists.** `LinkedQueueProofs` proves that `os/queue.c` keeps its lists
for any number of PCBs and queues, from `LinksAssumption`: two links for each
PCB, and an initial order with each PCB once. The code has 400 links for 32. The
argument has three layers. The first says what each operation does to the fields
of the heap (`InsertedAfter` and the like). The second names the sequence of
links that is on each queue: `IsList(h, q, s)` says that the fields of `h` make
`s` the list of `q`, and `Holds` that every link is on one list, except those an
operation has just taken out. Here an insertion is `Append` and a removal is
`Without`, so the branches of `AQueueInsertAfter` and `AQueueRemove` for first,
last and only links are each met once. The third says that the objects of those
links are the sequences of `Queues` (`Good`). The invariant is

    LinkInv == fatal = FALSE /\ OwnersOK(heap, pcbLink) /\ \E C : Good(heap, C)

`OwnersOK` is what makes it inductive: the link of a PCB is on a queue of the
scheduler and is for it, those queues have no other links, and a process is on
at most one waiting queue, once. From it `FreeLinkLemma` counts that an
operation that needs a link finds one: n PCBs have a link each, and while one of
them waits nowhere the others have at most n - 1 more. The walk `Links` that the
properties use is a recursive function; `WalkLemma` shows that it returns the
sequence that `IsList` names, and the loops of the initialisation are handled in
the same way.

**Pages.** The invariant of `PagesProofs` is `PagesInv`. None of the four
properties is inductive. That a page is freed only when nobody holds it
(`HeldPagesAreNotFree`) needs that a slot's processes are exactly those that
have its page in their tables (`UsersHoldPages`); that in turn needs that what a
process knows of a page is still true when it maps it later, which is
`HandlesAreShared`: the handle a program keeps names a page that is nobody's
private page, and whoever has that page counts among the slot's processes.
`TablesAreSound` says that no page is twice in one table, so that the loop of
`ProcessFreeResources` frees none twice. With these, allocation and release keep
the bitmap, the count and the holders in agreement (`Sound`, `NoPageLost`). All
this is under `MAPS_FIRST`: a program that creates a page maps it before it
tells anybody. The programs in `apps` do, the kernel does not force it, and
`map_later` shows that the theorem is false without it. The types and
`CopiesAreComplete` do not need it: they rest on `TablesInv`, that entries below
`npages` are not 0. `moveBetweenSpaces` is a recursive function of the bytes
that are left; the proof is an induction over the chunks it copies.

**Loader.** The invariant `LoaderInv` says what holds between two chunks of
`ProcessGetFromFile`: there is a line m such that the position in the file is
the end of line m, the image is what the first m lines place, and the address is
the one behind them. So a chunk that ends in the middle of a line is read again
from its start. The loader holds an open descriptor at each of its places, which
gives `SlotsComeBack`. `VmMakesProgramsReadable` adds `VmInv`: slot 0 stays in
use once the system runs, so no load gets it. It needs that `vm` can be opened,
which is what makes slot 0 used; without it the first program is not read.
`LoaderAssumption` says of the header only that it is within the characters read,
so a file "program" may be too short, and `ProgramsAreRead` is about those that
are not.

**Programs.** `ProgramsProofs` proves `BufferIsExclusive`, `[]MutualExclusion`
for q2, q3 and q4, for any finite sets of producers and consumers, any number of
characters and any buffer that `BufferAssumption` allows, and any values of the
other constants. The inductive invariant is `StrongInv`. Its part `HasLock` says
that a process that is past its `lock_acquire`, not yet past its `lock_release`,
and waits neither for the lock nor on a condition, owns the lock. It is stronger
than mutual exclusion in two ways that are both needed. A release passes the
lock to the head of a queue, so the processes that wait are named by what they
wait for and not by where they are. And a process of q4 at its place "signal",
where it touches no shared data, must be known to own the lock, because the call
that follows does nothing otherwise. `CondsExist` says that q4 has its two
conditions.

`MakeprocsReturnsLast` is for all four programs. `ReturnInv` has two counts:
`SignalsCounted` relates the count of `s_procs_completed`, or the place of
`makeprocs` in its queue, to the number of children that are done, and
`RoundsCounted` relates the counter of each child to its place in its loop. The
first is what a signal too many, or one given too early, would break; the second
says that a child that is done did all its rounds. It uses that `makeprocs` is
none of its children.

**What is in the buffer.** `ContentsProofs` is about the same programs and the
same constants; its invariant `ContentsInv` adds to the two above what is known
of the shared page, and is as follows.

- `PageOK`: the characters inserted and not taken lie one behind the other, from
  `r_idx` to `w_idx` around the ring, and are no more than there is room for. The
  number that is in the buffer is counted from what the processes have done, not
  from the indices, so this is where full and empty are told apart.
- `TestsInv`: what a process has found out and still needs (`KnowsAt`), place by
  place: that there is room, that the slot holds its character, that the
  character it expects is at the head. It is known of whoever owns the lock, or
  is at a place where nothing need be known; `LockWaiters` and `CondWaiters` say
  where the processes wait. In q4 a process gets the lock together with the truth
  of its condition: the signaler knows it (`KnowsAt(p, "signal")`), and Hoare's
  hand-off lets nobody in between. A process that joins the lock's queue in a
  signal, or in its loop, is at a place of `Unsure`, where it tests again or only
  releases the lock.
- In q3 the semaphores take the place of the tests, and two processes may hold
  units at once. `SlotsCounted` counts: the units of `s_emptyslots`, with those
  that producers have taken and consumers have not given back yet, and the
  characters in the buffer are `BUFFER_SIZE`; likewise for `s_fullslots`. A
  process woken by a signal has its unit at once, so the units are those of
  processes past their wait that are in no queue (`Units`). That a producer at
  "insert" has room then follows from its own unit (`SlotsEnoughLemma`). This is
  what allows q3 to use all the slots.
- `BufferInv` is about the bounded buffer alone. Each character was taken, or is
  in the buffer, as often as it was inserted (`BalancedIn`), and however much of
  the buffer is taken from its front, no character will have been taken more
  often than the one before it (`InTurnIn`). The second gives `HeadIsExpected`:
  if k is the head, then more consumers are past k - 1 than past k, and one of
  those expects k. That it holds for every prefix of the buffer is what makes it
  inductive: taking a character is going on to a longer prefix. For k = 0 it
  needs as many consumers as producers, which is part of `BufferAssumption`;
  `makeprocs` creates so many of each.

There is one lemma for each operation on the buffer, which shows that the
invariant is kept and the step is one of `BoundedBuffer` or a stutter (`Good`),
and one for each kind of call on the lock, the semaphores and the conditions. The
counts are cardinalities, and the lemmas on them say what one more character, or
one process at another place, does to a count.

`AtomsAreConserved` is for q5. Its invariant `ReactionsInv` is `ReturnInv` and
`ReactionsKnown`: a reaction is in the queue of a molecule only when its last
call was the wait for that molecule, and at most once (`MoleculesOK`), and the
atoms in the free molecules and in those that reactions hold are those injected.
The first part is needed because a signal to a queue leaves the count as it is:
the molecule changes hands, and it must be the one that the woken reaction then
holds. Each call moves one molecule between the free ones and those held
(`TakesLemma`, `MakesLemma`, `ReactionMovesLemma`), so nothing changes within a
round; at its end what the reaction took is gone and what it made is free, and
`BalanceLemma` computes from the scripts of the three reactions that both have
the same atoms. It holds also when the string of R3 has overwritten the count
for the N3 injector, and when a reaction waits for ever.

**Induction.** Loops are recursive functions in these modules, and the induction
theorems of the library take an operator as a parameter, which the provers
cannot instantiate. `QueueProofs` therefore states induction over an interval
for a set (`IntervalInduction`), and that a function given step by step exists
(`Iteration`); where a loop is proved about, the set of places at which the
claim holds is named and shown to be everything.

**Only model-checked.** Every invariant and action property of the passing runs,
and every refinement, is a theorem. The four liveness properties are not
(`RoundRobin`, `ReleasesServeSleepers`, `SignalsServeSleepers` and
`MakeprocsReturns`): fairness and ENABLED are out of this prover's reach. The
invariants they rest on are proved: `HeadIsExpected` and `TestStillHolds` are why
the buffers do not get stuck, `ReturnsLast` why `makeprocs` is not early. The
violated properties of section 5 are false, and are checked to be.

## 7. What is not modelled

Of what is modelled:

- the printf and file traps, which only set a result, some of them with interrupts
  enabled; the keyboard; the fatal system interrupts;
- register frames, and the stack frame with the arguments of a new process:
  `get_argument` copies at most 99 characters of an argument, the whole frame
  has the space of 1024 bytes, and the parsing of the command line is formatting;
- the sleep trap, which exists for the kernel's own use: user programs have no
  library call for it; `LockTransfer`, `MemoryGetOperandAddress` and `FsDelete`,
  which have no caller;
- `FsWrite`, of which the only use is the file `vm`, and the position in a file
  that is written; a mode without read or write, which no caller passes; a line
  of a program file that is longer than a chunk, with which
  `ProcessGetFromFile` would search for a newline in front of its buffer, and one
  that places no byte: a chunk of such lines returns 0, which its callers take
  for the end of the file;
- the exit of the kernel in `MemoryFreeSharedPte` on page 0, since no entry below
  `npages` is 0 (`TablesInv`), and the flag bits of page table entries.

Not at all: `os/misc.c` (conversions and string copies; formatting only),
`os/sysproc.c` (its forks are commented out), the assembly (the models take from
it that handlers run with interrupts disabled and that a process that slept in
a handler continues there), and `apps/example`, whose handshake is the one of
`UserPrograms`.

What is left to prove: the liveness properties, with a prover that has rules for
fairness and ENABLED.
