---------------------------- MODULE SharedPages -----------------------------
(***************************************************************************)
(* The pages of processes: the page tables in the PCBs (os/process.c), the *)
(* slots of shared pages (lib/share_memory.o) and the copies between user  *)
(* and kernel memory (os/memory.c).  Every action is one trap: it runs     *)
(* with interrupts disabled, on behalf of any process.                     *)
(***************************************************************************)
EXTENDS Memory, Sequences

CONSTANTS Process,                  \* the PCBs
          PROCESS_MAX_PAGES,        \* 16
          MEMORY_MAX_SHARED_PAGES,  \* 32
          PAGE_SIZE,                \* bytes in a page, for the copies
          MAPS_FIRST                \* programs map their page before they fork

ASSUME PagesAssumption ==
  /\ PROCESS_MAX_PAGES \in Nat \ {0} /\ MEMORY_MAX_SHARED_PAGES \in Nat
  /\ PAGE_SIZE \in Nat \ {0} /\ MAPS_FIRST \in BOOLEAN
  /\ maxpage >= pagestart + 2  \* main() finds pages for the first program

VARIABLES mem,      \* the page allocator
          spages,   \* the slots: a page, 0 if unused, and its processes
          pcb,      \* pagetable, npages and sysStackArea in each PCB
          live,     \* the PCBs that are not free
          program,  \* what each program does with a page it creates
          stopped   \* "no", or why the kernel called exitsim()

vars == <<mem, spages, pcb, live, program, stopped>>

Slot == 0 .. MEMORY_MAX_SHARED_PAGES - 1
Index == 0 .. PROCESS_MAX_PAGES - 1

\* handle: the page it creates or is told of in its arguments, 0 if none.
\* creator: it made that page.  attached: it has called shmat for it.
Programs == [handle : Page, creator : BOOLEAN, attached : BOOLEAN]
NewProgram(h) == [handle |-> h, creator |-> FALSE, attached |-> FALSE]

\* The search of every operation on slots: the first one with this page, or
\* MEMORY_MAX_SHARED_PAGES.
SlotOf(sp, page) ==
  LET found == {s \in Slot : sp[s].page = page}
  IN  IF found = {} THEN MEMORY_MAX_SHARED_PAGES
      ELSE CHOOSE s \in found : \A t \in found : s <= t

InTable(p, page) == \E i \in 0 .. pcb[p].npages - 1 : pcb[p].pagetable[i] = page

-----------------------------------------------------------------------------
(***************************************************************************)
(* The end of a process.  A cleanup is what is left to free: the memory,   *)
(* the slots, and how many entries the page table still has.               *)
(***************************************************************************)

\* Faulty: entries of shared pages are counted as the process's own.
FreeSharedUncounted(c, p, page) ==
  LET slot == SlotOf(c.spages, page)
      others == c.spages[slot].users \ {p}
  IN  IF slot = MEMORY_MAX_SHARED_PAGES THEN c
      ELSE [c EXCEPT !.mem = IF others = {} THEN MemoryFreePage(@, page) ELSE @,
                     !.spages[slot].users = others]

\* Faulty: the page goes back although others map it.
FreeSharedAtOnce(c, p, page) ==
  LET slot == SlotOf(c.spages, page)
  IN  IF slot = MEMORY_MAX_SHARED_PAGES THEN c
      ELSE [mem |-> MemoryFreePage(c.mem, page),
            spages |-> [c.spages EXCEPT ![slot].users = @ \ {p}],
            npages |-> c.npages - 1]

\* Faulty: the users are counted before this one is taken off.
FreeSharedTooLate(c, p, page) ==
  LET slot == SlotOf(c.spages, page)
  IN  IF slot = MEMORY_MAX_SHARED_PAGES THEN c
      ELSE [mem |-> IF c.spages[slot].users = {} THEN MemoryFreePage(c.mem, page)
                    ELSE c.mem,
            spages |-> [c.spages EXCEPT ![slot].users = @ \ {p}],
            npages |-> c.npages - 1]

\* The slot's page number stays when its last process has gone.  The exit of
\* the kernel on page 0 is left out: no entry in use is 0.
MemoryFreeSharedPte(c, p, page) ==
  LET slot == SlotOf(c.spages, page)
      others == c.spages[slot].users \ {p}
  IN  IF slot = MEMORY_MAX_SHARED_PAGES THEN c
      ELSE [mem |-> IF others = {} THEN MemoryFreePage(c.mem, page) ELSE c.mem,
            spages |-> [c.spages EXCEPT ![slot].users = others],
            npages |-> c.npages - 1]

\* ProcessFreeResources on the memory m and the slots sp: all shared entries
\* of the PCB, then as many entries as were not shared, then the stack.
ProcessFreeResources(m, sp, p, k) ==
  LET shared[i \in 0 .. k.npages] ==
        IF i = 0 THEN [mem |-> m, spages |-> sp, npages |-> k.npages]
        ELSE MemoryFreeSharedPte(shared[i - 1], p, k.pagetable[i - 1])
      c == shared[k.npages]
      own[i \in 0 .. c.npages] ==
        IF i = 0 THEN c.mem
        ELSE MemoryFreePage(own[i - 1], k.pagetable[i - 1])
  IN  [c EXCEPT !.mem = MemoryFreePage(own[c.npages], k.sysStackArea)]

-----------------------------------------------------------------------------
Running == stopped = "no"

StopFor(why) ==
  /\ stopped' = why
  /\ UNCHANGED <<spages, pcb, live, program>>

\* The page table keeps what the PCB's last process left behind entry 0.
NewPCB(p, page, stack) ==
  [pagetable |-> [pcb[p].pagetable EXCEPT ![0] = page],
   npages |-> 1,
   sysStackArea |-> stack]

(***************************************************************************)
(* ProcessFork: one page for the program and one for its system stack.     *)
(* Without a page the kernel exits; if the program's file is missing, the  *)
(* new process is freed again.                                             *)
(***************************************************************************)
ProcessFork(p, h) ==
  LET page == AllocatedPage(mem)
      m == MemoryAllocPage(mem)
      stack == AllocatedPage(m)
      m2 == MemoryAllocPage(m)
  IN  /\ p \notin live
      /\ SearchEnds(mem) /\ SearchEnds(m)
      /\ \/ /\ page = 0 \/ stack = 0
            /\ mem' = m2
            /\ StopFor("nomemory")
         \/ /\ page # 0 /\ stack # 0
            /\ mem' = m2
            /\ pcb' = [pcb EXCEPT ![p] = NewPCB(p, page, stack)]
            /\ live' = live \union {p}
            /\ program' = [program EXCEPT ![p] = NewProgram(h)]
            /\ UNCHANGED <<spages, stopped>>
         \/ /\ page # 0 /\ stack # 0
            /\ LET new == NewPCB(p, page, stack)
                   c == ProcessFreeResources(m2, spages, p, new)
               IN  /\ mem' = c.mem
                   /\ spages' = c.spages
                   /\ pcb' = [pcb EXCEPT ![p] = [new EXCEPT !.npages = c.npages]]
            /\ UNCHANGED <<live, program, stopped>>

\* The process_create trap.  A program that made a page names it to those it
\* creates, and has attached it before if programs do so first.
ProcessCreate ==
  /\ Running
  /\ \E q \in live, p \in Process :
       LET made == program[q].creator
       IN  /\ made /\ MAPS_FIRST => program[q].attached
           /\ ProcessFork(p, IF made THEN program[q].handle ELSE 0)

\* The exit trap.  A program that made a page waits for the processes it
\* told of it.  When no other process is left, the kernel exits instead.
Exit ==
  /\ Running
  /\ \E p \in live :
       /\ program[p].creator =>
            \A q \in live \ {p} :
              program[q].handle = program[p].handle => program[q].attached
       /\ IF live = {p}
          THEN /\ StopFor("idle")
               /\ UNCHANGED mem
          ELSE LET c == ProcessFreeResources(mem, spages, p, pcb[p])
               IN  /\ mem' = c.mem
                   /\ spages' = c.spages
                   /\ pcb' = [pcb EXCEPT ![p].npages = c.npages]
                   /\ live' = live \ {p}
                   /\ UNCHANGED <<program, stopped>>

-----------------------------------------------------------------------------
(* The traps shmget and shmat; one that returns 0 changes nothing *)

\* The entry behind the last one becomes page.
WithEntry(p, page) ==
  [pcb EXCEPT ![p].pagetable[pcb[p].npages] = page,
              ![p].npages = @ + 1]

MemoryCreateSharedPage(p) ==
  LET slot == SlotOf(spages, 0)
      page == AllocatedPage(mem)
  IN  /\ pcb[p].npages # PROCESS_MAX_PAGES
      /\ slot # MEMORY_MAX_SHARED_PAGES
      /\ SearchEnds(mem)
      /\ mem' = MemoryAllocPage(mem)
      /\ \/ page = 0 /\ StopFor("nomemory")
         \/ /\ page # 0
            /\ spages' = [spages EXCEPT ![slot] = [page |-> page, users |-> {p}]]
            /\ pcb' = WithEntry(p, page)
            /\ program' = [program EXCEPT ![p] =
                 IF @.handle = 0 THEN [@ EXCEPT !.handle = page, !.creator = TRUE]
                 ELSE @]
            /\ UNCHANGED <<live, stopped>>

\* A page the process has already is only recorded again.
mmap(p, page) ==
  LET slot == SlotOf(spages, page)
  IN  /\ page # 0 /\ slot # MEMORY_MAX_SHARED_PAGES
      /\ InTable(p, page) \/ pcb[p].npages < PROCESS_MAX_PAGES
      /\ pcb' = IF InTable(p, page) THEN pcb ELSE WithEntry(p, page)
      /\ spages' = [spages EXCEPT ![slot].users = @ \union {p}]

ShareCreatePage == Running /\ \E p \in live : MemoryCreateSharedPage(p)

ShareMapPage ==
  /\ Running
  /\ \E p \in live :
       /\ mmap(p, program[p].handle)
       /\ program' = [program EXCEPT ![p].attached = TRUE]
       /\ UNCHANGED <<mem, live, stopped>>

-----------------------------------------------------------------------------
(***************************************************************************)
(* moveBetweenSpaces copies n bytes at user address u page by page.  A     *)
(* chunk is a part of the copy: where it is for the user, where it is in   *)
(* memory, and its length.                                                 *)
(***************************************************************************)

\* Where the page of entry i begins.  Behind a full page table is the field
\* npages of the PCB; 16 read as an entry has no flags and is an address.
PageBase(p, i) ==
  IF i = PROCESS_MAX_PAGES THEN pcb[p].npages ELSE pcb[p].pagetable[i] * PAGE_SIZE

MemoryTranslateUserToSystem(p, addr) ==
  LET page == addr \div PAGE_SIZE
  IN  IF page > pcb[p].npages THEN 0
      ELSE PageBase(p, page) + (addr % PAGE_SIZE)

\* Faulty: a chunk is a whole page wherever it begins.
WholePage(sys, n) == IF PAGE_SIZE > n THEN n ELSE PAGE_SIZE

BytesToCopy(sys, n) ==
  LET rest == PAGE_SIZE - (sys % PAGE_SIZE)
  IN  IF rest > n THEN n ELSE rest

moveBetweenSpaces(p, from, count) ==
  LET chunks[left \in 0 .. count] ==
        LET u == from + (count - left)
            sys == MemoryTranslateUserToSystem(p, u)
            len == BytesToCopy(sys, left)
        IN  IF left = 0 \/ sys = 0 THEN <<>>
            ELSE <<[user |-> u, system |-> sys, length |-> len]>> \o chunks[left - len]
  IN  chunks[count]

\* The bytes of a copy: pairs of a user address and a memory address.
BytesCopied(p, u, n) ==
  LET chunks == moveBetweenSpaces(p, u, n)
  IN  UNION {{<<chunks[i].user + k, chunks[i].system + k>> :
                k \in 0 .. chunks[i].length - 1} : i \in DOMAIN chunks}

-----------------------------------------------------------------------------
\* main() forks the user program first.
Init ==
  \E p \in Process :
    LET m == MemoryAllocPage(MemoryModuleInit)
    IN  /\ mem = MemoryAllocPage(m)
        /\ spages = [s \in Slot |-> [page |-> 0, users |-> {}]]
        /\ pcb = [q \in Process |->
             [pagetable |-> [i \in Index |-> IF q = p /\ i = 0
                                             THEN AllocatedPage(MemoryModuleInit)
                                             ELSE 0],
              npages |-> IF q = p THEN 1 ELSE 0,
              sysStackArea |-> IF q = p THEN AllocatedPage(m) ELSE 0]]
        /\ live = {p}
        /\ program = [q \in Process |-> NewProgram(0)]
        /\ stopped = "no"

Stopped == ~ Running /\ UNCHANGED vars

Next == ProcessCreate \/ Exit \/ ShareCreatePage \/ ShareMapPage \/ Stopped

Spec == Init /\ [][Next]_vars

-----------------------------------------------------------------------------
(* Properties *)

TypeOK ==
  /\ mem \in Memories
  /\ spages \in [Slot -> [page : Page, users : SUBSET Process]]
  /\ pcb \in [Process -> [pagetable : [Index -> Page],
                          npages : 0 .. PROCESS_MAX_PAGES,
                          sysStackArea : Page]]
  /\ live \subseteq Process
  /\ program \in [Process -> Programs]
  /\ stopped \in {"no", "idle", "nomemory"}

Private(p) == {pcb[p].pagetable[0], pcb[p].sysStackArea}
Held(p) == {pcb[p].sysStackArea} \union
           {pcb[p].pagetable[i] : i \in 0 .. pcb[p].npages - 1}

\* The count of free pages agrees with the bitmap: a page is freed once, by
\* whichever of the three ways a process's pages are given back.  Otherwise
\* MemoryAllocPage finds its bitmap empty and searches for ever.
MemoryAgrees == Running => CountAgrees(mem)

\* The page of a program and its system stack belong to one process.
PrivatePagesAreOwned ==
  Running =>
    \A p \in live :
      /\ pcb[p].pagetable[0] # pcb[p].sysStackArea
      /\ \A q \in live \ {p} : Private(p) \intersect Held(q) = {}

\* No page that a process has, mapped or as its stack, is free: a shared
\* page stays until all processes that have it in their tables are gone.
\* Slots of freed pages keep their number and are found again by searches.
HeldPagesAreNotFree ==
  Running => \A p \in live : \A page \in Held(p) : ~ IsFree(mem, page)

\* No page is lost: it is free or some process has it, whatever order the
\* sharers end in, and also after a program file was missing.
NoPageLost ==
  Running =>
    \A page \in UserPage :
      IsFree(mem, page) \/ \E p \in live : page \in Held(p)

\* A copy between user and kernel memory whose user range is in pages of the
\* process moves every byte, each to its place in the right page.
CopyIsComplete ==
  \A p \in live : \A u \in 0 .. pcb[p].npages * PAGE_SIZE - 1 :
    \A n \in 0 .. pcb[p].npages * PAGE_SIZE - u :
      BytesCopied(p, u, n) =
        {<<a, pcb[p].pagetable[a \div PAGE_SIZE] * PAGE_SIZE + (a % PAGE_SIZE)>> :
           a \in u .. u + n - 1}

\* The bytes of all pages that the translation admits.
MaxCopy == (PROCESS_MAX_PAGES + 1) * PAGE_SIZE

\* What the comment on moveBetweenSpaces says: a copy stops at the first
\* user address that is not mapped.
CopyStopsAtUnmapped ==
  \A p \in live : \A u \in 0 .. pcb[p].npages * PAGE_SIZE - 1 :
    \A n \in 0 .. MaxCopy - u :
      \A b \in BytesCopied(p, u, n) : b[1] < pcb[p].npages * PAGE_SIZE

=============================================================================
