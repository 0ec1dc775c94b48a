------------------------------- MODULE Memory -------------------------------
(***************************************************************************)
(* The page allocator of os/memory.c: a bitmap of free pages, the number   *)
(* of free pages, and the word of the bitmap where the next search starts. *)
(* The three are one record, since a handler allocates and frees several   *)
(* pages in one step.  A word is the set of its bits that are 1.           *)
(***************************************************************************)
EXTENDS Integers, FiniteSets

CONSTANTS WORD_BITS,    \* 32
          pagestart,    \* the first page behind the kernel
          maxpage       \* the memory's size in pages

ASSUME MemoryAssumption ==
  /\ WORD_BITS \in Nat \ {0} /\ pagestart \in Nat \ {0} /\ maxpage \in Nat
  /\ pagestart <= maxpage

freemapmax == (maxpage + WORD_BITS - 1) \div WORD_BITS
Word == 0 .. freemapmax - 1
Bit == 0 .. WORD_BITS - 1
Page == 0 .. maxpage - 1
UserPage == pagestart .. maxpage - 1

Memories == [freepages : [Word -> SUBSET Bit], nfreepages : Int, mapnum : Word]

WordOf(page) == page \div WORD_BITS
BitOf(page) == page % WORD_BITS

IsFree(m, page) == BitOf(page) \in m.freepages[WordOf(page)]

\* Faulty: the loop goes one page too far.
InitOnePageMore ==
  [freepages |-> [w \in Word |-> {b \in Bit : w * WORD_BITS + b \in pagestart .. maxpage}],
   nfreepages |-> maxpage - pagestart + 1,
   mapnum |-> 0]

MemoryModuleInit ==
  [freepages |-> [w \in Word |-> {b \in Bit : w * WORD_BITS + b \in UserPage}],
   nfreepages |-> maxpage - pagestart,
   mapnum |-> 0]

-----------------------------------------------------------------------------
(***************************************************************************)
(* MemoryAllocPage: the page it returns, 0 if none is free, and the memory *)
(* it leaves.  Its search for a word that is not 0 ends only if there is   *)
(* one, which the code infers from nfreepages.                             *)
(***************************************************************************)
SearchEnds(m) == m.nfreepages = 0 \/ \E w \in Word : m.freepages[w] # {}

FoundWord(m) ==
  LET at(d) == (m.mapnum + d) % freemapmax
  IN  at(CHOOSE d \in Word : /\ m.freepages[at(d)] # {}
                             /\ \A e \in 0 .. d - 1 : m.freepages[at(e)] = {})

FoundBit(m) ==
  CHOOSE b \in m.freepages[FoundWord(m)] :
    \A c \in m.freepages[FoundWord(m)] : b <= c

AllocatedPage(m) ==
  IF m.nfreepages = 0 THEN 0 ELSE FoundWord(m) * WORD_BITS + FoundBit(m)

\* Faulty: the bit of the page stays set.
AllocWithoutClearing(m) ==
  IF m.nfreepages = 0 THEN m
  ELSE [m EXCEPT !.nfreepages = @ - 1, !.mapnum = FoundWord(m)]

MemoryAllocPage(m) ==
  IF m.nfreepages = 0 THEN m
  ELSE [freepages |-> [m.freepages EXCEPT ![FoundWord(m)] = @ \ {FoundBit(m)}],
        nfreepages |-> m.nfreepages - 1,
        mapnum |-> FoundWord(m)]

MemoryFreePage(m, page) ==
  [freepages |-> [m.freepages EXCEPT ![WordOf(page)] = @ \union {BitOf(page)}],
   nfreepages |-> m.nfreepages + 1,
   mapnum |-> m.mapnum]

-----------------------------------------------------------------------------
FreePages(m) == {page \in Page : IsFree(m, page)}

\* The number of free pages and the bitmap agree, and no page of the kernel
\* or behind the end of the memory is free.
CountAgrees(m) ==
  /\ \A w \in Word : \A b \in m.freepages[w] : w * WORD_BITS + b \in UserPage
  /\ m.nfreepages = Cardinality(FreePages(m))

=============================================================================
