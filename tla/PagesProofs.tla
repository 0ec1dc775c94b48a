---------------------------- MODULE PagesProofs -----------------------------
(***************************************************************************)
(* The pages of processes, for any size of the memory and of a page and    *)
(* any number of processes.  When programs map their page before they      *)
(* fork, no page that a process has is free, none is lost and none has two *)
(* owners.  Whatever programs do, a copy moves each byte to its place.     *)
(***************************************************************************)
EXTENDS SharedPages, QueueProofs, FiniteSetTheorems

-----------------------------------------------------------------------------
(* The bitmap *)

\* A page is at one bit of one word of the bitmap.
LEMMA PlaceLemma ==
  ASSUME NEW page \in Page
  PROVE  /\ WordOf(page) \in Word /\ BitOf(page) \in Bit
         /\ page = WordOf(page) * WORD_BITS + BitOf(page)
<1>1. page \in Nat /\ maxpage \in Nat /\ page \in 0 .. maxpage - 1 /\ WORD_BITS \in Nat \ {0}
  BY MemoryAssumption DEF Page
<1>2. /\ page \div WORD_BITS \in Nat /\ page % WORD_BITS \in 0 .. WORD_BITS - 1
      /\ page = (page \div WORD_BITS) * WORD_BITS + (page % WORD_BITS)
  BY <1>1
<1>3. page \div WORD_BITS \in 0 .. ((maxpage + WORD_BITS - 1) \div WORD_BITS) - 1
  BY <1>1
<1> QED
  BY <1>2, <1>3 DEF WordOf, BitOf, Word, Bit, freemapmax

\* Two bits are not of one page.
LEMMA BitLemma ==
  ASSUME NEW w \in Word, NEW b \in Bit
  PROVE  WordOf(w * WORD_BITS + b) = w /\ BitOf(w * WORD_BITS + b) = b
<1>1. WORD_BITS \in Nat \ {0} /\ w \in Nat /\ b \in 0 .. WORD_BITS - 1
  BY MemoryAssumption DEF Word, Bit
<1>2. (w * WORD_BITS + b) \div WORD_BITS = w /\ (w * WORD_BITS + b) % WORD_BITS = b
  BY <1>1
<1> QED
  BY <1>2 DEF WordOf, BitOf

\* User pages are pages, none of them page 0.
LEMMA UserPageLemma ==
  /\ UserPage \subseteq Page /\ 0 \notin UserPage /\ Page \subseteq Nat
  /\ IsFiniteSet(Page) /\ 0 \in Page
BY MemoryAssumption, PagesAssumption, FS_Interval DEF UserPage, Page

\* What the free pages of a memory are whose count agrees with its bitmap.
LEMMA FreePagesLemma ==
  ASSUME NEW m \in Memories, CountAgrees(m)
  PROVE  /\ FreePages(m) \subseteq UserPage
         /\ IsFiniteSet(FreePages(m))
         /\ m.nfreepages \in Nat
         /\ m.nfreepages = 0 <=> FreePages(m) = {}
         /\ \A w \in Word : m.freepages[w] \subseteq Bit
         /\ \A w \in Word : \A b \in m.freepages[w] : w * WORD_BITS + b \in FreePages(m)
<1>1. \A w \in Word : m.freepages[w] \subseteq Bit
  BY DEF Memories
<1>2. ASSUME NEW page \in FreePages(m)
      PROVE  page \in UserPage
  <2>1. page \in Page /\ BitOf(page) \in m.freepages[WordOf(page)]
    BY DEF FreePages, IsFree
  <2> QED
    BY <2>1, PlaceLemma DEF CountAgrees
<1>3. FreePages(m) \in SUBSET Page
  BY DEF FreePages
<1>4. IsFiniteSet(FreePages(m)) /\ Cardinality(FreePages(m)) \in Nat
  BY <1>3, UserPageLemma, FS_Subset, FS_CardinalityType
<1>5. m.nfreepages = Cardinality(FreePages(m))
  BY DEF CountAgrees
<1>6. Cardinality(FreePages(m)) = 0 <=> FreePages(m) = {}
  BY <1>4, FS_EmptySet
<1>7. ASSUME NEW w \in Word, NEW b \in m.freepages[w]
      PROVE  w * WORD_BITS + b \in FreePages(m)
  <2>1. w * WORD_BITS + b \in UserPage
    BY DEF CountAgrees
  <2>2. WordOf(w * WORD_BITS + b) = w /\ BitOf(w * WORD_BITS + b) = b
    BY <1>1, BitLemma
  <2> QED
    BY <2>1, <2>2, UserPageLemma DEF FreePages, IsFree
<1> QED
  BY <1>1, <1>2, <1>4, <1>5, <1>6, <1>7

\* The search of MemoryAllocPage finds a page, if one is free.
LEMMA SearchLemma ==
  ASSUME NEW m \in Memories, \E w \in Word : m.freepages[w] # {}
  PROVE  /\ FoundWord(m) \in Word /\ FoundBit(m) \in m.freepages[FoundWord(m)]
<1> DEFINE at(d) == (m.mapnum + d) % freemapmax
           D == {d \in Word : m.freepages[at(d)] # {}}
<1>2. PICK w \in Word : m.freepages[w] # {}
  OBVIOUS
<1>3. m.mapnum \in Word /\ freemapmax \in Nat \ {0} /\ Word = 0 .. freemapmax - 1
  BY <1>2, MemoryAssumption DEF Memories, Word, freemapmax
<1>4. D # {}
  <2>1. PICK f \in Nat, k \in Nat : f = freemapmax /\ k = m.mapnum
    BY <1>3
  <2>2. f > 0 /\ k \in 0 .. f - 1 /\ w \in 0 .. f - 1
    BY <1>3, <2>1
  <2>3. \E d \in 0 .. f - 1 : (k + d) % f = w
    <3>1. CASE w >= k
      <4>1. w - k \in 0 .. f - 1 /\ (k + (w - k)) % f = w
        BY <2>2, <3>1
      <4> QED
        BY <4>1
    <3>2. CASE w < k
      <4>1. w - k + f \in 0 .. f - 1 /\ k + (w - k + f) = w + f /\ (w + f) % f = w
        BY <2>2, <3>2
      <4> QED
        BY <4>1
    <3> QED
      BY <2>2, <3>1, <3>2
  <2> QED
    BY <1>2, <1>3, <2>1, <2>3
<1>5. D \subseteq Nat
  BY <1>3
<1> HIDE DEF D
<1>6. PICK d \in D : \A e \in D : d <= e
  BY <1>4, <1>5, LeastNatural
<1>7. \E c \in Word : /\ m.freepages[at(c)] # {}
                      /\ \A e \in 0 .. c - 1 : m.freepages[at(e)] = {}
  <2>1. d \in Word /\ m.freepages[at(d)] # {}
    BY DEF D
  <2>2. ASSUME NEW e \in 0 .. d - 1, m.freepages[at(e)] # {}
        PROVE  FALSE
    <3>1. e \in Word /\ e < d
      BY <1>3, <2>1
    <3>2. e \in D
      BY <2>2, <3>1 DEF D
    <3> QED
      BY <1>3, <1>6, <2>1, <3>1, <3>2
  <2> QED
    BY <2>1, <2>2
<1>8. /\ FoundWord(m) = at(CHOOSE c \in Word : /\ m.freepages[at(c)] # {}
                                               /\ \A e \in 0 .. c - 1 : m.freepages[at(e)] = {})
  BY DEF FoundWord
<1>9. PICK c \in Word : FoundWord(m) = at(c) /\ m.freepages[at(c)] # {}
  BY <1>7, <1>8
<1>10. FoundWord(m) \in Word /\ m.freepages[FoundWord(m)] # {}
  BY <1>3, <1>9
<1>11. m.freepages[FoundWord(m)] \subseteq Nat
  BY <1>10 DEF Memories, Bit
<1>12. \E b \in m.freepages[FoundWord(m)] : \A x \in m.freepages[FoundWord(m)] : b <= x
  BY <1>10, <1>11, LeastNatural
<1> QED
  BY <1>10, <1>12 DEF FoundBit

\* A bitmap without bits behind the last page.
BitsArePages(m) == \A w \in Word : \A b \in m.freepages[w] : w * WORD_BITS + b \in Page

\* A memory whose count agrees with its bitmap.
Sound(m) == m \in Memories /\ CountAgrees(m)

\* Setting the bit of one page frees that page.
LEMMA SetBitLemma ==
  ASSUME NEW m \in Memories, NEW n \in Memories, NEW page \in Page,
         n.freepages = [m.freepages EXCEPT ![WordOf(page)] = @ \union {BitOf(page)}]
  PROVE  FreePages(n) = FreePages(m) \union {page}
<1>1. WordOf(page) \in Word /\ BitOf(page) \in Bit
  BY PlaceLemma
<1>2. \A x \in Page : /\ WordOf(x) \in Word
                      /\ WordOf(x) = WordOf(page) /\ BitOf(x) = BitOf(page) => x = page
  BY PlaceLemma
<1>3. \A w \in Word : n.freepages[w] =
        IF w = WordOf(page) THEN m.freepages[w] \union {BitOf(page)} ELSE m.freepages[w]
  BY <1>1 DEF Memories
<1>4. \A x \in Page : IsFree(n, x) <=> IsFree(m, x) \/ x = page
  BY <1>1, <1>2, <1>3 DEF IsFree
<1> QED
  BY <1>4 DEF FreePages

\* Clearing the bit of one page takes that page.
LEMMA ClearBitLemma ==
  ASSUME NEW m \in Memories, NEW n \in Memories, NEW page \in Page,
         n.freepages = [m.freepages EXCEPT ![WordOf(page)] = @ \ {BitOf(page)}]
  PROVE  FreePages(n) = FreePages(m) \ {page}
<1>1. WordOf(page) \in Word /\ BitOf(page) \in Bit
  BY PlaceLemma
<1>2. \A x \in Page : /\ WordOf(x) \in Word
                      /\ WordOf(x) = WordOf(page) /\ BitOf(x) = BitOf(page) => x = page
  BY PlaceLemma
<1>3. \A w \in Word : n.freepages[w] =
        IF w = WordOf(page) THEN m.freepages[w] \ {BitOf(page)} ELSE m.freepages[w]
  BY <1>1 DEF Memories
<1>4. \A x \in Page : IsFree(n, x) <=> IsFree(m, x) /\ x # page
  BY <1>1, <1>2, <1>3 DEF IsFree
<1> QED
  BY <1>4 DEF FreePages

\* MemoryAllocPage returns a free page, which is free no longer, or 0 if there is none.
LEMMA AllocLemma ==
  ASSUME NEW m, Sound(m)
  PROVE  /\ Sound(MemoryAllocPage(m))
         /\ AllocatedPage(m) = 0 <=> FreePages(m) = {}
         /\ AllocatedPage(m) # 0 => AllocatedPage(m) \in FreePages(m)
         /\ FreePages(MemoryAllocPage(m)) = FreePages(m) \ {AllocatedPage(m)}
<1>1. m \in Memories /\ CountAgrees(m)
  BY DEF Sound
<1>2. /\ FreePages(m) \subseteq UserPage /\ IsFiniteSet(FreePages(m))
      /\ m.nfreepages \in Nat /\ (m.nfreepages = 0 <=> FreePages(m) = {})
      /\ 0 \notin UserPage
  BY <1>1, FreePagesLemma, UserPageLemma
<1>3. CASE m.nfreepages = 0
  <2>1. AllocatedPage(m) = 0 /\ MemoryAllocPage(m) = m
    BY <1>3 DEF AllocatedPage, MemoryAllocPage
  <2> QED
    BY <1>2, <1>3, <2>1
<1>4. CASE m.nfreepages # 0
  <2> DEFINE n == MemoryAllocPage(m)
             page == AllocatedPage(m)
             w == FoundWord(m)
             b == FoundBit(m)
  <2>1. w \in Word /\ b \in m.freepages[w] /\ m.freepages[w] \subseteq Bit
    <3>1. PICK x \in FreePages(m) : TRUE
      BY <1>2, <1>4
    <3>2. \E v \in Word : m.freepages[v] # {}
      BY <3>1, PlaceLemma DEF FreePages, IsFree
    <3> QED
      BY <1>1, <3>2, SearchLemma, FreePagesLemma
  <2>2. page = w * WORD_BITS + b
    BY <1>4 DEF AllocatedPage
  <2>3. page \in FreePages(m) /\ page \in Page
    BY <1>1, <1>2, <2>1, <2>2, FreePagesLemma, UserPageLemma
  <2>4. WordOf(page) = w /\ BitOf(page) = b
    BY <2>1, <2>2, BitLemma
  <2>5. n = [freepages |-> [m.freepages EXCEPT ![w] = @ \ {b}],
             nfreepages |-> m.nfreepages - 1,
             mapnum |-> w]
    BY <1>4 DEF MemoryAllocPage
  <2>6. n \in Memories
    BY <1>1, <1>2, <2>1, <2>5 DEF Memories
  <2> HIDE DEF n, page, w, b
  <2>7. FreePages(n) = FreePages(m) \ {page}
    <3>1. n.freepages = [m.freepages EXCEPT ![WordOf(page)] = @ \ {BitOf(page)}]
      BY <2>4, <2>5
    <3> QED
      BY <1>1, <2>3, <2>6, <3>1, ClearBitLemma
  <2>8. CountAgrees(n)
    <3>1. Cardinality(FreePages(n)) = Cardinality(FreePages(m)) - 1
      BY <1>2, <2>3, <2>7, FS_RemoveElement
    <3>2. n.nfreepages = Cardinality(FreePages(n))
      BY <1>1, <2>5, <3>1 DEF CountAgrees
    <3>3. \A v \in Word : n.freepages[v] \subseteq m.freepages[v]
      BY <1>1, <2>5 DEF Memories
    <3> QED
      BY <1>1, <3>2, <3>3 DEF CountAgrees
  <2>9. page # 0
    BY <1>2, <2>3
  <2> QED
    BY <2>3, <2>6, <2>7, <2>8, <2>9 DEF Sound, n, page
<1> QED
  BY <1>3, <1>4

\* MemoryFreePage makes a page free, if it was not.
LEMMA FreeLemma ==
  ASSUME NEW m, Sound(m), NEW page \in UserPage, page \notin FreePages(m)
  PROVE  /\ Sound(MemoryFreePage(m, page))
         /\ FreePages(MemoryFreePage(m, page)) = FreePages(m) \union {page}
<1> DEFINE n == MemoryFreePage(m, page)
           w == WordOf(page)
           b == BitOf(page)
<1>1. m \in Memories /\ CountAgrees(m) /\ page \in Page
  BY UserPageLemma DEF Sound
<1>2. w \in Word /\ b \in Bit /\ page = w * WORD_BITS + b
  BY <1>1, PlaceLemma
<1>3. n = [freepages |-> [m.freepages EXCEPT ![w] = @ \union {b}],
           nfreepages |-> m.nfreepages + 1,
           mapnum |-> m.mapnum]
  BY DEF MemoryFreePage
<1>4. n \in Memories
  BY <1>1, <1>2, <1>3 DEF Memories
<1> HIDE DEF n
<1>5. FreePages(n) = FreePages(m) \union {page}
  <2>1. n.freepages = [m.freepages EXCEPT ![WordOf(page)] = @ \union {BitOf(page)}]
    BY <1>3
  <2> QED
    BY <1>1, <1>4, <2>1, SetBitLemma
<1>6. CountAgrees(n)
  <2>1. IsFiniteSet(FreePages(m))
    BY <1>1, FreePagesLemma
  <2>2. Cardinality(FreePages(n)) = Cardinality(FreePages(m)) + 1
    BY <1>5, <2>1, FS_AddElement
  <2>3. n.nfreepages = Cardinality(FreePages(n))
    BY <1>1, <1>3, <2>2 DEF CountAgrees
  <2>4. \A v \in Word : n.freepages[v] = IF v = w THEN m.freepages[v] \union {b} ELSE m.freepages[v]
    BY <1>1, <1>2, <1>3 DEF Memories
  <2> QED
    BY <1>1, <1>2, <2>3, <2>4 DEF CountAgrees
<1> QED
  BY <1>4, <1>5, <1>6 DEF Sound, n

-----------------------------------------------------------------------------
(* The slots *)

SlotsType == [Slot -> [page : Page, users : SUBSET Process]]

HasSlot(sp, page) == SlotOf(sp, page) # MEMORY_MAX_SHARED_PAGES

\* The processes in the slot that a search for the page finds.
SlotUsers(sp, page) == IF HasSlot(sp, page) THEN sp[SlotOf(sp, page)].users ELSE {}

SamePages(sp, tp) == \A s \in Slot : tp[s].page = sp[s].page

\* What a search of the slots returns.
LEMMA SlotLemma ==
  ASSUME NEW sp \in SlotsType, NEW page
  PROVE  /\ MEMORY_MAX_SHARED_PAGES \notin Slot
         /\ HasSlot(sp, page) <=> \E s \in Slot : sp[s].page = page
         /\ HasSlot(sp, page) => /\ SlotOf(sp, page) \in Slot
                                 /\ sp[SlotOf(sp, page)].page = page
                                 /\ \A t \in Slot : sp[t].page = page => SlotOf(sp, page) <= t
<1> DEFINE found == {s \in Slot : sp[s].page = page}
<1>1. MEMORY_MAX_SHARED_PAGES \in Nat /\ MEMORY_MAX_SHARED_PAGES \notin Slot /\ found \subseteq Nat
  BY PagesAssumption DEF Slot
<1>2. CASE found = {}
  BY <1>1, <1>2 DEF SlotOf, HasSlot
<1>3. CASE found # {}
  <2>1. \E s \in found : \A t \in found : s <= t
    <3> HIDE DEF found
    <3> QED
      BY <1>1, <1>3, LeastNatural
  <2>2. SlotOf(sp, page) \in found /\ \A t \in found : SlotOf(sp, page) <= t
    BY <1>3, <2>1 DEF SlotOf
  <2> QED
    BY <1>1, <2>2 DEF HasSlot
<1> QED
  BY <1>2, <1>3

\* The slot that a search returns if it found these.
SlotIn(found) ==
  IF found = {} THEN MEMORY_MAX_SHARED_PAGES
  ELSE CHOOSE s \in found : \A t \in found : s <= t

\* Searches find the same slots when only processes come or go.
LEMMA SamePagesLemma ==
  ASSUME NEW sp, NEW tp, SamePages(sp, tp), NEW page
  PROVE  SlotOf(tp, page) = SlotOf(sp, page) /\ (HasSlot(tp, page) <=> HasSlot(sp, page))
<1> DEFINE found == {s \in Slot : sp[s].page = page}
           tfound == {s \in Slot : tp[s].page = page}
<1>1. tfound = found
  BY DEF SamePages
<1>2. SlotOf(sp, page) = SlotIn(found) /\ SlotOf(tp, page) = SlotIn(tfound)
  BY DEF SlotOf, SlotIn
<1> QED
  BY <1>1, <1>2 DEF HasSlot

Cleanups == [mem : Memories, spages : SlotsType, npages : Int]

\* MemoryFreePage on any page of the memory.
LEMMA FreeTypeLemma ==
  ASSUME NEW m \in Memories, NEW page \in Page
  PROVE  /\ MemoryFreePage(m, page) \in Memories
         /\ BitsArePages(m) => BitsArePages(MemoryFreePage(m, page))
<1> DEFINE n == MemoryFreePage(m, page)
<1>1. WordOf(page) \in Word /\ BitOf(page) \in Bit
      /\ page = WordOf(page) * WORD_BITS + BitOf(page)
  BY PlaceLemma
<1>2. n \in Memories
  BY <1>1 DEF MemoryFreePage, Memories
<1>3. \A w \in Word : n.freepages[w] = IF w = WordOf(page)
                                       THEN m.freepages[w] \union {BitOf(page)}
                                       ELSE m.freepages[w]
  BY <1>1 DEF MemoryFreePage, Memories
<1> HIDE DEF n
<1>4. BitsArePages(m) => BitsArePages(n)
  BY <1>1, <1>3 DEF BitsArePages
<1> QED
  BY <1>2, <1>4 DEF n

\* MemoryAllocPage on any memory in which its search ends.
LEMMA AllocTypeLemma ==
  ASSUME NEW m \in Memories, BitsArePages(m), SearchEnds(m)
  PROVE  /\ AllocatedPage(m) \in Page
         /\ MemoryAllocPage(m) \in Memories /\ BitsArePages(MemoryAllocPage(m))
<1>1. CASE m.nfreepages = 0
  BY <1>1, UserPageLemma DEF AllocatedPage, MemoryAllocPage
<1>2. CASE m.nfreepages # 0
  <2> DEFINE n == MemoryAllocPage(m)
             w == FoundWord(m)
             b == FoundBit(m)
  <2>1. w \in Word /\ b \in m.freepages[w]
    BY <1>2, SearchLemma DEF SearchEnds
  <2>2. AllocatedPage(m) = w * WORD_BITS + b
    BY <1>2 DEF AllocatedPage
  <2>3. n = [freepages |-> [m.freepages EXCEPT ![w] = @ \ {b}],
             nfreepages |-> m.nfreepages - 1,
             mapnum |-> w]
    BY <1>2 DEF MemoryAllocPage
  <2> HIDE DEF n, w, b
  <2>4. n \in Memories /\ \A v \in Word : n.freepages[v] \subseteq m.freepages[v]
    BY <2>1, <2>3 DEF Memories
  <2>5. BitsArePages(n)
    BY <2>4 DEF BitsArePages
  <2> QED
    BY <2>1, <2>2, <2>4, <2>5 DEF n, BitsArePages
<1> QED
  BY <1>1, <1>2

WithUsers(sp, slot, u) == [sp EXCEPT ![slot].users = u]

\* The slots when those of one page have changed their processes.
LEMMA NewUsersLemma ==
  ASSUME NEW sp \in SlotsType, NEW page, HasSlot(sp, page), NEW u \in SUBSET Process,
         NEW tp, tp = WithUsers(sp, SlotOf(sp, page), u)
  PROVE  /\ tp \in SlotsType /\ SamePages(sp, tp)
         /\ \A x : SlotUsers(tp, x) = IF x = page THEN u ELSE SlotUsers(sp, x)
<1> DEFINE s == SlotOf(sp, page)
<1>1. s \in Slot /\ sp[s].page = page
  BY SlotLemma
<1>2. \A t \in Slot : sp[t] \in [page : Page, users : SUBSET Process]
  BY DEF SlotsType
<1> DEFINE r == [sp[s] EXCEPT !.users = u]
<1>3. tp = [sp EXCEPT ![s] = r]
  BY Zenon DEF WithUsers
<1>4. r = [page |-> page, users |-> u] /\ r \in [page : Page, users : SUBSET Process]
  BY <1>1, <1>2
<1> HIDE DEF r, s
<1>5. /\ tp \in SlotsType
      /\ \A t \in Slot : tp[t] = IF t = s THEN r ELSE sp[t]
  BY <1>1, <1>3, <1>4 DEF SlotsType
<1>6. SamePages(sp, tp)
  BY <1>1, <1>4, <1>5 DEF SamePages
<1>7. ASSUME NEW x
      PROVE  SlotUsers(tp, x) = IF x = page THEN u ELSE SlotUsers(sp, x)
  <2>1. SlotOf(tp, x) = SlotOf(sp, x) /\ (HasSlot(tp, x) <=> HasSlot(sp, x))
    BY <1>6, SamePagesLemma
  <2>2. CASE x = page
    BY <1>1, <1>4, <1>5, <2>1, <2>2 DEF SlotUsers, s
  <2>3. CASE x # page /\ HasSlot(sp, x)
    <3>1. SlotOf(sp, x) \in Slot /\ SlotOf(sp, x) # s
      BY <1>1, <2>3, SlotLemma
    <3>2. tp[SlotOf(sp, x)] = sp[SlotOf(sp, x)]
      BY <1>5, <3>1
    <3> QED
      BY <2>1, <2>3, <3>2 DEF SlotUsers
  <2>4. CASE x # page /\ ~HasSlot(sp, x)
    BY <2>1, <2>4 DEF SlotUsers
  <2> QED
    BY <2>2, <2>3, <2>4
<1> QED
  BY <1>5, <1>6, <1>7

\* The process is in no slot of these pages any more.
LeavesSlots(sp, tp, p, pages) ==
  \A x : SlotUsers(tp, x) =
           IF x \in pages THEN SlotUsers(sp, x) \ {p} ELSE SlotUsers(sp, x)

\* MemoryFreeSharedPte, for a page that is not free: the process leaves the
\* slot, and the page is freed if it was the last one there.
LEMMA FreeSharedLemma ==
  ASSUME NEW c \in Cleanups, NEW p \in Process, NEW page \in Page
  PROVE  LET d == MemoryFreeSharedPte(c, p, page)
             last == HasSlot(c.spages, page) /\ SlotUsers(c.spages, page) \ {p} = {}
         IN  /\ d \in Cleanups /\ SamePages(c.spages, d.spages)
             /\ LeavesSlots(c.spages, d.spages, p, {page})
             /\ d.npages = IF HasSlot(c.spages, page) THEN c.npages - 1 ELSE c.npages
             /\ BitsArePages(c.mem) => BitsArePages(d.mem)
             /\ Sound(c.mem) /\ page \in UserPage /\ page \notin FreePages(c.mem) =>
                  /\ Sound(d.mem)
                  /\ FreePages(d.mem) =
                       IF last THEN FreePages(c.mem) \union {page} ELSE FreePages(c.mem)
<1> DEFINE d == MemoryFreeSharedPte(c, p, page)
           s == SlotOf(c.spages, page)
           others == c.spages[s].users \ {p}
<1>1. c.mem \in Memories /\ c.spages \in SlotsType /\ c.npages \in Int
  BY DEF Cleanups
<1>2. CASE ~HasSlot(c.spages, page)
  <2>1. d = c
    BY <1>2 DEF MemoryFreeSharedPte, HasSlot
  <2> HIDE DEF d
  <2> QED
    BY <1>2, <2>1 DEF SamePages, SlotUsers, LeavesSlots, d
<1>3. CASE HasSlot(c.spages, page)
  <2>1. d = [mem |-> IF others = {} THEN MemoryFreePage(c.mem, page) ELSE c.mem,
             spages |-> WithUsers(c.spages, s, others),
             npages |-> c.npages - 1]
    BY <1>3, Zenon DEF MemoryFreeSharedPte, HasSlot, WithUsers
  <2>2. others \in SUBSET Process /\ others = SlotUsers(c.spages, page) \ {p}
    BY <1>1, <1>3, SlotLemma DEF SlotUsers, SlotsType
  <2>3. /\ MemoryFreePage(c.mem, page) \in Memories
        /\ BitsArePages(c.mem) => BitsArePages(MemoryFreePage(c.mem, page))
    BY <1>1, FreeTypeLemma
  <2> HIDE DEF d, others
  <2>4. /\ d.spages \in SlotsType /\ SamePages(c.spages, d.spages)
        /\ \A x : SlotUsers(d.spages, x) = IF x = page THEN others ELSE SlotUsers(c.spages, x)
    <3>1. d.spages = WithUsers(c.spages, s, others)
      BY <2>1
    <3> QED
      BY <1>1, <1>3, <2>2, <3>1, NewUsersLemma
  <2>5. d \in Cleanups
    BY <1>1, <2>1, <2>3, <2>4 DEF Cleanups
  <2>6. ASSUME Sound(c.mem), page \in UserPage, page \notin FreePages(c.mem)
        PROVE  /\ Sound(d.mem)
               /\ FreePages(d.mem) =
                    IF others = {} THEN FreePages(c.mem) \union {page} ELSE FreePages(c.mem)
    BY <2>1, <2>6, FreeLemma
  <2>7. d.npages = c.npages - 1 /\ (BitsArePages(c.mem) => BitsArePages(d.mem))
    BY <2>1, <2>3
  <2> QED
    BY <1>3, <2>2, <2>4, <2>5, <2>6, <2>7 DEF LeavesSlots, d
<1> QED
  BY <1>2, <1>3

-----------------------------------------------------------------------------
(* ProcessFreeResources *)

PCBs == [pagetable : [Index -> Page],
         npages : 0 .. PROCESS_MAX_PAGES,
         sysStackArea : Page]

Entries(k) == {k.pagetable[i] : i \in 0 .. k.npages - 1}

\* What holds of the pages of a process that ends: they are different pages,
\* none is free, and all entries but the first have a slot.
Freeable(m, sp, k) ==
  /\ Sound(m) /\ sp \in SlotsType /\ k \in PCBs /\ k.npages >= 1
  /\ \A i, j \in 0 .. k.npages - 1 : k.pagetable[i] = k.pagetable[j] => i = j
  /\ Entries(k) \union {k.sysStackArea} \subseteq UserPage \ FreePages(m)
  /\ k.sysStackArea \notin Entries(k)
  /\ \A i \in 1 .. k.npages - 1 : HasSlot(sp, k.pagetable[i])

\* What is freed and left after the first i entries were looked up.
Cleaned(m, sp, p, k, c, i) ==
  LET done == {k.pagetable[j] : j \in 0 .. i - 1}
  IN  /\ c \in Cleanups /\ Sound(c.mem) /\ SamePages(sp, c.spages)
      /\ \A x : SlotUsers(c.spages, x) =
                  IF x \in done THEN SlotUsers(sp, x) \ {p} ELSE SlotUsers(sp, x)
      /\ FreePages(c.mem) = FreePages(m) \union
           {x \in done : HasSlot(sp, x) /\ SlotUsers(sp, x) \ {p} = {}}
      /\ c.npages = IF i = 0 THEN k.npages
                    ELSE IF HasSlot(sp, k.pagetable[0]) THEN k.npages - i
                    ELSE k.npages - i + 1

\* The next entry is looked up, and its page freed if nobody else is in its slot.
LEMMA CleanupStep ==
  ASSUME NEW m, NEW sp, NEW p \in Process, NEW k, Freeable(m, sp, k),
         NEW i \in 1 .. k.npages, NEW c, Cleaned(m, sp, p, k, c, i - 1)
  PROVE  Cleaned(m, sp, p, k, MemoryFreeSharedPte(c, p, k.pagetable[i - 1]), i)
<1> DEFINE page == k.pagetable[i - 1]
           d == MemoryFreeSharedPte(c, p, page)
           before == {k.pagetable[j] : j \in 0 .. (i - 1) - 1}
           done == {k.pagetable[j] : j \in 0 .. i - 1}
           last == HasSlot(c.spages, page) /\ SlotUsers(c.spages, page) \ {p} = {}
<1>1. k.npages \in Nat /\ i - 1 \in 0 .. k.npages - 1 /\ page \in Entries(k)
  BY PagesAssumption DEF Freeable, PCBs, Entries
<1>2. page \in UserPage /\ page \in Page /\ page \notin FreePages(m)
  BY <1>1, UserPageLemma DEF Freeable
<1>3. page \notin before /\ done = before \union {page}
  <2>1. \A j \in 0 .. (i - 1) - 1 : j \in 0 .. k.npages - 1 /\ j # i - 1
    BY <1>1
  <2>2. page \notin before
    BY <1>1, <2>1 DEF Freeable
  <2>3. 0 .. i - 1 = (0 .. (i - 1) - 1) \union {i - 1}
    BY <1>1
  <2> QED
    BY <2>2, <2>3
<1>4. /\ c \in Cleanups /\ Sound(c.mem) /\ SamePages(sp, c.spages)
      /\ \A x : SlotUsers(c.spages, x) =
                  IF x \in before THEN SlotUsers(sp, x) \ {p} ELSE SlotUsers(sp, x)
      /\ FreePages(c.mem) = FreePages(m) \union
           {x \in before : HasSlot(sp, x) /\ SlotUsers(sp, x) \ {p} = {}}
      /\ c.npages = IF i - 1 = 0 THEN k.npages
                    ELSE IF HasSlot(sp, k.pagetable[0]) THEN k.npages - (i - 1)
                    ELSE k.npages - (i - 1) + 1
  BY DEF Cleaned
<1>5. page \notin FreePages(c.mem)
  BY <1>2, <1>3, <1>4
<1>6. /\ d \in Cleanups /\ SamePages(c.spages, d.spages)
      /\ LeavesSlots(c.spages, d.spages, p, {page})
      /\ d.npages = IF HasSlot(c.spages, page) THEN c.npages - 1 ELSE c.npages
      /\ Sound(d.mem)
      /\ FreePages(d.mem) = IF last THEN FreePages(c.mem) \union {page} ELSE FreePages(c.mem)
  <2>1. c \in Cleanups /\ Sound(c.mem)
    BY <1>4
  <2> HIDE DEF page
  <2> QED
    BY <1>2, <1>5, <2>1, FreeSharedLemma
<1>7. /\ HasSlot(c.spages, page) <=> HasSlot(sp, page)
      /\ SlotUsers(c.spages, page) = SlotUsers(sp, page)
  BY <1>3, <1>4, SamePagesLemma
<1>8. d.npages = IF HasSlot(sp, k.pagetable[0]) THEN k.npages - i ELSE k.npages - i + 1
  <2>1. CASE i = 1
    BY <1>1, <1>4, <1>6, <1>7, <2>1
  <2>2. CASE i # 1
    <3>1. i - 1 \in 1 .. k.npages - 1
      BY <1>1, <2>2
    <3>2. HasSlot(sp, page)
      BY <3>1 DEF Freeable
    <3> QED
      BY <1>1, <1>4, <1>6, <1>7, <3>1, <3>2
  <2> QED
    BY <2>1, <2>2
<1> HIDE DEF page, d, before, done
<1>9. SamePages(sp, d.spages)
  BY <1>4, <1>6 DEF SamePages
<1>10. \A x : SlotUsers(d.spages, x) =
                IF x \in done THEN SlotUsers(sp, x) \ {p} ELSE SlotUsers(sp, x)
  BY <1>3, <1>4, <1>6 DEF LeavesSlots
<1>11. FreePages(d.mem) = FreePages(m) \union
         {x \in done : HasSlot(sp, x) /\ SlotUsers(sp, x) \ {p} = {}}
  BY <1>3, <1>4, <1>6, <1>7
<1>12. i # 0 /\ d \in Cleanups /\ Sound(d.mem)
  BY <1>1, <1>6
<1>13. Cleaned(m, sp, p, k, d, i)
  BY <1>8, <1>9, <1>10, <1>11, <1>12 DEF Cleaned, done
<1> QED
  BY <1>13 DEF page, d

\* Before the first entry is looked up nothing is freed.
LEMMA CleanupStart ==
  ASSUME NEW m, NEW sp, NEW p \in Process, NEW k, Freeable(m, sp, k),
         NEW c, c = [mem |-> m, spages |-> sp, npages |-> k.npages]
  PROVE  Cleaned(m, sp, p, k, c, 0)
<1> DEFINE done == {k.pagetable[j] : j \in 0 .. 0 - 1}
<1>1. done = {}
  OBVIOUS
<1>2. c.mem = m /\ c.spages = sp /\ c.npages = k.npages
  OBVIOUS
<1>3. m \in Memories /\ Sound(m) /\ sp \in SlotsType /\ k.npages \in Int
  BY PagesAssumption DEF Freeable, Sound, PCBs
<1>4. c \in Cleanups /\ SamePages(sp, c.spages) /\ Sound(c.mem)
  BY <1>2, <1>3 DEF Cleanups, SamePages
<1> HIDE DEF done
<1>5. /\ \A x : SlotUsers(c.spages, x) =
                  IF x \in done THEN SlotUsers(sp, x) \ {p} ELSE SlotUsers(sp, x)
      /\ FreePages(c.mem) = FreePages(m) \union
           {x \in done : HasSlot(sp, x) /\ SlotUsers(sp, x) \ {p} = {}}
  BY <1>1, <1>2
<1> QED
  BY <1>2, <1>4, <1>5 DEF Cleaned, done

\* After the last entry: what is left to free is the first entry, if it has no slot.
LEMMA CleanupEnd ==
  ASSUME NEW m, NEW sp, NEW p \in Process, NEW k, Freeable(m, sp, k),
         NEW c, Cleaned(m, sp, p, k, c, k.npages)
  PROVE  /\ c \in Cleanups /\ SamePages(sp, c.spages)
         /\ c.npages = IF HasSlot(sp, k.pagetable[0]) THEN 0 ELSE 1
         /\ LeavesSlots(sp, c.spages, p, Entries(k))
<1>1. k.npages \in Nat /\ k.npages >= 1
  BY PagesAssumption DEF Freeable, PCBs
<1>2. {k.pagetable[j] : j \in 0 .. k.npages - 1} = Entries(k)
  BY DEF Entries
<1>3. /\ c \in Cleanups /\ SamePages(sp, c.spages)
      /\ LeavesSlots(sp, c.spages, p, Entries(k))
      /\ c.npages = IF k.npages = 0 THEN k.npages
                    ELSE IF HasSlot(sp, k.pagetable[0]) THEN k.npages - k.npages
                    ELSE k.npages - k.npages + 1
  BY <1>2 DEF Cleaned, LeavesSlots
<1> QED
  BY <1>1, <1>3

\* The two loops of ProcessFreeResources: on all entries, and on those that
\* were not shared.
FreesShared(shared, m, sp, p, k) ==
  shared = [i \in 0 .. k.npages |-> IF i = 0 THEN [mem |-> m, spages |-> sp, npages |-> k.npages]
                                    ELSE MemoryFreeSharedPte(shared[i - 1], p, k.pagetable[i - 1])]
FreesOwn(own, c, k) ==
  own = [i \in 0 .. c.npages |-> IF i = 0 THEN c.mem
                                 ELSE MemoryFreePage(own[i - 1], k.pagetable[i - 1])]

Loops(m, sp, p, k, shared, own, r) ==
  LET c == shared[k.npages]
  IN  /\ FreesShared(shared, m, sp, p, k) /\ FreesOwn(own, c, k)
      /\ c \in Cleanups /\ c.npages \in 0 .. k.npages
      /\ own[c.npages] \in Memories
      /\ BitsArePages(m) => BitsArePages(own[c.npages])
      /\ r.mem = MemoryFreePage(own[c.npages], k.sysStackArea)
      /\ r.spages = c.spages /\ r.npages = c.npages

\* Both loops end, whatever is in the page table.
LEMMA LoopsLemma ==
  ASSUME NEW m \in Memories, NEW sp \in SlotsType, NEW p \in Process, NEW k \in PCBs,
         NEW r, r = ProcessFreeResources(m, sp, p, k)
  PROVE  \E shared, own : Loops(m, sp, p, k, shared, own, r)
<1> DEFINE n == k.npages
           c0 == [mem |-> m, spages |-> sp, npages |-> k.npages]
           shared[i \in 0 .. k.npages] ==
             IF i = 0 THEN [mem |-> m, spages |-> sp, npages |-> k.npages]
             ELSE MemoryFreeSharedPte(shared[i - 1], p, k.pagetable[i - 1])
           c == shared[k.npages]
           own[i \in 0 .. c.npages] ==
             IF i = 0 THEN c.mem
             ELSE MemoryFreePage(own[i - 1], k.pagetable[i - 1])
<1>1. r = [c EXCEPT !.mem = MemoryFreePage(own[c.npages], k.sysStackArea)]
  BY DEF ProcessFreeResources
<1>2. /\ n \in Nat /\ n <= PROCESS_MAX_PAGES
      /\ \A i \in 0 .. n - 1 : k.pagetable[i] \in Page
      /\ k.sysStackArea \in Page /\ PROCESS_MAX_PAGES \in Nat
  BY PagesAssumption DEF PCBs, Index
<1>3. \E g \in [0 .. n -> Cleanups] :
        g = [i \in 0 .. n |-> IF i = 0 THEN c0
                              ELSE MemoryFreeSharedPte(g[i - 1], p, k.pagetable[i - 1])]
  <2> DEFINE F == [z \in Cleanups \X (1 .. n) |-> MemoryFreeSharedPte(z[1], p, k.pagetable[z[2] - 1])]
  <2>1. \A x \in Cleanups, i \in 1 .. n :
          F[<<x, i>>] = MemoryFreeSharedPte(x, p, k.pagetable[i - 1])
    OBVIOUS
  <2>2. ASSUME NEW x \in Cleanups, NEW i \in 1 .. n
        PROVE  F[<<x, i>>] \in Cleanups
    <3>1. k.pagetable[i - 1] \in Page
      BY <1>2
    <3> QED
      BY <2>1, <3>1, FreeSharedLemma
  <2>3. c0 \in Cleanups
    BY <1>2 DEF Cleanups
  <2> HIDE DEF F, c0
  <2>4. PICK g \in [0 .. n -> Cleanups] : Iterates(g, n, c0, F)
    BY <1>2, <2>2, <2>3, Iteration DEF Closed
  <2>5. [i \in 0 .. n |-> IF i = 0 THEN c0 ELSE F[<<g[i - 1], i>>]] =
        [i \in 0 .. n |-> IF i = 0 THEN c0
                          ELSE MemoryFreeSharedPte(g[i - 1], p, k.pagetable[i - 1])]
    BY <1>2, <2>1
  <2> QED
    BY <2>4, <2>5 DEF Iterates
<1>4. shared = [i \in 0 .. n |-> IF i = 0 THEN c0
                                 ELSE MemoryFreeSharedPte(shared[i - 1], p, k.pagetable[i - 1])]
  BY <1>3
<1> HIDE DEF shared, c, own
<1>5. FreesShared(shared, m, sp, p, k)
  BY <1>4 DEF FreesShared
<1>6. /\ c \in Cleanups /\ c.npages \in 0 .. n
      /\ BitsArePages(m) => BitsArePages(c.mem)
  <2> DEFINE Good(i) == /\ shared[i] \in Cleanups /\ shared[i].npages \in n - i .. n
                        /\ BitsArePages(m) => BitsArePages(shared[i].mem)
             A == {i \in 0 .. n : Good(i)}
  <2>1. 0 \in A
    <3>1. shared[0] = c0
      BY <1>2, <1>4
    <3>2. c0 \in Cleanups /\ c0.npages = n /\ c0.mem = m
      BY <1>2 DEF Cleanups
    <3>3. n \in n - 0 .. n /\ 0 \in 0 .. n
      BY <1>2
    <3>4. Good(0)
      <4> HIDE DEF c0, n
      <4> QED
        BY <3>1, <3>2, <3>3
    <3> HIDE DEF Good
    <3> QED
      BY <3>3, <3>4
  <2>2. ASSUME NEW i \in 1 .. n, i - 1 \in A
        PROVE  i \in A
    <3> DEFINE b == shared[i - 1]
               d == shared[i]
               page == k.pagetable[i - 1]
    <3>1. d = MemoryFreeSharedPte(b, p, page)
      BY <1>2, <1>4
    <3>2. page \in Page /\ b \in Cleanups
      BY <1>2, <2>2
    <3>3. /\ d \in Cleanups
          /\ d.npages = IF HasSlot(b.spages, page) THEN b.npages - 1 ELSE b.npages
          /\ BitsArePages(b.mem) => BitsArePages(d.mem)
      <4> HIDE DEF b, d, page
      <4> QED
        BY <3>1, <3>2, FreeSharedLemma
    <3>4. shared[i].npages \in n - i .. n
      BY <1>2, <2>2, <3>3
    <3> QED
      BY <2>2, <3>3, <3>4
  <2> HIDE DEF A
  <2>3. n \in A
    BY <1>2, <2>1, <2>2, IntervalInduction
  <2> QED
    BY <1>2, <2>3 DEF A, c
<1>7. FreesOwn(own, c, k)
  <2>1. \E g \in [0 .. c.npages -> Memories] :
          g = [i \in 0 .. c.npages |-> IF i = 0 THEN c.mem
                                       ELSE MemoryFreePage(g[i - 1], k.pagetable[i - 1])]
    <3> DEFINE l == c.npages
               F == [z \in Memories \X (1 .. l) |-> MemoryFreePage(z[1], k.pagetable[z[2] - 1])]
    <3>1. \A x \in Memories, i \in 1 .. l : F[<<x, i>>] = MemoryFreePage(x, k.pagetable[i - 1])
      OBVIOUS
    <3>2. ASSUME NEW x \in Memories, NEW i \in 1 .. l
          PROVE  F[<<x, i>>] \in Memories
      <4>1. k.pagetable[i - 1] \in Page
        BY <1>2, <1>6
      <4> QED
        BY <3>1, <4>1, FreeTypeLemma
    <3>3. c.mem \in Memories /\ l \in Nat
      BY <1>6 DEF Cleanups
    <3> HIDE DEF F
    <3>4. PICK g \in [0 .. l -> Memories] : Iterates(g, l, c.mem, F)
      BY <3>2, <3>3, Iteration DEF Closed
    <3>5. [i \in 0 .. l |-> IF i = 0 THEN c.mem ELSE F[<<g[i - 1], i>>]] =
          [i \in 0 .. l |-> IF i = 0 THEN c.mem
                            ELSE MemoryFreePage(g[i - 1], k.pagetable[i - 1])]
      BY <3>1, <3>3
    <3> QED
      BY <3>4, <3>5 DEF Iterates
  <2> QED
    BY <2>1 DEF FreesOwn, own
<1>8. /\ own[c.npages] \in Memories
      /\ BitsArePages(m) => BitsArePages(own[c.npages])
  <2> DEFINE l == c.npages
             A == {i \in 0 .. l : /\ own[i] \in Memories
                                  /\ BitsArePages(m) => BitsArePages(own[i])}
  <2>1. l \in Nat /\ c.mem \in Memories /\ l <= n
    BY <1>2, <1>6 DEF Cleanups
  <2>2. 0 \in A
    <3>1. own[0] = c.mem
      BY <1>7, <2>1 DEF FreesOwn
    <3> QED
      BY <1>6, <2>1, <3>1
  <2>3. ASSUME NEW i \in 1 .. l, i - 1 \in A
        PROVE  i \in A
    <3>1. own[i] = MemoryFreePage(own[i - 1], k.pagetable[i - 1])
      BY <1>7, <2>1 DEF FreesOwn
    <3>2. k.pagetable[i - 1] \in Page
      BY <1>2, <2>1
    <3> QED
      BY <2>3, <3>1, <3>2, FreeTypeLemma
  <2> HIDE DEF A
  <2>4. l \in A
    <3> HIDE DEF l
    <3> QED
      BY <2>1, <2>2, <2>3, IntervalInduction
  <2> QED
    BY <2>4 DEF A
<1>9. r.mem = MemoryFreePage(own[c.npages], k.sysStackArea) /\ r.spages = c.spages /\ r.npages = c.npages
  BY <1>1, <1>6 DEF Cleanups
<1> HIDE DEF n
<1>10. Loops(m, sp, p, k, shared, own, r)
  BY <1>5, <1>6, <1>7, <1>8, <1>9 DEF Loops, n, c
<1> QED
  BY <1>10

\* What ProcessFreeResources keeps the types of.
LEMMA ResourcesTypeLemma ==
  ASSUME NEW m \in Memories, NEW sp \in SlotsType, NEW p \in Process, NEW k \in PCBs,
         NEW r, r = ProcessFreeResources(m, sp, p, k), BitsArePages(m)
  PROVE  /\ r.mem \in Memories /\ BitsArePages(r.mem) /\ r.spages \in SlotsType
         /\ r.npages \in 0 .. k.npages
<1>1. PICK shared, own : Loops(m, sp, p, k, shared, own, r)
  BY LoopsLemma
<1>2. k.sysStackArea \in Page
  BY DEF PCBs
<1>3. /\ r.mem \in Memories /\ BitsArePages(r.mem)
  BY <1>1, <1>2, FreeTypeLemma DEF Loops
<1> QED
  BY <1>1, <1>3 DEF Loops, Cleanups

\* The entries of the page table that no other process is a user of.
Unshared(sp, p, k) == {x \in Entries(k) : SlotUsers(sp, x) \ {p} = {}}

\* The last step of ProcessFreeResources: the entries that were not shared,
\* none or only the first, and the stack.
LEMMA OwnLemma ==
  ASSUME NEW m, NEW sp, NEW p \in Process, NEW k, Freeable(m, sp, k),
         NEW c, Cleaned(m, sp, p, k, c, k.npages),
         NEW own, FreesOwn(own, c, k)
  PROVE  LET r == MemoryFreePage(own[c.npages], k.sysStackArea)
         IN  /\ Sound(r)
             /\ FreePages(r) = FreePages(m) \union {k.sysStackArea} \union Unshared(sp, p, k)
<1> DEFINE e == k.pagetable[0]
           stack == k.sysStackArea
           shared == {x \in Entries(k) : HasSlot(sp, x) /\ SlotUsers(sp, x) \ {p} = {}}
           gone == {x \in Entries(k) : SlotUsers(sp, x) \ {p} = {}}
<1>1. /\ k.npages \in Nat /\ k.npages >= 1 /\ e \in Entries(k) /\ Entries(k) \subseteq UserPage
      /\ Entries(k) \cap FreePages(m) = {}
      /\ stack \in UserPage /\ stack \notin FreePages(m) /\ stack \notin Entries(k)
      /\ \A i \in 1 .. k.npages - 1 : HasSlot(sp, k.pagetable[i])
  BY PagesAssumption DEF Freeable, PCBs, Entries
<1>2. /\ Sound(c.mem) /\ FreePages(c.mem) = FreePages(m) \union shared
      /\ c.npages = IF HasSlot(sp, e) THEN 0 ELSE 1
  BY <1>1 DEF Cleaned, Entries
<1>3. \A x \in Entries(k) : HasSlot(sp, x) \/ x = e
  BY <1>1 DEF Entries
<1>4. \A x : ~HasSlot(sp, x) => SlotUsers(sp, x) = {}
  BY DEF SlotUsers
<1> HIDE DEF e, stack
<1>5. /\ Sound(own[c.npages])
      /\ FreePages(own[c.npages]) = FreePages(m) \union gone
  <2>1. CASE HasSlot(sp, e)
    <3>1. own[c.npages] = c.mem
      BY <1>2, <2>1 DEF FreesOwn
    <3>2. gone = shared
      BY <1>3, <2>1
    <3> QED
      BY <1>2, <3>1, <3>2
  <2>2. CASE ~HasSlot(sp, e)
    <3>1. own[1] = MemoryFreePage(own[0], k.pagetable[1 - 1]) /\ own[0] = c.mem
      BY <1>2, <2>2 DEF FreesOwn
    <3>2. own[c.npages] = MemoryFreePage(c.mem, e)
      BY <1>2, <2>2, <3>1 DEF e
    <3>3. e \notin FreePages(c.mem) /\ e \in UserPage
      BY <1>1, <1>2, <2>2
    <3>4. gone = shared \union {e}
      BY <1>1, <1>3, <1>4, <2>2
    <3>5. /\ Sound(own[c.npages])
          /\ FreePages(own[c.npages]) = FreePages(c.mem) \union {e}
      BY <1>2, <3>2, <3>3, FreeLemma
    <3> QED
      BY <1>2, <3>4, <3>5
  <2> QED
    BY <2>1, <2>2
<1>6. stack \notin FreePages(own[c.npages])
  BY <1>1, <1>5
<1>7. LET r == MemoryFreePage(own[c.npages], stack)
      IN  Sound(r) /\ FreePages(r) = FreePages(own[c.npages]) \union {stack}
  BY <1>1, <1>5, <1>6, FreeLemma
<1> QED
  BY <1>5, <1>7 DEF stack, Unshared

\* What ProcessFreeResources leaves: the stack and the entries that no other
\* process shares are free, and the process is in no slot of its entries.
ResourcesFreed(m, sp, p, k, r) ==
  /\ Sound(r.mem) /\ r.spages \in SlotsType /\ SamePages(sp, r.spages)
  /\ r.npages \in {0, 1}
  /\ FreePages(r.mem) = FreePages(m) \union {k.sysStackArea} \union Unshared(sp, p, k)
  /\ LeavesSlots(sp, r.spages, p, Entries(k))

\* ProcessFreeResources frees the pages of a process whose table is in order.
LEMMA ResourcesLemma ==
  ASSUME NEW m, NEW sp, NEW p \in Process, NEW k, Freeable(m, sp, k)
  PROVE  ResourcesFreed(m, sp, p, k, ProcessFreeResources(m, sp, p, k))
<1> DEFINE n == k.npages
           c0 == [mem |-> m, spages |-> sp, npages |-> k.npages]
           r == ProcessFreeResources(m, sp, p, k)
<1>1. /\ n \in Nat /\ m \in Memories /\ sp \in SlotsType /\ k \in PCBs
  BY PagesAssumption DEF Freeable, PCBs, Sound
<1>2. PICK shared, own : Loops(m, sp, p, k, shared, own, r)
  <2> HIDE DEF r
  <2>1. r = ProcessFreeResources(m, sp, p, k)
    BY DEF r
  <2> QED
    BY <1>1, <2>1, LoopsLemma
<1> DEFINE c == shared[n]
<1>3. FreesShared(shared, m, sp, p, k) /\ FreesOwn(own, c, k)
  BY <1>2 DEF Loops
<1>4. shared = [i \in 0 .. n |-> IF i = 0 THEN c0
                                 ELSE MemoryFreeSharedPte(shared[i - 1], p, k.pagetable[i - 1])]
  BY <1>3 DEF FreesShared
<1> HIDE DEF c, r
<1>5. Cleaned(m, sp, p, k, c, n)
  <2> DEFINE A == {i \in 0 .. n : Cleaned(m, sp, p, k, shared[i], i)}
  <2>1. 0 \in A
    <3>1. shared[0] = c0
      BY <1>1, <1>4
    <3>2. Cleaned(m, sp, p, k, c0, 0)
      <4> HIDE DEF c
      <4>1. \A z : z = [mem |-> m, spages |-> sp, npages |-> k.npages] =>
                     Cleaned(m, sp, p, k, z, 0)
        BY CleanupStart
      <4> QED
        BY <4>1
    <3> QED
      BY <1>1, <3>1, <3>2
  <2>2. ASSUME NEW i \in 1 .. n, i - 1 \in A
        PROVE  i \in A
    <3>1. shared[i] = MemoryFreeSharedPte(shared[i - 1], p, k.pagetable[i - 1])
      BY <1>1, <1>4
    <3> QED
      BY <2>2, <3>1, CleanupStep
  <2> HIDE DEF A
  <2>3. n \in A
    BY <1>1, <2>1, <2>2, IntervalInduction
  <2> QED
    BY <2>3 DEF A, c
<1>6. /\ c \in Cleanups /\ SamePages(sp, c.spages) /\ c.npages \in {0, 1}
      /\ LeavesSlots(sp, c.spages, p, Entries(k))
  BY <1>5, CleanupEnd
<1>7. r.mem = MemoryFreePage(own[c.npages], k.sysStackArea) /\ r.spages = c.spages /\ r.npages = c.npages
  BY <1>2 DEF Loops, c
<1>8. c.spages \in SlotsType
  BY <1>6 DEF Cleanups
<1>9. /\ Sound(r.mem)
       /\ FreePages(r.mem) = FreePages(m) \union {k.sysStackArea} \union Unshared(sp, p, k)
  <2> DEFINE q == MemoryFreePage(own[c.npages], k.sysStackArea)
  <2>1. /\ Sound(q)
        /\ FreePages(q) = FreePages(m) \union {k.sysStackArea} \union Unshared(sp, p, k)
    BY <1>3, <1>5, OwnLemma
  <2> QED
    BY <1>7, <2>1
<1> QED
  BY <1>6, <1>7, <1>8, <1>9 DEF ResourcesFreed, r

-----------------------------------------------------------------------------
(***************************************************************************)
(* The inductive invariant.  TablesAreSound is about each page table, and  *)
(* makes its pages Freeable.  UsersHoldPages is why the last user of a     *)
(* slot may free its page: who is in a slot has the page, and of two       *)
(* processes that have a page both are in its slot.  That a process which  *)
(* maps a page joins processes that are in the slot is due to              *)
(* HandlesAreShared: the page that a program is told of was mapped by the  *)
(* one that made it, which is there until the program has mapped it too.   *)
(***************************************************************************)
Holders(page) == {p \in live : page \in Entries(pcb[p])}
UsersOf(page) == SlotUsers(spages, page)

TableIsSound(p) ==
  /\ pcb[p].npages >= 1
  /\ \A i, j \in 0 .. pcb[p].npages - 1 :
       pcb[p].pagetable[i] = pcb[p].pagetable[j] => i = j
  /\ pcb[p].sysStackArea \notin Entries(pcb[p])
  /\ \A i \in 1 .. pcb[p].npages - 1 : HasSlot(spages, pcb[p].pagetable[i])
  /\ Held(p) \subseteq UserPage \ FreePages(mem)

TablesAreSound == \A p \in live : TableIsSound(p)

UsersHoldPages ==
  \A page \in UserPage :
    /\ UsersOf(page) \subseteq Holders(page)
    /\ \A p, q \in Holders(page) : p # q => p \in UsersOf(page)

\* The program of p was told of this page by one that has mapped it.
ToldOf(h) ==
  \E q \in live : program[q].creator /\ program[q].attached /\ program[q].handle = h

HandleIsShared(p, h) ==
  /\ \A q \in live : h \notin Private(q)
  /\ \A q \in live \ {p} : q \in Holders(h) => q \in UsersOf(h)
  /\ program[p].creator \/ program[p].attached \/ ToldOf(h)

HandlesAreShared ==
  \A p \in live :
    LET h == program[p].handle
    IN  /\ h # 0 => HandleIsShared(p, h)
        /\ program[p].attached \/ program[p].creator => h \in UserPage /\ p \in Holders(h)
        /\ program[p].attached => p \in UsersOf(h)

PagesInv ==
  /\ TypeOK
  /\ Running => /\ Sound(mem) /\ TablesAreSound /\ UsersHoldPages /\ HandlesAreShared
                /\ PrivatePagesAreOwned /\ NoPageLost

\* What a process has are the entries of its page table and its stack.
LEMMA HeldLemma ==
  ASSUME NEW p
  PROVE  /\ Held(p) = Entries(pcb[p]) \union {pcb[p].sysStackArea}
         /\ \A page : InTable(p, page) <=> page \in Entries(pcb[p])
BY DEF Held, Entries, InTable

\* A process has at least the page of its program, the first entry.
LEMMA FirstEntryLemma ==
  ASSUME TypeOK, TablesAreSound, NEW p \in live
  PROVE  /\ pcb[p] \in PCBs /\ pcb[p].npages \in 1 .. PROCESS_MAX_PAGES
         /\ pcb[p].pagetable[0] \in Entries(pcb[p])
         /\ Private(p) \subseteq Held(p)
<1>1. pcb[p] \in PCBs /\ pcb[p].npages \in 1 .. PROCESS_MAX_PAGES
  BY PagesAssumption DEF TypeOK, TablesAreSound, TableIsSound, PCBs
<1>2. pcb[p].pagetable[0] \in Entries(pcb[p])
  BY <1>1 DEF Entries
<1> QED
  BY <1>1, <1>2, HeldLemma DEF Private

\* The first memory: all user pages are free.
LEMMA FirstMemoryLemma ==
  Sound(MemoryModuleInit) /\ FreePages(MemoryModuleInit) = UserPage
<1> DEFINE m == MemoryModuleInit
<1>1. /\ maxpage \in Nat /\ pagestart \in Nat /\ pagestart + 2 <= maxpage
      /\ WORD_BITS \in Nat \ {0} /\ freemapmax \in Nat \ {0}
  BY MemoryAssumption, PagesAssumption DEF freemapmax
<1>2. /\ m.freepages = [w \in Word |-> {b \in Bit : w * WORD_BITS + b \in UserPage}]
      /\ m.nfreepages = maxpage - pagestart /\ m.mapnum = 0
      /\ m \in [freepages : [Word -> SUBSET Bit], nfreepages : Int, mapnum : {0}]
  BY <1>1 DEF MemoryModuleInit
<1>3. m \in Memories
  BY <1>1, <1>2 DEF Memories, Word
<1> HIDE DEF m
<1>4. FreePages(m) = UserPage
  <2>1. \A x \in Page : IsFree(m, x) <=> x \in UserPage
    BY <1>2, PlaceLemma DEF IsFree
  <2> QED
    BY <2>1, UserPageLemma DEF FreePages
<1>5. Cardinality(UserPage) = maxpage - pagestart
  BY <1>1, FS_Interval DEF UserPage
<1>6. CountAgrees(m)
  BY <1>2, <1>4, <1>5 DEF CountAgrees
<1> QED
  BY <1>3, <1>4, <1>6 DEF Sound, m

\* The first state: one process with two pages of its own, and no slots.
LEMMA PagesInit ==
  ASSUME Init
  PROVE  PagesInv
<1> DEFINE m0 == MemoryModuleInit
           page == AllocatedPage(m0)
           m == MemoryAllocPage(m0)
           stack == AllocatedPage(m)
           m2 == MemoryAllocPage(m)
<1>1. PICK p \in Process :
        /\ mem = m2
        /\ spages = [s \in Slot |-> [page |-> 0, users |-> {}]]
        /\ pcb = [q \in Process |->
             [pagetable |-> [i \in Index |-> IF q = p /\ i = 0 THEN page ELSE 0],
              npages |-> IF q = p THEN 1 ELSE 0,
              sysStackArea |-> IF q = p THEN stack ELSE 0]]
        /\ live = {p}
        /\ program = [q \in Process |-> NewProgram(0)]
        /\ stopped = "no"
  BY DEF Init
<1>2. Sound(m0) /\ FreePages(m0) = UserPage
  BY FirstMemoryLemma
<1>3. /\ pagestart \in UserPage /\ pagestart + 1 \in UserPage /\ pagestart # pagestart + 1
      /\ maxpage \in Nat \ {0}
  BY MemoryAssumption, PagesAssumption DEF UserPage
<1> HIDE DEF m0
<1>4. /\ Sound(m) /\ page \in UserPage /\ FreePages(m) = UserPage \ {page}
  BY <1>2, <1>3, AllocLemma
<1> HIDE DEF m
<1>5. /\ Sound(m2) /\ stack \in UserPage /\ stack # page
      /\ FreePages(m2) = UserPage \ {page, stack}
  BY <1>3, <1>4, AllocLemma
<1> HIDE DEF m2, page, stack
<1>6. page \in Page /\ stack \in Page /\ 0 \in Page /\ 0 \notin UserPage
  BY <1>3, <1>4, <1>5, UserPageLemma DEF Page
<1>7. TypeOK
  <2>1. spages \in [Slot -> [page : Page, users : SUBSET Process]]
    BY <1>1, <1>6
  <2>2. pcb \in [Process -> [pagetable : [Index -> Page], npages : 0 .. PROCESS_MAX_PAGES,
                             sysStackArea : Page]]
    BY <1>1, <1>6, PagesAssumption
  <2>3. program \in [Process -> Programs]
    BY <1>1, <1>6 DEF Programs, NewProgram
  <2>4. mem \in Memories
    BY <1>1, <1>5 DEF Sound
  <2> QED
    BY <1>1, <2>1, <2>2, <2>3, <2>4 DEF TypeOK
<1>8. /\ pcb[p].npages = 1 /\ pcb[p].pagetable[0] = page /\ pcb[p].sysStackArea = stack
      /\ Entries(pcb[p]) = {page} /\ Held(p) = {page, stack} /\ Private(p) = {page, stack}
  <2>1. pcb[p].npages = 1 /\ pcb[p].pagetable[0] = page /\ pcb[p].sysStackArea = stack
    BY <1>1, PagesAssumption DEF Index
  <2>2. 0 .. pcb[p].npages - 1 = {0}
    BY <2>1
  <2>3. Entries(pcb[p]) = {page}
    BY <2>1, <2>2 DEF Entries
  <2> QED
    BY <2>1, <2>3, HeldLemma DEF Private
<1>9. TablesAreSound
  BY <1>1, <1>4, <1>5, <1>8 DEF TablesAreSound, TableIsSound
<1>10. UsersHoldPages
  <2>1. spages \in SlotsType /\ \A s \in Slot : spages[s].users = {}
    BY <1>1, <1>6 DEF SlotsType
  <2>2. \A x : UsersOf(x) = {}
    BY <2>1, SlotLemma DEF UsersOf, SlotUsers
  <2> QED
    BY <1>1, <2>2 DEF UsersHoldPages, Holders
<1>11. HandlesAreShared
  BY <1>1 DEF HandlesAreShared, NewProgram
<1>12. PrivatePagesAreOwned
  BY <1>1, <1>5, <1>8 DEF PrivatePagesAreOwned
<1>13. NoPageLost
  <2>1. \A x \in UserPage : x \notin {page, stack} => IsFree(mem, x)
    BY <1>1, <1>5 DEF FreePages
  <2> QED
    BY <1>1, <1>8, <2>1 DEF NoPageLost
<1> QED
  BY <1>1, <1>5, <1>7, <1>9, <1>10, <1>11, <1>12, <1>13 DEF PagesInv

\* The pages of running processes, as the invariant describes them.
LEMMA InvLemma ==
  ASSUME PagesInv, Running
  PROVE  /\ TypeOK /\ Sound(mem) /\ TablesAreSound /\ UsersHoldPages /\ HandlesAreShared
         /\ live \subseteq Process /\ spages \in SlotsType /\ pcb \in [Process -> PCBs]
         /\ \A p \in live : Held(p) \subseteq UserPage \ FreePages(mem)
         /\ \A p \in live : Private(p) \subseteq Held(p)
         /\ \A p \in live : /\ pcb[p].pagetable[0] # pcb[p].sysStackArea
                            /\ \A q \in live \ {p} : Private(p) \cap Held(q) = {}
         /\ \A page \in UserPage : page \in FreePages(mem) \/ \E p \in live : page \in Held(p)
         /\ \A page : Holders(page) \subseteq live
         /\ \A page : \A p \in Holders(page) : page \in Held(p)
         /\ FreePages(mem) \subseteq UserPage
<1>1. /\ TypeOK /\ Sound(mem) /\ TablesAreSound /\ UsersHoldPages /\ HandlesAreShared
      /\ PrivatePagesAreOwned /\ NoPageLost
  BY DEF PagesInv
<1>2. live \subseteq Process /\ spages \in SlotsType /\ pcb \in [Process -> PCBs]
  BY <1>1 DEF TypeOK, SlotsType, PCBs
<1>3. \A page \in UserPage : page \in FreePages(mem) \/ \E p \in live : page \in Held(p)
  BY <1>1, UserPageLemma DEF NoPageLost, FreePages
<1>4. \A page : \A p \in Holders(page) : page \in Held(p) /\ p \in live
  BY HeldLemma DEF Holders
<1>5. FreePages(mem) \subseteq UserPage
  BY <1>1, FreePagesLemma DEF Sound
<1>6. \A p \in live : Held(p) \subseteq UserPage \ FreePages(mem)
  BY <1>1 DEF TablesAreSound, TableIsSound
<1>7. \A p \in live : Private(p) \subseteq Held(p)
  BY <1>1, FirstEntryLemma
<1>8. \A p \in live : /\ pcb[p].pagetable[0] # pcb[p].sysStackArea
                      /\ \A q \in live \ {p} : Private(p) \cap Held(q) = {}
  BY <1>1 DEF PrivatePagesAreOwned
<1> QED
  BY <1>1, <1>2, <1>3, <1>4, <1>5, <1>6, <1>7, <1>8

\* A page that programs are told of is nobody's own, and all that have it are
\* in its slot.
LEMMA ToldLemma ==
  ASSUME PagesInv, Running, NEW h, ToldOf(h)
  PROVE  /\ h \in UserPage /\ h \notin FreePages(mem)
         /\ \A q \in live : h \notin Private(q)
         /\ \A q \in Holders(h) : q \in UsersOf(h)
<1>1. PICK q \in live : program[q].creator /\ program[q].attached /\ program[q].handle = h
  BY DEF ToldOf
<1>2. h \in UserPage /\ q \in Holders(h) /\ q \in UsersOf(h)
  BY <1>1, InvLemma DEF HandlesAreShared
<1>3. HandleIsShared(q, h)
  BY <1>1, <1>2, InvLemma, UserPageLemma DEF HandlesAreShared
<1>4. h \notin FreePages(mem)
  BY <1>2, InvLemma
<1> QED
  BY <1>2, <1>3, <1>4, InvLemma DEF HandleIsShared

\* The page a program has made or is told of is in use.
LEMMA HandleLemma ==
  ASSUME PagesInv, Running, NEW p \in live, program[p].handle # 0
  PROVE  /\ HandleIsShared(p, program[p].handle)
         /\ program[p].handle \in UserPage \ FreePages(mem)
<1> DEFINE h == program[p].handle
<1>1. /\ HandleIsShared(p, h)
      /\ program[p].attached \/ program[p].creator => h \in UserPage /\ p \in Holders(h)
  BY InvLemma DEF HandlesAreShared
<1>2. CASE program[p].attached \/ program[p].creator
  BY <1>1, <1>2, InvLemma
<1>3. CASE ~ (program[p].attached \/ program[p].creator)
  BY <1>1, <1>3, ToldLemma DEF HandleIsShared
<1> QED
  BY <1>2, <1>3

\* The two pages of a new process were free, so no process has them.
LEMMA TwoPagesLemma ==
  ASSUME PagesInv, Running,
         NEW page, page = AllocatedPage(mem), page # 0,
         NEW m, m = MemoryAllocPage(mem),
         NEW stack, stack = AllocatedPage(m), stack # 0,
         NEW m2, m2 = MemoryAllocPage(m)
  PROVE  /\ page \in UserPage /\ stack \in UserPage /\ page # stack
         /\ page \in Page /\ stack \in Page
         /\ page \in FreePages(mem) /\ stack \in FreePages(mem)
         /\ Sound(m2) /\ FreePages(m2) = FreePages(mem) \ {page, stack}
         /\ \A q \in live : page \notin Held(q) /\ stack \notin Held(q)
         /\ UsersOf(page) = {} /\ UsersOf(stack) = {}
<1>1. Sound(mem) /\ FreePages(mem) \subseteq UserPage
  BY InvLemma
<1>2. Sound(m) /\ page \in FreePages(mem) /\ FreePages(m) = FreePages(mem) \ {page}
  BY <1>1, AllocLemma
<1>3. Sound(m2) /\ stack \in FreePages(m) /\ FreePages(m2) = FreePages(m) \ {stack}
  BY <1>2, AllocLemma
<1>4. \A q \in live : page \notin Held(q) /\ stack \notin Held(q)
  BY <1>2, <1>3, InvLemma
<1>5. \A x \in {page, stack} : Holders(x) = {} /\ x \in UserPage
  BY <1>1, <1>2, <1>3, <1>4, InvLemma
<1>6. UsersOf(page) = {} /\ UsersOf(stack) = {}
  BY <1>5, InvLemma DEF UsersHoldPages
<1> QED
  BY <1>1, <1>2, <1>3, <1>4, <1>6, UserPageLemma

\* The PCB of a new process has one entry.
LEMMA NewPCBLemma ==
  ASSUME TypeOK, NEW p \in Process, NEW page \in Page, NEW stack \in Page
  PROVE  LET new == NewPCB(p, page, stack)
         IN  /\ new \in PCBs
             /\ new.npages = 1 /\ new.pagetable[0] = page /\ new.sysStackArea = stack
             /\ Entries(new) = {page}
<1> DEFINE new == NewPCB(p, page, stack)
<1>1. pcb[p].pagetable \in [Index -> Page] /\ 0 \in Index /\ 1 \in 0 .. PROCESS_MAX_PAGES
  BY PagesAssumption DEF TypeOK, Index
<1>2. new = [pagetable |-> [pcb[p].pagetable EXCEPT ![0] = page],
             npages |-> 1, sysStackArea |-> stack]
  BY DEF NewPCB
<1> HIDE DEF new
<1>3. new \in PCBs /\ new.npages = 1 /\ new.pagetable[0] = page /\ new.sysStackArea = stack
  BY <1>1, <1>2 DEF PCBs
<1>4. 0 .. new.npages - 1 = {0}
  BY <1>3
<1>5. Entries(new) = {page}
  BY <1>3, <1>4 DEF Entries
<1> QED
  BY <1>3, <1>5 DEF new

-----------------------------------------------------------------------------
(* The steps *)

\* A new process: its pages were free, so it shares them with nobody.
LEMMA ForkSucceeds ==
  ASSUME PagesInv, Running, NEW p \in Process, p \notin live,
         NEW h, h = 0 \/ ToldOf(h),
         NEW page, page = AllocatedPage(mem), page # 0,
         NEW m, m = MemoryAllocPage(mem),
         NEW stack, stack = AllocatedPage(m), stack # 0,
         mem' = MemoryAllocPage(m),
         pcb' = [pcb EXCEPT ![p] = NewPCB(p, page, stack)],
         live' = live \union {p},
         program' = [program EXCEPT ![p] = NewProgram(h)],
         UNCHANGED <<spages, stopped>>
  PROVE  PagesInv'
<1> DEFINE new == NewPCB(p, page, stack)
<1>1. /\ page \in UserPage /\ stack \in UserPage /\ page # stack
      /\ page \in Page /\ stack \in Page
      /\ page \in FreePages(mem) /\ stack \in FreePages(mem)
      /\ Sound(mem') /\ FreePages(mem') = FreePages(mem) \ {page, stack}
      /\ \A q \in live : page \notin Held(q) /\ stack \notin Held(q)
      /\ UsersOf(page) = {} /\ UsersOf(stack) = {}
  BY TwoPagesLemma
<1>2. /\ TypeOK /\ TablesAreSound /\ UsersHoldPages /\ HandlesAreShared
      /\ live \subseteq Process /\ pcb \in [Process -> PCBs]
      /\ program \in [Process -> Programs]
  BY InvLemma DEF TypeOK
<1>3. /\ new \in PCBs
      /\ new.npages = 1 /\ new.pagetable[0] = page /\ new.sysStackArea = stack
      /\ Entries(new) = {page}
  BY <1>1, <1>2, NewPCBLemma
<1> HIDE DEF new
<1>4. /\ pcb'[p] = new /\ program'[p] = NewProgram(h)
      /\ \A q \in live : q # p /\ pcb'[q] = pcb[q] /\ program'[q] = program[q]
  BY <1>2 DEF new
<1>5. /\ \A q \in live : Held(q)' = Held(q) /\ Private(q)' = Private(q)
      /\ Held(p)' = {page, stack} /\ Private(p)' = {page, stack}
  <2>1. \A q : /\ Held(q)' = Entries(pcb'[q]) \union {pcb'[q].sysStackArea}
               /\ Private(q)' = {pcb'[q].pagetable[0], pcb'[q].sysStackArea}
    BY DEF Held, Entries, Private
  <2> QED
    BY <1>3, <1>4, <2>1, HeldLemma DEF Private
<1>6. \A x : UsersOf(x)' = UsersOf(x)
  BY DEF UsersOf
<1>7. \A x : Holders(x)' = IF x = page THEN Holders(x) \union {p} ELSE Holders(x)
  BY <1>3, <1>4 DEF Holders
<1>8. Holders(page) = {}
  BY <1>1, InvLemma
<1>9. h \in Page /\ (h # 0 => /\ h \in UserPage /\ h # page /\ h # stack
                              /\ \A q \in live : h \notin Private(q)
                              /\ \A q \in Holders(h) : q \in UsersOf(h))
  <2>1. CASE h = 0
    BY <2>1, UserPageLemma
  <2>2. CASE ToldOf(h)
    BY <1>1, <2>2, ToldLemma, UserPageLemma
  <2> QED
    BY <2>1, <2>2
<1>10. TypeOK'
  <2>1. pcb' \in [Process -> PCBs]
    BY <1>2, <1>3 DEF new
  <2>2. program' \in [Process -> Programs]
    BY <1>2, <1>9 DEF Programs, NewProgram
  <2>3. mem' \in Memories
    BY <1>1 DEF Sound
  <2> QED
    BY <1>2, <2>1, <2>2, <2>3 DEF TypeOK, PCBs
<1>11. TablesAreSound'
  <2>1. ASSUME NEW q \in live
        PROVE  TableIsSound(q)'
    BY <1>1, <1>2, <1>4, <1>5 DEF TablesAreSound, TableIsSound
  <2>2. TableIsSound(p)'
    BY <1>1, <1>3, <1>4, <1>5 DEF TableIsSound
  <2> QED
    BY <2>1, <2>2 DEF TablesAreSound
<1>12. UsersHoldPages'
  <2>1. ASSUME NEW x \in UserPage
        PROVE  /\ UsersOf(x)' \subseteq Holders(x)'
               /\ \A q, r \in Holders(x)' : q # r => q \in UsersOf(x)'
    BY <1>2, <1>6, <1>7, <1>8 DEF UsersHoldPages
  <2> QED
    BY <2>1 DEF UsersHoldPages
<1>13. HandlesAreShared'
  <2>1. \A x : ToldOf(x) => ToldOf(x)'
    BY <1>4 DEF ToldOf
  <2>2. ASSUME NEW q \in live, NEW x, x = program[q].handle, x # 0
        PROVE  HandleIsShared(q, x)'
    <3>1. HandleIsShared(q, x) /\ x \in UserPage \ FreePages(mem)
      BY <2>2, HandleLemma
    <3>2. x # page /\ x # stack
      BY <1>1, <3>1
    <3>3. /\ \A r \in live' : x \notin Private(r)'
          /\ \A r \in live' \ {q} : r \in Holders(x)' => r \in UsersOf(x)'
      BY <1>5, <1>6, <1>7, <3>1, <3>2, InvLemma DEF HandleIsShared
    <3>4. program'[q].creator \/ program'[q].attached \/ ToldOf(x)'
      BY <1>4, <2>1, <3>1 DEF HandleIsShared
    <3> QED
      BY <3>3, <3>4 DEF HandleIsShared
  <2>3. ASSUME NEW q \in live, NEW x, x = program[q].handle
        PROVE  /\ program'[q].handle = x
               /\ x # 0 => HandleIsShared(q, x)'
               /\ program'[q].attached \/ program'[q].creator =>
                    x \in UserPage /\ q \in Holders(x)'
               /\ program'[q].attached => q \in UsersOf(x)'
    BY <1>2, <1>4, <1>6, <1>7, <2>2, <2>3 DEF HandlesAreShared
  <2>4. program'[p].handle = h /\ ~program'[p].attached /\ ~program'[p].creator
    BY <1>4 DEF NewProgram
  <2>5. ASSUME h # 0
        PROVE  HandleIsShared(p, h)'
    <3>1. ToldOf(h)'
      BY <2>1, <2>5
    <3> QED
      BY <1>5, <1>6, <1>7, <1>9, <2>5, <3>1 DEF HandleIsShared
  <2> QED
    BY <2>3, <2>4, <2>5 DEF HandlesAreShared
<1>14. PrivatePagesAreOwned'
  BY <1>1, <1>3, <1>4, <1>5, InvLemma DEF PrivatePagesAreOwned
<1>15. NoPageLost'
  <2>1. \A x \in UserPage : x \in FreePages(mem') \/ \E q \in live' : x \in Held(q)'
    BY <1>1, <1>5, InvLemma
  <2> QED
    BY <2>1 DEF NoPageLost, FreePages
<1> QED
  BY <1>1, <1>10, <1>11, <1>12, <1>13, <1>14, <1>15 DEF PagesInv

\* When the kernel exits only the types are left to show.
LEMMA StopLemma ==
  ASSUME PagesInv, Running, Sound(mem'), NEW why \in {"idle", "nomemory"}, StopFor(why)
  PROVE  PagesInv'
<1>1. TypeOK /\ mem' \in Memories
  BY InvLemma DEF Sound
<1>2. stopped' = why /\ stopped' # "no" /\ UNCHANGED <<spages, pcb, live, program>>
  BY DEF StopFor
<1>3. TypeOK'
  BY <1>1, <1>2 DEF TypeOK
<1> QED
  BY <1>2, <1>3 DEF PagesInv, Running

\* A program whose file is missing: both pages are free again.
LEMMA ForkFails ==
  ASSUME PagesInv, Running, NEW p \in Process, p \notin live,
         NEW page, page = AllocatedPage(mem), page # 0,
         NEW m, m = MemoryAllocPage(mem),
         NEW stack, stack = AllocatedPage(m), stack # 0,
         NEW m2, m2 = MemoryAllocPage(m),
         NEW new, new = NewPCB(p, page, stack),
         NEW c, c = ProcessFreeResources(m2, spages, p, new),
         mem' = c.mem, spages' = c.spages,
         pcb' = [pcb EXCEPT ![p] = [new EXCEPT !.npages = c.npages]],
         UNCHANGED <<live, program, stopped>>
  PROVE  PagesInv'
<1>1. /\ page \in UserPage /\ stack \in UserPage /\ page # stack
      /\ page \in Page /\ stack \in Page
      /\ page \in FreePages(mem) /\ stack \in FreePages(mem)
      /\ Sound(m2) /\ FreePages(m2) = FreePages(mem) \ {page, stack}
      /\ UsersOf(page) = {} /\ UsersOf(stack) = {}
  BY TwoPagesLemma
<1>2. /\ TypeOK /\ TablesAreSound /\ UsersHoldPages /\ HandlesAreShared
      /\ live \subseteq Process /\ pcb \in [Process -> PCBs] /\ spages \in SlotsType
  BY InvLemma
<1>3. /\ new \in PCBs
      /\ new.npages = 1 /\ new.pagetable[0] = page /\ new.sysStackArea = stack
      /\ Entries(new) = {page}
  BY <1>1, <1>2, NewPCBLemma
<1>4. Freeable(m2, spages, new)
  BY <1>1, <1>2, <1>3 DEF Freeable
<1>5. /\ Sound(c.mem) /\ c.spages \in SlotsType /\ SamePages(spages, c.spages)
      /\ c.npages \in {0, 1}
      /\ FreePages(c.mem) = FreePages(m2) \union {new.sysStackArea} \union Unshared(spages, p, new)
      /\ LeavesSlots(spages, c.spages, p, Entries(new))
  <2>1. ResourcesFreed(m2, spages, p, new, c)
    BY <1>4, ResourcesLemma
  <2> QED
    BY <2>1 DEF ResourcesFreed
<1>6. Sound(mem') /\ FreePages(mem') = FreePages(mem)
  <2>1. Unshared(spages, p, new) = {page}
    BY <1>1, <1>3 DEF UsersOf, Unshared
  <2> QED
    BY <1>1, <1>3, <1>5, <2>1
<1>7. ASSUME NEW x
      PROVE  UsersOf(x)' = UsersOf(x)
  <2>1. SlotUsers(c.spages, x) =
          IF x = page THEN SlotUsers(spages, x) \ {p} ELSE SlotUsers(spages, x)
    BY <1>3, <1>5 DEF LeavesSlots
  <2> QED
    BY <1>1, <2>1 DEF UsersOf
<1>8. \A x : HasSlot(spages', x) <=> HasSlot(spages, x)
  BY <1>5, SamePagesLemma
<1>9. \A q \in live : pcb'[q] = pcb[q]
  BY <1>2
<1>10. \A q \in live : Held(q)' = Held(q) /\ Private(q)' = Private(q)
  BY <1>9 DEF Held, Private
<1>11. \A x : Holders(x)' = Holders(x)
  BY <1>9 DEF Holders
<1>12. TypeOK'
  <2>1. [new EXCEPT !.npages = c.npages] \in PCBs
    BY <1>3, <1>5, PagesAssumption DEF PCBs
  <2>2. pcb' \in [Process -> PCBs]
    BY <1>2, <2>1
  <2>3. mem' \in Memories /\ spages' \in SlotsType
    BY <1>5, <1>6 DEF Sound
  <2> QED
    BY <1>2, <2>2, <2>3 DEF TypeOK, PCBs, SlotsType
<1>13. TablesAreSound'
  BY <1>2, <1>6, <1>8, <1>9, <1>10 DEF TablesAreSound, TableIsSound
<1>14. UsersHoldPages'
  BY <1>2, <1>7, <1>11 DEF UsersHoldPages
<1>15. HandlesAreShared'
  <2>1. \A x : ToldOf(x)' = ToldOf(x)
    BY DEF ToldOf
  <2>2. \A x : \A q \in live : HandleIsShared(q, x)' <=> HandleIsShared(q, x)
    BY <1>7, <1>10, <1>11, <2>1 DEF HandleIsShared
  <2>3. ASSUME NEW q \in live, NEW x, x = program[q].handle
        PROVE  /\ program'[q].handle = x
               /\ x # 0 => HandleIsShared(q, x)'
               /\ program'[q].attached \/ program'[q].creator =>
                    x \in UserPage /\ q \in Holders(x)'
               /\ program'[q].attached => q \in UsersOf(x)'
    BY <1>2, <1>7, <1>11, <2>2, <2>3 DEF HandlesAreShared
  <2> QED
    BY <2>3 DEF HandlesAreShared
<1>16. PrivatePagesAreOwned'
  BY <1>9, <1>10, InvLemma DEF PrivatePagesAreOwned
<1>17. NoPageLost'
  <2>1. \A x \in UserPage : x \in FreePages(mem') \/ \E q \in live' : x \in Held(q)'
    BY <1>6, <1>10, InvLemma
  <2> QED
    BY <2>1 DEF NoPageLost, FreePages
<1> QED
  BY <1>6, <1>12, <1>13, <1>14, <1>15, <1>16, <1>17 DEF PagesInv

\* The pages of a running process can be freed.
LEMMA LiveFreeableLemma ==
  ASSUME PagesInv, Running, NEW p \in live
  PROVE  Freeable(mem, spages, pcb[p])
<1>1. /\ Sound(mem) /\ spages \in SlotsType /\ pcb[p] \in PCBs
      /\ Held(p) \subseteq UserPage \ FreePages(mem)
      /\ Held(p) = Entries(pcb[p]) \union {pcb[p].sysStackArea}
  BY InvLemma, HeldLemma
<1>2. TablesAreSound
  BY InvLemma
<1> QED
  BY <1>1, <1>2 DEF Freeable, TablesAreSound, TableIsSound

\* The end of a process, not of the last one: the pages that only it has
\* become free.  A program that made a page ends after those it told of it
\* have mapped it.
LEMMA ExitFrees ==
  ASSUME PagesInv, Running, NEW p \in live,
         program[p].creator =>
           \A q \in live \ {p} :
             program[q].handle = program[p].handle => program[q].attached,
         NEW c, c = ProcessFreeResources(mem, spages, p, pcb[p]),
         mem' = c.mem, spages' = c.spages,
         pcb' = [pcb EXCEPT ![p] = [pcb[p] EXCEPT !.npages = c.npages]],
         live' = live \ {p},
         UNCHANGED <<program, stopped>>
  PROVE  PagesInv'
<1> DEFINE k == pcb[p]
<1>1. /\ TypeOK /\ TablesAreSound /\ UsersHoldPages /\ HandlesAreShared
      /\ live \subseteq Process /\ pcb \in [Process -> PCBs] /\ spages \in SlotsType
      /\ Held(p) = Entries(k) \union {k.sysStackArea}
      /\ p \in Process /\ k \in PCBs
  BY InvLemma, HeldLemma
<1>2. /\ Sound(c.mem) /\ c.spages \in SlotsType /\ SamePages(spages, c.spages)
      /\ c.npages \in {0, 1}
      /\ FreePages(c.mem) = FreePages(mem) \union {k.sysStackArea} \union Unshared(spages, p, k)
      /\ LeavesSlots(spages, c.spages, p, Entries(k))
  <2>1. ResourcesFreed(mem, spages, p, k, c)
    BY <1>1, LiveFreeableLemma, ResourcesLemma
  <2> QED
    BY <2>1 DEF ResourcesFreed
<1> HIDE DEF k
<1>3. ASSUME NEW x \in UserPage
      PROVE  UsersOf(x)' = UsersOf(x) \ {p}
  <2>1. UsersOf(x)' = IF x \in Entries(k) THEN UsersOf(x) \ {p} ELSE UsersOf(x)
    BY <1>2 DEF UsersOf, LeavesSlots
  <2>2. x \notin Entries(k) => p \notin UsersOf(x)
    BY <1>1 DEF UsersHoldPages, Holders, k
  <2> QED
    BY <2>1, <2>2
<1>4. \A x : HasSlot(spages', x) <=> HasSlot(spages, x)
  BY <1>2, SamePagesLemma
<1>5. \A q \in live' : q \in live /\ q # p /\ pcb'[q] = pcb[q]
  BY <1>1
<1>6. \A q \in live' : Held(q)' = Held(q) /\ Private(q)' = Private(q)
  BY <1>5 DEF Held, Private
<1>7. \A x : Holders(x)' = Holders(x) \ {p}
  BY <1>5 DEF Holders
<1>8. /\ \A x \in UserPage : x \in FreePages(mem') <=>
           x \in FreePages(mem) \/ x = k.sysStackArea \/ x \in Unshared(spages, p, k)
  BY <1>2
<1>9. ASSUME NEW q \in live'
      PROVE  Held(q)' \subseteq UserPage \ FreePages(mem')
  <2> SUFFICES ASSUME NEW x \in Held(q), x \in FreePages(mem') PROVE FALSE
    BY <1>5, <1>6, InvLemma
  <2>1. /\ q \in live /\ q # p /\ x \in UserPage /\ x \notin FreePages(mem)
    BY <1>5, InvLemma
  <2>2. /\ k.sysStackArea \in Private(p) /\ Private(p) \cap Held(q) = {}
        /\ Private(q) \cap Held(p) = {}
    BY <2>1, InvLemma DEF Private, k
  <2>3. x \in Unshared(spages, p, k)
    BY <1>8, <2>1, <2>2
  <2>4. x \in Held(p) /\ p \in Holders(x) /\ UsersOf(x) \ {p} = {}
    BY <1>1, <2>3 DEF Unshared, UsersOf, Holders, k
  <2>5. x # pcb[q].sysStackArea
    BY <2>2, <2>4 DEF Private
  <2>6. q \in Holders(x)
    BY <2>1, <2>5, HeldLemma DEF Holders
  <2>7. q \in UsersOf(x)
    BY <1>1, <2>1, <2>4, <2>6 DEF UsersHoldPages
  <2> QED
    BY <2>1, <2>4, <2>7
<1>10. TypeOK'
  <2>1. [k EXCEPT !.npages = c.npages] \in PCBs
    BY <1>1, <1>2, PagesAssumption DEF PCBs
  <2>2. pcb' \in [Process -> PCBs]
    BY <1>1, <2>1 DEF k
  <2>3. mem' \in Memories /\ spages' \in SlotsType
    BY <1>2 DEF Sound
  <2> QED
    BY <1>1, <2>2, <2>3 DEF TypeOK, PCBs, SlotsType
<1>11. TablesAreSound'
  BY <1>1, <1>4, <1>5, <1>9 DEF TablesAreSound, TableIsSound
<1>12. UsersHoldPages'
  BY <1>1, <1>3, <1>7 DEF UsersHoldPages
<1>13. HandlesAreShared'
  <2>1. ASSUME NEW q \in live', NEW x, x = program[q].handle, x # 0
        PROVE  HandleIsShared(q, x)'
    <3>1. q \in live /\ HandleIsShared(q, x) /\ x \in UserPage
      BY <1>5, <2>1, HandleLemma
    <3>2. /\ \A r \in live' : x \notin Private(r)'
          /\ \A r \in live' \ {q} : r \in Holders(x)' => r \in UsersOf(x)'
      BY <1>3, <1>5, <1>6, <1>7, <3>1 DEF HandleIsShared
    <3>3. program'[q].creator \/ program'[q].attached \/ ToldOf(x)'
      <4>1. CASE program[q].creator \/ program[q].attached
        BY <4>1
      <4>2. CASE ~(program[q].creator \/ program[q].attached)
        <5>1. PICK r \in live : program[r].creator /\ program[r].attached /\ program[r].handle = x
          BY <3>1, <4>2 DEF HandleIsShared, ToldOf
        <5>2. r # p
          BY <1>5, <2>1, <4>2, <5>1
        <5> QED
          BY <5>1, <5>2 DEF ToldOf
      <4> QED
        BY <4>1, <4>2
    <3> QED
      BY <3>2, <3>3 DEF HandleIsShared
  <2>2. ASSUME NEW q \in live', NEW x, x = program[q].handle
        PROVE  /\ program'[q].handle = x
               /\ x # 0 => HandleIsShared(q, x)'
               /\ program'[q].attached \/ program'[q].creator =>
                    x \in UserPage /\ q \in Holders(x)'
               /\ program'[q].attached => q \in UsersOf(x)'
    BY <1>1, <1>3, <1>5, <1>7, <2>1, <2>2 DEF HandlesAreShared
  <2> QED
    BY <2>2 DEF HandlesAreShared
<1>14. PrivatePagesAreOwned'
  BY <1>5, <1>6, InvLemma DEF PrivatePagesAreOwned
<1>15. NoPageLost'
  <2>1. ASSUME NEW x \in UserPage
        PROVE  x \in FreePages(mem') \/ \E q \in live' : x \in Held(q)'
    <3>1. CASE x \in FreePages(mem)
      BY <1>8, <3>1
    <3>2. CASE \E q \in live \ {p} : x \in Held(q)
      BY <1>6, <3>2
    <3>3. CASE x \in Held(p) /\ \A q \in live \ {p} : x \notin Held(q)
      <4>1. CASE x = k.sysStackArea
        BY <1>8, <4>1
      <4>2. CASE x # k.sysStackArea
        <5>1. Holders(x) \subseteq {p}
          BY <3>3, InvLemma
        <5>2. UsersOf(x) \ {p} = {}
          BY <1>1, <5>1 DEF UsersHoldPages
        <5>3. x \in Unshared(spages, p, k)
          BY <1>1, <3>3, <4>2, <5>2 DEF Unshared, UsersOf
        <5> QED
          BY <1>8, <5>3
      <4> QED
        BY <4>1, <4>2
    <3> QED
      BY <3>1, <3>2, <3>3, InvLemma
  <2> QED
    BY <2>1 DEF NoPageLost, FreePages
<1> QED
  BY <1>2, <1>10, <1>11, <1>12, <1>13, <1>14, <1>15 DEF PagesInv

\* The page tables when one has an entry more.
LEMMA WithEntryLemma ==
  ASSUME TypeOK, NEW p \in live, NEW page \in Page,
         pcb[p].npages < PROCESS_MAX_PAGES, NEW r, r = WithEntry(p, page)
  PROVE  /\ r \in [Process -> PCBs]
         /\ \A q \in live \ {p} : r[q] = pcb[q]
         /\ r[p].npages = pcb[p].npages + 1 /\ r[p].sysStackArea = pcb[p].sysStackArea
         /\ \A i \in 0 .. pcb[p].npages :
              r[p].pagetable[i] = IF i = pcb[p].npages THEN page ELSE pcb[p].pagetable[i]
         /\ pcb[p].npages >= 1 => r[p].pagetable[0] = pcb[p].pagetable[0]
         /\ Entries(r[p]) = Entries(pcb[p]) \union {page}
<1> DEFINE n == pcb[p].npages
           t == [pcb[p].pagetable EXCEPT ![n] = page]
           k == [[pcb[p] EXCEPT !.pagetable = t] EXCEPT !.npages = @ + 1]
<1>1. r = [pcb EXCEPT ![p] = k]
  <2>1. WithEntry(p, page) = [pcb EXCEPT ![p] = k]
    BY Zenon DEF WithEntry
  <2> HIDE DEF k
  <2> QED
    BY <2>1
<1>2. /\ p \in Process /\ live \subseteq Process /\ pcb \in [Process -> PCBs] /\ pcb[p] \in PCBs
      /\ n \in 0 .. PROCESS_MAX_PAGES - 1 /\ n \in Nat
  <2>1. p \in Process /\ live \subseteq Process /\ pcb \in [Process -> PCBs]
    BY DEF TypeOK, PCBs
  <2>2. pcb[p] \in PCBs /\ n \in 0 .. PROCESS_MAX_PAGES
    BY <2>1 DEF PCBs
  <2> HIDE DEF k, t
  <2>3. n < PROCESS_MAX_PAGES /\ PROCESS_MAX_PAGES \in Nat
    BY PagesAssumption
  <2>4. n \in 0 .. PROCESS_MAX_PAGES - 1 /\ n \in Nat
    <3> HIDE DEF n
    <3> QED
      BY <2>2, <2>3
  <2> QED
    BY <2>1, <2>2, <2>4
<1>3. /\ t \in [Index -> Page] /\ 0 .. n \subseteq Index /\ PROCESS_MAX_PAGES \in Nat
      /\ \A i \in Index : t[i] = IF i = n THEN page ELSE pcb[p].pagetable[i]
  BY <1>2, PagesAssumption DEF PCBs, Index
<1> HIDE DEF t
<1>4. k = [pagetable |-> t, npages |-> n + 1, sysStackArea |-> pcb[p].sysStackArea]
  <2> DEFINE u == [pcb[p] EXCEPT !.pagetable = t]
  <2>1. u = [pagetable |-> t, npages |-> n, sysStackArea |-> pcb[p].sysStackArea]
    BY <1>2 DEF PCBs
  <2> HIDE DEF u
  <2>2. [u EXCEPT !.npages = @ + 1] =
          [pagetable |-> t, npages |-> n + 1, sysStackArea |-> pcb[p].sysStackArea]
    BY <2>1
  <2> QED
    BY <2>2 DEF u
<1>5. k \in PCBs
  BY <1>2, <1>3, <1>4 DEF PCBs
<1> HIDE DEF k
<1>6. /\ r \in [Process -> PCBs] /\ r[p] = k
      /\ \A q \in live \ {p} : r[q] = pcb[q]
  BY <1>1, <1>2, <1>5
<1>7. \A i \in 0 .. n : r[p].pagetable[i] = IF i = n THEN page ELSE pcb[p].pagetable[i]
  BY <1>3, <1>4, <1>6
<1>8. r[p].npages = n + 1 /\ r[p].sysStackArea = pcb[p].sysStackArea
  BY <1>4, <1>6
<1>9. n >= 1 => r[p].pagetable[0] = pcb[p].pagetable[0]
  BY <1>2, <1>7
<1>10. Entries(r[p]) = Entries(pcb[p]) \union {page}
  <2>1. 0 .. r[p].npages - 1 = 0 .. n /\ 0 .. n = (0 .. n - 1) \union {n}
    BY <1>2, <1>8
  <2>2. Entries(r[p]) = {r[p].pagetable[i] : i \in 0 .. n}
    BY <2>1 DEF Entries
  <2>3. \A i \in 0 .. n - 1 : i \in 0 .. n /\ i # n
    BY <1>2
  <2>4. \A i \in 0 .. n - 1 : r[p].pagetable[i] = pcb[p].pagetable[i]
    BY <1>7, <2>3
  <2>5. r[p].pagetable[n] = page
    BY <1>2, <1>7
  <2>6. Entries(r[p]) = {r[p].pagetable[i] : i \in 0 .. n - 1} \union {page}
    BY <2>1, <2>2, <2>5
  <2>7. {r[p].pagetable[i] : i \in 0 .. n - 1} = {pcb[p].pagetable[i] : i \in 0 .. n - 1}
    BY <2>4
  <2> QED
    BY <2>6, <2>7 DEF Entries
<1> QED
  BY <1>6, <1>7, <1>8, <1>9, <1>10

\* A page in the first slot that has none: only the slots of this page change.
NewSlot(sp, tp, page, p) ==
  /\ tp \in SlotsType
  /\ HasSlot(tp, page) /\ SlotUsers(tp, page) \subseteq {p}
  /\ \A x \in Page \ {0, page} : /\ HasSlot(tp, x) <=> HasSlot(sp, x)
                                 /\ SlotUsers(tp, x) = SlotUsers(sp, x)

\* A free slot is filled: a search for the new page finds it or an older slot
\* of the page that is empty.
LEMMA NewSlotLemma ==
  ASSUME NEW sp \in SlotsType, NEW page \in Page, page # 0, SlotUsers(sp, page) = {},
         NEW p \in Process, HasSlot(sp, 0),
         NEW tp, tp = [sp EXCEPT ![SlotOf(sp, 0)] = [page |-> page, users |-> {p}]]
  PROVE  NewSlot(sp, tp, page, p)
<1> DEFINE s == SlotOf(sp, 0)
           e == [page |-> page, users |-> {p}]
<1>1. s \in Slot /\ sp[s].page = 0 /\ Slot \subseteq Nat
  BY SlotLemma DEF Slot
<1>2. e \in [page : Page, users : SUBSET Process] /\ e.page = page /\ e.users = {p}
  OBVIOUS
<1> HIDE DEF s, e
<1>3. tp \in SlotsType /\ \A t \in Slot : tp[t] = IF t = s THEN e ELSE sp[t]
  BY <1>1, <1>2 DEF SlotsType, s, e
<1>4. HasSlot(tp, page)
  <2>1. tp[s].page = page
    BY <1>1, <1>2, <1>3
  <2> QED
    BY <1>1, <1>3, <2>1, SlotLemma
<1>5. SlotUsers(tp, page) \subseteq {p}
  <2> DEFINE t == SlotOf(tp, page)
  <2>1. t \in Slot /\ tp[t].page = page /\ \A v \in Slot : tp[v].page = page => t <= v
    BY <1>3, <1>4, SlotLemma, ZenonT(30)
  <2>2. SlotUsers(tp, page) = tp[t].users
    BY <1>4 DEF SlotUsers
  <2> HIDE DEF t
  <2>3. CASE t = s
    BY <1>1, <1>2, <1>3, <2>2, <2>3
  <2>4. CASE t # s
    <3>1. sp[t].page = page /\ tp[t] = sp[t]
      BY <1>3, <2>1, <2>4
    <3>2. /\ HasSlot(sp, page) /\ SlotOf(sp, page) \in Slot
          /\ sp[SlotOf(sp, page)].page = page /\ SlotOf(sp, page) <= t
      BY <2>1, <3>1, SlotLemma
    <3>3. SlotOf(sp, page) # s /\ tp[SlotOf(sp, page)].page = page
      BY <1>1, <1>3, <3>2
    <3>4. t = SlotOf(sp, page)
      <4>1. PICK u \in Slot : u = SlotOf(sp, page)
        BY <3>2
      <4>2. t <= u /\ u <= t /\ t \in Nat /\ u \in Nat
        BY <1>1, <2>1, <3>2, <3>3, <4>1
      <4> QED
        BY <4>1, <4>2
    <3> QED
      BY <2>2, <3>1, <3>2, <3>4 DEF SlotUsers
  <2> QED
    BY <2>3, <2>4
<1>6. ASSUME NEW x \in Page \ {0, page}
      PROVE  /\ HasSlot(tp, x) <=> HasSlot(sp, x)
             /\ SlotUsers(tp, x) = SlotUsers(sp, x)
  <2>1. \A t \in Slot : tp[t].page = x <=> sp[t].page = x
    BY <1>1, <1>2, <1>3
  <2>2. {t \in Slot : tp[t].page = x} = {t \in Slot : sp[t].page = x}
    BY <2>1
  <2>3. SlotOf(tp, x) = SlotIn({t \in Slot : tp[t].page = x}) /\
        SlotOf(sp, x) = SlotIn({t \in Slot : sp[t].page = x})
    BY DEF SlotOf, SlotIn
  <2>4. SlotOf(tp, x) = SlotOf(sp, x)
    BY <2>2, <2>3
  <2>5. HasSlot(tp, x) <=> HasSlot(sp, x)
    BY <2>4 DEF HasSlot
  <2>6. ASSUME HasSlot(sp, x) PROVE tp[SlotOf(sp, x)] = sp[SlotOf(sp, x)]
    BY <1>1, <1>3, <2>6, SlotLemma
  <2> QED
    BY <2>4, <2>5, <2>6 DEF SlotUsers
<1> QED
  BY <1>3, <1>4, <1>5, <1>6 DEF NewSlot

\* What a program does with a page it creates.
MakesPage(g, page) ==
  IF g.handle = 0 THEN [g EXCEPT !.handle = page, !.creator = TRUE] ELSE g

\* The first page that a program creates is the one it tells others of.
LEMMA MakesPageLemma ==
  ASSUME NEW g \in Programs, NEW page, g.handle = 0
  PROVE  MakesPage(g, page) = [handle |-> page, creator |-> TRUE, attached |-> g.attached]
<1> DEFINE u == [g EXCEPT !.handle = page]
<1>1. u = [handle |-> page, creator |-> g.creator, attached |-> g.attached]
  BY DEF Programs
<1>2. MakesPage(g, page) = [u EXCEPT !.creator = TRUE]
  BY DEF MakesPage
<1> HIDE DEF u
<1> QED
  BY <1>1, <1>2

\* A new shared page: it was free, so only its creator has it, whichever slot
\* a search for it finds.
LEMMA CreateSucceeds ==
  ASSUME PagesInv, Running, NEW p \in live,
         pcb[p].npages # PROCESS_MAX_PAGES, HasSlot(spages, 0),
         NEW page, page = AllocatedPage(mem), page # 0,
         mem' = MemoryAllocPage(mem),
         spages' = [spages EXCEPT ![SlotOf(spages, 0)] = [page |-> page, users |-> {p}]],
         pcb' = WithEntry(p, page),
         program' = [program EXCEPT ![p] = MakesPage(program[p], page)],
         UNCHANGED <<live, stopped>>
  PROVE  PagesInv'
<1>1. /\ TypeOK /\ TablesAreSound /\ UsersHoldPages /\ HandlesAreShared
      /\ live \subseteq Process /\ pcb \in [Process -> PCBs] /\ spages \in SlotsType
      /\ program \in [Process -> Programs] /\ p \in Process
  BY InvLemma DEF TypeOK
<1>2. /\ Sound(mem') /\ page \in FreePages(mem) /\ FreePages(mem') = FreePages(mem) \ {page}
      /\ page \in UserPage /\ page \in Page
  BY InvLemma, AllocLemma, UserPageLemma
<1>3. Holders(page) = {} /\ \A q \in live : page \notin Held(q)
  BY <1>2, InvLemma
<1>4. UsersOf(page) = {}
  BY <1>1, <1>2, <1>3 DEF UsersHoldPages
<1>5. pcb[p].npages \in 1 .. PROCESS_MAX_PAGES - 1 /\ pcb[p].npages < PROCESS_MAX_PAGES
  BY <1>1, FirstEntryLemma, PagesAssumption
<1>6. /\ pcb' \in [Process -> PCBs]
      /\ \A q \in live \ {p} : pcb'[q] = pcb[q]
      /\ pcb'[p].npages = pcb[p].npages + 1 /\ pcb'[p].sysStackArea = pcb[p].sysStackArea
      /\ \A i \in 0 .. pcb[p].npages :
           pcb'[p].pagetable[i] = IF i = pcb[p].npages THEN page ELSE pcb[p].pagetable[i]
      /\ pcb'[p].pagetable[0] = pcb[p].pagetable[0]
      /\ Entries(pcb'[p]) = Entries(pcb[p]) \union {page}
  BY <1>1, <1>2, <1>5, WithEntryLemma
<1>7. /\ spages' \in SlotsType
      /\ HasSlot(spages', page) /\ UsersOf(page)' \subseteq {p}
      /\ \A x \in Page \ {0, page} : /\ HasSlot(spages', x) <=> HasSlot(spages, x)
                                     /\ UsersOf(x)' = UsersOf(x)
  <2>1. SlotUsers(spages, page) = {}
    BY <1>4 DEF UsersOf
  <2>2. NewSlot(spages, spages', page, p)
    BY <1>1, <1>2, <2>1, NewSlotLemma
  <2> QED
    BY <2>2 DEF UsersOf, NewSlot
<1>8. /\ \A q \in live : /\ Held(q)' = IF q = p THEN Held(q) \union {page} ELSE Held(q)
                         /\ Private(q)' = Private(q)
  <2>1. \A q : /\ Held(q)' = Entries(pcb'[q]) \union {pcb'[q].sysStackArea}
               /\ Private(q)' = {pcb'[q].pagetable[0], pcb'[q].sysStackArea}
    BY DEF Held, Entries, Private
  <2> QED
    BY <1>6, <2>1, HeldLemma, ZenonT(30) DEF Private
<1>9. \A x : Holders(x)' = IF x = page THEN Holders(x) \union {p} ELSE Holders(x)
  BY <1>6 DEF Holders
<1>10. /\ \A q \in live \ {p} : program'[q] = program[q]
       /\ program[p].handle # 0 => program'[p] = program[p]
       /\ program[p].handle = 0 => /\ program'[p].handle = page /\ program'[p].creator = TRUE
                                   /\ program'[p].attached = program[p].attached
       /\ program' \in [Process -> Programs]
  <2>1. program[p] \in Programs
    BY <1>1
  <2>2. CASE program[p].handle = 0
    <3> DEFINE g == [handle |-> page, creator |-> TRUE, attached |-> program[p].attached]
    <3>1. program' = [program EXCEPT ![p] = g]
      BY <2>1, <2>2, MakesPageLemma
    <3>2. g \in Programs
      BY <1>2, <2>1 DEF Programs
    <3>3. g.handle = page /\ g.creator = TRUE /\ g.attached = program[p].attached
      OBVIOUS
    <3> HIDE DEF g
    <3> QED
      BY <1>1, <2>2, <3>1, <3>2, <3>3
  <2>3. CASE program[p].handle # 0
    <3>1. program' = [program EXCEPT ![p] = program[p]]
      BY <2>3 DEF MakesPage
    <3> QED
      BY <1>1, <2>3, <3>1
  <2> QED
    BY <2>2, <2>3
<1>11. TypeOK'
  <2>1. mem' \in Memories
    BY <1>2 DEF Sound
  <2> QED
    BY <1>1, <1>6, <1>7, <1>10, <2>1 DEF TypeOK, PCBs, SlotsType
<1>12. TablesAreSound'
  <2>1. ASSUME NEW q \in live, NEW i \in 1 .. pcb[q].npages - 1
        PROVE  HasSlot(spages', pcb[q].pagetable[i])
    <3>1. /\ HasSlot(spages, pcb[q].pagetable[i])
          /\ pcb[q].pagetable[i] \in Held(q) /\ Held(q) \subseteq UserPage
      <4>1. i \in 0 .. pcb[q].npages - 1
        BY <1>1 DEF PCBs
      <4> QED
        BY <1>1, <4>1, InvLemma DEF TablesAreSound, TableIsSound, Held
    <3>2. pcb[q].pagetable[i] \in Page \ {0, page}
      BY <1>3, <3>1, UserPageLemma
    <3> QED
      BY <1>7, <3>1, <3>2
  <2>2. ASSUME NEW q \in live \ {p}
        PROVE  TableIsSound(q)'
    <3>1. pcb'[q] = pcb[q] /\ Held(q)' = Held(q) /\ TableIsSound(q)
      BY <1>1, <1>6, <1>8 DEF TablesAreSound
    <3>2. Held(q)' \subseteq UserPage \ FreePages(mem')
      BY <1>2, <3>1 DEF TableIsSound
    <3>3. \A i \in 1 .. pcb'[q].npages - 1 : HasSlot(spages', pcb'[q].pagetable[i])
      BY <2>1, <3>1
    <3>4. /\ pcb'[q].npages >= 1
          /\ \A i, j \in 0 .. pcb'[q].npages - 1 :
               pcb'[q].pagetable[i] = pcb'[q].pagetable[j] => i = j
          /\ pcb'[q].sysStackArea \notin Entries(pcb'[q])
      BY <3>1 DEF TableIsSound
    <3> QED
      BY <3>2, <3>3, <3>4 DEF TableIsSound
  <2>3. pcb'[p].sysStackArea \notin Entries(pcb'[p])
    BY <1>1, <1>3, <1>6, HeldLemma DEF TablesAreSound, TableIsSound
  <2>4. Held(p)' \subseteq UserPage \ FreePages(mem')
    BY <1>1, <1>2, <1>8, InvLemma
  <2>5. \A i \in 0 .. pcb[p].npages - 1 : /\ pcb'[p].pagetable[i] = pcb[p].pagetable[i]
                                          /\ pcb[p].pagetable[i] # page
    BY <1>3, <1>5, <1>6 DEF Held
  <2>6. pcb'[p].pagetable[pcb[p].npages] = page /\ pcb'[p].npages >= 1
    BY <1>5, <1>6
  <2>7. \A i, j \in 0 .. pcb'[p].npages - 1 :
          pcb'[p].pagetable[i] = pcb'[p].pagetable[j] => i = j
    <3>1. \A i \in 0 .. pcb'[p].npages - 1 :
            i \in 0 .. pcb[p].npages - 1 \/ i = pcb[p].npages
      BY <1>5, <1>6
    <3> QED
      BY <1>1, <2>5, <2>6, <3>1 DEF TablesAreSound, TableIsSound
  <2>8. \A i \in 1 .. pcb'[p].npages - 1 : HasSlot(spages', pcb'[p].pagetable[i])
    <3>1. \A i \in 1 .. pcb'[p].npages - 1 :
            \/ i \in 1 .. pcb[p].npages - 1 /\ i \in 0 .. pcb[p].npages - 1
            \/ i = pcb[p].npages
      BY <1>5, <1>6
    <3> QED
      BY <1>7, <2>1, <2>5, <2>6, <3>1, ZenonT(30)
  <2>9. TableIsSound(p)'
    BY <2>3, <2>4, <2>6, <2>7, <2>8 DEF TableIsSound
  <2> QED
    BY <2>2, <2>9 DEF TablesAreSound
<1>13. UsersHoldPages'
  <2>1. ASSUME NEW x \in UserPage
        PROVE  /\ UsersOf(x)' \subseteq Holders(x)'
               /\ \A q, r \in Holders(x)' : q # r => q \in UsersOf(x)'
    <3>1. CASE x = page
      BY <1>3, <1>7, <1>9, <3>1
    <3>2. CASE x # page
      BY <1>1, <1>7, <1>9, <3>2, UserPageLemma DEF UsersHoldPages
    <3> QED
      BY <3>1, <3>2
  <2> QED
    BY <2>1 DEF UsersHoldPages
<1>14. HandlesAreShared'
  <2>1. program[p].handle = 0 => ~program[p].attached /\ ~program[p].creator
    BY <1>1, UserPageLemma DEF HandlesAreShared
  <2>2. \A x : ToldOf(x) => ToldOf(x)'
    BY <1>10, <2>1 DEF ToldOf
  <2>3. ASSUME NEW q \in live, NEW x, x = program[q].handle, x # 0
        PROVE  /\ HandleIsShared(q, x)' /\ x \in UserPage /\ x # page
               /\ program'[q] = program[q]
    <3>1. HandleIsShared(q, x) /\ x \in UserPage \ FreePages(mem)
      BY <2>3, HandleLemma
    <3>2. x # page /\ x \in Page \ {0, page} /\ program'[q] = program[q]
      BY <1>2, <1>10, <2>3, <3>1, UserPageLemma
    <3>3. /\ \A r \in live' : x \notin Private(r)'
          /\ \A r \in live' \ {q} : r \in Holders(x)' => r \in UsersOf(x)'
      BY <1>7, <1>8, <1>9, <3>1, <3>2 DEF HandleIsShared
    <3>4. program'[q].creator \/ program'[q].attached \/ ToldOf(x)'
      BY <2>2, <3>1, <3>2 DEF HandleIsShared
    <3> QED
      BY <3>1, <3>2, <3>3, <3>4 DEF HandleIsShared
  <2>4. HandleIsShared(p, page)' \/ program[p].handle # 0
    <3> SUFFICES ASSUME program[p].handle = 0 PROVE HandleIsShared(p, page)'
      OBVIOUS
    <3>1. \A r \in live' : page \notin Private(r)'
      BY <1>3, <1>8, InvLemma
    <3>2. \A r \in live' \ {p} : r \notin Holders(page)'
      BY <1>3, <1>9
    <3> QED
      BY <1>10, <3>1, <3>2 DEF HandleIsShared
  <2>5. ASSUME NEW q \in live, NEW x, x = program'[q].handle
        PROVE  /\ x # 0 => HandleIsShared(q, x)'
               /\ program'[q].attached \/ program'[q].creator =>
                    x \in UserPage /\ q \in Holders(x)'
               /\ program'[q].attached => q \in UsersOf(x)'
    <3>1. CASE program[q].handle # 0
      <4>1. /\ HandleIsShared(q, x)' /\ x \in UserPage /\ x # page
            /\ program'[q] = program[q]
        BY <2>3, <2>5, <3>1
      <4>2. UsersOf(x)' = UsersOf(x) /\ Holders(x)' = Holders(x)
        BY <1>7, <1>9, <4>1, UserPageLemma
      <4> QED
        BY <1>1, <2>5, <4>1, <4>2 DEF HandlesAreShared
    <3>2. CASE program[q].handle = 0 /\ q = p
      BY <1>2, <1>9, <1>10, <2>1, <2>4, <2>5, <3>2
    <3>3. CASE program[q].handle = 0 /\ q # p
      BY <1>1, <1>10, <2>5, <3>3, UserPageLemma DEF HandlesAreShared
    <3> QED
      BY <3>1, <3>2, <3>3
  <2> QED
    BY <2>5 DEF HandlesAreShared
<1>15. PrivatePagesAreOwned'
  <2>1. \A q \in live : pcb'[q].pagetable[0] = pcb[q].pagetable[0]
                        /\ pcb'[q].sysStackArea = pcb[q].sysStackArea
    BY <1>6
  <2>2. \A q \in live : page \notin Private(q)
    BY <1>3, InvLemma
  <2> QED
    BY <1>8, <2>1, <2>2, InvLemma DEF PrivatePagesAreOwned
<1>16. NoPageLost'
  <2>1. \A x \in UserPage : x \in FreePages(mem') \/ \E q \in live' : x \in Held(q)'
    BY <1>2, <1>8, InvLemma
  <2> QED
    BY <2>1 DEF NoPageLost, FreePages
<1> QED
  BY <1>2, <1>11, <1>12, <1>13, <1>14, <1>15, <1>16 DEF PagesInv

\* A program when it has mapped its page.
MapsPage(g) == [g EXCEPT !.attached = TRUE]

\* A program that maps its page stays the same otherwise.
LEMMA MapsPageLemma ==
  ASSUME NEW g \in Programs
  PROVE  MapsPage(g) = [handle |-> g.handle, creator |-> g.creator, attached |-> TRUE]
<1>1. g = [handle |-> g.handle, creator |-> g.creator, attached |-> g.attached]
  BY DEF Programs
<1>2. PICK v : v = TRUE
  OBVIOUS
<1>3. MapsPage(g) = [g EXCEPT !.attached = v]
  BY <1>2, Zenon DEF MapsPage
<1>4. [g EXCEPT !.attached = v] = [handle |-> g.handle, creator |-> g.creator, attached |-> v]
  <2>1. \A x, y, z : [[handle |-> x, creator |-> y, attached |-> z] EXCEPT !.attached = v] =
                       [handle |-> x, creator |-> y, attached |-> v]
    OBVIOUS
  <2> QED
    BY <1>1, <2>1
<1> QED
  BY <1>2, <1>3, <1>4, Zenon

\* A process maps the page it was told of, or maps a page again: all others
\* that have the page are in its slot already.
LEMMA MapSucceeds ==
  ASSUME PagesInv, Running, NEW p \in live,
         NEW h, h = program[p].handle, h # 0, HasSlot(spages, h),
         h \in Entries(pcb[p]) \/ pcb[p].npages < PROCESS_MAX_PAGES,
         pcb' = IF h \in Entries(pcb[p]) THEN pcb ELSE WithEntry(p, h),
         spages' = WithUsers(spages, SlotOf(spages, h), UsersOf(h) \union {p}),
         program' = [program EXCEPT ![p] = MapsPage(program[p])],
         UNCHANGED <<mem, live, stopped>>
  PROVE  PagesInv'
<1>1. /\ TypeOK /\ TablesAreSound /\ UsersHoldPages /\ HandlesAreShared /\ Sound(mem)
      /\ live \subseteq Process /\ pcb \in [Process -> PCBs] /\ spages \in SlotsType
      /\ program \in [Process -> Programs] /\ p \in Process
  BY InvLemma DEF TypeOK
<1>2. HandleIsShared(p, h) /\ h \in UserPage /\ h \notin FreePages(mem) /\ h \in Page
  BY HandleLemma, UserPageLemma
<1>3. h \notin Private(p)
  BY <1>2 DEF HandleIsShared
<1>4. /\ pcb' \in [Process -> PCBs]
      /\ \A q \in live \ {p} : pcb'[q] = pcb[q]
      /\ pcb'[p].sysStackArea = pcb[p].sysStackArea
      /\ pcb'[p].pagetable[0] = pcb[p].pagetable[0]
      /\ Entries(pcb'[p]) = Entries(pcb[p]) \union {h}
  <2>1. CASE h \in Entries(pcb[p])
    BY <1>1, <2>1
  <2>2. CASE h \notin Entries(pcb[p])
    <3>1. pcb[p].npages \in 1 .. PROCESS_MAX_PAGES
      BY <1>1, FirstEntryLemma
    <3> QED
      BY <1>1, <1>2, <2>2, <3>1, WithEntryLemma
  <2> QED
    BY <2>1, <2>2
<1>5. /\ spages' \in SlotsType /\ SamePages(spages, spages')
      /\ \A x : UsersOf(x)' = IF x = h THEN UsersOf(x) \union {p} ELSE UsersOf(x)
  <2>1. UsersOf(h) \union {p} \in SUBSET Process
    BY <1>1, <1>2, InvLemma DEF UsersHoldPages
  <2>2. /\ spages' \in SlotsType /\ SamePages(spages, spages')
        /\ \A x : SlotUsers(spages', x) = IF x = h THEN UsersOf(h) \union {p} ELSE SlotUsers(spages, x)
    BY <1>1, <2>1, NewUsersLemma
  <2> QED
    BY <2>2 DEF UsersOf
<1>6. \A x : HasSlot(spages', x) <=> HasSlot(spages, x)
  BY <1>5, SamePagesLemma
<1>7. \A q \in live : /\ Held(q)' = IF q = p THEN Held(q) \union {h} ELSE Held(q)
                      /\ Private(q)' = Private(q)
  <2>1. \A q : /\ Held(q)' = Entries(pcb'[q]) \union {pcb'[q].sysStackArea}
               /\ Private(q)' = {pcb'[q].pagetable[0], pcb'[q].sysStackArea}
    BY DEF Held, Entries, Private
  <2> QED
    BY <1>4, <2>1, HeldLemma, ZenonT(30) DEF Private
<1>8. \A x : Holders(x)' = IF x = h THEN Holders(x) \union {p} ELSE Holders(x)
  BY <1>4 DEF Holders
<1>9. /\ \A q \in live \ {p} : program'[q] = program[q]
      /\ program'[p].handle = h /\ program'[p].attached = TRUE
      /\ program'[p].creator = program[p].creator
      /\ program' \in [Process -> Programs]
  <2> DEFINE g == MapsPage(program[p])
  <2>1. program[p] \in Programs
    BY <1>1
  <2>2. g = [handle |-> h, creator |-> program[p].creator, attached |-> TRUE]
    BY <2>1, MapsPageLemma
  <2>3. program' = [program EXCEPT ![p] = g]
    OBVIOUS
  <2> HIDE DEF g
  <2>4. g \in Programs /\ g.handle = h /\ g.creator = program[p].creator /\ g.attached = TRUE
    BY <1>2, <2>1, <2>2 DEF Programs
  <2> QED
    BY <1>1, <2>3, <2>4
<1>10. TypeOK'
  <2>1. mem' \in Memories /\ stopped' \in {"no", "idle", "nomemory"} /\ live' \subseteq Process
    BY <1>1 DEF TypeOK
  <2> QED
    BY <1>4, <1>5, <1>9, <2>1 DEF TypeOK, PCBs, SlotsType
<1>11. TablesAreSound'
  <2>1. ASSUME NEW q \in live, pcb'[q] = pcb[q]
        PROVE  TableIsSound(q)'
    <3>1. TableIsSound(q)
      BY <1>1 DEF TablesAreSound
    <3>2. Held(q)' \subseteq UserPage \ FreePages(mem')
      BY <1>2, <1>7, <3>1 DEF TableIsSound
    <3>3. /\ pcb'[q].npages >= 1
          /\ \A i, j \in 0 .. pcb'[q].npages - 1 :
               pcb'[q].pagetable[i] = pcb'[q].pagetable[j] => i = j
          /\ pcb'[q].sysStackArea \notin Entries(pcb'[q])
          /\ \A i \in 1 .. pcb'[q].npages - 1 : HasSlot(spages', pcb'[q].pagetable[i])
      BY <1>6, <2>1, <3>1, ZenonT(30) DEF TableIsSound
    <3> QED
      BY <3>2, <3>3 DEF TableIsSound
  <2>2. ASSUME h \notin Entries(pcb[p])
        PROVE  TableIsSound(p)'
    <3> DEFINE n == pcb[p].npages
    <3>1. /\ pcb'[p].npages = n + 1 /\ pcb'[p].sysStackArea = pcb[p].sysStackArea
          /\ \A i \in 0 .. n : pcb'[p].pagetable[i] = IF i = n THEN h ELSE pcb[p].pagetable[i]
      BY <1>1, <1>2, <2>2, WithEntryLemma
    <3>2. TableIsSound(p) /\ n \in Nat /\ n >= 1
      BY <1>1, FirstEntryLemma DEF TablesAreSound
    <3>3. \A i \in 0 .. n - 1 : pcb[p].pagetable[i] # h
      BY <2>2 DEF Entries
    <3>4. Held(p)' \subseteq UserPage \ FreePages(mem')
      BY <1>2, <1>7, <3>2 DEF TableIsSound
    <3>5. pcb'[p].sysStackArea \notin Entries(pcb'[p])
      BY <1>3, <1>4, <3>2 DEF TableIsSound, Private
    <3> HIDE DEF n
    <3>6. \A i \in 0 .. pcb'[p].npages - 1 :
            \/ i \in 0 .. n - 1 /\ pcb'[p].pagetable[i] = pcb[p].pagetable[i]
            \/ i = n /\ pcb'[p].pagetable[i] = h
      BY <3>1, <3>2
    <3>7. /\ pcb'[p].npages >= 1
          /\ \A i, j \in 0 .. pcb'[p].npages - 1 :
               pcb'[p].pagetable[i] = pcb'[p].pagetable[j] => i = j
      BY <3>1, <3>2, <3>3, <3>6, SMTT(30) DEF TableIsSound, n
    <3>8. \A i \in 1 .. pcb'[p].npages - 1 : HasSlot(spages', pcb'[p].pagetable[i])
      <4>1. \A i \in 1 .. pcb'[p].npages - 1 : i \in 0 .. pcb'[p].npages - 1 /\ i # 0
        BY <3>1, <3>2
      <4>2. \A i \in 0 .. n - 1 : i # 0 => HasSlot(spages, pcb[p].pagetable[i])
        BY <3>2 DEF TableIsSound, n
      <4> QED
        BY <1>6, <3>6, <4>1, <4>2
    <3> QED
      BY <3>4, <3>5, <3>7, <3>8 DEF TableIsSound
  <2>3. h \in Entries(pcb[p]) => pcb'[p] = pcb[p]
    OBVIOUS
  <2> QED
    BY <1>4, <2>1, <2>2, <2>3 DEF TablesAreSound
<1>12. UsersHoldPages'
  <2>1. ASSUME NEW x \in UserPage
        PROVE  /\ UsersOf(x)' \subseteq Holders(x)'
               /\ \A q, r \in Holders(x)' : q # r => q \in UsersOf(x)'
    <3>1. CASE x = h
      <4>1. \A q \in Holders(h) : q # p => q \in UsersOf(h)
        BY <1>2 DEF HandleIsShared, Holders
      <4> QED
        BY <1>1, <1>5, <1>8, <3>1, <4>1 DEF UsersHoldPages
    <3>2. CASE x # h
      BY <1>1, <1>5, <1>8, <3>2 DEF UsersHoldPages
    <3> QED
      BY <3>1, <3>2
  <2> QED
    BY <2>1 DEF UsersHoldPages
<1>13. HandlesAreShared'
  <2>1. \A x : ToldOf(x) => ToldOf(x)'
    BY <1>9 DEF ToldOf
  <2>2. ASSUME NEW q \in live, NEW x, x = program[q].handle, x # 0
        PROVE  HandleIsShared(q, x)'
    <3>1. HandleIsShared(q, x)
      BY <2>2, HandleLemma
    <3>2. \A r \in live' : x \notin Private(r)'
      BY <1>7, <3>1 DEF HandleIsShared
    <3>3. \A r \in live' \ {q} : r \in Holders(x)' => r \in UsersOf(x)'
      BY <1>5, <1>8, <3>1 DEF HandleIsShared
    <3>4. program'[q].creator \/ program'[q].attached \/ ToldOf(x)'
      BY <1>9, <2>1, <3>1 DEF HandleIsShared
    <3> QED
      BY <3>2, <3>3, <3>4 DEF HandleIsShared
  <2>3. ASSUME NEW q \in live, NEW x, x = program[q].handle
        PROVE  /\ program'[q].handle = x
               /\ x # 0 => HandleIsShared(q, x)'
               /\ program'[q].attached \/ program'[q].creator =>
                    x \in UserPage /\ q \in Holders(x)'
               /\ program'[q].attached => q \in UsersOf(x)'
    <3>1. CASE q = p
      BY <1>2, <1>5, <1>8, <1>9, <2>2, <2>3, <3>1
    <3>2. CASE q # p
      BY <1>1, <1>5, <1>8, <1>9, <2>2, <2>3, <3>2 DEF HandlesAreShared
    <3> QED
      BY <3>1, <3>2
  <2> QED
    BY <2>3 DEF HandlesAreShared
<1>14. PrivatePagesAreOwned'
  <2>1. \A q \in live : pcb'[q].pagetable[0] = pcb[q].pagetable[0]
                        /\ pcb'[q].sysStackArea = pcb[q].sysStackArea
    BY <1>4
  <2>2. \A q \in live : h \notin Private(q)
    BY <1>2 DEF HandleIsShared
  <2> QED
    BY <1>7, <2>1, <2>2, InvLemma DEF PrivatePagesAreOwned
<1>15. NoPageLost'
  <2>1. \A x \in UserPage : x \in FreePages(mem') \/ \E q \in live' : x \in Held(q)'
    BY <1>7, InvLemma
  <2> QED
    BY <2>1 DEF NoPageLost, FreePages
<1> QED
  BY <1>1, <1>10, <1>11, <1>12, <1>13, <1>14, <1>15 DEF PagesInv

-----------------------------------------------------------------------------
(* The theorems *)

\* ProcessFork for a program that is told of no page or of a mapped one.
LEMMA ForkKeepsInv ==
  ASSUME PagesInv, Running, NEW p \in Process, NEW h, h = 0 \/ ToldOf(h), ProcessFork(p, h)
  PROVE  PagesInv'
<1> DEFINE page == AllocatedPage(mem)
           m == MemoryAllocPage(mem)
           stack == AllocatedPage(m)
           m2 == MemoryAllocPage(m)
           new == NewPCB(p, page, stack)
           c == ProcessFreeResources(m2, spages, p, new)
<1>1. CASE /\ page = 0 \/ stack = 0
           /\ mem' = m2
           /\ StopFor("nomemory")
  <2>1. Sound(m2)
    BY InvLemma, AllocLemma
  <2> QED
    BY <1>1, <2>1, StopLemma
<1>2. CASE /\ page # 0 /\ stack # 0
           /\ mem' = m2
           /\ pcb' = [pcb EXCEPT ![p] = NewPCB(p, page, stack)]
           /\ live' = live \union {p}
           /\ program' = [program EXCEPT ![p] = NewProgram(h)]
           /\ UNCHANGED <<spages, stopped>>
  <2>1. p \notin live
    BY DEF ProcessFork
  <2> QED
    BY <1>2, <2>1, ForkSucceeds
<1>3. CASE /\ page # 0 /\ stack # 0
           /\ mem' = c.mem /\ spages' = c.spages
           /\ pcb' = [pcb EXCEPT ![p] = [new EXCEPT !.npages = c.npages]]
           /\ UNCHANGED <<live, program, stopped>>
  <2>1. p \notin live
    BY DEF ProcessFork
  <2> QED
    BY <1>3, <2>1, ForkFails
<1> QED
  BY <1>1, <1>2, <1>3 DEF ProcessFork

\* The exit trap, for the last process or another.
LEMMA ExitKeepsInv ==
  ASSUME PagesInv, Exit
  PROVE  PagesInv'
<1>1. Running
  BY DEF Exit
<1>2. PICK p \in live :
       /\ program[p].creator =>
            \A q \in live \ {p} :
              program[q].handle = program[p].handle => program[q].attached
       /\ IF live = {p}
          THEN /\ StopFor("idle")
               /\ UNCHANGED mem
          ELSE LET c == ProcessFreeResources(mem, spages, p, pcb[p])
               IN  /\ mem' = c.mem
                   /\ spages' = c.spages
                   /\ pcb' = [pcb EXCEPT ![p].npages = c.npages]
                   /\ live' = live \ {p}
                   /\ UNCHANGED <<program, stopped>>
  BY Zenon DEF Exit
<1>3. CASE live = {p}
  <2>1. StopFor("idle") /\ mem' = mem
    BY <1>2, <1>3, Zenon
  <2>2. Sound(mem')
    BY <1>1, <2>1, InvLemma
  <2> QED
    BY <1>1, <2>1, <2>2, StopLemma
<1>4. CASE live # {p}
  <2> DEFINE c == ProcessFreeResources(mem, spages, p, pcb[p])
  <2>1. /\ mem' = c.mem
        /\ spages' = c.spages
        /\ pcb' = [pcb EXCEPT ![p] = [pcb[p] EXCEPT !.npages = c.npages]]
        /\ live' = live \ {p}
        /\ UNCHANGED <<program, stopped>>
    BY <1>2, <1>4, Zenon
  <2>2. program[p].creator =>
          \A q \in live \ {p} :
            program[q].handle = program[p].handle => program[q].attached
    BY <1>2, Zenon
  <2> QED
    BY <1>1, <2>1, <2>2, ExitFrees
<1> QED
  BY <1>3, <1>4

\* The shmget trap.
LEMMA CreateKeepsInv ==
  ASSUME PagesInv, ShareCreatePage
  PROVE  PagesInv'
<1> DEFINE page == AllocatedPage(mem)
<1>1. Running
  BY DEF ShareCreatePage
<1>2. PICK p \in live :
       /\ pcb[p].npages # PROCESS_MAX_PAGES /\ HasSlot(spages, 0)
       /\ mem' = MemoryAllocPage(mem)
       /\ \/ page = 0 /\ StopFor("nomemory")
          \/ /\ page # 0
             /\ spages' = [spages EXCEPT ![SlotOf(spages, 0)] = [page |-> page, users |-> {p}]]
             /\ pcb' = WithEntry(p, page)
             /\ program' = [program EXCEPT ![p] = MakesPage(program[p], page)]
             /\ UNCHANGED <<live, stopped>>
  BY Zenon DEF ShareCreatePage, MemoryCreateSharedPage, HasSlot, MakesPage
<1>3. CASE page = 0
  <2>1. Sound(mem')
    BY <1>1, <1>2, InvLemma, AllocLemma
  <2> QED
    BY <1>1, <1>2, <1>3, <2>1, StopLemma
<1>4. CASE page # 0
  BY <1>1, <1>2, <1>4, CreateSucceeds
<1> QED
  BY <1>3, <1>4

\* The shmat trap.
LEMMA MapKeepsInv ==
  ASSUME PagesInv, ShareMapPage
  PROVE  PagesInv'
<1>1. Running
  BY DEF ShareMapPage
<1>2. PICK p \in live :
       /\ mmap(p, program[p].handle)
       /\ program' = [program EXCEPT ![p] = MapsPage(program[p])]
       /\ UNCHANGED <<mem, live, stopped>>
  BY Zenon DEF ShareMapPage, MapsPage
<1>3. PICK h : h = program[p].handle
  OBVIOUS
<1>4. /\ h # 0 /\ HasSlot(spages, h)
      /\ InTable(p, h) \/ pcb[p].npages < PROCESS_MAX_PAGES
      /\ pcb' = IF InTable(p, h) THEN pcb ELSE WithEntry(p, h)
      /\ spages' = WithUsers(spages, SlotOf(spages, h),
                             spages[SlotOf(spages, h)].users \union {p})
  <2>1. mmap(p, h)
    BY <1>2, <1>3
  <2> QED
    BY <2>1, Zenon DEF mmap, HasSlot, WithUsers
<1>5. spages[SlotOf(spages, h)].users = UsersOf(h)
  BY <1>4 DEF UsersOf, SlotUsers
<1>6. InTable(p, h) <=> h \in Entries(pcb[p])
  BY HeldLemma
<1> QED
  BY <1>1, <1>2, <1>3, <1>4, <1>5, <1>6, MapSucceeds

\* PagesInv is inductive, if programs map their page before they fork.
LEMMA PagesStep ==
  ASSUME MAPS_FIRST, PagesInv, [Next]_vars
  PROVE  PagesInv'
<1>1. CASE ProcessCreate
  <2>1. PICK q \in live, p \in Process :
          /\ program[q].creator /\ MAPS_FIRST => program[q].attached
          /\ ProcessFork(p, IF program[q].creator THEN program[q].handle ELSE 0)
    BY <1>1 DEF ProcessCreate
  <2>2. Running
    BY <1>1 DEF ProcessCreate
  <2> DEFINE h == IF program[q].creator THEN program[q].handle ELSE 0
  <2>3. h = 0 \/ ToldOf(h)
    BY <2>1 DEF ToldOf
  <2>4. ProcessFork(p, h)
    BY <2>1
  <2> HIDE DEF h
  <2> QED
    BY <2>2, <2>3, <2>4, ForkKeepsInv
<1>2. CASE UNCHANGED vars
  <2>1. UNCHANGED <<mem, spages, pcb, live, program, stopped>>
    BY <1>2 DEF vars
  <2> QED
    <3>1. TypeOK' <=> TypeOK
      BY <2>1 DEF TypeOK
    <3>2. Running' <=> Running
      BY <2>1 DEF Running
    <3>3. Sound(mem') <=> Sound(mem)
      BY <2>1
    <3>4. \A p : Held(p)' = Held(p) /\ Private(p)' = Private(p)
      BY <2>1 DEF Held, Private
    <3>5. \A x : Holders(x)' = Holders(x) /\ UsersOf(x)' = UsersOf(x) /\ (ToldOf(x)' <=> ToldOf(x))
      BY <2>1 DEF Holders, UsersOf, ToldOf
    <3>6. TablesAreSound' <=> TablesAreSound
      BY <2>1, <3>4 DEF TablesAreSound, TableIsSound
    <3>7. UsersHoldPages' <=> UsersHoldPages
      BY <3>5 DEF UsersHoldPages
    <3>8. \A p, x : HandleIsShared(p, x)' <=> HandleIsShared(p, x)
      BY <2>1, <3>4, <3>5 DEF HandleIsShared
    <3>9. HandlesAreShared' <=> HandlesAreShared
      BY <2>1, <3>5, <3>8 DEF HandlesAreShared
    <3>10. PrivatePagesAreOwned' <=> PrivatePagesAreOwned
      BY <2>1, <3>2, <3>4 DEF PrivatePagesAreOwned
    <3>11. NoPageLost' <=> NoPageLost
      BY <2>1, <3>2, <3>4 DEF NoPageLost
    <3> QED
      BY <3>1, <3>2, <3>3, <3>6, <3>7, <3>9, <3>10, <3>11 DEF PagesInv
<1> QED
  BY <1>1, <1>2, ExitKeepsInv, CreateKeepsInv, MapKeepsInv DEF Next, Stopped

\* The inductive invariant of the pages holds if programs map their page before
\* they fork.
THEOREM PagesInvariant == ASSUME MAPS_FIRST PROVE Spec => []PagesInv
<1>1. Init => PagesInv
  BY PagesInit
<1>2. PagesInv /\ [Next]_vars => PagesInv'
  BY PagesStep
<1> QED
  BY <1>1, <1>2, PTL DEF Spec

\* The count of free pages always agrees with the bitmap, so that the search of
\* MemoryAllocPage ends: no page is freed twice, by whichever way.
THEOREM MemoryKeepsAgreeing == ASSUME MAPS_FIRST PROVE Spec => []MemoryAgrees
<1>1. PagesInv => MemoryAgrees
  BY DEF PagesInv, MemoryAgrees, Sound
<1> QED
  BY <1>1, PagesInvariant, PTL

\* Two processes never share the page of a program or a system stack.
THEOREM PrivatePagesStayOwned == ASSUME MAPS_FIRST PROVE Spec => []PrivatePagesAreOwned
<1>1. PagesInv => PrivatePagesAreOwned
  BY DEF PagesInv, PrivatePagesAreOwned
<1> QED
  BY <1>1, PagesInvariant, PTL

\* A page stays allocated while a process has it in its table or as its stack.
THEOREM HeldPagesAreNeverFree == ASSUME MAPS_FIRST PROVE Spec => []HeldPagesAreNotFree
<1>1. PagesInv => HeldPagesAreNotFree
  <2> SUFFICES ASSUME PagesInv, Running, NEW p \in live, NEW page \in Held(p)
               PROVE  ~ IsFree(mem, page)
    BY DEF HeldPagesAreNotFree
  <2>1. page \in UserPage \ FreePages(mem)
    BY InvLemma
  <2> QED
    BY <2>1, UserPageLemma DEF FreePages
<1> QED
  BY <1>1, PagesInvariant, PTL

\* When the last process that has a page ends, the page is free again.
THEOREM NoPageIsEverLost == ASSUME MAPS_FIRST PROVE Spec => []NoPageLost
<1>1. PagesInv => NoPageLost
  BY DEF PagesInv, NoPageLost
<1> QED
  BY <1>1, PagesInvariant, PTL
-----------------------------------------------------------------------------
(***************************************************************************)
(* What holds whatever programs do with their pages: the types, and that   *)
(* no entry of a page table in use is 0.  It is inductive, so none of the  *)
(* theorems on copies below needs MAPS_FIRST.                              *)
(***************************************************************************)
EntriesAreSet == \A p \in live : 0 \notin Entries(pcb[p])

TablesInv == TypeOK /\ BitsArePages(mem) /\ EntriesAreSet

\* The parts of TypeOK under the names that the lemmas use.
LEMMA TypesLemma ==
  TypeOK <=> /\ mem \in Memories /\ spages \in SlotsType /\ pcb \in [Process -> PCBs]
             /\ live \subseteq Process /\ program \in [Process -> Programs]
             /\ stopped \in {"no", "idle", "nomemory"}
BY DEF TypeOK, SlotsType, PCBs

\* The first state.
LEMMA TablesInit ==
  ASSUME Init
  PROVE  TablesInv
<1>1. PagesInv /\ Running
  BY PagesInit DEF Init, Running
<1>2. TypeOK /\ Sound(mem) /\ TablesAreSound
  BY <1>1 DEF PagesInv
<1>3. BitsArePages(mem)
  BY <1>2, UserPageLemma DEF Sound, CountAgrees, BitsArePages
<1>4. EntriesAreSet
  BY <1>2, HeldLemma, UserPageLemma DEF EntriesAreSet, TablesAreSound, TableIsSound
<1> QED
  BY <1>2, <1>3, <1>4 DEF TablesInv

\* The kernel exits: only the memory may have changed.
LEMMA StopKeepsTables ==
  ASSUME TablesInv, mem' \in Memories, BitsArePages(mem'),
         NEW why \in {"idle", "nomemory"}, StopFor(why)
  PROVE  TablesInv'
<1>1. stopped' = why /\ UNCHANGED <<spages, pcb, live, program>>
  BY DEF StopFor
<1>2. TypeOK'
  BY <1>1 DEF TablesInv, TypeOK
<1>3. EntriesAreSet'
  BY <1>1 DEF TablesInv, EntriesAreSet
<1> QED
  BY <1>2, <1>3 DEF TablesInv

\* ProcessFork, with a page told of or none.
LEMMA ForkKeepsTables ==
  ASSUME TablesInv, NEW p \in Process, NEW h \in Page, ProcessFork(p, h)
  PROVE  TablesInv'
<1> DEFINE page == AllocatedPage(mem)
           m == MemoryAllocPage(mem)
           stack == AllocatedPage(m)
           m2 == MemoryAllocPage(m)
           new == NewPCB(p, page, stack)
           c == ProcessFreeResources(m2, spages, p, new)
<1>1. /\ mem \in Memories /\ spages \in SlotsType /\ pcb \in [Process -> PCBs]
      /\ live \subseteq Process /\ program \in [Process -> Programs]
      /\ stopped \in {"no", "idle", "nomemory"}
      /\ TypeOK /\ BitsArePages(mem) /\ EntriesAreSet
  BY TypesLemma DEF TablesInv
<1>2. SearchEnds(mem) /\ SearchEnds(m) /\ p \notin live
  BY DEF ProcessFork
<1>3. page \in Page /\ m \in Memories /\ BitsArePages(m)
  BY <1>1, <1>2, AllocTypeLemma
<1>4. stack \in Page /\ m2 \in Memories /\ BitsArePages(m2)
  <2> HIDE DEF m
  <2> QED
    BY <1>2, <1>3, AllocTypeLemma
<1> HIDE DEF page, m, stack, m2
<1>5. new \in PCBs /\ new.npages = 1 /\ Entries(new) = {page}
  BY <1>1, <1>3, <1>4, NewPCBLemma
<1>6. CASE /\ page = 0 \/ stack = 0
           /\ mem' = m2
           /\ StopFor("nomemory")
  BY <1>4, <1>6, StopKeepsTables
<1>7. CASE /\ page # 0 /\ stack # 0
           /\ mem' = m2
           /\ pcb' = [pcb EXCEPT ![p] = new]
           /\ live' = live \union {p}
           /\ program' = [program EXCEPT ![p] = NewProgram(h)]
           /\ UNCHANGED <<spages, stopped>>
  <2> HIDE DEF new
  <2>1. pcb' \in [Process -> PCBs] /\ pcb'[p] = new /\ \A q \in live : pcb'[q] = pcb[q]
    BY <1>1, <1>2, <1>5, <1>7
  <2>2. NewProgram(h) \in Programs
    BY DEF Programs, NewProgram
  <2>3. program' \in [Process -> Programs]
    <3> DEFINE g == NewProgram(h)
    <3>1. program' = [program EXCEPT ![p] = g] /\ g \in Programs
      BY <1>7, <2>2
    <3> HIDE DEF g
    <3> QED
      BY <1>1, <3>1
  <2>4. TypeOK'
    BY <1>1, <1>4, <1>7, <2>1, <2>3 DEF TypeOK, SlotsType, PCBs
  <2>5. EntriesAreSet'
    BY <1>1, <1>5, <1>7, <2>1 DEF EntriesAreSet
  <2> QED
    BY <1>4, <1>7, <2>4, <2>5 DEF TablesInv
<1>8. CASE /\ page # 0 /\ stack # 0
           /\ mem' = c.mem /\ spages' = c.spages
           /\ pcb' = [pcb EXCEPT ![p] = [new EXCEPT !.npages = c.npages]]
           /\ UNCHANGED <<live, program, stopped>>
  <2> DEFINE old == [new EXCEPT !.npages = c.npages]
  <2>1. /\ c.mem \in Memories /\ BitsArePages(c.mem) /\ c.spages \in SlotsType
        /\ c.npages \in 0 .. new.npages
    <3>1. c = ProcessFreeResources(m2, spages, p, new)
      OBVIOUS
    <3> HIDE DEF c, new
    <3> QED
      BY <1>1, <1>4, <1>5, <3>1, ResourcesTypeLemma
  <2>2. old \in PCBs
    <3> HIDE DEF c, new
    <3> QED
      BY <1>5, <2>1, PagesAssumption DEF PCBs
  <2>3. pcb' \in [Process -> PCBs] /\ \A q \in live : pcb'[q] = pcb[q]
    <3> HIDE DEF old
    <3> QED
      BY <1>1, <1>2, <1>8, <2>2 DEF old
  <2> HIDE DEF c, old
  <2>4. TypeOK'
    BY <1>1, <1>8, <2>1, <2>3 DEF TypeOK, SlotsType, PCBs
  <2>5. EntriesAreSet'
    BY <1>1, <1>8, <2>3 DEF EntriesAreSet
  <2> QED
    BY <1>8, <2>1, <2>4, <2>5 DEF TablesInv
<1> QED
  BY <1>6, <1>7, <1>8 DEF ProcessFork, page, m, stack, m2

\* Exit: the process is not live any more, whatever is left in its table.
LEMMA ExitKeepsTables ==
  ASSUME TablesInv, Exit
  PROVE  TablesInv'
<1>1. /\ mem \in Memories /\ spages \in SlotsType /\ pcb \in [Process -> PCBs]
      /\ live \subseteq Process /\ program \in [Process -> Programs]
      /\ stopped \in {"no", "idle", "nomemory"}
      /\ BitsArePages(mem) /\ EntriesAreSet
  BY TypesLemma DEF TablesInv
<1>2. PICK p \in live :
       IF live = {p}
       THEN /\ StopFor("idle")
            /\ UNCHANGED mem
       ELSE LET c == ProcessFreeResources(mem, spages, p, pcb[p])
            IN  /\ mem' = c.mem
                /\ spages' = c.spages
                /\ pcb' = [pcb EXCEPT ![p].npages = c.npages]
                /\ live' = live \ {p}
                /\ UNCHANGED <<program, stopped>>
  BY Zenon DEF Exit
<1>3. CASE live = {p}
  <2>1. StopFor("idle") /\ mem' = mem
    BY <1>2, <1>3, Zenon
  <2> QED
    BY <1>1, <2>1, StopKeepsTables
<1>4. CASE live # {p}
  <2> DEFINE c == ProcessFreeResources(mem, spages, p, pcb[p])
             old == [pcb[p] EXCEPT !.npages = c.npages]
  <2>1. /\ mem' = c.mem /\ spages' = c.spages
        /\ pcb' = [pcb EXCEPT ![p] = old]
        /\ live' = live \ {p}
        /\ UNCHANGED <<program, stopped>>
    BY <1>2, <1>4, Zenon
  <2>2. pcb[p] \in PCBs /\ p \in Process
    BY <1>1
  <2>3. /\ c.mem \in Memories /\ BitsArePages(c.mem) /\ c.spages \in SlotsType
        /\ c.npages \in 0 .. pcb[p].npages
    <3>1. c = ProcessFreeResources(mem, spages, p, pcb[p])
      OBVIOUS
    <3> HIDE DEF c
    <3> QED
      BY <1>1, <2>2, <3>1, ResourcesTypeLemma
  <2>4. old \in PCBs
    <3> HIDE DEF c
    <3> QED
      BY <2>2, <2>3, PagesAssumption DEF PCBs
  <2> HIDE DEF c, old
  <2>5. pcb' \in [Process -> PCBs] /\ \A q \in live \ {p} : pcb'[q] = pcb[q]
    BY <1>1, <2>1, <2>4
  <2>6. TypeOK'
    BY <1>1, <2>1, <2>3, <2>5 DEF TypeOK, SlotsType, PCBs
  <2>7. EntriesAreSet'
    BY <1>1, <2>1, <2>5 DEF EntriesAreSet
  <2> QED
    BY <2>1, <2>3, <2>6, <2>7 DEF TablesInv
<1> QED
  BY <1>3, <1>4

\* A page that is not 0 is entered in a page table that has space for it.
LEMMA EntryKeepsTables ==
  ASSUME TablesInv, NEW p \in live, NEW page \in Page, page # 0,
         pcb[p].npages < PROCESS_MAX_PAGES, pcb' = WithEntry(p, page),
         live' = live
  PROVE  pcb' \in [Process -> PCBs] /\ EntriesAreSet'
<1>1. TypeOK /\ EntriesAreSet
  BY DEF TablesInv
<1>2. /\ pcb' \in [Process -> PCBs]
      /\ \A q \in live \ {p} : pcb'[q] = pcb[q]
      /\ Entries(pcb'[p]) = Entries(pcb[p]) \union {page}
  BY <1>1, WithEntryLemma
<1>3. EntriesAreSet'
  BY <1>1, <1>2 DEF EntriesAreSet
<1> QED
  BY <1>2, <1>3

\* MemoryCreateSharedPage.
LEMMA CreateKeepsTables ==
  ASSUME TablesInv, ShareCreatePage
  PROVE  TablesInv'
<1>1. /\ mem \in Memories /\ spages \in SlotsType /\ pcb \in [Process -> PCBs]
      /\ live \subseteq Process /\ program \in [Process -> Programs]
      /\ stopped \in {"no", "idle", "nomemory"}
      /\ BitsArePages(mem) /\ EntriesAreSet
  BY TypesLemma DEF TablesInv
<1> DEFINE page == AllocatedPage(mem)
<1>2. PICK p \in live :
        /\ pcb[p].npages # PROCESS_MAX_PAGES
        /\ HasSlot(spages, 0)
        /\ SearchEnds(mem)
        /\ mem' = MemoryAllocPage(mem)
        /\ \/ page = 0 /\ StopFor("nomemory")
           \/ /\ page # 0
              /\ spages' = [spages EXCEPT ![SlotOf(spages, 0)] = [page |-> page, users |-> {p}]]
              /\ pcb' = WithEntry(p, page)
              /\ program' = [program EXCEPT ![p] = MakesPage(program[p], page)]
              /\ UNCHANGED <<live, stopped>>
  BY Zenon DEF ShareCreatePage, MemoryCreateSharedPage, HasSlot, MakesPage
<1>3. page \in Page /\ mem' \in Memories /\ BitsArePages(mem')
  BY <1>1, <1>2, AllocTypeLemma
<1> HIDE DEF page
<1>4. CASE page = 0
  BY <1>2, <1>3, <1>4, StopKeepsTables
<1>5. CASE page # 0
  <2>1. /\ spages' = [spages EXCEPT ![SlotOf(spages, 0)] = [page |-> page, users |-> {p}]]
        /\ pcb' = WithEntry(p, page)
        /\ program' = [program EXCEPT ![p] = MakesPage(program[p], page)]
        /\ UNCHANGED <<live, stopped>>
    BY <1>2, <1>5
  <2>2. pcb' \in [Process -> PCBs] /\ EntriesAreSet'
    <3>1. pcb[p].npages < PROCESS_MAX_PAGES
      BY <1>1, <1>2, PagesAssumption, SMTT(30) DEF PCBs
    <3> QED
      BY <1>3, <1>5, <2>1, <3>1, EntryKeepsTables
  <2>3. spages' \in SlotsType
    <3>1. SlotOf(spages, 0) \in Slot
      BY <1>1, <1>2, SlotLemma
    <3> QED
      BY <1>1, <1>3, <2>1, <3>1 DEF SlotsType
  <2>4. MakesPage(program[p], page) \in Programs
    <3>1. program[p] \in Programs
      BY <1>1
    <3>2. CASE program[p].handle = 0
      <4> DEFINE g == MakesPage(program[p], page)
      <4>1. g = [handle |-> page, creator |-> TRUE, attached |-> program[p].attached]
        BY <3>1, <3>2, MakesPageLemma
      <4> HIDE DEF g
      <4>2. g \in Programs
        BY <1>3, <3>1, <4>1 DEF Programs
      <4> QED
        BY <4>2 DEF g
    <3>3. CASE program[p].handle # 0
      BY <3>1, <3>3 DEF MakesPage
    <3> QED
      BY <3>2, <3>3
  <2>5. TypeOK'
    BY <1>1, <1>3, <2>1, <2>2, <2>3, <2>4 DEF TypeOK, SlotsType, PCBs
  <2> QED
    BY <1>3, <2>2, <2>5 DEF TablesInv
<1> QED
  BY <1>4, <1>5

\* mmap.
LEMMA MapKeepsTables ==
  ASSUME TablesInv, ShareMapPage
  PROVE  TablesInv'
<1>1. /\ mem \in Memories /\ spages \in SlotsType /\ pcb \in [Process -> PCBs]
      /\ live \subseteq Process /\ program \in [Process -> Programs]
      /\ stopped \in {"no", "idle", "nomemory"}
      /\ BitsArePages(mem) /\ EntriesAreSet
  BY TypesLemma DEF TablesInv
<1>2. PICK p \in live :
       /\ mmap(p, program[p].handle)
       /\ program' = [program EXCEPT ![p] = MapsPage(program[p])]
       /\ UNCHANGED <<mem, live, stopped>>
  BY Zenon DEF ShareMapPage, MapsPage
<1>3. PICK h : h = program[p].handle
  OBVIOUS
<1>4. /\ h # 0 /\ HasSlot(spages, h)
      /\ InTable(p, h) \/ pcb[p].npages < PROCESS_MAX_PAGES
      /\ pcb' = IF InTable(p, h) THEN pcb ELSE WithEntry(p, h)
      /\ spages' = WithUsers(spages, SlotOf(spages, h),
                             spages[SlotOf(spages, h)].users \union {p})
  <2>1. mmap(p, h)
    BY <1>2, <1>3
  <2> QED
    BY <2>1, Zenon DEF mmap, HasSlot, WithUsers
<1>5. program[p] \in Programs /\ h \in Page /\ p \in Process
  BY <1>1, <1>3 DEF Programs
<1>6. pcb' \in [Process -> PCBs] /\ EntriesAreSet'
  <2>1. CASE InTable(p, h)
    BY <1>1, <1>2, <1>4, <2>1 DEF EntriesAreSet
  <2>2. CASE ~InTable(p, h)
    BY <1>2, <1>4, <1>5, <2>2, EntryKeepsTables
  <2> QED
    BY <2>1, <2>2
<1>7. spages' \in SlotsType
  <2> DEFINE u == spages[SlotOf(spages, h)].users \union {p}
  <2>1. u \in SUBSET Process
    BY <1>1, <1>4, <1>5, SlotLemma DEF SlotsType
  <2>2. spages' = WithUsers(spages, SlotOf(spages, h), u)
    BY <1>4
  <2> HIDE DEF u
  <2> QED
    BY <1>1, <1>4, <2>1, <2>2, NewUsersLemma
<1>8. MapsPage(program[p]) \in Programs
  <2> DEFINE g == MapsPage(program[p])
  <2>1. g = [handle |-> h, creator |-> program[p].creator, attached |-> TRUE]
    BY <1>3, <1>5, MapsPageLemma
  <2> HIDE DEF g
  <2>2. g \in Programs
    BY <1>5, <2>1 DEF Programs
  <2> QED
    BY <2>2 DEF g
<1>9. TypeOK'
  BY <1>1, <1>2, <1>6, <1>7, <1>8 DEF TypeOK, SlotsType, PCBs
<1> QED
  BY <1>1, <1>2, <1>6, <1>9 DEF TablesInv

\* TablesInv is inductive.
LEMMA TablesStep ==
  ASSUME TablesInv, [Next]_vars
  PROVE  TablesInv'
<1>1. CASE ProcessCreate
  <2>1. PICK q \in live, p \in Process :
          ProcessFork(p, IF program[q].creator THEN program[q].handle ELSE 0)
    BY <1>1 DEF ProcessCreate
  <2> DEFINE h == IF program[q].creator THEN program[q].handle ELSE 0
  <2>2. program[q] \in Programs
    BY TypesLemma DEF TablesInv
  <2>3. h \in Page
    BY <2>2, UserPageLemma DEF Programs
  <2>4. ProcessFork(p, h)
    BY <2>1
  <2> HIDE DEF h
  <2> QED
    BY <2>3, <2>4, ForkKeepsTables
<1>2. CASE UNCHANGED vars
  <2>1. UNCHANGED <<mem, spages, pcb, live, program, stopped>>
    BY <1>2 DEF vars
  <2>2. TypeOK' /\ BitsArePages(mem)' /\ EntriesAreSet'
    BY <2>1 DEF TablesInv, TypeOK, BitsArePages, EntriesAreSet
  <2> QED
    BY <2>2 DEF TablesInv
<1> QED
  BY <1>1, <1>2, ExitKeepsTables, CreateKeepsTables, MapKeepsTables DEF Next, Stopped

\* A process never has page 0 in its table, which the copy takes for an
\* address that is not mapped.
THEOREM TablesInvariant == Spec => []TablesInv
<1>1. Init => TablesInv
  BY TablesInit
<1>2. TablesInv /\ [Next]_vars => TablesInv'
  BY TablesStep
<1> QED
  BY <1>1, <1>2, PTL DEF Spec

\* The page allocator, the slots and the PCBs keep their types, whatever
\* programs do with their pages.
THEOREM PagesTypeCorrect == Spec => []TypeOK
<1>1. TablesInv => TypeOK
  BY DEF TablesInv
<1> QED
  BY <1>1, TablesInvariant, PTL

-----------------------------------------------------------------------------
(***************************************************************************)
(* Copies: moveBetweenSpaces is a recursive function of the address and    *)
(* the number of bytes that are left.                                      *)
(***************************************************************************)

\* Addresses of one page.
LEMMA OffsetLemma ==
  ASSUME NEW s \in Nat \ {0}, NEW u \in Nat, NEW k \in Nat, (u % s) + k < s
  PROVE  (u + k) \div s = u \div s /\ (u + k) % s = (u % s) + k
<1>1. PICK a \in Nat, r \in Nat : a = u \div s /\ r = u % s /\ u = a * s + r /\ r < s
  <2>1. u \div s \in Nat /\ u % s \in Nat /\ u % s < s /\ u = (u \div s) * s + (u % s)
    OBVIOUS
  <2> QED
    BY <2>1
<1>2. u + k = a * s + (r + k) /\ r + k \in 0 .. s - 1
  BY <1>1
<1>3. (a * s + (r + k)) \div s = a /\ (a * s + (r + k)) % s = r + k
  BY <1>1, <1>2
<1> QED
  BY <1>1, <1>2, <1>3

\* An address of the first n pages is in one of them.
LEMMA PageOfAddress ==
  ASSUME NEW s \in Nat \ {0}, NEW u \in Nat, NEW n \in Nat
  PROVE  /\ u \div s \in Nat /\ u % s \in 0 .. s - 1
         /\ u < n * s <=> u \div s < n
         /\ (n * s + (u % s)) % s = u % s /\ n * s + (u % s) \in Nat
         /\ n # 0 => n * s + (u % s) # 0
<1>1. PICK a \in Nat, r \in Nat : a = u \div s /\ r = u % s /\ u = a * s + r /\ r < s
  <2>1. u \div s \in Nat /\ u % s \in Nat /\ u % s < s /\ u = (u \div s) * s + (u % s)
    OBVIOUS
  <2> QED
    BY <2>1
<1>2. a < n => a * s + r < n * s
  <2> SUFFICES ASSUME a < n PROVE a * s + r < n * s
    OBVIOUS
  <2>1. PICK d \in Nat : n = a + 1 + d
    <3>1. n - a - 1 \in Nat /\ n = a + 1 + (n - a - 1)
      OBVIOUS
    <3> QED
      BY <3>1
  <2>2. n * s = a * s + s + d * s /\ d * s \in Nat /\ a * s \in Nat
    BY <2>1
  <2> QED
    BY <1>1, <2>2
<1>3. a >= n => a * s + r >= n * s
  <2> SUFFICES ASSUME a >= n PROVE a * s + r >= n * s
    OBVIOUS
  <2>1. PICK d \in Nat : a = n + d
    <3>1. a - n \in Nat /\ a = n + (a - n)
      OBVIOUS
    <3> QED
      BY <3>1
  <2>2. a * s = n * s + d * s /\ d * s \in Nat /\ n * s \in Nat
    BY <2>1
  <2> QED
    BY <1>1, <2>2
<1>4. (n * s + r) % s = r /\ n * s + r \in Nat
  <2>1. r \in 0 .. s - 1 /\ n * s \in Nat
    BY <1>1
  <2>2. (n * s + r) \div s = n /\ (n * s + r) % s = r
    BY <2>1
  <2> QED
    BY <2>1, <2>2
<1>5. n # 0 => n * s + r # 0
  <2> SUFFICES ASSUME n # 0 PROVE n * s + r # 0
    OBVIOUS
  <2>1. PICK d \in Nat : n = d + 1
    <3>1. n - 1 \in Nat /\ n = n - 1 + 1
      OBVIOUS
    <3> QED
      BY <3>1
  <2>2. n * s = d * s + s /\ d * s \in Nat
    BY <2>1
  <2> QED
    BY <1>1, <2>2
<1> QED
  BY <1>1, <1>2, <1>3, <1>4, <1>5

\* MemoryTranslateUserToSystem: within the pages of a process it never answers 0.
LEMMA TranslateLemma ==
  ASSUME TypeOK, NEW p \in Process, NEW u \in Nat,
         NEW sys, sys = MemoryTranslateUserToSystem(p, u)
  PROVE  /\ sys \in Nat
         /\ p \in live /\ EntriesAreSet /\ u < pcb[p].npages * PAGE_SIZE =>
              /\ sys # 0 /\ sys % PAGE_SIZE = u % PAGE_SIZE
              /\ sys = pcb[p].pagetable[u \div PAGE_SIZE] * PAGE_SIZE + (u % PAGE_SIZE)
<1> DEFINE page == u \div PAGE_SIZE
<1>1. /\ PAGE_SIZE \in Nat \ {0} /\ PROCESS_MAX_PAGES \in Nat \ {0}
      /\ pcb[p] \in PCBs /\ pcb[p].npages \in 0 .. PROCESS_MAX_PAGES
      /\ \A i \in 0 .. PROCESS_MAX_PAGES - 1 : pcb[p].pagetable[i] \in Page
  BY TypesLemma, PagesAssumption DEF PCBs, Index
<1>2. /\ page \in Nat
      /\ u < pcb[p].npages * PAGE_SIZE <=> page < pcb[p].npages
  <2>1. PICK s \in Nat \ {0} : s = PAGE_SIZE
    BY <1>1
  <2>2. PICK n \in Nat : n = pcb[p].npages
    BY <1>1
  <2>3. u \div s \in Nat /\ (u < n * s <=> u \div s < n)
    BY PageOfAddress
  <2> QED
    BY <2>1, <2>2, <2>3
<1>3. CASE page > pcb[p].npages
  BY <1>1, <1>2, <1>3 DEF MemoryTranslateUserToSystem
<1>4. CASE ~(page > pcb[p].npages)
  <2> DEFINE base == PageBase(p, page)
             e == pcb[p].pagetable[page]
  <2>1. sys = base + (u % PAGE_SIZE)
    BY <1>4 DEF MemoryTranslateUserToSystem
  <2>2. page \in 0 .. PROCESS_MAX_PAGES - 1 => e \in Nat
    BY <1>1, UserPageLemma
  <2>3. /\ page = PROCESS_MAX_PAGES => base = pcb[p].npages
        /\ page # PROCESS_MAX_PAGES => base = e * PAGE_SIZE
    BY DEF PageBase
  <2>4. page < pcb[p].npages => page # PROCESS_MAX_PAGES
    BY <1>1, <1>2
  <2>5. p \in live /\ EntriesAreSet /\ page < pcb[p].npages => e # 0
    BY <1>1, <1>2 DEF EntriesAreSet, Entries
  <2> HIDE DEF e, base
  <2>6. CASE page = PROCESS_MAX_PAGES
    <3>1. u % PAGE_SIZE \in Nat /\ pcb[p].npages \in Nat
      BY <1>1
    <3>2. base = pcb[p].npages
      BY <1>1, <2>3, <2>6
    <3> QED
      BY <1>2, <2>1, <2>4, <2>6, <3>1, <3>2
  <2>7. CASE page # PROCESS_MAX_PAGES
    <3>1. e \in Nat /\ base = e * PAGE_SIZE
      <4>1. page \in 0 .. PROCESS_MAX_PAGES - 1
        BY <1>1, <1>2, <1>4, <2>7
      <4> QED
        BY <2>2, <2>3, <2>7, <4>1
    <3>2. /\ sys \in Nat /\ sys % PAGE_SIZE = u % PAGE_SIZE
          /\ e # 0 => sys # 0
      BY <1>1, <2>1, <3>1, PageOfAddress
    <3>3. sys = e * PAGE_SIZE + (u % PAGE_SIZE)
      BY <2>1, <3>1
    <3> QED
      BY <1>2, <2>5, <3>2, <3>3 DEF e
  <2> QED
    BY <2>6, <2>7
<1> QED
  BY <1>3, <1>4

\* BytesToCopy: something, and nothing beyond the end of the page.
LEMMA LengthLemma ==
  ASSUME NEW sys \in Nat, NEW n \in Nat \ {0}, NEW len, len = BytesToCopy(sys, n)
  PROVE  len \in 1 .. n /\ (sys % PAGE_SIZE) + len <= PAGE_SIZE
<1>1. PAGE_SIZE \in Nat \ {0} /\ sys % PAGE_SIZE \in 0 .. PAGE_SIZE - 1
  BY PagesAssumption
<1> QED
  BY <1>1 DEF BytesToCopy

\* One round of the loop of moveBetweenSpaces, and what the loop does: rest are
\* the chunks of the rounds that follow.
AddressAt(from, count, left) == from + (count - left)

LengthAt(p, from, count, left) ==
  BytesToCopy(MemoryTranslateUserToSystem(p, AddressAt(from, count, left)), left)

ChunkAt(p, from, count, left) ==
  [user |-> AddressAt(from, count, left),
   system |-> MemoryTranslateUserToSystem(p, AddressAt(from, count, left)),
   length |-> LengthAt(p, from, count, left)]

CopyEnds(p, from, count, left) ==
  left = 0 \/ MemoryTranslateUserToSystem(p, AddressAt(from, count, left)) = 0

Round(p, from, count, left, rest) ==
  IF CopyEnds(p, from, count, left) THEN <<>>
  ELSE <<ChunkAt(p, from, count, left)>> \o rest

Copies(chunks, p, from, count) ==
  chunks = [left \in 0 .. count |->
              Round(p, from, count, left, chunks[left - LengthAt(p, from, count, left)])]

\* What a round copies ends within the copy and its page.
LEMMA LengthAtLemma ==
  ASSUME TypeOK, NEW p \in Process, NEW from \in Nat, NEW count \in Nat, NEW left \in 1 .. count
  PROVE  LengthAt(p, from, count, left) \in 1 .. left
<1>1. AddressAt(from, count, left) \in Nat
  BY DEF AddressAt
<1>2. MemoryTranslateUserToSystem(p, AddressAt(from, count, left)) \in Nat
  BY <1>1, TranslateLemma
<1> QED
  BY <1>2, LengthLemma DEF LengthAt

\* The loop ends: a round copies at least one byte.
LEMMA CopyExists ==
  ASSUME TypeOK, NEW p \in Process, NEW from \in Nat, NEW count \in Nat
  PROVE  \E chunks : Copies(chunks, p, from, count)
<1> DEFINE L(i) == LengthAt(p, from, count, i)
           R(i, rest) == Round(p, from, count, i, rest)
           A == {k \in 0 .. count : \E g : \A i \in 0 .. k : g[i] = R(i, g[i - L(i)])}
<1>1. \A x, y : R(0, x) = R(0, y)
  BY DEF Round, CopyEnds
<1>2. \A i \in 1 .. count : L(i) \in 1 .. i
  BY LengthAtLemma
<1> HIDE DEF L, R
<1>3. 0 \in A
  <2> DEFINE g == [i \in 0 .. 0 |-> R(0, 0)]
  <2>1. \A i \in 0 .. 0 : g[i] = R(i, g[i - L(i)])
    BY <1>1
  <2> HIDE DEF g
  <2>2. \E h : \A i \in 0 .. 0 : h[i] = R(i, h[i - L(i)])
    BY <2>1
  <2> QED
    BY <2>2
<1>4. ASSUME NEW k \in 1 .. count, k - 1 \in A
      PROVE  k \in A
  <2>1. PICK g : \A i \in 0 .. k - 1 : g[i] = R(i, g[i - L(i)])
    BY <1>4
  <2> DEFINE h == [i \in 0 .. k |-> IF i = k THEN R(k, g[k - L(k)]) ELSE g[i]]
  <2>2. ASSUME NEW i \in 0 .. k
        PROVE  h[i] = R(i, h[i - L(i)])
    <3>1. CASE i = 0
      <4>1. h[0] = g[0] /\ g[0] = R(0, g[0 - L(0)])
        BY <2>1
      <4> HIDE DEF h
      <4> QED
        BY <1>1, <3>1, <4>1
    <3>2. CASE i # 0
      <4>1. i \in 1 .. k /\ L(i) \in 1 .. i
        BY <1>2, <3>2
      <4>2. i - L(i) \in 0 .. k - 1
        BY <4>1
      <4>3. h[i - L(i)] = g[i - L(i)]
        BY <4>2
      <4>4. h[i] = R(i, g[i - L(i)])
        BY <2>1
      <4> QED
        BY <4>3, <4>4
    <3> QED
      BY <3>1, <3>2
  <2> HIDE DEF h
  <2>3. \E f : \A i \in 0 .. k : f[i] = R(i, f[i - L(i)])
    BY <2>2
  <2> QED
    BY <2>3
<1> HIDE DEF A
<1>5. count \in A
  BY <1>3, <1>4, IntervalInduction
<1>6. PICK g : \A i \in 0 .. count : g[i] = R(i, g[i - L(i)])
  BY <1>5 DEF A
<1> DEFINE chunks == [i \in 0 .. count |-> g[i]]
<1>7. ASSUME NEW i \in 0 .. count
      PROVE  chunks[i] = R(i, chunks[i - L(i)])
  <2>1. CASE i = 0
    <3>1. chunks[i] = g[0] /\ g[0] = R(0, g[0 - L(0)])
      BY <1>6, <2>1
    <3> HIDE DEF chunks
    <3> QED
      BY <1>1, <2>1, <3>1
  <2>2. CASE i # 0
    <3>1. i - L(i) \in 0 .. count
      BY <1>2, <2>2
    <3>2. chunks[i - L(i)] = g[i - L(i)] /\ chunks[i] = g[i]
      BY <3>1
    <3> QED
      BY <1>6, <3>2
  <2> QED
    BY <2>1, <2>2
<1>8. chunks = [i \in 0 .. count |-> R(i, chunks[i - L(i)])]
  BY <1>7
<1> HIDE DEF chunks
<1>9. Copies(chunks, p, from, count)
  BY <1>8 DEF Copies, R, L
<1> QED
  BY <1>9

\* moveBetweenSpaces is that loop.
LEMMA MoveLemma ==
  ASSUME TypeOK, NEW p \in Process, NEW from \in Nat, NEW count \in Nat
  PROVE  \E chunks : /\ Copies(chunks, p, from, count)
                     /\ moveBetweenSpaces(p, from, count) = chunks[count]
<1> DEFINE chunks[left \in 0 .. count] ==
             LET u == from + (count - left)
                 sys == MemoryTranslateUserToSystem(p, u)
                 len == BytesToCopy(sys, left)
             IN  IF left = 0 \/ sys = 0 THEN <<>>
                 ELSE <<[user |-> u, system |-> sys, length |-> len]>> \o chunks[left - len]
<1>1. moveBetweenSpaces(p, from, count) = chunks[count]
  BY DEF moveBetweenSpaces
<1>2. \E g : g = [left \in 0 .. count |->
             LET u == from + (count - left)
                 sys == MemoryTranslateUserToSystem(p, u)
                 len == BytesToCopy(sys, left)
             IN  IF left = 0 \/ sys = 0 THEN <<>>
                 ELSE <<[user |-> u, system |-> sys, length |-> len]>> \o g[left - len]]
  BY CopyExists DEF Copies, Round, ChunkAt, LengthAt, AddressAt, CopyEnds
<1>3. chunks = [left \in 0 .. count |->
             LET u == from + (count - left)
                 sys == MemoryTranslateUserToSystem(p, u)
                 len == BytesToCopy(sys, left)
             IN  IF left = 0 \/ sys = 0 THEN <<>>
                 ELSE <<[user |-> u, system |-> sys, length |-> len]>> \o chunks[left - len]]
  BY <1>2
<1> HIDE DEF chunks
<1>4. Copies(chunks, p, from, count)
  BY <1>3 DEF Copies, Round, ChunkAt, LengthAt, AddressAt, CopyEnds
<1> QED
  BY <1>1, <1>4

Chunks == [user : Nat, system : Nat, length : Nat]

\* The bytes of one chunk, and of a sequence of chunks.
BytesOfChunk(c) == {<<c.user + k, c.system + k>> : k \in 0 .. c.length - 1}
BytesOf(s) == UNION {BytesOfChunk(s[i]) : i \in DOMAIN s}

\* The bytes of a sequence of chunks are those of the first and of the others.
LEMMA BytesLemma ==
  ASSUME NEW c \in Chunks, NEW s \in Seq(Chunks)
  PROVE  /\ <<c>> \o s \in Seq(Chunks)
         /\ BytesOf(<<c>> \o s) = BytesOfChunk(c) \union BytesOf(s)
         /\ BytesOf(<<>>) = {}
<1> DEFINE t == <<c>> \o s
<1>1. /\ t \in Seq(Chunks) /\ DOMAIN t = 1 .. Len(s) + 1 /\ DOMAIN s = 1 .. Len(s)
      /\ t[1] = c /\ \A i \in 1 .. Len(s) : t[i + 1] = s[i]
      /\ Len(s) \in Nat
  OBVIOUS
<1> HIDE DEF t
<1>2. ASSUME NEW x \in BytesOf(t)
      PROVE  x \in BytesOfChunk(c) \union BytesOf(s)
  <2>1. PICK i \in 1 .. Len(s) + 1 : x \in BytesOfChunk(t[i])
    BY <1>1, <1>2 DEF BytesOf
  <2>2. CASE i = 1
    BY <1>1, <2>1, <2>2
  <2>3. CASE i # 1
    <3>1. i - 1 \in 1 .. Len(s) /\ t[i] = s[i - 1]
      <4>1. i - 1 \in 1 .. Len(s) /\ (i - 1) + 1 = i
        BY <1>1, <2>3
      <4> QED
        BY <1>1, <4>1
    <3> QED
      BY <1>1, <2>1, <3>1 DEF BytesOf
  <2> QED
    BY <2>2, <2>3
<1>3. BytesOfChunk(c) \subseteq BytesOf(t)
  BY <1>1 DEF BytesOf
<1>4. ASSUME NEW x \in BytesOf(s)
      PROVE  x \in BytesOf(t)
  <2>1. PICK i \in 1 .. Len(s) : x \in BytesOfChunk(s[i])
    BY <1>1, <1>4 DEF BytesOf
  <2>2. i + 1 \in DOMAIN t /\ t[i + 1] = s[i]
    BY <1>1
  <2> QED
    BY <2>1, <2>2 DEF BytesOf
<1>5. BytesOf(<<>>) = {}
  BY DEF BytesOf
<1> QED
  BY <1>1, <1>2, <1>3, <1>4, <1>5 DEF t

\* Where the byte at a user address is: the address and its place in memory.
PlaceOf(p, a) ==
  <<a, pcb[p].pagetable[a \div PAGE_SIZE] * PAGE_SIZE + (a % PAGE_SIZE)>>

\* A chunk within the pages of a process is within one of them.
LEMMA ChunkLemma ==
  ASSUME TypeOK, EntriesAreSet, NEW p \in live, NEW from \in Nat, NEW count \in Nat,
         from + count <= pcb[p].npages * PAGE_SIZE, NEW left \in 1 .. count,
         NEW u, u = AddressAt(from, count, left),
         NEW len, len = LengthAt(p, from, count, left),
         NEW c, c = ChunkAt(p, from, count, left)
  PROVE  /\ ~CopyEnds(p, from, count, left)
         /\ c \in Chunks /\ len \in 1 .. left
         /\ BytesOfChunk(c) = {PlaceOf(p, a) : a \in u .. u + len - 1}
<1> DEFINE sys == MemoryTranslateUserToSystem(p, u)
           e == pcb[p].pagetable[u \div PAGE_SIZE]
<1>1. p \in Process /\ PAGE_SIZE \in Nat \ {0} /\ pcb[p].npages \in Nat /\ count \in Nat
  BY TypesLemma, PagesAssumption DEF PCBs
<1>2. pcb[p].npages * PAGE_SIZE \in Nat
  BY <1>1
<1>3. u \in Nat /\ u < pcb[p].npages * PAGE_SIZE /\ u = from + (count - left)
  <2> DEFINE b == pcb[p].npages * PAGE_SIZE
  <2>1. b \in Nat /\ from + count <= b
    BY <1>2
  <2> HIDE DEF b
  <2>2. u \in Nat /\ u < b /\ u = from + (count - left)
    BY <2>1 DEF AddressAt
  <2> QED
    BY <2>2 DEF b
<1>4. /\ sys \in Nat /\ sys # 0 /\ sys % PAGE_SIZE = u % PAGE_SIZE
      /\ sys = e * PAGE_SIZE + (u % PAGE_SIZE)
  BY <1>1, <1>3, TranslateLemma
<1>5. len = BytesToCopy(sys, left) /\ c = [user |-> u, system |-> sys, length |-> len]
  BY DEF LengthAt, ChunkAt
<1> HIDE DEF sys
<1>6. len \in 1 .. left /\ (u % PAGE_SIZE) + len <= PAGE_SIZE
  <2>1. left \in Nat \ {0}
    BY <1>1
  <2>2. len \in 1 .. left /\ (sys % PAGE_SIZE) + len <= PAGE_SIZE
    BY <1>4, <1>5, <2>1, LengthLemma
  <2> QED
    BY <1>4, <2>2
<1>7. c \in Chunks
  BY <1>3, <1>4, <1>5, <1>6, SMTT(30) DEF Chunks
<1>8. ASSUME NEW k \in 0 .. len - 1
      PROVE  <<u + k, sys + k>> = PlaceOf(p, u + k)
  <2>1. k \in Nat /\ u % PAGE_SIZE \in Nat /\ (u % PAGE_SIZE) + k < PAGE_SIZE
    BY <1>1, <1>3, <1>6
  <2>2. /\ (u + k) \div PAGE_SIZE = u \div PAGE_SIZE
        /\ (u + k) % PAGE_SIZE = (u % PAGE_SIZE) + k
    BY <1>1, <1>3, <2>1, OffsetLemma
  <2>3. PlaceOf(p, u + k) = <<u + k, e * PAGE_SIZE + ((u % PAGE_SIZE) + k)>>
    BY <2>2 DEF PlaceOf
  <2> DEFINE b == e * PAGE_SIZE
             r == u % PAGE_SIZE
  <2>4. sys = b + r /\ r \in Nat /\ sys \in Nat
    BY <1>4, <2>1
  <2>5. ASSUME b \in Int PROVE sys + k = b + (r + k)
    <3> HIDE DEF b, r
    <3> QED
      BY <2>1, <2>4, <2>5
  <2>6. e \in Nat
    <3>1. u \div PAGE_SIZE \in 0 .. pcb[p].npages - 1
      <4>1. PICK s \in Nat \ {0}, n \in Nat : s = PAGE_SIZE /\ n = pcb[p].npages
        BY <1>1
      <4>2. u \div s \in Nat /\ u \div s < n
        BY <1>3, <4>1, PageOfAddress
      <4> QED
        BY <4>1, <4>2
    <3>2. pcb[p] \in PCBs
      BY <1>1, TypesLemma
    <3>3. 0 .. pcb[p].npages - 1 \subseteq Index
      BY <3>2, PagesAssumption DEF PCBs, Index
    <3> QED
      BY <3>1, <3>2, <3>3, UserPageLemma DEF PCBs
  <2>7. b \in Int
    BY <1>1, <2>6
  <2> QED
    BY <2>3, <2>5, <2>7
<1>9. BytesOfChunk(c) = {<<u + k, sys + k>> : k \in 0 .. len - 1}
  BY <1>5 DEF BytesOfChunk
<1>10. {<<u + k, sys + k>> : k \in 0 .. len - 1} = {PlaceOf(p, a) : a \in u .. u + len - 1}
  <2> DEFINE P(a) == PlaceOf(p, a)
  <2>1. \A k \in 0 .. len - 1 : <<u + k, sys + k>> = P(u + k) /\ u + k \in u .. u + len - 1
    BY <1>3, <1>6, <1>8
  <2>2. \A a \in u .. u + len - 1 : a - u \in 0 .. len - 1 /\ u + (a - u) = a
    BY <1>3, <1>6
  <2> HIDE DEF P
  <2>3. {<<u + k, sys + k>> : k \in 0 .. len - 1} = {P(a) : a \in u .. u + len - 1}
    BY <2>1, <2>2
  <2> QED
    BY <2>3 DEF P
<1>11. ~CopyEnds(p, from, count, left)
  BY <1>4 DEF CopyEnds, sys
<1> QED
  BY <1>6, <1>7, <1>9, <1>10, <1>11

\* A copy within the pages of a process moves each of its bytes to its place.
LEMMA CopyLemma ==
  ASSUME TypeOK, EntriesAreSet, NEW p \in live, NEW from \in Nat, NEW count \in Nat,
         from + count <= pcb[p].npages * PAGE_SIZE
  PROVE  BytesCopied(p, from, count) = {PlaceOf(p, a) : a \in from .. from + count - 1}
<1>1. p \in Process
  BY TypesLemma
<1>2. PICK chunks : /\ Copies(chunks, p, from, count)
                    /\ moveBetweenSpaces(p, from, count) = chunks[count]
  BY <1>1, MoveLemma
<1> DEFINE P(a) == PlaceOf(p, a)
           Done(i) == /\ chunks[i] \in Seq(Chunks)
                      /\ BytesOf(chunks[i]) =
                           {P(a) : a \in AddressAt(from, count, i) .. from + count - 1}
           A == {k \in 0 .. count : \A i \in 0 .. k : Done(i)}
<1>3. 0 \in A
  <2>1. chunks[0] = <<>>
    BY <1>2 DEF Copies, Round, CopyEnds
  <2>2. AddressAt(from, count, 0) .. from + count - 1 = {}
    BY DEF AddressAt
  <2>3. <<>> \in Seq(Chunks) /\ BytesOf(<<>>) = {}
    BY DEF BytesOf
  <2> HIDE DEF P
  <2>4. Done(0)
    BY <2>1, <2>2, <2>3
  <2> HIDE DEF Done
  <2> QED
    BY <2>4
<1>4. ASSUME NEW k \in 1 .. count, k - 1 \in A
      PROVE  k \in A
  <2> DEFINE u == AddressAt(from, count, k)
             len == LengthAt(p, from, count, k)
             c == ChunkAt(p, from, count, k)
             rest == chunks[k - len]
  <2>1. /\ ~CopyEnds(p, from, count, k)
        /\ c \in Chunks /\ len \in 1 .. k
        /\ BytesOfChunk(c) = {P(a) : a \in u .. u + len - 1}
    BY ChunkLemma
  <2>2. chunks[k] = <<c>> \o rest
    <3>1. chunks[k] = Round(p, from, count, k, rest)
      <4> HIDE DEF c, u
      <4>1. k \in 0 .. count
        OBVIOUS
      <4> QED
        BY <1>2, <4>1 DEF Copies
    <3> HIDE DEF rest
    <3> QED
      BY <2>1, <3>1 DEF Round
  <2> HIDE DEF c, len
  <2>3. k - len \in 0 .. k - 1
    BY <2>1
  <2> HIDE DEF Done
  <2>4. Done(k - len)
    BY <1>4, <2>3
  <2> USE DEF Done
  <2>5. AddressAt(from, count, k - len) = u + len /\ u + len <= from + count /\ u \in Nat
    BY <2>1 DEF AddressAt
  <2> HIDE DEF u
  <2>6. /\ rest \in Seq(Chunks)
        /\ BytesOf(rest) = {P(a) : a \in u + len .. from + count - 1}
    BY <2>4, <2>5
  <2> HIDE DEF rest
  <2>7. /\ chunks[k] \in Seq(Chunks)
        /\ BytesOf(chunks[k]) = BytesOfChunk(c) \union BytesOf(rest)
    BY <2>1, <2>2, <2>6, BytesLemma
  <2>8. u .. from + count - 1 = (u .. u + len - 1) \union (u + len .. from + count - 1)
    BY <2>1, <2>5
  <2> HIDE DEF P
  <2>9. BytesOf(chunks[k]) = {P(a) : a \in u .. from + count - 1}
    BY <2>1, <2>6, <2>7, <2>8
  <2>10. Done(k)
    BY <2>7, <2>9 DEF u
  <2> HIDE DEF Done
  <2> QED
    BY <1>4, <2>10
<1> HIDE DEF A
<1>5. count \in A
  BY <1>3, <1>4, IntervalInduction
<1> USE DEF A
<1>6. Done(count)
  BY <1>5
<1>7. AddressAt(from, count, count) = from
  BY DEF AddressAt
<1>8. BytesCopied(p, from, count) = BytesOf(chunks[count])
  BY <1>2 DEF BytesCopied, BytesOf, BytesOfChunk
<1> HIDE DEF A, P
<1> QED
  BY <1>6, <1>7, <1>8 DEF P

\* A copy between user and kernel memory whose user range is in pages of the
\* process moves every byte, each to its place in the right page: wherever it
\* begins and ends, and whatever the size of a page.
THEOREM CopiesAreComplete == Spec => []CopyIsComplete
<1>1. TablesInv => CopyIsComplete
  <2> SUFFICES ASSUME TablesInv, NEW p \in live, NEW u \in 0 .. pcb[p].npages * PAGE_SIZE - 1,
                      NEW n \in 0 .. pcb[p].npages * PAGE_SIZE - u
               PROVE  BytesCopied(p, u, n) = {PlaceOf(p, a) : a \in u .. u + n - 1}
    BY DEF CopyIsComplete, PlaceOf
  <2>1. TypeOK /\ EntriesAreSet
    BY DEF TablesInv
  <2>2. pcb[p].npages * PAGE_SIZE \in Nat
    <3>1. pcb[p].npages \in Nat /\ PAGE_SIZE \in Nat
      BY <2>1, TypesLemma, PagesAssumption DEF PCBs
    <3> QED
      BY <3>1
  <2> DEFINE b == pcb[p].npages * PAGE_SIZE
  <2>3. u \in Nat /\ n \in Nat /\ u + n <= b
    <3>1. b \in Nat /\ u \in 0 .. b - 1 /\ n \in 0 .. b - u
      BY <2>2
    <3> HIDE DEF b
    <3> QED
      BY <3>1
  <2> QED
    BY <2>1, <2>3, CopyLemma
<1> QED
  BY <1>1, TablesInvariant, PTL

=============================================================================
