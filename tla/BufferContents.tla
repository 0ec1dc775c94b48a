--------------------------- MODULE BufferContents ---------------------------
(***************************************************************************)
(* What is in the circular buffer, and that q2, q3 and q4 are bounded      *)
(* buffers.                                                                *)
(***************************************************************************)
EXTENDS Programs

\* The places where a process has moved the index of the buffer in this
\* round, and not counted the character yet.
HasMoved(p) ==
  CASE app = "q2" -> pc[p] = "release"
    [] app = "q3" -> pc[p] \in {"release", "signal"}
    [] app = "q4" -> pc[p] = "signal" \/ (p \in Producer /\ pc[p] = "release")
    [] OTHER -> FALSE

\* How many characters p has inserted or taken.
Moved(p) == IF IsBuffer THEN counter[p] + (IF HasMoved(p) THEN 1 ELSE 0) ELSE 0

Inserted == [p \in Producer |-> Moved(p)]
Taken == [c \in Consumer |-> Moved(c)]

\* How many characters that is in all, each named by its process and number.
Total(moved) ==
  Cardinality({x \in (DOMAIN moved) \X (0 .. ITEMS - 1) : x[2] < moved[x[1]]})

\* The characters in the buffer, first to last.
Contents ==
  IF IsBuffer
  THEN [i \in 1 .. Total(Inserted) - Total(Taken) |->
          page.buffer[(page.r_idx + i - 1) % BUFFER_SIZE]]
  ELSE <<>>

\* q2 and q4 leave a slot unused; q3 uses all.
Room == IF app = "q3" THEN BUFFER_SIZE ELSE BUFFER_SIZE - 1

\* What a process has tested, or waited for, is so when it acts on it, however
\* often it was preempted or slept in between: there is room where it inserts,
\* and the character it expects heads the buffer when it takes one.
TestStillHolds ==
  IsBuffer =>
    /\ \A p \in Producer :
         pc[p] \in {"insert", "advance"} /\ Awake(p) => Len(Contents) < Room
    /\ \A c \in Consumer :
         /\ pc[c] = "take" /\ Awake(c) => Contents # <<>> /\ Head(Contents) = Item(c)
         /\ pc[c] = "look" /\ Awake(c) => Contents # <<>>

\* Consumers leave what they do not expect to others, so one of them has to
\* expect the head of the buffer, or the buffer stays as it is for ever.
HeadIsExpected ==
  Contents # <<>> => \E c \in Consumer : Taken[c] = Head(Contents)

\* No character is lost, invented, taken twice or out of order.
Bounded == INSTANCE BoundedBuffer WITH
  Capacity <- BUFFER_SIZE, queue <- Contents, put <- Inserted, got <- Taken

ImplementsBoundedBuffer == Bounded!Spec

-----------------------------------------------------------------------------
(* The reactions: q5 *)

\* The atoms in so many molecules of each kind.
Nitrogen(n) == 3 * n["N3"] + n["N"] + n["NO2"]
Hydrogen(n) == 2 * n["H2O"] + 2 * n["H2"]
Oxygen(n) == n["H2O"] + 2 * n["O2"] + 2 * n["NO2"]

\* How many calls of its round a reaction has made when it is at a place.
Calls == [uncreated |-> 0, loop |-> 0, second |-> 1, third |-> 2, fourth |-> 3, fifth |-> 4,
          done |-> 0]

\* How many of them have returned; it may wait in the last.
Returned(p) == Calls[pc[p]] - (IF Awake(p) THEN 0 ELSE 1)

\* The molecules m that p has taken by the first k calls of its round, less
\* those it has given back.
HeldAfter(p, k, m) ==
  Cardinality({i \in 1 .. k : i <= Len(Waits[p]) /\ Script(p)[i] = m})
    - Cardinality({i \in 1 .. k : i > Len(Waits[p]) /\ Script(p)[i] = m})

Held(p, m) == HeldAfter(p, Returned(p), m)

\* The molecules that are free, or held by a reaction.
Present ==
  [m \in Molecule |-> sems[m].count + Held("R1", m) + Held("R2", m) + Held("R3", m)]

Injected == [m \in Molecule |-> IF m \in Injector THEN page[m] - counter[m] ELSE 0]

\* No atom appears or vanishes: those of the free molecules and those held by
\* reactions are the ones that were injected.
AtomsConserved ==
  app = "q5" =>
    /\ Nitrogen(Present) = Nitrogen(Injected)
    /\ Hydrogen(Present) = Hydrogen(Injected)
    /\ Oxygen(Present) = Oxygen(Injected)

=============================================================================
