---------------------------- MODULE LoaderProofs ----------------------------
(***************************************************************************)
(* The loader: however the chunks of a program file fall, its image is     *)
(* what the lines of the file say; the table of open files gets its slots  *)
(* back; and programs can be read because main has lost slot 0.            *)
(***************************************************************************)
EXTENDS Loader, QueueProofs, FiniteSetTheorems

-----------------------------------------------------------------------------
(* The inductive invariant *)

Entry == [flags : 0 .. 2, fs : 0 .. 1, fd : Int]
OpenFiles == [Slots -> Entry]

Tasks ==
  [pc : {"idle", "info", "lines", "close"}, kind : {"none", "dump", "vm", "load"},
   file : File \union {"none", "vm"}, fd : Int, addr : Nat]

LoaderTypes ==
  /\ openfiles \in OpenFiles
  /\ contents \in Contents
  /\ task \in Tasks

\* The task's descriptor is open; behind it is a file at position pos, if it
\* is one of the simulator.
Opened(pos) ==
  /\ task.kind \in {"dump", "load"} /\ task.fd \in InUse
  /\ openfiles[task.fd].fs = 0 =>
       /\ HostOf(task.fd) \in DOMAIN host
       /\ host[HostOf(task.fd)] = [name |-> task.file, pos |-> pos]

\* What is known before the lines are read, between two chunks, and after them.
InfoInv ==
  At("info") =>
    /\ Opened(0) /\ task.addr = 0 /\ image = << >>
    /\ task.file \notin DlxFile => openfiles[task.fd].fs = 0

LinesInv ==
  At("lines") =>
    \/ task.kind = "dump" /\ task.fd = -1
    \/ /\ FdValid(task.fd) /\ openfiles[task.fd].fs = 0
       /\ SizeOf(task.file) = EndOf[Len(contents)]
       /\ \E m \in 0 .. Len(contents) :
            /\ Opened(EndOf[m]) /\ task.addr = Behind[m]
            /\ task.kind = "load" => image = ImageOf(m)

CloseInv ==
  At("close") /\ task.kind = "load" =>
    FdValid(task.fd) /\ image = ImageOf(Len(contents))

LoaderInv ==
  /\ LoaderTypes
  /\ At("idle") => task = Idle
  /\ InfoInv /\ LinesInv /\ CloseInv

\* Programs are loaded when the system runs; then the file vm has slot 0, if it
\* can be opened.
VmInv ==
  /\ phase = "running" => 0 \in InUse
  /\ task.kind = "load" => phase = "running" /\ task.fd # 0

-----------------------------------------------------------------------------
(* Where lines end and what they place *)

\* What the lines of a program file are.
LEMMA ContentsLemma ==
  ASSUME contents \in Contents
  PROVE  /\ Len(contents) \in Nat /\ DOMAIN contents = 1 .. Len(contents)
         /\ \A k \in 1 .. Len(contents) :
              /\ contents[k].addr \in Nat \/ contents[k].addr = SameAddress
              /\ contents[k].bytes \in Nat \ {0}
              /\ contents[k].chars \in Nat \ {0} /\ contents[k].chars <= CHUNK
<1> DEFINE Lines == [addr : Nat \union {SameAddress}, bytes : Nat \ {0}, chars : 1 .. CHUNK]
<1>1. contents \in Seq(Lines)
  BY LoaderAssumption
<1>2. Len(contents) \in Nat /\ DOMAIN contents = 1 .. Len(contents)
      /\ \A k \in 1 .. Len(contents) : contents[k] \in Lines
  <2> HIDE DEF Lines
  <2> QED
    BY <1>1
<1> QED
  BY <1>2, LoaderAssumption

\* EndOf is the recursive function that its definition says.
LEMMA EndLemma ==
  ASSUME contents \in Contents
  PROVE  /\ EndOf[0] = HEADER
         /\ \A k \in 0 .. Len(contents) : EndOf[k] \in Nat
         /\ \A k \in 1 .. Len(contents) : EndOf[k] = EndOf[k - 1] + contents[k].chars
<1> DEFINE n == Len(contents)
           F == [p \in Nat \X (1 .. n) |-> p[1] + contents[p[2]].chars]
<1>1. n \in Nat /\ \A k \in 1 .. n : contents[k].chars \in Nat
  BY ContentsLemma
<1>2. \A x \in Nat, i \in 1 .. n : F[<<x, i>>] = x + contents[i].chars
  OBVIOUS
<1> HIDE DEF F, n
<1>3. Closed(Nat, n, F)
  <2>1. ASSUME NEW x \in Nat, NEW i \in 1 .. n
        PROVE  F[<<x, i>>] \in Nat
    <3>1. contents[i].chars \in Nat
      BY <1>1
    <3>2. F[<<x, i>>] = x + contents[i].chars
      BY <1>2
    <3> QED
      BY <3>1, <3>2
  <2> QED
    BY <2>1 DEF Closed
<1>4. PICK g \in [0 .. n -> Nat] : Iterates(g, n, HEADER, F)
  <2>1. HEADER \in Nat
    BY LoaderAssumption
  <2> QED
    BY <1>1, <1>3, <2>1, Iteration
<1>5. g = [k \in 0 .. n |-> IF k = 0 THEN HEADER ELSE g[k - 1] + contents[k].chars]
  <2>1. [k \in 0 .. n |-> IF k = 0 THEN HEADER ELSE F[<<g[k - 1], k>>]] =
        [k \in 0 .. n |-> IF k = 0 THEN HEADER ELSE g[k - 1] + contents[k].chars]
    BY <1>1, <1>2
  <2> QED
    BY <1>4, <2>1 DEF Iterates
<1>6. EndOf = [k \in 0 .. n |-> IF k = 0 THEN HEADER ELSE EndOf[k - 1] + contents[k].chars]
  BY <1>5 DEF EndOf, n
<1> DEFINE A == {k \in 0 .. n : EndOf[k] \in Nat}
<1>7. 0 \in A
  BY <1>1, <1>6, LoaderAssumption
<1>8. ASSUME NEW k \in 1 .. n, k - 1 \in A
      PROVE  k \in A
  BY <1>1, <1>6, <1>8, SMTT(30)
<1> HIDE DEF A
<1>9. \A k \in 0 .. n : EndOf[k] \in Nat
  BY <1>1, <1>7, <1>8, IntervalInduction DEF A
<1>10. EndOf[0] = HEADER
  BY <1>1, <1>6
<1>11. \A k \in 1 .. n : EndOf[k] = EndOf[k - 1] + contents[k].chars
  BY <1>1, <1>6
<1> QED
  BY <1>9, <1>10, <1>11 DEF n

\* Later lines end at later positions.
LEMMA EndIncreases ==
  ASSUME contents \in Contents,
         NEW k \in 0 .. Len(contents), NEW j \in 0 .. Len(contents), j < k
  PROVE  EndOf[j] < EndOf[k]
<1> DEFINE n == Len(contents)
           A == {i \in 0 .. n : \A l \in 0 .. i - 1 : EndOf[l] < EndOf[i]}
<1>1. n \in Nat /\ \A i \in 0 .. n : EndOf[i] \in Nat
  BY ContentsLemma, EndLemma
<1>2. ASSUME NEW i \in 1 .. n
      PROVE  EndOf[i - 1] < EndOf[i]
  <2>1. EndOf[i] = EndOf[i - 1] + contents[i].chars /\ contents[i].chars \in Nat \ {0}
    BY ContentsLemma, EndLemma
  <2>2. EndOf[i - 1] \in Nat
    BY <1>1
  <2> QED
    BY <2>1, <2>2
<1> HIDE DEF n
<1>3. 0 \in A
  BY <1>1
<1>4. ASSUME NEW i \in 1 .. n, i - 1 \in A
      PROVE  i \in A
  <2>1. ASSUME NEW l \in 0 .. i - 1
        PROVE  EndOf[l] < EndOf[i]
    <3>1. l = i - 1 \/ l \in 0 .. (i - 1) - 1
      BY <1>1
    <3>2. EndOf[l] = EndOf[i - 1] \/ EndOf[l] < EndOf[i - 1]
      BY <1>4, <3>1
    <3> QED
      BY <1>1, <1>2, <3>2
  <2> QED
    BY <2>1
<1> HIDE DEF A
<1>5. 0 .. n \subseteq A
  BY <1>1, <1>3, <1>4, IntervalInduction
<1>6. j \in 0 .. k - 1
  BY <1>1 DEF n
<1> QED
  BY <1>5, <1>6 DEF A, n

\* Behind is the recursive function that its definition says: the address of
\* a line, and its bytes.
LEMMA BehindLemma ==
  ASSUME contents \in Contents
  PROVE  /\ Behind[0] = 0
         /\ \A k \in 0 .. Len(contents) : Behind[k] \in Nat
         /\ \A k \in 1 .. Len(contents) :
              AddressOf(k) \in Nat /\ Behind[k] = AddressOf(k) + contents[k].bytes
<1> DEFINE n == Len(contents)
           R(x, k) == (IF contents[k].addr = SameAddress THEN x ELSE contents[k].addr)
                        + contents[k].bytes
           F == [p \in Nat \X (1 .. n) |-> R(p[1], p[2])]
<1>1. /\ n \in Nat /\ \A k \in 1 .. n : contents[k].bytes \in Nat
      /\ \A k \in 1 .. n : contents[k].addr # SameAddress => contents[k].addr \in Nat
  BY ContentsLemma
<1>2. \A x \in Nat, i \in 1 .. n : F[<<x, i>>] = R(x, i)
  OBVIOUS
<1>3. \A x \in Nat, i \in 1 .. n : R(x, i) \in Nat
  BY <1>1
<1> HIDE DEF F, n
<1>4. Closed(Nat, n, F)
  BY <1>2, <1>3 DEF Closed
<1>5. PICK g \in [0 .. n -> Nat] : Iterates(g, n, 0, F)
  BY <1>1, <1>4, Iteration
<1>6. g = [k \in 0 .. n |-> IF k = 0 THEN 0 ELSE R(g[k - 1], k)]
  <2> HIDE DEF R
  <2>1. [k \in 0 .. n |-> IF k = 0 THEN 0 ELSE F[<<g[k - 1], k>>]] =
        [k \in 0 .. n |-> IF k = 0 THEN 0 ELSE R(g[k - 1], k)]
    BY <1>1, <1>2
  <2> QED
    BY <1>5, <2>1 DEF Iterates
<1>7. Behind = [k \in 0 .. n |-> IF k = 0 THEN 0 ELSE R(Behind[k - 1], k)]
  BY <1>6 DEF Behind, n
<1> DEFINE A == {k \in 0 .. n : Behind[k] \in Nat}
<1> HIDE DEF R
<1>8. 0 \in A
  BY <1>1, <1>7
<1>9. ASSUME NEW k \in 1 .. n, k - 1 \in A
      PROVE  k \in A
  <2>1. k \in 0 .. n /\ k # 0 /\ Behind[k - 1] \in Nat
    BY <1>1, <1>9
  <2>2. Behind[k] = R(Behind[k - 1], k)
    BY <1>7, <2>1
  <2> QED
    BY <1>3, <2>1, <2>2
<1> HIDE DEF A
<1>10. 0 .. n \subseteq A
  BY <1>1, <1>8, <1>9, IntervalInduction
<1>11. \A k \in 0 .. n : Behind[k] \in Nat
  BY <1>10 DEF A
<1>12. ASSUME NEW k \in 1 .. n
       PROVE  AddressOf(k) \in Nat /\ Behind[k] = AddressOf(k) + contents[k].bytes
  <2>1. k - 1 \in 0 .. n
    BY <1>1
  <2>2. AddressOf(k) \in Nat
    BY <1>1, <1>11, <2>1 DEF AddressOf
  <2>3. Behind[k] = R(Behind[k - 1], k)
    BY <1>1, <1>7
  <2> QED
    BY <2>2, <2>3 DEF R, AddressOf
<1>13. Behind[0] = 0
  BY <1>1, <1>7
<1> QED
  BY <1>11, <1>12, <1>13 DEF n

\* A set of lines that is not empty has a last one.
LEMMA GreatestLemma ==
  ASSUME NEW n \in Nat, NEW S, S \subseteq 1 .. n, S # {}
  PROVE  Max(S) \in S /\ \A y \in S : y <= Max(S)
<1> DEFINE B == {n - x : x \in S}
<1>1. B \subseteq Nat /\ B # {}
  OBVIOUS
<1>2. PICK b \in B : \A y \in B : b <= y
  <2> HIDE DEF B
  <2> QED
    BY <1>1, LeastNatural
<1>3. PICK x \in S : b = n - x
  OBVIOUS
<1>4. ASSUME NEW y \in S
      PROVE  x >= y
  <2>1. n - x <= n - y
    BY <1>2, <1>3
  <2>2. x \in Nat /\ y \in Nat
    OBVIOUS
  <2> QED
    BY <2>1, <2>2
<1>5. \E z \in S : \A y \in S : z >= y
  BY <1>4
<1>6. S \subseteq Int
  OBVIOUS
<1> QED
  BY <1>5, <1>6 DEF Max

-----------------------------------------------------------------------------
(* What a chunk places *)

\* The position is the end of line m, and there is more to read.
Reading(m) ==
  /\ contents \in Contents
  /\ m \in 0 .. Len(contents) /\ Position = EndOf[m]
  /\ OnHost(task.fd) /\ SizeOf(task.file) = EndOf[Len(contents)]

\* At the end of line m the loader reads something if and only if there is
\* another line, and of this one it gets all.
LEMMA GotLemma ==
  ASSUME NEW m, Reading(m)
  PROVE  /\ Got \in Int
         /\ Got > 0 <=> m < Len(contents)
         /\ m < Len(contents) =>
              m + 1 \in 1 .. Len(contents) /\ EndOf[m + 1] <= Position + Got
<1> DEFINE n == Len(contents)
           rest == EndOf[n] - EndOf[m]
<1>1. /\ n \in Nat /\ m \in 0 .. n
      /\ \A k \in 0 .. n : EndOf[k] \in Nat
      /\ \A k \in 1 .. n : EndOf[k] = EndOf[k - 1] + contents[k].chars
  BY ContentsLemma, EndLemma DEF Reading
<1>2. Got = Min({CHUNK, rest}) /\ Position = EndOf[m]
  BY DEF Got, FsRead, Reading, Position
<1>3. rest \in Int /\ CHUNK \in Nat
  BY <1>1, LoaderAssumption
<1> HIDE DEF n, rest
<1>4. Got \in {CHUNK, rest} /\ Got <= CHUNK /\ Got <= rest
  <2>1. \E x \in {CHUNK, rest} : \A y \in {CHUNK, rest} : x <= y
    BY <1>3
  <2> QED
    BY <1>2, <1>3, <2>1 DEF Min
<1>5. CASE m = n
  <2>1. rest = 0
    BY <1>1, <1>5 DEF rest
  <2> QED
    BY <1>1, <1>3, <1>4, <1>5, <2>1 DEF n
<1>6. CASE m < n
  <2>1. m + 1 \in 1 .. n /\ (m + 1) - 1 = m /\ n \in 0 .. n
    BY <1>1, <1>6
  <2>2. EndOf[m + 1] = EndOf[m] + contents[m + 1].chars
    BY <1>1, <2>1
  <2>3. contents[m + 1].chars \in Nat \ {0} /\ contents[m + 1].chars <= CHUNK
    BY <2>1, ContentsLemma DEF Reading, n
  <2>4. EndOf[m + 1] <= EndOf[n]
    <3>1. m + 1 = n \/ m + 1 < n
      BY <1>1, <2>1
    <3>2. ASSUME m + 1 < n
          PROVE  EndOf[m + 1] < EndOf[n]
      BY <2>1, <3>2, EndIncreases, ContentsLemma DEF Reading, n
    <3> QED
      BY <1>1, <2>1, <3>1, <3>2
  <2>5. EndOf[m] \in Nat /\ EndOf[n] \in Nat
    BY <1>1, <2>1
  <2>6. contents[m + 1].chars <= rest
    BY <2>2, <2>3, <2>4, <2>5 DEF rest
  <2>7. contents[m + 1].chars <= Got /\ Got \in Int
    BY <1>3, <1>4, <2>3, <2>6
  <2> QED
    BY <1>2, <1>6, <2>1, <2>2, <2>3, <2>5, <2>7 DEF n
<1> QED
  BY <1>1, <1>5, <1>6

\* The chunk starts with the line after m, and ends with some line up to
\* which no other has an address of its own.
LEMMA LinesLemma ==
  ASSUME NEW m, Reading(m), m < Len(contents)
  PROVE  /\ FirstLine = m + 1
         /\ LastLine \in m + 1 .. Len(contents)
         /\ \A j \in m + 2 .. LastLine : contents[j].addr = SameAddress
<1> DEFINE n == Len(contents)
<1>1. /\ n \in Nat /\ m \in 0 .. n /\ DOMAIN contents = 1 .. n /\ contents \in Contents
      /\ \A k \in 0 .. n : EndOf[k] \in Nat
      /\ Position = EndOf[m]
  BY ContentsLemma, EndLemma DEF Reading
<1>2. m + 1 \in 1 .. n /\ EndOf[m + 1] <= Position + Got /\ (m + 1) - 1 = m
  BY <1>1, GotLemma
<1>3. FirstLine = m + 1
  <2>1. ASSUME NEW k \in 1 .. n, EndOf[k - 1] = EndOf[m]
        PROVE  k = m + 1
    <3>1. k - 1 \in 0 .. n /\ (k - 1 = m \/ k - 1 < m \/ m < k - 1)
      BY <1>1
    <3>2. ASSUME k - 1 < m PROVE FALSE
      BY <1>1, <2>1, <3>1, <3>2, EndIncreases
    <3>3. ASSUME m < k - 1 PROVE FALSE
      BY <1>1, <2>1, <3>1, <3>3, EndIncreases
    <3> QED
      BY <1>1, <3>1, <3>2, <3>3
  <2> HIDE DEF n
  <2> QED
    BY <1>1, <1>2, <2>1 DEF FirstLine
<1> DEFINE S == {k \in LinesRead : \A j \in FirstLine + 1 .. k : contents[j].addr = SameAddress}
<1>4. LinesRead \subseteq 1 .. n
  BY <1>1 DEF LinesRead
<1>5. m + 1 \in S
  <2>1. m + 1 \in LinesRead
    BY <1>1, <1>2, <1>3 DEF LinesRead
  <2>2. (m + 1) + 1 .. m + 1 = {}
    BY <1>1
  <2> QED
    BY <1>3, <2>1, <2>2
<1>6. LastLine = Max(S)
  BY DEF LastLine
<1>7. S \subseteq 1 .. n
  BY <1>4
<1>8. \A k \in S : k >= m + 1 /\ \A j \in m + 2 .. k : contents[j].addr = SameAddress
  <2>1. (m + 1) + 1 = m + 2
    BY <1>1
  <2> QED
    BY <1>3, <2>1 DEF LinesRead
<1> HIDE DEF S, n
<1>9. LastLine \in S
  BY <1>1, <1>5, <1>6, <1>7, GreatestLemma
<1>10. LastLine \in m + 1 .. n
  BY <1>1, <1>7, <1>8, <1>9
<1> QED
  BY <1>3, <1>8, <1>9, <1>10 DEF n

\* f flattens c sequences by appending one after the other.
Flattening(f, S, c, seqs) ==
  /\ f \in [1 .. c -> Seq(S)]
  /\ f[1] = seqs[1]
  /\ \A i \in 2 .. c : f[i] = f[i - 1] \o seqs[i]
  /\ FlattenSeq(seqs) = f[c]

\* FlattenSeq does so.
LEMMA FlattenLemma ==
  ASSUME NEW S, NEW c \in Nat \ {0}, NEW seqs \in [1 .. c -> Seq(S)]
  PROVE  \E f : Flattening(f, S, c, seqs)
<1> DEFINE F == [p \in Seq(S) \X (1 .. c - 1) |-> p[1] \o seqs[p[2] + 1]]
<1>1. /\ c - 1 \in Nat /\ seqs[1] \in Seq(S) /\ Len(seqs) = c
      /\ \A i \in 1 .. c - 1 : i + 1 \in 2 .. c
      /\ \A i \in 2 .. c : i - 1 \in 1 .. c - 1 /\ (i - 1) + 1 = i /\ i # 1 /\ seqs[i] \in Seq(S)
  BY LenProperties
<1>2. \A x \in Seq(S), i \in 1 .. c - 1 : F[<<x, i>>] = x \o seqs[i + 1]
  OBVIOUS
<1> HIDE DEF F
<1>3. ASSUME NEW x \in Seq(S), NEW i \in 1 .. c - 1
      PROVE  F[<<x, i>>] \in Seq(S)
  <2>1. i + 1 \in 2 .. c
    BY <1>1
  <2>2. seqs[i + 1] \in Seq(S)
    BY <1>1, <2>1
  <2>3. x \o seqs[i + 1] \in Seq(S)
    BY <2>2, ConcatProperties
  <2> QED
    BY <1>2, <2>3
<1>4. PICK g \in [0 .. c - 1 -> Seq(S)] : Iterates(g, c - 1, seqs[1], F)
  BY <1>1, <1>3, Iteration DEF Closed
<1> DEFINE f == [i \in 1 .. c |-> g[i - 1]]
           Flattens(h) == h = [i \in 1 .. c |-> IF i = 1 THEN seqs[i] ELSE h[i - 1] \o seqs[i]]
<1>5. f \in [1 .. c -> Seq(S)] /\ f[1] = seqs[1]
  <2>1. g[0] = seqs[1]
    BY <1>1, <1>4 DEF Iterates
  <2>2. \A i \in 1 .. c : i - 1 \in 0 .. c - 1
    OBVIOUS
  <2> QED
    BY <1>1, <1>4, <2>1, <2>2
<1>6. ASSUME NEW i \in 2 .. c
      PROVE  f[i] = f[i - 1] \o seqs[i]
  <2>1. i - 1 \in 1 .. c - 1 /\ i - 1 \in 0 .. c - 1 /\ i - 1 # 0
    BY <1>1
  <2>2. g[i - 1] = F[<<g[(i - 1) - 1], i - 1>>]
    BY <1>4, <2>1 DEF Iterates
  <2>3. (i - 1) - 1 \in 0 .. c - 1
    OBVIOUS
  <2>4. F[<<g[(i - 1) - 1], i - 1>>] = g[(i - 1) - 1] \o seqs[(i - 1) + 1]
    BY <1>2, <1>4, <2>1, <2>3
  <2>5. (i - 1) + 1 = i /\ f[i] = g[i - 1] /\ f[i - 1] = g[(i - 1) - 1]
    OBVIOUS
  <2> QED
    BY <2>2, <2>4, <2>5
<1> HIDE DEF f
<1>7. \E h : Flattens(h)
  <2>1. \A i \in 1 .. c : f[i] = IF i = 1 THEN seqs[i] ELSE f[i - 1] \o seqs[i]
    <3>1. \A i \in 1 .. c : i = 1 \/ i \in 2 .. c
      OBVIOUS
    <3> QED
      BY <1>5, <1>6, <3>1
  <2>2. Flattens(f)
    BY <1>5, <2>1
  <2> QED
    BY <2>2
<1> DEFINE e == CHOOSE h : Flattens(h)
<1>8. Flattens(e)
  BY <1>7
<1>9. FlattenSeq(seqs) = e[c]
  BY <1>1 DEF FlattenSeq
<1> HIDE DEF e
<1>10. e[1] = seqs[1] /\ \A i \in 2 .. c : e[i] = e[i - 1] \o seqs[i]
  <2>1. \A i \in 1 .. c : e[i] = IF i = 1 THEN seqs[i] ELSE e[i - 1] \o seqs[i]
    BY <1>8
  <2>2. 1 \in 1 .. c /\ \A i \in 2 .. c : i \in 1 .. c /\ i # 1
    OBVIOUS
  <2> QED
    BY <2>1, <2>2
<1> HIDE DEF Flattens
<1> DEFINE A == {i \in 0 .. c - 1 : e[i + 1] = f[i + 1]}
<1>11. 0 \in A
  BY <1>1, <1>5, <1>10
<1>12. ASSUME NEW i \in 1 .. c - 1, i - 1 \in A
       PROVE  i \in A
  <2>1. i + 1 \in 2 .. c /\ (i + 1) - 1 = i /\ (i - 1) + 1 = i
    OBVIOUS
  <2>2. e[i] = f[i]
    BY <1>12, <2>1
  <2>3. e[i + 1] = f[i + 1]
    BY <1>6, <1>10, <2>1, <2>2
  <2> QED
    BY <2>3
<1>13. c - 1 \in A
  <2> HIDE DEF A
  <2>1. 0 .. c - 1 \subseteq A
    BY <1>1, <1>11, <1>12, IntervalInduction
  <2> QED
    BY <1>1, <2>1
<1>14. e[c] = f[c]
  BY <1>13
<1> QED
  BY <1>5, <1>6, <1>9, <1>14 DEF Flattening

\* The last line up to l that puts something at x is k.
LastAt(x, k, l) == x \in Addresses(k) /\ \A i \in k + 1 .. l : x \notin Addresses(i)

\* s is what the lines behind m up to l place, one behind the other.
Places(s, m, l) ==
  /\ s \in Seq(Nat \X Nat) /\ Len(s) = Behind[l] - AddressOf(m + 1)
  /\ \A k \in m + 1 .. l : Addresses(k) \subseteq AddressOf(m + 1) .. Behind[l] - 1
  /\ \A x \in AddressOf(m + 1) .. Behind[l] - 1 :
       \E k \in m + 1 .. l :
         LastAt(x, k, l) /\ s[x - AddressOf(m + 1) + 1] = <<k, x - AddressOf(k) + 1>>

\* One line places its bytes.
LEMMA BytesOfLemma ==
  ASSUME contents \in Contents, NEW k \in 1 .. Len(contents)
  PROVE  /\ BytesOf(k) \in Seq(Nat \X Nat) /\ Len(BytesOf(k)) = contents[k].bytes
         /\ \A j \in 1 .. contents[k].bytes : BytesOf(k)[j] = <<k, j>>
<1> DEFINE b == contents[k].bytes
<1>1. b \in Nat /\ k \in Nat /\ Len(contents) \in Nat
  BY ContentsLemma
<1> HIDE DEF b
<1>2. \A j \in 1 .. b : <<k, j>> \in Nat \X Nat
  BY <1>1
<1>3. BytesOf(k) = [j \in 1 .. b |-> <<k, j>>]
  BY DEF BytesOf, b
<1> QED
  BY <1>1, <1>2, <1>3 DEF b

\* Places holds for the first line.
LEMMA PlacesFirst ==
  ASSUME contents \in Contents, NEW m \in Nat, m + 1 \in 1 .. Len(contents)
  PROVE  Places(BytesOf(m + 1), m, m + 1)
<1> DEFINE k == m + 1
           s == BytesOf(k)
           a == AddressOf(k)
<1>1. /\ s \in Seq(Nat \X Nat) /\ Len(s) = contents[k].bytes
      /\ \A j \in 1 .. contents[k].bytes : s[j] = <<k, j>>
  BY BytesOfLemma
<1>2. /\ a \in Nat /\ Behind[k] = a + contents[k].bytes /\ contents[k].bytes \in Nat \ {0}
  BY BehindLemma, ContentsLemma
<1>3. Addresses(k) = a .. Behind[k] - 1
  BY DEF Addresses
<1> HIDE DEF s, a
<1>4. Len(s) = Behind[k] - a
  BY <1>1, <1>2
<1>5. ASSUME NEW x \in a .. Behind[k] - 1
      PROVE  LastAt(x, k, k) /\ s[x - a + 1] = <<k, x - a + 1>>
  <2>1. x - a + 1 \in 1 .. contents[k].bytes
    BY <1>2
  <2>2. k + 1 .. k = {}
    OBVIOUS
  <2> QED
    BY <1>1, <1>3, <2>1, <2>2 DEF LastAt
<1>6. k \in m + 1 .. k /\ \A i \in m + 1 .. k : i = k
  OBVIOUS
<1> HIDE DEF k
<1>7. \A x \in a .. Behind[k] - 1 :
        \E i \in k .. k : LastAt(x, i, k) /\ s[x - a + 1] = <<i, x - AddressOf(i) + 1>>
  BY <1>5, <1>6 DEF a, k
<1> QED
  BY <1>1, <1>3, <1>4, <1>6, <1>7 DEF Places, a, s, k

\* Places stays true when the next line is appended, which has no address of
\* its own.
LEMMA PlacesNext ==
  ASSUME contents \in Contents, NEW m \in Nat,
         NEW l \in m + 1 .. Len(contents), l + 1 \in 1 .. Len(contents),
         m + 1 \in 1 .. Len(contents),
         contents[l + 1].addr = SameAddress,
         NEW s, Places(s, m, l)
  PROVE  Places(s \o BytesOf(l + 1), m, l + 1)
<1> DEFINE k == l + 1
           b == BytesOf(k)
           a == AddressOf(m + 1)
           t == s \o b
           n == contents[k].bytes
<1>1. /\ b \in Seq(Nat \X Nat) /\ Len(b) = n
      /\ \A j \in 1 .. n : b[j] = <<k, j>>
  BY BytesOfLemma
<1>2. /\ l \in Nat /\ l \in 1 .. Len(contents) /\ k - 1 = l /\ k = l + 1 /\ k \in Nat
      /\ a \in Nat /\ n \in Nat \ {0} /\ Behind[l] \in Nat
      /\ AddressOf(k) = Behind[l] /\ Behind[k] = Behind[l] + n
  <2>1. Len(contents) \in Nat
    BY ContentsLemma
  <2>2. l \in Nat /\ l \in 1 .. Len(contents) /\ l \in 0 .. Len(contents) /\ k - 1 = l
    BY <2>1
  <2>3. AddressOf(k) = Behind[k - 1]
    BY DEF AddressOf
  <2> QED
    BY <2>2, <2>3, BehindLemma, ContentsLemma
<1>3. s \in Seq(Nat \X Nat) /\ Len(s) = Behind[l] - a
  BY DEF Places
<1>4. /\ t \in Seq(Nat \X Nat) /\ Len(t) = Len(s) + Len(b)
      /\ \A i \in 1 .. Len(s) + Len(b) : t[i] = IF i <= Len(s) THEN s[i] ELSE b[i - Len(s)]
  BY <1>1, <1>3, ConcatProperties
<1>5. Addresses(k) = Behind[l] .. Behind[k] - 1
  BY <1>2 DEF Addresses
<1>6. \A i \in m + 1 .. l : Addresses(i) \subseteq a .. Behind[l] - 1
  BY DEF Places
<1>7. \A x \in a .. Behind[l] - 1 :
        \E i \in m + 1 .. l :
          LastAt(x, i, l) /\ s[x - a + 1] = <<i, x - AddressOf(i) + 1>>
  BY DEF Places
<1>8. \A i \in m + 1 .. k : i = k \/ i \in m + 1 .. l
  BY <1>2
<1>9. k \in m + 1 .. k /\ \A i \in m + 1 .. l : i \in m + 1 .. k
  BY <1>2
<1>10. Len(s) \in Nat /\ Behind[l] = a + Len(s)
  BY <1>2, <1>3, LenProperties
<1> HIDE DEF k, b, a, t, n
<1>11. Len(t) = Behind[k] - a
  BY <1>1, <1>2, <1>4, <1>10
<1>12. \A i \in m + 1 .. k : Addresses(i) \subseteq a .. Behind[k] - 1
  <2>1. Addresses(k) \subseteq a .. Behind[k] - 1
    BY <1>2, <1>5, <1>10
  <2>2. a .. Behind[l] - 1 \subseteq a .. Behind[k] - 1
    BY <1>2
  <2> QED
    BY <1>6, <1>8, <2>1, <2>2
<1>13. ASSUME NEW x \in a .. Behind[k] - 1
       PROVE  \E i \in m + 1 .. k :
                LastAt(x, i, k) /\ t[x - a + 1] = <<i, x - AddressOf(i) + 1>>
  <2>1. CASE x < Behind[l]
    <3>1. x \in a .. Behind[l] - 1 /\ x - a + 1 \in 1 .. Len(s)
      BY <1>2, <1>10, <2>1
    <3>2. PICK i \in m + 1 .. l :
            LastAt(x, i, l) /\ s[x - a + 1] = <<i, x - AddressOf(i) + 1>>
      BY <1>7, <3>1
    <3>3. x \notin Addresses(k)
      BY <1>2, <1>5, <2>1
    <3>4. \A j \in i + 1 .. k : j = k \/ j \in i + 1 .. l
      BY <1>2, <3>2
    <3>5. LastAt(x, i, k)
      BY <3>2, <3>3, <3>4 DEF LastAt
    <3>6. t[x - a + 1] = s[x - a + 1]
      <4>1. Len(b) \in Nat
        BY <1>1, <1>2
      <4>2. x - a + 1 \in 1 .. Len(s) + Len(b) /\ x - a + 1 <= Len(s)
        BY <1>10, <3>1, <4>1
      <4> QED
        BY <1>4, <4>2
    <3> QED
      BY <1>9, <3>2, <3>5, <3>6
  <2>2. CASE ~(x < Behind[l])
    <3>1. x \in Addresses(k)
      BY <1>2, <1>5, <2>2
    <3>2. k + 1 .. k = {}
      BY <1>2
    <3>3. LastAt(x, k, k)
      BY <3>1, <3>2 DEF LastAt
    <3>4. t[x - a + 1] = b[(x - a + 1) - Len(s)]
      <4> DEFINE p == x - a + 1
      <4>1. a + Len(s) <= x /\ x <= a + Len(s) + n - 1 /\ x \in Int
        BY <1>2, <1>10, <2>2
      <4>2. p \in 1 .. Len(s) + Len(b) /\ ~(p <= Len(s))
        BY <1>1, <1>2, <1>10, <4>1
      <4> HIDE DEF p
      <4>3. t[p] = b[p - Len(s)]
        BY <1>4, <4>2
      <4> QED
        BY <4>3 DEF p
    <3>5. (x - a + 1) - Len(s) = x - AddressOf(k) + 1 /\ x - AddressOf(k) + 1 \in 1 .. n
      BY <1>2, <1>10, <2>2
    <3>6. t[x - a + 1] = <<k, x - AddressOf(k) + 1>>
      BY <1>1, <3>4, <3>5
    <3> QED
      BY <1>9, <3>3, <3>6
  <2> QED
    BY <2>1, <2>2
<1> QED
  BY <1>4, <1>11, <1>12, <1>13 DEF Places, k, b, a, t

\* What a chunk places is what its lines place, from the address of the first.
LEMMA PlacedLemma ==
  ASSUME NEW m, Reading(m), m < Len(contents), task.addr = Behind[m]
  PROVE  Places(Placed, m, LastLine) /\ PlacedAt = AddressOf(m + 1)
<1> DEFINE n == Len(contents)
           l == LastLine
           c == l - m
           seqs == [i \in 1 .. c |-> BytesOf(m + i)]
<1>1. /\ n \in Nat /\ m \in 0 .. n /\ m \in Nat /\ contents \in Contents
  BY ContentsLemma DEF Reading
<1>2. /\ FirstLine = m + 1 /\ l \in m + 1 .. n
      /\ \A j \in m + 2 .. l : contents[j].addr = SameAddress
  BY LinesLemma
<1>3. PlacedAt = AddressOf(m + 1)
  <2>1. (m + 1) - 1 = m
    BY <1>1
  <2> QED
    BY <1>2, <2>1 DEF PlacedAt, AddressOf
<1> HIDE DEF l, n
<1>4. c \in Nat \ {0} /\ \A i \in 1 .. c : m + i \in m + 1 .. l /\ m + i \in 1 .. n
  BY <1>1, <1>2
<1>5. Placed = FlattenSeq(seqs)
  <2>1. l - (m + 1) + 1 = c /\ \A i \in 1 .. c : (m + 1) + i - 1 = m + i
    BY <1>1, <1>2
  <2>2. [i \in 1 .. c |-> BytesOf((m + 1) + i - 1)] = seqs
    BY <2>1
  <2> QED
    BY <1>2, <2>1, <2>2 DEF Placed, l
<1>6. seqs \in [1 .. c -> Seq(Nat \X Nat)]
  BY <1>1, <1>4, BytesOfLemma DEF n
<1>7. \A i \in 1 .. c : seqs[i] = BytesOf(m + i)
  OBVIOUS
<1> HIDE DEF seqs, c
<1>8. PICK f : Flattening(f, Nat \X Nat, c, seqs)
  <2>1. c \in Nat \ {0}
    BY <1>4
  <2> QED
    BY <1>6, <2>1, FlattenLemma
<1> DEFINE A == {i \in 0 .. c - 1 : Places(f[i + 1], m, m + (i + 1))}
<1>9. 0 \in A
  <2>1. 1 \in 1 .. c /\ 0 \in 0 .. c - 1 /\ m + 1 \in 1 .. n
    BY <1>4
  <2>2. Places(f[1], m, m + 1)
    <3>1. f[1] = BytesOf(m + 1)
      BY <1>7, <1>8, <2>1 DEF Flattening
    <3> QED
      BY <1>1, <2>1, <3>1, PlacesFirst DEF n
  <2> QED
    BY <2>1, <2>2
<1>10. ASSUME NEW i \in 1 .. c - 1, i - 1 \in A
       PROVE  i \in A
  <2>1. /\ i + 1 \in 2 .. c /\ i + 1 \in 1 .. c /\ (i + 1) - 1 = i /\ (i - 1) + 1 = i
        /\ i \in 1 .. c /\ 1 \in 1 .. c /\ i \in 0 .. c - 1
        /\ (m + i) + 1 = m + (i + 1)
    BY <1>1, <1>4
  <2>2. Places(f[i], m, m + i)
    BY <1>10, <2>1
  <2>3. /\ m + i \in m + 1 .. n /\ m + (i + 1) \in 1 .. n /\ m + 1 \in 1 .. n
        /\ m + (i + 1) \in m + 2 .. l
    BY <1>1, <1>2, <1>4, <2>1 DEF c
  <2>4. contents[(m + i) + 1].addr = SameAddress
    BY <1>2, <2>1, <2>3
  <2>5. Places(f[i] \o BytesOf((m + i) + 1), m, (m + i) + 1)
    BY <1>1, <2>1, <2>2, <2>3, <2>4, PlacesNext DEF n
  <2>6. f[i + 1] = f[i] \o BytesOf((m + i) + 1)
    BY <1>7, <1>8, <2>1 DEF Flattening
  <2> QED
    BY <2>1, <2>5, <2>6
<1>11. c - 1 \in A
  <2> HIDE DEF A
  <2>1. c - 1 \in Nat
    BY <1>4
  <2>2. 0 .. c - 1 \subseteq A
    BY <1>9, <1>10, <2>1, IntervalInduction
  <2> QED
    BY <2>1, <2>2
<1>12. (c - 1) + 1 = c /\ m + c = l
  BY <1>1, <1>2 DEF c
<1>13. Places(f[c], m, l)
  BY <1>11, <1>12
<1> QED
  BY <1>3, <1>5, <1>8, <1>13 DEF l, Flattening

\* The last line that puts something at x is the greatest of those that do.
LEMMA LastAtLemma ==
  ASSUME NEW l \in Nat, NEW k \in 1 .. l, NEW x, LastAt(x, k, l)
  PROVE  Max({i \in 1 .. l : x \in Addresses(i)}) = k
<1> DEFINE S == {i \in 1 .. l : x \in Addresses(i)}
<1>1. k \in S
  BY DEF LastAt
<1>2. \A i \in S : i <= k
  <2>1. \A i \in 1 .. l : i <= k \/ i \in k + 1 .. l
    OBVIOUS
  <2> QED
    BY <2>1 DEF LastAt
<1>3. S \subseteq 1 .. l
  OBVIOUS
<1> HIDE DEF S
<1>4. Max(S) \in S /\ \A y \in S : y <= Max(S)
  BY <1>1, <1>3, GreatestLemma
<1>5. PICK z \in S : z = Max(S)
  BY <1>4
<1>6. z <= k /\ k <= z /\ z \in Int
  BY <1>1, <1>2, <1>3, <1>4, <1>5
<1> QED
  BY <1>5, <1>6 DEF S

\* An image with the bytes s at the addresses from a on.
Overlaid(old, a, s) ==
  [x \in DOMAIN old \union (a .. a + Len(s) - 1) |->
     IF x \in a .. a + Len(s) - 1 THEN s[x - a + 1] ELSE old[x]]

\* The image of the lines up to m, with what the lines behind m up to l place,
\* is the image of the lines up to l.
LEMMA ImageLemma ==
  ASSUME contents \in Contents, NEW m \in Nat, NEW l \in m + 1 .. Len(contents),
         NEW s, Places(s, m, l)
  PROVE  Overlaid(ImageOf(m), AddressOf(m + 1), s) = ImageOf(l)
<1> DEFINE a == AddressOf(m + 1)
           span == a .. a + Len(s) - 1
           old == ImageOf(m)
           new == ImageOf(l)
           By(x, k) == {i \in 1 .. k : x \in Addresses(i)}
           Value(x, k) == LET i == Max(By(x, k)) IN <<i, x - AddressOf(i) + 1>>
           Where(k) == UNION {Addresses(i) : i \in 1 .. k}
<1>1. l \in Nat /\ l \in m + 1 .. Len(contents) /\ l \in 0 .. Len(contents)
      /\ m + 1 \in 1 .. Len(contents)
  BY ContentsLemma
<1>2. a \in Nat /\ Behind[l] \in Nat
  BY <1>1, BehindLemma
<1>3. span = a .. Behind[l] - 1
  <2>1. Len(s) = Behind[l] - a
    BY DEF Places
  <2>2. a + Len(s) - 1 = Behind[l] - 1
    BY <1>2, <2>1
  <2> QED
    BY <2>2
<1>4. /\ \A k \in m + 1 .. l : Addresses(k) \subseteq span
      /\ \A x \in span : \E k \in m + 1 .. l :
           LastAt(x, k, l) /\ s[x - a + 1] = <<k, x - AddressOf(k) + 1>>
  BY <1>3 DEF Places
<1>5. /\ old = [x \in Where(m) |-> Value(x, m)]
      /\ new = [x \in Where(l) |-> Value(x, l)]
  BY DEF ImageOf
<1>6. \A i \in 1 .. l : i \in 1 .. m \/ i \in m + 1 .. l
  BY <1>1
<1>7. \A i \in m + 1 .. l : i \in 1 .. l
  BY <1>1
<1>8. \A i \in 1 .. m : i \in 1 .. l
  BY <1>1
<1> HIDE DEF a, span, old, new, By, Value
<1>9. Where(l) = Where(m) \union span
  <2>1. Where(l) \subseteq Where(m) \union span
    BY <1>4, <1>6
  <2>2. Where(m) \subseteq Where(l)
    BY <1>8
  <2>3. span \subseteq Where(l)
    BY <1>4, <1>7 DEF LastAt
  <2> QED
    BY <2>1, <2>2, <2>3
<1> HIDE DEF Where
<1>10. DOMAIN old = Where(m) /\ \A x \in Where(m) : old[x] = Value(x, m)
  BY <1>5
<1>11. ASSUME NEW x \in span
       PROVE  Value(x, l) = s[x - a + 1]
  <2>1. PICK k \in m + 1 .. l :
          LastAt(x, k, l) /\ s[x - a + 1] = <<k, x - AddressOf(k) + 1>>
    BY <1>4
  <2>2. Max(By(x, l)) = k
    BY <1>1, <1>7, <2>1, LastAtLemma DEF By
  <2> QED
    BY <2>1, <2>2 DEF Value
<1>12. ASSUME NEW x \in Where(m), x \notin span
       PROVE  Value(x, l) = old[x]
  <2>1. By(x, l) = By(x, m)
    BY <1>4, <1>6, <1>8, <1>12 DEF By
  <2> QED
    BY <1>10, <2>1 DEF Value
<1>13. [x \in DOMAIN old \union span |-> IF x \in span THEN s[x - a + 1] ELSE old[x]] =
       [x \in Where(l) |-> Value(x, l)]
  BY <1>9, <1>10, <1>11, <1>12
<1> QED
  BY <1>5, <1>13 DEF a, span, old, new, Overlaid

-----------------------------------------------------------------------------
(* The table of open files *)

\* FsOpen leaves no slot free that was in use; when it returns a slot, this
\* slot was free and is in use now, with a file of the simulator at position
\* 0, unless the name is one of the DLX file system.
LEMMA OpenLemma ==
  ASSUME LoaderTypes, NEW name, NEW mode \in {1, 2}, NEW fd,
         FsOpen(name, mode, fd)
  PROVE  /\ openfiles' \in OpenFiles
         /\ InUse \subseteq InUse'
         /\ 0 \in InUse \/ name \in HostFile \union DlxFile => 0 \in InUse'
         /\ fd \in Int
         /\ fd >= 0 =>
              /\ name \in HostFile \union DlxFile
              /\ fd \notin InUse /\ fd \in InUse'
              /\ name \notin DlxFile => openfiles'[fd].fs = 0
              /\ openfiles'[fd].fs = 0 =>
                   /\ openfiles'[fd].fd \in DOMAIN host'
                   /\ host'[openfiles'[fd].fd] = [name |-> name, pos |-> 0]
<1> USE DEF InUse, Slots, OpenFiles, Entry
<1>1. /\ FS_MAX_OPEN_FILES \in Nat \ {0} /\ HostFd \subseteq Nat
      /\ openfiles \in OpenFiles
  BY FileSysAssumption DEF LoaderTypes
<1>2. CASE InUse = Slots /\ fd = -1 /\ UNCHANGED fsVars
  <2>1. 0 \in Slots
    BY <1>1
  <2> QED
    BY <1>1, <1>2, <2>1 DEF fsVars
<1> DEFINE i == Min(Slots \ InUse)
<1>3. ASSUME InUse # Slots
      PROVE  i \in Slots /\ i \notin InUse /\ (0 \in InUse \/ i = 0)
  <2>1. Slots \ InUse \subseteq Nat /\ Slots \ InUse # {}
    BY <1>1, <1>3
  <2>2. PICK x \in Slots \ InUse : \A y \in Slots \ InUse : x <= y
    <3> DEFINE B == Slots \ InUse
    <3>1. B \subseteq Nat /\ B # {}
      BY <2>1
    <3> HIDE DEF B
    <3>2. \E x \in B : \A y \in B : x <= y
      BY <3>1, LeastNatural
    <3> QED
      BY <3>2 DEF B
  <2>3. i \in Slots \ InUse /\ \A y \in Slots \ InUse : i <= y
    BY <2>2 DEF Min
  <2>4. 0 \in Slots
    BY <1>1
  <2> QED
    BY <1>1, <2>3, <2>4
<1> HIDE DEF i
<1>4. ASSUME InUse # Slots, NEW e \in Entry,
             openfiles' = [openfiles EXCEPT ![i] = e]
      PROVE  /\ openfiles' \in OpenFiles
             /\ openfiles'[i] = e
             /\ InUse \subseteq InUse'
             /\ e.flags # 0 => i \in InUse' /\ 0 \in InUse'
  BY <1>1, <1>3, <1>4
<1>5. CASE /\ InUse # Slots /\ name \in DlxFile /\ fd = i
           /\ openfiles' = [openfiles EXCEPT ![i] = [flags |-> mode, fs |-> 1, fd |-> 0]]
           /\ UNCHANGED host
  <2> DEFINE e == [flags |-> mode, fs |-> 1, fd |-> 0]
  <2>1. e \in Entry /\ e.flags # 0 /\ e.fs = 1
    OBVIOUS
  <2> HIDE DEF e
  <2>2. openfiles' = [openfiles EXCEPT ![i] = e]
    BY <1>5 DEF e
  <2>3. /\ openfiles' \in OpenFiles
        /\ openfiles'[i] = e /\ InUse \subseteq InUse' /\ i \in InUse' /\ 0 \in InUse'
    BY <1>4, <1>5, <2>1, <2>2
  <2> QED
    BY <1>1, <1>3, <1>5, <2>1, <2>3
<1>6. CASE /\ InUse # Slots
           /\ \E d \in HostFd \ DOMAIN host :
                /\ name \in HostFile
                /\ fd = i
                /\ openfiles' = [openfiles EXCEPT ![i] = [flags |-> mode, fs |-> 0, fd |-> d]]
                /\ host' = [x \in DOMAIN host \union {d} |->
                              IF x = d THEN [name |-> name, pos |-> 0] ELSE host[x]]
  <2>1. PICK d \in HostFd \ DOMAIN host :
          /\ name \in HostFile
          /\ fd = i
          /\ openfiles' = [openfiles EXCEPT ![i] = [flags |-> mode, fs |-> 0, fd |-> d]]
          /\ host' = [x \in DOMAIN host \union {d} |->
                        IF x = d THEN [name |-> name, pos |-> 0] ELSE host[x]]
    BY <1>6
  <2> DEFINE e == [flags |-> mode, fs |-> 0, fd |-> d]
  <2>2. e \in Entry /\ e.flags # 0 /\ e.fs = 0 /\ e.fd = d
    BY <1>1
  <2> HIDE DEF e
  <2>3. openfiles' = [openfiles EXCEPT ![i] = e]
    BY <2>1 DEF e
  <2>4. /\ openfiles' \in OpenFiles
        /\ openfiles'[i] = e /\ InUse \subseteq InUse' /\ i \in InUse' /\ 0 \in InUse'
    BY <1>4, <1>6, <2>2, <2>3
  <2>5. d \in DOMAIN host' /\ host'[d] = [name |-> name, pos |-> 0]
    BY <2>1
  <2>6. name \in HostFile /\ fd = i
    BY <2>1
  <2> QED
    BY <1>1, <1>3, <1>6, <2>2, <2>4, <2>5, <2>6
<1>7. CASE /\ InUse # Slots
           /\ name \notin HostFile \union DlxFile /\ fd = -1
           /\ openfiles' = [openfiles EXCEPT ![i] = [flags |-> 0, fs |-> 0, fd |-> -1]]
           /\ UNCHANGED host
  <2> DEFINE e == [flags |-> 0, fs |-> 0, fd |-> -1]
  <2>1. e \in Entry
    OBVIOUS
  <2> HIDE DEF e
  <2>2. openfiles' = [openfiles EXCEPT ![i] = e]
    BY <1>7 DEF e
  <2>3. /\ openfiles' \in OpenFiles
        /\ InUse \subseteq InUse'
    BY <1>4, <1>7, <2>1, <2>2
  <2> QED
    BY <1>7, <2>3
<1> QED
  BY <1>2, <1>5, <1>6, <1>7 DEF FsOpen, i

\* All slots in use but slot 0 are valid descriptors.
LEMMA ValidLemma ==
  ASSUME NEW fd \in InUse, fd # 0
  PROVE  FdValid(fd)
BY FileSysAssumption DEF InUse, Slots, FdValid

\* FsClose gives a valid descriptor's slot back, and no other.
LEMMA CloseLemma ==
  ASSUME LoaderTypes, NEW fd, FsClose(fd)
  PROVE  /\ openfiles' \in OpenFiles
         /\ FdValid(fd) => InUse' = InUse \ {fd}
         /\ ~FdValid(fd) => InUse' = InUse
         /\ 0 \in InUse => 0 \in InUse'
<1> USE DEF OpenFiles, Entry
<1>1. openfiles \in OpenFiles
  BY DEF LoaderTypes
<1>2. CASE ~FdValid(fd) /\ UNCHANGED fsVars
  BY <1>1, <1>2 DEF fsVars, InUse
<1>3. CASE FdValid(fd) /\ openfiles' = [openfiles EXCEPT ![fd].flags = 0]
  <2> DEFINE e == [openfiles[fd] EXCEPT !.flags = 0]
  <2>1. openfiles' = [openfiles EXCEPT ![fd] = e]
    BY <1>3, Zenon
  <2>2. ASSUME fd \in Slots
        PROVE  e \in Entry /\ e.flags = 0
    BY <1>1, <2>2
  <2> HIDE DEF e
  <2>3. /\ openfiles' \in OpenFiles
        /\ InUse' = InUse \ {fd}
    BY <1>1, <2>1, <2>2 DEF InUse
  <2>4. fd # 0
    BY <1>3 DEF FdValid
  <2> QED
    BY <1>3, <2>3, <2>4
<1> QED
  BY <1>2, <1>3 DEF FsClose

\* FsSeek moves the file behind the descriptor, and leaves the table alone.
LEMMA SeekLemma ==
  ASSUME NEW fd, NEW pos, FsSeek(fd, pos), OnHost(fd),
         NEW name, NEW p, HostOf(fd) \in DOMAIN host,
         host[HostOf(fd)] = [name |-> name, pos |-> p]
  PROVE  /\ UNCHANGED openfiles
         /\ HostOf(fd) \in DOMAIN host'
         /\ host'[HostOf(fd)] = [name |-> name, pos |-> pos]
<1> DEFINE d == HostOf(fd)
           r == [host[d] EXCEPT !.pos = pos]
<1>1. host' = [host EXCEPT ![d].pos = pos] /\ UNCHANGED openfiles
  BY DEF FsSeek
<1>2. host' = [host EXCEPT ![d] = r]
  BY <1>1, Zenon
<1>3. r = [name |-> name, pos |-> pos]
  OBVIOUS
<1> HIDE DEF d, r
<1> QED
  BY <1>1, <1>2, <1>3 DEF d

-----------------------------------------------------------------------------
(* The steps *)

\* The lines of the file do not change.
LEMMA SameLines ==
  ASSUME contents' = contents
  PROVE  /\ EndOf' = EndOf /\ Behind' = Behind
         /\ \A m : ImageOf(m)' = ImageOf(m)
<1>1. EndOf' = EndOf /\ Behind' = Behind
  BY DEF EndOf, Behind
<1>2. ASSUME NEW k PROVE AddressOf(k)' = AddressOf(k) /\ Addresses(k)' = Addresses(k)
  BY <1>1 DEF AddressOf, Addresses
<1>3. ASSUME NEW m PROVE ImageOf(m)' = ImageOf(m)
  BY <1>2 DEF ImageOf
<1> QED
  BY <1>1, <1>3

\* Opening a file for a task keeps the invariant.
LEMMA BeginLemma ==
  ASSUME LoaderInv, NEW kind \in {"dump", "vm", "load"}, NEW file \in File \union {"vm"},
         NEW mode \in {1, 2}, NEW pc \in {"info", "close"}, pc = "close" <=> kind = "vm",
         Begin(kind, file, mode, pc)
  PROVE  LoaderInv'
<1>1. PICK fd \in -1 .. FS_MAX_OPEN_FILES - 1 :
        /\ FsOpen(file, mode, fd)
        /\ task' = IF fd < 0 /\ kind = "load" THEN Idle
                   ELSE [pc |-> IF fd < 0 THEN "close" ELSE pc, kind |-> kind,
                         file |-> file, fd |-> fd, addr |-> 0]
  BY DEF Begin
<1>2. image' = << >> /\ contents' = contents
  BY DEF Begin
<1>3. /\ openfiles' \in OpenFiles
      /\ fd \in Int
      /\ fd >= 0 =>
           /\ fd \in InUse'
           /\ file \notin DlxFile => openfiles'[fd].fs = 0
           /\ openfiles'[fd].fs = 0 =>
                /\ openfiles'[fd].fd \in DOMAIN host'
                /\ host'[openfiles'[fd].fd] = [name |-> file, pos |-> 0]
  BY <1>1, OpenLemma DEF LoaderInv
<1>4. CASE fd < 0 /\ kind = "load"
  <2>1. task' = Idle
    BY <1>1, <1>4
  <2> QED
    BY <1>2, <1>3, <2>1
    DEF LoaderInv, LoaderTypes, Tasks, InfoInv, LinesInv, CloseInv, At, Idle
<1>5. CASE ~(fd < 0 /\ kind = "load")
  <2> DEFINE q == IF fd < 0 THEN "close" ELSE pc
  <2>1. task' = [pc |-> q, kind |-> kind, file |-> file, fd |-> fd, addr |-> 0]
    BY <1>1, <1>5
  <2>2. /\ q \in {"info", "close"}
        /\ q = "close" => kind \in {"vm", "dump"}
        /\ q = "info" => kind \in {"dump", "load"} /\ fd >= 0
    BY <1>3, <1>5
  <2> HIDE DEF q
  <2>3. /\ task'.pc = q /\ task'.kind = kind /\ task'.file = file /\ task'.fd = fd
        /\ task'.addr = 0
    BY <2>1
  <2>4. LoaderTypes'
    BY <1>2, <1>3, <2>1, <2>2 DEF LoaderInv, LoaderTypes, Tasks
  <2>5. InfoInv'
    BY <1>2, <1>3, <2>2, <2>3 DEF InfoInv, Opened, At, HostOf
  <2>6. LinesInv' /\ CloseInv' /\ (At("idle") => task = Idle)'
    BY <2>2, <2>3 DEF LinesInv, CloseInv, At
  <2> QED
    BY <2>4, <2>5, <2>6 DEF LoaderInv
<1> QED
  BY <1>4, <1>5

\* When the info has been read, the file is one of the simulator, and as long
\* as its lines say.
LEMMA InfoLemma ==
  ASSUME LoaderInv, At("info"), ReadsInfo
  PROVE  OnHost(task.fd) /\ SizeOf(task.file) = EndOf[Len(contents)]
<1>1. Opened(0) /\ task.fd \in InUse
  BY DEF LoaderInv, InfoInv, Opened
<1>2. INFO \in Nat /\ INFO # 1 /\ INFO # -1
  BY LoaderAssumption
<1>3. OnHost(task.fd)
  BY <1>2 DEF ReadsInfo, FsRead
<1>4. Min({INFO, SizeOf(task.file) - 0}) = INFO
  BY <1>1, <1>3 DEF ReadsInfo, FsRead, Opened, OnHost, HostOf
<1>5. ASSUME task.file = "short" PROVE FALSE
  <2>1. SizeOf(task.file) - 0 = INFO - 1
    BY <1>2, <1>5 DEF SizeOf
  <2>2. Min({INFO, INFO - 1}) = INFO - 1
    <3>1. \E x \in {INFO, INFO - 1} : \A y \in {INFO, INFO - 1} : x <= y
      BY <1>2
    <3> QED
      BY <1>2, <3>1 DEF Min
  <2> QED
    BY <1>2, <1>4, <2>1, <2>2
<1> QED
  BY <1>3, <1>5 DEF SizeOf

\* What is left to do when the info could not be read.
LEMMA FailedLemma ==
  ASSUME LoaderTypes
  PROVE  /\ Failed \in Tasks
         /\ IF task.kind = "dump"
            THEN Failed.pc = "lines" /\ Failed.fd = -1 /\ Failed.kind = "dump"
            ELSE Failed = Idle
<1> USE DEF Tasks
<1>1. CASE task.kind = "dump"
  <2> DEFINE t == [task EXCEPT !.pc = "lines"]
  <2>1. t \in Tasks /\ t.pc = "lines" /\ t.kind = "dump"
    BY <1>1 DEF LoaderTypes
  <2>2. Failed = [t EXCEPT !.fd = -1]
    BY <1>1 DEF LoaderTypes, Failed
  <2> HIDE DEF t
  <2> QED
    BY <1>1, <2>1, <2>2
<1>2. CASE task.kind # "dump"
  BY <1>2 DEF Failed, Idle
<1> QED
  BY <1>1, <1>2

\* Reading the info keeps the invariant.
LEMMA GetCodeInfoStep ==
  ASSUME LoaderInv, GetCodeInfo
  PROVE  LoaderInv'
<1>1. /\ LoaderTypes /\ task.kind \in {"dump", "load"}
      /\ At("info") /\ Opened(0) /\ task.addr = 0 /\ image = << >>
      /\ contents' = contents /\ image' = image
  BY DEF LoaderInv, InfoInv, GetCodeInfo, Opened
<1>2. ASSUME task' = Failed, openfiles' \in OpenFiles
      PROVE  LoaderInv'
  <2>1. CASE task.kind = "dump"
    <3>1. task' = Failed /\ Failed \in Tasks
      BY <1>1, <1>2, FailedLemma
    <3>2. /\ task' \in Tasks /\ task'.pc = "lines" /\ task'.fd = -1 /\ task'.kind = "dump"
      BY <1>1, <2>1, <3>1, FailedLemma
    <3> QED
      BY <1>1, <1>2, <3>2 DEF LoaderInv, LoaderTypes, InfoInv, LinesInv, CloseInv, At
  <2>2. CASE task.kind # "dump"
    <3>1. task' = Idle
      BY <1>2, <2>2 DEF Failed
    <3> QED
      BY <1>1, <1>2, <3>1 DEF LoaderInv, LoaderTypes, Tasks, InfoInv, LinesInv, CloseInv, At, Idle
  <2> QED
    BY <2>1, <2>2
<1>3. CASE ~ReadsInfo /\ FsClose(task.fd) /\ task' = Failed
  BY <1>1, <1>2, <1>3, CloseLemma
<1>4. CASE ReadsInfo /\ task.file = "no start" /\ task' = Failed /\ UNCHANGED fsVars
  BY <1>1, <1>2, <1>4 DEF LoaderTypes, fsVars
<1>5. CASE /\ ReadsInfo /\ task.file # "no start"
           /\ FsSeek(task.fd, HEADER)
           /\ task' = [task EXCEPT !.pc = "lines"]
  <2>1. OnHost(task.fd) /\ SizeOf(task.file) = EndOf[Len(contents)]
    BY <1>1, <1>5, InfoLemma
  <2>2. /\ openfiles[task.fd].fs = 0 /\ FdValid(task.fd) /\ task.fd \in InUse
        /\ HostOf(task.fd) \in DOMAIN host
        /\ host[HostOf(task.fd)] = [name |-> task.file, pos |-> 0]
    BY <1>1, <2>1 DEF OnHost, Opened
  <2>3. /\ openfiles' = openfiles
        /\ HostOf(task.fd) \in DOMAIN host'
        /\ host'[HostOf(task.fd)] = [name |-> task.file, pos |-> HEADER]
    <3>1. PICK fd, name : fd = task.fd /\ name = task.file
      OBVIOUS
    <3>2. /\ FsSeek(fd, HEADER) /\ OnHost(fd) /\ HostOf(fd) \in DOMAIN host
          /\ host[HostOf(fd)] = [name |-> name, pos |-> 0]
      BY <1>5, <2>1, <2>2, <3>1, Zenon
    <3>3. /\ openfiles' = openfiles
          /\ HostOf(fd) \in DOMAIN host'
          /\ host'[HostOf(fd)] = [name |-> name, pos |-> HEADER]
      BY <3>2, SeekLemma
    <3> QED
      BY <3>1, <3>3, Zenon
  <2>4. /\ task' \in Tasks
        /\ task'.pc = "lines" /\ task'.fd = task.fd /\ task'.kind = task.kind
        /\ task'.file = task.file /\ task'.addr = 0
    BY <1>1, <1>5 DEF LoaderTypes, Tasks
  <2>5. contents \in Contents /\ Len(contents) \in Nat
    BY <1>1, ContentsLemma DEF LoaderTypes
  <2>6. /\ EndOf' = EndOf /\ Behind' = Behind /\ EndOf[0] = HEADER /\ Behind[0] = 0
        /\ ImageOf(0)' = ImageOf(0)
    BY <1>1, <2>5, SameLines, EndLemma, BehindLemma
  <2>7. ImageOf(0) = << >>
    <3>1. 1 .. 0 = {}
      OBVIOUS
    <3>2. UNION {Addresses(k) : k \in 1 .. 0} = {}
      BY <3>1
    <3> QED
      BY <3>2 DEF ImageOf
  <2>8. FdValid(task.fd)' /\ openfiles'[task'.fd].fs = 0
    BY <2>2, <2>3, <2>4 DEF FdValid
  <2>9. SizeOf(task.file)' = EndOf'[Len(contents')]
    BY <1>1, <2>1, <2>4, <2>6 DEF SizeOf
  <2>10. /\ task'.kind \in {"dump", "load"} /\ task'.fd \in InUse'
         /\ HostOf(task.fd)' \in DOMAIN host'
         /\ host'[HostOf(task.fd)'] = [name |-> task'.file, pos |-> EndOf'[0]]
    BY <1>1, <2>2, <2>3, <2>4, <2>6 DEF InUse, HostOf
  <2>11. LinesInv'
    <3>1. 0 \in 0 .. Len(contents')
      BY <1>1, <2>5
    <3>2. task'.addr = Behind'[0] /\ image' = ImageOf(0)'
      BY <1>1, <2>4, <2>6, <2>7
    <3> QED
      BY <2>8, <2>9, <2>10, <3>1, <3>2 DEF LinesInv, Opened
  <2>12. InfoInv' /\ CloseInv' /\ (At("idle") => task = Idle)'
    BY <2>4 DEF InfoInv, CloseInv, At
  <2>13. LoaderTypes'
    BY <1>1, <2>3, <2>4 DEF LoaderTypes
  <2> QED
    BY <2>11, <2>12, <2>13 DEF LoaderInv
<1> QED
  BY <1>3, <1>4, <1>5 DEF GetCodeInfo

\* Between two chunks, either there is nothing to read from or the position
\* is the end of a line.
LEMMA BetweenChunks ==
  ASSUME LoaderInv, At("lines")
  PROVE  \/ task.kind = "dump" /\ task.fd = -1 /\ Got = -1
         \/ \E m : /\ Reading(m) /\ Opened(EndOf[m]) /\ task.addr = Behind[m]
                   /\ task.kind = "load" => image = ImageOf(m)
<1>1. contents \in Contents /\ LinesInv
  BY DEF LoaderInv, LoaderTypes
<1>2. CASE task.kind = "dump" /\ task.fd = -1
  <2>1. ~FdValid(task.fd)
    BY <1>2 DEF FdValid
  <2>2. Got = -1
    BY <2>1 DEF Got, FsRead, OnHost
  <2> QED
    BY <1>2, <2>2
<1>3. CASE /\ FdValid(task.fd) /\ openfiles[task.fd].fs = 0
           /\ SizeOf(task.file) = EndOf[Len(contents)]
           /\ \E m \in 0 .. Len(contents) :
                /\ Opened(EndOf[m]) /\ task.addr = Behind[m]
                /\ task.kind = "load" => image = ImageOf(m)
  <2>1. PICK m \in 0 .. Len(contents) :
          /\ Opened(EndOf[m]) /\ task.addr = Behind[m]
          /\ task.kind = "load" => image = ImageOf(m)
    BY <1>3
  <2>2. Position = EndOf[m]
    BY <1>3, <2>1 DEF Opened, Position
  <2>3. Reading(m)
    BY <1>1, <1>3, <2>1, <2>2 DEF Reading, OnHost
  <2> QED
    BY <2>1, <2>3
<1> QED
  BY <1>1, <1>2, <1>3 DEF LinesInv

\* A chunk keeps the invariant: it leaves the position at the end of a line.
LEMMA GetFromFileStep ==
  ASSUME LoaderInv, GetFromFile
  PROVE  LoaderInv'
<1>1. /\ LoaderTypes /\ At("lines") /\ Got > 0 /\ contents' = contents
      /\ FsSeek(task.fd, EndOf[LastLine])
      /\ task' = [task EXCEPT !.addr = PlacedAt + Len(Placed)]
      /\ image' = IF task.kind = "dump" THEN image
                  ELSE Image(PlacedAt .. PlacedAt + Len(Placed) - 1)
  BY DEF LoaderInv, GetFromFile
<1>2. PICK m : /\ Reading(m) /\ Opened(EndOf[m]) /\ task.addr = Behind[m]
               /\ task.kind = "load" => image = ImageOf(m)
  BY <1>1, BetweenChunks
<1> DEFINE l == LastLine
           n == Len(contents)
<1>3. /\ contents \in Contents /\ n \in Nat /\ m \in 0 .. n /\ m \in Nat
      /\ OnHost(task.fd) /\ SizeOf(task.file) = EndOf[n]
      /\ task.kind \in {"dump", "load"} /\ task.fd \in InUse
  BY <1>2, ContentsLemma DEF Reading, Opened
<1>4. m < n
  BY <1>1, <1>2, GotLemma
<1>5. l \in m + 1 .. n
  BY <1>2, <1>4, LinesLemma
<1>6. Places(Placed, m, l) /\ PlacedAt = AddressOf(m + 1)
  BY <1>2, <1>4, PlacedLemma
<1>7. PlacedAt + Len(Placed) = Behind[l] /\ Behind[l] \in Nat
  <2>1. m + 1 \in 1 .. n /\ l \in 0 .. n
    BY <1>3, <1>5
  <2>2. AddressOf(m + 1) \in Nat /\ Behind[l] \in Nat
    BY <1>3, <2>1, BehindLemma
  <2>3. Len(Placed) = Behind[l] - AddressOf(m + 1)
    BY <1>6 DEF Places
  <2> QED
    BY <1>6, <2>2, <2>3
<1>8. ASSUME task.kind = "load"
      PROVE  image' = ImageOf(l)
  <2>1. image' = Image(PlacedAt .. PlacedAt + Len(Placed) - 1) /\ image = ImageOf(m)
    BY <1>1, <1>2, <1>8
  <2>2. image' = Overlaid(image, PlacedAt, Placed)
    BY <2>1 DEF Image, Overlaid
  <2>3. PICK s, k : s = Placed /\ k = l
    OBVIOUS
  <2>4. Places(s, m, k) /\ k \in m + 1 .. Len(contents)
    BY <1>5, <1>6, <2>3
  <2>5. Overlaid(ImageOf(m), AddressOf(m + 1), s) = ImageOf(k)
    BY <1>3, <2>4, ImageLemma
  <2> QED
    BY <1>6, <2>1, <2>2, <2>3, <2>5
<1>9. /\ openfiles' = openfiles
      /\ HostOf(task.fd) \in DOMAIN host'
      /\ host'[HostOf(task.fd)] = [name |-> task.file, pos |-> EndOf[l]]
  <2>1. PICK fd, name, p, pos :
          /\ fd = task.fd /\ name = task.file /\ p = EndOf[m] /\ pos = EndOf[l]
    OBVIOUS
  <2>2. /\ openfiles[task.fd].fs = 0 /\ HostOf(task.fd) \in DOMAIN host
        /\ host[HostOf(task.fd)] = [name |-> task.file, pos |-> EndOf[m]]
    BY <1>2, <1>3 DEF OnHost, Opened
  <2>3. /\ FsSeek(fd, pos) /\ OnHost(fd) /\ HostOf(fd) \in DOMAIN host
        /\ host[HostOf(fd)] = [name |-> name, pos |-> p]
    BY <1>1, <1>3, <2>1, <2>2, Zenon
  <2>4. /\ openfiles' = openfiles
        /\ HostOf(fd) \in DOMAIN host'
        /\ host'[HostOf(fd)] = [name |-> name, pos |-> pos]
    BY <2>3, SeekLemma
  <2> QED
    BY <2>1, <2>4, Zenon
<1> HIDE DEF l
<1>10. /\ task' \in Tasks
       /\ task'.pc = "lines" /\ task'.fd = task.fd /\ task'.kind = task.kind
       /\ task'.file = task.file /\ task'.addr = Behind[l]
  BY <1>1, <1>7 DEF LoaderTypes, Tasks, At
<1>11. EndOf' = EndOf /\ Behind' = Behind
  BY <1>1, SameLines
<1>12. FdValid(task.fd)' /\ openfiles'[task'.fd].fs = 0
  BY <1>3, <1>9, <1>10 DEF FdValid, OnHost
<1>13. SizeOf(task.file)' = EndOf'[Len(contents')]
  BY <1>1, <1>3, <1>10, <1>11 DEF SizeOf
<1>14. /\ task'.kind \in {"dump", "load"} /\ task'.fd \in InUse'
       /\ HostOf(task.fd)' \in DOMAIN host'
       /\ host'[HostOf(task.fd)'] = [name |-> task'.file, pos |-> EndOf'[l]]
  BY <1>3, <1>9, <1>10, <1>11 DEF InUse, HostOf
<1>15. PICK k \in 0 .. n : k = l
  BY <1>3, <1>5
<1>16. LinesInv'
  <2>1. /\ k \in 0 .. Len(contents') /\ task'.addr = Behind'[k]
        /\ host'[HostOf(task.fd)'] = [name |-> task'.file, pos |-> EndOf'[k]]
    BY <1>1, <1>10, <1>11, <1>14, <1>15
  <2>2. task'.kind = "load" => image' = ImageOf(k)'
    <3>1. ImageOf(k)' = ImageOf(k)
      BY <1>1, SameLines
    <3> QED
      BY <1>8, <1>10, <1>15, <3>1
  <2> QED
    BY <1>12, <1>13, <1>14, <2>1, <2>2 DEF LinesInv, Opened
<1>17. InfoInv' /\ CloseInv' /\ (At("idle") => task = Idle)'
  BY <1>10 DEF InfoInv, CloseInv, At
<1>18. LoaderTypes'
  BY <1>1, <1>9, <1>10 DEF LoaderTypes
<1> QED
  BY <1>16, <1>17, <1>18 DEF LoaderInv

\* The loader only stops at the end of the last line.
LEMMA AtEndStep ==
  ASSUME LoaderInv, AtEnd
  PROVE  LoaderInv'
<1>1. /\ LoaderTypes /\ At("lines") /\ ~(Got > 0) /\ task' = [task EXCEPT !.pc = "close"]
      /\ openfiles' = openfiles /\ host' = host /\ contents' = contents /\ image' = image
  <2>1. ~(Got > 0)
    <3>1. Got \in Int
      BY BetweenChunks, GotLemma DEF AtEnd
    <3> QED
      BY <3>1 DEF AtEnd
  <2> QED
    BY <2>1 DEF LoaderInv, AtEnd, fsVars
<1>2. /\ task' \in Tasks
      /\ task'.pc = "close" /\ task'.fd = task.fd /\ task'.kind = task.kind
  BY <1>1 DEF LoaderTypes, Tasks
<1>3. ASSUME task.kind = "load"
      PROVE  FdValid(task.fd)' /\ image' = ImageOf(Len(contents))'
  <2>1. PICK m : Reading(m) /\ image = ImageOf(m)
    BY <1>1, <1>3, BetweenChunks
  <2>2. contents \in Contents /\ Len(contents) \in Nat /\ m \in 0 .. Len(contents)
        /\ FdValid(task.fd)
    BY <2>1, ContentsLemma DEF Reading, OnHost
  <2>3. m = Len(contents)
    BY <1>1, <2>1, <2>2, GotLemma
  <2>4. ImageOf(m)' = ImageOf(m)
    BY <1>1, SameLines
  <2>5. ImageOf(Len(contents))' = ImageOf(m)'
    BY <1>1, <2>3
  <2>6. FdValid(task.fd)'
    BY <1>1, <1>2, <2>2 DEF FdValid
  <2> QED
    BY <1>1, <2>1, <2>4, <2>5, <2>6
<1>4. CloseInv'
  BY <1>2, <1>3 DEF CloseInv
<1>5. InfoInv' /\ LinesInv' /\ (At("idle") => task = Idle)'
  BY <1>2 DEF InfoInv, LinesInv, At
<1>6. LoaderTypes'
  BY <1>1, <1>2 DEF LoaderTypes
<1> QED
  BY <1>4, <1>5, <1>6 DEF LoaderInv

\* Closing the file keeps the invariant.
LEMMA CloseStep ==
  ASSUME LoaderInv, Close
  PROVE  LoaderInv'
<1>1. /\ LoaderTypes /\ task' = Idle /\ contents' = contents /\ image' = image
  BY DEF LoaderInv, Close
<1>2. openfiles' \in OpenFiles
  BY <1>1, CloseLemma DEF Close, LoaderTypes
<1> QED
  BY <1>1, <1>2 DEF LoaderInv, LoaderTypes, Tasks, InfoInv, LinesInv, CloseInv, At, Idle

\* Every step keeps the invariant.
LEMMA LoaderStep ==
  ASSUME LoaderInv, [Next]_vars
  PROVE  LoaderInv'
<1>1. CASE \E file \in File : Option(file) \/ Load(file)
  <2>1. PICK file \in File : Option(file) \/ Load(file)
    BY <1>1
  <2>2. CASE Option(file)
    BY <2>2, BeginLemma DEF Option, FS_MODE_READ
  <2>3. CASE Load(file)
    BY <2>3, BeginLemma DEF Load, FS_MODE_READ
  <2> QED
    BY <2>1, <2>2, <2>3
<1>2. CASE OpenVm
  BY <1>2, BeginLemma DEF OpenVm, FS_MODE_WRITE
<1>3. CASE GetCodeInfo
  BY <1>3, GetCodeInfoStep
<1>4. CASE GetFromFile
  BY <1>4, GetFromFileStep
<1>5. CASE AtEnd
  BY <1>5, AtEndStep
<1>6. CASE Close
  BY <1>6, CloseStep
<1>7. CASE UNCHANGED vars
  <2>1. /\ openfiles' = openfiles /\ host' = host /\ contents' = contents
        /\ task' = task /\ image' = image
    BY <1>7 DEF vars, fsVars
  <2>2. EndOf' = EndOf /\ Behind' = Behind /\ \A m : ImageOf(m)' = ImageOf(m)
    BY <2>1, SameLines
  <2>3. LinesInv'
    <3>1. ASSUME task.pc = "lines", ~(task.kind = "dump" /\ task.fd = -1)
          PROVE  LinesInv'
      <4>1. PICK m \in 0 .. Len(contents) :
              /\ Opened(EndOf[m]) /\ task.addr = Behind[m]
              /\ task.kind = "load" => image = ImageOf(m)
        BY <3>1 DEF LoaderInv, LinesInv, At
      <4>2. image' = image /\ ImageOf(m)' = ImageOf(m)
        BY <2>1, <2>2
      <4> QED
        BY <2>1, <2>2, <3>1, <4>1, <4>2
        DEF LoaderInv, LinesInv, Opened, At, FdValid, InUse, HostOf, SizeOf
    <3> QED
      BY <2>1, <3>1 DEF LinesInv, At
  <2>4. CloseInv'
    <3>1. PICK n : n = Len(contents)
      OBVIOUS
    <3>2. ImageOf(n)' = ImageOf(n) /\ n = Len(contents')
      BY <2>1, <2>2, <3>1
    <3> QED
      BY <2>1, <3>1, <3>2 DEF LoaderInv, CloseInv, At, FdValid
  <2> QED
    BY <2>1, <2>3, <2>4 DEF LoaderInv, LoaderTypes, InfoInv, Opened, At, InUse, HostOf
<1> QED
  BY <1>1, <1>2, <1>3, <1>4, <1>5, <1>6, <1>7 DEF Next

\* When the system runs, slot 0 stays with the file vm, if this can be opened.
LEMMA VmStep ==
  ASSUME LoaderInv, VmInv, [Next]_vars, "vm" \in HostFile \union DlxFile
  PROVE  VmInv'
<1>1. LoaderTypes
  BY DEF LoaderInv
<1>2. ASSUME NEW kind, NEW file, NEW mode, NEW pc, Begin(kind, file, mode, pc)
      PROVE  \E fd : /\ FsOpen(file, mode, fd)
                     /\ task'.kind = "load" => kind = "load" /\ fd >= 0 /\ task'.fd = fd
  <2>1. PICK fd \in -1 .. FS_MAX_OPEN_FILES - 1 :
          /\ FsOpen(file, mode, fd)
          /\ task' = IF fd < 0 /\ kind = "load" THEN Idle
                     ELSE [pc |-> IF fd < 0 THEN "close" ELSE pc, kind |-> kind,
                           file |-> file, fd |-> fd, addr |-> 0]
    BY <1>2 DEF Begin
  <2>2. fd \in Int
    BY FileSysAssumption
  <2> QED
    BY <2>1, <2>2 DEF Idle
<1>3. CASE \E file \in File : Option(file) \/ Load(file)
  <2>1. PICK file : Option(file) \/ Load(file)
    BY <1>3
  <2>2. PICK kind \in {"dump", "load"} :
          /\ Begin(kind, file, 1, "info") /\ phase' = phase
          /\ kind = "load" => phase = "running"
    BY <2>1 DEF Option, Load, FS_MODE_READ
  <2>3. PICK fd : /\ FsOpen(file, 1, fd)
                  /\ task'.kind = "load" => kind = "load" /\ fd >= 0 /\ task'.fd = fd
    BY <1>2, <2>2
  <2>4. /\ 0 \in InUse => 0 \in InUse'
        /\ fd >= 0 => fd \notin InUse
    BY <1>1, <2>3, OpenLemma
  <2> QED
    BY <2>2, <2>3, <2>4 DEF VmInv
<1>4. CASE OpenVm
  <2>1. Begin("vm", "vm", 2, "close") /\ phase' = "running"
    BY <1>4 DEF OpenVm, FS_MODE_WRITE
  <2>2. PICK fd : FsOpen("vm", 2, fd) /\ task'.kind # "load"
    BY <1>2, <2>1
  <2>3. 0 \in InUse'
    BY <1>1, <2>2, OpenLemma
  <2> QED
    BY <2>1, <2>2, <2>3 DEF VmInv
<1>5. CASE GetCodeInfo
  <2>1. phase' = phase /\ (task'.kind = "load" => task.kind = "load" /\ task'.fd = task.fd)
    <3>1. task' = Failed \/ task' = [task EXCEPT !.pc = "lines"]
      BY <1>5 DEF GetCodeInfo
    <3>2. Failed.kind # "load"
      BY <1>1, FailedLemma DEF Idle
    <3> QED
      BY <1>1, <1>5, <3>1, <3>2 DEF GetCodeInfo, LoaderTypes, Tasks
  <2>2. FsClose(task.fd) \/ UNCHANGED openfiles
    BY <1>5 DEF GetCodeInfo, FsSeek, fsVars
  <2> QED
    BY <1>1, <2>1, <2>2, CloseLemma DEF VmInv, InUse
<1>6. CASE GetFromFile \/ AtEnd
  <2>1. phase' = phase /\ UNCHANGED openfiles
    BY <1>6 DEF GetFromFile, AtEnd, FsSeek, fsVars
  <2>2. task'.kind = task.kind /\ task'.fd = task.fd
    BY <1>1, <1>6 DEF GetFromFile, AtEnd, LoaderTypes, Tasks
  <2> QED
    BY <2>1, <2>2 DEF VmInv, InUse
<1>7. CASE Close
  <2>1. phase' = phase /\ (FsClose(task.fd) \/ UNCHANGED openfiles) /\ task'.kind = "none"
    BY <1>7 DEF Close, Idle
  <2> QED
    BY <1>1, <2>1, CloseLemma DEF VmInv, InUse
<1>8. CASE UNCHANGED vars
  BY <1>8 DEF vars, fsVars, VmInv, InUse
<1> QED
  BY <1>3, <1>4, <1>5, <1>6, <1>7, <1>8 DEF Next

-----------------------------------------------------------------------------
(* The theorems *)

\* The invariant holds throughout, for all program files and all tables.
THEOREM LoaderInvariant == Spec => []LoaderInv
<1>1. Init => LoaderInv
  <2> SUFFICES ASSUME Init PROVE LoaderInv
    OBVIOUS
  <2>1. task = Idle /\ openfiles = [i \in Slots |-> [flags |-> 0, fs |-> 0, fd |-> 0]]
        /\ contents \in Contents
    BY DEF Init, FsModuleInit
  <2>2. openfiles \in OpenFiles
    BY <2>1 DEF OpenFiles, Entry
  <2> QED
    BY <2>1, <2>2 DEF LoaderInv, LoaderTypes, Tasks, InfoInv, LinesInv, CloseInv, At, Idle
<1>2. LoaderInv /\ [Next]_vars => LoaderInv'
  BY LoaderStep
<1> QED
  BY <1>1, <1>2, PTL DEF Spec

\* However the chunks of a program file fall, the process gets the bytes of
\* its lines, each line at its address (ProcessGetFromFile, ProcessFork).
THEOREM LoadsAreFaithful == Spec => []ImageFollowsFile
<1>1. LoaderInv => ImageFollowsFile
  <2> SUFFICES ASSUME LoaderInv, task.kind = "load" PROVE ImageFollowsFile
    BY DEF ImageFollowsFile
  <2>1. ASSUME At("lines")
        PROVE  \E m \in 0 .. Len(contents) : Position = EndOf[m] /\ image = ImageOf(m)
    BY <2>1, BetweenChunks DEF Reading
  <2>2. ASSUME At("close")
        PROVE  image = ImageOf(Len(contents))
    BY <2>2 DEF LoaderInv, CloseInv
  <2> QED
    BY <2>1, <2>2 DEF ImageFollowsFile
<1> QED
  BY <1>1, LoaderInvariant, PTL

\* Whatever happens to a load, its slot of the table of open files is free in
\* the end and no other has changed (ProcessFork, ProcessGetCodeInfo, FsClose).
THEOREM SlotsComeBack == Spec => LoadsGiveBack
<1> DEFINE A == task.kind = "load" /\ task.fd # 0 /\ task.file # "no start" /\ task' = Idle
                  => InUse' = InUse \ {task.fd}
<1>1. LoaderInv /\ [Next]_vars => [A]_vars
  <2> SUFFICES ASSUME LoaderInv, Next, task.kind = "load", task.fd # 0,
                      task.file # "no start", task' = Idle
               PROVE  InUse' = InUse \ {task.fd}
    OBVIOUS
  <2> HIDE DEF A
  <2>1. LoaderTypes /\ FS_MAX_OPEN_FILES \in Nat
    BY FileSysAssumption DEF LoaderInv
  <2>2. ~At("idle") /\ task'.pc = "idle"
    <3>1. At("idle") => task = Idle
      BY DEF LoaderInv
    <3>2. Idle.pc = "idle" /\ Idle.kind = "none"
      BY DEF Idle
    <3> QED
      BY <3>1, <3>2, Zenon
  <2>3. ASSUME NEW kind, NEW file, NEW mode, NEW pc, Begin(kind, file, mode, pc) PROVE FALSE
    BY <2>2, <2>3 DEF Begin
  <2>4. CASE GetCodeInfo
    <3>1. /\ task.fd \in InUse /\ At("info")
      BY <2>4 DEF GetCodeInfo, LoaderInv, InfoInv, Opened
    <3>2. task' # [task EXCEPT !.pc = "lines"]
      BY <2>1, <2>2 DEF LoaderTypes, Tasks
    <3>3. FsClose(task.fd)
      BY <2>4, <3>2 DEF GetCodeInfo
    <3>4. FdValid(task.fd)
      BY <3>1, ValidLemma
    <3> QED
      BY <2>1, <3>3, <3>4, CloseLemma
  <2>5. CASE GetFromFile
    <3>1. task'.pc = "lines"
      BY <2>1, <2>5 DEF GetFromFile, At, LoaderTypes, Tasks
    <3> QED
      BY <2>2, <3>1
  <2>6. CASE AtEnd
    BY <2>1, <2>2, <2>6 DEF AtEnd, LoaderTypes, Tasks
  <2>7. CASE Close
    <3>1. FsClose(task.fd) /\ At("close")
      BY <2>7 DEF Close
    <3>2. FdValid(task.fd)
      BY <3>1 DEF LoaderInv, CloseInv
    <3> QED
      BY <2>1, <3>1, <3>2, CloseLemma
  <2> QED
    BY <2>3, <2>4, <2>5, <2>6, <2>7 DEF Next, Option, Load, OpenVm
<1>2. LoadsGiveBack <=> [][A]_vars
  BY PTL DEF LoadsGiveBack
<1> QED
  BY <1>1, <1>2, LoaderInvariant, PTL DEF Spec

\* A program that could be opened, and has at least the characters that
\* ProcessGetCodeInfo asks for, can be read, because slot 0, which FdValid takes
\* for unused, is lost to the file vm before anything is loaded.
THEOREM VmMakesProgramsReadable ==
  ASSUME "vm" \in HostFile \union DlxFile, "program" \notin DlxFile
  PROVE  Spec => ProgramsAreRead
<1> DEFINE A == At("info") /\ task.kind = "load" /\ task.file = "program"
                     /\ EndOf[Len(contents)] >= INFO
                   => At("lines")'
<1>1. Init => VmInv
  BY DEF Init, VmInv, Idle
<1>2. LoaderInv /\ VmInv /\ [Next]_vars => VmInv'
  BY VmStep
<1>3. LoaderInv /\ VmInv /\ [Next]_vars => [A]_vars
  <2> SUFFICES ASSUME LoaderInv, VmInv, Next, At("info"), task.kind = "load",
                      task.file = "program", EndOf[Len(contents)] >= INFO
               PROVE  At("lines")'
    OBVIOUS
  <2>1. /\ LoaderTypes /\ Opened(0) /\ openfiles[task.fd].fs = 0 /\ task.fd # 0
        /\ contents \in Contents
    BY DEF LoaderInv, InfoInv, VmInv, LoaderTypes
  <2>2. GetCodeInfo
    <3>1. task.pc = "info"
      BY DEF At
    <3> QED
      BY <2>1, <3>1
      DEF Next, Option, Load, OpenVm, GetFromFile, AtEnd, Close, Begin, At
  <2>3. ReadsInfo
    <3>1. SizeOf(task.file) = EndOf[Len(contents)]
      BY DEF SizeOf
    <3>2. PICK size \in Nat : size = SizeOf(task.file) /\ size >= INFO
      <4>1. Len(contents) \in Nat /\ EndOf[Len(contents)] \in Nat
        BY <2>1, ContentsLemma, EndLemma
      <4> QED
        BY <3>1, <4>1
    <3>3. OnHost(task.fd) /\ host[HostOf(task.fd)].pos = 0
      <4>1. FdValid(task.fd)
        BY <2>1, ValidLemma DEF Opened
      <4> QED
        BY <2>1, <4>1 DEF Opened, OnHost
    <3>4. Min({INFO, size - 0}) = INFO
      <4>1. size - 0 = size /\ INFO \in Nat
        BY <3>2, LoaderAssumption
      <4>2. \E x \in {INFO, size} : \A y \in {INFO, size} : x <= y
        BY <3>2, <4>1
      <4> QED
        BY <3>2, <4>1, <4>2 DEF Min
    <3> QED
      BY <3>2, <3>3, <3>4 DEF ReadsInfo, FsRead
  <2>4. task' = [task EXCEPT !.pc = "lines"]
    BY <2>2, <2>3 DEF GetCodeInfo
  <2> QED
    BY <2>1, <2>4 DEF At, LoaderTypes
<1>4. ProgramsAreRead <=> [][A]_vars
  BY PTL DEF ProgramsAreRead
<1> QED
  BY <1>1, <1>2, <1>3, <1>4, LoaderInvariant, PTL DEF Spec

=============================================================================
