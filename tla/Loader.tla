------------------------------- MODULE Loader -------------------------------
(***************************************************************************)
(* The users of the file system: main with its -f option and the file vm,  *)
(* and ProcessFork, which loads the programs that process_create names.    *)
(* All of it runs with interrupts disabled.  A program file is a header    *)
(* line and lines that place bytes, at an address of their own or behind   *)
(* those of the line before; it is read in chunks that are cut back to     *)
(* whole lines.                                                            *)
(***************************************************************************)
EXTENDS FileSys, SequencesExt

CONSTANTS Contents,     \* the lines that program files may have
          CHUNK,        \* characters ProcessGetFromFile reads at once: 200
          INFO,         \* characters ProcessGetCodeInfo reads: 100
          HEADER        \* characters of the header line

SameAddress == -1

\* The header is within the characters that are searched for its newline, and
\* these are more than the answer of the stub of the DLX file system.  Every
\* line places a byte, and none is longer than what is read at once.
ASSUME LoaderAssumption ==
  /\ CHUNK \in Nat /\ INFO \in Nat \ {0, 1} /\ HEADER \in 1 .. INFO
  /\ Contents \subseteq Seq([addr  : Nat \union {SameAddress},
                             bytes : Nat \ {0},
                             chars : 1 .. CHUNK])

\* A program, files that are none, a DLX file and one that does not exist.
File == {"program", "short", "no start", "dlx", "missing"}

VARIABLES phase,     \* main reads its options, then the system runs
          contents,  \* the lines of the file "program"
          task,      \* what is being done with which file and descriptor
          image      \* what the loader has placed at which address

vars == <<fsVars, phase, contents, task, image>>

Idle == [pc |-> "idle", kind |-> "none", file |-> "none", fd |-> -1, addr |-> 0]

Init ==
  /\ FsModuleInit
  /\ phase = "options"
  /\ contents \in Contents
  /\ task = Idle
  /\ image = << >>

\* Where line k ends; the header is line 0.
EndOf[k \in 0 .. Len(contents)] ==
  IF k = 0 THEN HEADER ELSE EndOf[k - 1] + contents[k].chars

SizeOf(file) == IF file = "short" THEN INFO - 1 ELSE EndOf[Len(contents)]

Position == host[HostOf(task.fd)].pos

At(pc) == task.pc = pc

\* FsOpen for a task of its own.
Begin(kind, file, mode, pc) ==
  /\ At("idle")
  /\ \E fd \in -1 .. FS_MAX_OPEN_FILES - 1 :
       /\ FsOpen(file, mode, fd)
       /\ task' = IF fd < 0 /\ kind = "load" THEN Idle
                  ELSE [pc |-> IF fd < 0 THEN "close" ELSE pc, kind |-> kind,
                        file |-> file, fd |-> fd, addr |-> 0]
  /\ image' = << >>
  /\ UNCHANGED contents

\* The option -f, which may be given more than once.
Option(file) ==
  /\ phase = "options"
  /\ Begin("dump", file, FS_MODE_READ, "info")
  /\ UNCHANGED phase

\* Faulty: main does not write vm.
NoVm ==
  /\ phase = "options" /\ At("idle") /\ phase' = "running"
  /\ UNCHANGED <<fsVars, contents, task, image>>

\* main opens vm, writes some characters to it and closes it.
OpenVm ==
  /\ phase = "options"
  /\ Begin("vm", "vm", FS_MODE_WRITE, "close")
  /\ phase' = "running"

Load(file) ==
  /\ phase = "running"
  /\ Begin("load", file, FS_MODE_READ, "info")
  /\ UNCHANGED phase

\* ProcessGetCodeInfo has failed: process_create gives up, main goes on with
\* descriptor -1, from which it reads nothing.
Failed == IF task.kind = "dump" THEN [task EXCEPT !.pc = "lines", !.fd = -1] ELSE Idle

ReadsInfo == FsRead(task.fd, INFO, SizeOf(task.file)) = INFO

\* ProcessGetCodeInfo after FsOpen
GetCodeInfo ==
  /\ At("info")
  /\ \/ ~ReadsInfo /\ FsClose(task.fd) /\ task' = Failed
     \/ ReadsInfo /\ task.file = "no start" /\ task' = Failed /\ UNCHANGED fsVars
     \/ /\ ReadsInfo /\ task.file # "no start"
        /\ FsSeek(task.fd, HEADER)
        /\ task' = [task EXCEPT !.pc = "lines"]
  /\ UNCHANGED <<phase, contents, image>>

-----------------------------------------------------------------------------
(* ProcessGetFromFile *)

Got == FsRead(task.fd, CHUNK, SizeOf(task.file))

FirstLine == CHOOSE k \in DOMAIN contents : EndOf[k - 1] = Position

\* The lines that the chunk holds whole.
LinesRead == {k \in DOMAIN contents : k >= FirstLine /\ EndOf[k] <= Position + Got}

\* Faulty: a new address does not end the chunk.
LastOfTheChunk == Max(LinesRead)

\* The last line before one with a new address, which is left for the next chunk.
LastLine ==
  Max({k \in LinesRead : \A j \in FirstLine + 1 .. k : contents[j].addr = SameAddress})

BytesOf(k) == [j \in 1 .. contents[k].bytes |-> <<k, j>>]

Placed == FlattenSeq([i \in 1 .. LastLine - FirstLine + 1 |-> BytesOf(FirstLine + i - 1)])

PlacedAt ==
  IF contents[FirstLine].addr = SameAddress THEN task.addr ELSE contents[FirstLine].addr

\* The image with what is placed at the addresses span, from PlacedAt on.
Image(span) ==
  [x \in DOMAIN image \union span |->
     IF x \in span THEN Placed[x - PlacedAt + 1] ELSE image[x]]

\* A chunk is read, parsed and, by the loader, copied to the process.
GetFromFile ==
  /\ At("lines") /\ Got > 0
  /\ FsSeek(task.fd, EndOf[LastLine])
  /\ task' = [task EXCEPT !.addr = PlacedAt + Len(Placed)]
  /\ image' = IF task.kind = "dump" THEN image
              ELSE Image(PlacedAt .. PlacedAt + Len(Placed) - 1)
  /\ UNCHANGED <<phase, contents>>

AtEnd ==
  /\ At("lines") /\ Got <= 0
  /\ task' = [task EXCEPT !.pc = "close"]
  /\ UNCHANGED <<fsVars, phase, contents, image>>

\* FsClose; but main closes, for -f, the simulator's descriptor of that number.
Close ==
  /\ At("close")
  /\ \/ task.kind # "dump" /\ FsClose(task.fd)
     \/ task.kind = "dump" /\ host' = HostClosed(task.fd) /\ UNCHANGED openfiles
  /\ task' = Idle
  /\ UNCHANGED <<phase, contents, image>>

Next ==
  \/ \E file \in File : Option(file) \/ Load(file)
  \/ OpenVm \/ GetCodeInfo \/ GetFromFile \/ AtEnd \/ Close

Spec == Init /\ [][Next]_vars

-----------------------------------------------------------------------------
(* Properties *)

\* The address behind line k, and the address of line k.
Behind[k \in 0 .. Len(contents)] ==
  IF k = 0 THEN 0
  ELSE (IF contents[k].addr = SameAddress THEN Behind[k - 1] ELSE contents[k].addr)
         + contents[k].bytes

AddressOf(k) ==
  IF contents[k].addr = SameAddress THEN Behind[k - 1] ELSE contents[k].addr

Addresses(k) == AddressOf(k) .. Behind[k] - 1

\* What the first m lines put at each address.
ImageOf(m) ==
  [x \in UNION {Addresses(k) : k \in 1 .. m} |->
     LET k == Max({i \in 1 .. m : x \in Addresses(i)}) IN <<k, x - AddressOf(k) + 1>>]

\* However the chunks fall, the process gets the bytes of the lines read so
\* far, each line at its address, and in the end those of all lines.
ImageFollowsFile ==
  task.kind = "load" =>
    /\ At("lines") =>
         \E m \in 0 .. Len(contents) : Position = EndOf[m] /\ image = ImageOf(m)
    /\ At("close") => image = ImageOf(Len(contents))

\* A load takes no slot of the table for good: whatever happens to it, its slot
\* is free in the end and no other has changed.  Lost are the slots of files
\* without a start line, and slot 0, which FdValid takes for unused.
LoadsGiveBack ==
  [][task.kind = "load" /\ task.fd # 0 /\ task.file # "no start" /\ task' = Idle
       => InUse' = InUse \ {task.fd}]_vars

\* Loading works at all because main has lost slot 0 to the file vm: a
\* program that could be opened can be read, if it has the characters that
\* ProcessGetCodeInfo asks for.
ProgramsAreRead ==
  [][At("info") /\ task.kind = "load" /\ task.file = "program"
         /\ EndOf[Len(contents)] >= INFO
       => At("lines")']_vars

=============================================================================
