------------------------------ MODULE FileSys ------------------------------
(***************************************************************************)
(* os/filesys.c: the table of open files over the files of the simulator   *)
(* and the stubs of the DLX file system.  A call of the kernel is an       *)
(* action whose last parameter is the value it returns.                    *)
(***************************************************************************)
EXTENDS Integers, FiniteSetsExt

CONSTANTS FS_MAX_OPEN_FILES,
          HostFile,     \* the files that the simulator can open
          DlxFile,      \* the names that start with "dlx:"
          HostFd        \* the descriptors of the simulator

ASSUME FileSysAssumption ==
  /\ FS_MAX_OPEN_FILES \in Nat \ {0}
  /\ HostFile \intersect DlxFile = {}
  /\ HostFd \subseteq Nat /\ IsFiniteSet(HostFd)
  /\ Cardinality(HostFd) >= FS_MAX_OPEN_FILES

VARIABLES openfiles,
          host          \* the simulator's open descriptors: file and position

fsVars == <<openfiles, host>>

FS_MODE_READ == 1
FS_MODE_WRITE == 2

Slots == 0 .. FS_MAX_OPEN_FILES - 1
InUse == {i \in Slots : openfiles[i].flags # 0}

FsModuleInit ==
  /\ openfiles = [i \in Slots |-> [flags |-> 0, fs |-> 0, fd |-> 0]]
  /\ host = << >>

FdValid(fd) == fd > 0 /\ fd < FS_MAX_OPEN_FILES /\ openfiles[fd].flags # 0

\* The simulator's descriptor behind fd.
HostOf(fd) == openfiles[fd].fd
OnHost(fd) == FdValid(fd) /\ openfiles[fd].fs = 0

HostClosed(d) == [x \in DOMAIN host \ {d} |-> host[x]]

\* No caller passes a mode without FS_MODE_READ or FS_MODE_WRITE.
FsOpen(name, mode, fd) ==
  \/ /\ InUse = Slots
     /\ fd = -1
     /\ UNCHANGED fsVars
  \/ /\ InUse # Slots
     /\ LET i == Min(Slots \ InUse)
        IN  \/ /\ name \in DlxFile
               /\ fd = i
               /\ openfiles' = [openfiles EXCEPT ![i] = [flags |-> mode, fs |-> 1, fd |-> 0]]
               /\ UNCHANGED host
            \/ \E d \in HostFd \ DOMAIN host :
                 /\ name \in HostFile
                 /\ fd = i
                 /\ openfiles' = [openfiles EXCEPT ![i] = [flags |-> mode, fs |-> 0, fd |-> d]]
                 /\ host' = [x \in DOMAIN host \union {d} |->
                               IF x = d THEN [name |-> name, pos |-> 0] ELSE host[x]]
            \/ /\ name \notin HostFile \union DlxFile
               /\ fd = -1
               /\ openfiles' = [openfiles EXCEPT ![i] = [flags |-> 0, fs |-> 0, fd |-> -1]]
               /\ UNCHANGED host

\* Faulty: the entry stays in use.
FsCloseKeeps(fd) ==
  \/ ~FdValid(fd) /\ UNCHANGED fsVars
  \/ OnHost(fd) /\ host' = HostClosed(HostOf(fd)) /\ UNCHANGED openfiles
  \/ FdValid(fd) /\ ~OnHost(fd) /\ UNCHANGED fsVars

FsClose(fd) ==
  \/ ~FdValid(fd) /\ UNCHANGED fsVars
  \/ /\ FdValid(fd)
     /\ openfiles' = [openfiles EXCEPT ![fd].flags = 0]
     /\ host' = IF OnHost(fd) THEN HostClosed(HostOf(fd)) ELSE host

\* FsSeek to a position of a file of the simulator.
FsSeek(fd, pos) ==
  \/ ~OnHost(fd) /\ UNCHANGED fsVars
  \/ /\ OnHost(fd)
     /\ host' = [host EXCEPT ![HostOf(fd)].pos = pos]
     /\ UNCHANGED openfiles

\* How many characters FsRead returns of a file with size characters, when it
\* is asked for n.  The stub of the DLX file system always answers 1.
FsRead(fd, n, size) ==
  CASE OnHost(fd) -> Min({n, size - host[HostOf(fd)].pos})
    [] FdValid(fd) /\ ~OnHost(fd) -> 1
    [] OTHER -> -1

=============================================================================
