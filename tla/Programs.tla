------------------------------ MODULE Programs ------------------------------
(***************************************************************************)
(* The system started with one of the programs q2 to q5: the processes of  *)
(* that program, on the services that SynchSpec describes.                 *)
(***************************************************************************)
EXTENDS LockBuffer, SemBuffer, MonitorBuffer, Reactions

CONSTANT Apps     \* the programs that may be started

ASSUME AppsAssumption == Apps \subseteq {"q2", "q3", "q4", "q5"}

Init ==
  /\ app \in Apps
  /\ \/ app = "q2" /\ LockBufferInit
     \/ app = "q3" /\ SemBufferInit
     \/ app = "q4" /\ MonitorBufferInit
     \/ app = "q5" /\ ReactionsInit

\* The children that makeprocs creates in its first loop.
CreatedFirst ==
  CASE app \in {"q2", "q3"} -> Consumer
    [] app = "q4" -> Producer
    [] app = "q5" -> Injector

BufferStep(p) ==
  \/ app = "q2" /\ p \in Producer /\ LockProducer(p)
  \/ app = "q2" /\ p \in Consumer /\ LockConsumer(p)
  \/ app = "q3" /\ p \in Producer /\ SemProducer(p)
  \/ app = "q3" /\ p \in Consumer /\ SemConsumer(p)
  \/ app = "q4" /\ p \in Producer /\ MonitorProducer(p)
  \/ app = "q4" /\ p \in Consumer /\ MonitorConsumer(p)

ReactionsStep(p) ==
  /\ app = "q5"
  /\ \/ p \in Injector /\ Inject(p)
     \/ p \in Reaction /\ React(p)
     \/ ~HasRounds(p) /\ Complete(p)

ChildStep(p) ==
  /\ p \in Children
  /\ CreateChild(p, CreatedFirst) \/ BufferStep(p) \/ ReactionsStep(p)

Next ==
  \/ \E p \in Children : ChildStep(p)
  \/ WaitForChildren
  \/ NobodyRuns

Spec == Init /\ [][Next]_vars

\* The kernel's round robin passes over no process that is awake.
FairSpec ==
  /\ Spec
  /\ WF_vars(WaitForChildren)
  /\ \A p \in BufferProcess \union ReactionsProcess : WF_vars(ChildStep(p))

-----------------------------------------------------------------------------
(* All programs *)

\* makeprocs goes on only when each of its children has done all it had to
\* do: no signal is counted twice, and none is missed.
ReturnsLast ==
  MakeprocsIsBack =>
    \A p \in Children :
      pc[p] = "done" /\ counter[p] = IF app = "q5" THEN 0 ELSE ITEMS

\* The first reaction waits for no more N3 than are injected; it does when the
\* string of R3 has replaced the count for the injector with a smaller one.
EnoughN3 == app = "q5" => page["R1"] <= page["N3"]

\* "And finally, wait until all spawned processes have finished" (makeprocs.c):
\* that wait returns and the program ends, whatever the order in which its
\* processes run; none of them waits or spins for ever.
MakeprocsReturns == EnoughN3 => <>MakeprocsIsBack

-----------------------------------------------------------------------------
(* The buffers: q2, q3 and q4 *)

IsBuffer == app # "q5"

\* Where a process of a buffer uses the shared page.
Critical == {"test", "look", "wait", "insert", "advance", "take", "retry", "release"}

\* No two processes use the buffer at once: one that does owns the lock,
\* also after it slept for a condition or for the lock it gave away.
MutualExclusion ==
  IsBuffer =>
    \A p \in BufferProcess :
      pc[p] \in Critical /\ Awake(p) => locks["lock"].owner = p

=============================================================================
