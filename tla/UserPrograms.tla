---------------------------- MODULE UserPrograms ----------------------------
(***************************************************************************)
(* What the programs of apps/q2 to apps/q5 have in common.  makeprocs sets *)
(* up a shared page and the objects in it, creates its children one after  *)
(* another and waits for all of them on a semaphore that starts below      *)
(* zero.  A child does a number of rounds, signals that semaphore and      *)
(* exits.  Any process that is awake may run: each step is a call, or an   *)
(* access to the shared page with what is computed from it.                *)
(***************************************************************************)
EXTENDS SynchCalls, FiniteSets

CONSTANT makeprocs      \* the process that creates the others

VARIABLES app,       \* the program that was started: "q2" to "q5"
          pc,        \* where each process is in its program
          counter,   \* p_depot.index, c_depot.index, inj_count or expected_reactions
          page       \* the data in the shared page

progVars == <<app, pc, counter, page>>
vars == <<synchVars, progVars>>

Children == DOMAIN pc \ {makeprocs}

\* Process p goes from one place of its program to another.
Step(p, from, to) ==
  /\ pc[p] = from
  /\ Awake(p)
  /\ pc' = [pc EXCEPT ![p] = to]

Counts(p, n) == counter' = [counter EXCEPT ![p] = @ + n]

NewSemOf(n) == [count |-> n, waiting |-> <<>>]

\* Faulty: one signal less than there are children is enough.
CompletedTooSoon(n) == -(n - 2)

\* Faulty: one signal more than there are children is needed.
CompletedNever(n) == -n

\* The count that s_procs_completed is created with, for n children.
CompletedCount(n) == -(n - 1)

\* makeprocs before its first process_create.
Uncreated(children) ==
  [p \in children \union {makeprocs} |-> IF p = makeprocs THEN "create" ELSE "uncreated"]

\* process_create in the two loops of makeprocs: those of the first kind, then the others.
CreateChild(p, first) ==
  /\ pc[makeprocs] = "create"
  /\ pc[p] = "uncreated"
  /\ p \in first \/ \A q \in first : pc[q] # "uncreated"
  /\ pc' = [pc EXCEPT ![p] = "loop"]
  /\ UNCHANGED <<synchVars, app, counter, page>>

WaitForChildren ==
  /\ \A p \in Children : pc[p] # "uncreated"
  /\ Step(makeprocs, "create", "done")
  /\ Wait(makeprocs, "s_procs_completed")
  /\ UNCHANGED <<app, counter, page>>

\* The rounds of p are over: it tells makeprocs and exits.
Complete(p) ==
  /\ Step(p, "loop", "done")
  /\ Signal("s_procs_completed")
  /\ UNCHANGED <<app, counter, page>>

\* The wait of makeprocs has returned.
MakeprocsIsBack == pc[makeprocs] = "done" /\ Awake(makeprocs)

\* The kernel finds no process that can run, and exits.
NobodyRuns ==
  /\ \A p \in DOMAIN pc : pc[p] = "done" \/ ~Awake(p)
  /\ UNCHANGED vars

=============================================================================
