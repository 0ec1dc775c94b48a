----------------------------- MODULE Reactions ------------------------------
(***************************************************************************)
(* apps/q5: the atmosphere.  A semaphore counts the free molecules of each *)
(* kind.  Two processes inject N3 and H2O, and three make the reactions    *)
(* N3 -> 3 N, 2 H2O -> 2 H2 + O2 and N + O2 -> NO2, each as often as       *)
(* makeprocs has computed before it starts them.                           *)
(***************************************************************************)
EXTENDS UserPrograms

CONSTANTS MAX_N3, MAX_H2O    \* bounds on the numbers makeprocs is given

Molecule == {"N3", "H2O", "N", "H2", "O2", "NO2"}

\* A process that injects a molecule bears its name.
Injector == {"N3", "H2O"}
Reaction == {"R1", "R2", "R3"}
ReactionsProcess == Injector \union Reaction

ASSUME ReactionsAssumption ==
  /\ MAX_N3 \in Nat /\ MAX_H2O \in Nat
  /\ makeprocs \notin ReactionsProcess

\* Faulty: the second reaction takes one H2O.
WaitsForOneWater == [R1 |-> <<"N3">>, R2 |-> <<"H2O">>, R3 |-> <<"N", "O2">>]

\* What a reaction waits for in one round, and what it then signals.
Waits == [R1 |-> <<"N3">>, R2 |-> <<"H2O", "H2O">>, R3 |-> <<"N", "O2">>]

Signals == [R1 |-> <<"N", "N", "N">>, R2 |-> <<"H2", "H2", "O2">>, R3 |-> <<"NO2">>]

ExpectedReactions(n3, h2o) ==
  [R1 |-> n3,
   R2 |-> h2o \div 2,
   R3 |-> IF 3 * n3 > h2o \div 2 THEN h2o \div 2 ELSE 3 * n3]

\* Whether inj_count_str lies right behind expected_reactions_str[2][10], which
\* has no room for the string of R3, or elsewhere: the compiler decides.
StackLayout == {"adjacent", "apart"}

\* The numbers that the processes find in their arguments.  The string of R3
\* may replace the count for the N3 injector.
Arguments(n3, h2o, layout) ==
  LET expected == ExpectedReactions(n3, h2o)
  IN  [p \in ReactionsProcess |->
         CASE p = "N3" /\ layout = "adjacent" -> expected["R3"]
           [] p = "N3" /\ layout = "apart" -> n3
           [] p = "H2O" -> h2o
           [] OTHER -> expected[p]]

\* The shared page holds the handles of the semaphores only.  page keeps what
\* the processes were started with.
ReactionsInit ==
  \E n3 \in 0 .. MAX_N3, h2o \in 0 .. MAX_H2O, layout \in StackLayout :
    /\ pc = Uncreated(ReactionsProcess)
    /\ counter = Arguments(n3, h2o, layout)
    /\ page = Arguments(n3, h2o, layout)
    /\ sems = [s \in Molecule \union {"s_procs_completed"} |->
                 NewSemOf(IF s \in Molecule THEN 0
                          ELSE CompletedCount(Cardinality(ReactionsProcess)))]
    /\ locks = << >>
    /\ conds = << >>

HasRounds(p) == counter[p] > 0

Inject(p) ==
  /\ HasRounds(p)
  /\ Step(p, "loop", "loop")
  /\ Signal(p)
  /\ Counts(p, -1)
  /\ UNCHANGED <<app, page>>

Script(p) == Waits[p] \o Signals[p]

\* Where a reaction is when it has made i of the calls of a round.
Place == <<"loop", "second", "third", "fourth", "fifth">>
After(p, i) == IF i = Len(Script(p)) THEN "loop" ELSE Place[i + 1]

\* The i-th call of a round.
React(p) ==
  \E i \in 1 .. Len(Script(p)) :
    /\ HasRounds(p)
    /\ Step(p, Place[i], After(p, i))
    /\ \/ i <= Len(Waits[p]) /\ Wait(p, Script(p)[i])
       \/ i > Len(Waits[p]) /\ Signal(Script(p)[i])
    /\ Counts(p, IF i = Len(Script(p)) THEN -1 ELSE 0)
    /\ UNCHANGED <<app, page>>

=============================================================================
