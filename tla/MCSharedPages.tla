--------------------------- MODULE MCSharedPages ----------------------------
(***************************************************************************)
(* Small instances of SharedPages for TLC.  The PCBs are interchangeable.  *)
(***************************************************************************)
EXTENDS SharedPages, TLC

Symmetry == Permutations(Process)

\* What a state is without entries behind the end of a page table and PCBs
\* that are free: nothing but a copy beyond the table reads them before they
\* are set again.
MCView ==
  <<mem, spages, live, stopped,
    [p \in live |->
      <<[i \in 0 .. pcb[p].npages - 1 |-> pcb[p].pagetable[i]],
        pcb[p].sysStackArea, program[p]>>]>>

=============================================================================
