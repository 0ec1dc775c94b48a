------------------------------ MODULE MCKernel ------------------------------
(***************************************************************************)
(* Small instances of Kernel for TLC.                                      *)
(***************************************************************************)
EXTENDS Kernel

\* One semaphore created a unit in debt (as makeprocs creates the semaphore
\* it waits on for several processes), empty, or with a unit.
MCCounts == {-1, 0, 1}

=============================================================================
