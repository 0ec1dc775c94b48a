----------------------------- MODULE MCPrograms -----------------------------
(***************************************************************************)
(* Small instances of the programs for TLC.                                *)
(***************************************************************************)
EXTENDS BufferContents
=============================================================================
