------------------------------ MODULE MCLoader ------------------------------
(***************************************************************************)
(* A small instance of the file system and its users for TLC.              *)
(***************************************************************************)
EXTENDS Loader

\* A byte takes two characters, the colon and the newline one each, and the
\* address, when there is one, takes another.
MCLine(addr, n) ==
  [addr |-> addr, bytes |-> n, chars |-> 2 * n + (IF addr = SameAddress THEN 2 ELSE 3)]

MCContents ==
  SeqOf({MCLine(SameAddress, 1), MCLine(SameAddress, 2), MCLine(0, 1), MCLine(3, 2)}, 3)

=============================================================================
