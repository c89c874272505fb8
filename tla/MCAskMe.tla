------------------------------ MODULE MCAskMe -------------------------------
(* AskMe for TLC.  Blocks that fit one by one; two of them exceed the budget *)
(* by the blank line between them.                                         *)
EXTENDS AskMe, TLC

MCBlockSize == [c \in Chunks |-> 5]
=============================================================================
