------------------------------- MODULE MCArena --------------------------------
(* Chunks of 12 bytes, pointers of two: the arrays of lists outgrow a     *)
(* chunk and texts leave the next free byte unaligned.                    *)
EXTENDS Arena

CONSTANTS l1, l2

MCLists == {l1, l2}
===============================================================================
