------------------------------- MODULE MCHeap -------------------------------
(***************************************************************************)
(* Heap with room for a few blocks of one or two cells: a freed block is   *)
(* reused whole, reused by a smaller object, and passed over by a larger.  *)
(***************************************************************************)
EXTENDS Heap

CONSTANTS t1, t2

OneThread  == {t1}
TwoThreads == {t1, t2}
=============================================================================
