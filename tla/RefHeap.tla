------------------------------ MODULE RefHeap ------------------------------
(***************************************************************************)
(* What the heap helpers promise a program: an object is placed where no   *)
(* live object is, its count starts at 1 and follows the references, and   *)
(* its place is given away again only when the count has reached zero.     *)
(***************************************************************************)
EXTENDS Integers

CONSTANT Cells    (* The heap, in units of 16 bytes.                       *)

VARIABLES
  size,           (* cell -> cells of the object that starts there, or 0.  *)
  refs            (* cell -> the count of that object, or 0.               *)

vars == <<size, refs>>

Extent(a, n) == a .. a + n - 1

Init ==
  /\ size = [a \in Cells |-> 0]
  /\ refs = [a \in Cells |-> 0]

New(a, n) ==
  /\ Extent(a, n) \subseteq Cells
  /\ \A b \in Cells : refs[b] > 0 => Extent(a, n) \cap Extent(b, size[b]) = {}
  /\ size' = [size EXCEPT ![a] = n]
  /\ refs' = [refs EXCEPT ![a] = 1]

Retain(a) ==
  /\ refs[a] > 0
  /\ refs' = [refs EXCEPT ![a] = @ + 1]
  /\ UNCHANGED size

Release(a) ==
  /\ refs[a] > 0
  /\ refs' = [refs EXCEPT ![a] = @ - 1]
  /\ size' = [size EXCEPT ![a] = IF refs[a] = 1 THEN 0 ELSE @]

Next ==
  \E a \in Cells :
    \/ \E n \in 1 .. 2 : New(a, n)
    \/ Retain(a)
    \/ Release(a)

Spec == Init /\ [][Next]_vars
=============================================================================
