---------------------------- MODULE MCLinearScan ----------------------------
(***************************************************************************)
(* LinearScan on small instances: every assignment of intervals to NVregs  *)
(* vregs over MaxPos + 1 positions is an initial state.                    *)
(***************************************************************************)
EXTENDS LinearScan

(* Enough vregs to fill the pool of two, steal from it, leave a stale end  *)
(* behind and allocate once more after that.                               *)
TwoRegisters  == 2
FiveVregs     == 5
FourPositions == 3
=============================================================================
