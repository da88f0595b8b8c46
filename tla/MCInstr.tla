------------------------------ MODULE MCInstr ------------------------------
(***************************************************************************)
(* Instr with words of 4 bits.  The homes of an instruction's vregs are    *)
(* any of two pool registers and two slots, shared or not; homes that are  *)
(* not operands hold a word of their own.                                  *)
(***************************************************************************)
EXTENDS Instr

TwoRegisters == {"rbx", "r12"}
TwoSlots     == {"slot0", "slot1"}

(* Not commutative, and different for each operation.                      *)
SomeFArith ==
  [op \in FBins \cup FConvs |-> [x \in 0 .. 15 |-> [y \in 0 .. 15 |->
     (CASE op = "FAdd" -> 3 * x + y [] op = "FSub" -> x + 3 * y
        [] op = "FMul" -> 5 * x + y [] op = "FDiv" -> x + 5 * y
        [] op = "F2I" -> 3 * x + 1  [] op = "I2F" -> 5 * x + 1) % 16]]]

MCHomes == TwoRegisters \cup TwoSlots
Idle    == [h \in MCHomes |-> CASE h = "rbx" -> 9 [] h = "r12" -> 6
                               [] h = "slot0" -> 3 [] h = "slot1" -> 12]

Ir(op, dst, a, b, len, imm) ==
  [op |-> op, dst |-> dst, a |-> a, b |-> b, len |-> len, imm |-> imm]

(* Around zero, and the smallest, the largest and the last word: the least *)
(* integer, the largest double and NaN of either sign.                     *)
Edges    == {0, 1, 2, 3, 7, 8, 15}
Least    == 8
MinusOne == 15

Binaries == Divs \cup Shifts \cup Alus \cup Cmps \cup FBins \cup FCmps
Unaries  == {"Mov", "CoroutineResume", "Neg", "FNeg"} \cup FConvs
Fields   == {"LoadField", "LoadByte", "StoreField"}

Computing ==
  { Ir(op, dst, a, b, dst, 0) : op \in Binaries, dst \in MCHomes, a \in MCHomes, b \in MCHomes }
  \cup { Ir(op, dst, a, a, dst, 0) : op \in Unaries, dst \in MCHomes, a \in MCHomes }
  \cup { Ir(op, dst, dst, dst, dst, n) : op \in {"Const", "FConst"}, dst \in MCHomes,
                                        n \in 0 .. 15 }

Accessing ==
  { Ir(op, dst, a, b, dst, off) : op \in Fields, dst \in {"r12", "slot1"}, a \in MCHomes,
                                  b \in MCHomes, off \in {-1, 0, 1} }
  \cup { Ir("MemCpy", d, a, a, n, 0) : d \in MCHomes, a \in MCHomes, n \in {"rbx", "slot0"} }
  \cup { Ir("MemCmp", d, a, b, n, 0) : d \in {"r12", "slot0"}, a \in {"rbx", "slot1"},
                                      b \in MCHomes, n \in {"rbx", "slot0"} }

(* Memory of five bytes.                                                   *)
Contents == { [k \in 0 .. 4 |-> (x + k * y) % 4] : x \in {0, 3}, y \in 0 .. 2 }
NoBytes  == [k \in 0 .. 4 |-> 2]

Held(i, x, y) == [[Idle EXCEPT ![i.a] = x] EXCEPT ![i.b] = y]

(* Fields and blocks lie inside the memory; a copy whose blocks overlap    *)
(* goes down.                                                              *)
Inside(i, c) ==
  LET end(h) == c[h] + c[i.len]
  IN  CASE i.op = "MemCmp" -> end(i.a) <= 5 /\ end(i.b) <= 5
        [] i.op = "MemCpy" -> /\ end(i.a) <= 5 /\ end(i.dst) <= 5
                              /\ c[i.dst] <= c[i.a] \/ end(i.a) <= c[i.dst]
        [] OTHER -> c[i.a] + i.imm \in 0 .. 3

Any(i) ==
  IF i.op \in Fields
  THEN [cell : {c \in {Held(i, x, y) : x \in 0 .. 4, y \in {1, 13}} : Inside(i, c)}, mem : Contents]
  ELSE IF i.op \in {"MemCpy", "MemCmp"}
  THEN [cell : {c \in {[[[[Idle EXCEPT ![i.dst] = w] EXCEPT ![i.b] = y] EXCEPT ![i.a] = x]
                          EXCEPT ![i.len] = n] :
                          w \in IF i.op = "MemCpy" THEN 0 .. 4 ELSE {0},
                          x \in 0 .. 4, y \in IF i.op = "MemCmp" THEN 0 .. 4 ELSE {0},
                          n \in 0 .. 3} : Inside(i, c)},
        mem : Contents]
  ELSE [cell : {Held(i, x, y) : x \in Edges, y \in Edges}, mem : {NoBytes}]

(* All but the division that overflows.                                    *)
NoOverflow(i) ==
  {g \in Any(i) : ~(i.op \in SignedDivs /\ g.cell[i.a] = Least /\ g.cell[i.b] = MinusOne)}

Everything == Computing \cup Accessing
Divisions  == {i \in Computing : i.op \in SignedDivs}
=============================================================================
