------------------------------- MODULE Instr -------------------------------
(***************************************************************************)
(* The code that Emitter::instr of src/x86/encode_x64.rs emits for the     *)
(* instructions that compute inside one frame, run on a processor.         *)
(*                                                                         *)
(* The allocator has given each vreg a home, a pool register or a spill    *)
(* slot, and vregs of one instruction may share one.  `Code` is the        *)
(* sequence of machine instructions emitted; a machine instruction is a    *)
(* mnemonic `m` with destination `d` and source `s` (cells or numbers), a  *)
(* jump is forward or back over a number of instructions.  What the        *)
(* processor does with one (`Step`) is not in the repository.  `Meaning`   *)
(* is what the IR instruction computes.                                    *)
(*                                                                         *)
(* Words have Width bits for 64, bytes half as many, and a word in memory  *)
(* takes two bytes for eight.  A word read as a double has a sign bit and  *)
(* a magnitude, the largest of which is NaN; what the processor's double   *)
(* arithmetic returns is a constant.                                       *)
(***************************************************************************)
EXTENDS Integers, Sequences, Bitwise

CONSTANTS
  Pool,       (* The allocator's registers.                                *)
  Slots,      (* The spill slots of the frame.                             *)
  Width,      (* Bits in a word, a power of two.                           *)
  FArith,     (* double operation -> word -> word -> word; a conversion    *)
              (* has its operand twice.                                    *)
  Irs,        (* The IR instructions run.                                  *)
  Given(_)    (* The homes and the memory one is run with.                 *)

ASSUME WidthAssumption == Width \in {2, 4, 8}
ASSUME CellsAssumption == Pool \cap Slots = {}

Words   == 2 ^ Width
Bytes   == 2 ^ (Width \div 2)
Word    == 0 .. Words - 1
Homes   == Pool \cup Slots
Scratch == {"rax", "rcx", "rdx", "r8", "r10", "r11", "xmm0", "xmm1"}

VARIABLES
  ir,      (* The IR instruction: op, the homes dst, a, b, len, and imm.   *)
  cell,    (* register or slot -> word                                     *)
  mem,     (* address -> byte                                              *)
  flags,   (* What the last comparison or arithmetic left in the flags:    *)
           (* "lt", "eq" (also zero), "gt" (also not zero) or "un".        *)
  pc,      (* The machine instruction to run next.                         *)
  trapped, (* The processor raised an exception.                           *)
  cell0,   (* History: the homes when the instruction began.               *)
  mem0     (* History: the memory when it began.                           *)

vars == <<ir, cell, mem, flags, pc, trapped, cell0, mem0>>

-----------------------------------------------------------------------------
(* Words.                                                                  *)

Signed(x) == IF x >= Words \div 2 THEN x - Words ELSE x
ToWord(z) == z % Words
Sign(z)   == IF z < 0 THEN -1 ELSE 1
Abs(z)    == Sign(z) * z
Bool(p)   == IF p THEN 1 ELSE 0

(* A word as a double: NaN, or the number it stands for.                   *)
NaN(x)  == x % (Words \div 2) = Words \div 2 - 1
FVal(x) == IF x >= Words \div 2 THEN -(x % (Words \div 2)) ELSE x

(* Division towards zero.                                                  *)
Quotient(x, y)  == Sign(x) * Sign(y) * (Abs(x) \div Abs(y))
Remainder(x, y) == x - y * Quotient(x, y)

Shifts      == {"Shl", "Shr", "ShrShr"}
SignedDivs  == {"Div", "Rem"}
Divs        == SignedDivs \cup {"UDiv", "URem"}
Alus        == {"Add", "Sub", "Mul", "And", "Or", "BitAnd", "BitOr", "BitXor"}
Cmps        == {"Eq", "Ne", "Lt", "Gt", "Le", "Ge"}
FCmps       == {"FEq", "FNe", "FLt", "FGt", "FLe", "FGe"}
FBins       == {"FAdd", "FSub", "FMul", "FDiv"}
FConvs      == {"F2I", "I2F"}

-----------------------------------------------------------------------------
(* What the emitter writes.                                                *)

M(m, d, s) == <<[m |-> m, d |-> d, s |-> s]>>
J(m, over) == <<[m |-> m, over |-> over]>>
I(m, d, n) == <<[m |-> m, d |-> d, n |-> n]>>

(* mov_rr leaves out a move of a register to itself.                       *)
Mov(d, s) == IF d = s THEN <<>> ELSE M("mov", d, s)
Get(r, home) == Mov(r, home)
Put(r, home) == Mov(home, r)

(* Const and FConst: the immediate fits in 32 bits or takes a movabs, and  *)
(* a movabs cannot store to a slot.                                        *)
Fits(n) == Signed(n) \in -(Bytes \div 2) .. Bytes \div 2 - 1

ConstCode(dst, n) ==
  IF Fits(n) THEN I("movi32", dst, n % Bytes)
  ELSE IF dst \in Pool THEN I("movabs", dst, n)
  ELSE I("movabs", "rax", n) \o Put("rax", dst)

(* Mov, and CoroutineResume, which passes the task through.                *)
MovCode(dst, a) ==
  IF dst \in Pool \/ a \in Pool THEN Mov(dst, a)
  ELSE M("mov", "rax", a) \o M("mov", dst, "rax")

(* The divisor is tested first: a zero yields zero.                        *)
ZeroTestMut == M("test", "r11", "r11")
ZeroTest    == M("test", "r11", "r11") \o J("jz", 3)

DivCode(op, dst, a, b) ==
  LET result == IF op \in {"Rem", "URem"} THEN "rdx" ELSE "rax"
  IN  Get("rax", a) \o Get("r11", b)
      \o ZeroTest
      \o (IF op \in SignedDivs
          THEN M("cqo", "rdx", "rax") \o M("idiv", "rax", "r11")
          ELSE M("xor", "rdx", "rdx") \o M("div", "rax", "r11"))
      \o J("jmp", 1)
      \o M("xor", result, result)
      \o Put(result, dst)

ShiftCode(op, dst, a, b) ==
  LET mnemonic == [Shl |-> "shl", Shr |-> "sar", ShrShr |-> "shr"]
  IN  Get("rax", a) \o Get("rcx", b) \o M(mnemonic[op], "rax", "rcx")
      \o Put("rax", dst)

(* A second operand in the destination register is stashed in r11 before   *)
(* the first is loaded over it.                                            *)
StashesMut(dst, a, b) == b = dst /\ a \in Pool
Stashes(dst, a, b)    == b = dst

AluOp == [Add |-> "add", Sub |-> "sub", Mul |-> "imul", And |-> "and",
          Or |-> "or", BitAnd |-> "and", BitOr |-> "or", BitXor |-> "xor"]

AluCode(op, dst, a, b) ==
  IF dst \in Pool
  THEN IF Stashes(dst, a, b)
       THEN Mov("r11", dst) \o Get(dst, a) \o M(AluOp[op], dst, "r11")
       ELSE Get(dst, a) \o M(AluOp[op], dst, b)
  ELSE Get("rax", a) \o M(AluOp[op], "rax", b) \o Put("rax", dst)

CmpCode(op, dst, a, b) ==
  Get("rax", a) \o M("cmp", "rax", b) \o M(op, "rax", "rax") \o Put("rax", dst)

LoadFops(a, b) ==
  Get("rax", a) \o Get("r11", b) \o M("mov", "xmm0", "rax") \o M("mov", "xmm1", "r11")

FBinCode(op, dst, a, b) ==
  LoadFops(a, b) \o M(op, "xmm0", "xmm1") \o M("mov", "rax", "xmm0") \o Put("rax", dst)

(* The result of F2I is an integer, that of I2F a double.                  *)
FConvCode(op, dst, a) ==
  Get("rax", a)
  \o (IF op = "F2I" THEN M("mov", "xmm0", "rax") \o M("F2I", "rax", "xmm0")
      ELSE M("I2F", "xmm0", "rax") \o M("mov", "rax", "xmm0"))
  \o Put("rax", dst)

(* An unordered comparison sets the flags of less and of equal, so the     *)
(* parity flag masks those results and adds to not equal; the mask goes    *)
(* to dl.                                                                  *)
MaskCode(op) ==
  CASE op \in {"FLt", "FLe", "FEq"} -> M("setnp", "rdx", "rdx") \o M("and", "rax", "rdx")
    [] op = "FNe" -> M("setp", "rdx", "rdx") \o M("or", "rax", "rdx")
    [] OTHER -> <<>>

FCmpCode(op, dst, a, b) ==
  LoadFops(a, b) \o M("comisd", "xmm0", "xmm1") \o M(op, "rax", "rax") \o MaskCode(op)
  \o Put("rax", dst)

NegCodeMut(dst, a) ==
  IF a \in Pool THEN M("neg", a, a) \o Mov(dst, a)
  ELSE Get("rax", a) \o M("neg", "rax", "rax") \o Put("rax", dst)
NegCode(dst, a) ==
  IF dst \in Pool /\ dst = a THEN M("neg", dst, dst)
  ELSE Get("rax", a) \o M("neg", "rax", "rax") \o Put("rax", dst)

(* FNeg flips the sign bit.                                                *)
FNegCode(dst, a) ==
  Get("rax", a) \o I("movabs", "rcx", Words \div 2) \o M("xor", "rax", "rcx")
  \o Put("rax", dst)

(* field_load, field_load_byte: the base is in r10.                        *)
LoadCode(m, dst, a, off) ==
  LET into == IF dst \in Pool THEN dst ELSE "rax"
  IN  Get("r10", a) \o <<[m |-> m, d |-> into, base |-> "r10", off |-> off]>>
      \o Put(into, dst)

StoreCode(a, b, off) ==
  Get("r10", a) \o Get("r11", b)
  \o <<[m |-> "store", s |-> "r11", base |-> "r10", off |-> off]>>

MemCpyCode(dst, src, len) ==
  Get("r10", dst) \o Get("r11", src) \o Get("r8", len)
  \o M("test", "r8", "r8") \o J("jz", 6)
  \o <<[m |-> "load8", d |-> "rax", base |-> "r11", off |-> 0]>>
  \o <<[m |-> "store8", s |-> "rax", base |-> "r10", off |-> 0]>>
  \o I("addi", "r10", 1) \o I("addi", "r11", 1) \o I("addi", "r8", -1)
  \o J("jnz", -8)

(* The lengths are equal when both ends have been reached; a difference    *)
(* leaves the loop for the second of the two results.                      *)
MemCmpCode(dst, a, b, len) ==
  Get("r10", a) \o Get("r11", b) \o Get("r8", len)
  \o M("test", "r8", "r8") \o J("jz", 7)
  \o <<[m |-> "load8", d |-> "rax", base |-> "r11", off |-> 0]>>
  \o <<[m |-> "cmp8", d |-> "rax", base |-> "r10", off |-> 0]>>
  \o J("jnz", 6)
  \o I("addi", "r10", 1) \o I("addi", "r11", 1) \o I("addi", "r8", -1)
  \o J("jnz", -9)
  \o I("movi32", "rax", 1) \o J("jmp", 1) \o I("movi32", "rax", 0)
  \o Put("rax", dst)

Code(i) ==
  CASE i.op \in {"Const", "FConst"}        -> ConstCode(i.dst, i.imm)
    [] i.op \in {"Mov", "CoroutineResume"} -> MovCode(i.dst, i.a)
    [] i.op \in Divs   -> DivCode(i.op, i.dst, i.a, i.b)
    [] i.op \in Shifts -> ShiftCode(i.op, i.dst, i.a, i.b)
    [] i.op \in Alus   -> AluCode(i.op, i.dst, i.a, i.b)
    [] i.op \in Cmps   -> CmpCode(i.op, i.dst, i.a, i.b)
    [] i.op \in FBins  -> FBinCode(i.op, i.dst, i.a, i.b)
    [] i.op \in FConvs -> FConvCode(i.op, i.dst, i.a)
    [] i.op \in FCmps  -> FCmpCode(i.op, i.dst, i.a, i.b)
    [] i.op = "Neg"    -> NegCode(i.dst, i.a)
    [] i.op = "FNeg"   -> FNegCode(i.dst, i.a)
    [] i.op = "LoadField"  -> LoadCode("load", i.dst, i.a, i.imm)
    [] i.op = "LoadByte"   -> LoadCode("load8", i.dst, i.a, i.imm)
    [] i.op = "StoreField" -> StoreCode(i.a, i.b, i.imm)
    [] i.op = "MemCpy"     -> MemCpyCode(i.dst, i.a, i.len)
    [] i.op = "MemCmp"     -> MemCmpCode(i.dst, i.a, i.b, i.len)

-----------------------------------------------------------------------------
(* The processor.                                                          *)

At      == Code(ir)[pc]
Done    == pc = Len(Code(ir)) + 1
Running == ~Done /\ ~trapped

Init ==
  /\ ir \in Irs
  /\ \E g \in Given(ir) : cell0 = g.cell /\ mem0 = g.mem
  /\ cell = [c \in Homes \cup Scratch |-> IF c \in Homes THEN cell0[c] ELSE Words - 1]
  /\ mem = mem0
  /\ flags = "gt" /\ pc = 1 /\ trapped = FALSE

Goto(over) == pc' = pc + 1 + over
Trap == trapped' = TRUE /\ UNCHANGED <<cell, mem, flags, pc>>

ZeroFlag(x) == IF x = 0 THEN "eq" ELSE "gt"
Order(x, y) == IF x < y THEN "lt" ELSE IF x = y THEN "eq" ELSE "gt"
FOrder(x, y) == IF NaN(x) \/ NaN(y) THEN "un" ELSE Order(FVal(x), FVal(y))

(* The flags under which each setcc, named for its use, stores 1.          *)
Holds == [Eq  |-> {"eq"}, Ne |-> {"lt", "gt"}, Lt |-> {"lt"}, Gt |-> {"gt"},
          Le  |-> {"lt", "eq"}, Ge |-> {"gt", "eq"},
          FEq |-> {"eq", "un"}, FNe |-> {"lt", "gt"}, FLt |-> {"lt", "un"},
          FGt |-> {"gt"}, FLe |-> {"lt", "eq", "un"}, FGe |-> {"gt", "eq"},
          setp |-> {"un"}, setnp |-> {"lt", "eq", "gt"}]

Computed(m, x, y) ==
  CASE m = "mov"  -> y
    [] m = "add"  -> ToWord(x + y)
    [] m = "sub"  -> ToWord(x - y)
    [] m = "imul" -> ToWord(x * y)
    [] m = "and"  -> x & y
    [] m = "or"   -> x | y
    [] m = "xor"  -> x ^^ y
    [] m = "neg"  -> ToWord(-x)
    [] m = "cqo"  -> IF Signed(y) < 0 THEN Words - 1 ELSE 0
    [] m = "shl"  -> ToWord(x * 2 ^ (y % Width))
    [] m = "sar"  -> ToWord(Signed(x) \div 2 ^ (y % Width))
    [] m = "shr"  -> x \div 2 ^ (y % Width)
    [] m \in FBins -> FArith[m][x][y]
    [] m \in FConvs -> FArith[m][y][y]
    [] m \in DOMAIN Holds -> Bool(flags \in Holds[m])

Compute ==
  /\ At.m \in {"mov", "add", "sub", "imul", "and", "or", "xor", "neg", "cqo",
              "shl", "sar", "shr"} \cup FBins \cup FConvs \cup DOMAIN Holds
  /\ cell' = [cell EXCEPT ![At.d] = Computed(At.m, @, cell[At.s])]
  /\ Goto(0)
  /\ UNCHANGED <<mem, flags, trapped>>

Immediate ==
  /\ At.m \in {"movabs", "movi32", "addi"}
  /\ LET n == CASE At.m = "movabs" -> At.n
             [] At.m = "movi32" -> ToWord(IF At.n >= Bytes \div 2 THEN At.n - Bytes ELSE At.n)
             [] At.m = "addi"   -> ToWord(cell[At.d] + At.n)
     IN  /\ cell' = [cell EXCEPT ![At.d] = n]
         /\ flags' = IF At.m = "addi" THEN ZeroFlag(n) ELSE flags
  /\ Goto(0)
  /\ UNCHANGED <<mem, trapped>>

Compare ==
  /\ At.m \in {"test", "cmp", "comisd"}
  /\ LET x == cell[At.d]  y == cell[At.s]
     IN  flags' = CASE At.m = "test"   -> ZeroFlag(x)
                    [] At.m = "cmp"    -> Order(Signed(x), Signed(y))
                    [] At.m = "comisd" -> FOrder(x, y)
  /\ Goto(0)
  /\ UNCHANGED <<cell, mem, trapped>>

(* rdx:rax is divided; a quotient that is no word is an exception.         *)
Divide ==
  /\ At.m \in {"div", "idiv"}
  /\ LET y == cell[At.s]
         q == IF At.m = "div" THEN (cell["rdx"] * Words + cell["rax"]) \div y
              ELSE Quotient(Signed(cell["rdx"]) * Words + cell["rax"], Signed(y))
         r == IF At.m = "div" THEN (cell["rdx"] * Words + cell["rax"]) % y
              ELSE Remainder(Signed(cell["rdx"]) * Words + cell["rax"], Signed(y))
         least == IF At.m = "div" THEN 0 ELSE -(Words \div 2)
     IN  IF y = 0 \/ q \notin least .. least + Words - 1 THEN Trap
         ELSE /\ cell' = [cell EXCEPT !["rax"] = ToWord(q), !["rdx"] = ToWord(r)]
              /\ Goto(0)
              /\ UNCHANGED <<mem, flags, trapped>>

Jump ==
  /\ At.m \in {"jmp", "jz", "jnz"}
  /\ LET zero == flags \in {"eq", "un"}
     IN  Goto(IF At.m = "jmp" \/ (At.m = "jz" /\ zero) \/ (At.m = "jnz" /\ ~zero)
              THEN At.over ELSE 0)
  /\ UNCHANGED <<cell, mem, flags, trapped>>

WordAt(f, k) == f[k] + Bytes * f[k + 1]
SetWord(f, k, w) == [f EXCEPT ![k] = w % Bytes, ![k + 1] = w \div Bytes]

Access ==
  /\ At.m \in {"load", "load8", "store", "store8", "cmp8"}
  /\ LET k == cell[At.base] + At.off
         ends == IF At.m \in {"load", "store"} THEN {k, k + 1} ELSE {k}
     IN  IF ~(ends \subseteq DOMAIN mem) THEN Trap
         ELSE /\ cell' = CASE At.m = "load"  -> [cell EXCEPT ![At.d] = WordAt(mem, k)]
                           [] At.m = "load8" -> [cell EXCEPT ![At.d] = mem[k]]
                           [] OTHER -> cell
              /\ mem' = CASE At.m = "store"  -> SetWord(mem, k, cell[At.s])
                          [] At.m = "store8" -> [mem EXCEPT ![k] = cell[At.s] % Bytes]
                          [] OTHER -> mem
              /\ flags' = IF At.m = "cmp8" THEN Order(mem[k], cell[At.d] % Bytes) ELSE flags
              /\ Goto(0)
              /\ UNCHANGED trapped

Step == Compute \/ Immediate \/ Compare \/ Divide \/ Jump \/ Access

Next == Running /\ Step /\ UNCHANGED <<ir, cell0, mem0>>

(* The processor goes on.                                                  *)
Spec == Init /\ [][Next]_vars /\ WF_vars(Next)

-----------------------------------------------------------------------------
(* What the IR means.                                                      *)

X == cell0[ir.a]
Y == cell0[ir.b]
N == cell0[ir.len]

(* The words a field or a block of memory consists of.                     *)
Field     == X + ir.imm
Span(k)   == k .. k + N - 1

Ordered(op, x, y) ==
  CASE op = "Eq" -> x = y [] op = "Ne" -> x # y [] op = "Lt" -> x < y
    [] op = "Gt" -> x > y [] op = "Le" -> x <= y [] op = "Ge" -> x >= y

FOrdered(op, x, y) ==
  IF NaN(x) \/ NaN(y) THEN op = "FNe"
  ELSE Ordered([FEq |-> "Eq", FNe |-> "Ne", FLt |-> "Lt", FGt |-> "Gt",
                FLe |-> "Le", FGe |-> "Ge"][op], FVal(x), FVal(y))

BitOf(x, i) == (x \div 2 ^ i) % 2

(* z is the word op makes of X and Y: division by what multiplies back,    *)
(* with the remainder on the dividend's side and zero for a zero divisor,  *)
(* shifts and the bitwise operations by their bits.                        *)
IsQuotient(z, r, x, y) ==
  x = y * z + r /\ Abs(r) < Abs(y) /\ (r # 0 => Sign(r) = Sign(x))

Means(op, z) ==
  LET s == Signed(z)  k == Y % Width
  IN  CASE op \in {"Const", "FConst"} -> z = ir.imm
        [] op \in {"Mov", "CoroutineResume"} -> z = X
        [] op = "Add" -> z = ToWord(X + Y)
        [] op = "Sub" -> X = ToWord(z + Y)
        [] op = "Mul" -> z = ToWord(Signed(X) * Signed(Y))
        [] op \in {"And", "BitAnd"} ->
             \A i \in 0 .. Width - 1 : BitOf(z, i) = 1 <=> BitOf(X, i) = 1 /\ BitOf(Y, i) = 1
        [] op \in {"Or", "BitOr"} ->
             \A i \in 0 .. Width - 1 : BitOf(z, i) = 1 <=> BitOf(X, i) = 1 \/ BitOf(Y, i) = 1
        [] op = "BitXor" ->
             \A i \in 0 .. Width - 1 : BitOf(z, i) = 1 <=> BitOf(X, i) # BitOf(Y, i)
        [] op \in Divs /\ Y = 0 -> z = 0
        [] op = "Div"  -> \E r \in -Words .. Words : IsQuotient(s, r, Signed(X), Signed(Y))
        [] op = "Rem"  -> \E q \in -Words .. Words : IsQuotient(q, s, Signed(X), Signed(Y))
        [] op = "UDiv" -> \E r \in Word : IsQuotient(z, r, X, Y)
        [] op = "URem" -> \E q \in Word : IsQuotient(q, z, X, Y)
        [] op = "Shl" ->
             \A i \in 0 .. Width - 1 : BitOf(z, i) = IF i < k THEN 0 ELSE BitOf(X, i - k)
        [] op = "ShrShr" ->
             \A i \in 0 .. Width - 1 :
               BitOf(z, i) = IF i + k < Width THEN BitOf(X, i + k) ELSE 0
        [] op = "Shr" ->
             \A i \in 0 .. Width - 1 :
               BitOf(z, i) = BitOf(X, IF i + k < Width THEN i + k ELSE Width - 1)
        [] op \in Cmps  -> z = Bool(Ordered(op, Signed(X), Signed(Y)))
        [] op \in FCmps -> z = Bool(FOrdered(op, X, Y))
        [] op \in FBins \cup FConvs -> z = FArith[op][X][Y]
        [] op = "Neg"  -> ToWord(z + X) = 0
        [] op = "FNeg" -> FVal(z) = -FVal(X) /\ z # X
        [] op = "LoadField" -> z = WordAt(mem0, Field)
        [] op = "LoadByte"  -> z = mem0[Field]
        [] op = "MemCmp" -> z = Bool(\A j \in 0 .. N - 1 : mem0[X + j] = mem0[Y + j])
        [] op \in {"StoreField", "MemCpy"} -> z = cell0[ir.dst]

MemoryMeant ==
  CASE ir.op = "StoreField" -> SetWord(mem0, Field, Y)
    [] ir.op = "MemCpy" ->
         LET to == cell0[ir.dst]
         IN  [k \in DOMAIN mem0 |-> IF k \in Span(to) THEN mem0[X + k - to] ELSE mem0[k]]
    [] OTHER -> mem0

-----------------------------------------------------------------------------
(* Properties.                                                             *)

(* Whatever homes the operands and the result share, the code computes     *)
(* what the IR instruction means, of the words its homes held when it      *)
(* began, in the home of its result and in memory.                         *)
ComputesItsMeaning == Done => Means(ir.op, cell[ir.dst]) /\ mem = MemoryMeant

(* At no point does the code write a home other than its result's, whose   *)
(* vregs may be live across the instruction, nor memory it was not given.  *)
TouchesNothingElse ==
  /\ \A h \in Homes : h # ir.dst => cell[h] = cell0[h]
  /\ \A k \in DOMAIN mem : mem[k] # mem0[k] => MemoryMeant[k] = mem[k]

(* Every instruction ends, the copying and comparing loops included, and   *)
(* without an exception: a zero divisor is caught, a loop stays in its     *)
(* blocks.                                                                 *)
AlwaysEnds == <>Done

(* encode_x64.rs:1622-1629: the paths that divide by zero "must produce a  *)
(* value, not abort the image".                                            *)
DivisionNeverAborts == ~trapped
=============================================================================
