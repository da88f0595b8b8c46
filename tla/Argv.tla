-------------------------------- MODULE Argv --------------------------------
(***************************************************************************)
(* The argument array of Main(string[] args): the stub that @start begins  *)
(* with, which saves the stack pointer in a word of the data section (the  *)
(* slot), and the code Emitter::instr of src/x86/encode_x64.rs emits for   *)
(* BuildArgv, which makes the array out of what that stack pointer reached.*)
(*                                                                         *)
(* A step is the code between two calls of ALLOC, or one turn of the       *)
(* decoding loop.  ALLOC is modelled by what it does to the registers and  *)
(* by the block it returns (module Heap has the allocator itself).  The    *)
(* address of an argument is its index in argv, that of a block its number;*)
(* a register that holds nothing the code may use holds Junk.              *)
(***************************************************************************)
EXTENDS Integers, Sequences

CONSTANTS
  Cap,       (* The number of arguments the size is computed for at most,  *)
             (* 1024 in the code.                                          *)
  Argvs,     (* The argument vectors: sequences of byte strings, argv[0]   *)
             (* first.                                                     *)
  Entries    (* How @start is entered: by the kernel, "kernel"; by a       *)
             (* caller whose return address is on the stack, "host"; with  *)
             (* the slot filled in already, "seeded".                      *)

ASSUME CapAssumption   == Cap \in Nat \ {0}
ASSUME EntryAssumption == Entries \subseteq {"kernel", "host", "seeded"}

Junk       == -1
HeaderSize == 16
ReturnAddress == 4 * Cap   (* As a count of arguments: a wild one.         *)

VARIABLES
  pc,     (* What runs next.                                               *)
  entry,  (* How the program was entered.                                  *)
  argv,   (* The argument strings, without their NUL.                      *)
  slot,   (* The slot: "zero", or which stack its word points into.        *)
  reg,    (* The registers.                                                *)
  stack,  (* The words pushed, last first.                                 *)
  block,  (* number -> [size, length, tag, refs, units] of each block      *)
          (* allocated: elements of the array, code units of a string.     *)
  wild    (* A load or a store left the memory it was meant for.           *)

vars == <<pc, entry, argv, slot, reg, stack, block, wild>>

Init ==
  /\ pc = "start"
  /\ entry \in Entries /\ argv \in Argvs
  /\ slot = IF entry = "seeded" THEN "argv" ELSE "zero"
  /\ reg = [rax |-> Junk, rcx |-> Junk, rdx |-> Junk, rsi |-> Junk, rdi |-> Junk,
             r8 |-> Junk, r9 |-> "junk", r11 |-> Junk]
  /\ stack = <<>> /\ block = <<>> /\ wild = FALSE

Wild == wild' = TRUE /\ UNCHANGED <<reg, stack, block>> /\ pc' = "wild"

-----------------------------------------------------------------------------
(* The stub of @start: a slot that is not zero was supplied by a host.     *)

Start ==
  /\ pc = "start"
  /\ slot' = IF slot # "zero" THEN slot
             ELSE IF entry = "host" THEN "host" ELSE "argv"
  /\ pc' = "build"
  /\ UNCHANGED <<entry, argv, reg, stack, block, wild>>

-----------------------------------------------------------------------------
(* BuildArgv.                                                              *)

(* r9 is the slot's word, or the slot itself when that word is zero, so    *)
(* that [r9] is a count of arguments in either case.                       *)
Base == IF slot = "zero" THEN "slot" ELSE slot

Argc(base) ==
  CASE base = "slot" -> 0
    [] base = "argv" -> Len(argv)
    [] base = "host" -> ReturnAddress

(* What the array is allocated for: the jump of a count in range goes past *)
(* the subtraction that leaves argv[0] out.                                *)
Elements(argc) == IF argc <= Cap THEN argc ELSE Cap - 1

(* What its length says.                                                   *)
Length(argc) == IF argc >= 1 THEN argc - 1 ELSE 0

(* A call of ALLOC for rsi bytes.  It returns in rax a block with its      *)
(* payload zeroed; rcx and rdx are lost in any case, and rdi and r11 when  *)
(* the block comes off the free list and is cleared.                       *)
Alloc ==
  \E cleared \in BOOLEAN :
    /\ block' = Append(block, [size |-> reg.rsi, length |-> 0, tag |-> FALSE,
                               refs |-> <<>>, units |-> <<>>])
    /\ reg' = [reg EXCEPT !.rax = Len(block) + 1, !.rcx = Junk, !.rdx = Junk,
                          !.rdi = IF cleared THEN Junk ELSE @,
                          !.r11 = IF cleared THEN Junk ELSE @]

Build ==
  /\ pc = "build"
  /\ reg' = [reg EXCEPT !.r9 = Base, !.rsi = 8 * Elements(Argc(Base)) + HeaderSize]
  /\ stack' = <<"rsp">> \o stack
  /\ pc' = "allocArray"
  /\ UNCHANGED <<entry, argv, slot, block, wild>>

AllocArray ==
  /\ pc = "allocArray"
  /\ Alloc
  /\ pc' = "header"
  /\ UNCHANGED <<entry, argv, slot, stack, wild>>

(* The count is read again, raw: the register died in the call.            *)
Header ==
  /\ pc = "header"
  /\ LET length == Length(Argc(reg.r9))
     IN  /\ block' = [block EXCEPT ![reg.rax].length = length]
         /\ reg' = [reg EXCEPT !.rdi = reg.rax, !.r11 = 0]
         /\ pc' = IF length > 0 THEN "arg" ELSE "finish"
  /\ UNCHANGED <<entry, argv, slot, stack, wild>>

(* argv[i + 1], its length, and what its string may take: two bytes for    *)
(* each of its own.  The array and the index are saved across the call.    *)
StringSizeMut(bytes) == bytes + HeaderSize
StringSize(bytes)    == 2 * bytes + HeaderSize

Arg ==
  /\ pc = "arg"
  /\ LET k == reg.r11 + 1
     IN  IF reg.r9 # "argv" \/ k >= Len(argv) THEN Wild
         ELSE /\ reg' = [reg EXCEPT !.r8 = k, !.rsi = StringSize(Len(argv[k + 1]))]
              /\ stack' = <<reg.r11, reg.rdi>> \o stack
              /\ pc' = "allocString"
              /\ UNCHANGED <<block, wild>>
  /\ UNCHANGED <<entry, argv, slot>>

AllocString ==
  /\ pc = "allocString"
  /\ Alloc
  /\ pc' = "tag"
  /\ UNCHANGED <<entry, argv, slot, stack, wild>>

(* The string is tagged, what the decoder needs registers for is pushed,   *)
(* and the length is counted again.                                        *)
Tag ==
  /\ pc = "tag"
  /\ block' = [block EXCEPT ![reg.rax].tag = TRUE]
  /\ stack' = <<reg.rax, stack[1], reg.r9>> \o SubSeq(stack, 3, Len(stack))
  /\ reg' = [reg EXCEPT !.r11 = stack[1], !.rdi = stack[2],
                        !.rdx = Len(argv[reg.r8 + 1]), !.rcx = 0, !.rsi = HeaderSize]
  /\ pc' = "decode"
  /\ UNCHANGED <<entry, argv, slot, wild>>

-----------------------------------------------------------------------------
(* UTF-8 to UTF-16.                                                        *)

Byte(j) == argv[reg.r8 + 1][j + 1]
Lead    == Byte(reg.rcx)

(* A byte after the lead is looked at only inside the string.              *)
Continued(j) == reg.rcx + j < reg.rdx /\ Byte(reg.rcx + j) \in 128 .. 191
Six(j)       == Byte(reg.rcx + j) % 64

PointOfTwo   == (Lead % 32) * 64 + Six(1)
PointOfThree == (Lead % 16) * 4096 + Six(1) * 64 + Six(2)
PointOfFour  == (Lead % 8) * 262144 + Six(1) * 4096 + Six(2) * 64 + Six(3)

(* Neither overlong nor a surrogate.                                       *)
ThreeIsValidMut(p) == p >= 2048
ThreeIsValid(p)    == p >= 2048 /\ p \notin 55296 .. 57343
FourIsValid(p)     == p >= 65536 /\ p <= 1114111

IsOne   == Lead < 128
IsTwo   == Lead \in 194 .. 223 /\ Continued(1)
IsThree == Lead \in 224 .. 239 /\ Continued(1) /\ Continued(2) /\ ThreeIsValid(PointOfThree)
IsFour  == Lead >= 240 /\ Continued(1) /\ Continued(2) /\ Continued(3)
           /\ FourIsValid(PointOfFour)

Surrogates(p) == <<55296 + ((p - 65536) \div 1024), 56320 + ((p - 65536) % 1024)>>
Replacement   == 65533
SkipLeadMut   == 0
SkipLead      == 1

(* The code units are stored at rsi, and the index goes past what they     *)
(* stand for.                                                              *)
Emit(units, bytes) ==
  LET object == stack[1]
      end    == reg.rsi + 2 * Len(units)
  IN  IF end > block[object].size THEN Wild
      ELSE /\ block' = [block EXCEPT ![object].units = @ \o units]
           /\ reg' = [reg EXCEPT !.rsi = end, !.rcx = @ + bytes, !.r9 = "junk",
                                 !.rax = Junk, !.r11 = Junk]
           /\ UNCHANGED <<pc, stack, wild>>

Decode ==
  /\ pc = "decode" /\ reg.rcx < reg.rdx
  /\ \/ IsOne   /\ Emit(<<Lead>>, 1)
     \/ IsTwo   /\ Emit(<<PointOfTwo>>, 2)
     \/ IsThree /\ Emit(<<PointOfThree>>, 3)
     \/ IsFour  /\ Emit(Surrogates(PointOfFour), 4)
     \/ ~(IsOne \/ IsTwo \/ IsThree \/ IsFour) /\ Emit(<<Replacement>>, SkipLead)
  /\ UNCHANGED <<entry, argv, slot>>

(* The length of the string is what was written; the element is stored.    *)
Store ==
  /\ pc = "decode" /\ reg.rcx >= reg.rdx
  /\ LET object == stack[1]  i == stack[2]  array == reg.rdi
     IN  IF array = Junk \/ i = Junk THEN Wild
         ELSE IF HeaderSize + 8 * (i + 1) > block[array].size THEN Wild
         ELSE /\ block' = [block EXCEPT ![object].length = (reg.rsi - HeaderSize) \div 2,
                                        ![array].refs = Append(block[array].refs, object)]
              /\ reg' = [reg EXCEPT !.rax = object, !.r9 = stack[3], !.r11 = i + 1,
                                    !.rcx = (reg.rsi - HeaderSize) \div 2]
              /\ stack' = SubSeq(stack, 4, Len(stack))
              /\ pc' = IF i + 1 < block[array].length THEN "arg" ELSE "finish"
              /\ UNCHANGED wild
  /\ UNCHANGED <<entry, argv, slot>>

Finish ==
  /\ pc = "finish"
  /\ reg' = [reg EXCEPT !.rax = reg.rdi]
  /\ stack' = Tail(stack)
  /\ pc' = "done"
  /\ UNCHANGED <<entry, argv, slot, block, wild>>

Next ==
  \/ Start \/ Build \/ AllocArray \/ Header
  \/ Arg \/ AllocString \/ Tag \/ Decode \/ Store \/ Finish

(* Straight-line code goes on.                                             *)
Spec == Init /\ [][Next]_vars /\ WF_vars(Next)

-----------------------------------------------------------------------------
(* What an argument means, by the table of well-formed UTF-8: lead, second *)
(* byte, how many bytes, and what the lead counts from.                    *)
WellFormed ==
  { [lead |-> 0 .. 127,   second |-> 128 .. 191, bytes |-> 1, from |-> 0],
    [lead |-> 194 .. 223, second |-> 128 .. 191, bytes |-> 2, from |-> 192],
    [lead |-> {224},      second |-> 160 .. 191, bytes |-> 3, from |-> 224],
    [lead |-> 225 .. 236 \cup 238 .. 239, second |-> 128 .. 191, bytes |-> 3, from |-> 224],
    [lead |-> {237},      second |-> 128 .. 159, bytes |-> 3, from |-> 224],
    [lead |-> {240},      second |-> 144 .. 191, bytes |-> 4, from |-> 240],
    [lead |-> 241 .. 243, second |-> 128 .. 191, bytes |-> 4, from |-> 240],
    [lead |-> {244},      second |-> 128 .. 143, bytes |-> 4, from |-> 240] }

Fits(row, s) ==
  /\ Len(s) >= row.bytes /\ s[1] \in row.lead
  /\ row.bytes > 1 => s[2] \in row.second
  /\ \A j \in 3 .. row.bytes : s[j] \in 128 .. 191

(* Six bits of each byte after the lead.                                   *)
PointOf(row, s) ==
  LET lead    == s[1] - row.from
      bits(j) == s[j] - 128
  IN  IF row.bytes = 1 THEN lead
      ELSE IF row.bytes = 2 THEN lead * 64 + bits(2)
      ELSE IF row.bytes = 3 THEN lead * 4096 + bits(2) * 64 + bits(3)
      ELSE lead * 262144 + bits(2) * 4096 + bits(3) * 64 + bits(4)

UnitsOf(row, s) ==
  LET p == PointOf(row, s)
  IN  IF p < 65536 THEN <<p>>
      ELSE <<55232 + (p \div 1024), 56320 + (p % 1024)>>

(* What the bytes from the k-th on stand for.  A byte that begins no       *)
(* well-formed sequence is one U+FFFD.                                     *)
TextFrom(s) ==
  LET from[k \in 1 .. Len(s) + 1] ==
        IF k > Len(s) THEN <<>>
        ELSE LET rest == SubSeq(s, k, Len(s))
                 rows == {row \in WellFormed : Fits(row, rest)}
             IN  IF rows = {} THEN <<Replacement>> \o from[k + 1]
                 ELSE LET row == CHOOSE row \in rows : TRUE
                      IN  UnitsOf(row, rest) \o from[k + row.bytes]
  IN  from

Text(s) == TextFrom(s)[1]

-----------------------------------------------------------------------------
(* Properties.                                                             *)

(* Main gets an array of exactly the user's arguments, in order, each a    *)
(* tagged string of the UTF-16 its bytes stand for, whichever registers    *)
(* the allocator's path left intact; the stack is where it was.            *)
ArgumentsAreDecoded ==
  pc = "done" =>
    LET array == block[reg.rax]
    IN  /\ stack = <<>>
        /\ array.length = Len(array.refs)
        /\ array.length = IF argv = <<>> THEN 0 ELSE Len(argv) - 1
        /\ \A k \in 1 .. array.length :
             LET string == block[array.refs[k]]
             IN  string.tag /\ string.units = Text(argv[k + 1])
                 /\ string.length = Len(string.units)

(* encode_x64.rs:1099-1101: "a zero slot (JIT) or wild argc yields an      *)
(* empty/truncated array, never a fault": no element is stored past the    *)
(* array, no code unit past its string, no pointer read past argv.         *)
NeverAFault == ~wild

(* The two loops come to an end, for every argument vector.                *)
AlwaysReturns == <>(pc = "done")
=============================================================================
