------------------------------ MODULE MCImage ------------------------------
(***************************************************************************)
(* Image with pages of 64 bytes and helpers just long enough to hold their *)
(* operand.  The programs have two functions; the first has two blocks.    *)
(* Two of their instructions are any there are, so that every pair of      *)
(* helpers, and every helper with every kind of data, occurs.              *)
(***************************************************************************)
EXTENDS Image

SomeSizes == [h \in Helpers |-> CASE h = "Alloc" -> 15 [] h = "Release" -> 31
                                 [] h \in ToSet(ExcHelpers) -> 11 [] OTHER -> 3]

Item(o, n) == [op |-> o, n |-> n]

HelperItems == { Item(o, 0) : o \in DOMAIN HelperOf }
SomeItems == HelperItems \cup
  { Item("Call", 2), Item("FnAddr", 1), Item("FnAddr", 2), Item("LoadStrAddr", 2),
    Item("VTableAddr", 2), Item("LoadStaticAddr", 2), Item("BuildArgv", 0) }

(* The data: strings of five bytes; two rows, the first with a hole; two   *)
(* fields; with or without more bytes in front, which move them to another *)
(* page.                                                                   *)
Program(a, b, c, strings, exits) ==
  [strings |-> strings, vtables |-> << <<2, Hole>>, <<1>> >>, statics |-> 2,
   fns |-> << << <<a, Item("JumpIf", 2), Item("Jump", 1)>>, <<b, Item("Jump", 1)>> >>,
              << <<c, Item("Ret", 0)>> >> >>,
   heap |-> 70, exits |-> exits]

SomePrograms ==
  { Program(a, b, c, 5, FALSE) : a \in SomeItems, b \in SomeItems,
                               c \in {Item("FnAddr", 1), Item("Rethrow", 0), Item("Release", 0)} }
  \cup { Program(a, b, Item("Ret", 0), n, TRUE) :
            a \in {Item("WriteInt", 0), Item("FnAddr", 2)},
            b \in {Item("BuildArgv", 0), Item("Alloc", 0)}, n \in 3 .. 68 }
OneProgram == { Program(Item("WriteInt", 0), Item("Alloc", 0), Item("Ret", 0), 5, FALSE) }

(* What NamesTheorem asks of programs and helpers holds of these.          *)
ASSUME EveryNameAssumption == NamesExist /\ OperandsFit

AllModes == {"elf", "preamble", "jit"}
JitOnly  == {"jit"}
ElfOnly  == {"elf"}
MapMayFail      == {"mmap"}
EitherMayFail   == {"mmap", "mprotect"}
=============================================================================
