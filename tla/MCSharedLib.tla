---------------------------- MODULE MCSharedLib -----------------------------
(***************************************************************************)
(* SharedLib for programs with up to three relocations in every order, of  *)
(* every kind src/x86/encode_x64.rs and the helpers of src/x86/runtime.rs  *)
(* leave, and for programs with exports, vtables and statics under every   *)
(* hash of their names.                                                    *)
(***************************************************************************)
EXTENDS SharedLib, SequencesExt

CONSTANTS add, sub, row, field, puts, exit, libc, libm

Lengths == [n \in {add, sub, row, field, puts, exit, libc, libm} |-> 5]
Address == [n \in {puts, exit} |-> IF n = puts THEN 900000 ELSE 900100]

Code(sym, n, reg) ==
  [kind |-> "Abs64", section |-> "Code", site |-> 0, sym |-> sym, n |-> n, reg |-> reg]
Word(fn, site) ==
  [kind |-> "Abs64", section |-> "Data", site |-> site, sym |-> "Fn", n |-> fn, reg |-> 0]
Call == [kind |-> "Rel32Call", section |-> "Code", site |-> 0, sym |-> "Fn", n |-> 1, reg |-> 0]

WriteStr == Code("String", 3, RSI)
StrAddr  == Code("String", 3, RCX)
VTable   == Code("VtableOff", 8, RCX)
Static   == Code("Static", 1, RCX)
FnAddr   == Code("Fn", 2, RCX)
ArgvSlot == Code("ArgvRsp", 0, RAX)
ExcBase  == Code("ExcState", 32, R8)
Import1  == Code("Import", 1, RAX)
Import2  == Code("Import", 2, RAX)
Linked3  == Code("Import", 3, RAX)
Alloc    == Code("HeapBase", 0, R10)

Imports ==
  << [hint |-> libc, entry |-> puts, so |-> TRUE, base |-> NoBase],
     [hint |-> libm, entry |-> exit, so |-> TRUE, base |-> NoBase],
     [hint |-> libc, entry |-> puts, so |-> FALSE, base |-> 24] >>

Program(relocs, exports, objects, types) ==
  [code |-> 64, data |-> 48, fn_bases |-> <<0, 40>>, static_offsets |-> <<24>>,
   argv |-> 40, relocs |-> relocs, imports |-> Imports, exports |-> exports,
   objects |-> objects, init |-> types = NoTable, types |-> types]

Relocs == {WriteStr, StrAddr, VTable, Static, FnAddr, ArgvSlot, ExcBase, Import1, Import2,
           Linked3, Alloc, Call, Word(1, 8), Word(2, 16)}

(* Two words of a vtable lie apart: a program relocates each once.         *)
WellFormed(r) == \A i, j \in DOMAIN r :
  r[i].section = "Data" /\ r[i] = r[j] => i = j

Relocated == {Program(r, <<>>, <<>>, 11) : r \in {q \in BoundedSeq(Relocs, 3) : WellFormed(q)}}

Export(name, fn, arity, receiver) ==
  [name |-> name, fn |-> fn, arity |-> arity, receiver |-> receiver, qualified |-> FALSE]
Object(name, off) == [name |-> name, off |-> off]

Exported ==
  {Program(<<Import1>>, e, <<Object(row, 8), Object(field, 24)>>, NoTable) :
     e \in {<<>>,
            <<Export(add, 1, 0, TRUE), Export(sub, 2, 3, TRUE)>>,
            <<Export(add, 1, 5, TRUE), Export(sub, 2, 2, FALSE)>>,
            <<Export(add, 1, 6, FALSE), [Export(sub, 2, 2, TRUE) EXCEPT !.qualified = TRUE]>>,
            <<Export(add, 1, 1, TRUE), Export(add, 2, 2, TRUE)>>}}

AsWritten == Relocated \cup Exported
(* The programs whose windows do not get their address.                    *)
With(r)    == {Program(<<r>>, <<>>, <<>>, NoTable)}
Allocates  == With(Alloc)
TakesStr   == With(StrAddr)
TakesFn    == With(FnAddr)
BuildsArgv == With(ArgvSlot)
Residues  == 0 .. 2
=============================================================================
