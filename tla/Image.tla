------------------------------- MODULE Image --------------------------------
(***************************************************************************)
(* From a program to memory it runs in: Backend::lower lays out code, data *)
(* and relocations (src/x86/encode_x64.rs), then either the ELF writer     *)
(* (src/x86/elf.rs) makes an image that the kernel loads, or the JIT       *)
(* (src/lib.rs, src/x86/memory.rs) maps, relocates, protects and calls.    *)
(*                                                                         *)
(* Code and data are sequences of cells, a cell for a byte: what the byte  *)
(* is part of, which one of these, which byte of it, and, once it has been *)
(* patched, the value and which byte of the value.  An operand that        *)
(* relocation fills in is a window of such cells.  Of an instruction only  *)
(* the windows and the opcode before each are modelled, and the opcode     *)
(* says what the IR names there, so that what the operand reaches can be   *)
(* compared with it.                                                       *)
(***************************************************************************)
EXTENDS Integers, Sequences, SequencesExt

CONSTANTS
  Page,     (* The size of a page.                                         *)
  BaseVaddr,(* Where an image is loaded.                                   *)
  Mapped,   (* Where the kernel maps the JIT's pages.                      *)
  Size,     (* helper -> its bytes                                         *)
  ExcSize,  (* The bytes of the handler state.                             *)
  Programs, (* [strings, vtables, statics, fns, heap, exits]: the bytes of *)
            (* the strings, the rows of function numbers, how many fields, *)
            (* the functions as sequences of blocks of items [op, n], the  *)
            (* bytes of the heap, and whether it ends in exit_group.       *)
  Modes,    (* "elf", "preamble" (an image that begins with one) or "jit". *)
  MayFail   (* The system calls that may fail.                             *)

Helpers == {"Itoa", "ItoaErr", "ScanInt", "Retain", "Release", "Alloc",
            "ExcEnter", "ExcPop", "ExcLoad", "ExcClear", "ExcThrow", "ExcRethrow"}
Items   == {"WriteInt", "EWriteInt", "ScanInt", "Retain", "Release", "Alloc", "AllocDyn",
            "TaskAlloc", "HandlerEnter", "HandlerPop", "LoadExc", "ClearInflight", "Unwind",
            "Rethrow", "Call", "CallStatic", "FnAddr", "WriteStr", "EWriteStr", "LoadStrAddr",
            "VTableAddr", "LoadStaticAddr", "BuildArgv", "Jump", "JumpIf", "Ret", "Exit"}
Hole == 0   (* An abstract method in a vtable row; functions are 1, 2...  *)

(* What the front end gives: indices name what there is.                   *)
IsProgram(p) ==
  /\ p.strings \in Nat /\ p.statics \in Nat /\ p.heap \in Nat /\ p.exits \in BOOLEAN
  /\ p.fns \in Seq(Seq(Seq([op : Items, n : Nat])))
  /\ p.vtables \in Seq(Seq({Hole} \cup DOMAIN p.fns))
  /\ \A j \in DOMAIN p.fns : \A b \in DOMAIN p.fns[j] : \A k \in DOMAIN p.fns[j][b] :
       LET item == p.fns[j][b][k]
       IN  /\ item.op \in {"Call", "CallStatic", "FnAddr"} => item.n \in DOMAIN p.fns
           /\ item.op \in {"Jump", "JumpIf"} => item.n \in DOMAIN p.fns[j]
           /\ item.op = "VTableAddr"     => item.n # 0 /\ p.vtables # <<>>
           /\ item.op = "LoadStaticAddr" => item.n # 0 /\ p.statics # 0

ASSUME PageAssumption == /\ Page \in Nat \ {0} /\ BaseVaddr \in Nat /\ Mapped \in Nat
                         /\ BaseVaddr % Page = 0 /\ Mapped % Page = 0
ASSUME SizeAssumption == Size \in [Helpers -> Nat \ {0}] /\ ExcSize \in Nat \ {0}
ASSUME ModesAssumption == Modes \subseteq {"elf", "preamble", "jit"}
ASSUME ProgramsAssumption == \A p \in Programs : IsProgram(p)

VARIABLES
  prog, mode,
  phase,    (* What is done next.                                          *)
  emit,     (* The emitter: [code, data, relocs, calls, jumps].            *)
  starts,   (* Where each function begins.                                 *)
  places,   (* [vtables, statics, argv, exc]: offsets into the data.       *)
  helperAt, (* helper -> its offset in the code, or None                   *)
  uses,     (* The helpers, "argv" and "exc" the program needs.            *)
  image,    (* [segments, code, data, sections] of the ELF image, or       *)
            (* nothing.                                                    *)
  mem,      (* address -> cell, of what is mapped and has contents         *)
  prot,     (* page -> rights, of what is mapped                           *)
  status    (* What rbxt_run returned: "none", "error" or "program".       *)

lowering == <<emit, starts, places, helperAt, uses>>
running  == <<mem, prot, status>>
vars     == <<prog, mode, phase, lowering, image, running>>

None    == -1
Nothing == <<>>
AlignUp(v, a) == ((v + a - 1) \div a) * a

Init ==
  /\ prog \in Programs /\ mode \in Modes
  /\ phase = "data"
  /\ emit = [code |-> <<>>, data |-> <<>>, relocs |-> <<>>, calls |-> <<>>,
             jumps |-> <<>>]
  /\ starts = <<>>
  /\ places = [vtables |-> <<>>, statics |-> <<>>, argv |-> None, exc |-> None]
  /\ helperAt = [h \in Helpers |-> None]
  /\ uses = {}
  /\ image = Nothing
  /\ mem = <<>> /\ prot = <<>> /\ status = "none"

-----------------------------------------------------------------------------
(* Lowering: data, known before the code that names it.                    *)

Sym(of, n) == [of |-> of, n |-> n]
NoName     == Sym("none", 0)

Cell(what, k, j)  == [what |-> what, of |-> k, byte |-> j, means |-> NoName,
                      value |-> None, part |-> None]
Cells(n, what, k) == [j \in 1 .. n |-> Cell(what, k, j - 1)]

(* The offsets of pieces of the given sizes, one after the other.          *)
Offsets(from, sizes) ==
  LET at[k \in 0 .. Len(sizes)] == IF k = 0 THEN from ELSE at[k - 1] + sizes[k]
  IN  [k \in 1 .. Len(sizes) |-> at[k - 1]]

Ops(p) == UNION { { item.op : item \in ToSet(block) } :
                  block \in UNION { ToSet(f) : f \in ToSet(p.fns) } }

ExcOps == {"HandlerEnter", "HandlerPop", "LoadExc", "ClearInflight", "Unwind", "Rethrow"}

LayOutData ==
  /\ phase = "data"
  /\ LET rowSizes == [r \in DOMAIN prog.vtables |-> 8 * Len(prog.vtables[r])]
         words    == FlattenSeq([r \in DOMAIN rowSizes |-> Cells(rowSizes[r], "vtable", r)])
         fields   == FlattenSeq([s \in 1 .. prog.statics |-> Cells(8, "static", s)])
     IN  /\ emit' = [emit EXCEPT !.data = Cells(prog.strings, "string", 0) \o words \o fields]
         /\ places' = [places EXCEPT
              !.vtables = Offsets(prog.strings, rowSizes),
              !.statics = Offsets(prog.strings + Len(words), [s \in 1 .. prog.statics |-> 8])]
  /\ uses' = (IF Ops(prog) \cap ExcOps # {} THEN {"exc"} ELSE {})
             \cup (IF "BuildArgv" \in Ops(prog) THEN {"argv"} ELSE {})
  /\ phase' = "functions"
  /\ UNCHANGED <<prog, mode, starts, helperAt, image, running>>

-----------------------------------------------------------------------------
(* Lowering: functions.                                                    *)

(* A window: its width, what the IR names, what its relocation names.      *)
Abs64(of, n, sym) == [width |-> 8, means |-> Sym(of, n), sym |-> sym]
Call(of, n)       == [width |-> 4, means |-> Sym(of, n), sym |-> Sym(of, n)]

HelperOf ==
  [WriteInt |-> "Itoa", EWriteInt |-> "ItoaErr", ScanInt |-> "ScanInt",
   Retain |-> "Retain", Release |-> "Release",
   Alloc |-> "Alloc", AllocDyn |-> "Alloc", TaskAlloc |-> "Alloc",
   HandlerEnter |-> "ExcEnter", HandlerPop |-> "ExcPop", LoadExc |-> "ExcLoad",
   ClearInflight |-> "ExcClear", Unwind |-> "ExcThrow", Rethrow |-> "ExcRethrow"]

(* The helper an instruction's arm marks as used, by hand and apart from   *)
(* the call the arm emits.                                                 *)
FlagOfMut ==
  [WriteInt |-> "Itoa", EWriteInt |-> "ItoaErr", ScanInt |-> "ScanInt",
   Retain |-> "Retain", Release |-> "Release", Alloc |-> "Alloc",
   AllocDyn |-> "Alloc", BuildArgv |-> "Alloc"]

FlagOf ==
  [WriteInt |-> "Itoa", EWriteInt |-> "ItoaErr", ScanInt |-> "ScanInt",
   Retain |-> "Retain", Release |-> "Release", Alloc |-> "Alloc",
   AllocDyn |-> "Alloc", TaskAlloc |-> "Alloc", BuildArgv |-> "Alloc"]

FlagsOf(body) ==
  UNION { { FlagOf[item.op] : item \in { i \in ToSet(block) : i.op \in DOMAIN FlagOf } } :
          block \in ToSet(body) }

(* An index past the end names the last.                                   *)
Clamp(n, seq) == IF n <= Len(seq) THEN n ELSE Len(seq)

Windows(item, j) ==
  CASE item.op \in DOMAIN HelperOf -> <<Call(HelperOf[item.op], 0)>>
    [] item.op \in {"Call", "CallStatic"} -> <<Call("Fn", item.n)>>
    [] item.op = "FnAddr"          -> <<Abs64("Fn", item.n, Sym("Fn", item.n))>>
    [] item.op \in {"WriteStr", "EWriteStr", "LoadStrAddr"} ->
         <<Abs64("String", item.n, Sym("String", item.n))>>
    [] item.op = "VTableAddr" ->
         <<Abs64("Vtable", item.n,
                 Sym("VtableOff", places.vtables[Clamp(item.n, places.vtables)]))>>
    [] item.op = "LoadStaticAddr" ->
         <<Abs64("Static", item.n, Sym("Static", Clamp(item.n, places.statics)))>>
    [] item.op = "BuildArgv" -> <<Abs64("ArgvRsp", 0, Sym("ArgvRsp", 0)), Call("Alloc", 0),
                                  Call("Alloc", 0)>>
    [] item.op \in {"Jump", "JumpIf"} ->
         <<[width |-> 4, means |-> [of |-> "Block", n |-> item.n, fn |-> j],
            sym |-> Sym("Block", item.n)]>>
    [] item.op \in {"Ret", "Exit"} -> <<>>

(* abs64_window, call_rel32, or a jump, which is patched with its function.*)
EmitWindow(e, w) ==
  LET opcode == [k \in 1 .. IF w.width = 8 THEN 2 ELSE 1 |->
                [Cell("op", w.width, 0) EXCEPT !.means = w.means]]
      site   == Len(e.code) + Len(opcode)
      code   == e.code \o opcode \o Cells(w.width, "window", 0)
  IN  IF w.width = 8
      THEN [e EXCEPT !.code = code, !.relocs = Append(@, [kind |-> "Abs64", section |-> "code",
                                                          site |-> site, sym |-> w.sym])]
      ELSE IF w.sym.of = "Block"
      THEN [e EXCEPT !.code = code, !.jumps = Append(@, [site |-> site, block |-> w.sym.n])]
      ELSE [e EXCEPT !.code = code, !.calls = Append(@, [site |-> site, sym |-> w.sym])]

EmitAll(e, windows) ==
  LET done[n \in 0 .. Len(windows)] ==
        IF n = 0 THEN e ELSE EmitWindow(done[n - 1], windows[n])
  IN  done[Len(windows)]

(* Block b of function j.                                                  *)
EmitBlock(e, items, b, j) ==
  EmitAll([e EXCEPT !.code = Append(@, Cell("Block", b, j))],
          FlattenSeq([k \in DOMAIN items |-> Windows(items[k], j)]))

(* The emitter after so many blocks of function j.                         *)
AfterBlocks(e, j) ==
  LET after[b \in 0 .. Len(prog.fns[j])] ==
        IF b = 0 THEN e ELSE EmitBlock(after[b - 1], prog.fns[j][b], b, j)
  IN  after

(* Values of so many bytes at offsets of a sequence of cells: where they   *)
(* overlap, the last.                                                      *)
Patched(cells, spans, values) ==
  [i \in DOMAIN cells |->
     LET over == {k \in DOMAIN spans : i - spans[k].site \in 1 .. spans[k].width}
         last == Max(over)
     IN  IF over = {} THEN cells[i]
         ELSE [cells[i] EXCEPT !.value = values[last], !.part = i - spans[last].site - 1]]

PatchJumps(e, blockStarts) ==
  LET spans  == [k \in DOMAIN e.jumps |-> [site |-> e.jumps[k].site, width |-> 4]]
      values == [k \in DOMAIN e.jumps |->
                  blockStarts[e.jumps[k].block] - (e.jumps[k].site + 4)]
  IN  [e EXCEPT !.code = Patched(@, spans, values), !.jumps = <<>>]

(* The stub of @start comes first in the first function.                   *)
EmitFunction ==
  /\ phase = "functions" /\ Len(starts) < Len(prog.fns)
  /\ LET j      == Len(starts) + 1
         body   == prog.fns[j]
         marked == [emit EXCEPT !.code = Append(@, Cell("Fn", j, 0))]
         opened == IF j = 1 /\ "argv" \in uses
                   THEN EmitWindow(marked, Abs64("ArgvRsp", 0, Sym("ArgvRsp", 0))) ELSE marked
         after  == AfterBlocks(opened, j)
         blockStarts == [b \in DOMAIN body |-> Len(after[b - 1].code)]
     IN  /\ emit' = PatchJumps(after[Len(body)], blockStarts)
         /\ starts' = Append(starts, Len(emit.code))
         /\ uses' = uses \cup FlagsOf(body)
  /\ UNCHANGED <<prog, mode, phase, places, helperAt, image, running>>

-----------------------------------------------------------------------------
(* Lowering: helpers, appended only when used, and relocations.            *)

PlainHelpers == <<"Itoa", "ItoaErr", "ScanInt", "Retain", "Release", "Alloc">>
ExcHelpers   == <<"ExcEnter", "ExcPop", "ExcLoad", "ExcClear", "ExcThrow", "ExcRethrow">>

(* The window each helper has, none or one.                                *)
AllocWindow   == 6
ReleaseWindow == 22
ExcWindow     == 2

Appended ==
  FlattenSeq([k \in DOMAIN PlainHelpers |->
    IF PlainHelpers[k] \in uses THEN <<PlainHelpers[k]>> ELSE <<>>])
  \o (IF "exc" \in uses THEN ExcHelpers ELSE <<>>)

AppendHelpers ==
  /\ phase = "functions" /\ Len(starts) = Len(prog.fns)
  /\ LET at   == Offsets(Len(emit.code), [k \in DOMAIN Appended |-> Size[Appended[k]]])
         argv == IF "argv" \in uses THEN Cells(8, "argv", 0) ELSE <<>>
         exc  == IF "exc" \in uses THEN Cells(ExcSize, "exc", 0) ELSE <<>>
     IN  /\ helperAt' = [h \in Helpers |->
                          IF h \in ToSet(Appended) THEN at[CHOOSE k \in DOMAIN at : Appended[k] = h]
                          ELSE None]
         /\ emit' = [emit EXCEPT
              !.code = @ \o FlattenSeq([k \in DOMAIN at |-> Cells(Size[Appended[k]], Appended[k], 0)]),
              !.data = @ \o argv \o exc]
         /\ places' = [places EXCEPT
              !.argv = IF argv # <<>> THEN Len(emit.data) ELSE None,
              !.exc  = IF exc # <<>> THEN Len(emit.data) + Len(argv) ELSE None]
  /\ phase' = "relocs"
  /\ UNCHANGED <<prog, mode, starts, uses, image, running>>

CallRelocs ==
  [k \in DOMAIN emit.calls |-> [kind |-> "Rel32Call", section |-> "code",
                                site |-> emit.calls[k].site, sym |-> emit.calls[k].sym]]

(* Holes of a vtable stay as they are.                                     *)
VtableRelocs ==
  LET word(r, s) == [kind |-> "Abs64", section |-> "data",
                     site |-> places.vtables[r] + 8 * (s - 1), sym |-> Sym("Fn", prog.vtables[r][s])]
      row(r) == FlattenSeq([s \in DOMAIN prog.vtables[r] |->
                  IF prog.vtables[r][s] = Hole THEN <<>> ELSE <<word(r, s)>>])
  IN  FlattenSeq([r \in DOMAIN prog.vtables |-> row(r)])

HelperRelocs ==
  LET window(h, offset, sym) ==
        IF helperAt[h] = None THEN <<>>
        ELSE <<[kind |-> "Abs64", section |-> "code", site |-> helperAt[h] + offset, sym |-> sym]>>
  IN  window("Alloc", AllocWindow, Sym("HeapBase", 0))
      \o window("Release", ReleaseWindow, Sym("HeapBase", 0))
      \o FlattenSeq([k \in DOMAIN ExcHelpers |->
           window(ExcHelpers[k], ExcWindow, Sym("ExcState", places.exc))])

CollectRelocs ==
  /\ phase = "relocs"
  /\ emit' = [emit EXCEPT !.relocs = @ \o CallRelocs \o VtableRelocs \o HelperRelocs, !.calls = <<>>]
  /\ phase' = IF mode = "jit" THEN "map" ELSE "write"
  /\ UNCHANGED <<prog, mode, starts, places, helperAt, uses, image, running>>

-----------------------------------------------------------------------------
(* Relocation, by the ELF writer and by the JIT.  A helper or a slot that  *)
(* is missing counts as one at 0.                                          *)

OrZero(x) == IF x = None THEN 0 ELSE x

Target(sym, code, data, heap) ==
  CASE sym.of = "Fn"        -> code + starts[sym.n]
    [] sym.of \in {"String", "VtableOff", "ExcState"} -> data + sym.n
    [] sym.of = "Static"    -> data + places.statics[sym.n]
    [] sym.of = "ArgvRsp"   -> data + OrZero(places.argv)
    [] sym.of = "HeapBase"  -> heap
    [] sym.of \in Helpers   -> code + OrZero(helperAt[sym.of])

(* The bytes with the relocations of one section applied; a relative one   *)
(* in data does nothing.                                                   *)
Applied(cells, section, code, data, heap) ==
  LET spans == [k \in DOMAIN emit.relocs |->
        LET r == emit.relocs[k]
        IN  [site |-> r.site, width |-> IF r.section # section THEN 0
                                       ELSE IF r.kind = "Abs64" THEN 8
                                       ELSE IF section = "code" THEN 4 ELSE 0]]
      values == [k \in DOMAIN emit.relocs |->
        LET r      == emit.relocs[k]
            target == Target(r.sym, code, data, heap)
        IN  IF r.kind = "Abs64" THEN target ELSE target - (code + r.site + 4)]
  IN  Patched(cells, spans, values)

-----------------------------------------------------------------------------
(* The ELF writer.                                                         *)

HeaderLen   == 64 + 3 * 56
PreambleLen == 10
TableEntry  == 24

Preamble   == IF mode = "preamble" THEN PreambleLen ELSE 0
RxLen      == HeaderLen + Preamble + Len(emit.code)
CodeVaddr  == BaseVaddr + HeaderLen
BlobVaddr  == CodeVaddr + Preamble
DataVaddrMut == AlignUp(BaseVaddr + RxLen, 8)
DataVaddr  == AlignUp(BaseVaddr + RxLen, Page)
HeapVaddr  == AlignUp(DataVaddr + Len(emit.data), Page)
DataOffset == AlignUp(RxLen, Page)
HeapLen    == AlignUp(prog.heap, Page)

Segment(rights, offset, vaddr, filesz, memsz) ==
  [rights |-> rights, offset |-> offset, vaddr |-> vaddr, filesz |-> filesz, memsz |-> memsz]

(* The symbols: null, _start, one for each function, the heap's base.      *)
SymtabOffset == AlignUp(DataOffset + Len(emit.data), 8)
SymtabLen    == TableEntry * (Len(starts) + 3)

(* A section header as write_sh fills it in, by position.                  *)
SectionHeader(name, type, flags, addr, offset, size) ==
  [name |-> name, type |-> type, flags |-> flags, addr |-> addr, offset |-> offset, size |-> size]

Segments == << Segment({"r", "x"}, 0, BaseVaddr, RxLen, RxLen),
               Segment({"r", "w"}, DataOffset, DataVaddr, Len(emit.data), Len(emit.data)),
               Segment({"r", "w"}, DataOffset, HeapVaddr, 0, HeapLen) >>

WriteImage ==
  /\ phase = "write"
  /\ image' =
       [code |-> Applied(emit.code, "code", BlobVaddr, DataVaddr, HeapVaddr),
        data |-> Applied(emit.data, "data", BlobVaddr, DataVaddr, HeapVaddr),
        segments |-> Segments,
        sections |-> << SectionHeader(1, 1, CodeVaddr, HeaderLen, RxLen - HeaderLen, 6),
                        SectionHeader(6, 1, DataVaddr, DataOffset, Len(emit.data), 6),
                        SectionHeader(11, 8, HeapVaddr, 0, HeapLen, 6),
                        SectionHeader(15, 2, 0, SymtabOffset, SymtabLen, 5) >>]
  /\ phase' = "load"
  /\ UNCHANGED <<prog, mode, lowering, running>>

Zero == Cell("zero", 0, 0)

(* A byte of the file: headers, the preamble that jumps over itself, code, *)
(* data; what lies between is zero.                                        *)
FileCell(o) ==
  LET code == HeaderLen + Preamble
  IN  CASE o < HeaderLen -> Cell("header", 0, o)
        [] o \in HeaderLen .. code - 1 -> Cell("preamble", 0, o - HeaderLen)
        [] o \in code .. RxLen - 1 -> image.code[o - code + 1]
        [] o \in DataOffset .. DataOffset + Len(image.data) - 1 -> image.data[o - DataOffset + 1]
        [] OTHER -> Zero

PagesOf(addr, len) == IF len = 0 THEN {} ELSE (addr \div Page) .. ((addr + len - 1) \div Page)

(* The kernel maps each segment, by pages.                                 *)
Load ==
  /\ phase = "load"
  /\ LET loads == {s \in ToSet(image.segments) : s.memsz > 0}
         holds(s, a) == a \in s.vaddr .. s.vaddr + s.memsz - 1
         cell(s, a)  == IF a - s.vaddr < s.filesz THEN FileCell(s.offset + a - s.vaddr)
                        ELSE Cell("heap", 0, a - s.vaddr)
     IN  /\ mem' = [a \in UNION { s.vaddr .. s.vaddr + s.memsz - 1 : s \in loads } |->
                     LET s == CHOOSE s \in loads : holds(s, a) IN cell(s, a)]
         /\ prot' = [p \in UNION { PagesOf(s.vaddr, s.memsz) : s \in loads } |->
                      UNION { s.rights : s \in {t \in loads : p \in PagesOf(t.vaddr, t.memsz)} }]
  /\ phase' = "run"
  /\ UNCHANGED <<prog, mode, lowering, image, status>>

-----------------------------------------------------------------------------
(* The JIT: rbxt_run, run_machine_code and the system calls of memory.rs.  *)

CodeR == AlignUp(Len(emit.code), Page)
DataR == AlignUp(Len(emit.data), Page)
Total == CodeR + DataR + HeapLen

JitData == Mapped + CodeR
JitHeap == Mapped + CodeR + DataR

(* PROT_WRITE alone, which on this processor makes a page readable too.    *)
MapRights  == {"r", "w"}
CodeRights == {"r", "x"}

(* Any error is status 1.                                                  *)
Fail(call) ==
  /\ call \in MayFail
  /\ status' = "error" /\ phase' = "returned"
  /\ UNCHANGED <<mem, prot>>

Map ==
  /\ phase = "map"
  /\ \/ Fail("mmap")
     \/ /\ prot' = [p \in PagesOf(Mapped, Total) |-> MapRights]
        /\ phase' = "fill"
        /\ UNCHANGED <<mem, status>>
  /\ UNCHANGED <<prog, mode, lowering, image>>

(* Code and data are relocated and copied to their pages; the rest of the  *)
(* pages is zero.  (What the heap's two words start as, Heap.tla has.)     *)
Fill ==
  /\ phase = "fill"
  /\ LET code == Applied(emit.code, "code", Mapped, JitData, JitHeap)
         data == Applied(emit.data, "data", Mapped, JitData, JitHeap)
     IN  mem' = [a \in Mapped .. Mapped + Total - 1 |->
                  CASE a - Mapped < Len(emit.code) -> code[a - Mapped + 1]
                    [] a \in JitData .. JitData + Len(emit.data) - 1 -> data[a - JitData + 1]
                    [] a >= JitHeap -> Cell("heap", 0, a - JitHeap)
                    [] OTHER -> Zero]
  /\ phase' = "protect"
  /\ UNCHANGED <<prog, mode, lowering, image, prot, status>>

Protected == PagesOf(Mapped, CodeR)

Protect ==
  /\ phase = "protect"
  /\ \/ Fail("mprotect")
     \/ /\ prot' = [p \in DOMAIN prot |-> IF p \in Protected THEN CodeRights ELSE prot[p]]
        /\ phase' = "run"
        /\ UNCHANGED <<mem, status>>
  /\ UNCHANGED <<prog, mode, lowering, image>>

(* The program ends in exit_group, which ends the JIT's process with it,   *)
(* or returns.                                                             *)
Run ==
  /\ phase = "run"
  /\ phase' = IF mode = "jit" /\ ~prog.exits THEN "unmap" ELSE "exited"
  /\ UNCHANGED <<prog, mode, lowering, image, running>>

UnmappedMut == PagesOf(Mapped, CodeR + DataR)
Unmapped    == PagesOf(Mapped, Total)

Unmap ==
  /\ phase = "unmap"
  /\ prot' = [p \in DOMAIN prot \ Unmapped |-> prot[p]]
  /\ mem' = [a \in {b \in DOMAIN mem : b \div Page \notin Unmapped} |-> mem[a]]
  /\ status' = "program"
  /\ phase' = "returned"
  /\ UNCHANGED <<prog, mode, lowering, image>>

Next ==
  \/ LayOutData \/ EmitFunction \/ AppendHelpers \/ CollectRelocs
  \/ WriteImage \/ Load
  \/ Map \/ Fill \/ Protect \/ Run \/ Unmap

Spec == Init /\ [][Next]_vars

-----------------------------------------------------------------------------
(* Properties.                                                             *)

What(a) == IF a \in DOMAIN mem THEN <<mem[a].what, mem[a].of, mem[a].byte>>
           ELSE <<"unmapped", 0, 0>>

(* The first byte of what a symbol names.                                  *)
Named(sym) ==
  CASE sym.of \in {"Fn", "Vtable", "Static"} -> <<[Fn |-> "Fn", Vtable |-> "vtable",
                                                  Static |-> "static"][sym.of], sym.n, 0>>
    [] sym.of = "Block"    -> <<"Block", sym.n, sym.fn>>
    [] sym.of = "String"   -> <<"string", 0, sym.n>>
    [] sym.of = "ArgvRsp"  -> <<"argv", 0, 0>>
    [] sym.of = "ExcState" -> <<"exc", 0, 0>>
    [] sym.of = "HeapBase" -> <<"heap", 0, 0>>
    [] sym.of \in Helpers  -> <<sym.of, 0, 0>>

(* The window at an address holds one value, and what it reaches, as an    *)
(* address or from the byte after it, is what the symbol names.            *)
Reaches(a, width, sym) ==
  LET value == mem[a].value
  IN  /\ \A k \in 0 .. width - 1 : a + k \in DOMAIN mem /\ mem[a + k].value = value
                                   /\ mem[a + k].part = k
      /\ What(IF width = 8 THEN value ELSE a + width + value) = Named(sym)

(* The movabs in a helper ends at this byte of it.                         *)
Movabs == [h \in Helpers |-> CASE h = "Alloc" -> 5 [] h = "Release" -> 21
                              [] h \in ToSet(ExcHelpers) -> 1 [] OTHER -> None]

(* Whatever the program uses and wherever its parts are put, each call,    *)
(* jump and address in the running code, each vtable word and each operand *)
(* of a helper reaches the first byte of exactly what the IR names; holes  *)
(* are left alone; and execution begins at the first function.             *)
EveryNameIsReached ==
  phase = "run" =>
    /\ \A a \in DOMAIN mem :
         LET c == mem[a]
         IN  /\ c.what = "op" /\ What(a + 1)[1] # "op" => Reaches(a + 1, c.of, c.means)
             /\ c.what \in Helpers /\ c.byte = Movabs[c.what] =>
                  Reaches(a + 1, 8, Sym(IF c.what \in {"Alloc", "Release"} THEN "HeapBase"
                                        ELSE "ExcState", 0))
             /\ c.what = "vtable" /\ c.byte % 8 = 0 =>
                  LET f == prog.vtables[c.of][c.byte \div 8 + 1]
                  IN  IF f = Hole THEN c.part = None ELSE Reaches(a, 8, Sym("Fn", f))
    /\ What(CASE mode = "elf" -> CodeVaddr
              [] mode = "preamble" -> CodeVaddr + PreambleLen
              [] mode = "jit" -> Mapped) = <<"Fn", 1, 0>>

CodeKinds == {"op", "window", "Fn", "Block"} \cup Helpers
DataKinds == {"string", "vtable", "static", "argv", "exc"}

(* memory.rs:3-5: "The JIT maps pages writable, fills them, then flips     *)
(* them to read+execute; W and X never coexist".  So in an image, too; and *)
(* when the program runs, all of its code is executable and all of its     *)
(* data and heap writable, however the parts fall on the pages.            *)
RunsWithItsRights ==
  /\ \A p \in DOMAIN prot : ~({"w", "x"} \subseteq prot[p])
  /\ phase = "run" =>
       \A a \in DOMAIN mem :
         /\ mem[a].what \in CodeKinds => "x" \in prot[a \div Page]
         /\ mem[a].what \in DataKinds \cup {"heap"} => "w" \in prot[a \div Page]

(* When rbxt_run has returned, nothing it mapped is left.                  *)
NothingIsLeft == phase = "returned" => DOMAIN prot = {} /\ DOMAIN mem = {}

(* elf.rs:288-294: a section header gives the place and the length of its  *)
(* section in the file.                                                    *)
SectionsAreWhereTheySay ==
  image # Nothing =>
    /\ image.sections[1].offset = HeaderLen  /\ image.sections[1].size = RxLen - HeaderLen
    /\ image.sections[2].offset = DataOffset /\ image.sections[2].size = Len(emit.data)

-----------------------------------------------------------------------------
(* What makes these inductive.                                             *)

Means == [of : {"none", "Fn", "String", "Vtable", "Static", "ArgvRsp"} \cup Helpers, n : Int]
         \cup [of : {"Block"}, n : Int, fn : Int]
CellOf(kinds) ==
  [what : kinds, of : Int, byte : Int, means : Means, value : Int, part : Int]

Symbol == [of : {"Fn"}, n : DOMAIN prog.fns]
          \cup [of : {"Static"}, n : 1 .. prog.statics]
          \cup [of : {"String", "VtableOff", "ExcState", "ArgvRsp", "HeapBase"} \cup Helpers,
                n : Int]

Reloc == [kind : {"Abs64", "Rel32Call"}, section : {"code", "data"}, site : Int, sym : Symbol]

(* The emitter in a function of so many blocks.                            *)
Emitter(blocks) ==
  [code   : Seq(CellOf(CodeKinds)),
   data   : Seq(CellOf(DataKinds)),
   relocs : Seq(Reloc),
   calls  : Seq([site : Int, sym : Symbol]),
   jumps  : Seq([site : Int, block : 1 .. blocks])]

TypeOK ==
  /\ prog \in Programs /\ mode \in Modes
  /\ phase \in {"data", "functions", "relocs", "write", "load", "map", "fill", "protect", "run",
                "unmap", "exited", "returned"}
  /\ emit \in Emitter(0)
  /\ starts \in Seq(Int) /\ Len(starts) <= Len(prog.fns)
  /\ places \in [vtables : Seq(Int), statics : Seq(Int), argv : Int, exc : Int]
  /\ phase # "data" => /\ Len(places.vtables) = Len(prog.vtables)
                      /\ Len(places.statics) = prog.statics
  /\ phase \notin {"data", "functions"} => Len(starts) = Len(prog.fns)
  /\ helperAt \in [Helpers -> Int]

(* The image keeps the lengths of code and data, and what each byte is.    *)
ImageIsWritten ==
  /\ image.code \in Seq(CellOf(CodeKinds)) /\ Len(image.code) = Len(emit.code)
  /\ image.data \in Seq(CellOf(DataKinds)) /\ Len(image.data) = Len(emit.data)
  /\ image.segments = Segments

(* The JIT's memory once it is filled: code below the data, and the pages  *)
(* of code alone change their rights.                                      *)
MemoryIsFilled ==
  /\ DOMAIN mem = Mapped .. Mapped + Total - 1
  /\ \A a \in DOMAIN mem :
       /\ mem[a].what \in CodeKinds => a < JitData
       /\ mem[a].what \in DataKinds \cup {"heap"} => a >= JitData

MappedTo(rights, code) ==
  prot = [p \in PagesOf(Mapped, Total) |-> IF p \in Protected THEN code ELSE rights]

PagesInv ==
  /\ phase \in {"write", "load"} => mode # "jit"
  /\ phase \in {"map", "fill", "protect", "unmap"} => mode = "jit"
  /\ phase \in {"data", "functions", "relocs", "write", "load", "map"} => prot = <<>>
  /\ phase \in {"data", "functions", "relocs", "write", "load", "map", "fill"} => mem = <<>>
  /\ phase = "load" => ImageIsWritten
  /\ phase \in {"fill", "protect"} => MappedTo(MapRights, MapRights)
  /\ phase = "unmap" \/ (phase = "run" /\ mode = "jit") => MappedTo(MapRights, CodeRights)
  /\ phase \in {"protect", "unmap"} \/ (phase = "run" /\ mode = "jit") => MemoryIsFilled
  /\ RunsWithItsRights
  /\ "mprotect" \notin MayFail => NothingIsLeft

ImageInv == TypeOK /\ PagesInv

-----------------------------------------------------------------------------
(* What every name needs to be reached.                                    *)

(* What the front end names exists: a string's byte, a row with a method,  *)
(* a field; and where anything allocates, a heap.                          *)
HeapItems == {"Alloc", "AllocDyn", "TaskAlloc", "BuildArgv", "Release"}

Exists(p) ==
  /\ p.fns # <<>>
  /\ \A j \in DOMAIN p.fns : \A b \in DOMAIN p.fns[j] : \A k \in DOMAIN p.fns[j][b] :
       LET item == p.fns[j][b][k]
       IN  /\ item.op \in {"WriteStr", "EWriteStr", "LoadStrAddr"} => item.n < p.strings
           /\ item.op = "VTableAddr" => /\ item.n <= Len(p.vtables)
                                       /\ p.vtables[item.n] # <<>>
           /\ item.op = "LoadStaticAddr" => item.n <= p.statics
           /\ item.op \in HeapItems => p.heap > 0

NamesExist == \A p \in Programs : Exists(p)

(* A helper is long enough for its operand.                                *)
Operand(h) == CASE h = "Alloc" -> AllocWindow [] h = "Release" -> ReleaseWindow
                [] OTHER -> ExcWindow
Patchable  == {"Alloc", "Release"} \cup ToSet(ExcHelpers)
OperandsFit == \A h \in Patchable : Operand(h) + 8 <= Size[h]
=============================================================================
