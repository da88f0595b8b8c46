----------------------------- MODULE SharedLib ------------------------------
(***************************************************************************)
(* write_shared_library of src/x86/shlib.rs: the layout of the image, the  *)
(* pass that turns every absolute address in code into a load from a GOT   *)
(* slot, the relocation records, the symbol hash table and the entry       *)
(* trampolines; then what becomes of the image: the dynamic loader applies *)
(* the records, dlsym walks the hash table, a C host calls an export.      *)
(*                                                                         *)
(* `mc` is a MachineCode.  Code and data are their lengths.  A relocation  *)
(* of code says which register its window (the movabs the emitter left)    *)
(* loads.  Addresses are the image's numbers.                              *)
(***************************************************************************)
EXTENDS Integers, Sequences, FiniteSets

CONSTANTS
  MachineCodes,  (* The programs to write.                                 *)
  NameLen,       (* name -> its length.                                    *)
  HashValues,    (* What elf_hash may return.                              *)
  Base,          (* Where the loader maps the image.                       *)
  Provided       (* entry -> its address in a dependency.                  *)

VARIABLES
  mc, hash,      (* The program, and elf_hash.  Never change.              *)
  pc, k,         (* The loop being run, and its index.                     *)
  slot,          (* got_slot.                                              *)
  window,        (* relocation -> the load at its site: register and slot, *)
                 (* NoSlot while it is still a movabs.                     *)
  mem,           (* address -> word, of the GOT and the data relocated.    *)
  rela,          (* The relocation records.                                *)
  bucket, chain, (* The hash table.                                        *)
  entry, regs    (* The export a host calls and its argument registers.    *)

image == <<slot, window, rela, bucket, chain>>
vars  == <<mc, hash, pc, k, image, mem, entry, regs>>

NoTable == -1    (* mc.types, when no type table is embedded.              *)
NoBase  == -1    (* base of an import that was not linked.                 *)
NoSlot  == -1
NoValue == -1

PAGE == 4096
Align(v, a) == ((v + a - 1) \div a) * a

(* The sum of a sequence of lengths.                                       *)
Sum(s) ==
  LET upTo[n \in 0 .. Len(s)] == IF n = 0 THEN 0 ELSE upTo[n - 1] + s[n]
  IN  upTo[Len(s)]

-----------------------------------------------------------------------------
(* The programs.                                                           *)

(* Any helper, which only calls name, is one symbol.                       *)
Syms == {"String", "VtableOff", "ExcState", "Static", "HeapBase", "Import", "Fn", "ArgvRsp",
         "Helper"}

Reloc == [kind : {"Abs64", "Rel32Call"}, section : {"Code", "Data"}, site : Nat,
          sym : Syms, n : Nat, reg : 0 .. 15]

(* The windows the code has and the register each loads: of WriteStr and   *)
(* LoadStrAddr, VTableAddr, LoadStaticAddr, FnAddr, CallImport and         *)
(* LoadImport, the two uses of argv, the helpers of exceptions and of the  *)
(* heap.                                                                   *)
RSI == 6
RCX == 1
RAX == 0
R8  == 8
R10 == 10

EmittedWindows ==
  { <<"String", RSI>>, <<"String", RCX>>, <<"VtableOff", RCX>>, <<"Static", RCX>>,
    <<"Fn", RCX>>, <<"Import", RAX>>, <<"ArgvRsp", RAX>>, <<"ExcState", R8>>,
    <<"HeapBase", R10>> }

IsCodeAbs64(r) == r.kind = "Abs64" /\ r.section = "Code"
IsDataAbs64(r) == r.kind = "Abs64" /\ r.section = "Data"

(* What the emitter and lower give: relocations name what the program has, *)
(* those of code are the emitted windows, and the absolute addresses in    *)
(* data are the words of the vtables, each the function its row names.     *)
IsMachineCode(m) ==
  /\ m.code \in Nat /\ m.data \in Nat /\ m.types \in Nat \cup {NoTable}
  /\ m.fn_bases \in Seq(Nat) /\ m.static_offsets \in Seq(Nat)
  /\ m.imports \in Seq([hint : DOMAIN NameLen, entry : DOMAIN NameLen,
                         so : BOOLEAN, base : Nat \cup {NoBase}])
  /\ m.exports \in Seq([name : DOMAIN NameLen, fn : DOMAIN m.fn_bases, arity : Nat,
                         receiver : BOOLEAN, qualified : BOOLEAN])
  /\ m.objects \in Seq([name : DOMAIN NameLen, off : Nat])
  /\ m.init \in BOOLEAN
  /\ m.relocs \in Seq(Reloc)
  /\ \A i \in DOMAIN m.relocs :
       LET r == m.relocs[i]
       IN  /\ r.sym = "Fn"     => r.n \in DOMAIN m.fn_bases
           /\ r.sym = "Static" => r.n \in DOMAIN m.static_offsets
           /\ r.sym = "Import" => r.n \in DOMAIN m.imports
           /\ IsCodeAbs64(r) => <<r.sym, r.reg>> \in EmittedWindows
           /\ IsDataAbs64(r) =>
                /\ r.sym = "Fn" /\ r.site + 8 <= m.data
                /\ \A j \in DOMAIN m.relocs :
                     IsDataAbs64(m.relocs[j]) /\ m.relocs[j].site = r.site => j = i

ASSUME BaseAssumption == Base \in Nat
ASSUME HashAssumption == HashValues \subseteq Nat
ASSUME NameLenAssumption == NameLen \in [DOMAIN NameLen -> Nat]
ASSUME MachineCodesAssumption == \A m \in MachineCodes : IsMachineCode(m)

-----------------------------------------------------------------------------
(* The layout.                                                             *)

PhdrAt   == IF mc.types = NoTable THEN 80 ELSE Align(64 + 13 + 8 + mc.types, 16)
CodeBase == PhdrAt + 5 * 56

TrampolineSize(e) ==
  IF e.qualified THEN 0
  ELSE IF ~e.receiver THEN 5 + 1
  ELSE 10 + 8 + (IF e.arity < 6 THEN e.arity ELSE 6) * 6 + 5 + 10 + 1

TrampBase == CodeBase + mc.code
RxEnd     == TrampBase + Sum([i \in DOMAIN mc.exports |-> TrampolineSize(mc.exports[i])])
DataAt    == Align(RxEnd, PAGE)

CodeRelocs == {i \in DOMAIN mc.relocs : IsCodeAbs64(mc.relocs[i])}
DataRelocs == {i \in DOMAIN mc.relocs : IsDataAbs64(mc.relocs[i])}

(* Imports the loader resolves: from a .so, and not linked.                *)
IsDep(i) == mc.imports[i].so /\ mc.imports[i].base = NoBase

NGot     == Cardinality(CodeRelocs)
NRelaMut == NGot
NRela    == NGot + Cardinality(DataRelocs)

(* dep_syms, one for each entry, in the order of the imports.              *)
FirstDeps ==
  {i \in DOMAIN mc.imports :
     IsDep(i) /\ \A j \in 1 .. i - 1 :
                    IsDep(j) => mc.imports[j].entry # mc.imports[i].entry}

DepSyms ==
  [n \in 1 .. Cardinality(FirstDeps) |->
     mc.imports[CHOOSE i \in FirstDeps : Cardinality({j \in FirstDeps : j <= i}) = n]]

(* dep_hints, one for each image: the first import of an entry of it.      *)
FirstHints ==
  {i \in FirstDeps : \A j \in FirstDeps : j < i => mc.imports[j].hint # mc.imports[i].hint}

DepSymBase == Len(mc.exports) + Len(mc.objects) + 1
NSyms      == DepSymBase + Len(DepSyms)

GotStart     == Align(DataAt + mc.data, 8)
SlotAt(n)    == GotStart + 8 * (n - 1)
RelaStart    == Align(GotStart + NGot * 8, 8)
DynsymStart  == Align(RelaStart + NRela * 24, 8)
DynstrStart  == Align(DynsymStart + NSyms * 24, 8)
DynstrSize   ==
  1 + Sum([i \in DOMAIN mc.exports |-> NameLen[mc.exports[i].name] + 1])
    + Sum([i \in DOMAIN mc.objects |-> NameLen[mc.objects[i].name] + 1])
    + Sum([i \in DOMAIN mc.imports |->
             IF i \in FirstDeps THEN NameLen[mc.imports[i].entry] + 1 ELSE 0])
    + Sum([i \in DOMAIN mc.imports |->
             IF i \in FirstHints THEN NameLen[mc.imports[i].hint] + 1 ELSE 0])
HashStart    == Align(DynstrStart + DynstrSize, 8)
DynamicStart == Align(HashStart + (NSyms + NSyms + 2) * 4, 16)
RwEnd        == DynamicStart + 16 * (9 + Cardinality(FirstHints) + (IF mc.init THEN 1 ELSE 0))
HeapAt       == Align(RwEnd, PAGE)

-----------------------------------------------------------------------------
(* What a symbol of an exported name is, and where.                        *)

FnAtMut(f) == DataAt + mc.fn_bases[f]
FnAt(f)    == CodeBase + mc.fn_bases[f]

(* The entry of export i: its trampoline, or the body of one that needs    *)
(* none.                                                                   *)
ExportValue(i) ==
  IF mc.exports[i].receiver /\ ~mc.exports[i].qualified
  THEN TrampBase + Sum([j \in 1 .. i - 1 |-> TrampolineSize(mc.exports[j])])
  ELSE FnAt(mc.exports[i].fn)

(* .dynsym 1 .. DepSymBase - 1: the symbols that have a value.             *)
SymName(s) ==
  IF s <= Len(mc.exports) THEN mc.exports[s].name
  ELSE mc.objects[s - Len(mc.exports)].name

SymValue(s) ==
  IF s <= Len(mc.exports) THEN ExportValue(s)
  ELSE DataAt + mc.objects[s - Len(mc.exports)].off

SymNames == {SymName(s) : s \in 1 .. DepSymBase - 1}

-----------------------------------------------------------------------------

Init ==
  /\ mc \in MachineCodes
  /\ hash \in [SymNames -> HashValues]
  /\ pc = "got" /\ k = 1
  /\ slot = GotStart
  /\ window = [i \in CodeRelocs |->
                 [reg |-> mc.relocs[i].reg, slot |-> NoSlot]]
  /\ mem = [a \in {SlotAt(n) : n \in 1 .. NGot}
                  \cup {DataAt + mc.relocs[i].site : i \in DataRelocs} |-> 0]
  /\ rela = <<>>
  /\ bucket = [b \in 0 .. NSyms - 1 |-> 0]
  /\ chain = [s \in 0 .. NSyms - 1 |-> 0]
  /\ entry = 0 /\ regs = [i \in 0 .. 5 |-> 0]

Turn(from, n, to) ==
  /\ pc = from /\ k > n
  /\ pc' = to /\ k' = 1
  /\ UNCHANGED <<mc, hash, image, mem, entry, regs>>

(* final_value: what the image holds for the address, before it is loaded. *)
FinalValue(r) ==
  CASE r.sym \in {"String", "VtableOff", "ExcState"} /\ r.section = "Code" -> DataAt + r.n
    [] r.sym = "Static" /\ r.section = "Code" -> DataAt + mc.static_offsets[r.n]
    [] r.sym = "HeapBase" -> HeapAt
    [] r.sym = "Import" /\ r.section = "Code" /\ mc.imports[r.n].base # NoBase ->
         CodeBase + mc.imports[r.n].base
    [] r.sym = "Fn" /\ r.section = "Data" -> FnAt(r.n)
    [] OTHER -> NoValue

(* The register the pass gives the load, by the symbol.                    *)
RegDstMut(sym) == IF sym = "String" THEN RSI ELSE RCX
RegDst(sym) ==
  CASE sym = "String" -> RSI
    [] sym \in {"VtableOff", "Static", "HeapBase"} -> RCX
    [] sym = "ExcState" -> R8
    [] OTHER -> RAX

(* encode_got_load: the window becomes mov reg, [slot].                    *)
GotLoad(reg) == [reg |-> reg, slot |-> slot]

Rec(type, site, value) == [type |-> type, site |-> site, value |-> value]

NextSlotMut == IF mc.relocs[k].sym = "Import" THEN slot ELSE slot + 8
NextSlot    == slot + 8

(* The loop over relocations in code.                                      *)
SkipInCode ==
  /\ pc = "got" /\ k <= Len(mc.relocs)
  /\ ~IsCodeAbs64(mc.relocs[k])
  /\ k' = k + 1
  /\ UNCHANGED <<mc, hash, pc, image, mem, entry, regs>>

IsDepImport(r) == r.sym = "Import" /\ IsDep(r.n)

BindImport ==
  /\ pc = "got" /\ k <= Len(mc.relocs)
  /\ LET r == mc.relocs[k]
         s == CHOOSE n \in DOMAIN DepSyms : DepSyms[n].entry = mc.imports[r.n].entry
     IN  /\ IsCodeAbs64(r) /\ IsDepImport(r)
         /\ rela' = Append(rela, Rec("GLOB_DAT", slot, s))
         /\ window' = [window EXCEPT ![k] = GotLoad(0)]
  /\ slot' = NextSlot
  /\ k' = k + 1
  /\ UNCHANGED <<mc, hash, pc, mem, bucket, chain, entry, regs>>

FillSlot ==
  /\ pc = "got" /\ k <= Len(mc.relocs)
  /\ LET r == mc.relocs[k]
         v == IF FinalValue(r) = NoValue THEN 0 ELSE FinalValue(r)
     IN  /\ IsCodeAbs64(r) /\ ~IsDepImport(r)
         /\ mem' = [mem EXCEPT ![slot] = v]
         /\ rela' = Append(rela, Rec("RELATIVE", slot, v))
         /\ window' = [window EXCEPT ![k] = GotLoad(RegDst(r.sym))]
  /\ slot' = NextSlot
  /\ k' = k + 1
  /\ UNCHANGED <<mc, hash, pc, bucket, chain, entry, regs>>

(* The loop over relocations in data.                                      *)
SkipInData ==
  /\ pc = "data" /\ k <= Len(mc.relocs)
  /\ ~IsDataAbs64(mc.relocs[k]) \/ FinalValue(mc.relocs[k]) = NoValue
  /\ k' = k + 1
  /\ UNCHANGED <<mc, hash, pc, image, mem, entry, regs>>

RelocateData ==
  /\ pc = "data" /\ k <= Len(mc.relocs)
  /\ LET r == mc.relocs[k]
     IN  /\ IsDataAbs64(r) /\ FinalValue(r) # NoValue
         /\ rela' = Append(rela, Rec("RELATIVE", DataAt + r.site, FinalValue(r)))
  /\ k' = k + 1
  /\ UNCHANGED <<mc, hash, pc, slot, window, mem, bucket, chain, entry, regs>>

(* The loops over exports and objects: each goes to the head of its chain. *)
BucketOf(name) == hash[name] % NSyms

LinkedMut(b) == bucket'[b]
Linked(b)    == bucket[b]

HashSymbol ==
  /\ pc = "hash" /\ k < DepSymBase
  /\ LET b == BucketOf(SymName(k))
     IN  /\ bucket' = [bucket EXCEPT ![b] = k]
         /\ chain' = [chain EXCEPT ![k] = Linked(b)]
  /\ k' = k + 1
  /\ UNCHANGED <<mc, hash, pc, slot, window, rela, mem, entry, regs>>

-----------------------------------------------------------------------------
(* The image in use.                                                       *)

(* The dynamic loader, record by record.                                   *)
LoadedWord(r) ==
  IF r.type = "RELATIVE" THEN Base + r.value ELSE Provided[DepSyms[r.value].entry]

LoadRecord ==
  /\ pc = "load" /\ k <= Len(rela)
  /\ mem' = [mem EXCEPT ![rela[k].site] = LoadedWord(rela[k])]
  /\ k' = k + 1
  /\ UNCHANGED <<mc, hash, pc, image, entry, regs>>

(* A C host calls export i: its argument j + 1 is in ARG[j].               *)
HostCall(i) ==
  /\ pc = "ready" /\ ~mc.exports[i].qualified
  /\ entry' = i
  /\ regs' = [j \in 0 .. 5 |-> j + 1]
  /\ k' = IF mc.exports[i].receiver THEN 1 ELSE 7
  /\ pc' = "shift"
  /\ UNCHANGED <<mc, hash, image, mem>>

(* build_trampoline: the k-th move, of argument Moved(k) - 1 one register  *)
(* on.                                                                     *)
Shifted == IF mc.exports[entry].arity < 5 THEN mc.exports[entry].arity ELSE 5

MovedMut(n) == n
Moved(n)    == Shifted + 1 - n

Shift ==
  /\ pc = "shift" /\ k <= Shifted
  /\ regs' = [regs EXCEPT ![Moved(k)] = regs[Moved(k) - 1]]
  /\ k' = k + 1
  /\ UNCHANGED <<mc, hash, pc, image, mem, entry>>

CallBody ==
  /\ pc = "shift" /\ k > Shifted
  /\ regs' = IF mc.exports[entry].receiver THEN [regs EXCEPT ![0] = 0] ELSE regs
  /\ pc' = "body"
  /\ UNCHANGED <<mc, hash, k, image, mem, entry>>

Next ==
  \/ SkipInCode \/ BindImport \/ FillSlot \/ Turn("got", Len(mc.relocs), "data")
  \/ SkipInData \/ RelocateData \/ Turn("data", Len(mc.relocs), "hash")
  \/ HashSymbol \/ Turn("hash", DepSymBase - 1, "load")
  \/ LoadRecord \/ Turn("load", Len(rela), "ready")
  \/ \E i \in DOMAIN mc.exports : HostCall(i)
  \/ Shift \/ CallBody

Spec == Init /\ [][Next]_vars

-----------------------------------------------------------------------------
(* Properties.                                                             *)

Written == pc \notin {"got", "data", "hash"}
Loaded  == pc \in {"ready", "shift", "body"}

TypeOK ==
  /\ mc \in MachineCodes
  /\ pc \in {"got", "data", "hash", "load", "ready", "shift", "body"}
  /\ k \in Nat /\ slot \in GotStart .. RelaStart
  /\ \A i \in DOMAIN window :
       window[i].reg \in 0 .. 15 /\ window[i].slot \in {NoSlot} \cup GotStart .. slot - 8
  /\ \A a \in DOMAIN mem : mem[a] \in Nat
  /\ bucket \in [0 .. NSyms - 1 -> 0 .. NSyms - 1]
  /\ chain \in [0 .. NSyms - 1 -> 0 .. NSyms - 1]

(* The address of what a relocation names, in the image loaded at Base.    *)
Named(r) ==
  CASE r.sym \in {"String", "VtableOff", "ExcState"} -> Base + DataAt + r.n
    [] r.sym = "Static"   -> Base + DataAt + mc.static_offsets[r.n]
    [] r.sym = "HeapBase" -> Base + HeapAt
    [] r.sym = "Fn"       -> Base + CodeBase + mc.fn_bases[r.n]
    [] r.sym = "ArgvRsp"  -> Base + DataAt + mc.argv
    [] r.sym = "Import"   -> IF IsDep(r.n) THEN Provided[mc.imports[r.n].entry]
                             ELSE Base + CodeBase + mc.imports[r.n].base

(* encode_x64.rs:11-14: the windows "keep exact shapes the shared-library  *)
(* GOT pass depends on".  Once the image is loaded, the code at every      *)
(* window gets the address of what its relocation names, in the register   *)
(* the instructions after it use.  Not true of every emitted window.       *)
WindowsGetTheirAddress ==
  Loaded => \A i \in DOMAIN window :
    /\ window[i].reg = mc.relocs[i].reg
    /\ window[i].slot # NoSlot
    /\ mem[window[i].slot] = Named(mc.relocs[i])

(* The windows whose register the pass takes from another instruction: the *)
(* address of a string as a value, of a function, and of the heap.         *)
Misread == { <<"String", RCX>>, <<"Fn", RCX>>, <<"HeapBase", R10>> }

(* The windows the pass has no address for: of functions, of the argv slot *)
(* and of imports nobody bound.                                            *)
IsUnaddressed(r) ==
  \/ r.sym \in {"Fn", "ArgvRsp"}
  \/ r.sym = "Import" /\ ~ IsDep(r.n) /\ mc.imports[r.n].base = NoBase

(* What the pass does do, in every program: no window stays a movabs, no   *)
(* two share a slot, a slot holds the loaded address its window's          *)
(* relocation names wherever the pass has one, and the load is to the      *)
(* register the window had wherever the pass knows it.                     *)
WindowsAreServed ==
  Loaded => \A i \in DOMAIN window :
    /\ window[i].slot # NoSlot
    /\ \A j \in DOMAIN window : window[j].slot = window[i].slot => j = i
    /\ IsUnaddressed(mc.relocs[i]) \/ mem[window[i].slot] = Named(mc.relocs[i])
    /\ \/ <<mc.relocs[i].sym, mc.relocs[i].reg>> \in Misread
       \/ window[i].reg = mc.relocs[i].reg

(* A vtable word holds the loaded address of its function: no record is    *)
(* lost between the two loops, whatever the order of relocations.          *)
VtablesDispatch ==
  Loaded => \A i \in DataRelocs : mem[DataAt + mc.relocs[i].site] = Named(mc.relocs[i])

(* shlib.rs debug_assert_eq!(rela.len(), nrela * 24): the records fill the *)
(* table laid out for them, without which copying them in fails.           *)
TableIsFull == Written => Len(rela) = NRela

(* shlib.rs: "Text is mapped R+X, so the dynamic loader must never write   *)
(* there."  No two records write one word, and none a page of text, of a   *)
(* table the loader reads, or of the heap.                                 *)
LoaderWritesApart ==
  /\ \A i, j \in DOMAIN rela : i # j => rela[i].site # rela[j].site
  /\ \A i \in DOMAIN rela :
       /\ rela[i].site \div PAGE > (RxEnd - 1) \div PAGE
       /\ rela[i].site + 8 <= RelaStart
       /\ rela[i].site \div PAGE < HeapAt \div PAGE

(* dlsym walks the chain of a name's bucket: it finds every export, vtable *)
(* and static, and never goes in circles, whatever collides.               *)
DlsymFinds ==
  Written => \A s \in 1 .. DepSymBase - 1 :
    LET At[n \in 0 .. NSyms] ==
          IF n = 0 THEN bucket[BucketOf(SymName(s))] ELSE chain[At[n - 1]]
    IN  /\ At[NSyms] = 0
        /\ \E n \in 0 .. NSyms :
             /\ At[n] # 0 /\ SymName(At[n]) = SymName(s)
             /\ \A m \in 0 .. n - 1 : SymName(At[m]) # SymName(s)

(* The body an export reaches finds the host's arguments in the registers  *)
(* its prologue reads: ARG[1] to ARG[5] behind a null receiver, or ARG[0]  *)
(* to ARG[5].                                                              *)
HostArgumentsArrive ==
  pc = "body" =>
    LET e == mc.exports[entry]
    IN  IF e.receiver
        THEN regs[0] = 0 /\ \A p \in 1 .. e.arity : p <= 5 => regs[p] = p
        ELSE \A p \in 1 .. e.arity : p <= 6 => regs[p - 1] = p

-----------------------------------------------------------------------------
(* What makes these inductive.                                             *)

(* The relocations the two loops have been through, and the records loaded.*)
Bound  == IF pc = "got" THEN {i \in CodeRelocs : i < k} ELSE CodeRelocs
Placed == IF pc = "got" THEN {}
          ELSE IF pc = "data" THEN {i \in DataRelocs : i < k} ELSE DataRelocs
Applied == IF pc = "load" THEN {n \in DOMAIN rela : n < k}
           ELSE IF Loaded THEN DOMAIN rela ELSE {}

Record == [type : {"RELATIVE", "GLOB_DAT"}, site : Int, value : Int]

ImageTypes ==
  /\ mc \in MachineCodes
  /\ pc \in {"got", "data", "hash", "load", "ready", "shift", "body"}
  /\ k \in Nat \ {0}
  /\ rela \in Seq(Record)
  /\ DOMAIN window = CodeRelocs
  /\ DOMAIN mem = {SlotAt(n) : n \in 1 .. NGot} \cup {DataAt + mc.relocs[i].site : i \in DataRelocs}

(* One record for each relocation, those of the GOT first and in the order *)
(* of its slots.                                                           *)
RecordsCounted ==
  /\ Len(rela) = Cardinality(Bound) + Cardinality(Placed)
  /\ pc = "got" => slot = SlotAt(Len(rela) + 1)

WordRec(r) == Rec("RELATIVE", DataAt + r.site, FinalValue(r))

RecordsLie ==
  \A n \in DOMAIN rela :
    IF n <= NGot THEN rela[n].site = SlotAt(n)
    ELSE \E i \in Placed : rela[n] = WordRec(mc.relocs[i])

SitesApart == \A n, m \in DOMAIN rela : n # m => rela[n].site # rela[m].site

(* The load at a window and the record of its slot belong together.        *)
Given(r) == IF IsDepImport(r) THEN 0 ELSE RegDst(r.sym)

Fits(rec, r) ==
  IF IsDepImport(r)
  THEN rec.type = "GLOB_DAT" /\ DepSyms[rec.value].entry = mc.imports[r.n].entry
  ELSE rec.type = "RELATIVE" /\ (FinalValue(r) # NoValue => rec.value = FinalValue(r))

WindowsBound ==
  \A i \in Bound : \E n \in DOMAIN rela :
    /\ n <= NGot
    /\ window[i] = [reg |-> Given(mc.relocs[i]), slot |-> SlotAt(n)]
    /\ Fits(rela[n], mc.relocs[i])

SlotsApart == \A i, j \in Bound : window[i].slot = window[j].slot => i = j

WordsPlaced == \A i \in Placed : \E n \in DOMAIN rela : rela[n] = WordRec(mc.relocs[i])

WordsLoaded == \A n \in Applied : mem[rela[n].site] = LoadedWord(rela[n])

ImageInv ==
  /\ ImageTypes
  /\ RecordsCounted
  /\ RecordsLie
  /\ SitesApart
  /\ WindowsBound
  /\ SlotsApart
  /\ WordsPlaced
  /\ WordsLoaded

(* The symbols in the table, and the last of the first n of them in bucket *)
(* b, 0 if there is none: bucket[b] is that of all, chain[s] that of those *)
(* before s.                                                               *)
Indexed == IF pc \in {"got", "data"} THEN 0
           ELSE IF pc = "hash" THEN k - 1 ELSE DepSymBase - 1

IsLatest(s, b, n) ==
  /\ s \in 0 .. n
  /\ s # 0 => BucketOf(SymName(s)) = b
  /\ \A t \in 1 .. n : BucketOf(SymName(t)) = b => t <= s

HashInv ==
  /\ mc \in MachineCodes /\ hash \in [SymNames -> HashValues]
  /\ k \in Nat \ {0} /\ (pc = "hash" => k <= DepSymBase)
  /\ DOMAIN bucket = 0 .. NSyms - 1 /\ DOMAIN chain = 0 .. NSyms - 1 /\ chain[0] = 0
  /\ \A b \in 0 .. NSyms - 1 : IsLatest(bucket[b], b, Indexed)
  /\ \A s \in 1 .. Indexed : IsLatest(chain[s], BucketOf(SymName(s)), s - 1)

(* Of a trampoline's moves the first k - 1 are done, from the last argument*)
(* down.                                                                   *)
HostInv ==
  /\ mc \in MachineCodes
  /\ pc = "shift" =>
       /\ entry \in DOMAIN mc.exports
       /\ regs \in [0 .. 5 -> Int] /\ k \in Nat
       /\ IF mc.exports[entry].receiver
          THEN /\ k \in 1 .. Shifted + 1
               /\ \A j \in 0 .. 5 :
                    regs[j] = IF j <= Shifted /\ j + k >= Shifted + 2 THEN j ELSE j + 1
          ELSE k = 7 /\ \A j \in 0 .. 5 : regs[j] = j + 1
  /\ HostArgumentsArrive
=============================================================================
