# Verification of the rubyc x86-64 Linux target

This directory holds TLA+ models of the code generator in `src/`, the TLC
configurations that check them on small instances, and TLAPS proofs of the
results that matter most for every instance. Paths below are relative to the
repository (`src/x86/regalloc.rs` is the file of that name in it).

## 1. The system

The crate is one backend of an ahead-of-time compiler. It takes a `Program` of
virtual-register IR (functions, vtables, statics, string data, imports and
exports, defined in the core crate `rubyc`), lowers it to `MachineCode` (code
and data bytes plus relocations) and then writes an executable, writes a shared
library, serialises the result as an object file, or runs it in memory.

| Component | State it keeps | Operations | Talks to |
|---|---|---|---|
| Register allocator, `src/x86/regalloc.rs` | live-in/out sets, intervals, `free`, `active`, `loc`, `spills` | `allocate` | called by the emitter once per function; its `loc` decides every operand access |
| Emitter, `src/x86/encode_x64.rs` | code buffer, relocations, call sites, `uses_*` flags | `lower`, `emit_function`, `instr`, `bin`, `cmp`, ... | allocator, runtime snippets, linker (by relocations) |
| Heap helpers, `src/x86/runtime.rs` | in the emitted program: freelist head, bump pointer, block words | `ALLOC_REVISED`, `RETAIN`, `RELEASE` | called by emitted code; `BuildArgv` stores counts itself |
| Exception helpers, `src/x86/runtime.rs` | in-flight exception, handler depth, jump buffers | `EXC_ENTER/POP/LOAD/CLEAR/THROW/RETHROW` | restore the allocator's registers behind the emitted code's back |
| Integer helpers, `src/x86/runtime.rs` | stack buffers | `ITOA`, `itoa_to_fd`, `SCAN_INT` | `write`, `read` system calls |
| Object files, `src/mc_serialize.rs` | a byte stream | `encode`, `decode` | a wire form of `MachineCode` |
| ELF writer, `src/x86/elf.rs` | the image under construction | `write_image` | applies relocations to absolute addresses |
| Shared-library writer, `src/x86/shlib.rs` | GOT slots, trampolines, dynamic tables | `write_shared_library` and its layout passes | rewrites the `movabs` windows the emitter left |
| JIT, `src/lib.rs`, `src/x86/memory.rs` | mapped pages, heap, argv block | `run_machine_code`, `map_rw`, `protect_exec`, `unmap` | the kernel |
| Loader, `src/x86/loader.rs` | none | `sniff` | - |

What is hard in it, component by component:

* **Allocator.** The compiler has no second line of defence: if two vregs live
  at one position share a home, the program computes something else. The scan
  steals registers from live intervals and leaves the stolen entry's end as it
  was, so the `active` list stops saying when its residents end. Liveness must
  carry values around loops in whatever order blocks are laid out. Parameters
  are numbered differently for static functions, terminators read vregs, and a
  `longjmp` rolls registers (but not slots) back.
  *Correct when:* two vregs live at one position never share a home; the pool
  is partitioned; the frame is exactly the slots in use; liveness is exact and
  the fixpoint ends; every operand is read from a home that still holds its
  value.
* **Heap helpers.** Each is a dozen memory accesses with the object's count
  and the freelist's link and capacity sharing two words.
  *Correct when:* the freelist never contains or overlaps an object in use, what
  is released returns, and a program sees a heap of counted objects.
* **Exception helpers.** A stack of 64 jump buffers with a depth counter, bounds
  checked in some helpers and not in others. *Correct when:* a throw lands at
  the innermost handler entered and not left, with its registers.
* **Call frames.** Prologue, saved registers, argument pushes and their cleanup
  must balance for `rbp`-relative slots and `rsp`-relative pops to agree.
  *Correct when:* a call returns with the caller's callee-saved registers and
  its stack pointer, and the callee finds each argument where the caller put it.
* **Instruction selection.** Operands, result and scratch registers of one
  instruction may be one register or one slot, and each instruction loads, computes and
  stores in an order of its own. *Correct when:* whatever is shared, the code
  computes what the IR means and touches nothing else.
* **The argument array.** Three hundred lines of machine code decode UTF-8 with
  every register in use and two kinds of call of the allocator in between.
  *Correct when:* `Main` gets each argument as the UTF-16 it stands for, and nothing is
  stored outside a block.
* **Integer helpers.** Buffers on the stack, negation of the least integer, reads
  that end anywhere. *Correct when:* what is printed is the decimal of the word,
  and each call reads the number of its line.
* **Linking (lower, ELF, shared library).** Each relocation kind is resolved by name
  in three places (writer, GOT pass, JIT), and three passes must agree on which
  helpers a program needs. *Correct when:* every operand of the running code
  reaches what the IR names, and the table sizes agree with their contents.
* **Object files.** Five trailing sections may be missing, as an older writer
  leaves them. *Correct when:* decoding what was encoded gives it back, with the
  defaults for what an older writer did not know, and a stream torn anywhere
  else is an error, never a different program.
* **JIT.** *Correct when:* no page is writable and executable at once and what is
  mapped is unmapped on every path.

Nothing in the crate itself runs concurrently; the emitted programs may (the
comments of `runtime.rs` postpone this to a "threads phase").

## 2. Modules

### LinearScan, LinearScanProofs, MCLinearScan

`LinearScan` is `allocate` from the sorted intervals to the result
(`regalloc.rs:286-342`). One action visits one interval; the three actions are
the three ways the loop body ends: `TakeFree` (a register is free),
`Steal` (none is free and the furthest entry outlasts the newcomer) and
`SpillNewcomer`. Expiry is the first half of each action (`Live`, `Avail`), as it
is in the code. `range` is the input, any function from vregs to intervals;
`loc`, `free`, `active` and `spills` are the code's variables, `todo` the vregs
`ordered` has left. The vector `active` becomes a set whose entries carry their
push order, which is all `max_by_key` uses of the order.

`LinearScanProofs` proves, for every pool size, number of vregs, length and
assignment of intervals:

* `ScanInvariant`: `Spec => []ScanInv`, and from it `Types`, `OverlapNeverShares`
  (`ConflictFree`), `PoolIsPartitioned`, `FrameIsExact`; and `HomesNeverMove`, an
  action property;
* `FitsThePool`: `Spec => []SpillsNeedPressure`, a function whose values fit the
  pool gets no slot.

`ConflictFree` is not inductive: nothing in it says why the register `TakeFree`
hands out is not the home of a vreg still live. `ScanInv` adds that an entry's
register is its resident's home and that the entry's end is *at least* its
resident's (`EntriesCover`: an inequality, because after a steal the end is that
of the evicted vreg), that a vreg in a register without an entry ended before
everything still to come (`HeldOrOver`), and that a vreg has a home exactly if it
has been visited (`PlacedExact`). The proof has one lemma per action and in each
one step per conjunct. It assumes only the constants' types. `FitsThePool` needs more of
the past: `PressureInv` adds that the visited vregs are those that start no later than
the ones to come (`VisitedBefore`), and that until the first slot is handed out every
entry's end is exactly its resident's (`EntriesExact`), so that the entries held when the
pool runs out are live at the newcomer's start; a counting lemma (`MoreThanPool`) does the
rest.

### RegAlloc, RegAllocProofs, MCRegAlloc

`RegAlloc` is the whole of `allocate` on a function, one block of a liveness
sweep at a time, then the intervals, then the actions of `LinearScan` through
`INSTANCE`; after that it runs the function as `emit_function` lays it out.
Instructions are classes: what an instruction defines and uses *for the
allocator* (`DefOf`, `UseOf`, `TermUseOf`) and what its emitted code writes and
reads (`WritesOf`, `ReadsOf`, `TermReadsOf`) are separate operators because the
code has them separately and they differ. A home holds "the current value of
vreg v", so `ReadsAreIntact` says that the emitted code computes what the IR
does. The handlers a frame has entered are a stack, as the jump buffers are that
`EXC_ENTER` fills and counts, `EXC_POP` counts off and `EXC_THROW` and `EXC_RETHROW`
return through: each keeps what the registers held when it was entered and which vregs
have been written since, so that a landing at an outer handler comes back with the outer
handler's registers, whether the inner one was popped or had landed before. `MCRegAlloc` lists the families of functions.

`RegAllocProofs` proves, for every set of functions, pool and number of vregs:

* `TypeCorrect` and `LivenessTheorem` (`Spec => []LivenessIsExact`): the set the fixpoint
  stops at is neither too small nor too large;
* `ReadsTheorem`: `Spec /\ []InScope => []ReadsAreIntact`. `InScope` is what the
  divergences of section 3 leave: a parameter's interval begins with the function, a terminator throws
  only what its block's last instruction touches, an integer read is used, and when a throw may land, what
  was written since the innermost handler was entered and is read after the landing has a slot.
  TLC finds it true throughout the run `regalloc`; for functions that are `Plain`, which is a property
  of their text, it is proved and not assumed (`PlainReadsTheorem`).

The assumptions on the constants are what `allocate` indexes by (vregs below `f.vregs`, successors
that are blocks) and that `MaxPos` is past the last position. The invariant has two layers.
`PlanInv` is unconditional: swept blocks are a fixpoint until something changes
(`SweptAreSettled`); whatever is in a live-in set has a path without a repeated block
(`LiveInHasPath`: simple, so that a path can be prolonged at its head without outgrowing the
function); an interval holds every position its vreg is touched at (`RangesCover`); and the scan keeps
`ScanInv`, by the step lemma of `LinearScanProofs`. That a fixpoint misses nothing is an
induction on the length of a path, done by the least counterexample. `AllocInv` adds `HomesHold`: a value
still needed (`NeededAt`) is in its home, a slot always holds its value, and what a throw restores
through any of the open handlers, the outer ones included, is as it was when that handler was entered. `ResultMissesNeeded` is the lemma the steps rest on: what an
instruction writes and what is needed after it are live at one position, hence have different homes.

### RefHeap, Heap, HeapProofs, MCHeap

`RefHeap` is the promise: a heap of counted objects. `Heap` has one action per
memory access of `ALLOC_REVISED` and `RELEASE` and one for `RETAIN` (a single
locked instruction). The program allocates, hands references on and gives up
references it holds. `IsRefHeap` is the refinement; an object exists abstractly
while a reference to it is held. The freelist is defined without recursion, as the
cells in every set that has the head and follows its cells' links.

`HeapProofs` proves `FreeListStaysSound` and `ImplementsRefHeap` for one thread that
allocates strings (`Alone`: outside it `heap_plain_alloc` and `Heap_TwoThreads.cfg` are
counterexamples), any heap and any number of references. Neither formula is inductive:
between two instructions of a helper a block is neither in use nor on the list, and its
two words are partly of the old kind and partly of the new. `HeapInv` therefore names
the block the thread carries (`Carried`), takes the size of a block from wherever it is
kept at that instruction (`Extent`), and says: blocks lie below the bump pointer
(`Bounded`) and apart (`Apart`); the count of an object is the references to it
(`Counted`); links lead from free blocks to free blocks, never two to one and never to the
head (`Linked`); and what the registers hold at each instruction (`AllocHere`,
`ReleaseHere`). `Linked` is what makes a pop leave a list behind: the next block is free
and is not the one popped. `Quiet` does the steps that change no block but the carried one;
the others have a lemma each.

### TryStack, ExcState, ExcStateProofs, MCExcState

`TryStack` is the promise of `try` and `catch`: a throw ends the calls made since
the innermost open try block was entered and goes on at its landing pad with its
exception; with none open the process ends. `ExcState` has one action for each
helper of `runtime.rs` (`HandlerEnter`, `HandlerPop`, `Throw`, `Rethrow`,
`LoadAndClear`, which joins `EXC_LOAD` and `EXC_CLEAR` as landing pads use them)
on the block `lower` appends to the data: in-flight word, depth and jump
buffers, one block for each module of the process. A jump buffer is the frame it
returns to and the site it goes on at; what the `longjmp` does to registers and
slots is `Land` of `RegAlloc`. `EXC_ENTER` has no bound and `EXC_THROW` has, as in
the code; `buf` has `MaxNest` buffers, those past `MaxHandlers` standing for the
memory after the block.

`ExcStateProofs` proves for one module and no more try blocks open at once than
the block has buffers (`Fits(m)`: `Modules = {m}` and `MaxNest <= MaxHandlers`;
what happens outside is in section 3), any number of frames, sites and
exceptions:

* `BlockInvariant`: `Spec => []BlockInv`, and from it `BlockTypes` and
  `BuffersStayLive` (no `longjmp` ever restores the stack pointer of a frame that
  has gone);
* `ImplementsTryStack`: `Spec => Abstract!Spec`, where the exception of the
  abstract program is the in-flight word of the module that runs.

`BuffersLive` and the refinement are not inductive: they say nothing of the order
of buffers, nor that the buffers below the topmost stay live when it unwinds.
`BlockInv` is the types, `BlockMirrorsOpen` (the buffers up to `depth` are the open
try blocks, in order) and `Nested` (heights of open try blocks never decrease and
are frames on the stack). One lemma per action shows that the action preserves
`BlockInv` and maps to an abstract step or a stutter.

### CallFrame, CallFrameProofs, MCCallFrame

The stack as a sequence of words, `rsp` its length, `rbp` an index. A call site
(`CallTo`) pushes what does not travel in registers, fills the argument registers
and leaves a return address that remembers how much the code there takes off;
`Prologue`, `ComputeReg`, `ComputeSlot`, `Epilogue` are the callee, `Cleanup` the code after
the call. Kinds of call: `Fn` is a direct call, `Static` a static call of a function
with receiver, `Virt` a virtual call, `Import` a call into another module.
Parameters are numbered from the receiver (v0) or, for static functions, from v1,
and the prologue reads them by that number; what is pushed, read and taken off
is each decided in a different place of `encode_x64.rs`, which is what
`ParamsArrive` and `StackIsBalanced` bring together. `before` is a history variable: of
each call not yet returned, what the caller had.

`CallFrameProofs` proves the four properties for any pool, any functions (spills,
savers, arities), any call sites and any depth of nesting, under `Matching`: virtual and
receiver-taking static calls have at most five arguments and imports at most six,
which are the calls that take off what they push; outside it the properties fail (section 3).

* `FrameInvariant`: `Spec => []FrameInv`, and from it `StackStaysBalanced`
  (`StackIsBalanced`), `CalleesPreserve` (`RegistersPreserved`), `SlotsStayPrivate`
  (`SlotsArePrivate`);
* `ParametersArrive` (`ParamsArrive`), which assumes besides that `@start` has no parameters.

What a function returns with depends on words that it stored long before, under
every frame built since. `FrameInv` therefore describes the whole stack: `Callers` (each
caller's frame ends where its pushes began, under its return address, and later frames
lie above earlier return addresses), `Calls` (each return address goes back to the
caller and takes off what was pushed), `Frames` (each frame begins above its return
address, has its own values in its slots, and has saved its caller's `rbp` and those of
the caller's registers it uses, leaving the rest alone) and `Now` (where the running code stands in
each phase). `FrameStays` is the lemma all steps rest on: a frame no step writes to keeps
all of this. For the parameters, `ParamInv` says of a function about to be entered
that some call site has put its arguments in registers and on the stack as `PassedBy` describes.

### SharedLib, SharedLibProofs, MCSharedLib

`write_shared_library_inner`: the layout of the image (`CodeBase` to `HeapAt`), the
pass over code relocations that turns each `movabs` window into a load from a GOT
slot (`BindImport`, `FillSlot`, `SkipInCode`), the pass over vtable words
(`RelocateData`, `SkipInData`), the symbol hash table (`HashSymbol`), one step for each
turn of each loop. The dynamic loader (`LoadRecord`) and a C host that calls an
export (`HostCall`, `Shift`, `CallBody`) are what the image is for; the loader is not in
the repository and marked external. Windows carry the register the emitter
wrote (`EmittedWindows`, every kind there is); the pass assumes one for each kind of symbol (`RegDst`).
`WindowsGetTheirAddress` says that the two agree, in the loaded program. They do not: of the nine kinds of window,
three are loaded into another register than the code after them reads (the heap base of `ALLOC` and `RELEASE`,
`r10`; a string's address as a value and a function's address, `rcx`), and two have no address in the pass and
get 0 (functions, the argv slot). `WindowsAreServed` is what the pass does do in every program, those included: each window
becomes a load from a slot no other window uses, the slot holds the address wherever `FinalValue` has one, and the register is the
emitter's but for the kinds `Misread` lists.

`SharedLibProofs` proves all six invariants of the run. The assumptions on the constants are
that `Base` and hash values are naturals, that names have lengths, and `MachineCodesAssumption`:
each program is one `lower` can give (`IsMachineCode`: relocations name functions, statics and imports that
exist, and the absolute ones in data are vtable words inside the data, each at a place of its own).
Three inductive invariants, each for a part of the state that the others leave alone:

* `ImageInv`, for the two relocation loops and the loader. It counts what has been done
  (`RecordsCounted`: the records so far are the GOT's prefix and one for each data word relocated),
  says of each record which word it fills and with what (`RecordsLie`, `WordsPlaced`), of each window that it names the slot
  of its symbol (`WindowsBound`), and of memory under the loader that a record already applied has
  left its word there (`WordsLoaded`). `ImageInvariant`, `TableTheorem` (`TableIsFull`: the size reckoned before the
  loops is the number of records they push), `LoaderTheorem` (`LoaderWritesApart`), `VtablesTheorem` (`VtablesDispatch`)
  and `WindowsTheorem` follow.
* `HashInv`, for the symbol table: while symbols are entered, `bucket[b]` is the latest symbol of bucket `b`
  and `chain[s]` the latest before `s` in the bucket of `s`. `DlsymTheorem` (`DlsymFinds`) then follows by
  induction along the chain.
* `HostInv`, for the call of an export: the body's registers are the host's arguments, shifted by
  one if there is a receiver. `HostTheorem` (`HostArgumentsArrive`).

`WindowsTheorem` is `Spec => []WindowsAreServed`, without a hypothesis on the program. That no two windows share a
slot (`SlotsApart`) is part of `ImageInv`: slots advance with the windows bound.

### McSerialize, MCMcSerialize

`encode` as an operator on programs, `decode` section by section on any prefix of a
buffer. A byte is a cell that knows which byte of which number or content it is,
so a misread shows as `Garbage`. The writer's sections (`Written`) and the reader's
(`Sections`) are written down separately, as they are in the code. The relocation
symbol is its tag and argument; the table of `sym_tag` and `sym_from` is left out.

### Instr, MCInstr

`Code` is the sequence of machine instructions `Emitter::instr` emits for each IR instruction that computes
inside one frame: constants, moves, arithmetic, shifts, divisions with
their test for zero, comparisons, floating point with its conversions and unordered
comparisons, field and byte accesses, block copy and comparison. `Step` is the processor,
which is external; `Meaning` is what the IR instruction computes. The homes of operands and
result are any registers or slots, shared or not, and may be the ones the
previous operand was loaded through. Words have `Width` bits; doubles are a sign and a magnitude,
with NaN, and their arithmetic is an arbitrary function (`FArith`), so that swapped or
stale operands show.

### Argv, ArgvProofs, MCArgv

The stub of `@start` that saves the stack pointer, and the code of `BuildArgv`. A step is the
code between two calls of `ALLOC` or one turn of the decoding loop, with the registers and the
words pushed as the code uses them; which registers `ALLOC` leaves intact depends on its path
(fresh block or freelist), and both are possible at every call. `Text` is the reference: the table of
well-formed UTF-8, one replacement character for each byte that does not fit it.

`ArgvProofs` proves, for every cap and every set of argument vectors of at most that many
arguments of any bytes, entered by the kernel or with the slot filled in:

* `ArgvInvariant`: `Spec => []ArgvInv`, and from it `NoFault` (`NeverAFault`) and `StackIsRestored`;
* `DecodedTheorem`: `Spec => []ArgumentsAreDecoded`, if no byte of an argument is 248 or more
  (`TameBytes`): the code takes such a byte for the lead of four, the table takes it
  for none, and `Argv_LongLead.cfg` shows it.

`ArgvInv` says of every step what each register, each saved word and each
block is. The bound on the string's block is an invariant of the decoder: code units
written never exceed twice the bytes consumed. It does not say what the units are; `DecodedInv` does: the
elements stored so far are the texts of the first arguments, in order, and while one is
decoded, the units written followed by the text of the bytes ahead are its whole
text. A turn of the loop keeps that because the text of a suffix unfolds by one character
(`TextTurns`) and the code's four conditions are the table's rows (`CodeMatches`): a lead of three
with its test for overlong forms and surrogates admits what four rows admit (`ThreeMatch`), a lead of four with its
range test what three rows do (`FourMatch`).

### Digits, MCDigits

`ITOA` and `SCAN_INT` one turn of their loops at a time. What a program prints is one of the lines
it reads, beside typed lines; the read's buffer lies on a stack that holds stale bytes.
`itoa_to_fd` is `ITOA` with another file descriptor.

### Image, ImageProofs, MCImage

`Backend::lower` and what becomes of its result. `LayOutData` places strings, vtables, statics,
argument slot and handler state, `EmitFunction` emits the code and windows of one function,
patches its jumps and marks the helpers its instructions' arms mark (`FlagOf`, a table apart
from the calls they emit, `HelperOf`), `AppendHelpers` adds the helpers the scans and marks ask
for, `CollectRelocs` pushes the relocations; then either `WriteImage` lays out the ELF file and
relocates it and the kernel loads its segments (`Load`, external), or the JIT maps, relocates
and copies, protects, calls and unmaps (`Map`, `Fill`, `Protect`, `Run`, `Unmap`). Code and data
are sequences of cells that say what byte of what they are, so `EveryNameIsReached` can compare
what an operand reaches with what the IR named. The preamble that some executables begin with
shifts everything behind it.

`ImageProofs` proves, for every set of programs, page size, size of helpers and handler state, and place where the
kernel maps:

* `ImageInvariant`: `Spec => []ImageInv`;
* `RightsTheorem` (`RunsWithItsRights`), for an ELF image and the JIT alike;
* `NamesTheorem` (`EveryNameIsReached`) where `NamesExist` and `OperandsFit`;
* `NothingLeftTheorem` (`NothingIsLeft`) where `mprotect` is not among the calls that may fail. That hypothesis is
  needed: `Image_Leak.cfg` below shows the property violated without it. `mmap` may fail.

The assumptions are that `Page` is positive and `BaseVaddr` and `Mapped` are multiples of it (4096, 0x400000 and what
`mmap` returns in the code), that helpers and handler state have bytes, and `ProgramsAssumption`: indices in a program
name what there is (`IsProgram`). The emitter relies on the latter without checking: an index past the end of `starts` or of
the vtables panics. `NamesExist` asks in addition what `IsProgram` leaves open and the code does not check: there is a
function to begin with, strings, vtable rows and fields that are named have a byte to reach, and what allocates has a heap
(without one, its base is where nothing is mapped). `OperandsFit` says that the eight bytes patched in a helper lie inside it. Both
hold of the programs and helpers TLC runs: `MCImage` has it evaluate them (`EveryNameAssumption`).

`ImageInv` is `TypeOK` and `PagesInv`. That pages keep their rights depends on what each byte is, and that on the emitter,
so `TypeOK` types the cells of code and data, the symbols of relocations and the blocks jumps name; a relocation that named
nothing would have no target. Lowering, with its nested recursions over functions, blocks and items, keeps
it (`EmitWindowHasItsType` to `CollectRelocsIsTyped`), and `AppliedKeepsCells` says that relocation changes only values.
`PagesInv` says phase by phase what is mapped: nothing while lowering, then all pages writable (`MappedTo`), filled with code
below `JitData` and data from there (`MemoryIsFilled`), then those of code executable. The image's segments follow from
`ImageIsWritten`. Both rest on `PageBefore`: what lies before a multiple of the page size lies on an earlier page.
TLC finds `ImageInv` to hold at the bounds of the run.

`NamesTheorem` adds `LinkInv`, which follows one operand from the emitter to memory:

* while a function is emitted, each opcode that opens a window is on record in `relocs`, `calls` or `jumps`, or a jump
  that has landed; and each record lies on a whole window and has a symbol that fits what the IR names there (`Sound`). Since windows
  do not overlap (`OneSite`), patching one jump disturbs no other cell (`PatchedApart`, `PatchJumpsPatches`), and code that
  grows keeps its operands (`FitsKept`);
* functions begin where `starts` says (`StartsLaid`), blocks where jumps land (`Landed`), data, helpers and slots lie where
  `places` and `helperAt` say (`DataLaid`, `HelpersLaid`, `SlotsLaid`), and every helper an open operand needs is among those the
  scans and the flags chose: a symbol fits only if its helper is marked (`Fits`), each arm marks the one it calls (`FlagIsThere`,
  `WindowsAreGood`), and what is marked is appended (`HelpersChosen`);
* after `CollectRelocs` each relocation fills one operand, all of its width, with a symbol whose target is what the operand names, and
  each operand has landed or has a relocation, holes of vtables excepted (`Linked`, from `CollectedAre`). `AppliedCode` and
  `AppliedData` hold the distance or address, and loading or filling puts every cell where targets are reckoned from (`Placed`).

It is inductive together with `ImageInv`. TLC found `LinkInv` to hold of the run's
programs before it was proved; it is a definition of `ImageProofs`, so `image` does not repeat it.

## 3. Runs

| Run | Shows | Bounds |
|---|---|---|
| `scan` | the scan's properties, and that the proof's invariant holds | 5 vregs, pool of 2, 4 positions: all 10^5 inputs; enough for steals from stolen entries, expiry of them and reuse |
| `regalloc` | operands intact, liveness exact, allocation ends | 5 vregs, pool of 2, 16 positions; families of loops, arms, static methods, throws, and try blocks in try blocks (at most two handlers open in the frame) of up to 5 blocks |
| `instr` | each instruction computes its meaning, touches nothing else and ends | words of 4 bits with the values around zero, sign and NaN; 2 registers and 2 slots, every way to share them; 5 bytes of memory |
| `frame` | stack balanced, parameters arrive, slots private, registers preserved | 2 pool registers, 7 functions around the number of argument registers, 3 frames |
| `argv` | arguments decoded, no access outside a block, the code returns | cap of 4 (1024 in the code); one argument of up to 3 bytes, or 4 with a lead of three or more, over the 17 bytes at the ends of the ranges of the UTF-8 table; up to 3 arguments of 4 kinds; both ways in |
| `digits` | decimals right, every line read as its number | words of 8 bits, all printed; reads of 5 bytes (80 in the code); typed lines with leading zeros, wrapping values, letters, a lone minus |
| `image` | every operand reaches what it names, rights, unmapping | pages of 64 bytes; two functions and three blocks with every pair of the instructions that refer to something; data lengths across a page boundary; ELF, ELF with preamble and JIT; `mmap` may fail |
| `heap` | freelist sound, releases return, refinement of `RefHeap` | 5 cells, objects of 1 or 2 cells, 2 references |
| `heap_plain_alloc` | *violated:* an object reused from the freelist starts with count 0 | 3 cells |
| `exc` | block mirrors the open try blocks, buffers live, refinement of `TryStack` | 3 buffers, 3 try blocks open, 3 frames, 2 sites, 2 exceptions: handlers in one frame and in several, rethrows to outer ones, reuse of buffers |
| `shlib` | windows, vtables, records, symbol table and trampolines of a loaded image | up to 3 relocations of 14 kinds in every order, every kind of window among them; 2 exports, a vtable and a static under hashes 0 .. 2, which makes every pattern of collisions |
| `mc_serialize` | lossless, tolerant of older writers, torn buffers refused | every prefix of programs with two sections filled, with all and with none |

The passing runs are limited to what works: `regalloc` to functions outside the four divergences
below (the families in `MCRegAlloc` say how), `heap` to strings and one thread (the two tag bits
of the meta word are not modelled), `exc` to one module whose nesting fits the block, to pads
that rethrow or load their exception at once (a call or throw the pad makes before that is not
modelled) and to pops of open handlers, `frame` to call sites that match, `instr` to divisions
that do not overflow, `digits` to tame lines that end in a newline, one to a read (so that what
the stack holds past a read is not reached), `argv` to at most `Cap` arguments and leads below
248, and `image` to a JIT whose `mprotect` succeeds. `heap_plain_alloc` and the configurations
below are what happens outside. `HeapEnd`, `MaxRefs`, `MaxNest` and `MaxFrames` are marked BOUND
in the modules; `Width`, `MaxRead`, `Cap`, `Page` and `MaxHandlers` stand for constants of the
code.

Configurations kept beside the runs; TLC finds the property of each violated:

| Configuration (module) | Property | What happens |
|---|---|---|
| `LinearScan_SpillsTheFurthest.cfg` (`MCLinearScan`) | `SpillsTheFurthest` | after a steal the stolen register's entry keeps the end of the vreg it was taken from, and the scan may spill a vreg that does not extend furthest |
| the same, as an invariant | `BoundariesDoNotConflict` | ranges that only touch do conflict: expiry compares with `<` |
| `RegAlloc_Throws.cfg` (`MCRegAlloc`) | `ReadsAreIntact` | a thrown value is not kept to the throw: `Unwind` is no use of it for liveness (`regalloc.rs:205`) |
| the same, with `Functions <- StaticParams` | `ReadsAreIntact` | the last parameter of a static method is not kept at entry |
| the same, with `Functions <- Discards` | `ReadsAreIntact` | an integer read and not used clobbers a live home |
| the same, with `Functions <- Reassigns` | `ReadsAreIntact` | a variable assigned in a try body and kept in a register has its old value after the catch |
| `Heap_TwoThreads.cfg` (`MCHeap`) | `OneReleasePushes` | two releases of one object push it twice: the count is decremented and then read again |
| `ExcState_TooDeep.cfg` (`MCExcState`) | `ExitsOnlyWithoutHandlers` | a throw ends the process though handlers are active: one more than the block has buffers |
| `ExcState_Library.cfg` (`MCExcState`) | `ExitsOnlyWithoutHandlers` | a throw in a library ends the process though the executable has a handler: each module has a block of its own. With property `LandsInnermost`: a throw lands past later handlers of the other module |
| `CallFrame_VirtualSix.cfg` (`MCCallFrame`) | `RegistersPreserved` | six arguments to a virtual call leave a word on the stack, popped as a register |
| the same, with `CallSites <- ImportSeven` | `RegistersPreserved` | an import call with seven arguments never takes the pushed one off |
| `CallFrame_Alignment.cfg` (`MCCallFrame`) | `AlignedAtCalls` | the padding aligns calls made by the entry function, which has no return address below its frame; every other function has one and calls with the stack misaligned |
| `SharedLib_Windows.cfg` (`MCSharedLib`) | `WindowsGetTheirAddress` | the heap base is loaded in `rcx`, and the helper reads `r10` (`shlib.rs:593`, `encode_x64.rs:11-14`) |
| the same, with `MachineCodes <- TakesStr` | `WindowsGetTheirAddress` | a string's address is loaded in `rsi`, and `LoadStrAddr` stores `rcx` (`encode_x64.rs:1414`) |
| the same, with `MachineCodes <- TakesFn` | `WindowsGetTheirAddress` | a function's address is 0 and loaded in `rax`, and `FnAddr` stores `rcx` (`encode_x64.rs:1053`) |
| the same, with `MachineCodes <- BuildsArgv` | `WindowsGetTheirAddress` | the argv slot's address is 0 (`encode_x64.rs:636`, `1110`) |
| `Instr_Overflow.cfg` (`MCInstr`) | `DivisionNeverAborts` | the least integer over -1 traps; the comment at `encode_x64.rs:1622-1629` speaks of a value and no abort |
| `Digits_MinusInside.cfg` (`MCDigits`) | `ReadsEachLine` | `1-2` reads as -12, where `runtime.rs:91-95` says that parsing stops at the first non-digit. With `Typed <- TooLong` the rest of a long line is the next number; with `Typed <- AnyLine` and `Coalesced = TRUE` lines that come in one read are lost; with `Typed <- NoNewline` a minus left on the stack past the input may count |
| `Argv_Jit.cfg` (`MCArgv`) | `NeverAFault` | under the JIT the stub of `@start` stores the host's stack pointer in the slot (`encode_x64.rs:635`), and the word taken for `argc` is a return address; the comments at 1099-1101 and 1115 say the slot stays zero |
| `Argv_WildArgc.cfg` (`MCArgv`) | `NeverAFault` | with more arguments than the cap the loop goes on past the array |
| `Argv_LongLead.cfg` (`MCArgv`) | `ArgumentsAreDecoded` | F8 90 80 80 is decoded as a code point, where the comment at `encode_x64.rs:1369-1371` has a replacement character |
| `Image_Leak.cfg` (`MCImage`) | `NothingIsLeft` | when `mprotect` fails, `rbxt_run` returns without unmapping (`lib.rs:182-184`) |
| the same, with `Modes <- ElfOnly` | `SectionsAreWhereTheySay` | `write_sh` is called with its arguments in other positions than it declares (`elf.rs:288-294`, `337`): section headers do not give place and length |

CHECK_DEADLOCK is FALSE where the system stops: the scan ends, a function returns,
a program stops allocating, a process exits, an image is written and called
once, a buffer is decoded, an instruction is done. `CallFrame` never stops and is checked for deadlock.

**Fairness.** `allocate` is sequential code, so its steps are weakly fair; a
compiled function need not be run, so its execution is not. A thread inside a
heap helper keeps running (weak fairness on helper steps); what the program does
is open. `Instr`, `Argv` and `Digits` are straight runs of machine code in one process, which goes on
while it can (weak fairness of the next step); that their loops end is what the
liveness properties `AlwaysEnds`, `AlwaysReturns` and `EveryLineRead` say. The other modules
have no liveness property: their loops run over finite lists.

`TypeOK` of `RegAlloc`, `Heap`, `CallFrame`, `SharedLib`, `Image` and `McSerialize` documents their state; it is
implied by what the runs evaluate and is not listed. For `LinearScan`, `RegAlloc`, `ExcState` and `Image` it is proved;
of `SharedLib`'s, the part the other proofs need is `ImageTypes`.

## 4. Proved, checked, not modelled

Proved for every value of the constants: the theorems of `LinearScanProofs`,
`RegAllocProofs`, `HeapProofs`, `ExcStateProofs`, `ArgvProofs`, `CallFrameProofs`, `SharedLibProofs` and `ImageProofs`, each under the conditions named in section 2 and
the modules' assumptions on their constants. Everything else is model-checked at
the bounds above. In particular liveness (`EveryVregPlaced`, `AllocationEnds`,
`ReleasedReturns`, `AlwaysEnds`, `EveryLineRead`, `AlwaysReturns`) stays with TLC, and so does `Instr`, which
uses the bitwise operators. The provers have no induction over data with a predicate as a parameter; what
needs one number to count along (the shortest path of a live range, a sum, a hash chain) is proved
with a least counterexample and a set in place of the predicate (`LeastNumber`, `UpTo`,
`Recursion` of `SharedLibProofs` and `ImageProofs`, `DownTo` and `TextTurns` of `ArgvProofs`).
`Digits` and `McSerialize` nest several such recursions and are not proved so far.

Not modelled, and why:

* opcode and ModRM bytes: an action stands for what an instruction does, read off the bytes
  and their comments; a wrong byte is a matter for a disassembler, not for a model;
* the inline system calls of the emitter (`WriteStr`, file operations, `Exit`): argument
  registers are set and `syscall` executed, with no state of their own;
* coroutine stubs and `TaskAlloc`: the object layout is decided in the core crate;
* header bytes, symbol and string tables, stripping and `.dynamic` of the ELF and
  shared-library writers: fixed layouts written field by field;
* `alloc_snippet`: nothing calls it;
* loader sniffing: one comparison with a magic number;
* the core crate: external, only its use here is visible.

## 5. Plan

Done: the allocator and its proofs, execution of allocated functions, heap and its proofs, exceptions
and their proofs, frames and their proofs, instructions, arguments and their proofs, integer
helpers, images and JIT and their proofs, shared libraries and their proofs, object files.

Left, in the order of what they would add:

1. a proof of `Lossless`, section by section, and of `WritesDecimal` and `ReadsEachLine`;
2. composition of `Argv` with `Heap`, whose blocks are numbered and not placed so far;
3. imports in `Image`, which are only in `SharedLib`.
