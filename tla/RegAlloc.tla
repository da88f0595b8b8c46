------------------------------ MODULE RegAlloc ------------------------------
(***************************************************************************)
(* Register allocation of one IR function and the execution of the code    *)
(* emitted with it.                                                        *)
(*                                                                         *)
(* `allocate` of src/x86/regalloc.rs is modelled whole: the backward       *)
(* liveness fixpoint (one action per block of a sweep), the intervals, and *)
(* the scan (the actions of LinearScan).  The function then runs as        *)
(* emit_function of src/x86/encode_x64.rs lays it out: the prologue puts   *)
(* the parameters in their homes and each instruction reads its operands   *)
(* from their homes and writes its result to its own.                      *)
(*                                                                         *)
(* Values are abstracted to whose they are: holder[h] is the vreg whose    *)
(* last written value home h holds.  Registers and slots are the homes; a  *)
(* throw gives the registers back the values they had when the innermost   *)
(* handler was entered, drops that handler and leaves the slots alone.     *)
(***************************************************************************)
EXTENDS Integers, Sequences, FiniteSets, FiniteSetsExt

CONSTANTS
  PoolLen, NVregs, MaxPos,  (* As in LinearScan.                           *)
  Functions                 (* The IR functions that may be compiled.      *)

ASSUME PoolLenAssumption == PoolLen \in Nat \ {0}
ASSUME NVregsAssumption  == NVregs \in Nat
ASSUME MaxPosAssumption  == MaxPos \in Nat

VARIABLES
  fn,        (* The function: receiver, arity and blocks.                  *)
  phase,     (* "live", "intervals", "scan", "entry", "run" or "left".     *)
  bi,        (* The block the sweep looks at next; 0 when it is through.   *)
  changed,   (* Whether this sweep changed a set.                          *)
  liveIn, liveOut,
  range, todo, turn, loc, free, active, spills,   (* LinearScan.           *)
  pc,        (* Block and instruction about to execute.                    *)
  holder,    (* home -> the vreg whose current value it holds, or Nobody.  *)
  written,   (* Vregs written so far on this execution.                    *)
  handlers   (* The handlers entered in this frame, the innermost last.    *)

liveVars == <<bi, changed, liveIn, liveOut>>
scanVars == <<range, todo, turn, loc, free, active, spills>>
runVars  == <<pc, holder, written, handlers>>
vars     == <<fn, phase, liveVars, scanVars, runVars>>

LS == INSTANCE LinearScan

VReg    == LS!VReg
Nobody  == -1

-----------------------------------------------------------------------------
(* The IR, by what the allocator and the emitter look at.                  *)

(* op "Op" stands for every instruction whose operands are all read and    *)
(* whose dst is only written (Const, Mov, Bin, Cmp, Alloc, LoadField, ...),*)
(* "Call" for CallFn, CallStatic, CallVirt, CallImport and CallFnAddr,     *)
(* "Effect" for those without a dst (StoreField, Write*, Retain, ...).     *)
Instr(op, dst, args) == [op |-> op, dst |-> dst, args |-> args]
Op(dst, args)   == Instr("Op", dst, args)
Call(dst, args) == Instr("Call", dst, args)
Effect(args)    == Instr("Effect", Nobody, args)
ScanInt(dst)    == Instr("ScanInt", dst, {})
Enter(dst)      == Instr("HandlerEnter", dst, {})
Pop             == Instr("HandlerPop", Nobody, {})

Term(op, v, to) == [op |-> op, v |-> v, to |-> to]
Branch(c, t, f) == Term("Branch", c, <<t, f>>)
Jump(t)         == Term("Jump", Nobody, <<t, t>>)
Ret(v)          == Term("Ret", v, <<>>)
Unwind(v)       == Term("Unwind", v, <<>>)

Block(instrs, term) == [instrs |-> instrs, term |-> term]

Ops   == {"Op", "Call", "Effect", "ScanInt", "HandlerEnter", "HandlerPop"}
Terms == {"Branch", "Jump", "Ret", "Unwind", "Rethrow", "ExitWith", "Exit"}

(* What the allocator indexes by: `loc` has an entry for each vreg below   *)
(* f.vregs, live_in one for each block of the function.                    *)
IrInstr ==
  {i \in [op : Ops, dst : VReg \cup {Nobody}, args : SUBSET VReg] :
     i.op \notin {"Effect", "HandlerPop"} => i.dst \in VReg}

IrTerm(n) ==
  {t \in [op : Terms, v : VReg \cup {Nobody}, to : Seq(1 .. n)] :
     /\ t.op \in {"Branch", "Ret", "Unwind", "ExitWith"} => t.v \in VReg
     /\ t.op \in {"Branch", "Jump"} => Len(t.to) = 2}

IsFunction(f) ==
  /\ f.receiver \in BOOLEAN /\ f.arity \in Nat
  /\ Len(f.blocks) \in Nat \ {0}
  /\ f.receiver => 0 \in VReg
  /\ \A b \in 1 .. Len(f.blocks) :
       /\ f.blocks[b].instrs \in Seq(IrInstr)
       /\ f.blocks[b].term \in IrTerm(Len(f.blocks))

ASSUME FunctionsAssumption == \A f \in Functions : IsFunction(f)

Blocks     == 1 .. Len(fn.blocks)
InstrsOf(b) == fn.blocks[b].instrs
TermOf(b)   == fn.blocks[b].term

(* uses_and_defs.  A call lists its dst among its uses; ScanInt lists      *)
(* nothing at all.                                                         *)
DefOf(i) == IF i.op \in {"Op", "Call", "HandlerEnter"} THEN {i.dst} ELSE {}
UseOf(i) == i.args \cup (IF i.op = "Call" THEN {i.dst} ELSE {})

(* The uses `allocate` sees in a terminator: Unwind's source is not one.   *)
TermUseOf(t) == IF t.op \in {"Branch", "Ret", "ExitWith"} THEN {t.v} ELSE {}

(* What the emitted instruction writes, and what it and the emitted        *)
(* terminator read.                                                        *)
WritesOf(i)    == IF i.op \in {"Op", "Call", "HandlerEnter", "ScanInt"} THEN {i.dst} ELSE {}
ReadsOf(i)     == i.args
TermReadsOf(t) == IF t.op \in {"Branch", "Ret", "ExitWith", "Unwind"} THEN {t.v} ELSE {}

-----------------------------------------------------------------------------
(* Liveness.                                                               *)

Kill(b) == UNION {DefOf(InstrsOf(b)[i]) : i \in DOMAIN InstrsOf(b)}

KilledBefore(b, i) == UNION {DefOf(InstrsOf(b)[j]) : j \in 1 .. i - 1}

UpwardUses(b) ==
  (UNION {UseOf(InstrsOf(b)[i]) \ KilledBefore(b, i) : i \in DOMAIN InstrsOf(b)})
    \cup (TermUseOf(TermOf(b)) \ Kill(b))

Succs(b) == {TermOf(b).to[k] : k \in DOMAIN TermOf(b).to}

(* A block's live-in set, from its live-out set, and whether the sweep found*)
(* anything new there.                                                     *)
LiveInOfMut(b, out) == UpwardUses(b) \cup out
LiveInOf(b, out)    == UpwardUses(b) \cup (out \ Kill(b))

DiffersMut(b, out, inn) == out # liveIn[b] \/ inn # liveOut[b]
Differs(b, out, inn)    == out # liveOut[b] \/ inn # liveIn[b]

(* One block of the sweep `for bi in (0..nb).rev()`.                       *)
SweepBlock ==
  /\ phase = "live" /\ bi > 0
  /\ LET out == UNION {liveIn[s] : s \in Succs(bi)}
         inn == LiveInOf(bi, out)
     IN  /\ liveOut' = [liveOut EXCEPT ![bi] = out]
         /\ liveIn'  = [liveIn EXCEPT ![bi] = inn]
         /\ changed' = (changed \/ Differs(bi, out, inn))
  /\ bi' = bi - 1
  /\ UNCHANGED <<fn, phase, scanVars, runVars>>

(* `while changed`: sweep again, or go on with the sets as they are.       *)
EndSweep ==
  /\ phase = "live" /\ bi = 0
  /\ \/ /\ changed
        /\ bi' = Len(fn.blocks)
        /\ changed' = FALSE
        /\ UNCHANGED phase
     \/ /\ ~changed
        /\ phase' = "intervals"
        /\ UNCHANGED <<bi, changed>>
  /\ UNCHANGED <<fn, liveIn, liveOut, scanVars, runVars>>

-----------------------------------------------------------------------------
(* Intervals.                                                              *)

(* One position per instruction and one per terminator, in layout order.   *)
EntryIn(f, b) == MapThenSumSet(LAMBDA c : Len(f.blocks[c].instrs) + 1, 1 .. b - 1)
EntryMut(b)   == EntryIn(fn, b + 1)
Entry(b)      == EntryIn(fn, b)
TermPos(b)    == Entry(b) + Len(InstrsOf(b))

(* MaxPos is a position no function goes past.                             *)
ASSUME LayoutAssumption ==
  \A f \in Functions : \A b \in 1 .. Len(f.blocks) :
    EntryIn(f, b) \in Nat /\ EntryIn(f, b) + Len(f.blocks[b].instrs) <= MaxPos

(* The vregs the allocator takes for incoming ones: 0 .. Incoming - 1.     *)
Incoming == fn.arity + (IF fn.receiver THEN 1 ELSE 0)

(* Where liveness touches v: on entry to a block it is live into, and past *)
(* the last instruction of one it is live out of.                          *)
LiveTouchesMut(v) == {Entry(b) : b \in {c \in Blocks : v \in liveIn[c]}}
LiveTouches(v) ==
  {Entry(b) : b \in {c \in Blocks : v \in liveIn[c]}}
    \cup {TermPos(b) : b \in {c \in Blocks : v \in liveOut[c]}}

(* Every position at which `allocate` touches v.                           *)
Touched(v) ==
  {p \in {0} : v < Incoming}
  \cup LiveTouches(v)
  \cup {TermPos(b) : b \in {c \in Blocks : v \in TermUseOf(TermOf(c))}}
  \cup UNION {{Entry(b) + i - 1 : i \in {j \in DOMAIN InstrsOf(b) :
                 v \in UseOf(InstrsOf(b)[j]) \cup DefOf(InstrsOf(b)[j])}} : b \in Blocks}

(* From first touch to last; a vreg never touched gets (0, 0).             *)
Intervals ==
  /\ phase = "intervals"
  /\ range' = [v \in VReg |->
       IF Touched(v) = {} THEN [start |-> 0, end |-> 0]
       ELSE [start |-> Min(Touched(v)), end |-> Max(Touched(v))]]
  /\ phase' = "scan"
  /\ UNCHANGED <<fn, liveVars, todo, turn, loc, free, active, spills, runVars>>

(* The scan, one interval at a time.                                       *)
Scan ==
  /\ phase = "scan" /\ todo # {}
  /\ LS!Next
  /\ UNCHANGED <<fn, phase, liveVars, runVars>>

EndScan ==
  /\ phase = "scan" /\ todo = {}
  /\ phase' = "entry"
  /\ UNCHANGED <<fn, liveVars, scanVars, runVars>>

-----------------------------------------------------------------------------
(* Execution.                                                              *)

Home == {LS!Reg(r) : r \in 0 .. PoolLen - 1} \cup {LS!Slot(k) : k \in 0 .. NVregs - 1}

(* The vregs the prologue fills, in increasing order: the receiver into    *)
(* v0, parameter p into v(p + 1) where that vreg exists.                   *)
Params == (IF fn.receiver THEN {0} ELSE {}) \cup (1 .. fn.arity \cap VReg)

(* Each put is a store to the parameter's home: of two parameters with one *)
(* home the later stays.                                                   *)
Prologue ==
  /\ phase = "entry"
  /\ holder' = [h \in Home |->
       LET here == {p \in Params : loc[p] = h}
       IN  IF here = {} THEN Nobody ELSE Max(here)]
  /\ written' = Params
  /\ phase' = "run"
  /\ UNCHANGED <<fn, liveVars, scanVars, pc, handlers>>

AtInstr == pc.i <= Len(InstrsOf(pc.b))
ThisInstr == InstrsOf(pc.b)[pc.i]
ThisTerm  == TermOf(pc.b)

(* Storing v's new value: whatever its home held before is gone.           *)
Stored(h, v) == [h EXCEPT ![loc[v]] = v]

(* A handler is where its HandlerEnter stands, what the homes held there   *)
(* and the vregs written since.                                            *)
HandlerInstr(h) == InstrsOf(h.at.b)[h.at.i]
Innermost == handlers[Len(handlers)]
Outer     == SubSeq(handlers, 1, Len(handlers) - 1)

(* The handlers, after a write to the vregs of d.                          *)
Noted(hs, d) == [k \in DOMAIN hs |-> [hs[k] EXCEPT !.since = @ \cup d]]

(* Any instruction but those about handlers.                               *)
Execute ==
  /\ phase = "run" /\ AtInstr
  /\ ThisInstr.op \notin {"HandlerEnter", "HandlerPop"}
  /\ LET d == WritesOf(ThisInstr)
     IN  /\ holder' = (IF d = {} THEN holder ELSE Stored(holder, ThisInstr.dst))
         /\ written' = written \cup d
         /\ handlers' = Noted(handlers, d)
  /\ pc' = [pc EXCEPT !.i = @ + 1]
  /\ UNCHANGED <<fn, phase, liveVars, scanVars>>

(* HandlerEnter saves the pool registers in the next jump buffer, counts it*)
(* and returns 0; the place to come back to is right after the call, where *)
(* rax is put in dst's home.                                               *)
EnterHandler ==
  /\ phase = "run" /\ AtInstr /\ ThisInstr.op = "HandlerEnter"
  /\ handlers' = Append(Noted(handlers, {ThisInstr.dst}),
                        [at |-> pc, saved |-> holder, since |-> {}])
  /\ holder' = Stored(holder, ThisInstr.dst)
  /\ written' = written \cup {ThisInstr.dst}
  /\ pc' = [pc EXCEPT !.i = @ + 1]
  /\ UNCHANGED <<fn, phase, liveVars, scanVars>>

(* The depth goes down by one: the handler entered before is the innermost *)
(* again.                                                                  *)
PopHandler ==
  /\ phase = "run" /\ AtInstr /\ ThisInstr.op = "HandlerPop"
  /\ handlers' = Outer
  /\ pc' = [pc EXCEPT !.i = @ + 1]
  /\ UNCHANGED <<fn, phase, liveVars, scanVars, holder, written>>

(* The longjmp to the innermost handler, which is counted off: registers as*)
(* saved (a vreg written since then is stale in them), slots as they are,  *)
(* and HandlerEnter returns again, with 1.                                 *)
Land ==
  LET back == [h \in Home |->
        IF h.kind = "Slot" THEN holder[h]
        ELSE IF Innermost.saved[h] \in Innermost.since THEN Nobody
        ELSE Innermost.saved[h]]
      dst == HandlerInstr(Innermost).dst
  IN  /\ holder' = Stored(back, dst)
      /\ pc' = [Innermost.at EXCEPT !.i = @ + 1]
      /\ handlers' = Noted(Outer, {dst})
      /\ UNCHANGED <<fn, phase, liveVars, scanVars, written>>

(* A callee throws to the innermost handler of this frame: the call's dst  *)
(* is not written.                                                         *)
CallThrows ==
  /\ phase = "run" /\ AtInstr /\ ThisInstr.op = "Call"
  /\ handlers # <<>>
  /\ Land

Terminate ==
  /\ phase = "run" /\ ~AtInstr
  /\ \/ \E b \in IF ThisTerm.op = "Jump" THEN {ThisTerm.to[1]} ELSE Succs(pc.b) :
          /\ pc' = [b |-> b, i |-> 1]
          /\ UNCHANGED <<fn, phase, liveVars, scanVars, holder, written, handlers>>
     \/ /\ \/ ThisTerm.op \in {"Ret", "ExitWith", "Exit"}
           \/ ThisTerm.op \in {"Unwind", "Rethrow"} /\ handlers = <<>>
        /\ phase' = "left"
        /\ UNCHANGED <<fn, liveVars, scanVars, runVars>>
     \/ ThisTerm.op \in {"Unwind", "Rethrow"} /\ handlers # <<>> /\ Land

-----------------------------------------------------------------------------

Init ==
  /\ fn \in Functions
  /\ phase = "live"
  /\ bi = Len(fn.blocks) /\ changed = FALSE
  /\ liveIn  = [b \in 1 .. Len(fn.blocks) |-> {}]
  /\ liveOut = [b \in 1 .. Len(fn.blocks) |-> {}]
  /\ range = [v \in VReg |-> [start |-> 0, end |-> 0]]
  /\ todo = VReg /\ turn = 0
  /\ loc = [v \in VReg |-> LS!Unplaced]
  /\ free = LS!Pool /\ active = {} /\ spills = 0
  /\ pc = [b |-> 1, i |-> 1]
  /\ holder = [h \in Home |-> Nobody]
  /\ written = {}
  /\ handlers = <<>>

Allocate == SweepBlock \/ EndSweep \/ Intervals \/ Scan \/ EndScan
Run == Prologue \/ Execute \/ EnterHandler \/ PopHandler \/ CallThrows \/ Terminate

Next == Allocate \/ Run

Spec == Init /\ [][Next]_vars

(* Compiling is sequential code; a compiled function need not be run.      *)
FairSpec == Spec /\ WF_vars(Allocate)

-----------------------------------------------------------------------------
(* Properties.                                                             *)

LiveTypes ==
  /\ phase \in {"live", "intervals", "scan", "entry", "run", "left"}
  /\ bi \in 0 .. Len(fn.blocks)
  /\ changed \in BOOLEAN
  /\ liveIn \in [Blocks -> SUBSET VReg] /\ liveOut \in [Blocks -> SUBSET VReg]

Handler == [at : [b : Blocks, i : Nat], saved : [Home -> VReg \cup {Nobody}],
            since : SUBSET VReg]

HandlerTypes ==
  /\ handlers \in Seq(Handler)
  /\ \A k \in DOMAIN handlers :
       /\ handlers[k].at.i \in DOMAIN InstrsOf(handlers[k].at.b)
       /\ HandlerInstr(handlers[k]).op = "HandlerEnter"

RunTypes ==
  /\ pc \in [b : Blocks, i : Nat] /\ pc.i \in 1 .. Len(InstrsOf(pc.b)) + 1
  /\ holder \in [Home -> VReg \cup {Nobody}]
  /\ written \subseteq VReg
  /\ HandlerTypes

TypeOK == fn \in Functions /\ LiveTypes /\ LS!TypeOK /\ RunTypes

(* The emitted code computes what the IR does: whenever an instruction or  *)
(* a terminator reads a vreg that was written on the way there, the home   *)
(* it reads from still holds that vreg's last value.  This spans the whole *)
(* allocation: liveness, loop back-edges, intervals, spilling and the      *)
(* prologue.                                                               *)
ReadsAreIntact ==
  phase = "run" =>
    \A v \in (IF AtInstr THEN ReadsOf(ThisInstr) ELSE TermReadsOf(ThisTerm)) \cap written :
      holder[loc[v]] = v

(* A thrown value its block's last instruction touches.                    *)
ThrownAtOnce(b) ==
  {v \in VReg :
     /\ TermOf(b).op = "Unwind" /\ v = TermOf(b).v
     /\ \E j \in DOMAIN InstrsOf(b) :
          j = Len(InstrsOf(b)) /\ v \in UseOf(InstrsOf(b)[j]) \cup DefOf(InstrsOf(b)[j])}

(* What is still to be read of v before it is next defined, when control is*)
(* about to execute instruction i of block b (the terminator is the last). *)
NeededAt(b, i) ==
  {v \in VReg :
     \/ \E j \in i .. Len(InstrsOf(b)) :
          /\ v \in UseOf(InstrsOf(b)[j])
          /\ \A k \in i .. j - 1 : v \notin DefOf(InstrsOf(b)[k])
     \/ /\ v \in TermUseOf(TermOf(b)) \cup liveOut[b]
        /\ \A k \in i .. Len(InstrsOf(b)) : v \notin DefOf(InstrsOf(b)[k])
     \/ i = Len(InstrsOf(b)) + 1 /\ v \in ThrownAtOnce(b)}

MayLand ==
  /\ handlers # <<>>
  /\ IF AtInstr THEN ThisInstr.op = "Call" ELSE ThisTerm.op \in {"Unwind", "Rethrow"}

(* The functions the allocation is right for.  A parameter's interval      *)
(* begins with the function, as it does for every parameter read before it *)
(* is assigned; a terminator throws only what its block's last instruction *)
(* touches; an integer read from stdin is used; and when a throw may land, *)
(* a value assigned since the handler was entered and read after the       *)
(* landing lives in a slot.                                                *)
InScope ==
  /\ phase = "entry" => \A p \in Params : range[p].start = 0
  /\ \A b \in Blocks : TermOf(b).op = "Unwind" => TermOf(b).v \in ThrownAtOnce(b)
  /\ phase = "run" =>
       /\ AtInstr /\ ThisInstr.op = "ScanInt" =>
            ThisInstr.dst \in NeededAt(pc.b, pc.i + 1)
       /\ MayLand =>
            \A v \in Innermost.since
                   \cap NeededAt(Innermost.at.b, Innermost.at.i + 1) :
              v = HandlerInstr(Innermost).dst \/ loc[v].kind = "Slot"

(* Liveness is exact: v is live into b if and only if some path from b     *)
(* reaches an upward-exposed use of v before any definition of it.         *)
LivePath(b, v) ==
  \E n \in Blocks : \E p \in [1 .. n -> Blocks] :
    /\ p[1] = b
    /\ v \in UpwardUses(p[n])
    /\ \A k \in 1 .. n - 1 : p[k + 1] \in Succs(p[k]) /\ v \notin Kill(p[k])

LivenessIsExact ==
  phase = "intervals" =>
    \A b \in Blocks : /\ liveIn[b] = {v \in VReg : LivePath(b, v)}
                      /\ liveOut[b] = UNION {liveIn[s] : s \in Succs(b)}

(* What makes ReadsAreIntact and LivenessIsExact inductive.                *)

(* A block's sets as the sweep would compute them now.                     *)
Settled(b) ==
  /\ liveOut[b] = UNION {liveIn[s] : s \in Succs(b)}
  /\ liveIn[b] = LiveInOf(b, liveOut[b])

(* Blocks swept without a change are settled, and stay so.                 *)
SweptAreSettled ==
  /\ phase = "live" /\ ~changed => \A b \in Blocks : b > bi => Settled(b)
  /\ phase # "live" => \A b \in Blocks : Settled(b)

(* Every vreg in a live-in set has a path without a repeated block.        *)
SimplePath(b, v) ==
  \E n \in Blocks : \E p \in [1 .. n -> Blocks] :
    /\ p[1] = b
    /\ v \in UpwardUses(p[n])
    /\ \A k \in 1 .. n - 1 : p[k + 1] \in Succs(p[k]) /\ v \notin Kill(p[k])
    /\ \A k, m \in 1 .. n : p[k] = p[m] => k = m

LiveInHasPath == \A b \in Blocks : \A v \in liveIn[b] : SimplePath(b, v)

(* An interval holds every position its vreg is touched at.                *)
RangesCover ==
  phase \notin {"live", "intervals"} =>
    \A v \in VReg : \A p \in Touched(v) : range[v].start <= p /\ p <= range[v].end

(* The scan has not begun before the intervals are there, and is over when *)
(* the code runs.                                                          *)
ScanInPlace ==
  /\ phase \in {"live", "intervals"} =>
       /\ todo = VReg /\ turn = 0 /\ spills = 0
       /\ loc = [v \in VReg |-> LS!Unplaced]
       /\ free = LS!Pool /\ active = {}
  /\ phase \in {"entry", "run", "left"} => todo = {}
  /\ phase \notin {"run", "left"} => pc = [b |-> 1, i |-> 1] /\ handlers = <<>>

(* Values are where the code expects them: one still needed in its home,   *)
(* one in a slot always, and what a throw to any of the handlers would     *)
(* restore as it was.                                                      *)
HomesHold ==
  phase = "run" =>
    /\ \A v \in written \cap NeededAt(pc.b, pc.i) : holder[loc[v]] = v
    /\ \A v \in written : loc[v].kind = "Slot" => holder[loc[v]] = v
    /\ \A k \in DOMAIN handlers :
         \A v \in (written \ handlers[k].since)
                \cap NeededAt(handlers[k].at.b, handlers[k].at.i + 1) :
           \/ v = HandlerInstr(handlers[k]).dst \/ loc[v].kind = "Slot"
           \/ handlers[k].saved[loc[v]] = v

PlanInv ==
  /\ TypeOK
  /\ LS!ScanInv
  /\ SweptAreSettled
  /\ LiveInHasPath
  /\ RangesCover
  /\ ScanInPlace

AllocInv == PlanInv /\ HomesHold

(* The fixpoint is reached: `while changed` does not loop for ever.        *)
AllocationEnds == <>(phase = "entry")
=============================================================================
