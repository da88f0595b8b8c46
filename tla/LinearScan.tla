----------------------------- MODULE LinearScan -----------------------------
(***************************************************************************)
(* The linear scan of src/x86/regalloc.rs: `allocate` from the point where *)
(* every virtual register has an interval, to the Allocation it returns.   *)
(*                                                                         *)
(* The loop `for iv in ordered` is one step per interval.  `ordered` is    *)
(* sorted by (start, end, vreg), so it is the set `todo` of vregs still to *)
(* come, visited least first.  `free` is kept sorted and only its first    *)
(* element is taken: a set and its minimum.  `active` is a vector whose    *)
(* order matters only to break ties between equal ends (max_by_key returns *)
(* the last of the maxima): a set of entries stamped with their push order.*)
(***************************************************************************)
EXTENDS Integers, FiniteSets

CONSTANTS
  PoolLen,  (* POOL.len(): the callee-saved registers that hold values.    *)
  NVregs,   (* f.vregs: the virtual registers are 0 .. NVregs - 1.         *)
  MaxPos    (* The last instruction position of the function.              *)

ASSUME PoolLenAssumption == PoolLen \in Nat \ {0}
ASSUME NVregsAssumption  == NVregs \in Nat
ASSUME MaxPosAssumption  == MaxPos \in Nat

VReg == 0 .. NVregs - 1
Pool == 0 .. PoolLen - 1
Pos  == 0 .. MaxPos

(* An interval holds every position from its first touch to its last.      *)
LiveRange == {r \in [start : Pos, end : Pos] : r.start <= r.end}

Reg(r)  == [kind |-> "Reg",  n |-> r]
Slot(k) == [kind |-> "Slot", n |-> k]

(* Slot(u32::MAX), what `loc` is filled with before the scan.              *)
Unplaced == [kind |-> "Unplaced", n |-> 0]

Loc == [kind : {"Reg"}, n : Pool] \cup [kind : {"Slot"}, n : Nat] \cup {Unplaced}

Active == [end : Pos, reg : Pool, vreg : VReg, pushed : Nat]

VARIABLES
  range,    (* The input: the interval of each vreg.  Never written.       *)
  todo,     (* The vregs of `ordered` the loop has not reached.            *)
  turn,     (* How many intervals it has visited.                          *)
  loc,      (* vreg -> where it lives.                                     *)
  free,     (* Pool indexes no active entry holds.                         *)
  active,   (* The entries (end, pool index, vreg) still held.             *)
  spills    (* Spill slots handed out.                                     *)

vars == <<range, todo, turn, loc, free, active, spills>>

-----------------------------------------------------------------------------

Init ==
  /\ range \in [VReg -> LiveRange]
  /\ todo = VReg
  /\ turn = 0
  /\ loc = [v \in VReg |-> Unplaced]
  /\ free = Pool
  /\ active = {}
  /\ spills = 0

(* ordered.sort_by_key(|r| (r.start, r.end, r.vreg)).                      *)
Before(v, w) ==
  \/ range[v].start < range[w].start
  \/ /\ range[v].start = range[w].start
     /\ \/ range[v].end < range[w].end
        \/ range[v].end = range[w].end /\ v < w

IsNext(v) == v \in todo /\ \A w \in todo \ {v} : Before(v, w)

(* The entries left once those that ended before v begins are expired, and *)
(* the pool indexes that are free by then.                                 *)
LiveMut(v) == {a \in active : a.end > range[v].start}
Live(v)    == {a \in active : a.end >= range[v].start}

AvailLostMut(v)  == free
AvailFieldMut(v) == free \cup {a.vreg : a \in active \ Live(v)}
Avail(v)         == free \cup {a.reg : a \in active \ Live(v)}

(* active.iter().max_by_key(|&(e, _, _)| e): the last of the furthest.     *)
Furthest(a, S) ==
  /\ a \in S
  /\ \A b \in S \ {a} :
       \/ b.end < a.end
       \/ b.end = a.end /\ b.pushed < a.pushed

(* Where a vreg that gets no register goes: Loc::Slot(spills).             *)
NewSlotMut    == Slot(spills + 1)
NoNewSlotMut  == Unplaced
NewSlot       == Slot(spills)

(* A stolen register's entry gets its new resident (a.2 = iv.vreg).        *)
HandOverMut(a, v) == a
HandOver(a, v)    == [a EXCEPT !.vreg = v]

Visited(v) ==
  /\ todo' = todo \ {v}
  /\ turn' = turn + 1
  /\ UNCHANGED range

(* A register is free: v gets the lowest one.                              *)
TakeFree(v) ==
  /\ IsNext(v)
  /\ \E r \in Avail(v) :
       /\ \A q \in Avail(v) : r <= q
       /\ loc' = [loc EXCEPT ![v] = Reg(r)]
       /\ free' = Avail(v) \ {r}
       /\ active' = Live(v) \cup
            {[end |-> range[v].end, reg |-> r, vreg |-> v, pushed |-> turn]}
  /\ Visited(v)
  /\ UNCHANGED spills

(* No register is free and the furthest entry outlasts v: v takes over its *)
(* register, the vreg that lived there moves to a fresh slot, and the      *)
(* entry changes hands with its end as it was.                             *)
Steal(v) ==
  /\ IsNext(v)
  /\ Avail(v) = {}
  /\ \E a \in Live(v) :
       /\ Furthest(a, Live(v))
       /\ a.end > range[v].end
       /\ loc' = [loc EXCEPT ![v] = Reg(a.reg), ![a.vreg] = NewSlot]
       /\ active' = (Live(v) \ {a}) \cup {HandOver(a, v)}
  /\ free' = {}
  /\ spills' = spills + 1
  /\ Visited(v)

(* No register is free and no entry outlasts v: v itself goes to a slot.   *)
SpillNewcomer(v) ==
  /\ IsNext(v)
  /\ Avail(v) = {}
  /\ \A a \in Live(v) : a.end <= range[v].end
  /\ loc' = [loc EXCEPT ![v] = NewSlot]
  /\ active' = Live(v)
  /\ free' = {}
  /\ spills' = spills + 1
  /\ Visited(v)

Visit(v) == TakeFree(v) \/ Steal(v) \/ SpillNewcomer(v)

Next == \E v \in VReg : Visit(v)

Spec == Init /\ [][Next]_vars

(* The loop is plain sequential code: it runs until it is done.            *)
FairSpec == Spec /\ WF_vars(Next)

-----------------------------------------------------------------------------
(* Properties.                                                             *)

(* Types, and the counters that index into `loc` and the frame: a vreg     *)
(* gets at most one slot.                                                  *)
TypeOK ==
  /\ range \in [VReg -> LiveRange]
  /\ todo \subseteq VReg
  /\ turn \in Nat
  /\ loc \in [VReg -> Loc]
  /\ free \subseteq Pool
  /\ active \subseteq Active
  /\ spills \in Nat

(* Two ranges conflict when they share a position.                         *)
Overlap(v, w) ==
  /\ range[v].start <= range[w].end
  /\ range[w].start <= range[v].end

Placed == VReg \ todo

(* The allocator's contract: two vregs that are live at one position never *)
(* share a home, whatever was spilled, stolen or reused on the way.  The   *)
(* emitter keeps each vreg in loc[vreg] for its whole life and relies on   *)
(* nobody else writing there.                                              *)
ConflictFree ==
  \A v, w \in Placed : v # w /\ Overlap(v, w) => loc[v] # loc[w]

(* `free` and `active` split the pool between them: no register is lost    *)
(* when an entry expires or changes hands, and none is handed out twice.   *)
PoolPartition ==
  /\ \A r \in Pool : r \in free <=> \A a \in active : a.reg # r
  /\ \A a, b \in active : a.reg = b.reg => a = b

(* The frame the prologue reserves (8 * spills bytes) holds every slot in  *)
(* use, each slot belongs to one vreg, and none is reserved for nothing.   *)
FrameExact ==
  /\ \A v, w \in Placed : loc[v] = loc[w] /\ loc[v].kind = "Slot" => v = w
  /\ \A v \in Placed : loc[v].kind = "Slot" => loc[v].n < spills
  /\ \A k \in 0 .. spills - 1 : \E v \in Placed : loc[v] = Slot(k)

(* A function whose values fit the pool is never given a frame: the scan   *)
(* spills only if some position has more live values than registers.       *)
SpillsNeedPressure ==
  spills > 0 =>
    \E p \in Pos :
      Cardinality({v \in VReg : range[v].start <= p /\ p <= range[v].end}) > PoolLen

(* Homes are given once and only ever taken away for a slot: a vreg in a   *)
(* slot stays there, and one in a register never moves to another.         *)
HomesSettle ==
  [][\A v \in VReg :
       loc'[v] # loc[v] =>
         \/ loc[v] = Unplaced
         \/ loc[v].kind = "Reg" /\ loc'[v].kind = "Slot"]_vars

(* The scan ends, and then no vreg is left with Slot(u32::MAX), whose      *)
(* address the emitter would compute outside the frame.                    *)
EveryVregPlaced == <>(todo = {} /\ \A v \in VReg : loc[v] # Unplaced)

-----------------------------------------------------------------------------
(* The strengthening that makes ConflictFree inductive.                    *)

(* An entry's register is its vreg's home, and the entry's end is at least *)
(* the end of that vreg (after a steal it is the end of an earlier one).   *)
EntriesCover ==
  \A a \in active :
    /\ a.vreg \in Placed
    /\ loc[a.vreg] = Reg(a.reg)
    /\ range[a.vreg].end <= a.end

(* A vreg in a register holds it through an entry, or ended before every   *)
(* interval still to come.                                                 *)
HeldOrOver ==
  \A v \in Placed : loc[v].kind = "Reg" =>
    \/ \E a \in active : a.vreg = v
    \/ \A w \in todo : range[v].end < range[w].start

PlacedExact == \A v \in VReg : v \in todo <=> loc[v] = Unplaced

(* Together with TypeOK, PoolPartition and FrameExact these say all that   *)
(* the next interval's choice of home depends on.                          *)
ScanInv ==
  /\ TypeOK
  /\ EntriesCover
  /\ HeldOrOver
  /\ PlacedExact
  /\ PoolPartition
  /\ FrameExact
  /\ ConflictFree

-----------------------------------------------------------------------------
(* What the comments say of the scan, and the code does not do.            *)

(* regalloc.rs:321-323: "Spill whichever live range (newcomer included)    *)
(* extends furthest".  Of the vreg that goes to a slot when v is visited   *)
(* and the residents of registers still live at that point, none ends      *)
(* later than the one spilled.                                             *)
SpillsTheFurthest ==
  [][\A s, w \in VReg :
       LET newlySpilled == loc[s].kind # "Slot" /\ loc'[s].kind = "Slot"
           liveInReg    == loc'[w].kind = "Reg" /\ \E a \in active' : a.vreg = w
       IN  newlySpilled /\ liveInReg => range[w].end <= range[s].end]_vars

(* regalloc.rs:7-9: "a range ending exactly where another begins does not  *)
(* conflict".  With a range not counted at its last position (unless that  *)
(* is its only one), a spill needs more live values than registers.        *)
BoundariesDoNotConflict ==
  spills > 0 =>
    \E p \in Pos :
      Cardinality({v \in VReg : /\ range[v].start <= p
                                /\ p < range[v].end \/ p = range[v].start}) > PoolLen
=============================================================================
