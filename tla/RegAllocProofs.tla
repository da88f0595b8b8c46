--------------------------- MODULE RegAllocProofs ---------------------------
(***************************************************************************)
(* Two results about every function RegAlloc compiles, for every pool and  *)
(* every number of vregs.  The liveness the allocator computes is exactly  *)
(* the existence of a path to a use.  And in a function that keeps to      *)
(* InScope every read finds the value last written to its vreg: through    *)
(* the intervals cut from that liveness, the homes the scan gives them     *)
(* (the theorems of LinearScanProofs), the prologue, the instructions, and *)
(* throws that land in the function's own handlers, one in another.        *)
(***************************************************************************)
EXTENDS RegAlloc, FiniteSetTheorems, SequenceTheorems, TLAPS

P == INSTANCE LinearScanProofs

-----------------------------------------------------------------------------
(* Numbers.                                                                *)

(* A non-empty set of naturals has a least element.                        *)
LEMMA LeastNumber ==
  ASSUME NEW T \in SUBSET Nat, T # {}
  PROVE  \E n \in T : \A m \in T : n <= m
<1> DEFINE R == OpToRel(<, Nat)
<1>1. IsWellFoundedOn(R, Nat)
  BY NatLessThanWellFounded
<1>2. \A x, y \in Nat : y < x => <<y, x>> \in R
  BY DEF OpToRel
<1> HIDE DEF R
<1>3. PICK x \in T : \A y \in T : ~ (<<y, x>> \in R)
  BY <1>1, WFMin
<1>4. \A y \in T : ~ (y < x)
  BY <1>2, <1>3
<1>5. QED
  BY <1>4

(* A non-empty set of naturals with a bound has a greatest element.        *)
LEMMA GreatestNumber ==
  ASSUME NEW T \in SUBSET Nat, T # {}, NEW n \in Nat, \A m \in T : m <= n
  PROVE  \E g \in T : \A m \in T : m <= g
<1> DEFINE U == {n - m : m \in T}
<1>1. U \in SUBSET Nat /\ U # {}
  <2>1. \A m \in T : n - m \in Nat
    OBVIOUS
  <2>2. PICK m \in T : TRUE
    OBVIOUS
  <2>3. n - m \in U
    OBVIOUS
  <2>4. QED
    BY <2>1, <2>3
<1>2. PICK u \in U : \A w \in U : u <= w
  <2> HIDE DEF U
  <2>1. QED
    BY <1>1, LeastNumber
<1>3. PICK g \in T : u = n - g
  BY <1>2
<1>4. \A m \in T : n - g <= n - m
  BY <1>2, <1>3
<1>5. QED
  BY <1>4

(* From first to last of a set of positions is all of the set.             *)
LEMMA FirstAndLast ==
  ASSUME NEW T \in SUBSET LS!Pos, T # {}
  PROVE  /\ Min(T) \in T /\ Max(T) \in T
         /\ \A p \in T : Min(T) <= p /\ p <= Max(T)
<1>1. T \in SUBSET Nat /\ \A m \in T : m <= MaxPos
  BY MaxPosAssumption DEF LS!Pos
<1>2. \E n \in T : \A m \in T : n <= m
  BY <1>1, LeastNumber
<1>3. \E n \in T : \A m \in T : m <= n
  BY <1>1, GreatestNumber, MaxPosAssumption
<1>4. Min(T) \in T /\ \A m \in T : Min(T) <= m
  BY <1>2 DEF Min
<1>5. Max(T) \in T /\ \A m \in T : Max(T) >= m
  BY <1>3 DEF Max
<1>6. QED
  BY <1>1, <1>4, <1>5

-----------------------------------------------------------------------------
(* The function.                                                           *)

(* What every function of Functions gives the steps below.                 *)
LEMMA FunctionShape ==
  ASSUME fn \in Functions
  PROVE  /\ Len(fn.blocks) \in Nat \ {0} /\ fn.arity \in Nat
         /\ \A b \in Blocks :
              /\ InstrsOf(b) \in Seq(IrInstr)
              /\ TermOf(b) \in IrTerm(Len(fn.blocks))
              /\ Succs(b) \subseteq Blocks
              /\ TermUseOf(TermOf(b)) \subseteq VReg
              /\ TermReadsOf(TermOf(b)) \subseteq VReg
              /\ \A i \in DOMAIN InstrsOf(b) :
                   /\ InstrsOf(b)[i] \in IrInstr
                   /\ UseOf(InstrsOf(b)[i]) \subseteq VReg
                   /\ DefOf(InstrsOf(b)[i]) \subseteq VReg
                   /\ WritesOf(InstrsOf(b)[i]) \subseteq VReg
<1>1. IsFunction(fn)
  BY FunctionsAssumption
<1>2. ASSUME NEW b \in Blocks
      PROVE  InstrsOf(b) \in Seq(IrInstr) /\ TermOf(b) \in IrTerm(Len(fn.blocks))
  BY <1>1 DEF IsFunction, Blocks, InstrsOf, TermOf
<1>3. ASSUME NEW b \in Blocks
      PROVE  /\ Succs(b) \subseteq Blocks
             /\ TermUseOf(TermOf(b)) \subseteq VReg
             /\ TermReadsOf(TermOf(b)) \subseteq VReg
  <2>1. TermOf(b).to \in Seq(Blocks)
    BY <1>2 DEF IrTerm, Blocks
  <2>2. Succs(b) \subseteq Blocks
    <3> DEFINE to == TermOf(b).to
    <3>1. to \in Seq(Blocks)
      BY <2>1
    <3> HIDE DEF to
    <3>2. \A k \in DOMAIN to : to[k] \in Blocks
      BY <3>1
    <3>3. QED
      BY <3>2 DEF Succs, to
  <2>3. QED
    BY <1>2, <2>2 DEF IrTerm, TermUseOf, TermReadsOf
<1>4. ASSUME NEW b \in Blocks, NEW i \in DOMAIN InstrsOf(b)
      PROVE  /\ InstrsOf(b)[i] \in IrInstr
             /\ UseOf(InstrsOf(b)[i]) \subseteq VReg
             /\ DefOf(InstrsOf(b)[i]) \subseteq VReg
             /\ WritesOf(InstrsOf(b)[i]) \subseteq VReg
  <2>1. InstrsOf(b)[i] \in IrInstr
    BY <1>2
  <2>2. QED
    BY <2>1 DEF IrInstr, UseOf, DefOf, WritesOf
<1>5. QED
  BY <1>1, <1>2, <1>3, <1>4, Zenon DEF IsFunction

(* Positions: a block's are its entry, one per instruction, its terminator.*)
LEMMA Positions ==
  ASSUME fn \in Functions, NEW b \in Blocks
  PROVE  /\ Entry(b) \in LS!Pos /\ TermPos(b) \in LS!Pos /\ Entry(b) \in Nat
         /\ Len(InstrsOf(b)) \in Nat
         /\ TermPos(b) = Entry(b) + Len(InstrsOf(b))
         /\ \A i \in DOMAIN InstrsOf(b) : Entry(b) + i - 1 \in LS!Pos
<1>1. EntryIn(fn, b) \in Nat /\ EntryIn(fn, b) + Len(fn.blocks[b].instrs) <= MaxPos
  BY LayoutAssumption DEF Blocks
<1>2. Len(InstrsOf(b)) \in Nat /\ DOMAIN InstrsOf(b) = 1 .. Len(InstrsOf(b))
  BY FunctionShape
<1>3. Entry(b) \in Nat /\ Entry(b) + Len(InstrsOf(b)) <= MaxPos
  BY <1>1 DEF Entry, InstrsOf
<1>4. QED
  BY <1>2, <1>3, MaxPosAssumption DEF LS!Pos, TermPos
-----------------------------------------------------------------------------
(* The scan, as LinearScanProofs knows it.                                 *)

LEMMA SameScan ==
  /\ LS!VReg = P!VReg /\ LS!Pool = P!Pool /\ LS!Pos = P!Pos
  /\ LS!LiveRange = P!LiveRange /\ LS!Active = P!Active /\ LS!Unplaced = P!Unplaced
  /\ LS!Loc = P!Loc
  /\ \A k : LS!Reg(k) = P!Reg(k) /\ LS!Slot(k) = P!Slot(k)
<1>1. /\ LS!VReg = P!VReg /\ LS!Pool = P!Pool /\ LS!Pos = P!Pos
      /\ LS!Unplaced = P!Unplaced
      /\ \A k : LS!Reg(k) = P!Reg(k) /\ LS!Slot(k) = P!Slot(k)
  BY DEF LS!VReg, P!VReg, LS!Pool, P!Pool, LS!Pos, P!Pos, LS!Unplaced, P!Unplaced,
         LS!Reg, P!Reg, LS!Slot, P!Slot
<1>2. LS!LiveRange = P!LiveRange /\ LS!Active = P!Active /\ LS!Loc = P!Loc
  BY <1>1, Zenon DEF LS!LiveRange, P!LiveRange, LS!Active, P!Active, LS!Loc, P!Loc
<1>3. QED
  BY <1>1, <1>2

LEMMA SameInvariant ==
  (LS!ScanInv <=> P!ScanInv) /\ (LS!ScanInv' <=> P!ScanInv')
<1>1. (LS!TypeOK <=> P!TypeOK) /\ (LS!TypeOK' <=> P!TypeOK')
  BY SameScan, Zenon DEF LS!TypeOK, P!TypeOK
<1>2. LS!Placed = P!Placed /\ LS!Placed' = P!Placed'
  BY SameScan, Zenon DEF LS!Placed, P!Placed
<1>3. (LS!EntriesCover <=> P!EntriesCover) /\ (LS!EntriesCover' <=> P!EntriesCover')
  BY <1>2, SameScan, Zenon DEF LS!EntriesCover, P!EntriesCover
<1>4. (LS!HeldOrOver <=> P!HeldOrOver) /\ (LS!HeldOrOver' <=> P!HeldOrOver')
  BY <1>2, SameScan, Zenon DEF LS!HeldOrOver, P!HeldOrOver
<1>5. (LS!PlacedExact <=> P!PlacedExact) /\ (LS!PlacedExact' <=> P!PlacedExact')
  BY SameScan, Zenon DEF LS!PlacedExact, P!PlacedExact
<1>6. (LS!PoolPartition <=> P!PoolPartition) /\ (LS!PoolPartition' <=> P!PoolPartition')
  BY SameScan, Zenon DEF LS!PoolPartition, P!PoolPartition
<1>7. (LS!FrameExact <=> P!FrameExact) /\ (LS!FrameExact' <=> P!FrameExact')
  BY <1>2, SameScan, Zenon DEF LS!FrameExact, P!FrameExact
<1>8. (LS!ConflictFree <=> P!ConflictFree) /\ (LS!ConflictFree' <=> P!ConflictFree')
  BY <1>2, SameScan, Zenon DEF LS!ConflictFree, P!ConflictFree, LS!Overlap, P!Overlap
<1>9. QED
  BY <1>1, <1>3, <1>4, <1>5, <1>6, <1>7, <1>8, Zenon DEF LS!ScanInv, P!ScanInv

LEMMA SameStep == LS!Next => P!Next
<1>1. \A v : /\ LS!IsNext(v) <=> P!IsNext(v)
             /\ LS!Avail(v) = P!Avail(v) /\ LS!Live(v) = P!Live(v)
             /\ LS!Visited(v) <=> P!Visited(v)
  BY DEF LS!IsNext, P!IsNext, LS!Before, P!Before, LS!Avail, P!Avail, LS!Live, P!Live,
         LS!Visited, P!Visited
<1>2. LS!NewSlot = P!NewSlot
  BY SameScan DEF LS!NewSlot, P!NewSlot
<1>3. \A v, a, S : LS!Furthest(a, S) = P!Furthest(a, S) /\ LS!HandOver(a, v) = P!HandOver(a, v)
  BY DEF LS!Furthest, P!Furthest, LS!HandOver, P!HandOver
<1>4. ASSUME NEW v \in LS!VReg, LS!TakeFree(v) PROVE P!TakeFree(v)
  <2>1. PICK r \in LS!Avail(v) :
          /\ \A q \in LS!Avail(v) : r <= q
          /\ loc' = [loc EXCEPT ![v] = LS!Reg(r)]
          /\ free' = LS!Avail(v) \ {r}
          /\ active' = LS!Live(v) \cup
               {[end |-> range[v].end, reg |-> r, vreg |-> v, pushed |-> turn]}
    BY <1>4, Zenon DEF LS!TakeFree
  <2>2. LS!IsNext(v) /\ LS!Visited(v) /\ UNCHANGED spills
    BY <1>4, Zenon DEF LS!TakeFree
  <2>3. QED
    BY <1>1, <2>1, <2>2, SameScan, Zenon DEF P!TakeFree
<1>5. ASSUME NEW v \in LS!VReg, LS!Steal(v) PROVE P!Steal(v)
  BY <1>1, <1>2, <1>3, <1>5, SameScan, Zenon DEF LS!Steal, P!Steal
<1>6. ASSUME NEW v \in LS!VReg, LS!SpillNewcomer(v) PROVE P!SpillNewcomer(v)
  BY <1>1, <1>2, <1>6, Zenon DEF LS!SpillNewcomer, P!SpillNewcomer
<1>7. QED
  BY <1>4, <1>5, <1>6, SameScan, Zenon DEF LS!Next, P!Next, LS!Visit, P!Visit

(* A step of the scan keeps its invariant, and so does a step that leaves  *)
(* its variables alone.                                                    *)
LEMMA ScanKeepsInvariant ==
  ASSUME LS!ScanInv, LS!Next \/ UNCHANGED scanVars
  PROVE  LS!ScanInv'
<1>1. CASE LS!Next
  BY <1>1, SameInvariant, SameStep, P!ScanInvStep, PoolLenAssumption, NVregsAssumption,
     MaxPosAssumption
<1>2. CASE UNCHANGED scanVars
  <2>1. UNCHANGED P!vars
    BY <1>2 DEF scanVars, P!vars
  <2>2. QED
    BY <2>1, SameInvariant, P!ScanInvStep, PoolLenAssumption, NVregsAssumption,
       MaxPosAssumption
<1>3. QED
  BY <1>1, <1>2

(* Before the first interval is visited any intervals will do.             *)
LEMMA ScanMayBegin ==
  ASSUME range' \in [VReg -> LS!LiveRange], todo' = VReg, turn' = 0, spills' = 0,
         loc' = [v \in VReg |-> LS!Unplaced], free' = LS!Pool, active' = {}
  PROVE  LS!ScanInv'
<1>1. LS!TypeOK'
  BY DEF LS!TypeOK, LS!Loc, VReg
<1>2. LS!Placed' = {}
  BY DEF LS!Placed, VReg
<1>3. LS!EntriesCover' /\ LS!HeldOrOver' /\ LS!ConflictFree'
  BY <1>2 DEF LS!EntriesCover, LS!HeldOrOver, LS!ConflictFree
<1>4. LS!PlacedExact'
  BY DEF LS!PlacedExact, VReg
<1>5. LS!PoolPartition'
  BY DEF LS!PoolPartition
<1>6. LS!FrameExact'
  BY <1>2 DEF LS!FrameExact
<1>7. QED
  BY <1>1, <1>3, <1>4, <1>5, <1>6 DEF LS!ScanInv
-----------------------------------------------------------------------------
(* Liveness.                                                               *)

LEMMA UpwardUsesAreVregs ==
  ASSUME fn \in Functions, NEW b \in Blocks
  PROVE  UpwardUses(b) \subseteq VReg
<1>1. ASSUME NEW i \in DOMAIN InstrsOf(b) PROVE UseOf(InstrsOf(b)[i]) \subseteq VReg
  BY FunctionShape
<1>2. TermUseOf(TermOf(b)) \subseteq VReg
  BY FunctionShape
<1>3. QED
  BY <1>1, <1>2 DEF UpwardUses

(* What a function means does not change while it is the same function.    *)
LEMMA SameMeaning ==
  ASSUME fn' = fn
  PROVE  /\ Blocks' = Blocks
         /\ \A b : /\ InstrsOf(b)' = InstrsOf(b) /\ TermOf(b)' = TermOf(b)
                   /\ Succs(b)' = Succs(b) /\ Kill(b)' = Kill(b)
                   /\ UpwardUses(b)' = UpwardUses(b)
                   /\ Entry(b)' = Entry(b) /\ TermPos(b)' = TermPos(b)
                   /\ \A out : LiveInOf(b, out)' = LiveInOf(b, out)
<1>1. /\ Blocks' = Blocks
      /\ \A b : InstrsOf(b)' = InstrsOf(b) /\ TermOf(b)' = TermOf(b) /\ Entry(b)' = Entry(b)
  BY DEF Blocks, InstrsOf, TermOf, Entry
<1>2. \A b : Succs(b)' = Succs(b) /\ Kill(b)' = Kill(b) /\ TermPos(b)' = TermPos(b)
  BY <1>1, Zenon DEF Succs, Kill, TermPos
<1>3. \A b, i : KilledBefore(b, i)' = KilledBefore(b, i)
  BY <1>1, Zenon DEF KilledBefore
<1>4. \A b : UpwardUses(b)' = UpwardUses(b)
  BY <1>1, <1>2, <1>3, Zenon DEF UpwardUses
<1>5. \A b, out : LiveInOf(b, out)' = LiveInOf(b, out)
  BY <1>2, <1>4, Zenon DEF LiveInOf
<1>6. QED
  BY <1>1, <1>2, <1>4, <1>5

LEMMA SamePaths ==
  ASSUME fn' = fn
  PROVE  \A b, v : SimplePath(b, v)' <=> SimplePath(b, v)
<1>1. /\ Blocks' = Blocks
      /\ \A b : Succs(b)' = Succs(b) /\ Kill(b)' = Kill(b) /\ UpwardUses(b)' = UpwardUses(b)
  BY SameMeaning
<1>2. QED
  BY <1>1, Zenon DEF SimplePath

(* A block that does not define v has a path where a successor has one.    *)
LEMMA PathExtends ==
  ASSUME fn \in Functions, NEW b \in Blocks, NEW s \in Succs(b), NEW v,
         v \notin Kill(b), SimplePath(s, v)
  PROVE  SimplePath(b, v)
<1>0. PICK n \in Blocks :
        \E p \in [1 .. n -> Blocks] :
          /\ p[1] = s
          /\ v \in UpwardUses(p[n])
          /\ \A k \in 1 .. n - 1 : p[k + 1] \in Succs(p[k]) /\ v \notin Kill(p[k])
          /\ \A k, m \in 1 .. n : p[k] = p[m] => k = m
  BY Zenon DEF SimplePath
<1>1. PICK p \in [1 .. n -> Blocks] :
        /\ p[1] = s
        /\ v \in UpwardUses(p[n])
        /\ \A k \in 1 .. n - 1 : p[k + 1] \in Succs(p[k]) /\ v \notin Kill(p[k])
        /\ \A k, m \in 1 .. n : p[k] = p[m] => k = m
  BY <1>0, Zenon
<1>2. n \in Nat /\ n # 0 /\ n <= Len(fn.blocks) /\ Len(fn.blocks) \in Nat /\ Len(fn.blocks) # 0
  BY FunctionShape DEF Blocks
<1>3. CASE \E m \in 1 .. n : p[m] = b
  <2>1. PICK m \in 1 .. n : p[m] = b
    BY <1>3
  <2> DEFINE l == n - m + 1
             q == [k \in 1 .. l |-> p[k + m - 1]]
  <2>2. l \in Blocks /\ l \in Nat \ {0}
    BY <1>2 DEF Blocks
  <2>3. \A k \in 1 .. l : k + m - 1 \in 1 .. n
    BY <1>2
  <2>4. q \in [1 .. l -> Blocks] /\ \A k \in 1 .. l : q[k] = p[k + m - 1]
    BY <2>3
  <2>5. q[1] = b /\ q[l] = p[n]
    BY <1>2, <2>1, <2>2, <2>4
  <2>6. ASSUME NEW k \in 1 .. l - 1 PROVE q[k + 1] \in Succs(q[k]) /\ v \notin Kill(q[k])
    <3>1. /\ k + m - 1 \in 1 .. n - 1 /\ k \in 1 .. l /\ k + 1 \in 1 .. l
          /\ (k + 1) + m - 1 = (k + m - 1) + 1
      BY <1>2
    <3>2. q[k] = p[k + m - 1] /\ q[k + 1] = p[(k + m - 1) + 1]
      BY <2>4, <3>1
    <3> HIDE DEF q
    <3>3. QED
      BY <1>1, <3>1, <3>2
  <2>7. ASSUME NEW k \in 1 .. l, NEW j \in 1 .. l, q[k] = q[j] PROVE k = j
    <3>1. p[k + m - 1] = p[j + m - 1]
      BY <2>4, <2>7
    <3>2. k + m - 1 = j + m - 1
      BY <1>1, <2>3, <3>1
    <3>3. QED
      BY <3>2
  <2> HIDE DEF l, q
  <2>8. QED
    BY <1>1, <2>2, <2>4, <2>5, <2>6, <2>7 DEF SimplePath
<1>4. CASE \A m \in 1 .. n : p[m] # b
  <2> DEFINE q == [k \in 1 .. n + 1 |-> IF k = 1 THEN b ELSE p[k - 1]]
  <2>1. \A k \in 1 .. n + 1 : k # 1 => k - 1 \in 1 .. n
    BY <1>2
  <2>2. /\ q \in [1 .. n + 1 -> Blocks] /\ q[1] = b
        /\ \A k \in 1 .. n + 1 : k # 1 => q[k] = p[k - 1]
    BY <1>2, <2>1
  <2>3. ASSUME NEW k \in 1 .. n + 1, NEW j \in 1 .. n + 1, q[k] = q[j] PROVE k = j
    <3>1. CASE k = 1 \/ j = 1
      <4> HIDE DEF q
      <4>1. QED
        BY <1>4, <2>1, <2>2, <2>3, <3>1
    <3>2. CASE k # 1 /\ j # 1
      <4>1. p[k - 1] = p[j - 1] /\ k - 1 \in 1 .. n /\ j - 1 \in 1 .. n
        BY <2>1, <2>2, <2>3, <3>2
      <4>2. k - 1 = j - 1
        BY <1>1, <4>1
      <4>3. QED
        BY <4>2
    <3>3. QED
      BY <3>1, <3>2
  <2> HIDE DEF q
  <2>4. n + 1 \in Blocks
    <3>1. IsFiniteSet(Blocks) /\ Cardinality(Blocks) = Len(fn.blocks)
      <4> DEFINE len == Len(fn.blocks)
      <4>1. len \in Int /\ 1 \in Int /\ ~ (1 > len) /\ len - 1 + 1 = len
        BY <1>2
      <4> HIDE DEF len
      <4>2. IsFiniteSet(1 .. len) /\ Cardinality(1 .. len) = len
        BY <4>1, FS_Interval
      <4>3. QED
        BY <4>2 DEF len, Blocks
    <3>2. IsFiniteSet(1 .. n + 1) /\ Cardinality(1 .. n + 1) = n + 1
      BY <1>2, FS_Interval
    <3>3. ~ (Cardinality(Blocks) < Cardinality(1 .. n + 1))
      <4> DEFINE S == 1 .. n + 1
      <4>1. ~ \E x, y \in S : x # y /\ q[x] = q[y]
        BY <2>3
      <4>2. IsFiniteSet(S) /\ q \in [S -> Blocks]
        BY <2>2, <3>2
      <4> HIDE DEF S
      <4>3. ~ (Cardinality(Blocks) < Cardinality(S))
        BY <3>1, <4>1, <4>2, FS_PigeonHole
      <4>4. QED
        BY <4>3 DEF S
    <3>4. QED
      BY <1>2, <3>1, <3>2, <3>3 DEF Blocks
  <2>5. ASSUME NEW k \in 1 .. (n + 1) - 1
        PROVE  q[k + 1] \in Succs(q[k]) /\ v \notin Kill(q[k])
    <3>1. k \in 1 .. n + 1 /\ k + 1 \in 1 .. n + 1 /\ k + 1 # 1 /\ (k + 1) - 1 = k
      BY <1>2
    <3>2. q[k + 1] = p[k]
      BY <2>2, <3>1
    <3>3. CASE k = 1
      BY <1>1, <2>2, <3>2, <3>3
    <3>4. CASE k # 1
      <4>1. k - 1 \in 1 .. n - 1 /\ (k - 1) + 1 = k
        BY <1>2, <3>4
      <4>2. q[k] = p[k - 1]
        BY <2>2, <3>1, <3>4
      <4>3. QED
        BY <1>1, <3>2, <4>1, <4>2
    <3>5. QED
      BY <3>3, <3>4
  <2>6. q[n + 1] = p[n]
    <3>1. n + 1 \in 1 .. n + 1 /\ n + 1 # 1 /\ (n + 1) - 1 = n
      BY <1>2
    <3>2. QED
      BY <2>2, <3>1
  <2>7. v \in UpwardUses(q[n + 1])
    BY <1>1, <2>6
  <2>8. QED
    BY <2>2, <2>3, <2>4, <2>5, <2>7 DEF SimplePath
<1>5. QED
  BY <1>3, <1>4

(* A path is there as soon as the block itself uses v first.               *)
LEMMA PathBegins ==
  ASSUME fn \in Functions, NEW b \in Blocks, NEW v \in UpwardUses(b)
  PROVE  SimplePath(b, v)
<1> DEFINE p == [k \in 1 .. 1 |-> b]
<1>1. 1 \in Blocks
  BY FunctionShape DEF Blocks
<1>2. p \in [1 .. 1 -> Blocks] /\ p[1] = b
  OBVIOUS
<1>3. \A k, m \in 1 .. 1 : p[k] = p[m] => k = m
  OBVIOUS
<1>4. \A k \in 1 .. 1 - 1 : FALSE
  OBVIOUS
<1> HIDE DEF p
<1>5. QED
  BY <1>1, <1>2, <1>3, <1>4 DEF SimplePath
(* Where every block is settled no path is missed: of the blocks on it the *)
(* last one without v in its live-in set would not be settled.             *)
LEMMA SettledMissesNothing ==
  ASSUME fn \in Functions, \A b \in Blocks : Settled(b),
         NEW b \in Blocks, NEW v, LivePath(b, v)
  PROVE  v \in liveIn[b]
<1>1. PICK n \in Blocks :
        \E p \in [1 .. n -> Blocks] :
          /\ p[1] = b
          /\ v \in UpwardUses(p[n])
          /\ \A k \in 1 .. n - 1 : p[k + 1] \in Succs(p[k]) /\ v \notin Kill(p[k])
  BY Zenon DEF LivePath
<1>2. PICK p \in [1 .. n -> Blocks] :
        /\ p[1] = b
        /\ v \in UpwardUses(p[n])
        /\ \A k \in 1 .. n - 1 : p[k + 1] \in Succs(p[k]) /\ v \notin Kill(p[k])
  BY <1>1, Zenon
<1>3. n \in Nat /\ 1 <= n
  BY FunctionShape DEF Blocks
<1> SUFFICES ASSUME v \notin liveIn[b] PROVE FALSE
  OBVIOUS
<1> DEFINE T == {k \in 1 .. n : v \notin liveIn[p[k]]}
<1>4. T \in SUBSET Nat /\ 1 \in T /\ \A k \in T : k <= n
  BY <1>2, <1>3
<1>5. PICK k \in T : \A m \in T : m <= k
  <2> HIDE DEF T
  <2>1. T # {}
    BY <1>4
  <2>2. QED
    BY <1>3, <1>4, <2>1, GreatestNumber
<1>6. k \in 1 .. n /\ p[k] \in Blocks /\ v \notin liveIn[p[k]] /\ Settled(p[k])
  BY <1>3
<1>7. liveIn[p[k]] = UpwardUses(p[k]) \cup (liveOut[p[k]] \ Kill(p[k]))
  BY <1>6 DEF Settled, LiveInOf
<1>8. k # n
  BY <1>2, <1>6, <1>7
<1>9. k \in 1 .. n - 1 /\ k + 1 \in 1 .. n /\ ~ (k + 1 <= k)
  BY <1>3, <1>6, <1>8
<1>10. v \in liveIn[p[k + 1]]
  BY <1>5, <1>9
<1>11. v \in liveOut[p[k]]
  <2>1. p[k + 1] \in Succs(p[k])
    BY <1>2, <1>9
  <2>2. liveOut[p[k]] = UNION {liveIn[s] : s \in Succs(p[k])}
    BY <1>6 DEF Settled
  <2>3. QED
    BY <1>10, <2>1, <2>2
<1>12. QED
  BY <1>2, <1>6, <1>7, <1>9, <1>11

(* The sets of a swept block.                                              *)
LEMMA SweepSets ==
  ASSUME TypeOK, SweepBlock
  PROVE  \E out \in SUBSET VReg :
           /\ bi \in Blocks
           /\ out = UNION {liveIn[s] : s \in Succs(bi)}
           /\ LiveInOf(bi, out) \in SUBSET VReg
           /\ liveOut' = [liveOut EXCEPT ![bi] = out]
           /\ liveIn' = [liveIn EXCEPT ![bi] = LiveInOf(bi, out)]
           /\ changed' = (changed \/ Differs(bi, out, LiveInOf(bi, out)))
<1> DEFINE out == UNION {liveIn[s] : s \in Succs(bi)}
<1>1. bi \in Blocks /\ fn \in Functions
  BY FunctionShape DEF SweepBlock, TypeOK, LiveTypes, Blocks
<1>2. out \subseteq VReg
  BY <1>1, FunctionShape DEF TypeOK, LiveTypes
<1>3. LiveInOf(bi, out) \subseteq VReg
  <2> HIDE DEF out
  <2>1. QED
    BY <1>1, <1>2, UpwardUsesAreVregs DEF LiveInOf
<1>4. QED
  BY <1>1, <1>2, <1>3 DEF SweepBlock

LEMMA SweepKeepsPaths ==
  ASSUME TypeOK, LiveInHasPath, SweepBlock
  PROVE  LiveInHasPath'
<1>1. PICK out \in SUBSET VReg :
           /\ bi \in Blocks
           /\ out = UNION {liveIn[s] : s \in Succs(bi)}
           /\ liveIn' = [liveIn EXCEPT ![bi] = LiveInOf(bi, out)]
  BY SweepSets
<1>2. fn' = fn /\ fn \in Functions
  BY DEF SweepBlock, TypeOK, LiveTypes
<1>3. SUFFICES ASSUME NEW b \in Blocks, NEW v \in liveIn'[b] PROVE SimplePath(b, v)
  BY <1>2, SameMeaning, SamePaths, Zenon DEF LiveInHasPath
<1>4. CASE b # bi
  BY <1>1, <1>3, <1>4 DEF TypeOK, LiveTypes, LiveInHasPath
<1>5. CASE b = bi
  <2>1. v \in UpwardUses(b) \cup (out \ Kill(b))
    BY <1>1, <1>3, <1>5 DEF TypeOK, LiveTypes, LiveInOf
  <2>2. CASE v \in UpwardUses(b)
    BY <1>2, <2>2, PathBegins
  <2>3. CASE v \in out /\ v \notin Kill(b)
    <3>1. PICK s \in Succs(b) : v \in liveIn[s]
      BY <1>1, <1>5, <2>3
    <3>2. s \in Blocks
      BY <1>2, FunctionShape
    <3>3. SimplePath(s, v)
      BY <3>1, <3>2 DEF LiveInHasPath
    <3>4. QED
      BY <1>2, <2>3, <3>1, <3>3, PathExtends
  <2>4. QED
    BY <2>1, <2>2, <2>3
<1>6. QED
  BY <1>4, <1>5

LEMMA SameSettled ==
  ASSUME fn' = fn, liveIn' = liveIn, liveOut' = liveOut
  PROVE  \A b : Settled(b)' <=> Settled(b)
<1>1. \A b : Succs(b)' = Succs(b) /\ \A out : LiveInOf(b, out)' = LiveInOf(b, out)
  BY SameMeaning
<1>2. \A b : LiveInOf(b, liveOut[b])' = LiveInOf(b, liveOut[b])
  BY SameMeaning DEF LiveInOf
<1>3. QED
  BY <1>1, <1>2, Zenon DEF Settled

(* A sweep that has found no change so far has changed nothing.            *)
LEMMA SweepSettles ==
  ASSUME TypeOK, SweptAreSettled, SweepBlock
  PROVE  SweptAreSettled'
<1>1. PICK out \in SUBSET VReg :
           /\ bi \in Blocks
           /\ out = UNION {liveIn[s] : s \in Succs(bi)}
           /\ liveOut' = [liveOut EXCEPT ![bi] = out]
           /\ liveIn' = [liveIn EXCEPT ![bi] = LiveInOf(bi, out)]
           /\ changed' = (changed \/ Differs(bi, out, LiveInOf(bi, out)))
  BY SweepSets
<1>2. fn' = fn /\ phase = "live" /\ phase' = "live" /\ bi' = bi - 1
  BY DEF SweepBlock
<1>3. Blocks' = Blocks /\ \A b \in Blocks : b \in Int /\ bi \in Int
  BY <1>1, <1>2 DEF Blocks
<1>4. ASSUME ~changed', NEW b \in Blocks, b > bi - 1 PROVE Settled(b)'
  <2>1. ~changed /\ out = liveOut[bi] /\ LiveInOf(bi, out) = liveIn[bi]
    BY <1>1, <1>4 DEF Differs
  <2>2. liveIn' = liveIn /\ liveOut' = liveOut
    BY <1>1, <2>1 DEF TypeOK, LiveTypes
  <2>3. Settled(b)
    <3>1. CASE b = bi
      BY <1>1, <2>1, <3>1 DEF Settled
    <3>2. CASE b > bi
      BY <1>2, <2>1, <3>2 DEF SweptAreSettled
    <3>3. QED
      BY <1>3, <1>4, <3>1, <3>2
  <2>4. QED
    BY <1>2, <2>2, <2>3, SameSettled
<1>5. QED
  BY <1>2, <1>3, <1>4, Zenon DEF SweptAreSettled

LEMMA EndSweepSettles ==
  ASSUME TypeOK, SweptAreSettled, EndSweep
  PROVE  SweptAreSettled'
<1>1. /\ fn' = fn /\ liveIn' = liveIn /\ liveOut' = liveOut /\ Blocks' = Blocks
      /\ phase = "live" /\ bi = 0
  BY SameMeaning DEF EndSweep
<1>2. \A b : Settled(b)' <=> Settled(b)
  BY <1>1, SameSettled
<1>3. CASE changed
  <2>1. bi' = Len(fn.blocks) /\ phase' = "live"
    BY <1>1, <1>3 DEF EndSweep
  <2>2. \A b \in Blocks : ~ (b > Len(fn.blocks))
    BY FunctionShape DEF Blocks, TypeOK, LiveTypes
  <2>3. QED
    BY <1>1, <2>1, <2>2 DEF SweptAreSettled
<1>4. CASE ~changed
  <2>1. \A b \in Blocks : b > bi
    BY <1>1, FunctionShape DEF Blocks, TypeOK, LiveTypes
  <2>2. \A b \in Blocks : Settled(b)
    BY <1>1, <1>4, <2>1, Zenon DEF SweptAreSettled
  <2>3. phase' # "live"
    BY <1>1, <1>4 DEF EndSweep
  <2>4. QED
    BY <1>1, <1>2, <2>2, <2>3, Zenon DEF SweptAreSettled
<1>5. QED
  BY <1>3, <1>4

(* Liveness is exact as soon as the fixpoint is reached.                   *)
LEMMA LivenessExact ==
  ASSUME TypeOK, SweptAreSettled, LiveInHasPath
  PROVE  LivenessIsExact
<1> SUFFICES ASSUME phase = "intervals", NEW b \in Blocks
             PROVE  /\ liveIn[b] = {v \in VReg : LivePath(b, v)}
                    /\ liveOut[b] = UNION {liveIn[s] : s \in Succs(b)}
  BY DEF LivenessIsExact
<1>1. \A c \in Blocks : Settled(c)
  BY DEF SweptAreSettled
<1>2. \A v : SimplePath(b, v) => LivePath(b, v)
  BY Zenon DEF SimplePath, LivePath
<1>3. \A v \in liveIn[b] : v \in VReg /\ LivePath(b, v)
  BY <1>2 DEF TypeOK, LiveTypes, LiveInHasPath
<1>4. \A v : LivePath(b, v) => v \in liveIn[b]
  BY <1>1, SettledMissesNothing DEF TypeOK, LiveTypes
<1>5. QED
  BY <1>1, <1>3, <1>4 DEF Settled
-----------------------------------------------------------------------------
(* Intervals.                                                              *)

LEMMA TouchedArePositions ==
  ASSUME fn \in Functions, NEW v
  PROVE  Touched(v) \in SUBSET LS!Pos
<1>1. {p \in {0} : v < Incoming} \subseteq LS!Pos
  BY MaxPosAssumption DEF LS!Pos
<1>2. \A b \in Blocks : /\ Entry(b) \in LS!Pos /\ TermPos(b) \in LS!Pos
                        /\ \A i \in DOMAIN InstrsOf(b) : Entry(b) + i - 1 \in LS!Pos
  BY Positions
<1>3. LiveTouches(v) \subseteq LS!Pos
  BY <1>2 DEF LiveTouches
<1>4. UNION {{Entry(b) + i - 1 : i \in {j \in DOMAIN InstrsOf(b) :
               v \in UseOf(InstrsOf(b)[j]) \cup DefOf(InstrsOf(b)[j])}} : b \in Blocks}
        \subseteq LS!Pos
  BY <1>2
<1>5. {TermPos(b) : b \in {c \in Blocks : v \in TermUseOf(TermOf(c))}} \subseteq LS!Pos
  BY <1>2
<1>6. QED
  BY <1>1, <1>3, <1>4, <1>5, Zenon DEF Touched

LEMMA SameTouched ==
  ASSUME fn' = fn, liveIn' = liveIn, liveOut' = liveOut
  PROVE  \A v : Touched(v)' = Touched(v)
<1>1. /\ Blocks' = Blocks
      /\ \A b : /\ InstrsOf(b)' = InstrsOf(b) /\ TermOf(b)' = TermOf(b)
                /\ Entry(b)' = Entry(b) /\ TermPos(b)' = TermPos(b)
  BY SameMeaning
<1>2. \A v : LiveTouches(v)' = LiveTouches(v)
  BY <1>1, Zenon DEF LiveTouches
<1>3. Incoming' = Incoming
  BY DEF Incoming
<1> DEFINE I(b, v) == {Entry(b) + i - 1 : i \in {j \in DOMAIN InstrsOf(b) :
                         v \in UseOf(InstrsOf(b)[j]) \cup DefOf(InstrsOf(b)[j])}}
           J(v) == {TermPos(b) : b \in {c \in Blocks : v \in TermUseOf(TermOf(c))}}
<1>4. \A b, v : I(b, v)' = I(b, v)
  BY <1>1, Zenon
<1>5. \A v : J(v)' = J(v)
  BY <1>1, Zenon
<1>6. \A v : Touched(v) = {p \in {0} : v < Incoming} \cup LiveTouches(v) \cup J(v)
                           \cup UNION {I(b, v) : b \in Blocks}
  BY Zenon DEF Touched
<1>7. \A v : Touched(v)' = {p \in {0} : v < Incoming'} \cup LiveTouches(v)' \cup J(v)'
                           \cup UNION {I(b, v)' : b \in Blocks'}
  BY Zenon DEF Touched
<1> HIDE DEF I, J
<1>8. QED
  BY <1>1, <1>2, <1>3, <1>4, <1>5, <1>6, <1>7, Zenon

LEMMA IntervalsCover ==
  ASSUME TypeOK, Intervals
  PROVE  range' \in [VReg -> LS!LiveRange] /\ RangesCover'
<1>1. /\ fn' = fn /\ liveIn' = liveIn /\ liveOut' = liveOut /\ phase' = "scan"
      /\ fn \in Functions
  BY DEF Intervals, liveVars, TypeOK, LiveTypes
<1>2. range' = [v \in VReg |->
         IF Touched(v) = {} THEN [start |-> 0, end |-> 0]
         ELSE [start |-> Min(Touched(v)), end |-> Max(Touched(v))]]
  BY DEF Intervals
<1>3. ASSUME NEW v \in VReg
      PROVE  /\ range'[v] \in LS!LiveRange
             /\ \A p \in Touched(v) : range'[v].start <= p /\ p <= range'[v].end
  <2>1. CASE Touched(v) = {}
    <3>1. range'[v] = [start |-> 0, end |-> 0]
      BY <1>2, <2>1
    <3>2. QED
      BY <2>1, <3>1, MaxPosAssumption DEF LS!LiveRange, LS!Pos
  <2>2. CASE Touched(v) # {}
    <3>1. /\ Min(Touched(v)) \in Touched(v) /\ Max(Touched(v)) \in Touched(v)
          /\ \A p \in Touched(v) : Min(Touched(v)) <= p /\ p <= Max(Touched(v))
      BY <1>1, <2>2, TouchedArePositions, FirstAndLast
    <3>2. range'[v] = [start |-> Min(Touched(v)), end |-> Max(Touched(v))]
      BY <1>2, <2>2
    <3>3. Touched(v) \subseteq LS!Pos
      BY <1>1, TouchedArePositions
    <3>4. QED
      BY <3>1, <3>2, <3>3 DEF LS!LiveRange
  <2>3. QED
    BY <2>1, <2>2
<1>4. \A v : Touched(v)' = Touched(v)
  BY <1>1, SameTouched
<1>5. RangesCover'
  BY <1>3, <1>4, Zenon DEF RangesCover
<1>6. range' \in [VReg -> LS!LiveRange]
  <2>1. DOMAIN range' = VReg /\ range' = [v \in VReg |-> range'[v]]
    BY <1>2, Zenon
  <2>2. QED
    BY <1>3, <2>1
<1>7. QED
  BY <1>5, <1>6

-----------------------------------------------------------------------------
(* Types.                                                                  *)

LEMMA SlotsFit ==
  ASSUME LS!ScanInv, todo = {}
  PROVE  \A v \in VReg : loc[v] \in Home
<1>1. LS!TypeOK /\ LS!FrameExact /\ LS!PlacedExact /\ LS!Placed = VReg /\ spills \in Nat
  BY DEF LS!ScanInv, LS!TypeOK, LS!Placed, VReg
<1>2. spills <= NVregs
  <2>1. SUFFICES ASSUME spills > NVregs PROVE FALSE
    BY <1>1, NVregsAssumption
  <2> DEFINE S == 0 .. spills - 1
             owner == [k \in S |-> CHOOSE v \in VReg : loc[v] = LS!Slot(k)]
  <2>2. \A k \in S : owner[k] \in VReg /\ loc[owner[k]] = LS!Slot(k)
    BY <1>1 DEF LS!FrameExact
  <2>3. \A j, k \in S : owner[j] = owner[k] => j = k
    <3> HIDE DEF owner, S
    <3>1. \A j, k : LS!Slot(j) = LS!Slot(k) => j = k
      BY DEF LS!Slot
    <3>2. QED
      BY <2>2, <3>1
  <2>4. IsFiniteSet(VReg) /\ Cardinality(VReg) = NVregs
    <3>1. 0 \in Int /\ NVregs - 1 \in Int /\ (0 > NVregs - 1 <=> NVregs = 0)
      BY NVregsAssumption
    <3>2. QED
      BY <3>1, FS_Interval, NVregsAssumption DEF VReg, LS!VReg
  <2>5. IsFiniteSet(S) /\ Cardinality(S) = spills
    <3>1. 0 \in Int /\ spills - 1 \in Int /\ ~ (0 > spills - 1) /\ spills - 1 - 0 + 1 = spills
      BY <1>1, <2>1, NVregsAssumption
    <3>2. QED
      BY <3>1, FS_Interval
  <2>6. owner \in [S -> VReg]
    BY <2>2
  <2> HIDE DEF owner, S
  <2>7. \E j, k \in S : j # k /\ owner[j] = owner[k]
    BY <2>1, <2>4, <2>5, <2>6, FS_PigeonHole
  <2>8. QED
    BY <2>3, <2>7
<1>3. SUFFICES ASSUME NEW v \in VReg PROVE loc[v] \in Home
  OBVIOUS
<1>4. loc[v] \in LS!Loc /\ loc[v] # LS!Unplaced
  BY <1>1 DEF LS!TypeOK, LS!PlacedExact, VReg
<1>5. CASE loc[v] \in [kind : {"Reg"}, n : LS!Pool]
  <2>1. loc[v] = LS!Reg(loc[v].n) /\ loc[v].n \in 0 .. PoolLen - 1
    BY <1>5 DEF LS!Reg, LS!Pool
  <2>2. QED
    BY <2>1 DEF Home
<1>6. CASE loc[v] \in [kind : {"Slot"}, n : Nat]
  <2>1. loc[v] = LS!Slot(loc[v].n) /\ loc[v].n \in Nat /\ loc[v].n < spills
    BY <1>1, <1>6 DEF LS!Slot, LS!FrameExact
  <2>2. loc[v].n \in 0 .. NVregs - 1
    BY <1>1, <1>2, <2>1, NVregsAssumption
  <2>3. QED
    BY <2>1, <2>2 DEF Home
<1>7. QED
  BY <1>4, <1>5, <1>6 DEF LS!Loc

(* What a store and a landing leave in the homes.                          *)
LEMMA StoredTyped ==
  ASSUME NEW h \in [Home -> VReg \cup {Nobody}], NEW v \in VReg
  PROVE  Stored(h, v) \in [Home -> VReg \cup {Nobody}]
  BY DEF Stored

(* The handlers of a frame: each where a HandlerEnter stands.              *)
Entered(hs) ==
  /\ hs \in Seq(Handler)
  /\ \A k \in DOMAIN hs :
       hs[k].at.i \in DOMAIN InstrsOf(hs[k].at.b) /\ HandlerInstr(hs[k]).op = "HandlerEnter"

LEMMA HandlerShape ==
  ASSUME NEW hs, Entered(hs), NEW k \in DOMAIN hs
  PROVE  /\ hs[k] \in Handler
         /\ hs[k].at \in [b : Blocks, i : Nat] /\ hs[k].at.b \in Blocks /\ hs[k].at.i \in Nat
         /\ hs[k].at = [b |-> hs[k].at.b, i |-> hs[k].at.i]
         /\ hs[k].saved \in [Home -> VReg \cup {Nobody}] /\ hs[k].since \subseteq VReg
         /\ hs[k].at.i \in DOMAIN InstrsOf(hs[k].at.b)
         /\ HandlerInstr(hs[k]).op = "HandlerEnter"
<1>1. hs[k] \in Handler
  BY DEF Entered
<1>2. QED
  BY <1>1 DEF Entered, Handler

(* Noting a write changes what was written since, and no more.             *)
LEMMA NotedShape ==
  ASSUME NEW hs, Entered(hs), NEW d \in SUBSET VReg
  PROVE  /\ DOMAIN Noted(hs, d) = DOMAIN hs
         /\ \A k \in DOMAIN hs :
              /\ Noted(hs, d)[k].at = hs[k].at
              /\ Noted(hs, d)[k].saved = hs[k].saved
              /\ Noted(hs, d)[k].since = hs[k].since \cup d
         /\ Entered(Noted(hs, d))
<1>1. hs \in Seq(Handler) /\ Len(hs) \in Nat /\ DOMAIN hs = 1 .. Len(hs)
  BY DEF Entered
<1>2. DOMAIN Noted(hs, d) = DOMAIN hs
  BY DEF Noted
<1>3. ASSUME NEW k \in DOMAIN hs
      PROVE  /\ Noted(hs, d)[k].at = hs[k].at
             /\ Noted(hs, d)[k].saved = hs[k].saved
             /\ Noted(hs, d)[k].since = hs[k].since \cup d
             /\ Noted(hs, d)[k] \in Handler
  <2>1. hs[k] \in Handler
    BY HandlerShape
  <2>2. Noted(hs, d)[k] = [hs[k] EXCEPT !.since = @ \cup d]
    BY DEF Noted
  <2>3. QED
    BY <2>1, <2>2 DEF Handler
<1>4. Noted(hs, d) \in Seq(Handler)
  <2>1. Noted(hs, d) = [k \in 1 .. Len(hs) |-> Noted(hs, d)[k]]
    BY <1>1 DEF Noted
  <2>2. \A k \in 1 .. Len(hs) : Noted(hs, d)[k] \in Handler
    BY <1>1, <1>3
  <2> DEFINE f == Noted(hs, d)
  <2> HIDE DEF f
  <2>3. f = [k \in 1 .. Len(hs) |-> f[k]] /\ \A k \in 1 .. Len(hs) : f[k] \in Handler
    BY <2>1, <2>2 DEF f
  <2>4. f \in [1 .. Len(hs) -> Handler]
    BY <2>3
  <2>5. f \in Seq(Handler)
    BY <1>1, <2>4
  <2>6. QED
    BY <2>5 DEF f
<1>5. \A k \in DOMAIN hs : HandlerInstr(Noted(hs, d)[k]) = HandlerInstr(hs[k])
  BY <1>3 DEF HandlerInstr
<1>6. Entered(Noted(hs, d))
  <2>1. \A k \in DOMAIN hs : /\ hs[k].at.i \in DOMAIN InstrsOf(hs[k].at.b)
                             /\ HandlerInstr(hs[k]).op = "HandlerEnter"
    BY DEF Entered
  <2> HIDE DEF Noted
  <2>2. QED
    BY <1>2, <1>3, <1>4, <1>5, <2>1 DEF Entered
<1>7. QED
  BY <1>2, <1>3, <1>6

(* Without the innermost one.                                              *)
LEMMA OuterShape ==
  ASSUME HandlerTypes
  PROVE  /\ Entered(handlers) /\ Entered(Outer)
         /\ \A k \in DOMAIN Outer : k \in DOMAIN handlers /\ Outer[k] = handlers[k]
         /\ handlers # <<>> => Len(handlers) \in DOMAIN handlers
<1>1. handlers \in Seq(Handler) /\ Len(handlers) \in Nat /\ DOMAIN handlers = 1 .. Len(handlers)
  BY DEF HandlerTypes
<1>2. Entered(handlers)
  BY DEF HandlerTypes, Entered
<1>3. CASE handlers = <<>>
  <2>1. Len(handlers) = 0
    BY <1>3
  <2>2. Outer = <<>>
    BY <1>1, <1>3, <2>1, SubSeqProperties DEF Outer
  <2>3. QED
    BY <1>2, <1>3, <2>2
<1>4. CASE handlers # <<>>
  <2> DEFINE n == Len(handlers)
  <2>1. n \in Nat /\ n # 0 /\ handlers \in Seq(Handler)
    BY <1>1, <1>4, EmptySeq
  <2>2. Outer \in Seq(Handler) /\ Len(Outer) = n - 1 /\ \A k \in 1 .. n - 1 : Outer[k] = handlers[k]
    BY <1>1, <2>1, SubSeqProperties DEF Outer
  <2>3. DOMAIN Outer = 1 .. n - 1
    BY <2>2
  <2> HIDE DEF n
  <2>4. \A k \in 1 .. n - 1 : k \in 1 .. n
    BY <2>1
  <2>5. n \in 1 .. n
    BY <2>1
  <2>6. \A k \in DOMAIN Outer : k \in DOMAIN handlers /\ Outer[k] = handlers[k]
    BY <1>1, <2>2, <2>3, <2>4 DEF n
  <2>7. Entered(Outer)
    BY <1>2, <2>2, <2>6 DEF Entered
  <2>8. QED
    BY <1>1, <1>2, <2>5, <2>6, <2>7 DEF n
<1>5. QED
  BY <1>3, <1>4

(* One more.                                                               *)
LEMMA AppendShape ==
  ASSUME NEW hs, Entered(hs), NEW h \in Handler,
         h.at.i \in DOMAIN InstrsOf(h.at.b), HandlerInstr(h).op = "HandlerEnter"
  PROVE  /\ Entered(Append(hs, h))
         /\ \A k \in DOMAIN Append(hs, h) :
              \/ k \in DOMAIN hs /\ Append(hs, h)[k] = hs[k]
              \/ Append(hs, h)[k] = h
<1>1. hs \in Seq(Handler) /\ Len(hs) \in Nat /\ DOMAIN hs = 1 .. Len(hs)
  BY DEF Entered
<1>2. /\ Append(hs, h) \in Seq(Handler) /\ Len(Append(hs, h)) = Len(hs) + 1
      /\ \A k \in 1 .. Len(hs) : Append(hs, h)[k] = hs[k]
      /\ Append(hs, h)[Len(hs) + 1] = h
  BY <1>1, AppendProperties
<1>3. DOMAIN Append(hs, h) = 1 .. Len(hs) + 1
  BY <1>2
<1>4. \A k \in 1 .. Len(hs) + 1 : k \in 1 .. Len(hs) \/ k = Len(hs) + 1
  BY <1>1
<1> DEFINE all == Append(hs, h)
<1> HIDE DEF all
<1>5. \A k \in DOMAIN all : (k \in DOMAIN hs /\ all[k] = hs[k]) \/ all[k] = h
  BY <1>1, <1>2, <1>3, <1>4 DEF all
<1>6. all \in Seq(Handler)
  BY <1>2 DEF all
<1>7. Entered(all)
  BY <1>5, <1>6 DEF Entered
<1>8. QED
  BY <1>5, <1>7 DEF all

(* The handlers the next state has.                                        *)
LEMMA HandlersNext ==
  ASSUME fn' = fn, NEW hs, handlers' = hs, Entered(hs)
  PROVE  HandlerTypes'
<1>1. Handler' = Handler
  <2>1. Blocks' = Blocks
    BY SameMeaning
  <2>2. QED
    BY <2>1 DEF Handler
<1>2. ASSUME NEW k \in DOMAIN hs
      PROVE  handlers'[k].at.i \in DOMAIN InstrsOf(handlers[k].at.b)'
             /\ HandlerInstr(handlers[k])'.op = "HandlerEnter"
  <2>1. handlers'[k] = hs[k] /\ fn'.blocks[handlers'[k].at.b] = fn.blocks[hs[k].at.b]
    OBVIOUS
  <2>2. hs[k].at.i \in DOMAIN fn.blocks[hs[k].at.b].instrs
        /\ fn.blocks[hs[k].at.b].instrs[hs[k].at.i].op = "HandlerEnter"
    BY <1>2 DEF Entered, HandlerInstr, InstrsOf
  <2>3. QED
    BY <2>1, <2>2 DEF HandlerInstr, InstrsOf
<1>3. handlers' \in Seq(Handler)'
  BY <1>1 DEF Entered
<1>4. QED
  BY <1>2, <1>3 DEF HandlerTypes

LEMMA HandlerStays ==
  ASSUME HandlerTypes, fn' = fn, handlers' = handlers
  PROVE  HandlerTypes'
  BY OuterShape, HandlersNext

LEMMA RunStays ==
  ASSUME RunTypes, fn' = fn, UNCHANGED runVars
  PROVE  RunTypes'
<1>1. Blocks' = Blocks /\ InstrsOf(pc.b)' = InstrsOf(pc.b)
  BY DEF Blocks, InstrsOf, runVars
<1>2. pc' = pc /\ holder' = holder /\ written' = written /\ handlers' = handlers
  BY DEF runVars
<1>3. QED
  BY <1>1, <1>2, HandlerStays, Zenon DEF RunTypes

LEMMA AllocateTypes ==
  ASSUME TypeOK, Allocate, LS!TypeOK'
  PROVE  TypeOK'
<1>1. fn' = fn /\ UNCHANGED runVars
  BY DEF Allocate, SweepBlock, EndSweep, Intervals, Scan, EndScan
<1>2. RunTypes'
  BY <1>1, RunStays DEF TypeOK
<1>3. Blocks' = Blocks
  BY <1>1 DEF Blocks
<1>4. LiveTypes'
  <2>1. CASE SweepBlock
    <3>1. PICK out \in SUBSET VReg :
           /\ bi \in Blocks
           /\ LiveInOf(bi, out) \in SUBSET VReg
           /\ liveOut' = [liveOut EXCEPT ![bi] = out]
           /\ liveIn' = [liveIn EXCEPT ![bi] = LiveInOf(bi, out)]
           /\ changed' = (changed \/ Differs(bi, out, LiveInOf(bi, out)))
      BY <2>1, SweepSets
    <3>2. bi' \in 0 .. Len(fn.blocks) /\ phase' = phase
      BY <2>1 DEF SweepBlock, TypeOK, LiveTypes
    <3>3. changed' \in BOOLEAN
      BY <3>1 DEF Differs
    <3>4. QED
      BY <1>1, <1>3, <3>1, <3>2, <3>3 DEF TypeOK, LiveTypes
  <2>2. CASE EndSweep
    <3>1. Len(fn.blocks) \in 0 .. Len(fn.blocks)
      BY FunctionShape DEF TypeOK
    <3>2. liveIn' = liveIn /\ liveOut' = liveOut
      BY <2>2 DEF EndSweep
    <3>3. CASE changed
      BY <1>1, <1>3, <2>2, <3>1, <3>2, <3>3 DEF EndSweep, TypeOK, LiveTypes
    <3>4. CASE ~changed
      BY <1>1, <1>3, <2>2, <3>2, <3>4 DEF EndSweep, TypeOK, LiveTypes
    <3>5. QED
      BY <3>3, <3>4
  <2>3. CASE Intervals \/ Scan \/ EndScan
    BY <1>1, <1>3, <2>3 DEF Intervals, Scan, EndScan, liveVars, TypeOK, LiveTypes
  <2>4. QED
    BY <2>1, <2>2, <2>3 DEF Allocate
<1>5. QED
  BY <1>1, <1>2, <1>4 DEF TypeOK

(* The instruction about to execute.                                       *)
LEMMA InstrShape ==
  ASSUME TypeOK, AtInstr
  PROVE  /\ pc.b \in Blocks /\ pc.i \in DOMAIN InstrsOf(pc.b) /\ pc.i \in Nat
         /\ ThisInstr \in IrInstr
         /\ ThisInstr.op \notin {"Effect", "HandlerPop"} => ThisInstr.dst \in VReg
         /\ WritesOf(ThisInstr) \subseteq {ThisInstr.dst} \cap VReg
         /\ pc.i + 1 \in 1 .. Len(InstrsOf(pc.b)) + 1
         /\ [pc EXCEPT !.i = @ + 1] = [b |-> pc.b, i |-> pc.i + 1]
<1>1. pc \in [b : Blocks, i : Nat] /\ pc.i \in 1 .. Len(InstrsOf(pc.b)) + 1
  BY DEF TypeOK, RunTypes
<1>2. Len(InstrsOf(pc.b)) \in Nat /\ DOMAIN InstrsOf(pc.b) = 1 .. Len(InstrsOf(pc.b))
  BY <1>1, FunctionShape DEF TypeOK
<1>3. pc.i \in DOMAIN InstrsOf(pc.b) /\ pc.i + 1 \in 1 .. Len(InstrsOf(pc.b)) + 1
  BY <1>1, <1>2 DEF AtInstr
<1>4. ThisInstr \in IrInstr /\ WritesOf(ThisInstr) \subseteq VReg
  BY <1>1, <1>3, FunctionShape DEF TypeOK, ThisInstr
<1>5. ThisInstr.op \notin {"Effect", "HandlerPop"} => ThisInstr.dst \in VReg
  BY <1>4 DEF IrInstr
<1>6. QED
  BY <1>1, <1>3, <1>4, <1>5 DEF WritesOf

LEMMA ExecuteTypes ==
  ASSUME TypeOK, Execute
  PROVE  RunTypes'
<1> DEFINE d == WritesOf(ThisInstr)
<1>1. /\ fn' = fn
      /\ holder' = (IF d = {} THEN holder ELSE Stored(holder, ThisInstr.dst))
      /\ written' = written \cup d
      /\ handlers' = Noted(handlers, d)
      /\ pc' = [pc EXCEPT !.i = @ + 1]
  BY Zenon DEF Execute
<1>2. /\ pc.b \in Blocks /\ pc.i \in Nat /\ pc' = [b |-> pc.b, i |-> pc.i + 1]
      /\ pc.i + 1 \in 1 .. Len(InstrsOf(pc.b)) + 1
      /\ d \subseteq VReg /\ (d # {} => ThisInstr.dst \in VReg)
  BY <1>1, InstrShape DEF Execute
<1> HIDE DEF d
<1>3. Blocks' = Blocks /\ \A b : InstrsOf(b)' = InstrsOf(b)
  BY <1>1, SameMeaning
<1>4. pc'.b = pc.b /\ pc'.i = pc.i + 1 /\ pc' \in [b : Blocks, i : Nat]
  BY <1>2
<1>5. holder' \in [Home -> VReg \cup {Nobody}]
  BY <1>1, <1>2, StoredTyped DEF TypeOK, RunTypes
<1>6. written' \subseteq VReg
  BY <1>1, <1>2 DEF TypeOK, RunTypes
<1>7. HandlerTypes'
  <2>1. Entered(Noted(handlers, d))
    BY <1>2, OuterShape, NotedShape DEF TypeOK, RunTypes
  <2>2. QED
    BY <1>1, <2>1, HandlersNext
<1>8. pc'.i \in 1 .. Len(InstrsOf(pc.b)) + 1 /\ fn'.blocks[pc'.b] = fn.blocks[pc.b]
  BY <1>1, <1>2, <1>4
<1>9. QED
  BY <1>3, <1>4, <1>5, <1>6, <1>7, <1>8 DEF RunTypes, InstrsOf

LEMMA EnterTypes ==
  ASSUME TypeOK, EnterHandler
  PROVE  RunTypes'
<1> DEFINE H == [at |-> pc, saved |-> holder, since |-> {}]
<1>1. /\ fn' = fn
      /\ handlers' = Append(Noted(handlers, {ThisInstr.dst}), H)
      /\ holder' = Stored(holder, ThisInstr.dst)
      /\ written' = written \cup {ThisInstr.dst}
      /\ pc' = [pc EXCEPT !.i = @ + 1]
      /\ ThisInstr.op = "HandlerEnter"
  BY Zenon DEF EnterHandler
<1>2. /\ pc \in [b : Blocks, i : Nat] /\ pc.i \in Nat /\ pc' = [b |-> pc.b, i |-> pc.i + 1]
      /\ pc.i + 1 \in 1 .. Len(InstrsOf(pc.b)) + 1 /\ pc.i \in DOMAIN InstrsOf(pc.b)
      /\ ThisInstr.dst \in VReg
  BY <1>1, InstrShape DEF EnterHandler, TypeOK, RunTypes
<1>3. Blocks' = Blocks
  BY <1>1, SameMeaning
<1>4. /\ pc'.b = pc.b /\ pc'.i = pc.i + 1 /\ pc' \in [b : Blocks, i : Nat]
      /\ fn'.blocks[pc'.b] = fn.blocks[pc.b]
  BY <1>1, <1>2
<1>5. holder' \in [Home -> VReg \cup {Nobody}]
  BY <1>1, <1>2, StoredTyped DEF TypeOK, RunTypes
<1>6. written' \subseteq VReg
  BY <1>1, <1>2 DEF TypeOK, RunTypes
<1>7. HandlerTypes'
  <2>1. H \in Handler /\ H.at = pc
    BY <1>2 DEF TypeOK, RunTypes, Handler
  <2>2. H.at.i \in DOMAIN InstrsOf(H.at.b) /\ HandlerInstr(H).op = "HandlerEnter"
    BY <1>1, <1>2, <2>1 DEF HandlerInstr, ThisInstr
  <2> HIDE DEF H
  <2>3. Entered(Noted(handlers, {ThisInstr.dst}))
    BY <1>2, OuterShape, NotedShape DEF TypeOK, RunTypes
  <2>4. Entered(Append(Noted(handlers, {ThisInstr.dst}), H))
    BY <2>1, <2>2, <2>3, AppendShape
  <2>5. QED
    BY <1>1, <2>4, HandlersNext
<1>8. QED
  BY <1>2, <1>3, <1>4, <1>5, <1>6, <1>7 DEF RunTypes, InstrsOf

LEMMA PopTypes ==
  ASSUME TypeOK, PopHandler
  PROVE  RunTypes'
<1>1. /\ fn' = fn /\ handlers' = Outer /\ holder' = holder /\ written' = written
      /\ pc' = [pc EXCEPT !.i = @ + 1]
  BY Zenon DEF PopHandler
<1>2. /\ pc \in [b : Blocks, i : Nat] /\ pc' = [b |-> pc.b, i |-> pc.i + 1]
      /\ pc.i + 1 \in 1 .. Len(InstrsOf(pc.b)) + 1 /\ pc.i \in Nat
  BY <1>1, InstrShape DEF PopHandler, TypeOK, RunTypes
<1>3. Blocks' = Blocks
  BY <1>1, SameMeaning
<1>4. /\ pc'.b = pc.b /\ pc'.i = pc.i + 1 /\ pc' \in [b : Blocks, i : Nat]
      /\ fn'.blocks[pc'.b] = fn.blocks[pc.b]
  BY <1>1, <1>2
<1>5. HandlerTypes'
  BY <1>1, OuterShape, HandlersNext DEF TypeOK, RunTypes
<1>6. QED
  BY <1>1, <1>2, <1>3, <1>4, <1>5 DEF RunTypes, InstrsOf, TypeOK

LEMMA LandTypes ==
  ASSUME TypeOK, handlers # <<>>, Land
  PROVE  RunTypes'
<1> DEFINE at == Innermost.at
           dst == HandlerInstr(Innermost).dst
           back == [h \in Home |->
             IF h.kind = "Slot" THEN holder[h]
             ELSE IF Innermost.saved[h] \in Innermost.since THEN Nobody
             ELSE Innermost.saved[h]]
<1>1. /\ fn' = fn /\ handlers' = Noted(Outer, {dst}) /\ written' = written
      /\ pc' = [at EXCEPT !.i = @ + 1]
      /\ holder' = Stored(back, dst)
  BY DEF Land
<1>2. /\ at \in [b : Blocks, i : Nat]
      /\ Innermost.saved \in [Home -> VReg \cup {Nobody}]
      /\ at.i \in DOMAIN InstrsOf(at.b)
      /\ HandlerInstr(Innermost).op = "HandlerEnter"
  BY OuterShape, HandlerShape DEF TypeOK, RunTypes, Innermost
<1>3. back \in [Home -> VReg \cup {Nobody}]
  BY <1>2 DEF TypeOK, RunTypes
<1>4. HandlerInstr(Innermost) \in IrInstr
  BY <1>2, FunctionShape DEF HandlerInstr, TypeOK
<1>5. dst \in VReg
  BY <1>2, <1>4 DEF IrInstr
<1> HIDE DEF at, back, dst
<1>6. holder' \in [Home -> VReg \cup {Nobody}]
  BY <1>1, <1>3, <1>5, StoredTyped
<1>7. Len(InstrsOf(at.b)) \in Nat /\ DOMAIN InstrsOf(at.b) = 1 .. Len(InstrsOf(at.b))
  BY <1>2, FunctionShape DEF TypeOK
<1>8. /\ pc'.b = at.b /\ pc'.i = at.i + 1 /\ pc' \in [b : Blocks, i : Nat]
      /\ fn'.blocks[pc'.b] = fn.blocks[at.b]
      /\ pc'.i \in 1 .. Len(InstrsOf(at.b)) + 1
  BY <1>1, <1>2, <1>7
<1>9. Blocks' = Blocks
  BY <1>1, SameMeaning
<1>10. HandlerTypes'
  <2>1. Entered(Noted(Outer, {dst}))
    BY <1>5, OuterShape, NotedShape DEF TypeOK, RunTypes
  <2>2. QED
    BY <1>1, <2>1, HandlersNext
<1>11. QED
  BY <1>1, <1>6, <1>8, <1>9, <1>10 DEF RunTypes, InstrsOf, TypeOK
(* A branch goes to a successor, its first instruction.                    *)
LEMMA BranchTarget ==
  ASSUME TypeOK, Terminate
  PROVE  \/ \E b \in Succs(pc.b) :
              /\ pc' = [b |-> b, i |-> 1]
              /\ UNCHANGED <<fn, phase, liveVars, scanVars, holder, written, handlers>>
         \/ phase' = "left" /\ UNCHANGED <<fn, liveVars, scanVars, runVars>>
         \/ /\ ThisTerm.op \in {"Unwind", "Rethrow"} /\ ~AtInstr
            /\ handlers # <<>> /\ Land
<1>1. ThisTerm.op = "Jump" => ThisTerm.to[1] \in Succs(pc.b)
  <2>1. TermOf(pc.b) \in IrTerm(Len(fn.blocks))
    BY FunctionShape DEF TypeOK, RunTypes
  <2>2. ThisTerm.op = "Jump" => 1 \in DOMAIN ThisTerm.to
    BY <2>1 DEF ThisTerm, IrTerm
  <2>3. QED
    BY <2>2 DEF ThisTerm, Succs
<1>2. QED
  BY <1>1 DEF Terminate

LEMMA TerminateTypes ==
  ASSUME TypeOK, Terminate
  PROVE  RunTypes'
<1>1. CASE \E b \in Succs(pc.b) :
             /\ pc' = [b |-> b, i |-> 1]
             /\ UNCHANGED <<fn, phase, liveVars, scanVars, holder, written, handlers>>
  <2>1. PICK b \in Succs(pc.b) :
          /\ pc' = [b |-> b, i |-> 1]
          /\ fn' = fn /\ holder' = holder /\ written' = written /\ handlers' = handlers
    BY <1>1
  <2>2. b \in Blocks /\ Len(InstrsOf(b)) \in Nat
    BY FunctionShape DEF TypeOK, RunTypes
  <2>3. Blocks' = Blocks /\ fn'.blocks[pc'.b] = fn.blocks[b]
    BY <2>1, SameMeaning
  <2>4. pc' \in [b : Blocks, i : Nat] /\ pc'.i \in 1 .. Len(InstrsOf(b)) + 1
    BY <2>1, <2>2
  <2>5. HandlerTypes'
    BY <2>1, HandlerStays DEF TypeOK, RunTypes
  <2>6. QED
    BY <2>1, <2>3, <2>4, <2>5 DEF RunTypes, InstrsOf, TypeOK
<1>2. CASE UNCHANGED <<fn, liveVars, scanVars, runVars>>
  BY <1>2, RunStays DEF TypeOK
<1>3. CASE handlers # <<>> /\ Land
  BY <1>3, LandTypes
<1>4. QED
  BY <1>1, <1>2, <1>3, BranchTarget

LEMMA GreatestVreg ==
  ASSUME NEW T \in SUBSET VReg, T # {}
  PROVE  Max(T) \in T
<1>1. T \in SUBSET Nat /\ \A m \in T : m <= NVregs
  BY NVregsAssumption DEF VReg, LS!VReg
<1>2. \E n \in T : \A m \in T : m <= n
  BY <1>1, GreatestNumber, NVregsAssumption
<1>3. QED
  BY <1>1, <1>2 DEF Max

LEMMA ParamsAreVregs ==
  ASSUME fn \in Functions
  PROVE  Params \subseteq VReg
<1>1. fn.receiver => 0 \in VReg
  BY FunctionsAssumption DEF IsFunction
<1>2. QED
  BY <1>1 DEF Params

LEMMA PrologueTypes ==
  ASSUME TypeOK, Prologue
  PROVE  RunTypes'
<1> DEFINE here(h) == {p \in Params : loc[p] = h}
<1>1. /\ holder' = [h \in Home |-> IF here(h) = {} THEN Nobody ELSE Max(here(h))]
      /\ written' = Params /\ fn' = fn /\ pc' = pc /\ handlers' = handlers
  BY DEF Prologue
<1>2. Params \subseteq VReg
  BY ParamsAreVregs DEF TypeOK
<1>3. \A h \in Home : here(h) # {} => Max(here(h)) \in VReg
  <2>1. \A h \in Home : here(h) \in SUBSET VReg
    BY <1>2
  <2> HIDE DEF here
  <2>2. \A h \in Home : here(h) # {} => Max(here(h)) \in here(h)
    BY <2>1, GreatestVreg
  <2>3. QED
    BY <2>1, <2>2
<1> HIDE DEF here
<1>4. holder' \in [Home -> VReg \cup {Nobody}]
  BY <1>1, <1>3
<1>5. Blocks' = Blocks /\ InstrsOf(pc.b)' = InstrsOf(pc.b) /\ HandlerTypes'
  BY <1>1, HandlerStays DEF TypeOK, RunTypes, Blocks, InstrsOf
<1>6. QED
  BY <1>1, <1>2, <1>4, <1>5, Zenon DEF RunTypes, TypeOK

LEMMA TypeStep ==
  ASSUME TypeOK, [Next]_vars, LS!TypeOK'
  PROVE  TypeOK'
<1>1. CASE Allocate
  BY <1>1, AllocateTypes
<1>2. CASE Run
  <2>1. RunTypes'
    <3>1. CASE CallThrows
      BY <3>1, LandTypes DEF CallThrows
    <3>2. QED
      BY <1>2, <3>1, PrologueTypes, ExecuteTypes, EnterTypes, PopTypes, TerminateTypes DEF Run
  <2>2. /\ fn' = fn /\ UNCHANGED liveVars
        /\ phase' \in {"run", "left"}
    <3>1. CASE Terminate
      BY <3>1, BranchTarget DEF Land, liveVars, Terminate
    <3>2. QED
      BY <1>2, <3>1 DEF Run, Prologue, Execute, EnterHandler, PopHandler, CallThrows, Land
  <2>3. Blocks' = Blocks
    BY <2>2, SameMeaning
  <2>4. LiveTypes'
    BY <2>2, <2>3 DEF TypeOK, LiveTypes, liveVars
  <2>5. QED
    BY <2>1, <2>2, <2>4 DEF TypeOK
<1>3. CASE UNCHANGED vars
  <2>1. fn' = fn /\ UNCHANGED liveVars /\ UNCHANGED runVars /\ phase' = phase
    BY <1>3 DEF vars
  <2>2. Blocks' = Blocks /\ RunTypes'
    BY <2>1, SameMeaning, RunStays DEF TypeOK
  <2>3. QED
    BY <2>1, <2>2 DEF TypeOK, LiveTypes, liveVars
<1>4. QED
  BY <1>1, <1>2, <1>3 DEF Next
-----------------------------------------------------------------------------
(* What is still needed, and where.                                        *)

LEMMA NeededStep ==
  ASSUME fn \in Functions, NEW b \in Blocks, NEW i \in DOMAIN InstrsOf(b)
  PROVE  /\ UseOf(InstrsOf(b)[i]) \subseteq NeededAt(b, i)
         /\ NeededAt(b, i + 1) \subseteq NeededAt(b, i) \cup DefOf(InstrsOf(b)[i])
<1> DEFINE L == Len(InstrsOf(b))
<1>1. L \in Nat /\ DOMAIN InstrsOf(b) = 1 .. L /\ i \in 1 .. L
  BY FunctionShape
<1> HIDE DEF L
<1>2. ASSUME NEW v \in UseOf(InstrsOf(b)[i]) PROVE v \in NeededAt(b, i)
  <2>1. i \in i .. L /\ \A k \in i .. i - 1 : FALSE
    BY <1>1
  <2>2. v \in VReg
    BY FunctionShape
  <2>3. QED
    BY <1>2, <2>1, <2>2 DEF NeededAt, L
<1>3. ASSUME NEW v \in NeededAt(b, i + 1), v \notin DefOf(InstrsOf(b)[i])
      PROVE  v \in NeededAt(b, i)
  <2>1. v \in VReg
    BY DEF NeededAt
  <2>2. CASE \E j \in i + 1 .. L :
               /\ v \in UseOf(InstrsOf(b)[j])
               /\ \A k \in i + 1 .. j - 1 : v \notin DefOf(InstrsOf(b)[k])
    <3>1. PICK j \in i + 1 .. L :
               /\ v \in UseOf(InstrsOf(b)[j])
               /\ \A k \in i + 1 .. j - 1 : v \notin DefOf(InstrsOf(b)[k])
      BY <2>2
    <3>2. j \in i .. L /\ \A k \in i .. j - 1 : k = i \/ k \in i + 1 .. j - 1
      BY <1>1
    <3>3. \A k \in i .. j - 1 : v \notin DefOf(InstrsOf(b)[k])
      BY <1>3, <3>1, <3>2
    <3>4. QED
      BY <2>1, <3>1, <3>2, <3>3 DEF NeededAt, L
  <2>3. CASE /\ v \in TermUseOf(TermOf(b)) \cup liveOut[b]
             /\ \A k \in i + 1 .. L : v \notin DefOf(InstrsOf(b)[k])
    <3>1. \A k \in i .. L : k = i \/ k \in i + 1 .. L
      BY <1>1
    <3>2. \A k \in i .. L : v \notin DefOf(InstrsOf(b)[k])
      BY <1>3, <2>3, <3>1
    <3>3. QED
      BY <2>1, <2>3, <3>2 DEF NeededAt, L
  <2>4. CASE i + 1 = L + 1 /\ v \in ThrownAtOnce(b)
    <3>1. PICK j \in DOMAIN InstrsOf(b) :
            j = L /\ v \in UseOf(InstrsOf(b)[j]) \cup DefOf(InstrsOf(b)[j])
      BY <2>4 DEF ThrownAtOnce, L
    <3>2. j = i
      BY <1>1, <2>4, <3>1
    <3>3. QED
      BY <1>2, <1>3, <3>1, <3>2
  <2>5. QED
    BY <2>2, <2>3, <2>4 DEF NeededAt, L
<1>4. QED
  BY <1>2, <1>3

(* At the end of a block: what the terminator reads and what the           *)
(* successors need.                                                        *)
LEMMA NeededAtEnd ==
  ASSUME TypeOK, NEW b \in Blocks, Settled(b)
  PROVE  /\ TermUseOf(TermOf(b)) \subseteq NeededAt(b, Len(InstrsOf(b)) + 1)
         /\ ThrownAtOnce(b) \subseteq NeededAt(b, Len(InstrsOf(b)) + 1)
         /\ \A s \in Succs(b) : liveIn[s] \subseteq NeededAt(b, Len(InstrsOf(b)) + 1)
<1> DEFINE L == Len(InstrsOf(b))
<1>1. L \in Nat
  BY FunctionShape DEF TypeOK
<1> HIDE DEF L
<1>2. \A k \in L + 1 .. L : FALSE
  BY <1>1
<1>3. TermUseOf(TermOf(b)) \cup liveOut[b] \subseteq VReg
  BY FunctionShape DEF TypeOK, LiveTypes
<1>4. TermUseOf(TermOf(b)) \cup liveOut[b] \subseteq NeededAt(b, L + 1)
  BY <1>2, <1>3 DEF NeededAt, L
<1>5. \A s \in Succs(b) : liveIn[s] \subseteq liveOut[b]
  BY DEF Settled
<1>6. ThrownAtOnce(b) \subseteq NeededAt(b, L + 1)
  <2>1. \A v \in ThrownAtOnce(b) : v \in VReg
    BY DEF ThrownAtOnce
  <2>2. QED
    BY <2>1 DEF NeededAt, L
<1>7. QED
  BY <1>4, <1>5, <1>6 DEF L

(* At the start of a block: no more than its live-in set.                  *)
LEMMA NeededAtStart ==
  ASSUME TypeOK, NEW b \in Blocks, Settled(b)
  PROVE  NeededAt(b, 1) \subseteq liveIn[b]
<1> DEFINE L == Len(InstrsOf(b))
<1>1. L \in Nat /\ DOMAIN InstrsOf(b) = 1 .. L
  BY FunctionShape DEF TypeOK
<1>2. liveIn[b] = UpwardUses(b) \cup (liveOut[b] \ Kill(b))
  BY DEF Settled, LiveInOf
<1> HIDE DEF L
<1>3. SUFFICES ASSUME NEW v \in NeededAt(b, 1) PROVE v \in liveIn[b]
  OBVIOUS
<1>4. CASE \E j \in 1 .. L :
             /\ v \in UseOf(InstrsOf(b)[j])
             /\ \A k \in 1 .. j - 1 : v \notin DefOf(InstrsOf(b)[k])
  <2>1. PICK j \in 1 .. L :
             /\ v \in UseOf(InstrsOf(b)[j])
             /\ \A k \in 1 .. j - 1 : v \notin DefOf(InstrsOf(b)[k])
    BY <1>4
  <2>2. v \in UseOf(InstrsOf(b)[j]) \ KilledBefore(b, j)
    BY <2>1 DEF KilledBefore
  <2>3. v \in UpwardUses(b)
    BY <1>1, <2>2 DEF UpwardUses
  <2>4. QED
    BY <1>2, <2>3
<1>5. CASE /\ v \in TermUseOf(TermOf(b)) \cup liveOut[b]
           /\ \A k \in 1 .. L : v \notin DefOf(InstrsOf(b)[k])
  <2>1. v \notin Kill(b)
    BY <1>1, <1>5 DEF Kill
  <2>2. QED
    BY <1>2, <1>5, <2>1 DEF UpwardUses
<1>6. CASE 1 = L + 1 /\ v \in ThrownAtOnce(b)
  <2>1. L \in DOMAIN InstrsOf(b)
    BY <1>6 DEF ThrownAtOnce, L
  <2>2. QED
    BY <1>1, <1>6, <2>1
<1>7. QED
  BY <1>4, <1>5, <1>6 DEF NeededAt, L

(* An interval holds every position of a block its vreg is needed at.      *)
Spans(v, p) == range[v].start <= p /\ p <= range[v].end

Covers == \A v \in VReg : \A p \in Touched(v) : Spans(v, p)

LEMMA NeededIsCovered ==
  ASSUME TypeOK, Covers, NEW b \in Blocks, Settled(b),
         NEW i \in DOMAIN InstrsOf(b), NEW v \in NeededAt(b, i)
  PROVE  v \in VReg /\ Spans(v, Entry(b) + i - 1)
<1> DEFINE L == Len(InstrsOf(b))
           p == Entry(b) + i - 1
<1>1. /\ L \in Nat /\ DOMAIN InstrsOf(b) = 1 .. L /\ i \in 1 .. L /\ i # L + 1
      /\ Entry(b) \in Nat /\ TermPos(b) = Entry(b) + L
  BY FunctionShape, Positions DEF TypeOK
<1>2. v \in VReg
  BY DEF NeededAt
<1>3. range[v].start \in Nat /\ range[v].end \in Nat
  BY <1>2, MaxPosAssumption DEF TypeOK, LS!TypeOK, LS!LiveRange, LS!Pos, VReg
<1>4. \A j \in 1 .. L : v \in UseOf(InstrsOf(b)[j]) \cup DefOf(InstrsOf(b)[j]) =>
                         Spans(v, Entry(b) + j - 1)
  <2> SUFFICES ASSUME NEW j \in 1 .. L, v \in UseOf(InstrsOf(b)[j]) \cup DefOf(InstrsOf(b)[j])
               PROVE  Spans(v, Entry(b) + j - 1)
    OBVIOUS
  <2>1. j \in {k \in DOMAIN InstrsOf(b) : v \in UseOf(InstrsOf(b)[k]) \cup DefOf(InstrsOf(b)[k])}
    BY <1>1
  <2>2. Entry(b) + j - 1 \in Touched(v)
    BY <2>1 DEF Touched
  <2>3. QED
    BY <1>2, <2>2 DEF Covers
<1>5. v \in TermUseOf(TermOf(b)) \cup liveOut[b] => Spans(v, TermPos(b))
  <2>1. v \in liveOut[b] => TermPos(b) \in Touched(v)
    BY DEF Touched, LiveTouches
  <2>2. v \in TermUseOf(TermOf(b)) => TermPos(b) \in Touched(v)
    BY DEF Touched
  <2>3. QED
    BY <1>2, <2>1, <2>2 DEF Covers
<1>6. v \in liveIn[b] => Spans(v, Entry(b))
  <2>1. v \in liveIn[b] => Entry(b) \in Touched(v)
    BY DEF Touched, LiveTouches
  <2>2. QED
    BY <1>2, <2>1 DEF Covers
<1> HIDE DEF L
<1>7. p <= range[v].end
  <2>1. CASE \E j \in i .. L : v \in UseOf(InstrsOf(b)[j])
    <3>1. PICK j \in i .. L : v \in UseOf(InstrsOf(b)[j])
      BY <2>1
    <3>2. j \in 1 .. L /\ i <= j
      BY <1>1
    <3>3. Entry(b) + j - 1 <= range[v].end
      BY <1>4, <3>1, <3>2 DEF Spans
    <3>4. QED
      BY <1>1, <1>3, <3>2, <3>3
  <2>2. CASE v \in TermUseOf(TermOf(b)) \cup liveOut[b]
    BY <1>1, <1>3, <1>5, <2>2 DEF Spans
  <2>3. QED
    BY <1>1, <2>1, <2>2 DEF NeededAt, L
<1>8. range[v].start <= p
  <2>1. CASE \E k \in 1 .. i - 1 : v \in DefOf(InstrsOf(b)[k])
    <3>1. PICK k \in 1 .. i - 1 : v \in DefOf(InstrsOf(b)[k])
      BY <2>1
    <3>2. k \in 1 .. L /\ k < i
      BY <1>1
    <3>3. range[v].start <= Entry(b) + k - 1
      BY <1>4, <3>1, <3>2 DEF Spans
    <3>4. QED
      BY <1>1, <1>3, <3>2, <3>3
  <2>2. CASE \A k \in 1 .. i - 1 : v \notin DefOf(InstrsOf(b)[k])
    <3>1. v \in NeededAt(b, 1)
      <4>1. CASE \E j \in i .. L :
                   /\ v \in UseOf(InstrsOf(b)[j])
                   /\ \A k \in i .. j - 1 : v \notin DefOf(InstrsOf(b)[k])
        <5>1. PICK j \in i .. L :
                   /\ v \in UseOf(InstrsOf(b)[j])
                   /\ \A k \in i .. j - 1 : v \notin DefOf(InstrsOf(b)[k])
          BY <4>1
        <5>2. j \in 1 .. L /\ \A k \in 1 .. j - 1 : k \in 1 .. i - 1 \/ k \in i .. j - 1
          BY <1>1
        <5>3. \A k \in 1 .. j - 1 : v \notin DefOf(InstrsOf(b)[k])
          BY <2>2, <5>1, <5>2
        <5>4. QED
          BY <1>2, <5>1, <5>2, <5>3 DEF NeededAt, L
      <4>2. CASE /\ v \in TermUseOf(TermOf(b)) \cup liveOut[b]
                 /\ \A k \in i .. L : v \notin DefOf(InstrsOf(b)[k])
        <5>1. \A k \in 1 .. L : k \in 1 .. i - 1 \/ k \in i .. L
          BY <1>1
        <5>2. \A k \in 1 .. L : v \notin DefOf(InstrsOf(b)[k])
          BY <2>2, <4>2, <5>1
        <5>3. QED
          BY <1>2, <4>2, <5>2 DEF NeededAt, L
      <4>3. QED
        BY <1>1, <4>1, <4>2 DEF NeededAt, L
    <3>2. range[v].start <= Entry(b)
      BY <1>6, <3>1, NeededAtStart DEF Spans
    <3>3. QED
      BY <1>1, <1>3, <3>2
  <2>3. QED
    BY <2>1, <2>2
<1>9. QED
  BY <1>2, <1>7, <1>8 DEF Spans

(* Vregs whose intervals share a position have different homes.            *)
LEMMA HomesApart ==
  ASSUME LS!ScanInv, todo = {}, NEW v \in VReg, NEW w \in VReg, v # w,
         NEW p \in Int, Spans(v, p), Spans(w, p)
  PROVE  loc[v] # loc[w]
<1>1. range \in [VReg -> LS!LiveRange] /\ LS!ConflictFree /\ LS!Placed = VReg
  BY DEF LS!ScanInv, LS!TypeOK, LS!Placed, VReg
<1>2. \A u \in VReg : range[u].start \in Int /\ range[u].end \in Int
  BY <1>1 DEF LS!LiveRange, LS!Pos
<1>3. LS!Overlap(v, w)
  BY <1>2 DEF LS!Overlap, Spans
<1>4. QED
  BY <1>1, <1>3 DEF LS!ConflictFree
-----------------------------------------------------------------------------
(* The running function.                                                   *)

(* What is needed at a place does not change while the code runs.          *)
LEMMA SameNeeded ==
  ASSUME fn' = fn, liveOut' = liveOut
  PROVE  \A b, i : NeededAt(b, i)' = NeededAt(b, i)
<1>1. \A b : InstrsOf(b)' = InstrsOf(b) /\ TermOf(b)' = TermOf(b)
  BY SameMeaning
<1>2. \A b : liveOut'[b] = liveOut[b]
  OBVIOUS
<1> SUFFICES ASSUME NEW b, NEW i PROVE NeededAt(b, i)' = NeededAt(b, i)
  OBVIOUS
<1>3. NeededAt(b, i)' =
        {v \in VReg :
           \/ \E j \in i .. Len(InstrsOf(b)') :
                /\ v \in UseOf(InstrsOf(b)'[j])
                /\ \A k \in i .. j - 1 : v \notin DefOf(InstrsOf(b)'[k])
           \/ /\ v \in TermUseOf(TermOf(b)') \cup liveOut'[b]
              /\ \A k \in i .. Len(InstrsOf(b)') : v \notin DefOf(InstrsOf(b)'[k])
           \/ i = Len(InstrsOf(b)') + 1 /\ v \in ThrownAtOnce(b)'}
  BY DEF NeededAt
<1>4. InstrsOf(b)' = InstrsOf(b) /\ TermOf(b)' = TermOf(b) /\ liveOut'[b] = liveOut[b]
  BY <1>1, <1>2
<1>5. ThrownAtOnce(b)' = ThrownAtOnce(b)
  BY <1>4 DEF ThrownAtOnce
<1>6. QED
  BY <1>3, <1>4, <1>5 DEF NeededAt

LEMMA NeededNow ==
  ASSUME fn' = fn, liveOut' = liveOut, NEW b, NEW i, pc' = [b |-> b, i |-> i]
  PROVE  NeededAt(pc.b, pc.i)' = NeededAt(b, i)
<1>1. pc'.b = b /\ pc'.i = i
  OBVIOUS
<1>2. /\ InstrsOf(pc.b)' = InstrsOf(b) /\ TermOf(pc.b)' = TermOf(b)
      /\ liveOut'[pc'.b] = liveOut[b]
  BY <1>1 DEF InstrsOf, TermOf
<1>3. ThrownAtOnce(pc.b)' = ThrownAtOnce(b)
  BY <1>2 DEF ThrownAtOnce
<1>4. NeededAt(pc.b, pc.i)' =
        {v \in VReg :
           \/ \E j \in pc'.i .. Len(InstrsOf(pc.b)') :
                /\ v \in UseOf(InstrsOf(pc.b)'[j])
                /\ \A k \in pc'.i .. j - 1 : v \notin DefOf(InstrsOf(pc.b)'[k])
           \/ /\ v \in TermUseOf(TermOf(pc.b)') \cup liveOut'[pc'.b]
              /\ \A k \in pc'.i .. Len(InstrsOf(pc.b)') : v \notin DefOf(InstrsOf(pc.b)'[k])
           \/ pc'.i = Len(InstrsOf(pc.b)') + 1 /\ v \in ThrownAtOnce(pc.b)'}
  BY DEF NeededAt
<1>5. QED
  BY <1>1, <1>2, <1>3, <1>4 DEF NeededAt

LEMMA NeededThere ==
  ASSUME fn' = fn, liveOut' = liveOut, NEW h, NEW k, handlers'[k] = h
  PROVE  /\ NeededAt(handlers[k].at.b, handlers[k].at.i + 1)' = NeededAt(h.at.b, h.at.i + 1)
         /\ HandlerInstr(handlers[k])' = HandlerInstr(h)
<1>1. handlers'[k].at.b = h.at.b /\ handlers'[k].at.i = h.at.i
  OBVIOUS
<1>2. fn'.blocks[handlers'[k].at.b] = fn.blocks[h.at.b]
  BY <1>1
<1>3. QED
  BY <1>1, <1>2, Zenon DEF NeededAt, ThrownAtOnce, HandlerInstr, InstrsOf, TermOf

(* A landing at h finds v in its home, h having been entered when the vregs*)
(* of w but those since then had been written.                             *)
Restores(h, w) ==
  \A v \in (w \ h.since) \cap NeededAt(h.at.b, h.at.i + 1) :
    v = HandlerInstr(h).dst \/ loc[v].kind = "Slot" \/ h.saved[loc[v]] = v

AllRestore(hs, w) == \A k \in DOMAIN hs : Restores(hs[k], w)

LEMMA NotedRestore ==
  ASSUME NEW hs, Entered(hs), NEW w, NEW d \in SUBSET VReg, AllRestore(hs, w)
  PROVE  AllRestore(Noted(hs, d), w \cup d)
<1> DEFINE n == Noted(hs, d)
<1>1. /\ DOMAIN n = DOMAIN hs
      /\ \A k \in DOMAIN hs : /\ n[k].at = hs[k].at /\ n[k].saved = hs[k].saved
                              /\ n[k].since = hs[k].since \cup d
  BY NotedShape
<1> HIDE DEF n
<1> SUFFICES ASSUME NEW k \in DOMAIN hs PROVE Restores(n[k], w \cup d)
  BY <1>1 DEF AllRestore, n
<1>2. /\ n[k].at = hs[k].at /\ n[k].saved = hs[k].saved /\ n[k].since = hs[k].since \cup d
      /\ HandlerInstr(n[k]) = HandlerInstr(hs[k])
  BY <1>1 DEF HandlerInstr
<1>3. (w \cup d) \ n[k].since \subseteq w \ hs[k].since
  BY <1>2
<1>4. Restores(hs[k], w)
  BY DEF AllRestore
<1>5. QED
  BY <1>2, <1>3, <1>4 DEF Restores

LEMMA OuterRestore ==
  ASSUME HandlerTypes, NEW w, AllRestore(handlers, w)
  PROVE  AllRestore(Outer, w)
  BY OuterShape DEF AllRestore

LEMMA AppendRestore ==
  ASSUME NEW hs, Entered(hs), NEW h \in Handler, NEW w,
         h.at.i \in DOMAIN InstrsOf(h.at.b), HandlerInstr(h).op = "HandlerEnter",
         AllRestore(hs, w), Restores(h, w)
  PROVE  AllRestore(Append(hs, h), w)
<1> DEFINE all == Append(hs, h)
<1>1. \A k \in DOMAIN all : (k \in DOMAIN hs /\ all[k] = hs[k]) \/ all[k] = h
  BY AppendShape
<1> HIDE DEF all
<1>2. AllRestore(all, w)
  BY <1>1 DEF AllRestore
<1>3. QED
  BY <1>2 DEF all

(* What HomesHold says of the handlers, and what it must say next.         *)
LEMMA HandlersRestore ==
  ASSUME HomesHold, phase = "run"
  PROVE  AllRestore(handlers, written)
  BY Zenon DEF HomesHold, AllRestore, Restores

(* HomesHold, with the place and the handlers of the next state given.     *)
LEMMA HomesHoldNext ==
  ASSUME fn' = fn, liveOut' = liveOut, loc' = loc,
         NEW b, NEW i, pc' = [b |-> b, i |-> i], NEW hs, handlers' = hs,
         NEW w, written' = w,
         \A v \in w \cap NeededAt(b, i) : holder'[loc[v]] = v,
         \A v \in w : loc[v].kind = "Slot" => holder'[loc[v]] = v,
         AllRestore(hs, w)
  PROVE  HomesHold'
<1>1. NeededAt(pc.b, pc.i)' = NeededAt(b, i)
  BY NeededNow
<1>2. ASSUME NEW k \in DOMAIN handlers'
      PROVE  \A v \in (written' \ handlers'[k].since)
                    \cap NeededAt(handlers[k].at.b, handlers[k].at.i + 1)' :
               \/ v = HandlerInstr(handlers[k])'.dst \/ loc'[v].kind = "Slot"
               \/ handlers'[k].saved[loc'[v]] = v
  <2>1. handlers'[k] = hs[k] /\ k \in DOMAIN hs
    BY <1>2
  <2>2. /\ NeededAt(handlers[k].at.b, handlers[k].at.i + 1)' = NeededAt(hs[k].at.b, hs[k].at.i + 1)
        /\ HandlerInstr(handlers[k])' = HandlerInstr(hs[k])
    BY <2>1, NeededThere
  <2>3. Restores(hs[k], w)
    BY <2>1 DEF AllRestore
  <2>4. QED
    BY <2>1, <2>2, <2>3, Zenon DEF Restores
<1>3. QED
  BY <1>1, <1>2, Zenon DEF HomesHold

(* The home an instruction writes is no home of a value needed after it.   *)
LEMMA ResultMissesNeeded ==
  ASSUME TypeOK, Covers, LS!ScanInv, todo = {},
         NEW b \in Blocks, Settled(b), NEW i \in DOMAIN InstrsOf(b),
         NEW d \in VReg, DefOf(InstrsOf(b)[i]) \subseteq {d},
         d \in DefOf(InstrsOf(b)[i]) \/ d \in NeededAt(b, i + 1),
         NEW v \in NeededAt(b, i + 1), v # d
  PROVE  loc[v] # loc[d]
<1>1. /\ fn \in Functions /\ Entry(b) \in Nat /\ i \in Nat
      /\ i \in 1 .. Len(InstrsOf(b)) + 1 /\ Len(InstrsOf(b)) \in Nat
  BY FunctionShape, Positions DEF TypeOK
<1>2. v \in NeededAt(b, i)
  BY <1>1, NeededStep
<1>3. v \in VReg /\ Spans(v, Entry(b) + i - 1)
  BY <1>1, <1>2, NeededIsCovered
<1>4. Spans(d, Entry(b) + i - 1)
  <2>1. CASE d \in DefOf(InstrsOf(b)[i])
    <3>1. i \in {k \in DOMAIN InstrsOf(b) : d \in UseOf(InstrsOf(b)[k]) \cup DefOf(InstrsOf(b)[k])}
      BY <2>1
    <3>2. Entry(b) + i - 1 \in Touched(d)
      BY <3>1 DEF Touched
    <3>3. QED
      BY <3>2 DEF Covers
  <2>2. CASE d \in NeededAt(b, i + 1) /\ d \notin DefOf(InstrsOf(b)[i])
    <3>1. d \in NeededAt(b, i)
      BY <1>1, <2>2, NeededStep
    <3>2. QED
      BY <1>1, <3>1, NeededIsCovered
  <2>3. QED
    BY <2>1, <2>2
<1>5. Entry(b) + i - 1 \in Int
  BY <1>1
<1>6. QED
  BY <1>3, <1>4, <1>5, HomesApart

(* A slot is the home of one vreg.                                         *)
LEMMA SlotsApart ==
  ASSUME LS!ScanInv, todo = {}, NEW v \in VReg, NEW w \in VReg, v # w,
         loc[v].kind = "Slot"
  PROVE  loc[v] # loc[w]
<1>1. LS!FrameExact /\ LS!Placed = VReg
  BY DEF LS!ScanInv, LS!Placed, VReg
<1>2. QED
  BY <1>1 DEF LS!FrameExact

(* A store reaches its own home and no other.                              *)
LEMMA StoredHolds ==
  ASSUME NEW h \in [Home -> VReg \cup {Nobody}], NEW d \in VReg, loc[d] \in Home
  PROVE  /\ Stored(h, d)[loc[d]] = d
         /\ \A v : loc[v] # loc[d] => Stored(h, d)[loc[v]] = h[loc[v]]
  BY DEF Stored

(* What AllocInv says of the code that runs.                               *)
LEMMA Running ==
  ASSUME AllocInv, phase = "run"
  PROVE  /\ todo = {} /\ Covers /\ (\A b \in Blocks : Settled(b))
         /\ \A v \in VReg : loc[v] \in Home
         /\ holder \in [Home -> VReg \cup {Nobody}] /\ written \subseteq VReg
<1>1. todo = {}
  BY DEF AllocInv, PlanInv, ScanInPlace
<1>2. \A v \in VReg : loc[v] \in Home
  BY <1>1, SlotsFit DEF AllocInv, PlanInv
<1>3. Covers
  BY DEF AllocInv, PlanInv, RangesCover, Covers, Spans
<1>4. \A b \in Blocks : Settled(b)
  BY DEF AllocInv, PlanInv, SweptAreSettled
<1>5. QED
  BY <1>1, <1>2, <1>3, <1>4 DEF AllocInv, PlanInv, TypeOK, RunTypes
LEMMA ExecuteHolds ==
  ASSUME AllocInv, InScope, Execute
  PROVE  HomesHold'
<1> DEFINE b == pc.b
           i == pc.i
           I == ThisInstr
           d == WritesOf(I)
<1>1. /\ phase = "run" /\ AtInstr /\ fn' = fn /\ liveOut' = liveOut /\ loc' = loc
      /\ I.op \notin {"HandlerEnter", "HandlerPop"}
      /\ holder' = (IF d = {} THEN holder ELSE Stored(holder, I.dst))
      /\ written' = written \cup d
      /\ handlers' = Noted(handlers, d)
      /\ pc' = [pc EXCEPT !.i = @ + 1]
  BY DEF Execute, liveVars, scanVars
<1>2. /\ b \in Blocks /\ i \in DOMAIN InstrsOf(b) /\ pc' = [b |-> b, i |-> i + 1]
      /\ I \in IrInstr /\ d \subseteq {I.dst} \cap VReg /\ I = InstrsOf(b)[i]
  BY <1>1, InstrShape DEF AllocInv, PlanInv, ThisInstr
<1>3. /\ todo = {} /\ Covers /\ Settled(b) /\ \A v \in VReg : loc[v] \in Home
      /\ holder \in [Home -> VReg \cup {Nobody}] /\ written \subseteq VReg
      /\ TypeOK /\ LS!ScanInv /\ fn \in Functions
  BY <1>1, <1>2, Running DEF AllocInv, PlanInv, TypeOK
<1>4. /\ \A v \in written \cap NeededAt(b, i) : holder[loc[v]] = v
      /\ \A v \in written : loc[v].kind = "Slot" => holder[loc[v]] = v
  BY <1>1 DEF AllocInv, PlanInv, HomesHold
<1>5. DefOf(I) \subseteq d /\ (d # {} => d = {I.dst} /\ I.dst \in VReg)
      /\ (d # {} => I.op = "ScanInt" \/ I.dst \in DefOf(I))
  BY <1>2 DEF DefOf, WritesOf
<1>6. I.op = "ScanInt" => I.dst \in NeededAt(b, i + 1)
  BY <1>1 DEF InScope
<1>7. ASSUME d # {}, NEW v \in NeededAt(b, i + 1), v # I.dst
      PROVE  loc[v] # loc[I.dst]
  <2>1. I.dst \in VReg /\ DefOf(InstrsOf(b)[i]) \subseteq {I.dst}
    BY <1>2, <1>5, <1>7
  <2>2. I.dst \in DefOf(InstrsOf(b)[i]) \/ I.dst \in NeededAt(b, i + 1)
    BY <1>2, <1>5, <1>6, <1>7
  <2> HIDE DEF b, i, I, d
  <2>3. QED
    BY <1>2, <1>3, <1>7, <2>1, <2>2, ResultMissesNeeded
<1>8. NeededAt(b, i + 1) \subseteq NeededAt(b, i) \cup d
  BY <1>2, <1>3, <1>5, NeededStep
<1> HIDE DEF b, i, I, d
<1>9. \A v \in written' \cap NeededAt(b, i + 1) : holder'[loc[v]] = v
  <2>1. CASE d = {}
    BY <1>1, <1>4, <1>8, <2>1
  <2>2. CASE d # {}
    BY <1>1, <1>3, <1>4, <1>5, <1>7, <1>8, <2>2, StoredHolds
  <2>3. QED
    BY <2>1, <2>2
<1>10. \A v \in written' : loc[v].kind = "Slot" => holder'[loc[v]] = v
  <2>1. CASE d = {}
    BY <1>1, <1>4, <2>1
  <2>2. CASE d # {}
    <3>1. \A v \in written : loc[v].kind = "Slot" /\ v # I.dst => loc[v] # loc[I.dst]
      BY <1>3, <1>5, <2>2, SlotsApart
    <3>2. QED
      BY <1>1, <1>3, <1>4, <1>5, <2>2, <3>1, StoredHolds
  <2>3. QED
    BY <2>1, <2>2
<1>11. AllRestore(Noted(handlers, d), written \cup d)
  <2>1. AllRestore(handlers, written)
    BY <1>1, HandlersRestore DEF AllocInv
  <2>2. Entered(handlers) /\ d \in SUBSET VReg
    BY <1>2, <1>3, OuterShape DEF TypeOK, RunTypes
  <2>3. QED
    BY <2>1, <2>2, NotedRestore
<1>12. QED
  BY <1>1, <1>2, <1>9, <1>10, <1>11, HomesHoldNext

LEMMA EnterHolds ==
  ASSUME AllocInv, EnterHandler
  PROVE  HomesHold'
<1> DEFINE b == pc.b
           i == pc.i
           I == ThisInstr
           H == [at |-> pc, saved |-> holder, since |-> {}]
<1>1. /\ phase = "run" /\ AtInstr /\ fn' = fn /\ liveOut' = liveOut /\ loc' = loc
      /\ I.op = "HandlerEnter"
      /\ handlers' = Append(Noted(handlers, {I.dst}), H)
      /\ holder' = Stored(holder, I.dst)
      /\ written' = written \cup {I.dst}
      /\ pc' = [pc EXCEPT !.i = @ + 1]
  BY DEF EnterHandler, liveVars, scanVars
<1>2. /\ b \in Blocks /\ i \in DOMAIN InstrsOf(b) /\ pc' = [b |-> b, i |-> i + 1]
      /\ pc = [b |-> b, i |-> i]
      /\ I.dst \in VReg /\ I = InstrsOf(b)[i]
  BY <1>1, InstrShape DEF AllocInv, PlanInv, ThisInstr, TypeOK, RunTypes
<1>3. /\ todo = {} /\ Covers /\ Settled(b) /\ \A v \in VReg : loc[v] \in Home
      /\ holder \in [Home -> VReg \cup {Nobody}] /\ written \subseteq VReg
      /\ TypeOK /\ LS!ScanInv /\ fn \in Functions
  BY <1>1, <1>2, Running DEF AllocInv, PlanInv, TypeOK
<1>4. /\ \A v \in written \cap NeededAt(b, i) : holder[loc[v]] = v
      /\ \A v \in written : loc[v].kind = "Slot" => holder[loc[v]] = v
  BY <1>1 DEF AllocInv, PlanInv, HomesHold
<1>5. DefOf(InstrsOf(b)[i]) = {I.dst}
  BY <1>1, <1>2 DEF DefOf
<1>12. /\ H \in Handler /\ H.at = pc /\ H.saved = holder /\ H.since = {}
       /\ HandlerInstr(H) = I
  BY <1>2, <1>3 DEF Handler, HandlerInstr, TypeOK, RunTypes
<1> HIDE DEF b, i, I, H
<1>6. \A v \in NeededAt(b, i + 1) : v # I.dst => loc[v] # loc[I.dst]
  BY <1>2, <1>3, <1>5, ResultMissesNeeded
<1>7. NeededAt(b, i + 1) \subseteq NeededAt(b, i) \cup {I.dst}
  BY <1>2, <1>3, <1>5, NeededStep
<1>8. \A v \in written' \cap NeededAt(b, i + 1) : holder'[loc[v]] = v
  BY <1>1, <1>2, <1>3, <1>4, <1>6, <1>7, StoredHolds
<1>9. \A v \in written' : loc[v].kind = "Slot" => holder'[loc[v]] = v
  <2>1. \A v \in written : loc[v].kind = "Slot" /\ v # I.dst => loc[v] # loc[I.dst]
    BY <1>2, <1>3, SlotsApart
  <2>2. QED
    BY <1>1, <1>2, <1>3, <1>4, <2>1, StoredHolds
<1>10. AllRestore(Append(Noted(handlers, {I.dst}), H), written \cup {I.dst})
  <2>1. AllRestore(handlers, written) /\ Entered(handlers)
    BY <1>1, <1>3, HandlersRestore, OuterShape DEF AllocInv, TypeOK, RunTypes
  <2>2. /\ AllRestore(Noted(handlers, {I.dst}), written \cup {I.dst})
        /\ Entered(Noted(handlers, {I.dst}))
    BY <1>2, <2>1, NotedRestore, NotedShape
  <2>3. H.at.b = b /\ H.at.i = i
    BY <1>2, <1>12
  <2>4. H.at.i \in DOMAIN InstrsOf(H.at.b) /\ HandlerInstr(H).op = "HandlerEnter"
    BY <1>1, <1>2, <1>12, <2>3
  <2>5. Restores(H, written \cup {I.dst})
    BY <1>4, <1>7, <1>12, <2>3 DEF Restores
  <2>6. QED
    BY <1>12, <2>2, <2>4, <2>5, AppendRestore
<1> DEFINE hs == Append(Noted(handlers, {I.dst}), H)
           w == written \cup {I.dst}
<1>11. handlers' = hs /\ written' = w /\ AllRestore(hs, w)
  BY <1>1, <1>10
<1> HIDE DEF hs, w
<1>13. /\ \A v \in w \cap NeededAt(b, i + 1) : holder'[loc[v]] = v
       /\ \A v \in w : loc[v].kind = "Slot" => holder'[loc[v]] = v
  BY <1>8, <1>9, <1>11
<1>14. QED
  BY <1>1, <1>2, <1>11, <1>13, HomesHoldNext

LEMMA PopHolds ==
  ASSUME AllocInv, PopHandler
  PROVE  HomesHold'
<1> DEFINE b == pc.b
           i == pc.i
<1>1. /\ phase = "run" /\ AtInstr /\ fn' = fn /\ liveOut' = liveOut /\ loc' = loc
      /\ ThisInstr.op = "HandlerPop"
      /\ handlers' = Outer /\ holder' = holder /\ written' = written
      /\ pc' = [pc EXCEPT !.i = @ + 1]
  BY DEF PopHandler, liveVars, scanVars
<1>2. /\ b \in Blocks /\ i \in DOMAIN InstrsOf(b) /\ pc' = [b |-> b, i |-> i + 1]
      /\ ThisInstr = InstrsOf(b)[i] /\ fn \in Functions
  BY <1>1, InstrShape DEF AllocInv, PlanInv, ThisInstr, TypeOK
<1>3. DefOf(InstrsOf(b)[i]) = {}
  BY <1>1, <1>2 DEF DefOf
<1>4. /\ \A v \in written \cap NeededAt(b, i) : holder[loc[v]] = v
      /\ \A v \in written : loc[v].kind = "Slot" => holder[loc[v]] = v
  BY <1>1 DEF AllocInv, PlanInv, HomesHold
<1> HIDE DEF b, i
<1>5. NeededAt(b, i + 1) \subseteq NeededAt(b, i)
  BY <1>2, <1>3, NeededStep
<1>6. \A v \in written' \cap NeededAt(b, i + 1) : holder'[loc[v]] = v
  BY <1>1, <1>4, <1>5
<1>7. AllRestore(Outer, written)
  BY <1>1, HandlersRestore, OuterRestore DEF AllocInv, PlanInv, TypeOK, RunTypes
<1>8. QED
  BY <1>1, <1>2, <1>4, <1>6, <1>7, HomesHoldNext

(* A landing.  Slots are as the throw left them, registers as they were at *)
(* the entry: what is needed there and has not been written since.         *)
LEMMA LandHolds ==
  ASSUME AllocInv, InScope, phase = "run", MayLand, Land
  PROVE  HomesHold'
<1> DEFINE b == Innermost.at.b
           i == Innermost.at.i
           I == HandlerInstr(Innermost)
           back == [h \in Home |->
             IF h.kind = "Slot" THEN holder[h]
             ELSE IF Innermost.saved[h] \in Innermost.since THEN Nobody
             ELSE Innermost.saved[h]]
<1>1. /\ fn' = fn /\ liveOut' = liveOut /\ loc' = loc
      /\ handlers' = Noted(Outer, {I.dst}) /\ written' = written
      /\ pc' = [Innermost.at EXCEPT !.i = @ + 1]
      /\ holder' = Stored(back, I.dst)
  BY DEF Land, liveVars, scanVars
<1>2. /\ Innermost.at \in [b : Blocks, i : Nat] /\ i \in DOMAIN InstrsOf(b)
      /\ Innermost.saved \in [Home -> VReg \cup {Nobody}]
      /\ I.op = "HandlerEnter" /\ I = InstrsOf(b)[i]
      /\ HandlerTypes /\ Len(handlers) \in DOMAIN handlers
  <2>1. HandlerTypes /\ handlers # <<>>
    BY DEF MayLand, AllocInv, PlanInv, TypeOK, RunTypes
  <2>2. Len(handlers) \in DOMAIN handlers /\ Entered(handlers)
    BY <2>1, OuterShape
  <2>3. /\ Innermost.at \in [b : Blocks, i : Nat]
        /\ Innermost.at.i \in DOMAIN InstrsOf(Innermost.at.b)
        /\ Innermost.saved \in [Home -> VReg \cup {Nobody}]
        /\ HandlerInstr(Innermost).op = "HandlerEnter"
    BY <2>2, HandlerShape DEF Innermost
  <2>4. I = InstrsOf(b)[i]
    BY DEF HandlerInstr
  <2>5. QED
    BY <2>1, <2>2, <2>3, <2>4
<1>3. b \in Blocks /\ pc' = [b |-> b, i |-> i + 1]
  BY <1>1, <1>2
<1>4. /\ todo = {} /\ Covers /\ Settled(b) /\ \A v \in VReg : loc[v] \in Home
      /\ holder \in [Home -> VReg \cup {Nobody}] /\ written \subseteq VReg
      /\ TypeOK /\ LS!ScanInv /\ fn \in Functions
  BY <1>3, Running DEF AllocInv, PlanInv, TypeOK
<1>5. I.dst \in VReg
  <2>1. I \in IrInstr
    BY <1>2, <1>3, <1>4, FunctionShape
  <2>2. QED
    BY <1>2, <2>1 DEF IrInstr
<1>6. DefOf(InstrsOf(b)[i]) = {I.dst}
  BY <1>2 DEF DefOf
<1>7. /\ \A v \in written : loc[v].kind = "Slot" => holder[loc[v]] = v
      /\ \A v \in (written \ Innermost.since) \cap NeededAt(b, i + 1) :
           v = I.dst \/ loc[v].kind = "Slot" \/ Innermost.saved[loc[v]] = v
  <2>1. AllRestore(handlers, written) /\ HomesHold
    BY HandlersRestore DEF AllocInv
  <2>2. Restores(Innermost, written)
    BY <1>2, <2>1 DEF AllRestore, Innermost
  <2>3. QED
    BY <2>1, <2>2 DEF Restores, HomesHold
<1>8. \A v \in Innermost.since \cap NeededAt(b, i + 1) : v = I.dst \/ loc[v].kind = "Slot"
  BY DEF InScope
<1>9. back \in [Home -> VReg \cup {Nobody}]
  BY <1>2, <1>4
<1>10. \A v \in written : loc[v].kind = "Slot" => back[loc[v]] = v
  BY <1>4, <1>7
<1>11. \A v \in written \cap NeededAt(b, i + 1) : v = I.dst \/ back[loc[v]] = v
  <2> SUFFICES ASSUME NEW v \in written, v \in NeededAt(b, i + 1), v # I.dst, loc[v].kind # "Slot"
               PROVE  back[loc[v]] = v
    BY <1>10
  <2>1. v \notin Innermost.since
    BY <1>8
  <2>2. Innermost.saved[loc[v]] = v
    BY <1>7, <2>1
  <2>3. loc[v] \in Home
    BY <1>4
  <2>4. QED
    BY <2>1, <2>2, <2>3
<1> HIDE DEF b, i, I, back
<1>12. \A v \in NeededAt(b, i + 1) : v # I.dst => loc[v] # loc[I.dst]
  BY <1>2, <1>3, <1>4, <1>5, <1>6, ResultMissesNeeded
<1>13. \A v \in written' \cap NeededAt(b, i + 1) : holder'[loc[v]] = v
  BY <1>1, <1>4, <1>5, <1>9, <1>11, <1>12, StoredHolds
<1>14. \A v \in written' : loc[v].kind = "Slot" => holder'[loc[v]] = v
  <2>1. \A v \in written : loc[v].kind = "Slot" /\ v # I.dst => loc[v] # loc[I.dst]
    BY <1>4, <1>5, SlotsApart
  <2>2. QED
    BY <1>1, <1>4, <1>5, <1>9, <1>10, <2>1, StoredHolds
<1>15. AllRestore(Noted(Outer, {I.dst}), written)
  <2>1. Entered(Outer) /\ AllRestore(Outer, written)
    BY <1>2, HandlersRestore, OuterShape, OuterRestore DEF AllocInv
  <2>2. AllRestore(Noted(Outer, {I.dst}), written \cup {I.dst})
    BY <1>5, <2>1, NotedRestore
  <2>3. QED
    BY <2>2 DEF AllRestore, Restores
<1>16. QED
  BY <1>1, <1>3, <1>13, <1>14, <1>15, HomesHoldNext
LEMMA TerminateHolds ==
  ASSUME AllocInv, InScope, Terminate
  PROVE  HomesHold'
<1>1. phase = "run" /\ ~AtInstr /\ TypeOK /\ HomesHold
  BY DEF Terminate, AllocInv, PlanInv
<1>2. CASE \E s \in Succs(pc.b) :
             /\ pc' = [b |-> s, i |-> 1]
             /\ UNCHANGED <<fn, phase, liveVars, scanVars, holder, written, handlers>>
  <2>1. PICK s \in Succs(pc.b) :
          /\ pc' = [b |-> s, i |-> 1]
          /\ fn' = fn /\ holder' = holder /\ written' = written /\ handlers' = handlers
          /\ loc' = loc /\ liveOut' = liveOut
    BY <1>2 DEF liveVars, scanVars
  <2>2. pc.b \in Blocks /\ s \in Blocks /\ pc.i = Len(InstrsOf(pc.b)) + 1
    <3>1. /\ pc.b \in Blocks /\ pc.i \in 1 .. Len(InstrsOf(pc.b)) + 1
          /\ Len(InstrsOf(pc.b)) \in Nat
      BY <1>1, FunctionShape DEF TypeOK, RunTypes
    <3>2. ~ (pc.i <= Len(InstrsOf(pc.b)))
      BY <1>1 DEF AtInstr
    <3>3. s \in Blocks
      BY <1>1, <2>1, <3>1, FunctionShape DEF TypeOK
    <3>4. QED
      BY <3>1, <3>2, <3>3
  <2>3. NeededAt(s, 1) \subseteq NeededAt(pc.b, pc.i)
    <3>1. Settled(s) /\ Settled(pc.b)
      BY <1>1, <2>2, Running
    <3>2. NeededAt(s, 1) \subseteq liveIn[s]
      BY <1>1, <2>2, <3>1, NeededAtStart
    <3>3. QED
      BY <1>1, <2>1, <2>2, <3>1, <3>2, NeededAtEnd
  <2>4. /\ \A v \in written' \cap NeededAt(s, 1) : holder'[loc[v]] = v
        /\ \A v \in written' : loc[v].kind = "Slot" => holder'[loc[v]] = v
    BY <1>1, <2>1, <2>3 DEF HomesHold
  <2>5. AllRestore(handlers, written)
    BY <1>1, HandlersRestore
  <2>6. QED
    BY <2>1, <2>4, <2>5, HomesHoldNext
<1>3. CASE phase' = "left"
  BY <1>3 DEF HomesHold
<1>4. CASE ThisTerm.op \in {"Unwind", "Rethrow"} /\ handlers # <<>> /\ Land
  <2>1. MayLand
    BY <1>1, <1>4 DEF MayLand
  <2>2. QED
    BY <1>1, <1>4, <2>1, LandHolds
<1>5. QED
  BY <1>1, <1>2, <1>3, <1>4, BranchTarget

LEMMA CallThrowsHolds ==
  ASSUME AllocInv, InScope, CallThrows
  PROVE  HomesHold'
<1>1. MayLand /\ Land /\ phase = "run"
  BY DEF CallThrows, MayLand
<1>2. QED
  BY <1>1, LandHolds

(* The prologue.  All parameters are touched at position 0.                *)
LEMMA PrologueHolds ==
  ASSUME AllocInv, InScope, Prologue
  PROVE  HomesHold'
<1> DEFINE here(h) == {p \in Params : loc[p] = h}
<1>1. /\ holder' = [h \in Home |-> IF here(h) = {} THEN Nobody ELSE Max(here(h))]
      /\ written' = Params /\ fn' = fn /\ liveOut' = liveOut /\ loc' = loc
      /\ phase = "entry" /\ pc' = pc /\ handlers' = handlers
  BY DEF Prologue, liveVars, scanVars
<1>2. /\ todo = {} /\ pc' = [b |-> 1, i |-> 1] /\ handlers' = <<>>
      /\ LS!ScanInv /\ TypeOK /\ fn \in Functions
  BY <1>1 DEF AllocInv, PlanInv, ScanInPlace, TypeOK
<1>3. Params \subseteq VReg /\ \A v \in VReg : loc[v] \in Home
  BY <1>2, ParamsAreVregs, SlotsFit
<1>4. \A v \in Params : Spans(v, 0)
  <2>1. \A v \in VReg : range[v].start \in Nat /\ range[v].end \in Nat
                         /\ range[v].start <= range[v].end
    BY <1>2, MaxPosAssumption DEF LS!ScanInv, LS!TypeOK, LS!LiveRange, LS!Pos, VReg
  <2>2. \A v \in Params : range[v].start = 0
    BY <1>1 DEF InScope
  <2>3. QED
    BY <1>3, <2>1, <2>2 DEF Spans
<1>5. \A v, w \in Params : loc[v] = loc[w] => v = w
  BY <1>2, <1>3, <1>4, HomesApart
<1>6. \A v \in Params : here(loc[v]) = {v}
  BY <1>5
<1>7. \A v \in Params : Max({v}) = v
  <2>1. \A v \in Params : {v} \in SUBSET VReg /\ {v} # {}
    BY <1>3
  <2>2. QED
    BY <2>1, GreatestVreg
<1> HIDE DEF here
<1>8. \A v \in Params : holder'[loc[v]] = v
  BY <1>1, <1>3, <1>6, <1>7
<1>9. AllRestore(<<>>, Params)
  BY DEF AllRestore
<1>10. \A v \in Params \cap NeededAt(1, 1) : holder'[loc[v]] = v
  BY <1>8
<1>11. pc' = [b |-> 1, i |-> 1] /\ handlers' = <<>>
  BY <1>1, <1>2
<1>12. QED
  BY <1>1, <1>8, <1>9, <1>10, <1>11, HomesHoldNext
-----------------------------------------------------------------------------
(* The invariants.                                                         *)

(* Running the code changes no more than where it is and what it holds.    *)
LEMMA RunFrame ==
  ASSUME TypeOK, Run
  PROVE  /\ fn' = fn /\ UNCHANGED liveVars /\ UNCHANGED scanVars
         /\ phase \in {"entry", "run"} /\ phase' \in {"run", "left"}
<1>1. CASE Terminate
  BY <1>1, BranchTarget DEF Terminate, Land, liveVars, scanVars
<1>2. QED
  BY <1>1 DEF Run, Prologue, Execute, EnterHandler, PopHandler, CallThrows, Land

LEMMA ScanStep ==
  ASSUME PlanInv, [Next]_vars
  PROVE  LS!ScanInv'
<1>1. CASE Intervals
  <2>1. phase = "intervals" /\ UNCHANGED <<todo, turn, loc, free, active, spills>>
    BY <1>1 DEF Intervals
  <2>2. range' \in [VReg -> LS!LiveRange]
    BY <1>1, IntervalsCover DEF PlanInv
  <2>3. /\ todo' = VReg /\ turn' = 0 /\ spills' = 0
        /\ loc' = [v \in VReg |-> LS!Unplaced] /\ free' = LS!Pool /\ active' = {}
    BY <2>1 DEF PlanInv, ScanInPlace
  <2>4. QED
    BY <2>2, <2>3, ScanMayBegin
<1>2. CASE Scan
  BY <1>2, ScanKeepsInvariant DEF Scan, PlanInv
<1>3. CASE UNCHANGED scanVars
  BY <1>3, ScanKeepsInvariant DEF PlanInv
<1>4. CASE Run
  BY <1>3, <1>4, RunFrame DEF PlanInv
<1>5. CASE SweepBlock \/ EndSweep \/ EndScan
  BY <1>3, <1>5 DEF SweepBlock, EndSweep, EndScan
<1>6. CASE UNCHANGED vars
  BY <1>3, <1>6 DEF vars
<1>7. QED
  BY <1>1, <1>2, <1>4, <1>5, <1>6 DEF Next, Allocate

(* The parts that speak of liveness and intervals, under a step that leaves*)
(* those sets alone.                                                       *)
LEMMA LivenessStays ==
  ASSUME PlanInv, fn' = fn, liveIn' = liveIn, liveOut' = liveOut,
         phase # "live", phase' # "live"
  PROVE  SweptAreSettled' /\ LiveInHasPath'
<1>1. Blocks' = Blocks /\ \A b : Settled(b)' <=> Settled(b)
  BY SameMeaning, SameSettled
<1>2. \A b, v : SimplePath(b, v)' <=> SimplePath(b, v)
  BY SamePaths
<1>3. QED
  BY <1>1, <1>2, Zenon DEF PlanInv, SweptAreSettled, LiveInHasPath

LEMMA IntervalsStay ==
  ASSUME PlanInv, fn' = fn, liveIn' = liveIn, liveOut' = liveOut, range' = range,
         phase \notin {"live", "intervals"}
  PROVE  RangesCover'
<1>1. \A v : Touched(v)' = Touched(v)
  BY SameTouched
<1>2. QED
  BY <1>1, Zenon DEF PlanInv, RangesCover

(* A sweep's end leaves every path as it is.                               *)
LEMMA EndSweepKeepsPaths ==
  ASSUME PlanInv, EndSweep
  PROVE  LiveInHasPath'
<1>1. fn' = fn /\ liveIn' = liveIn /\ Blocks' = Blocks
  BY SameMeaning DEF EndSweep
<1>2. \A b, v : SimplePath(b, v)' <=> SimplePath(b, v)
  BY <1>1, SamePaths
<1>3. QED
  BY <1>1, <1>2, Zenon DEF PlanInv, LiveInHasPath

(* The scan visits intervals and no more.                                  *)
LEMMA ScanKeepsRange == LS!Next => range' = range
  BY DEF LS!Next, LS!Visit, LS!TakeFree, LS!Steal, LS!SpillNewcomer, LS!Visited

LEMMA PlanStep ==
  ASSUME PlanInv, [Next]_vars
  PROVE  PlanInv'
<1>1. LS!ScanInv'
  BY ScanStep
<1>2. TypeOK'
  <2>1. LS!TypeOK'
    BY <1>1 DEF LS!ScanInv
  <2>2. QED
    BY <2>1, TypeStep DEF PlanInv
<1>3. CASE SweepBlock
  <2>1. phase = "live" /\ phase' = "live" /\ UNCHANGED scanVars /\ UNCHANGED runVars
    BY <1>3 DEF SweepBlock
  <2>2. SweptAreSettled' /\ LiveInHasPath'
    BY <1>3, SweepSettles, SweepKeepsPaths DEF PlanInv
  <2>3. RangesCover'
    BY <2>1 DEF RangesCover
  <2>4. ScanInPlace'
    BY <2>1 DEF PlanInv, ScanInPlace, scanVars, runVars
  <2>5. QED
    BY <1>1, <1>2, <2>2, <2>3, <2>4 DEF PlanInv
<1>4. CASE EndSweep
  <2>1. phase = "live" /\ phase' \in {"live", "intervals"} /\ UNCHANGED scanVars
        /\ UNCHANGED runVars
    BY <1>4 DEF EndSweep
  <2>2. SweptAreSettled' /\ LiveInHasPath'
    BY <1>4, EndSweepSettles, EndSweepKeepsPaths DEF PlanInv
  <2>3. RangesCover'
    BY <2>1 DEF RangesCover
  <2>4. ScanInPlace'
    BY <2>1 DEF PlanInv, ScanInPlace, scanVars, runVars
  <2>5. QED
    BY <1>1, <1>2, <2>2, <2>3, <2>4 DEF PlanInv
<1>5. CASE Intervals
  <2>1. /\ phase = "intervals" /\ phase' = "scan"
        /\ fn' = fn /\ liveIn' = liveIn /\ liveOut' = liveOut /\ UNCHANGED runVars
    BY <1>5 DEF Intervals, liveVars
  <2>2. SweptAreSettled' /\ LiveInHasPath'
    BY <2>1, LivenessStays
  <2>3. RangesCover'
    BY <1>5, IntervalsCover DEF PlanInv
  <2>4. ScanInPlace'
    BY <2>1 DEF PlanInv, ScanInPlace, runVars
  <2>5. QED
    BY <1>1, <1>2, <2>2, <2>3, <2>4 DEF PlanInv
<1>6. CASE Scan
  <2>1. /\ phase = "scan" /\ phase' = "scan"
        /\ fn' = fn /\ liveIn' = liveIn /\ liveOut' = liveOut /\ range' = range
        /\ UNCHANGED runVars
    BY <1>6, ScanKeepsRange DEF Scan, liveVars
  <2>2. SweptAreSettled' /\ LiveInHasPath' /\ RangesCover'
    BY <2>1, LivenessStays, IntervalsStay
  <2>3. ScanInPlace'
    BY <2>1 DEF PlanInv, ScanInPlace, runVars
  <2>4. QED
    BY <1>1, <1>2, <2>2, <2>3 DEF PlanInv
<1>7. CASE EndScan
  <2>1. /\ phase = "scan" /\ phase' = "entry" /\ todo' = {}
        /\ fn' = fn /\ liveIn' = liveIn /\ liveOut' = liveOut /\ range' = range
        /\ UNCHANGED runVars
    BY <1>7 DEF EndScan, liveVars, scanVars
  <2>2. SweptAreSettled' /\ LiveInHasPath' /\ RangesCover'
    BY <2>1, LivenessStays, IntervalsStay
  <2>3. ScanInPlace'
    BY <2>1 DEF PlanInv, ScanInPlace, runVars
  <2>4. QED
    BY <1>1, <1>2, <2>2, <2>3 DEF PlanInv
<1>8. CASE Run
  <2>1. /\ fn' = fn /\ liveIn' = liveIn /\ liveOut' = liveOut /\ range' = range /\ todo' = todo
        /\ phase \in {"entry", "run"} /\ phase' \in {"run", "left"}
    BY <1>8, RunFrame DEF PlanInv, liveVars, scanVars
  <2>2. SweptAreSettled' /\ LiveInHasPath' /\ RangesCover'
    BY <2>1, LivenessStays, IntervalsStay
  <2>3. ScanInPlace'
    BY <2>1 DEF PlanInv, ScanInPlace
  <2>4. QED
    BY <1>1, <1>2, <2>2, <2>3 DEF PlanInv
<1>9. CASE UNCHANGED vars
  <2>1. /\ fn' = fn /\ phase' = phase /\ UNCHANGED liveVars /\ UNCHANGED scanVars
        /\ UNCHANGED runVars
    BY <1>9 DEF vars
  <2>2. /\ Blocks' = Blocks /\ \A b : Settled(b)' <=> Settled(b)
        /\ \A b, v : SimplePath(b, v)' <=> SimplePath(b, v)
        /\ \A v : Touched(v)' = Touched(v)
    BY <2>1, SameMeaning, SameSettled, SamePaths, SameTouched DEF liveVars
  <2>3. SweptAreSettled'
    BY <2>1, <2>2, Zenon DEF PlanInv, SweptAreSettled, liveVars
  <2>4. LiveInHasPath' /\ RangesCover'
    BY <2>1, <2>2, Zenon DEF PlanInv, LiveInHasPath, RangesCover, liveVars, scanVars
  <2>5. ScanInPlace'
    BY <2>1 DEF PlanInv, ScanInPlace, scanVars, runVars
  <2>6. QED
    BY <1>1, <1>2, <2>3, <2>4, <2>5 DEF PlanInv
<1>10. QED
  BY <1>3, <1>4, <1>5, <1>6, <1>7, <1>8, <1>9 DEF Next, Allocate
LEMMA InitPlan == Init => PlanInv
<1> SUFFICES ASSUME Init PROVE PlanInv
  OBVIOUS
<1>1. /\ fn \in Functions /\ phase = "live" /\ bi = Len(fn.blocks) /\ changed = FALSE
      /\ liveIn = [b \in Blocks |-> {}] /\ liveOut = [b \in Blocks |-> {}]
      /\ pc = [b |-> 1, i |-> 1] /\ holder = [h \in Home |-> Nobody] /\ written = {}
      /\ handlers = <<>>
      /\ range = [v \in VReg |-> [start |-> 0, end |-> 0]]
      /\ todo = VReg /\ turn = 0 /\ loc = [v \in VReg |-> LS!Unplaced]
      /\ free = LS!Pool /\ active = {} /\ spills = 0
  BY DEF Init, Blocks
<1>2. LS!ScanInv
  <2>1. range \in [VReg -> LS!LiveRange]
    BY <1>1, MaxPosAssumption DEF LS!LiveRange, LS!Pos
  <2>2. P!Init
    BY <1>1, <2>1, SameScan DEF P!Init, VReg
  <2>3. QED
    BY <2>2, SameInvariant, P!InitScanInv, PoolLenAssumption, NVregsAssumption,
       MaxPosAssumption
<1>3. TypeOK
  <2>1. Len(fn.blocks) \in Nat \ {0} /\ 1 \in Blocks /\ Len(InstrsOf(1)) \in Nat
    <3>1. Len(fn.blocks) \in Nat \ {0}
      BY <1>1, FunctionShape
    <3>2. 1 \in Blocks
      BY <3>1 DEF Blocks
    <3>3. QED
      BY <1>1, <3>1, <3>2, FunctionShape
  <2>2. LiveTypes
    <3>1. bi \in 0 .. Len(fn.blocks) /\ changed \in BOOLEAN
      <4>1. bi = Len(fn.blocks) /\ changed = FALSE
        BY <1>1
      <4>2. \A n \in Nat : n \in 0 .. n
        OBVIOUS
      <4>3. QED
        BY <2>1, <4>1, <4>2
    <3>2. liveIn \in [Blocks -> SUBSET VReg] /\ liveOut \in [Blocks -> SUBSET VReg]
      BY <1>1
    <3>3. QED
      BY <1>1, <3>1, <3>2 DEF LiveTypes
  <2>3. RunTypes
    BY <1>1, <2>1 DEF RunTypes, HandlerTypes
  <2>4. QED
    BY <1>1, <1>2, <2>2, <2>3 DEF TypeOK, LS!ScanInv
<1>4. SweptAreSettled
  <2>1. \A b \in Blocks : ~ (b > bi)
    BY <1>1, FunctionShape DEF Blocks
  <2>2. QED
    BY <1>1, <2>1, Zenon DEF SweptAreSettled
<1>5. LiveInHasPath /\ RangesCover /\ ScanInPlace
  BY <1>1 DEF LiveInHasPath, RangesCover, ScanInPlace
<1>6. QED
  BY <1>2, <1>3, <1>4, <1>5 DEF PlanInv

LEMMA InitAlloc == Init => AllocInv
  BY InitPlan DEF AllocInv, HomesHold, Init

LEMMA AllocStep ==
  ASSUME AllocInv, InScope, [Next]_vars
  PROVE  AllocInv'
<1>1. PlanInv'
  BY PlanStep DEF AllocInv
<1>2. CASE Run
  BY <1>1, <1>2, PrologueHolds, ExecuteHolds, EnterHolds, PopHolds, CallThrowsHolds,
     TerminateHolds DEF Run, AllocInv
<1>3. CASE Allocate
  <2>1. phase' # "run"
    BY <1>3 DEF Allocate, SweepBlock, EndSweep, Intervals, Scan, EndScan
  <2>2. QED
    BY <1>1, <2>1 DEF AllocInv, HomesHold
<1>4. CASE UNCHANGED vars
  <2>1. /\ fn' = fn /\ phase' = phase /\ liveOut' = liveOut /\ loc' = loc
        /\ pc' = pc /\ holder' = holder /\ written' = written /\ handlers' = handlers
    BY <1>4 DEF vars, liveVars, scanVars, runVars
  <2>2. TypeOK /\ HomesHold
    BY DEF AllocInv, PlanInv
  <2>3. HomesHold'
    <3> SUFFICES ASSUME phase = "run" PROVE HomesHold'
      BY <2>1 DEF HomesHold
    <3>1. pc' = [b |-> pc.b, i |-> pc.i]
      BY <2>1, <2>2 DEF TypeOK, RunTypes
    <3>2. /\ \A v \in written \cap NeededAt(pc.b, pc.i) : holder'[loc[v]] = v
          /\ \A v \in written : loc[v].kind = "Slot" => holder'[loc[v]] = v
      BY <2>1, <2>2 DEF HomesHold
    <3>3. AllRestore(handlers, written)
      BY <2>2, HandlersRestore
    <3>4. QED
      BY <2>1, <3>1, <3>2, <3>3, HomesHoldNext
  <2>4. QED
    BY <1>1, <2>3 DEF AllocInv
<1>5. QED
  BY <1>2, <1>3, <1>4 DEF Next

(* What an instruction or a terminator reads is needed where it stands.    *)
LEMMA ReadsIntact ==
  ASSUME AllocInv, InScope
  PROVE  ReadsAreIntact
<1> SUFFICES ASSUME phase = "run" PROVE ReadsAreIntact
  BY DEF ReadsAreIntact
<1>1. /\ TypeOK /\ fn \in Functions /\ Settled(pc.b)
      /\ pc.b \in Blocks /\ pc.i \in 1 .. Len(InstrsOf(pc.b)) + 1
  BY Running DEF AllocInv, PlanInv, TypeOK, RunTypes
<1>2. \A v \in written \cap NeededAt(pc.b, pc.i) : holder[loc[v]] = v
  BY DEF AllocInv, HomesHold
<1>3. CASE AtInstr
  <2>1. pc.i \in DOMAIN InstrsOf(pc.b)
    BY <1>1, <1>3, InstrShape
  <2>2. UseOf(ThisInstr) \subseteq NeededAt(pc.b, pc.i)
    BY <1>1, <2>1, NeededStep DEF ThisInstr
  <2>3. ReadsOf(ThisInstr) \subseteq NeededAt(pc.b, pc.i)
    BY <2>2 DEF ReadsOf, UseOf
  <2>4. QED
    BY <1>2, <1>3, <2>3 DEF ReadsAreIntact
<1>4. CASE ~AtInstr
  <2>1. pc.i = Len(InstrsOf(pc.b)) + 1
    BY <1>1, <1>4, FunctionShape DEF AtInstr
  <2>2. TermUseOf(ThisTerm) \subseteq NeededAt(pc.b, pc.i)
    BY <1>1, <2>1, NeededAtEnd DEF ThisTerm
  <2>3. ThrownAtOnce(pc.b) \subseteq NeededAt(pc.b, pc.i)
    BY <1>1, <2>1, NeededAtEnd
  <2>4. TermReadsOf(ThisTerm) \subseteq NeededAt(pc.b, pc.i)
    BY <1>1, <2>2, <2>3 DEF InScope, TermReadsOf, TermUseOf, ThisTerm
  <2>5. QED
    BY <1>2, <1>4, <2>4 DEF ReadsAreIntact
<1>5. QED
  BY <1>3, <1>4

(* Every state has its type: what the allocator, the scan and the running  *)
(* code keep.                                                              *)
THEOREM TypeCorrect == Spec => []TypeOK
<1>1. PlanInv /\ [Next]_vars => PlanInv'
  BY PlanStep
<1>2. PlanInv => TypeOK
  BY DEF PlanInv
<1>3. QED
  BY InitPlan, <1>1, <1>2, PTL DEF Spec

(* The liveness fixpoint is exact, for every function: a vreg is in a      *)
(* block's live-in set if and only if some path from the block reaches a   *)
(* use of it before a definition.                                          *)
THEOREM LivenessTheorem == Spec => []LivenessIsExact
<1>1. PlanInv /\ [Next]_vars => PlanInv'
  BY PlanStep
<1>2. PlanInv => LivenessIsExact
  BY LivenessExact DEF PlanInv
<1>3. QED
  BY InitPlan, <1>1, <1>2, PTL DEF Spec

(* Code that stays in scope reads what was written: of every function, with*)
(* any number of registers, no operand is clobbered by another vreg's      *)
(* store, whatever was spilled and whichever of the open handlers a throw  *)
(* lands at.                                                               *)
THEOREM ReadsTheorem == Spec /\ []InScope => []ReadsAreIntact
<1>1. AllocInv /\ InScope /\ [Next]_vars => AllocInv'
  BY AllocStep
<1>2. AllocInv /\ InScope => ReadsAreIntact
  BY ReadsIntact
<1>3. QED
  BY InitAlloc, <1>1, <1>2, PTL DEF Spec
(* A function whose scope can be told from its text: parameters only with  *)
(* a receiver, and neither handlers, thrown values nor integers read.      *)
Plain(f) ==
  /\ f.arity > 0 => f.receiver
  /\ \A b \in 1 .. Len(f.blocks) :
       /\ f.blocks[b].term.op # "Unwind"
       /\ \A i \in DOMAIN f.blocks[b].instrs :
            f.blocks[b].instrs[i].op \notin {"ScanInt", "HandlerEnter"}

LEMMA PlainInScope ==
  ASSUME PlanInv, Plain(fn)
  PROVE  InScope
<1>1. \A b \in Blocks : TermOf(b).op # "Unwind"
  BY DEF Plain, Blocks, TermOf
<1>2. \A b \in Blocks : \A i \in DOMAIN InstrsOf(b) :
        InstrsOf(b)[i].op \notin {"ScanInt", "HandlerEnter"}
  BY DEF Plain, Blocks, InstrsOf
<1>3. TypeOK /\ (AtInstr => ThisInstr.op # "ScanInt")
  BY <1>2, InstrShape DEF ThisInstr, PlanInv
<1>4. handlers = <<>>
  <2> SUFFICES ASSUME handlers # <<>> PROVE FALSE
    OBVIOUS
  <2>1. PICK k \in DOMAIN handlers : TRUE
    BY <1>3, OuterShape DEF TypeOK, RunTypes
  <2>2. /\ handlers[k].at.b \in Blocks
        /\ handlers[k].at.i \in DOMAIN InstrsOf(handlers[k].at.b)
        /\ InstrsOf(handlers[k].at.b)[handlers[k].at.i].op = "HandlerEnter"
    BY <1>3, OuterShape, HandlerShape DEF TypeOK, RunTypes, HandlerInstr
  <2>3. QED
    BY <1>2, <2>2
<1>5. ASSUME phase = "entry", NEW p \in Params PROVE range[p].start = 0
  <2>1. fn \in Functions /\ fn.arity \in Nat /\ fn.receiver \in BOOLEAN
    BY <1>3, FunctionsAssumption DEF IsFunction, TypeOK
  <2>2. fn.arity > 0 => fn.receiver
    BY DEF Plain
  <2>3. p < Incoming /\ p \in VReg
    BY <2>1, <2>2, NVregsAssumption, ParamsAreVregs DEF Params, Incoming, VReg, LS!VReg
  <2>4. 0 \in Touched(p)
    BY <2>3 DEF Touched
  <2>5. range[p].start <= 0
    BY <1>5, <2>3, <2>4 DEF PlanInv, RangesCover
  <2>6. range[p].start \in Nat
    BY <1>3, <2>3, MaxPosAssumption DEF TypeOK, LS!TypeOK, LS!LiveRange, LS!Pos, VReg
  <2>7. QED
    BY <2>5, <2>6
<1>6. QED
  BY <1>1, <1>3, <1>4, <1>5 DEF InScope, MayLand

(* Of functions of that kind nothing has to be assumed about a run.        *)
THEOREM PlainReadsTheorem ==
  (\A f \in Functions : Plain(f)) => (Spec => []ReadsAreIntact)
<1> SUFFICES ASSUME \A f \in Functions : Plain(f) PROVE Spec => []ReadsAreIntact
  OBVIOUS
<1>1. AllocInv => InScope
  BY PlainInScope DEF AllocInv, PlanInv, TypeOK
<1>2. AllocInv /\ [Next]_vars => AllocInv'
  BY <1>1, AllocStep
<1>3. AllocInv => ReadsAreIntact
  BY <1>1, ReadsIntact
<1>4. QED
  BY InitAlloc, <1>2, <1>3, PTL DEF Spec
=============================================================================
