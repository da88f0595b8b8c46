-------------------------- MODULE LinearScanProofs --------------------------
(***************************************************************************)
(* For every pool, every number of vregs and every assignment of intervals *)
(* the scan of LinearScan never lets two overlapping intervals share a     *)
(* home, keeps the pool partitioned and sizes the frame exactly.           *)
(***************************************************************************)
EXTENDS LinearScan, FiniteSetTheorems, TLAPS

(* Slots and registers are different homes, and each is known by its index.*)
LEMMA HomesDiffer ==
  /\ \A r, k \in Nat : Reg(r) # Slot(k)
  /\ \A r, q \in Nat : Reg(r) = Reg(q) => r = q
  /\ \A k, j \in Nat : Slot(k) = Slot(j) => k = j
  /\ \A r \in Nat : Reg(r) # Unplaced /\ Slot(r) # Unplaced
  /\ \A r \in Nat : Reg(r).kind = "Reg" /\ Slot(r).kind = "Slot" /\ Slot(r).n = r
  BY DEF Reg, Slot, Unplaced

(* The next interval starts no later than any other still to come.         *)
LEMMA NextIsFirst ==
  ASSUME NEW v \in VReg, IsNext(v), TypeOK, NEW w \in todo
  PROVE  range[v].start <= range[w].start
<1>1. CASE w = v
  BY <1>1 DEF TypeOK, LiveRange, Pos
<1>2. CASE w # v
  BY <1>2 DEF IsNext, Before, TypeOK, LiveRange, Pos
<1>3. QED
  BY <1>1, <1>2

(* What expiry makes available are registers of the pool, and when it makes*)
(* none available no entry has expired.                                    *)
LEMMA AvailInPool ==
  ASSUME NEW v \in VReg, TypeOK
  PROVE  /\ Avail(v) \subseteq Pool
         /\ Pool \subseteq Nat
         /\ Avail(v) = {} => free = {} /\ Live(v) = active
<1>1. Avail(v) \subseteq Pool
  BY DEF Avail, Live, TypeOK, Active
<1>2. Pool \subseteq Nat
  BY PoolLenAssumption DEF Pool
<1>3. ASSUME Avail(v) = {}, NEW a \in active \ Live(v) PROVE FALSE
  <2>1. a.reg \in {b.reg : b \in active \ Live(v)}
    BY <1>3
  <2>2. QED
    BY <1>3, <2>1 DEF Avail
<1>4. Live(v) \subseteq active
  BY DEF Live
<1>5. QED
  BY <1>1, <1>2, <1>3, <1>4 DEF Avail

(* What the scan starts from satisfies the invariant.                      *)
LEMMA InitScanInv == Init => ScanInv
<1> SUFFICES ASSUME Init PROVE ScanInv
  OBVIOUS
<1>1. TypeOK
  BY DEF Init, TypeOK, Loc, Unplaced
<1>2. Placed = {}
  BY DEF Init, Placed
<1>3. EntriesCover /\ HeldOrOver /\ ConflictFree
  BY <1>2 DEF Init, EntriesCover, HeldOrOver, ConflictFree
<1>4. PlacedExact
  BY DEF Init, PlacedExact
<1>5. PoolPartition
  BY DEF Init, PoolPartition
<1>6. FrameExact
  BY <1>2 DEF Init, FrameExact
<1>7. QED
  BY <1>1, <1>3, <1>4, <1>5, <1>6 DEF ScanInv

(* Types survive every step.                                               *)
LEMMA TypeStep == TypeOK /\ [Next]_vars => TypeOK'
<1> SUFFICES ASSUME TypeOK, [Next]_vars PROVE TypeOK'
  OBVIOUS
<1> USE PoolLenAssumption, NVregsAssumption, MaxPosAssumption
<1>1. ASSUME NEW v \in VReg, TakeFree(v) PROVE TypeOK'
  <2>1. PICK r \in Avail(v) :
          /\ loc' = [loc EXCEPT ![v] = Reg(r)]
          /\ free' = Avail(v) \ {r}
          /\ active' = Live(v) \cup
               {[end |-> range[v].end, reg |-> r, vreg |-> v, pushed |-> turn]}
    BY <1>1 DEF TakeFree
  <2>2. Avail(v) \subseteq Pool /\ Live(v) \subseteq active
    BY DEF Avail, Live, TypeOK, Active
  <2>3. Reg(r) \in Loc
    BY <2>2 DEF Reg, Loc
  <2>4. [end |-> range[v].end, reg |-> r, vreg |-> v, pushed |-> turn] \in Active
    BY <2>2 DEF TypeOK, LiveRange, Active
  <2>5. QED
    BY <1>1, <2>1, <2>2, <2>3, <2>4 DEF TypeOK, TakeFree, Visited
<1>2. ASSUME NEW v \in VReg, Steal(v) PROVE TypeOK'
  <2>1. PICK a \in Live(v) :
          /\ loc' = [loc EXCEPT ![v] = Reg(a.reg), ![a.vreg] = Slot(spills)]
          /\ active' = (Live(v) \ {a}) \cup {HandOver(a, v)}
    BY <1>2 DEF Steal, NewSlot
  <2>2. a \in Active /\ Live(v) \subseteq active
    BY DEF Live, TypeOK
  <2>3. Reg(a.reg) \in Loc /\ Slot(spills) \in Loc
    BY <2>2 DEF Reg, Slot, Loc, TypeOK, Active
  <2>4. HandOver(a, v) \in Active
    BY <2>2 DEF Active, HandOver
  <2>5. loc' \in [VReg -> Loc]
    BY <2>1, <2>3 DEF TypeOK
  <2>6. QED
    BY <1>2, <2>1, <2>2, <2>4, <2>5 DEF TypeOK, Steal, Visited
<1>3. ASSUME NEW v \in VReg, SpillNewcomer(v) PROVE TypeOK'
  <2>1. Slot(spills) \in Loc
    BY DEF Slot, Loc, TypeOK
  <2>2. QED
    BY <1>3, <2>1 DEF TypeOK, NewSlot, SpillNewcomer, Visited, Live
<1>4. CASE UNCHANGED vars
  BY <1>4 DEF TypeOK, vars
<1>5. QED
  BY <1>1, <1>2, <1>3, <1>4 DEF Next, Visit

(* A register is free.  It was never held, or by an interval that is over: *)
(* nobody placed there overlaps v.                                         *)
LEMMA TakeFreeStep ==
  ASSUME ScanInv, TypeOK', NEW v \in VReg, TakeFree(v)
  PROVE  ScanInv'
<1> USE PoolLenAssumption, NVregsAssumption, MaxPosAssumption
<1> DEFINE new(r) == [end |-> range[v].end, reg |-> r, vreg |-> v, pushed |-> turn]
<1>1. PICK r \in Avail(v) :
        /\ loc' = [loc EXCEPT ![v] = Reg(r)]
        /\ free' = Avail(v) \ {r}
        /\ active' = Live(v) \cup {new(r)}
  BY DEF TakeFree
<1>2. v \in todo /\ todo' = todo \ {v} /\ Placed' = Placed \cup {v} /\ v \notin Placed
  BY DEF TakeFree, IsNext, Visited, Placed, ScanInv, TypeOK
<1>3. range' = range /\ spills' = spills
  BY DEF TakeFree, Visited
<1>4. \A w \in todo : range[v].start <= range[w].start
  BY NextIsFirst DEF TakeFree, ScanInv
<1>5. r \in Pool /\ r \in Nat
  BY AvailInPool DEF ScanInv
<1>6. loc'[v] = Reg(r) /\ \A u \in VReg \ {v} : loc'[u] = loc[u]
  BY <1>1 DEF ScanInv, TypeOK
<1>7. \A a \in active : a \in Active /\ a.vreg # v
  BY <1>2 DEF ScanInv, TypeOK, EntriesCover
<1>8. \A a \in Live(v) : a.reg # r
  BY <1>5 DEF Avail, Live, ScanInv, PoolPartition
<1> HIDE DEF new
<1>9. \A a \in active' : a = new(r) \/ (a \in Live(v) /\ a \in active)
  BY <1>1 DEF Live
<1> USE DEF new
<1>10. EntriesCover'
  BY <1>2, <1>3, <1>6, <1>7, <1>9 DEF EntriesCover, ScanInv, TypeOK, LiveRange, Pos, Placed
<1>11. ASSUME NEW u \in Placed, loc[u].kind = "Reg"
       PROVE  \/ \E a \in Live(v) : a.vreg = u
              \/ \A w \in todo : range[u].end < range[w].start
  <2>1. ASSUME NEW a \in active, a.vreg = u, a \notin Live(v)
        PROVE  \A w \in todo : range[u].end < range[w].start
    BY <1>4, <2>1 DEF Live, ScanInv, EntriesCover, TypeOK, Active, LiveRange, Pos, Placed
  <2>2. QED
    BY <1>11, <2>1 DEF ScanInv, HeldOrOver
<1>12. HeldOrOver'
  <2>1. new(r) \in active' /\ new(r).vreg = v
    BY <1>1
  <2>2. QED
    BY <1>1, <1>2, <1>3, <1>6, <1>11, <2>1 DEF HeldOrOver, Placed
<1>13. PlacedExact'
  BY <1>2, <1>5, <1>6, HomesDiffer DEF PlacedExact, ScanInv, TypeOK
<1>14. PoolPartition'
  <2>1. ASSUME NEW q \in Pool PROVE q \in free' <=> \A a \in active' : a.reg # q
    <3>1. new(r) \in active' /\ new(r).reg = r
      BY <1>1
    <3>2. \A a \in active' : a.reg = r \/ a \in Live(v)
      BY <1>1
    <3>3. CASE q = r
      BY <1>1, <3>1, <3>3
    <3>4. CASE q # r
      <4>1. q \in free' <=> q \in Avail(v)
        BY <1>1, <3>4
      <4>2. (\A a \in active' : a.reg # q) <=> \A a \in Live(v) : a.reg # q
        BY <1>1, <3>2, <3>4
      <4>3. q \in Avail(v) <=> q \in free \/ \E a \in active \ Live(v) : a.reg = q
        BY DEF Avail
      <4>4. QED
        BY <4>1, <4>2, <4>3 DEF Live, ScanInv, PoolPartition
    <3>5. QED
      BY <3>3, <3>4
  <2>2. ASSUME NEW a \in active', NEW b \in active', a.reg = b.reg PROVE a = b
    BY <1>8, <1>9, <2>2 DEF ScanInv, PoolPartition
  <2>3. QED
    BY <2>1, <2>2 DEF PoolPartition
<1>15. FrameExact'
  BY <1>2, <1>3, <1>5, <1>6, HomesDiffer DEF FrameExact, ScanInv, TypeOK, Placed
<1>16. ASSUME NEW u \in Placed, loc[u] = Reg(r) PROVE ~ Overlap(u, v)
  <2>1. \A w \in todo : range[u].end < range[w].start
    BY <1>5, <1>8, <1>11, <1>16, HomesDiffer DEF ScanInv, EntriesCover, Live, TypeOK, Active, Pool
  <2>2. QED
    BY <1>2, <2>1 DEF Overlap, ScanInv, TypeOK, LiveRange, Pos, Placed
<1>17. ConflictFree'
  BY <1>2, <1>3, <1>6, <1>16 DEF ConflictFree, Overlap, ScanInv, Placed
<1>18. QED
  BY <1>10, <1>12, <1>13, <1>14, <1>15, <1>17 DEF ScanInv

(* The register changes hands: its resident leaves for a slot nobody has,  *)
(* and everyone else placed in that register was over before v.            *)
LEMMA StealStep ==
  ASSUME ScanInv, TypeOK', NEW v \in VReg, Steal(v)
  PROVE  ScanInv'
<1> USE PoolLenAssumption, NVregsAssumption, MaxPosAssumption
<1>1. PICK a \in Live(v) :
        /\ a.end > range[v].end
        /\ loc' = [loc EXCEPT ![v] = Reg(a.reg), ![a.vreg] = Slot(spills)]
        /\ active' = (Live(v) \ {a}) \cup {HandOver(a, v)}
  BY DEF Steal, NewSlot
<1> DEFINE r == a.reg
           out == a.vreg
           new == HandOver(a, v)
<1>2. v \in todo /\ todo' = todo \ {v} /\ Placed' = Placed \cup {v} /\ v \notin Placed
  BY DEF Steal, IsNext, Visited, Placed, ScanInv, TypeOK
<1>3. range' = range /\ spills' = spills + 1 /\ free' = {} /\ Avail(v) = {}
  BY DEF Steal, Visited
<1>4. \A w \in todo : range[v].start <= range[w].start
  BY NextIsFirst DEF Steal, ScanInv
<1>5. a \in active /\ a \in Active /\ r \in Pool /\ r \in Nat
  BY DEF Live, ScanInv, TypeOK, Active, Pool
<1>6. out \in Placed /\ out # v /\ loc[out] = Reg(r)
  BY <1>2, <1>5 DEF ScanInv, EntriesCover
<1>7. /\ loc'[v] = Reg(r)
      /\ loc'[out] = Slot(spills)
      /\ \A u \in VReg \ {v, out} : loc'[u] = loc[u]
  BY <1>1, <1>6 DEF ScanInv, TypeOK, Placed
<1>8. /\ new \in Active
      /\ new.reg = r /\ new.vreg = v /\ new.end = a.end
  BY <1>5 DEF Active, HandOver
<1>9. Live(v) = active
  BY <1>3, AvailInPool DEF ScanInv
<1> HIDE DEF new
<1>10. \A b \in active' : b = new \/ (b \in active /\ b # a)
  <2>1. active' = (active \ {a}) \cup {new}
    BY <1>1, <1>9 DEF new
  <2>2. QED
    BY <2>1
<1> USE DEF new
<1>11. \A b \in active : b # a => b.reg # r /\ b.vreg # out /\ b.vreg # v
  <2>1. ASSUME NEW b \in active, b # a PROVE b.reg # r
    BY <1>5, <2>1 DEF ScanInv, PoolPartition
  <2>2. ASSUME NEW b \in active, b # a PROVE b.vreg # out
    <3>1. b \in Active /\ loc[b.vreg] = Reg(b.reg)
      BY DEF ScanInv, TypeOK, EntriesCover
    <3>2. QED
      BY <1>5, <1>6, <2>1, <2>2, <3>1, HomesDiffer DEF Active, Pool
  <2>3. QED
    BY <1>2, <2>1, <2>2 DEF ScanInv, EntriesCover
<1>12. EntriesCover'
  <2>1. range[v].end <= a.end
    BY <1>1, <1>5 DEF ScanInv, TypeOK, Active, LiveRange, Pos
  <2>2. ASSUME NEW b \in active, b # a
        PROVE  b.vreg \in Placed /\ loc'[b.vreg] = Reg(b.reg) /\ range[b.vreg].end <= b.end
    BY <1>7, <1>11, <2>2 DEF ScanInv, EntriesCover, Placed
  <2>3. QED
    BY <1>2, <1>3, <1>7, <1>8, <1>10, <2>1, <2>2 DEF EntriesCover
<1>13. HeldOrOver'
  <2>1. new \in active' /\ new.vreg = v
    BY <1>1, <1>8
  <2>2. ASSUME NEW u \in Placed, u # out, loc[u].kind = "Reg"
        PROVE  \/ \E b \in active' : b.vreg = u
               \/ \A w \in todo : range[u].end < range[w].start
    BY <1>1, <1>9, <2>2 DEF ScanInv, HeldOrOver
  <2>3. loc'[out].kind # "Reg"
    BY <1>7, HomesDiffer DEF Slot
  <2>4. QED
    BY <1>2, <1>3, <1>7, <2>1, <2>2, <2>3 DEF HeldOrOver, Placed
<1>14. PlacedExact'
  BY <1>2, <1>5, <1>6, <1>7, HomesDiffer DEF PlacedExact, ScanInv, TypeOK, Placed
<1>15. PoolPartition'
  <2>1. \A q \in Pool : \E b \in active : b.reg = q
    BY <1>3, <1>9 DEF Avail, ScanInv, PoolPartition
  <2>2. \A q \in Pool : \E b \in active' : b.reg = q
    BY <1>1, <1>8, <1>9, <2>1
  <2>3. ASSUME NEW b \in active', NEW c \in active', b.reg = c.reg PROVE b = c
    BY <1>8, <1>10, <1>11, <2>3 DEF ScanInv, PoolPartition
  <2>4. QED
    BY <1>3, <2>2, <2>3 DEF PoolPartition
<1>16. FrameExact'
  <2>1. ASSUME NEW u \in Placed', loc'[u].kind = "Slot", u # out
        PROVE  u \in Placed /\ loc'[u] = loc[u] /\ loc[u].n < spills
    BY <1>2, <1>5, <1>7, <2>1, HomesDiffer DEF ScanInv, FrameExact, Placed
  <2>2. spills \in Nat /\ Slot(spills).n = spills
    BY HomesDiffer DEF ScanInv, TypeOK
  <2>3. \A u \in Placed' : loc'[u].kind = "Slot" => loc'[u].n < spills'
    <3>1. ASSUME NEW u \in Placed', loc'[u].kind = "Slot", u # out
          PROVE  loc'[u].n < spills'
      <4>1. loc[u] \in Loc /\ loc[u].kind = "Slot" /\ loc[u].n < spills
        BY <2>1, <3>1 DEF ScanInv, TypeOK, Placed
      <4>2. QED
        BY <1>3, <2>1, <2>2, <3>1, <4>1 DEF Loc, Unplaced
    <3>2. QED
      BY <1>3, <1>7, <2>2, <3>1
  <2>4. \A u, w \in Placed' : loc'[u] = loc'[w] /\ loc'[u].kind = "Slot" => u = w
    BY <1>7, <2>1, <2>2 DEF ScanInv, FrameExact
  <2>5. ASSUME NEW k \in 0 .. spills' - 1 PROVE \E u \in Placed' : loc'[u] = Slot(k)
    <3>1. CASE k = spills
      BY <1>2, <1>6, <1>7, <3>1
    <3>2. CASE k # spills
      <4>1. k \in 0 .. spills - 1
        BY <1>3, <2>2, <3>2
      <4>2. PICK u \in Placed : loc[u] = Slot(k)
        BY <4>1 DEF ScanInv, FrameExact
      <4>3. u # out /\ u # v
        BY <1>2, <1>5, <1>6, <4>1, <4>2, HomesDiffer
      <4>4. QED
        BY <1>2, <1>7, <4>2, <4>3 DEF Placed
    <3>3. QED
      BY <3>1, <3>2
  <2>6. QED
    BY <2>3, <2>4, <2>5 DEF FrameExact
<1>17. ASSUME NEW u \in Placed, u # out, loc[u] = Reg(r) PROVE ~ Overlap(u, v)
  <2>1. \A b \in active : b.vreg # u
    <3>1. ASSUME NEW b \in active, b.vreg = u PROVE FALSE
      <4>1. b \in Active /\ loc[u] = Reg(b.reg)
        BY <3>1 DEF ScanInv, TypeOK, EntriesCover
      <4>2. b.reg \in Nat
        BY <4>1, AvailInPool DEF Active, ScanInv
      <4>3. Reg(b.reg) = Reg(r)
        BY <1>17, <4>1
      <4>4. b.reg = r
        BY <1>5, <4>2, <4>3, HomesDiffer
      <4>5. b = a
        BY <1>11, <4>4
      <4>6. QED
        BY <1>17, <3>1, <4>5
    <3>2. QED
      BY <3>1
  <2>2. loc[u].kind = "Reg"
    BY <1>5, <1>17, HomesDiffer
  <2>3. \A w \in todo : range[u].end < range[w].start
    BY <2>1, <2>2 DEF ScanInv, HeldOrOver
  <2>4. QED
    BY <1>2, <2>3 DEF Overlap, ScanInv, TypeOK, LiveRange, Pos, Placed
<1>18. ConflictFree'
  <2>1. ASSUME NEW u \in Placed, u # out PROVE loc'[u] = loc[u] /\ loc[u] # Slot(spills)
    <3>1. loc[u].kind = "Slot" => loc[u].n < spills
      BY DEF ScanInv, FrameExact
    <3>2. QED
      BY <1>2, <1>7, <2>1, <3>1, HomesDiffer DEF ScanInv, TypeOK, Placed
  <2>2. Reg(r) # Slot(spills)
    BY <1>5, HomesDiffer DEF ScanInv, TypeOK
  <2>3. QED
    BY <1>2, <1>3, <1>6, <1>7, <1>17, <2>1, <2>2 DEF ConflictFree, Overlap, ScanInv
<1>19. QED
  BY <1>12, <1>13, <1>14, <1>15, <1>16, <1>18 DEF ScanInv

(* The newcomer is the furthest: it goes to a slot nobody has.             *)
LEMMA SpillNewcomerStep ==
  ASSUME ScanInv, TypeOK', NEW v \in VReg, SpillNewcomer(v)
  PROVE  ScanInv'
<1> USE PoolLenAssumption, NVregsAssumption, MaxPosAssumption
<1>1. v \in todo /\ todo' = todo \ {v} /\ Placed' = Placed \cup {v} /\ v \notin Placed
  BY DEF SpillNewcomer, IsNext, Visited, Placed, ScanInv, TypeOK
<1>2. range' = range /\ spills' = spills + 1 /\ free' = {} /\ Avail(v) = {}
  BY DEF SpillNewcomer, Visited
<1>3. active' = active
  BY <1>2, AvailInPool DEF SpillNewcomer, ScanInv
<1>4. loc'[v] = Slot(spills) /\ \A u \in VReg \ {v} : loc'[u] = loc[u]
  BY DEF SpillNewcomer, NewSlot, ScanInv, TypeOK
<1>5. spills \in Nat /\ Slot(spills).n = spills /\ Slot(spills).kind = "Slot"
  BY HomesDiffer DEF ScanInv, TypeOK
<1>6. EntriesCover'
  BY <1>1, <1>2, <1>3, <1>4 DEF EntriesCover, ScanInv, Placed
<1>7. HeldOrOver'
  BY <1>1, <1>2, <1>3, <1>4, <1>5 DEF HeldOrOver, ScanInv, Placed
<1>8. PlacedExact'
  BY <1>1, <1>4, <1>5, HomesDiffer DEF PlacedExact, ScanInv, TypeOK
<1>9. PoolPartition'
  <2>1. free = {}
    BY <1>2, AvailInPool DEF ScanInv
  <2>2. QED
    BY <1>2, <1>3, <2>1 DEF ScanInv, PoolPartition
<1>10. \A u \in Placed : loc'[u] = loc[u] /\ (loc[u].kind = "Slot" => loc[u].n < spills)
  BY <1>1, <1>4 DEF ScanInv, FrameExact, Placed
<1>11. \A u \in Placed : loc[u] # Slot(spills)
  BY <1>5, <1>10
<1>12. FrameExact'
  <2>1. \A u \in Placed' : loc'[u].kind = "Slot" => loc'[u].n < spills'
    <3>1. ASSUME NEW u \in Placed, loc[u].kind = "Slot" PROVE loc[u].n < spills + 1
      <4>1. loc[u] \in Loc /\ loc[u].n < spills
        BY <1>10, <3>1 DEF ScanInv, TypeOK, Placed
      <4>2. QED
        BY <1>5, <3>1, <4>1 DEF Loc, Unplaced
    <3>2. QED
      BY <1>1, <1>2, <1>4, <1>5, <1>10, <3>1
  <2>2. \A u, w \in Placed' : loc'[u] = loc'[w] /\ loc'[u].kind = "Slot" => u = w
    BY <1>1, <1>4, <1>10, <1>11 DEF ScanInv, FrameExact
  <2>3. ASSUME NEW k \in 0 .. spills' - 1 PROVE \E u \in Placed' : loc'[u] = Slot(k)
    <3>1. CASE k = spills
      BY <1>1, <1>4, <3>1
    <3>2. CASE k # spills
      <4>1. k \in 0 .. spills - 1
        BY <1>2, <1>5, <3>2
      <4>2. PICK u \in Placed : loc[u] = Slot(k)
        BY <4>1 DEF ScanInv, FrameExact
      <4>3. QED
        BY <1>1, <1>10, <4>2
    <3>3. QED
      BY <3>1, <3>2
  <2>4. QED
    BY <2>1, <2>2, <2>3 DEF FrameExact
<1>13. ConflictFree'
  BY <1>1, <1>2, <1>4, <1>10, <1>11 DEF ConflictFree, Overlap, ScanInv
<1>14. QED
  BY <1>6, <1>7, <1>8, <1>9, <1>12, <1>13 DEF ScanInv

(* Every step of the scan keeps the invariant.                             *)
LEMMA ScanInvStep == ScanInv /\ [Next]_vars => ScanInv'
<1> SUFFICES ASSUME ScanInv, [Next]_vars PROVE ScanInv'
  OBVIOUS
<1>1. TypeOK'
  BY TypeStep DEF ScanInv
<1>2. ASSUME NEW v \in VReg, Visit(v) PROVE ScanInv'
  BY <1>1, <1>2, TakeFreeStep, StealStep, SpillNewcomerStep DEF Visit
<1>3. CASE UNCHANGED vars
  BY <1>3 DEF vars, ScanInv, TypeOK, EntriesCover, HeldOrOver, PlacedExact,
              PoolPartition, FrameExact, ConflictFree, Overlap, Placed
<1>4. QED
  BY <1>2, <1>3 DEF Next

(* The inductive invariant holds throughout the scan.                      *)
THEOREM ScanInvariant == Spec => []ScanInv
  BY ScanInvStep, InitScanInv, PTL DEF Spec

(* Types hold, for every pool and every set of intervals.                  *)
THEOREM Types == Spec => []TypeOK
<1>1. ScanInv => TypeOK
  BY DEF ScanInv
<1>2. QED
  BY <1>1, ScanInvariant, PTL

(* Two vregs with overlapping intervals never share a home.                *)
THEOREM OverlapNeverShares == Spec => []ConflictFree
<1>1. ScanInv => ConflictFree
  BY DEF ScanInv
<1>2. QED
  BY <1>1, ScanInvariant, PTL

(* No register is lost or handed out twice.                                *)
THEOREM PoolIsPartitioned == Spec => []PoolPartition
<1>1. ScanInv => PoolPartition
  BY DEF ScanInv
<1>2. QED
  BY <1>1, ScanInvariant, PTL

(* The frame holds exactly the slots in use.                               *)
THEOREM FrameIsExact == Spec => []FrameExact
<1>1. ScanInv => FrameExact
  BY DEF ScanInv
<1>2. QED
  BY <1>1, ScanInvariant, PTL

(* A vreg gets its home once; a register may be traded for a slot, and     *)
(* nothing else moves.                                                     *)
THEOREM HomesNeverMove == Spec => HomesSettle
<1>1. ASSUME ScanInv, [Next]_vars, NEW u \in VReg, loc'[u] # loc[u]
      PROVE  loc[u] = Unplaced \/ (loc[u].kind = "Reg" /\ loc'[u].kind = "Slot")
  <2>1. ASSUME NEW v \in VReg, TakeFree(v) PROVE loc[u] = Unplaced
    BY <1>1, <2>1 DEF TakeFree, IsNext, ScanInv, TypeOK, PlacedExact
  <2>2. ASSUME NEW v \in VReg, SpillNewcomer(v) PROVE loc[u] = Unplaced
    BY <1>1, <2>2 DEF SpillNewcomer, IsNext, ScanInv, TypeOK, PlacedExact
  <2>3. ASSUME NEW v \in VReg, Steal(v)
        PROVE  loc[u] = Unplaced \/ (loc[u].kind = "Reg" /\ loc'[u].kind = "Slot")
    <3>1. PICK a \in active :
            loc' = [loc EXCEPT ![v] = Reg(a.reg), ![a.vreg] = Slot(spills)]
      BY <2>3 DEF Steal, NewSlot, Live
    <3>2. CASE u = a.vreg
      <4>1. loc'[u] = Slot(spills)
        BY <1>1, <3>1, <3>2 DEF ScanInv, TypeOK
      <4>2. loc[u] = Reg(a.reg)
        BY <1>1, <3>2 DEF ScanInv, EntriesCover
      <4>3. QED
        BY <4>1, <4>2 DEF Reg, Slot
    <3>3. CASE u # a.vreg
      BY <1>1, <2>3, <3>1, <3>3 DEF Steal, IsNext, ScanInv, TypeOK, PlacedExact
    <3>4. QED
      BY <3>2, <3>3
  <2>4. QED
    BY <1>1, <2>1, <2>2, <2>3 DEF Next, Visit, vars
<1>2. ScanInv /\ [Next]_vars =>
        [\A v \in VReg : loc'[v] # loc[v] =>
           \/ loc[v] = Unplaced
           \/ loc[v].kind = "Reg" /\ loc'[v].kind = "Slot"]_vars
  BY <1>1
<1>3. QED
  BY <1>2, ScanInvariant, PTL DEF Spec, HomesSettle
-----------------------------------------------------------------------------
(* A spill needs pressure.  Until the first one, an entry's end is that of *)
(* the vreg in it, and no vreg visited starts after one still to come: the *)
(* entries and the newcomer are then all live where the newcomer starts.   *)
EntriesExact  == \A a \in active : a.end = range[a.vreg].end
VisitedBefore == \A u \in Placed, w \in todo : range[u].start <= range[w].start

PressureInv ==
  /\ VisitedBefore
  /\ spills = 0 => EntriesExact
  /\ SpillsNeedPressure

LiveAt(p) == {v \in VReg : range[v].start <= p /\ p <= range[v].end}

(* An entry for every register and one vreg more, all live at p: more live *)
(* values than registers.                                                  *)
LEMMA MoreThanPool ==
  ASSUME ScanInv, free = {}, NEW v \in todo, NEW p \in Pos, v \in LiveAt(p),
         \A a \in active : a.vreg \in LiveAt(p)
  PROVE  Cardinality(LiveAt(p)) > PoolLen
<1> DEFINE T == LiveAt(p)
           entry(r) == CHOOSE a \in active : a.reg = r
           home == [r \in 0 .. PoolLen |-> IF r = PoolLen THEN v ELSE entry(r).vreg]
<1>1. IsFiniteSet(VReg)
  BY FS_Interval, NVregsAssumption DEF VReg
<1>2. IsFiniteSet(T) /\ Cardinality(T) \in Nat
  <2>1. T \in SUBSET VReg
    BY DEF LiveAt
  <2>2. IsFiniteSet(T)
    BY <1>1, <2>1, FS_Subset
  <2>3. QED
    BY <2>2, FS_CardinalityType
<1>3. \A r \in Pool : entry(r) \in active /\ entry(r).reg = r
  BY DEF ScanInv, PoolPartition
<1> HIDE DEF T, entry
<1>4. \A r \in 0 .. PoolLen : r # PoolLen => r \in Pool
  BY PoolLenAssumption DEF Pool
<1>5. home \in [0 .. PoolLen -> T]
  BY <1>3, <1>4 DEF T
<1>6. \A r, q \in Pool : entry(r).vreg = entry(q).vreg => r = q
  <2> SUFFICES ASSUME NEW r \in Pool, NEW q \in Pool, entry(r).vreg = entry(q).vreg
               PROVE  r = q
    OBVIOUS
  <2>1. loc[entry(r).vreg] = Reg(r) /\ loc[entry(q).vreg] = Reg(q)
    BY <1>3 DEF ScanInv, EntriesCover
  <2>2. r \in Nat /\ q \in Nat
    BY PoolLenAssumption DEF Pool
  <2>3. QED
    BY <2>1, <2>2, HomesDiffer
<1>7. \A r \in Pool : entry(r).vreg # v
  BY <1>3 DEF ScanInv, EntriesCover, Placed
<1>8. \A r, q \in 0 .. PoolLen : r # q => home[r] # home[q]
  BY <1>4, <1>6, <1>7
<1>9. IsFiniteSet(0 .. PoolLen) /\ Cardinality(0 .. PoolLen) = PoolLen + 1
  BY FS_Interval, PoolLenAssumption
<1>10. ~(Cardinality(T) < PoolLen + 1)
  <2> HIDE DEF home
  <2>1. QED
    BY <1>2, <1>5, <1>8, <1>9, FS_PigeonHole
<1>11. QED
  BY <1>2, <1>10, PoolLenAssumption DEF T

(* The vregs visited and the entries of a step, seen from the next one.    *)
LEMMA VisitedBeforeStep ==
  ASSUME ScanInv, VisitedBefore, NEW v \in VReg, IsNext(v), Visited(v)
  PROVE  VisitedBefore'
<1>1. \A w \in todo : range[v].start <= range[w].start
  BY NextIsFirst DEF ScanInv
<1>2. Placed' = Placed \cup {v} /\ range' = range /\ todo' \subseteq todo
  BY DEF Placed, Visited, IsNext
<1>3. QED
  BY <1>1, <1>2 DEF VisitedBefore

(* The first spill happens under pressure.                                 *)
LEMMA FirstSpill ==
  ASSUME ScanInv, PressureInv, spills = 0, NEW v \in VReg, IsNext(v), Avail(v) = {}
  PROVE  \E p \in Pos : Cardinality(LiveAt(p)) > PoolLen
<1> DEFINE p == range[v].start
<1>1. free = {} /\ Live(v) = active
  BY AvailInPool DEF ScanInv
<1>2. range[v] \in LiveRange /\ v \in todo /\ range \in [VReg -> LiveRange]
  BY DEF ScanInv, TypeOK, IsNext
<1>3. p \in Pos /\ p <= range[v].end
  BY <1>2 DEF LiveRange
<1>4. v \in LiveAt(p)
  BY <1>2, <1>3 DEF LiveAt, Pos
<1>5. ASSUME NEW a \in active PROVE a.vreg \in LiveAt(p)
  <2>1. a.end >= p
    BY <1>1 DEF Live
  <2>2. a.end = range[a.vreg].end /\ a.vreg \in Placed
    BY DEF PressureInv, EntriesExact, ScanInv, EntriesCover
  <2>3. range[a.vreg].start <= p
    BY <1>2, <2>2 DEF PressureInv, VisitedBefore
  <2>4. QED
    BY <2>1, <2>2, <2>3 DEF LiveAt, Placed
<1> HIDE DEF p
<1>6. QED
  BY <1>1, <1>2, <1>3, <1>4, <1>5, MoreThanPool

LEMMA PressureStep ==
  ASSUME ScanInv, PressureInv, NEW v \in VReg, Visit(v)
  PROVE  PressureInv'
<1>1. IsNext(v) /\ Visited(v) /\ range' = range
  BY DEF Visit, TakeFree, Steal, SpillNewcomer, Visited
<1>2. VisitedBefore'
  BY <1>1, VisitedBeforeStep DEF PressureInv
<1>3. CASE TakeFree(v)
  <2>1. spills' = spills
    BY <1>3 DEF TakeFree
  <2>2. SpillsNeedPressure'
    BY <1>1, <2>1 DEF PressureInv, SpillsNeedPressure
  <2>3. ASSUME spills = 0 PROVE EntriesExact'
    BY <1>1, <1>3, <2>3 DEF TakeFree, PressureInv, EntriesExact, Live
  <2>4. QED
    BY <1>2, <2>1, <2>2, <2>3 DEF PressureInv
<1>4. CASE Steal(v) \/ SpillNewcomer(v)
  <2>1. spills' = spills + 1 /\ Avail(v) = {} /\ spills \in Nat
    BY <1>4 DEF Steal, SpillNewcomer, ScanInv, TypeOK
  <2>2. \E p \in Pos : Cardinality(LiveAt(p)) > PoolLen
    <3>1. CASE spills = 0
      BY <1>1, <2>1, <3>1, FirstSpill
    <3>2. CASE spills # 0
      BY <2>1, <3>2 DEF PressureInv, SpillsNeedPressure, LiveAt
    <3>3. QED
      BY <3>1, <3>2
  <2>3. SpillsNeedPressure'
    BY <1>1, <2>2 DEF SpillsNeedPressure, LiveAt
  <2>4. QED
    BY <1>2, <2>1, <2>3 DEF PressureInv
<1>5. QED
  BY <1>3, <1>4 DEF Visit

(* No function whose values fit the pool is given a frame.                 *)
THEOREM FitsThePool == Spec => []SpillsNeedPressure
<1>1. Init => PressureInv
  BY DEF Init, PressureInv, VisitedBefore, EntriesExact, SpillsNeedPressure, Placed
<1>2. ScanInv /\ PressureInv /\ [Next]_vars => PressureInv'
  <2> SUFFICES ASSUME ScanInv, PressureInv, [Next]_vars PROVE PressureInv'
    OBVIOUS
  <2>1. CASE UNCHANGED vars
    BY <2>1 DEF vars, PressureInv, VisitedBefore, EntriesExact, SpillsNeedPressure, Placed
  <2>2. CASE Next
    BY <2>2, PressureStep DEF Next
  <2>3. QED
    BY <2>1, <2>2
<1>3. PressureInv => SpillsNeedPressure
  BY DEF PressureInv
<1>4. QED
  BY <1>1, <1>2, <1>3, ScanInvariant, PTL DEF Spec
=============================================================================
