----------------------------- MODULE HeapProofs -----------------------------
(***************************************************************************)
(* With one thread and strings only, the freelist stays sound and the heap *)
(* helpers implement RefHeap, whatever the heap's size and the references. *)
(***************************************************************************)
EXTENDS Heap, TLAPS

Self  == CHOOSE t \in Threads : TRUE
Alone == Threads = {Self} /\ Sites \subseteq {"String"}

(* What the thread is doing, and with what.                                *)
Pc      == pc[Self]
P       == ptr[Self]
V       == val[Self]
N       == req[Self]
Mine(a) == held[Self][a]

Places == {"client", "a_init", "a_seed", "a_head", "a_fits", "a_next", "a_unlink", "a_count",
           "a_zero", "a_bump", "a_advance", "a_first", "a_return", "r_load", "r_head",
           "r_link", "r_cap", "r_push"}

HeapTypes ==
  /\ head \in Cells \cup {Null} /\ bump \in 0 .. HeapEnd + 1
  /\ word0 \in [Cells -> Cells \cup {Null, Data}] /\ word8 \in [Cells -> Nat]
  /\ pc \in [Threads -> Places] /\ ptr \in [Threads -> Cells \cup {Null}]
  /\ val \in [Threads -> Cells \cup {Null, Data}] /\ req \in [Threads -> 0 .. 2]
  /\ site \in [Threads -> {"Alloc", "String"}]
  /\ bytes \in [Cells -> 0 .. 2] /\ held \in [Threads -> [Cells -> Nat]]

(* The block the thread carries, in a call of alloc that has it already or *)
(* in a call of release; the free blocks; all blocks, and their sizes.     *)
Making     == Pc \in {"a_count", "a_zero", "a_first", "a_return"}
Pushing    == Pc \in {"r_head", "r_link", "r_cap", "r_push"}
Leaving    == Pc = "r_load" \/ Pushing
Busy       == Making \/ Leaving
Carried(a) == a = P /\ Busy
Free(a)    == bytes[a] > 0 /\ Mine(a) = 0 /\ ~Carried(a)
IsBlock(a) == bytes[a] > 0 \/ Carried(a)
Extent(a)  == IF Carried(a) THEN N ELSE IF Mine(a) > 0 THEN bytes[a] ELSE word8[a]

(* Blocks lie below the bump pointer and apart.                            *)
Bounded == \A a \in Cells : IsBlock(a) => Extent(a) \in 1 .. 2 /\ a + Extent(a) <= bump
Apart   == \A a, b \in Cells : IsBlock(a) /\ IsBlock(b) /\ a < b => a + Extent(a) <= b

(* The count of an object is the references to it.                         *)
Counted ==
  \A a \in Cells : Mine(a) > 0 =>
    bytes[a] > 0 /\ word8[a] = Mine(a) /\ (Carried(a) => Pc = "r_load")

(* Links lead from free blocks to free blocks, never two to one, and none  *)
(* to the head.                                                            *)
Linked ==
  /\ head # Null => Free(head)
  /\ \A a \in Cells : Free(a) /\ word0[a] # Null =>
       word0[a] \in Cells /\ Free(word0[a]) /\ word0[a] # head
  /\ \A a, b \in Cells :
       Free(a) /\ Free(b) /\ word0[a] = word0[b] /\ word0[a] # Null => a = b

(* Where the thread is in a helper.                                        *)
Looking  == Pc \in {"a_init", "a_seed", "a_head", "a_fits", "a_bump", "a_advance"}
Popping  == Pc \in {"a_fits", "a_next", "a_unlink"}
Taking   == Pc \in {"a_next", "a_unlink"}
InAlloc  == Looking \/ Popping \/ Making

AllocHere ==
  /\ InAlloc => N \in Sizes /\ site[Self] = "String"
  /\ Looking => (IF bump = 0 THEN First ELSE bump) + N - 1 <= HeapEnd
  /\ Pc = "a_seed" => bump = 0
  /\ Pc \in {"a_head", "a_fits", "a_bump", "a_advance"} => bump > 0
  /\ Popping => P = head /\ P # Null
  /\ Taking => word8[P] >= N
  /\ Pc = "a_unlink" => V = word0[P]
  /\ Pc = "a_advance" => P = bump
  /\ Making => P \in Cells

ReleaseHere ==
  /\ Leaving => P \in Cells /\ bytes[P] > 0 /\ N = bytes[P]
  /\ Pc = "r_load" => word8[P] = Mine(P)
  /\ Pushing => Mine(P) = 0
  /\ Pc \in {"r_link", "r_cap", "r_push"} => V = head
  /\ Pc \in {"r_cap", "r_push"} => word0[P] = V
  /\ Pc = "r_push" => word8[P] = N

HeapInv ==
  HeapTypes /\ Bounded /\ Apart /\ Counted /\ Linked /\ AllocHere /\ ReleaseHere

-----------------------------------------------------------------------------
LEMMA OneSelf == ASSUME Alone PROVE Self \in Threads /\ \A t \in Threads : t = Self
  BY DEF Alone

LEMMA Scalars ==
  ASSUME Alone, HeapTypes
  PROVE  /\ Pc \in Places /\ P \in Cells \cup {Null} /\ V \in Cells \cup {Null, Data}
         /\ N \in 0 .. 2 /\ \A a \in Cells : Mine(a) \in Nat /\ bytes[a] \in 0 .. 2
                                            /\ word8[a] \in Nat
                                            /\ word0[a] \in Cells \cup {Null, Data}
         /\ bump \in 0 .. HeapEnd + 1 /\ head \in Cells \cup {Null}
  BY OneSelf DEF HeapTypes, Pc, P, V, N, Mine

LEMMA CellTypes ==
  /\ \A a \in Cells : a \in Nat /\ a >= 1 /\ a <= HeapEnd /\ a # Null /\ a # Data
  /\ Null \notin Cells /\ Data \notin Cells /\ HeapEnd \in Nat
  BY HeapEndAssumption DEF Cells, First, Null, Data

(* Blocks that at most shrink under a bump pointer that at most grows.     *)
LEMMA BlocksStay ==
  ASSUME Bounded, Apart, bump \in Nat, bump' \in Nat, bump' >= bump,
         \A a \in Cells : IsBlock(a)' =>
           IsBlock(a) /\ Extent(a)' \in 1 .. 2 /\ Extent(a)' <= Extent(a)
  PROVE  Bounded' /\ Apart'
<1>1. ASSUME NEW a \in Cells, IsBlock(a)'
      PROVE  /\ IsBlock(a) /\ Extent(a)' \in 1 .. 2 /\ Extent(a)' <= Extent(a)
             /\ Extent(a) \in 1 .. 2 /\ a + Extent(a) <= bump /\ a \in Nat
  BY <1>1, CellTypes DEF Bounded
<1>2. Bounded'
  <2>1. ASSUME NEW a \in Cells, IsBlock(a)' PROVE Extent(a)' \in 1 .. 2 /\ a + Extent(a)' <= bump'
    BY <1>1, <2>1
  <2>2. QED
    BY <2>1 DEF Bounded
<1>3. Apart'
  <2>1. ASSUME NEW a \in Cells, NEW b \in Cells, IsBlock(a)', IsBlock(b)', a < b
        PROVE  a + Extent(a)' <= b
    <3>1. a + Extent(a) <= b
      BY <1>1, <2>1 DEF Apart
    <3>2. QED
      BY <1>1, <2>1, <3>1, CellTypes
  <2>2. QED
    BY <2>1 DEF Apart
<1>4. QED
  BY <1>2, <1>3

(* A freelist that nobody touches.                                         *)
LEMMA ListStays ==
  ASSUME Linked, head' = head, \A a \in Cells : Free(a)' <=> Free(a),
         head \in Cells \cup {Null},
         \A a \in Cells : Free(a) => word0'[a] = word0[a]
  PROVE  Linked'
<1>1. (head # Null => Free(head))'
  <2>1. CASE head = Null
    BY <2>1
  <2>2. CASE head # Null
    <3>1. head \in Cells /\ Free(head)
      BY <2>2 DEF Linked
    <3> DEFINE h == head
    <3>2. Free(h)'
      <4>1. h \in Cells /\ Free(h) /\ h' = h
        BY <3>1
      <4>2. QED
        BY <4>1 DEF Free, Carried, Mine
    <3>3. QED
      BY <3>2
  <2>3. QED
    BY <2>1, <2>2
<1>2. QED
  BY <1>1 DEF Linked

(* Steps that leave the blocks, the references and the list alone, and of  *)
(* the words write at most those of the block the thread carries.          *)
LEMMA Quiet ==
  ASSUME Alone, HeapTypes, Bounded, Apart, Counted, Linked,
         head' = head, bytes' = bytes, held' = held, bump' \in Nat, bump' >= bump,
         Busy' <=> Busy, Busy => P' = P /\ N' = N,
         Busy' => Pc' = "r_load" \/ Mine(P) = 0,
         \A a \in Cells : ~Carried(a) => word0'[a] = word0[a],
         \A a \in Cells : ~Carried(a) \/ Mine(a) > 0 => word8'[a] = word8[a]
  PROVE  Bounded' /\ Apart' /\ Counted' /\ Linked'
<1>1. \A a \in Cells : Mine(a)' = Mine(a) /\ bytes'[a] = bytes[a] /\ (Carried(a)' <=> Carried(a))
  BY DEF Mine, Carried
<1>2. \A a \in Cells : Free(a)' <=> Free(a)
  BY <1>1 DEF Free
<1>3. \A a \in Cells : IsBlock(a)' <=> IsBlock(a)
  BY <1>1 DEF IsBlock
<1>4. \A a \in Cells : Extent(a)' = Extent(a)
  <2>1. SUFFICES ASSUME NEW a \in Cells PROVE Extent(a)' = Extent(a)
    OBVIOUS
  <2>2. CASE Carried(a)
    BY <1>1, <2>2 DEF Extent, Carried
  <2>3. CASE ~Carried(a)
    BY <1>1, <2>3 DEF Extent
  <2>4. QED
    BY <2>2, <2>3
<1>5. Bounded' /\ Apart'
  <2>1. \A a \in Cells : IsBlock(a)' =>
          IsBlock(a) /\ Extent(a)' \in 1 .. 2 /\ Extent(a)' <= Extent(a)
    BY <1>3, <1>4 DEF Bounded
  <2>2. bump \in Nat
    BY Scalars, CellTypes
  <2>3. QED
    BY <2>1, <2>2, BlocksStay
<1>6. Counted'
  <2>1. SUFFICES ASSUME NEW a \in Cells, Mine(a) > 0
        PROVE  bytes'[a] > 0 /\ word8'[a] = Mine(a)' /\ (Carried(a)' => Pc' = "r_load")
    BY <1>1 DEF Counted
  <2>2. bytes'[a] > 0 /\ word8'[a] = Mine(a)'
    BY <1>1, <2>1 DEF Counted
  <2>3. Carried(a)' => Pc' = "r_load"
    <3>1. Carried(a)' => a = P /\ Busy'
      BY <1>1 DEF Carried
    <3>2. Mine(P) = 0 => a # P
      BY <2>1
    <3>3. QED
      BY <3>1, <3>2
  <2>4. QED
    BY <2>2, <2>3
<1>7. Linked'
  <2>1. \A a \in Cells : Free(a) => word0'[a] = word0[a]
    BY DEF Free
  <2>2. QED
    BY <1>2, <2>1, ListStays, Scalars
<1>8. QED
  BY <1>5, <1>6, <1>7
-----------------------------------------------------------------------------
(* One lemma per action of the thread.                                     *)

LEMMA AllocKeeps ==
  ASSUME Alone, HeapInv, Alloc(Self) PROVE HeapInv'
<1>1. /\ Pc = "client" /\ Pc' = "a_init" /\ N' \in Sizes /\ site'[Self] = "String"
      /\ (IF bump = 0 THEN First ELSE bump) + N' - 1 <= HeapEnd
      /\ UNCHANGED <<heapVars, ptr, val, bytes, held>>
  <2>1. PICK s \in Sites, n \in Sizes :
          /\ (IF bump = 0 THEN First ELSE bump) + n - 1 <= HeapEnd
          /\ req' = [req EXCEPT ![Self] = n] /\ site' = [site EXCEPT ![Self] = s]
    BY DEF Alloc
  <2>2. s = "String"
    BY DEF Alone
  <2>3. pc \in [Threads -> Places] /\ req \in [Threads -> 0 .. 2] /\ Self \in Threads
        /\ site \in [Threads -> {"Alloc", "String"}]
    BY OneSelf DEF HeapInv, HeapTypes
  <2>4. N' = n /\ site'[Self] = "String"
    BY <2>1, <2>2, <2>3 DEF N
  <2>5. QED
    BY <2>1, <2>3, <2>4 DEF Alloc, Go, Pc
<1>2. HeapTypes'
  <2>1. PICK s \in Sites, n \in Sizes :
          req' = [req EXCEPT ![Self] = n] /\ site' = [site EXCEPT ![Self] = s]
    BY DEF Alloc
  <2>2. s \in {"Alloc", "String"} /\ n \in 0 .. 2
    BY SitesAssumption DEF Sizes
  <2>3. QED
    BY <2>1, <2>2 DEF Alloc, Go, HeapInv, HeapTypes, heapVars, Places
<1>3. Bounded' /\ Apart' /\ Counted' /\ Linked'
  <2>1. ~Busy /\ ~Busy'
    BY <1>1 DEF Busy, Making, Leaving, Pushing
  <2>2. QED
    BY <1>1, <2>1, Quiet, Scalars DEF HeapInv, heapVars
<1>4. AllocHere' /\ ReleaseHere'
  BY <1>1 DEF HeapInv, AllocHere, ReleaseHere, InAlloc, Looking, Popping, Taking, Making, Leaving,
     Pushing, heapVars
<1>5. QED
  BY <1>2, <1>3, <1>4 DEF HeapInv

LEMMA AllocInitKeeps ==
  ASSUME Alone, HeapInv, AllocInit(Self) PROVE HeapInv'
<1>1. /\ Pc = "a_init" /\ Pc' = IF bump = 0 THEN "a_seed" ELSE "a_head"
      /\ UNCHANGED <<heapVars, ptr, val, req, site, bytes, held>>
  BY OneSelf DEF AllocInit, Go, Pc, HeapInv, HeapTypes
<1>2. HeapTypes'
  BY DEF AllocInit, Go, HeapInv, HeapTypes, heapVars, Places
<1>3. Bounded' /\ Apart' /\ Counted' /\ Linked'
  <2>1. ~Busy /\ ~Busy'
    BY <1>1 DEF Busy, Making, Leaving, Pushing
  <2>2. QED
    BY <1>1, <2>1, Quiet, Scalars DEF HeapInv, heapVars
<1>4. AllocHere' /\ ReleaseHere'
  <2>1. P' = P /\ N' = N /\ V' = V /\ bump \in Nat
    BY <1>1, Scalars, CellTypes DEF P, N, V, HeapInv
  <2>2. QED
    BY <1>1, <2>1 DEF HeapInv, AllocHere, ReleaseHere, InAlloc, Looking, Popping, Taking, Making,
       Leaving, Pushing, heapVars
<1>5. QED
  BY <1>2, <1>3, <1>4 DEF HeapInv

LEMMA AllocSeedKeeps ==
  ASSUME Alone, HeapInv, AllocSeed(Self) PROVE HeapInv'
<1>1. /\ Pc = "a_seed" /\ Pc' = "a_head" /\ bump = 0 /\ bump' = First
      /\ UNCHANGED <<head, word0, word8, ptr, val, req, site, bytes, held>>
  BY OneSelf DEF AllocSeed, Go, Pc, HeapInv, HeapTypes, AllocHere
<1>2. /\ P' = P /\ N' = N /\ V' = V /\ N \in Sizes /\ site[Self] = "String"
      /\ First + N - 1 <= HeapEnd
  BY <1>1 DEF P, N, V, HeapInv, AllocHere, InAlloc, Looking
<1>3. HeapTypes'
  <2>1. bump' \in 0 .. HeapEnd + 1
    BY <1>1, HeapEndAssumption DEF First
  <2>2. QED
    BY <2>1 DEF AllocSeed, Go, HeapInv, HeapTypes, Places
<1>4. Bounded' /\ Apart' /\ Counted' /\ Linked'
  <2>1. ~Busy /\ ~Busy'
    BY <1>1 DEF Busy, Making, Leaving, Pushing
  <2>2. bump' \in Nat /\ bump' >= bump
    BY <1>1 DEF First
  <2>3. QED
    BY <1>1, <2>1, <2>2, Quiet DEF HeapInv
<1>5. AllocHere' /\ ReleaseHere'
  <2>1. bump' # 0 /\ bump' > 0
    BY <1>1 DEF First
  <2>2. QED
    BY <1>1, <1>2, <2>1 DEF AllocHere, ReleaseHere, InAlloc, Looking, Popping, Taking, Making,
       Leaving, Pushing
<1>6. QED
  BY <1>3, <1>4, <1>5 DEF HeapInv

LEMMA AllocHeadKeeps ==
  ASSUME Alone, HeapInv, AllocHead(Self) PROVE HeapInv'
<1>1. /\ Pc = "a_head" /\ Pc' = IF head = Null THEN "a_bump" ELSE "a_fits"
      /\ P' = head /\ UNCHANGED <<heapVars, val, req, site, bytes, held>>
  BY OneSelf DEF AllocHead, Go, Pc, P, HeapInv, HeapTypes
<1>2. HeapTypes'
  BY DEF AllocHead, Go, HeapInv, HeapTypes, heapVars, Places
<1>3. Bounded' /\ Apart' /\ Counted' /\ Linked'
  <2>1. ~Busy /\ ~Busy'
    BY <1>1 DEF Busy, Making, Leaving, Pushing
  <2>2. QED
    BY <1>1, <2>1, Quiet, Scalars DEF HeapInv, heapVars
<1>4. AllocHere' /\ ReleaseHere'
  <2>1. N' = N /\ V' = V
    BY <1>1 DEF N, V
  <2>2. QED
    BY <1>1, <2>1 DEF HeapInv, AllocHere, ReleaseHere, InAlloc, Looking, Popping, Taking, Making,
       Leaving, Pushing, heapVars
<1>5. QED
  BY <1>2, <1>3, <1>4 DEF HeapInv
LEMMA AllocFitsKeeps ==
  ASSUME Alone, HeapInv, AllocFits(Self) PROVE HeapInv'
<1>1. /\ Pc = "a_fits" /\ Pc' = IF word8[P] >= N THEN "a_next" ELSE "a_bump"
      /\ UNCHANGED <<heapVars, ptr, val, req, site, bytes, held>>
  BY OneSelf DEF AllocFits, Fits, Go, Pc, P, N, HeapInv, HeapTypes
<1>2. HeapTypes'
  BY DEF AllocFits, Go, HeapInv, HeapTypes, heapVars, Places
<1>3. Bounded' /\ Apart' /\ Counted' /\ Linked'
  <2>1. ~Busy /\ ~Busy'
    BY <1>1 DEF Busy, Making, Leaving, Pushing
  <2>2. QED
    BY <1>1, <2>1, Quiet, Scalars DEF HeapInv, heapVars
<1>4. AllocHere' /\ ReleaseHere'
  <2>1. P' = P /\ N' = N /\ V' = V
    BY <1>1 DEF P, N, V
  <2>2. QED
    BY <1>1, <2>1 DEF HeapInv, AllocHere, ReleaseHere, InAlloc, Looking, Popping, Taking, Making,
       Leaving, Pushing, heapVars
<1>5. QED
  BY <1>2, <1>3, <1>4 DEF HeapInv

(* The head is a free block.                                               *)
LEMMA PoppedIsFree ==
  ASSUME Alone, HeapInv, Popping
  PROVE  /\ P \in Cells /\ P = head /\ Free(P)
         /\ word0[P] # Null => word0[P] \in Cells /\ Free(word0[P]) /\ word0[P] # P
<1>1. P = head /\ P # Null /\ P \in Cells
  BY Scalars DEF HeapInv, AllocHere
<1>2. Free(P)
  BY <1>1 DEF HeapInv, Linked
<1>3. QED
  BY <1>1, <1>2 DEF HeapInv, Linked

LEMMA AllocNextKeeps ==
  ASSUME Alone, HeapInv, AllocNext(Self) PROVE HeapInv'
<1>1. /\ Pc = "a_next" /\ Pc' = "a_unlink" /\ V' = word0[P]
      /\ UNCHANGED <<heapVars, ptr, req, site, bytes, held>>
  BY OneSelf DEF AllocNext, Go, Pc, P, V, HeapInv, HeapTypes
<1>2. HeapTypes'
  <2>1. word0[ptr[Self]] \in Cells \cup {Null, Data}
    BY <1>1, PoppedIsFree DEF Popping, P
  <2>2. QED
    BY <2>1 DEF AllocNext, Go, HeapInv, HeapTypes, heapVars, Places
<1>3. Bounded' /\ Apart' /\ Counted' /\ Linked'
  <2>1. ~Busy /\ ~Busy'
    BY <1>1 DEF Busy, Making, Leaving, Pushing
  <2>2. QED
    BY <1>1, <2>1, Quiet, Scalars DEF HeapInv, heapVars
<1>4. AllocHere' /\ ReleaseHere'
  <2>1. N' = N /\ P' = P
    BY <1>1 DEF N, P
  <2>2. QED
    BY <1>1, <2>1 DEF HeapInv, AllocHere, ReleaseHere, InAlloc, Looking, Popping, Taking, Making,
       Leaving, Pushing, heapVars
<1>5. QED
  BY <1>2, <1>3, <1>4 DEF HeapInv

LEMMA AllocBumpKeeps ==
  ASSUME Alone, HeapInv, AllocBump(Self) PROVE HeapInv'
<1>1. /\ Pc = "a_bump" /\ Pc' = "a_advance" /\ P' = bump
      /\ UNCHANGED <<heapVars, val, req, site, bytes, held>>
  BY OneSelf DEF AllocBump, Go, Pc, P, HeapInv, HeapTypes
<1>2. bump \in Cells
  <2>1. bump > 0 /\ N \in Sizes /\ (IF bump = 0 THEN First ELSE bump) + N - 1 <= HeapEnd
    BY <1>1 DEF HeapInv, AllocHere, InAlloc, Looking
  <2>2. bump \in Nat
    BY Scalars, CellTypes DEF HeapInv
  <2>3. QED
    BY <2>1, <2>2, HeapEndAssumption DEF Cells, First, Sizes
<1>3. HeapTypes'
  BY <1>2 DEF AllocBump, Go, HeapInv, HeapTypes, heapVars, Places
<1>4. Bounded' /\ Apart' /\ Counted' /\ Linked'
  <2>1. ~Busy /\ ~Busy'
    BY <1>1 DEF Busy, Making, Leaving, Pushing
  <2>2. QED
    BY <1>1, <2>1, Quiet, Scalars DEF HeapInv, heapVars
<1>5. AllocHere' /\ ReleaseHere'
  <2>1. N' = N /\ V' = V
    BY <1>1 DEF N, V
  <2>2. QED
    BY <1>1, <2>1 DEF HeapInv, AllocHere, ReleaseHere, InAlloc, Looking, Popping, Taking, Making,
       Leaving, Pushing, heapVars
<1>6. QED
  BY <1>3, <1>4, <1>5 DEF HeapInv

LEMMA ReleaseHeadKeeps ==
  ASSUME Alone, HeapInv, ReleaseHead(Self) PROVE HeapInv'
<1>1. /\ Pc = "r_head" /\ Pc' = "r_link" /\ V' = head
      /\ UNCHANGED <<heapVars, ptr, req, site, bytes, held>>
  BY OneSelf DEF ReleaseHead, Go, Pc, V, HeapInv, HeapTypes
<1>2. P' = P /\ N' = N /\ Mine(P)' = Mine(P)
  BY <1>1 DEF P, N, Mine
<1>3. HeapTypes'
  BY DEF ReleaseHead, Go, HeapInv, HeapTypes, heapVars, Places
<1>4. Bounded' /\ Apart' /\ Counted' /\ Linked'
  <2>1. Busy /\ Busy' /\ Mine(P) = 0
    BY <1>1 DEF Busy, Making, Leaving, Pushing, HeapInv, ReleaseHere
  <2>2. QED
    BY <1>1, <1>2, <2>1, Quiet, Scalars DEF HeapInv, heapVars
<1>5. AllocHere' /\ ReleaseHere'
  BY <1>1, <1>2 DEF HeapInv, AllocHere, ReleaseHere, InAlloc, Looking, Popping, Taking, Making,
     Leaving, Pushing, heapVars
<1>6. QED
  BY <1>3, <1>4, <1>5 DEF HeapInv
(* The block the thread carries is one nobody refers to, but at the test of*)
(* the count.                                                              *)
LEMMA CarriedUnused ==
  ASSUME Alone, HeapInv, Making \/ Pushing PROVE P \in Cells /\ Mine(P) = 0
<1>1. P \in Cells
  BY DEF HeapInv, AllocHere, ReleaseHere, Leaving
<1>2. Carried(P) /\ Pc # "r_load"
  BY DEF Carried, Busy, Making, Leaving, Pushing
<1>3. ~(Mine(P) > 0)
  BY <1>1, <1>2 DEF HeapInv, Counted
<1>4. QED
  BY <1>1, <1>3, Scalars DEF HeapInv

LEMMA AllocCountKeeps ==
  ASSUME Alone, HeapInv, AllocCount(Self) PROVE HeapInv'
<1>1. /\ Pc = "a_count" /\ Pc' = "a_zero"
      /\ word0' = word0
      /\ word8' = [word8 EXCEPT ![P] = 1]
      /\ UNCHANGED <<head, bump, ptr, val, req, site, bytes, held>>
  BY OneSelf DEF AllocCount, Go, Pc, P, HeapInv, HeapTypes
<1>2. P' = P /\ N' = N /\ V' = V /\ Mine(P)' = Mine(P)
  BY <1>1 DEF P, N, V, Mine
<1>3. Busy /\ Busy' /\ P \in Cells /\ Mine(P) = 0
  BY <1>1, CarriedUnused DEF Busy, Making, Leaving, Pushing
<1>4. HeapTypes'
  <2>1. pc' \in [Threads -> Places]
    BY DEF AllocCount, Go, HeapInv, HeapTypes, Places
  <2>2. word0' \in [Cells -> Cells \cup {Null, Data}]
    BY <1>1, <1>3, Scalars DEF HeapInv, HeapTypes, Null
  <2>3. word8' \in [Cells -> Nat]
    BY <1>1, <1>3, Scalars DEF HeapInv, HeapTypes
  <2>4. QED
    BY <1>1, <2>1, <2>2, <2>3 DEF HeapInv, HeapTypes
<1>5. word0'[P] = word0[P] /\ word8'[P] = 1
  BY <1>1, <1>3 DEF HeapInv, HeapTypes
<1>6. Bounded' /\ Apart' /\ Counted' /\ Linked'
  <2>1. ASSUME NEW a \in Cells, ~Carried(a) \/ Mine(a) > 0
        PROVE  word0'[a] = word0[a] /\ word8'[a] = word8[a]
    <3>1. a # P
      BY <1>3, <2>1 DEF Carried
    <3>2. QED
      BY <1>1, <3>1 DEF HeapInv, HeapTypes
  <2>2. bump' \in Nat /\ bump' >= bump
    BY <1>1, Scalars, CellTypes DEF HeapInv
  <2>3. QED
    BY <1>1, <1>2, <1>3, <2>1, <2>2, Quiet DEF HeapInv
<1>7. AllocHere' /\ ReleaseHere'
  BY <1>1, <1>2, <1>3, <1>5 DEF HeapInv, AllocHere, ReleaseHere, InAlloc, Looking, Popping, Taking,
     Making, Leaving, Pushing
<1>8. QED
  BY <1>4, <1>6, <1>7 DEF HeapInv

LEMMA AllocZeroKeeps ==
  ASSUME Alone, HeapInv, AllocZero(Self) PROVE HeapInv'
<1>1. /\ Pc = "a_zero" /\ Pc' = "a_return"
      /\ word0' = [word0 EXCEPT ![P] = 0]
      /\ word8' = [word8 EXCEPT ![P] = 0]
      /\ UNCHANGED <<head, bump, ptr, val, req, site, bytes, held>>
  BY OneSelf DEF AllocZero, Go, Pc, P, HeapInv, HeapTypes
<1>2. P' = P /\ N' = N /\ V' = V /\ Mine(P)' = Mine(P)
  BY <1>1 DEF P, N, V, Mine
<1>3. Busy /\ Busy' /\ P \in Cells /\ Mine(P) = 0
  BY <1>1, CarriedUnused DEF Busy, Making, Leaving, Pushing
<1>4. HeapTypes'
  <2>1. pc' \in [Threads -> Places]
    BY DEF AllocZero, Go, HeapInv, HeapTypes, Places
  <2>2. word0' \in [Cells -> Cells \cup {Null, Data}]
    BY <1>1, <1>3, Scalars DEF HeapInv, HeapTypes, Null
  <2>3. word8' \in [Cells -> Nat]
    BY <1>1, <1>3, Scalars DEF HeapInv, HeapTypes
  <2>4. QED
    BY <1>1, <2>1, <2>2, <2>3 DEF HeapInv, HeapTypes
<1>5. word0'[P] = 0 /\ word8'[P] = 0
  BY <1>1, <1>3 DEF HeapInv, HeapTypes
<1>6. Bounded' /\ Apart' /\ Counted' /\ Linked'
  <2>1. ASSUME NEW a \in Cells, ~Carried(a) \/ Mine(a) > 0
        PROVE  word0'[a] = word0[a] /\ word8'[a] = word8[a]
    <3>1. a # P
      BY <1>3, <2>1 DEF Carried
    <3>2. QED
      BY <1>1, <3>1 DEF HeapInv, HeapTypes
  <2>2. bump' \in Nat /\ bump' >= bump
    BY <1>1, Scalars, CellTypes DEF HeapInv
  <2>3. QED
    BY <1>1, <1>2, <1>3, <2>1, <2>2, Quiet DEF HeapInv
<1>7. AllocHere' /\ ReleaseHere'
  BY <1>1, <1>2, <1>3, <1>5 DEF HeapInv, AllocHere, ReleaseHere, InAlloc, Looking, Popping, Taking,
     Making, Leaving, Pushing
<1>8. QED
  BY <1>4, <1>6, <1>7 DEF HeapInv

LEMMA AllocFirstKeeps ==
  ASSUME Alone, HeapInv, AllocFirst(Self) PROVE HeapInv'
<1>1. /\ Pc = "a_first" /\ Pc' = "a_return"
      /\ word0' = word0
      /\ word8' = [word8 EXCEPT ![P] = 1]
      /\ UNCHANGED <<head, bump, ptr, val, req, site, bytes, held>>
  BY OneSelf DEF AllocFirst, Go, Pc, P, HeapInv, HeapTypes
<1>2. P' = P /\ N' = N /\ V' = V /\ Mine(P)' = Mine(P)
  BY <1>1 DEF P, N, V, Mine
<1>3. Busy /\ Busy' /\ P \in Cells /\ Mine(P) = 0
  BY <1>1, CarriedUnused DEF Busy, Making, Leaving, Pushing
<1>4. HeapTypes'
  <2>1. pc' \in [Threads -> Places]
    BY DEF AllocFirst, Go, HeapInv, HeapTypes, Places
  <2>2. word0' \in [Cells -> Cells \cup {Null, Data}]
    BY <1>1, <1>3, Scalars DEF HeapInv, HeapTypes, Null
  <2>3. word8' \in [Cells -> Nat]
    BY <1>1, <1>3, Scalars DEF HeapInv, HeapTypes
  <2>4. QED
    BY <1>1, <2>1, <2>2, <2>3 DEF HeapInv, HeapTypes
<1>5. word0'[P] = word0[P] /\ word8'[P] = 1
  BY <1>1, <1>3 DEF HeapInv, HeapTypes
<1>6. Bounded' /\ Apart' /\ Counted' /\ Linked'
  <2>1. ASSUME NEW a \in Cells, ~Carried(a) \/ Mine(a) > 0
        PROVE  word0'[a] = word0[a] /\ word8'[a] = word8[a]
    <3>1. a # P
      BY <1>3, <2>1 DEF Carried
    <3>2. QED
      BY <1>1, <3>1 DEF HeapInv, HeapTypes
  <2>2. bump' \in Nat /\ bump' >= bump
    BY <1>1, Scalars, CellTypes DEF HeapInv
  <2>3. QED
    BY <1>1, <1>2, <1>3, <2>1, <2>2, Quiet DEF HeapInv
<1>7. AllocHere' /\ ReleaseHere'
  BY <1>1, <1>2, <1>3, <1>5 DEF HeapInv, AllocHere, ReleaseHere, InAlloc, Looking, Popping, Taking,
     Making, Leaving, Pushing
<1>8. QED
  BY <1>4, <1>6, <1>7 DEF HeapInv

LEMMA ReleaseLinkKeeps ==
  ASSUME Alone, HeapInv, ReleaseLink(Self) PROVE HeapInv'
<1>1. /\ Pc = "r_link" /\ Pc' = "r_cap"
      /\ word0' = [word0 EXCEPT ![P] = V]
      /\ word8' = word8
      /\ UNCHANGED <<head, bump, ptr, val, req, site, bytes, held>>
  BY OneSelf DEF ReleaseLink, Go, Pc, P, V, HeapInv, HeapTypes
<1>2. P' = P /\ N' = N /\ V' = V /\ Mine(P)' = Mine(P)
  BY <1>1 DEF P, N, V, Mine
<1>3. Busy /\ Busy' /\ P \in Cells /\ Mine(P) = 0
  BY <1>1, CarriedUnused DEF Busy, Making, Leaving, Pushing
<1>4. HeapTypes'
  <2>1. pc' \in [Threads -> Places]
    BY DEF ReleaseLink, Go, HeapInv, HeapTypes, Places
  <2>2. word0' \in [Cells -> Cells \cup {Null, Data}]
    BY <1>1, <1>3, Scalars DEF HeapInv, HeapTypes, Null
  <2>3. word8' \in [Cells -> Nat]
    BY <1>1, <1>3, Scalars DEF HeapInv, HeapTypes
  <2>4. QED
    BY <1>1, <2>1, <2>2, <2>3 DEF HeapInv, HeapTypes
<1>5. word0'[P] = V /\ word8'[P] = word8[P]
  BY <1>1, <1>3 DEF HeapInv, HeapTypes
<1>6. Bounded' /\ Apart' /\ Counted' /\ Linked'
  <2>1. ASSUME NEW a \in Cells, ~Carried(a) \/ Mine(a) > 0
        PROVE  word0'[a] = word0[a] /\ word8'[a] = word8[a]
    <3>1. a # P
      BY <1>3, <2>1 DEF Carried
    <3>2. QED
      BY <1>1, <3>1 DEF HeapInv, HeapTypes
  <2>2. bump' \in Nat /\ bump' >= bump
    BY <1>1, Scalars, CellTypes DEF HeapInv
  <2>3. QED
    BY <1>1, <1>2, <1>3, <2>1, <2>2, Quiet DEF HeapInv
<1>7. AllocHere' /\ ReleaseHere'
  BY <1>1, <1>2, <1>3, <1>5 DEF HeapInv, AllocHere, ReleaseHere, InAlloc, Looking, Popping, Taking,
     Making, Leaving, Pushing
<1>8. QED
  BY <1>4, <1>6, <1>7 DEF HeapInv

LEMMA ReleaseCapKeeps ==
  ASSUME Alone, HeapInv, ReleaseCap(Self) PROVE HeapInv'
<1>1. /\ Pc = "r_cap" /\ Pc' = "r_push"
      /\ word0' = word0
      /\ word8' = [word8 EXCEPT ![P] = N]
      /\ UNCHANGED <<head, bump, ptr, val, req, site, bytes, held>>
  BY OneSelf DEF ReleaseCap, Go, Pc, P, N, HeapInv, HeapTypes
<1>2. P' = P /\ N' = N /\ V' = V /\ Mine(P)' = Mine(P)
  BY <1>1 DEF P, N, V, Mine
<1>3. Busy /\ Busy' /\ P \in Cells /\ Mine(P) = 0
  BY <1>1, CarriedUnused DEF Busy, Making, Leaving, Pushing
<1>4. HeapTypes'
  <2>1. pc' \in [Threads -> Places]
    BY DEF ReleaseCap, Go, HeapInv, HeapTypes, Places
  <2>2. word0' \in [Cells -> Cells \cup {Null, Data}]
    BY <1>1, <1>3, Scalars DEF HeapInv, HeapTypes, Null
  <2>3. word8' \in [Cells -> Nat]
    BY <1>1, <1>3, Scalars DEF HeapInv, HeapTypes
  <2>4. QED
    BY <1>1, <2>1, <2>2, <2>3 DEF HeapInv, HeapTypes
<1>5. word0'[P] = word0[P] /\ word8'[P] = N
  BY <1>1, <1>3 DEF HeapInv, HeapTypes
<1>6. Bounded' /\ Apart' /\ Counted' /\ Linked'
  <2>1. ASSUME NEW a \in Cells, ~Carried(a) \/ Mine(a) > 0
        PROVE  word0'[a] = word0[a] /\ word8'[a] = word8[a]
    <3>1. a # P
      BY <1>3, <2>1 DEF Carried
    <3>2. QED
      BY <1>1, <3>1 DEF HeapInv, HeapTypes
  <2>2. bump' \in Nat /\ bump' >= bump
    BY <1>1, Scalars, CellTypes DEF HeapInv
  <2>3. QED
    BY <1>1, <1>2, <1>3, <2>1, <2>2, Quiet DEF HeapInv
<1>7. AllocHere' /\ ReleaseHere'
  BY <1>1, <1>2, <1>3, <1>5 DEF HeapInv, AllocHere, ReleaseHere, InAlloc, Looking, Popping, Taking,
     Making, Leaving, Pushing
<1>8. QED
  BY <1>4, <1>6, <1>7 DEF HeapInv

LEMMA ReleaseLoadKeeps ==
  ASSUME Alone, HeapInv, ReleaseLoad(Self) PROVE HeapInv'
<1>1. /\ Pc = "r_load" /\ Pc' = IF word8[P] = 0 THEN "r_head" ELSE "client"
      /\ UNCHANGED <<heapVars, ptr, val, req, site, bytes, held>>
  BY OneSelf DEF ReleaseLoad, Dead, Go, Pc, P, HeapInv, HeapTypes
<1>2. /\ P' = P /\ N' = N /\ V' = V /\ \A a \in Cells : Mine(a)' = Mine(a)
      /\ P \in Cells /\ N = bytes[P] /\ word8[P] = Mine(P) /\ Mine(P) \in Nat
      /\ Mine(P)' = Mine(P)
  BY <1>1, Scalars DEF P, N, V, Mine, HeapInv, ReleaseHere, Leaving
<1>3. HeapTypes'
  BY DEF ReleaseLoad, Go, HeapInv, HeapTypes, heapVars, Places
<1>4. Bounded' /\ Apart' /\ Counted' /\ Linked'
  <2>1. Busy
    BY <1>1 DEF Busy, Leaving
  <2>2. CASE word8[P] = 0
    <3>1. Busy' /\ Mine(P) = 0
      BY <1>1, <1>2, <2>2 DEF Busy, Leaving, Pushing
    <3>2. QED
      BY <1>1, <1>2, <2>1, <3>1, Quiet, Scalars DEF HeapInv, heapVars
  <2>3. CASE word8[P] # 0
    <3>1. ~Busy' /\ Mine(P) > 0
      BY <1>1, <1>2, <2>3 DEF Busy, Making, Leaving, Pushing
    <3>2. \A a \in Cells : ~Carried(a)' /\ (Free(a)' <=> Free(a)) /\ (IsBlock(a)' => IsBlock(a))
      BY <1>1, <1>2, <3>1 DEF Carried, Free, IsBlock
    <3>3. \A a \in Cells : Extent(a)' = Extent(a)
      BY <1>1, <1>2, <3>1, <3>2 DEF Extent, heapVars, Carried
    <3>4. Bounded' /\ Apart'
      <4>1. \A a \in Cells : IsBlock(a)' =>
              IsBlock(a) /\ Extent(a)' \in 1 .. 2 /\ Extent(a)' <= Extent(a)
        BY <3>2, <3>3 DEF HeapInv, Bounded
      <4>2. bump' = bump /\ bump \in Nat
        BY <1>1, Scalars, CellTypes DEF HeapInv, heapVars
      <4>3. QED
        BY <4>1, <4>2, BlocksStay DEF HeapInv
    <3>5. Counted'
      BY <1>1, <1>2, <3>2 DEF HeapInv, Counted, heapVars
    <3>6. Linked'
      BY <1>1, <3>2, ListStays, Scalars DEF HeapInv, heapVars
    <3>7. QED
      BY <3>4, <3>5, <3>6
  <2>4. QED
    BY <2>2, <2>3
<1>5. AllocHere' /\ ReleaseHere'
  BY <1>1, <1>2 DEF HeapInv, AllocHere, ReleaseHere, InAlloc, Looking, Popping, Taking, Making,
     Leaving, Pushing, heapVars
<1>6. QED
  BY <1>3, <1>4, <1>5 DEF HeapInv
LEMMA AllocUnlinkKeeps ==
  ASSUME Alone, HeapInv, AllocUnlink(Self) PROVE HeapInv'
<1>1. /\ Pc = "a_unlink" /\ Pc' = "a_count" /\ head' = V
      /\ UNCHANGED <<bump, word0, word8, ptr, val, req, site, bytes, held>>
  BY OneSelf DEF AllocUnlink, Go, Pc, V, HeapInv, HeapTypes
<1>2. /\ P' = P /\ N' = N /\ V' = V /\ V = word0[P] /\ N \in Sizes /\ word8[P] >= N
      /\ site[Self] = "String"
  BY <1>1 DEF P, N, V, HeapInv, AllocHere, InAlloc, Popping, Taking
<1>3. /\ P \in Cells /\ P = head /\ Free(P)
      /\ V # Null => V \in Cells /\ Free(V) /\ V # P
  BY <1>1, <1>2, PoppedIsFree DEF Popping
<1>4. HeapTypes'
  <2>1. head' \in Cells \cup {Null}
    BY <1>1, <1>3
  <2>2. QED
    BY <1>1, <2>1 DEF AllocUnlink, Go, HeapInv, HeapTypes, Places
<1>5. ~Busy /\ Busy'
  BY <1>1 DEF Busy, Making, Leaving, Pushing
<1>6. \A a \in Cells : /\ Mine(a)' = Mine(a) /\ bytes'[a] = bytes[a]
                       /\ ~Carried(a) /\ (Carried(a)' <=> a = P)
  BY <1>1, <1>2, <1>5 DEF Mine, Carried
<1>7. \A a \in Cells : Free(a)' <=> Free(a) /\ a # P
  BY <1>6 DEF Free
<1>8. Bounded' /\ Apart'
  <2>1. SUFFICES ASSUME NEW a \in Cells, IsBlock(a)'
        PROVE  IsBlock(a) /\ Extent(a)' \in 1 .. 2 /\ Extent(a)' <= Extent(a)
    <3>1. bump' = bump /\ bump \in Nat
      BY <1>1, Scalars, CellTypes DEF HeapInv
    <3>2. QED
      BY <2>1, <3>1, BlocksStay DEF HeapInv
  <2>2. CASE a = P
    <3>1. IsBlock(a) /\ Extent(a) = word8[P]
      BY <1>3, <1>6, <2>2 DEF IsBlock, Free, Extent
    <3>2. Extent(a)' = N
      BY <1>2, <1>6, <2>2 DEF Extent
    <3>3. word8[P] \in Nat
      BY <1>3, Scalars DEF HeapInv
    <3>4. QED
      BY <1>2, <3>1, <3>2, <3>3 DEF Sizes
  <2>3. CASE a # P
    <3>1. IsBlock(a) /\ Extent(a)' = Extent(a)
      BY <1>1, <1>6, <2>1, <2>3 DEF IsBlock, Extent
    <3>2. Extent(a) \in 1 .. 2
      BY <3>1 DEF HeapInv, Bounded
    <3>3. QED
      BY <3>1, <3>2
  <2>4. QED
    BY <2>2, <2>3
<1>9. Counted'
  <2>1. SUFFICES ASSUME NEW a \in Cells, Mine(a) > 0
        PROVE  bytes'[a] > 0 /\ word8'[a] = Mine(a)' /\ (Carried(a)' => Pc' = "r_load")
    BY <1>6 DEF Counted
  <2>2. a # P
    BY <1>3, <2>1 DEF Free
  <2>3. QED
    BY <1>1, <1>6, <2>1, <2>2 DEF HeapInv, Counted
<1>10. Linked'
  <2>1. V # Null => V \in Cells /\ Free(V) /\ V # P
    BY <1>3
  <2>2. (head # Null => Free(head))'
    <3> DEFINE h == V
    <3>1. CASE h = Null
      BY <1>1, <3>1
    <3>2. CASE h # Null
      <4>1. h \in Cells /\ bytes'[h] > 0 /\ Mine(h) = 0 /\ h # P
        BY <2>1, <3>2, <1>6 DEF Free
      <4>2. head' = h
        BY <1>1
      <4> HIDE DEF h
      <4>3. held'[Self][h] = 0
        BY <1>1, <4>1 DEF Mine
      <4>4. QED
        BY <1>2, <4>1, <4>2, <4>3 DEF Free, Mine, Carried
    <3>3. QED
      BY <3>1, <3>2
  <2>3. ASSUME NEW a \in Cells, Free(a)', word0'[a] # Null
        PROVE  word0'[a] \in Cells /\ Free(word0[a])' /\ word0'[a] # head'
    <3>1. Free(a) /\ a # P /\ word0'[a] = word0[a]
      BY <1>1, <1>7, <2>3
    <3>2. word0[a] \in Cells /\ Free(word0[a]) /\ word0[a] # P
      BY <1>3, <2>3, <3>1 DEF HeapInv, Linked
    <3>3. word0[a] # word0[P]
      BY <1>3, <2>3, <3>1 DEF HeapInv, Linked
    <3> DEFINE h == word0[a]
    <3>4. Free(h)'
      <4>1. h \in Cells /\ bytes'[h] > 0 /\ Mine(h) = 0 /\ h # P /\ h' = h
        BY <1>1, <3>2, <1>6 DEF Free
      <4> HIDE DEF h
      <4>2. held'[Self][h] = 0
        BY <1>1, <4>1 DEF Mine
      <4>3. QED
        BY <1>2, <4>1, <4>2 DEF Free, Mine, Carried
    <3>5. QED
      BY <1>1, <1>2, <3>1, <3>2, <3>3, <3>4
  <2>4. ASSUME NEW a \in Cells, NEW b \in Cells, Free(a)', Free(b)', word0'[a] = word0'[b],
               word0'[a] # Null
        PROVE  a = b
    <3>1. Free(a) /\ Free(b) /\ word0[a] = word0[b] /\ word0[a] # Null
      BY <1>1, <1>7, <2>4
    <3>2. QED
      BY <3>1 DEF HeapInv, Linked
  <2>5. QED
    BY <2>2, <2>3, <2>4 DEF Linked
<1>11. AllocHere' /\ ReleaseHere'
  BY <1>1, <1>2, <1>3 DEF AllocHere, ReleaseHere, InAlloc, Looking, Popping, Taking, Making,
     Leaving, Pushing
<1>12. QED
  BY <1>4, <1>8, <1>9, <1>10, <1>11 DEF HeapInv

LEMMA AllocAdvanceKeeps ==
  ASSUME Alone, HeapInv, AllocAdvance(Self) PROVE HeapInv'
<1>1. /\ Pc = "a_advance" /\ Pc' = "a_first" /\ bump' = P + N
      /\ UNCHANGED <<head, word0, word8, ptr, val, req, site, bytes, held>>
  BY OneSelf DEF AllocAdvance, Go, Pc, P, N, HeapInv, HeapTypes
<1>2. /\ P' = P /\ N' = N /\ V' = V /\ P = bump /\ N \in Sizes /\ bump > 0
      /\ bump + N - 1 <= HeapEnd /\ site[Self] = "String"
  BY <1>1 DEF P, N, V, HeapInv, AllocHere, InAlloc, Looking
<1>3. P \in Cells /\ bump \in Nat /\ bump' \in 0 .. HeapEnd + 1 /\ N \in 1 .. 2
  <2>1. bump \in Nat /\ N \in 1 .. 2
    BY <1>2, Scalars, CellTypes DEF HeapInv, Sizes
  <2>2. QED
    BY <1>1, <1>2, <2>1, HeapEndAssumption DEF Cells, First
<1>4. HeapTypes'
  BY <1>1, <1>3 DEF AllocAdvance, Go, HeapInv, HeapTypes, Places
<1>5. ~Busy /\ Busy'
  BY <1>1 DEF Busy, Making, Leaving, Pushing
<1>6. \A a \in Cells : /\ Mine(a)' = Mine(a) /\ bytes'[a] = bytes[a]
                       /\ ~Carried(a) /\ (Carried(a)' <=> a = P)
  BY <1>1, <1>2, <1>5 DEF Mine, Carried
<1>7. ASSUME NEW a \in Cells, IsBlock(a)
      PROVE  a < P /\ a + Extent(a) <= P /\ Extent(a) \in 1 .. 2
  <2>1. Extent(a) \in 1 .. 2 /\ a + Extent(a) <= P
    BY <1>2, <1>7 DEF HeapInv, Bounded
  <2>2. QED
    BY <1>3, <2>1, CellTypes
<1>8. ~IsBlock(P) /\ bytes[P] = 0 /\ Mine(P) = 0
  <2>1. ~IsBlock(P)
    <3>1. ~(P < P)
      BY <1>3, CellTypes
    <3>2. QED
      BY <1>3, <1>7, <3>1
  <2>2. bytes[P] = 0
    BY <1>3, <2>1, Scalars DEF IsBlock, HeapInv
  <2>3. Mine(P) = 0
    BY <1>3, <2>2, Scalars DEF HeapInv, Counted
  <2>4. QED
    BY <2>1, <2>2, <2>3
<1>9. \A a \in Cells : Free(a)' <=> Free(a)
  <2>1. SUFFICES ASSUME NEW a \in Cells PROVE Free(a)' <=> Free(a)
    OBVIOUS
  <2>2. CASE a = P
    BY <1>6, <1>8, <2>2 DEF Free
  <2>3. CASE a # P
    BY <1>6, <2>3 DEF Free
  <2>4. QED
    BY <2>2, <2>3
<1>10. \A a \in Cells : IsBlock(a)' =>
         \/ a = P /\ Extent(a)' = N
         \/ a # P /\ IsBlock(a) /\ Extent(a)' = Extent(a)
  BY <1>1, <1>2, <1>6 DEF IsBlock, Extent
<1>11. ASSUME NEW a \in Cells, IsBlock(a)'
       PROVE  Extent(a)' \in 1 .. 2 /\ a + Extent(a)' <= bump'
  <2> DEFINE e == Extent(a)'
  <2>1. CASE a = P /\ e = N
    BY <1>1, <1>3, <2>1
  <2>2. CASE a # P /\ IsBlock(a) /\ e = Extent(a)
    <3>1. e \in 1 .. 2 /\ a + e <= P
      BY <1>7, <2>2
    <3>2. e \in 1 .. 2 /\ a + e <= bump'
      <4> HIDE DEF e
      <4>1. QED
        BY <1>1, <1>3, <3>1, CellTypes
    <3>3. QED
      BY <3>2
  <2>3. QED
    BY <1>10, <1>11, <2>1, <2>2
<1>12. ASSUME NEW a \in Cells, NEW b \in Cells, IsBlock(a)', IsBlock(b)', a < b
       PROVE  a + Extent(a)' <= b
  <2> DEFINE e == Extent(a)'
  <2>1. CASE a = P
    <3>1. b # P
      BY <1>12, <2>1, CellTypes
    <3>2. b < P
      BY <1>7, <1>10, <1>12, <3>1
    <3>3. QED
      BY <1>12, <2>1, <3>2, CellTypes
  <2>2. CASE a # P
    <3>1. IsBlock(a) /\ e = Extent(a)
      BY <1>10, <1>12, <2>2
    <3>2. CASE b = P
      BY <1>7, <3>1, <3>2
    <3>3. CASE b # P
      <4>1. IsBlock(b)
        BY <1>10, <1>12, <3>3
      <4>2. QED
        BY <1>12, <3>1, <4>1 DEF HeapInv, Apart
    <3>4. QED
      BY <3>2, <3>3
  <2>3. QED
    BY <2>1, <2>2
<1>13. Counted'
  <2>1. SUFFICES ASSUME NEW a \in Cells, Mine(a) > 0
        PROVE  bytes'[a] > 0 /\ word8'[a] = Mine(a)' /\ (Carried(a)' => Pc' = "r_load")
    BY <1>6 DEF Counted
  <2>2. a # P
    BY <1>8, <2>1
  <2>3. QED
    BY <1>1, <1>6, <2>1, <2>2 DEF HeapInv, Counted
<1>14. Linked'
  BY <1>1, <1>9, ListStays, Scalars DEF HeapInv
<1>15. AllocHere' /\ ReleaseHere'
  BY <1>1, <1>2, <1>3 DEF AllocHere, ReleaseHere, InAlloc, Looking, Popping, Taking, Making,
     Leaving, Pushing
<1>16. Bounded' /\ Apart'
  BY <1>11, <1>12 DEF Bounded, Apart
<1>17. QED
  BY <1>4, <1>13, <1>14, <1>15, <1>16 DEF HeapInv
LEMMA ConstructKeeps ==
  ASSUME Alone, HeapInv, Construct(Self) PROVE HeapInv'
<1>1. /\ Pc = "a_return" /\ Pc' = "client"
      /\ word0' = [word0 EXCEPT ![P] = Data] /\ bytes' = [bytes EXCEPT ![P] = N]
      /\ UNCHANGED <<head, bump, ptr, val, req, site>>
  BY OneSelf DEF Construct, Go, Pc, P, N, HeapInv, HeapTypes
<1>2. /\ P' = P /\ N' = N /\ V' = V /\ P \in Cells /\ Mine(P) = 0 /\ N \in Sizes
      /\ site[Self] = "String"
  BY <1>1, CarriedUnused DEF P, N, V, Making, HeapInv, AllocHere, InAlloc
<1>3. word8' = [word8 EXCEPT ![P] = 1] /\ held' = [held EXCEPT ![Self][P] = 1]
  BY <1>2 DEF Construct, StringCount, P
<1>4. HeapTypes'
  <2>1. pc' \in [Threads -> Places]
    BY DEF Construct, Go, HeapInv, HeapTypes, Places
  <2>2. word0' \in [Cells -> Cells \cup {Null, Data}] /\ word8' \in [Cells -> Nat]
    BY <1>1, <1>2, <1>3 DEF HeapInv, HeapTypes
  <2>3. bytes' \in [Cells -> 0 .. 2]
    BY <1>1, <1>2 DEF HeapInv, HeapTypes, Sizes
  <2>4. held' \in [Threads -> [Cells -> Nat]]
    BY <1>2, <1>3, OneSelf DEF HeapInv, HeapTypes
  <2>5. QED
    BY <1>1, <2>1, <2>2, <2>3, <2>4 DEF HeapInv, HeapTypes
<1>5. Busy /\ ~Busy'
  BY <1>1 DEF Busy, Making, Leaving, Pushing
<1>6. Mine(P)' = 1 /\ bytes'[P] = N /\ word8'[P] = 1
  BY <1>1, <1>2, <1>3, OneSelf DEF HeapInv, HeapTypes, Mine
<1>7. \A a \in Cells : a # P =>
        /\ Mine(a)' = Mine(a) /\ bytes'[a] = bytes[a] /\ word8'[a] = word8[a]
        /\ word0'[a] = word0[a] /\ ~Carried(a)
  <2>1. SUFFICES ASSUME NEW a \in Cells, a # P
        PROVE  /\ Mine(a)' = Mine(a) /\ bytes'[a] = bytes[a] /\ word8'[a] = word8[a]
               /\ word0'[a] = word0[a] /\ ~Carried(a)
    OBVIOUS
  <2>2. Mine(a)' = Mine(a)
    BY <1>2, <1>3, <2>1, OneSelf DEF HeapInv, HeapTypes, Mine
  <2>3. QED
    BY <1>1, <1>3, <2>1, <2>2 DEF HeapInv, HeapTypes, Carried
<1>8. Carried(P) /\ \A a \in Cells : ~Carried(a)'
  BY <1>5 DEF Carried
<1>9. \A a \in Cells : Free(a)' <=> Free(a)
  <2>1. SUFFICES ASSUME NEW a \in Cells PROVE Free(a)' <=> Free(a)
    OBVIOUS
  <2>2. CASE a = P
    <3>1. ~Free(a)
      BY <1>8, <2>2 DEF Free
    <3>2. Mine(a)' # 0
      BY <1>2, <1>3, <2>2, OneSelf DEF HeapInv, HeapTypes, Mine
    <3>3. QED
      BY <3>1, <3>2 DEF Free
  <2>3. CASE a # P
    BY <1>7, <1>8, <2>3 DEF Free
  <2>4. QED
    BY <2>2, <2>3
<1>10. \A a \in Cells : IsBlock(a)' => IsBlock(a) /\ Extent(a)' = Extent(a)
  <2>1. SUFFICES ASSUME NEW a \in Cells, IsBlock(a)'
        PROVE  IsBlock(a) /\ Extent(a)' = Extent(a)
    OBVIOUS
  <2>2. CASE a = P
    <3>1. IsBlock(a) /\ Extent(a) = N
      BY <1>8, <2>2 DEF IsBlock, Extent
    <3>2. Mine(a)' > 0 /\ bytes'[a] = N
      <4>1. Mine(a)' = 1
        BY <1>2, <1>3, <2>2, OneSelf DEF HeapInv, HeapTypes, Mine
      <4>2. QED
        BY <1>6, <2>2, <4>1
    <3>3. QED
      BY <1>8, <3>1, <3>2 DEF Extent
  <2>3. CASE a # P
    BY <1>7, <1>8, <2>1, <2>3 DEF IsBlock, Extent
  <2>4. QED
    BY <2>2, <2>3
<1>11. Bounded' /\ Apart'
  <2>1. \A a \in Cells : IsBlock(a)' =>
          IsBlock(a) /\ Extent(a)' \in 1 .. 2 /\ Extent(a)' <= Extent(a)
    BY <1>10 DEF HeapInv, Bounded
  <2>2. bump' = bump /\ bump \in Nat
    BY <1>1, Scalars, CellTypes DEF HeapInv
  <2>3. QED
    BY <2>1, <2>2, BlocksStay DEF HeapInv
<1>12. Counted'
  <2>1. SUFFICES ASSUME NEW a \in Cells, Mine(a)' > 0
        PROVE  bytes'[a] > 0 /\ word8'[a] = Mine(a)'
    BY <1>8 DEF Counted
  <2>2. CASE a = P
    <3>1. Mine(a)' = 1
      BY <1>2, <1>3, <2>2, OneSelf DEF HeapInv, HeapTypes, Mine
    <3>2. QED
      BY <1>2, <1>6, <2>2, <3>1 DEF Sizes
  <2>3. CASE a # P
    BY <1>7, <2>1, <2>3 DEF HeapInv, Counted
  <2>4. QED
    BY <2>2, <2>3
<1>13. Linked'
  <2>1. \A a \in Cells : Free(a) => word0'[a] = word0[a]
    BY <1>7, <1>8 DEF Free
  <2>2. QED
    BY <1>1, <1>9, <2>1, ListStays, Scalars DEF HeapInv
<1>14. AllocHere' /\ ReleaseHere'
  BY <1>1 DEF AllocHere, ReleaseHere, InAlloc, Looking, Popping, Taking, Making, Leaving, Pushing
<1>15. QED
  BY <1>4, <1>11, <1>12, <1>13, <1>14 DEF HeapInv

LEMMA RetainKeeps ==
  ASSUME Alone, HeapInv, NEW c \in Cells, Retain(Self, Self, c) PROVE HeapInv'
<1>1. /\ Pc = "client" /\ Mine(c) > 0 /\ Mine(c) < MaxRefs
      /\ word8' = [word8 EXCEPT ![c] = word8[c] + 1]
      /\ held' = [held EXCEPT ![Self][c] = Mine(c) + 1]
      /\ UNCHANGED <<head, bump, word0, pc, ptr, val, req, site, bytes>>
  BY DEF Retain, threadVars, Pc, Mine
<1>2. /\ Pc' = Pc /\ ~Busy /\ ~Busy' /\ \A a \in Cells : ~Carried(a) /\ ~Carried(a)'
  BY <1>1 DEF Pc, Busy, Making, Leaving, Pushing, Carried
<1>3. Mine(c) \in Nat /\ bytes[c] > 0 /\ word8[c] = Mine(c)
  BY <1>1, Scalars DEF HeapInv, Counted
<1>4. HeapTypes'
  <2>1. word8' \in [Cells -> Nat]
    BY <1>1, <1>3 DEF HeapInv, HeapTypes
  <2>2. held' \in [Threads -> [Cells -> Nat]]
    BY <1>1, <1>3, OneSelf DEF HeapInv, HeapTypes
  <2>3. QED
    BY <1>1, <2>1, <2>2 DEF HeapInv, HeapTypes
<1>5. Mine(c)' = Mine(c) + 1 /\ word8'[c] = Mine(c) + 1
  BY <1>1, <1>3, OneSelf DEF HeapInv, HeapTypes, Mine
<1>6. \A a \in Cells : a # c => Mine(a)' = Mine(a) /\ word8'[a] = word8[a]
  BY <1>1, OneSelf DEF HeapInv, HeapTypes, Mine
<1>7. \A a \in Cells : (Mine(a)' > 0 <=> Mine(a) > 0) /\ (Mine(a)' = 0 <=> Mine(a) = 0)
  <2>1. SUFFICES ASSUME NEW a \in Cells
        PROVE  (Mine(a)' > 0 <=> Mine(a) > 0) /\ (Mine(a)' = 0 <=> Mine(a) = 0)
    OBVIOUS
  <2>2. CASE a = c
    <3>1. Mine(a)' = Mine(c) + 1
      BY <1>5, <2>2 DEF Mine
    <3>2. QED
      BY <1>1, <1>3, <2>2, <3>1
  <2>3. CASE a # c
    BY <1>6, <2>3
  <2>4. QED
    BY <2>2, <2>3
<1>8. \A a \in Cells : Free(a)' <=> Free(a)
  BY <1>1, <1>2, <1>7 DEF Free
<1>9. \A a \in Cells : IsBlock(a)' => IsBlock(a) /\ Extent(a)' = Extent(a)
  <2>1. SUFFICES ASSUME NEW a \in Cells, IsBlock(a)'
        PROVE  IsBlock(a) /\ Extent(a)' = Extent(a)
    OBVIOUS
  <2>2. IsBlock(a)
    BY <1>1, <1>2, <2>1 DEF IsBlock
  <2>3. ~Carried(a) /\ ~Carried(a)' /\ (Mine(a)' > 0 <=> Mine(a) > 0)
    BY <1>2, <1>7
  <2>4. CASE Mine(a) > 0
    <3>1. Extent(a) = bytes[a]
      BY <2>3, <2>4 DEF Extent
    <3>2. Extent(a)' = bytes'[a]
      BY <2>3, <2>4 DEF Extent
    <3>3. QED
      BY <1>1, <2>2, <3>1, <3>2
  <2>5. CASE ~(Mine(a) > 0)
    <3>1. Extent(a) = word8[a]
      BY <2>3, <2>5 DEF Extent
    <3>2. Extent(a)' = word8'[a]
      BY <2>3, <2>5 DEF Extent
    <3>3. word8'[a] = word8[a]
      BY <1>1, <1>6, <2>5
    <3>4. QED
      BY <2>2, <3>1, <3>2, <3>3
  <2>6. QED
    BY <2>4, <2>5
<1>10. Bounded' /\ Apart'
  <2>1. \A a \in Cells : IsBlock(a)' =>
          IsBlock(a) /\ Extent(a)' \in 1 .. 2 /\ Extent(a)' <= Extent(a)
    BY <1>9 DEF HeapInv, Bounded
  <2>2. bump' = bump /\ bump \in Nat
    BY <1>1, Scalars, CellTypes DEF HeapInv
  <2>3. QED
    BY <2>1, <2>2, BlocksStay DEF HeapInv
<1>11. Counted'
  <2>1. SUFFICES ASSUME NEW a \in Cells, Mine(a) > 0
        PROVE  bytes'[a] > 0 /\ word8'[a] = Mine(a)'
    BY <1>2, <1>7 DEF Counted
  <2>2. CASE a = c
    <3>1. Mine(a)' = Mine(c) + 1
      BY <1>5, <2>2 DEF Mine
    <3>2. QED
      BY <1>1, <1>3, <1>5, <2>2, <3>1
  <2>3. CASE a # c
    BY <1>1, <1>6, <2>1, <2>3 DEF HeapInv, Counted
  <2>4. QED
    BY <2>2, <2>3
<1>12. Linked'
  BY <1>1, <1>8, ListStays, Scalars DEF HeapInv
<1>13. AllocHere' /\ ReleaseHere'
  BY <1>1, <1>2 DEF AllocHere, ReleaseHere, InAlloc, Looking, Popping, Taking, Making, Leaving, Pushing
<1>14. QED
  BY <1>4, <1>10, <1>11, <1>12, <1>13 DEF HeapInv
LEMMA ReleaseKeeps ==
  ASSUME Alone, HeapInv, NEW c \in Cells, Release(Self, c) PROVE HeapInv'
<1>1. /\ Pc = "client" /\ Mine(c) > 0
      /\ word8' = [word8 EXCEPT ![c] = word8[c] - 1]
      /\ held' = [held EXCEPT ![Self][c] = Mine(c) - 1]
      /\ ptr' = [ptr EXCEPT ![Self] = c] /\ req' = [req EXCEPT ![Self] = bytes[c]]
      /\ pc' = [pc EXCEPT ![Self] = "r_load"]
      /\ UNCHANGED <<head, bump, word0, val, site, bytes>>
  BY DEF Release, Go, Pc, Mine
<1>2. Mine(c) \in Nat /\ bytes[c] > 0 /\ bytes[c] \in 0 .. 2 /\ word8[c] = Mine(c)
  BY <1>1, Scalars DEF HeapInv, Counted
<1>3. Pc' = "r_load" /\ P' = c /\ N' = bytes[c] /\ V' = V /\ Mine(c) - 1 \in Nat
  BY <1>1, <1>2, OneSelf DEF HeapInv, HeapTypes, Pc, P, N, V
<1>4. HeapTypes'
  <2>1. word8' \in [Cells -> Nat]
    BY <1>1, <1>2, <1>3 DEF HeapInv, HeapTypes
  <2>2. held' \in [Threads -> [Cells -> Nat]]
    BY <1>1, <1>3, OneSelf DEF HeapInv, HeapTypes
  <2>3. pc' \in [Threads -> Places]
    BY <1>1 DEF HeapInv, HeapTypes, Places
  <2>4. ptr' \in [Threads -> Cells \cup {Null}] /\ req' \in [Threads -> 0 .. 2]
    BY <1>1, <1>2 DEF HeapInv, HeapTypes
  <2>5. QED
    BY <1>1, <2>1, <2>2, <2>3, <2>4 DEF HeapInv, HeapTypes
<1>5. ~Busy /\ Busy'
  BY <1>1, <1>3 DEF Busy, Making, Leaving, Pushing
<1>6. \A a \in Cells : ~Carried(a) /\ (Carried(a)' <=> a = c)
  BY <1>3, <1>5 DEF Carried
<1>7. held'[Self][c] = Mine(c) - 1 /\ word8'[c] = Mine(c) - 1
  BY <1>1, <1>2, OneSelf DEF HeapInv, HeapTypes
<1>8. \A a \in Cells : a # c => Mine(a)' = Mine(a) /\ word8'[a] = word8[a]
  BY <1>1, OneSelf DEF HeapInv, HeapTypes, Mine
<1>9. \A a \in Cells : Free(a)' <=> Free(a)
  <2>1. SUFFICES ASSUME NEW a \in Cells PROVE Free(a)' <=> Free(a)
    OBVIOUS
  <2>2. CASE a = c
    <3>1. Mine(a) # 0
      BY <1>1, <1>2, <2>2
    <3>2. QED
      BY <1>6, <2>2, <3>1 DEF Free
  <2>3. CASE a # c
    BY <1>1, <1>6, <1>8, <2>3 DEF Free
  <2>4. QED
    BY <2>2, <2>3
<1>10. \A a \in Cells : IsBlock(a)' => IsBlock(a) /\ Extent(a)' = Extent(a)
  <2>1. SUFFICES ASSUME NEW a \in Cells, IsBlock(a)'
        PROVE  IsBlock(a) /\ Extent(a)' = Extent(a)
    OBVIOUS
  <2>2. CASE a = c
    <3>1. IsBlock(a) /\ Extent(a) = bytes[a]
      BY <1>1, <1>2, <1>6, <2>2 DEF IsBlock, Extent
    <3>2. Extent(a)' = bytes[c]
      BY <1>3, <1>6, <2>2 DEF Extent
    <3>3. QED
      BY <2>2, <3>1, <3>2
  <2>3. CASE a # c
    <3>1. Mine(a)' = Mine(a) /\ word8'[a] = word8[a] /\ ~Carried(a) /\ ~Carried(a)'
      BY <1>6, <1>8, <2>3
    <3>2. QED
      BY <1>1, <2>1, <3>1 DEF IsBlock, Extent
  <2>4. QED
    BY <2>2, <2>3
<1>11. Bounded' /\ Apart'
  <2>1. \A a \in Cells : IsBlock(a)' =>
          IsBlock(a) /\ Extent(a)' \in 1 .. 2 /\ Extent(a)' <= Extent(a)
    BY <1>10 DEF HeapInv, Bounded
  <2>2. bump' = bump /\ bump \in Nat
    BY <1>1, Scalars, CellTypes DEF HeapInv
  <2>3. QED
    BY <2>1, <2>2, BlocksStay DEF HeapInv
<1>12. Counted'
  <2>1. SUFFICES ASSUME NEW a \in Cells, Mine(a)' > 0
        PROVE  bytes'[a] > 0 /\ word8'[a] = Mine(a)' /\ (Carried(a)' => Pc' = "r_load")
    BY DEF Counted
  <2>2. CASE a = c
    <3>1. Mine(a)' = Mine(c) - 1
      BY <1>7, <2>2 DEF Mine
    <3>2. QED
      BY <1>1, <1>2, <1>3, <1>7, <2>2, <3>1
  <2>3. CASE a # c
    BY <1>1, <1>6, <1>8, <2>1, <2>3 DEF HeapInv, Counted
  <2>4. QED
    BY <2>2, <2>3
<1>13. Linked'
  BY <1>1, <1>9, ListStays, Scalars DEF HeapInv
<1>14. AllocHere'
  BY <1>3 DEF AllocHere, InAlloc, Looking, Popping, Taking, Making
<1>15. ReleaseHere'
  <2>1. P' \in Cells /\ bytes'[P'] > 0 /\ N' = bytes'[P']
    BY <1>1, <1>2, <1>3
  <2>2. word8'[P'] = Mine(P)'
    <3>1. Mine(P)' = Mine(c) - 1
      BY <1>3, <1>7 DEF Mine
    <3>2. QED
      BY <1>3, <1>7, <3>1
  <2>3. QED
    BY <1>3, <2>1, <2>2 DEF ReleaseHere, Leaving, Pushing
<1>16. QED
  BY <1>4, <1>11, <1>12, <1>13, <1>14, <1>15 DEF HeapInv

LEMMA ReleasePushKeeps ==
  ASSUME Alone, HeapInv, ReleasePush(Self) PROVE HeapInv'
<1>1. /\ Pc = "r_push" /\ Pc' = "client" /\ head' = P
      /\ UNCHANGED <<bump, word0, word8, ptr, val, req, site, bytes, held>>
  BY OneSelf DEF ReleasePush, Go, Pc, P, HeapInv, HeapTypes
<1>2. /\ P' = P /\ P \in Cells /\ Mine(P) = 0 /\ bytes[P] > 0
      /\ V = head /\ word0[P] = V /\ word8[P] = N
  BY <1>1 DEF P, HeapInv, ReleaseHere, Leaving, Pushing
<1>3. Busy /\ ~Busy'
  BY <1>1 DEF Busy, Making, Leaving, Pushing
<1>4. \A a \in Cells : /\ Mine(a)' = Mine(a) /\ bytes'[a] = bytes[a]
                       /\ (Carried(a) <=> a = P) /\ ~Carried(a)'
  BY <1>1, <1>3 DEF Mine, Carried
<1>5. \A a \in Cells : Free(a)' <=> Free(a) \/ a = P
  <2>1. SUFFICES ASSUME NEW a \in Cells PROVE Free(a)' <=> Free(a) \/ a = P
    OBVIOUS
  <2>2. CASE a = P
    <3>1. bytes'[a] > 0 /\ Mine(a)' = 0
      BY <1>2, <1>4, <2>2
    <3>2. QED
      BY <1>4, <2>2, <3>1 DEF Free
  <2>3. CASE a # P
    BY <1>4, <2>3 DEF Free
  <2>4. QED
    BY <2>2, <2>3
<1>6. HeapTypes'
  <2>1. pc' \in [Threads -> Places]
    BY DEF ReleasePush, Go, HeapInv, HeapTypes, Places
  <2>2. QED
    BY <1>1, <1>2, <2>1 DEF HeapInv, HeapTypes
<1>7. \A a \in Cells : IsBlock(a)' => IsBlock(a) /\ Extent(a)' = Extent(a)
  <2>1. SUFFICES ASSUME NEW a \in Cells, IsBlock(a)'
        PROVE  IsBlock(a) /\ Extent(a)' = Extent(a)
    OBVIOUS
  <2>2. CASE a = P
    <3>1. IsBlock(a) /\ Extent(a) = N
      BY <1>2, <1>4, <2>2 DEF IsBlock, Extent
    <3>2. Extent(a)' = word8'[a]
      <4>1. ~(Mine(a)' > 0) /\ ~Carried(a)'
        BY <1>2, <1>4, <2>2
      <4>2. QED
        BY <4>1 DEF Extent
    <3>3. QED
      BY <1>1, <1>2, <2>2, <3>1, <3>2
  <2>3. CASE a # P
    BY <1>1, <1>4, <2>1, <2>3 DEF IsBlock, Extent
  <2>4. QED
    BY <2>2, <2>3
<1>8. Bounded' /\ Apart'
  <2>1. \A a \in Cells : IsBlock(a)' =>
          IsBlock(a) /\ Extent(a)' \in 1 .. 2 /\ Extent(a)' <= Extent(a)
    BY <1>7 DEF HeapInv, Bounded
  <2>2. bump' = bump /\ bump \in Nat
    BY <1>1, Scalars, CellTypes DEF HeapInv
  <2>3. QED
    BY <2>1, <2>2, BlocksStay DEF HeapInv
<1>9. Counted'
  BY <1>1, <1>4 DEF HeapInv, Counted
<1>10. Linked'
  <2>1. (head # Null => Free(head))'
    <3> DEFINE h == P
    <3>1. bytes'[h] > 0 /\ held'[Self][h] = 0 /\ head' = h
      BY <1>1, <1>2 DEF Mine
    <3> HIDE DEF h
    <3>2. QED
      BY <1>3, <3>1 DEF Free, Mine, Carried
  <2>2. head # Null => head \in Cells /\ Free(head) /\ head # P
    <3>1. ~Free(P)
      BY <1>2, <1>4 DEF Free
    <3>2. QED
      BY <3>1, Scalars DEF HeapInv, Linked
  <2>3. ASSUME NEW a \in Cells, Free(a)', word0'[a] # Null
        PROVE  word0'[a] \in Cells /\ Free(word0[a])' /\ word0'[a] # head'
    <3> DEFINE h == word0[a]
    <3>1. h \in Cells /\ Free(h) /\ h # P
      <4>1. CASE a = P
        BY <1>1, <1>2, <2>2, <2>3, <4>1
      <4>2. CASE a # P
        <5>1. Free(a) /\ word0[a] # Null
          BY <1>1, <1>5, <2>3, <4>2
        <5>2. h \in Cells /\ Free(h)
          BY <5>1 DEF HeapInv, Linked
        <5>3. h # P
          BY <1>2, <1>4, <5>2 DEF Free
        <5>4. QED
          BY <5>2, <5>3
      <4>3. QED
        BY <4>1, <4>2
    <3>2. Free(h)'
      <4>1. h' = h /\ h \in Cells /\ bytes'[h] > 0 /\ Mine(h) = 0
        BY <1>1, <3>1 DEF Free
      <4> HIDE DEF h
      <4>2. held'[Self][h] = 0
        BY <1>1, <4>1 DEF Mine
      <4>3. QED
        BY <1>3, <4>1, <4>2 DEF Free, Mine, Carried
    <3>3. QED
      BY <1>1, <3>1, <3>2
  <2>4. ASSUME NEW a \in Cells, NEW b \in Cells, Free(a)', Free(b)', word0'[a] = word0'[b],
               word0'[a] # Null
        PROVE  a = b
    <3>1. word0[a] = word0[b] /\ word0[a] # Null
      BY <1>1, <2>4
    <3>2. ASSUME NEW c \in Cells, Free(c), word0[c] = word0[P], word0[c] # Null PROVE FALSE
      BY <1>2, <3>2 DEF HeapInv, Linked
    <3>3. CASE a # P /\ b # P
      <4>1. Free(a) /\ Free(b)
        BY <1>5, <2>4, <3>3
      <4>2. QED
        BY <3>1, <4>1 DEF HeapInv, Linked
    <3>4. CASE a = P /\ b # P
      BY <1>5, <2>4, <3>1, <3>2, <3>4
    <3>5. CASE a # P /\ b = P
      BY <1>5, <2>4, <3>1, <3>2, <3>5
    <3>6. QED
      BY <3>3, <3>4, <3>5
  <2>5. QED
    BY <2>1, <2>3, <2>4 DEF Linked
<1>11. AllocHere' /\ ReleaseHere'
  BY <1>1 DEF AllocHere, ReleaseHere, InAlloc, Looking, Popping, Taking, Making, Leaving, Pushing
<1>12. QED
  BY <1>6, <1>8, <1>9, <1>10, <1>11 DEF HeapInv
-----------------------------------------------------------------------------
(* The invariant, the freelist and the refinement.                         *)

LEMMA HeapStarts == ASSUME Alone, Init PROVE HeapInv
<1>1. /\ Pc = "client" /\ head = Null /\ bump = 0
      /\ \A a \in Cells : Mine(a) = 0 /\ bytes[a] = 0
  BY OneSelf DEF Init, Pc, Mine
<1>2. HeapTypes
  <2>1. bump \in 0 .. HeapEnd + 1
    BY HeapEndAssumption DEF Init
  <2>2. QED
    BY <2>1 DEF Init, HeapTypes, Places, Null
<1>3. ~Busy /\ \A a \in Cells : ~Carried(a) /\ ~Free(a) /\ ~IsBlock(a)
  BY <1>1 DEF Busy, Making, Leaving, Pushing, Carried, Free, IsBlock
<1>4. Bounded /\ Apart /\ Counted /\ Linked
  BY <1>1, <1>3 DEF Bounded, Apart, Counted, Linked
<1>5. AllocHere /\ ReleaseHere
  BY <1>1 DEF AllocHere, ReleaseHere, InAlloc, Looking, Popping, Taking, Making, Leaving, Pushing
<1>6. QED
  BY <1>2, <1>4, <1>5 DEF HeapInv

LEMMA HeapSteps == ASSUME Alone, HeapInv, Next PROVE HeapInv'
<1>1. ClientStep(Self) \/ AllocStep(Self) \/ ReleaseStep(Self)
  BY OneSelf DEF Next
<1>2. CASE ClientStep(Self)
  <2>1. CASE Alloc(Self)
    BY <2>1, AllocKeeps
  <2>2. ASSUME NEW a \in Cells, Release(Self, a) PROVE HeapInv'
    BY <2>2, ReleaseKeeps
  <2>3. ASSUME NEW a \in Cells, NEW u \in Threads, Retain(Self, u, a) PROVE HeapInv'
    <3>1. u = Self
      BY OneSelf
    <3>2. QED
      BY <2>3, <3>1, RetainKeeps
  <2>4. QED
    BY <1>2, <2>1, <2>2, <2>3 DEF ClientStep
<1>3. CASE AllocStep(Self)
  BY <1>3, AllocInitKeeps, AllocSeedKeeps, AllocHeadKeeps, AllocFitsKeeps, AllocNextKeeps,
     AllocUnlinkKeeps, AllocCountKeeps, AllocZeroKeeps, AllocBumpKeeps, AllocAdvanceKeeps,
     AllocFirstKeeps, ConstructKeeps DEF AllocStep
<1>4. CASE ReleaseStep(Self)
  BY <1>4, ReleaseLoadKeeps, ReleaseHeadKeeps, ReleaseLinkKeeps, ReleaseCapKeeps, ReleasePushKeeps
     DEF ReleaseStep
<1>5. QED
  BY <1>1, <1>2, <1>3, <1>4

LEMMA HeapStutters == ASSUME HeapInv, UNCHANGED vars PROVE HeapInv'
  BY DEF HeapInv, HeapTypes, Bounded, Apart, Counted, Linked, AllocHere, ReleaseHere, vars, heapVars,
     threadVars, Pc, P, V, N, Mine, Making, Pushing, Leaving, Busy, Carried, Free, IsBlock, Extent,
     Looking, Popping, Taking, InAlloc

(* The invariant behind the two theorems below.                            *)
THEOREM HeapInvariant == ASSUME Alone PROVE Spec => []HeapInv
<1>1. Init => HeapInv
  BY HeapStarts
<1>2. HeapInv /\ [Next]_vars => HeapInv'
  BY HeapSteps, HeapStutters
<1>3. QED
  BY <1>1, <1>2, PTL DEF Spec

LEMMA FreeListIsFree == ASSUME Alone, HeapInv PROVE \A a \in FreeList : a \in Cells /\ Free(a)
<1> DEFINE S == {a \in Cells : Free(a)}
<1>1. S \in SUBSET (Cells \cup {Data})
  OBVIOUS
<1>2. FollowsLinks(S)
  <2>1. head \in S \cup {Null}
    BY Scalars DEF HeapInv, Linked
  <2>2. \A a \in S \cap Cells : word0[a] \in S \cup {Null}
    BY DEF HeapInv, Linked
  <2>3. QED
    BY <2>1, <2>2 DEF FollowsLinks
<1>3. \A a \in FreeList : a \in S
  BY <1>1, <1>2 DEF FreeList
<1>4. QED
  BY <1>3

LEMMA UsedIsMine == ASSUME Alone PROVE \A a \in Cells : InUse(a) <=> Mine(a) > 0
  BY OneSelf DEF InUse, Mine

(* What an object in use occupies.                                         *)
LEMMA UsedExtent ==
  ASSUME Alone, HeapInv, NEW b \in Cells, Mine(b) > 0
  PROVE  IsBlock(b) /\ Extent(b) = bytes[b] /\ word8[b] = Mine(b)
<1>1. bytes[b] > 0 /\ word8[b] = Mine(b) /\ (Carried(b) => Pc = "r_load")
  BY DEF HeapInv, Counted
<1>2. CASE Carried(b)
  <2>1. b = P /\ Leaving
    BY <1>1, <1>2 DEF Carried, Leaving
  <2>2. N = bytes[b]
    BY <2>1 DEF HeapInv, ReleaseHere
  <2>3. QED
    BY <1>1, <1>2, <2>2 DEF IsBlock, Extent
<1>3. CASE ~Carried(b)
  BY <1>1, <1>3 DEF IsBlock, Extent
<1>4. QED
  BY <1>2, <1>3

LEMMA BlocksApart ==
  ASSUME Alone, HeapInv, NEW a \in Cells, NEW b \in Cells, IsBlock(a), IsBlock(b), a # b
  PROVE  (a .. a + Extent(a) - 1) \cap (b .. b + Extent(b) - 1) = {}
<1>1. Extent(a) \in 1 .. 2 /\ Extent(b) \in 1 .. 2 /\ a \in Nat /\ b \in Nat
  BY CellTypes DEF HeapInv, Bounded
<1>2. a < b => a + Extent(a) <= b
  BY DEF HeapInv, Apart
<1>3. b < a => b + Extent(b) <= a
  BY DEF HeapInv, Apart
<1> DEFINE m == Extent(a)
<1> DEFINE n == Extent(b)
<1>4. (a .. a + m - 1) \cap (b .. b + n - 1) = {}
  <2> HIDE DEF m, n
  <2>1. m \in 1 .. 2 /\ n \in 1 .. 2 /\ (a < b => a + m <= b) /\ (b < a => b + n <= a)
    BY <1>1, <1>2, <1>3 DEF m, n
  <2>2. CASE a < b
    BY <1>1, <2>1, <2>2
  <2>3. CASE b < a
    BY <1>1, <2>1, <2>3
  <2>4. QED
    BY <1>1, <2>2, <2>3
<1>5. QED
  BY <1>4

(* The freelist of runtime.rs:111-160 stays a list of disjoint blocks that *)
(* nobody refers to.                                                       *)
THEOREM FreeListStaysSound == ASSUME Alone PROVE Spec => []FreeListSound
<1>1. HeapInv => FreeListSound
  <2>1. SUFFICES ASSUME HeapInv PROVE FreeListSound
    OBVIOUS
  <2>2. ASSUME NEW a \in FreeList
        PROVE  a \in Cells /\ a # Data /\ ~InUse(a) /\ IsBlock(a) /\ Extent(a) = word8[a]
    <3>1. a \in Cells /\ Free(a)
      BY <2>1, FreeListIsFree
    <3>2. QED
      BY <3>1, CellTypes, UsedIsMine DEF Free, IsBlock, Extent
  <2>3. ASSUME NEW a \in FreeList, NEW b \in Cells, InUse(b)
        PROVE  (a .. a + word8[a] - 1) \cap (b .. b + bytes[b] - 1) = {}
    <3>1. IsBlock(b) /\ Extent(b) = bytes[b] /\ a # b
      BY <2>1, <2>2, <2>3, UsedIsMine, UsedExtent
    <3>2. (a .. a + Extent(a) - 1) \cap (b .. b + Extent(b) - 1) = {}
      BY <2>1, <2>2, <3>1, BlocksApart
    <3>3. QED
      BY <2>2, <3>1, <3>2
  <2>4. ASSUME NEW a \in FreeList, NEW b \in FreeList, a # b
        PROVE  (a .. a + word8[a] - 1) \cap (b .. b + word8[b] - 1) = {}
    <3>1. (a .. a + Extent(a) - 1) \cap (b .. b + Extent(b) - 1) = {}
      BY <2>1, <2>2, <2>4, BlocksApart
    <3>2. QED
      BY <2>2, <3>1
  <2>5. FreeBlocksDisjoint
    BY <2>3, <2>4 DEF FreeBlocksDisjoint
  <2>6. QED
    BY <2>2, <2>5 DEF FreeListSound
<1>2. QED
  BY <1>1, HeapInvariant, PTL
(* The heap RefHeap sees.                                                  *)
SizeBar == [a \in Cells |-> IF InUse(a) THEN bytes[a] ELSE 0]
RefsBar == [a \in Cells |-> IF InUse(a) THEN word8[a] ELSE 0]

LEMMA Bars ==
  ASSUME Alone, HeapInv
  PROVE  /\ SizeBar = [a \in Cells |-> IF Mine(a) > 0 THEN bytes[a] ELSE 0]
         /\ RefsBar = [a \in Cells |-> Mine(a)]
<1>1. \A a \in Cells : Mine(a) \in Nat /\ (Mine(a) > 0 => word8[a] = Mine(a))
  BY Scalars DEF HeapInv, Counted
<1>2. \A a \in Cells : (IF InUse(a) THEN word8[a] ELSE 0) = Mine(a)
  <2>1. SUFFICES ASSUME NEW a \in Cells PROVE (IF InUse(a) THEN word8[a] ELSE 0) = Mine(a)
    OBVIOUS
  <2>2. CASE Mine(a) > 0
    BY <1>1, <2>2, UsedIsMine
  <2>3. CASE ~(Mine(a) > 0)
    <3>1. Mine(a) = 0
      BY <1>1, <2>3
    <3>2. QED
      BY <2>3, <3>1, UsedIsMine
  <2>4. QED
    BY <2>2, <2>3
<1>3. QED
  BY <1>2, UsedIsMine DEF SizeBar, RefsBar

LEMMA BarsAfter ==
  ASSUME Alone, HeapInv'
  PROVE  /\ SizeBar' = [a \in Cells |-> IF Mine(a)' > 0 THEN bytes'[a] ELSE 0]
         /\ RefsBar' = [a \in Cells |-> Mine(a)']
<1>1. \A a \in Cells : Mine(a)' \in Nat /\ (Mine(a)' > 0 => word8'[a] = Mine(a)')
  <2>1. held' \in [Threads -> [Cells -> Nat]]
    BY DEF HeapInv, HeapTypes
  <2>2. QED
    BY <2>1, OneSelf DEF HeapInv, Counted, Mine
<1>2. \A a \in Cells : InUse(a)' <=> Mine(a)' > 0
  BY OneSelf DEF InUse, Mine
<1>3. \A a \in Cells : (IF InUse(a)' THEN word8'[a] ELSE 0) = Mine(a)'
  <2>1. SUFFICES ASSUME NEW a \in Cells
        PROVE  (IF InUse(a)' THEN word8'[a] ELSE 0) = Mine(a)'
    OBVIOUS
  <2>2. CASE Mine(a)' > 0
    BY <1>1, <1>2, <2>2
  <2>3. CASE ~(Mine(a)' > 0)
    <3>1. Mine(a)' = 0
      BY <1>1, <2>3
    <3>2. QED
      BY <1>2, <2>3, <3>1
  <2>4. QED
    BY <2>2, <2>3
<1>4. QED
  BY <1>2, <1>3 DEF SizeBar, RefsBar

(* A step that moves no reference is not seen.                             *)
LEMMA NotSeen ==
  ASSUME Alone, HeapInv, HeapInv', UNCHANGED <<bytes, held>>
  PROVE  UNCHANGED <<SizeBar, RefsBar>>
  BY Bars, BarsAfter DEF Mine

(* The objects made, shared and given up.                                  *)
LEMMA ConstructIsNew ==
  ASSUME Alone, HeapInv, HeapInv', Construct(Self)
  PROVE  \E a \in Cells : \E n \in 1 .. 2 : Abstract!New(a, n)
<1>1. Pc = "a_return" /\ bytes' = [bytes EXCEPT ![P] = N] /\ held' = [held EXCEPT ![Self][P] = 1]
  BY DEF Construct, Pc, P, N
<1>2. P \in Cells /\ Mine(P) = 0 /\ N \in 1 .. 2
  BY <1>1, CarriedUnused DEF Making, HeapInv, AllocHere, InAlloc, Sizes
<1>3. IsBlock(P) /\ Extent(P) = N
  BY <1>1 DEF IsBlock, Carried, Busy, Making, Extent
<1>4. Abstract!Extent(P, N) \subseteq Cells
  <2>1. P + N <= bump /\ bump \in 0 .. HeapEnd + 1
    BY <1>2, <1>3, Scalars DEF HeapInv, Bounded
  <2>2. QED
    BY <1>2, <2>1, HeapEndAssumption DEF Abstract!Extent, Cells, First
<1>5. ASSUME NEW b \in Cells, RefsBar[b] > 0
      PROVE  Abstract!Extent(P, N) \cap Abstract!Extent(b, SizeBar[b]) = {}
  <2>1. Mine(b) > 0 /\ SizeBar[b] = bytes[b]
    BY <1>5, Bars
  <2>2. b # P
    BY <1>2, <2>1
  <2>3. IsBlock(b) /\ Extent(b) = bytes[b]
    BY <2>1, UsedExtent
  <2>4. (P .. P + Extent(P) - 1) \cap (b .. b + Extent(b) - 1) = {}
    BY <1>2, <1>3, <2>2, <2>3, BlocksApart
  <2>5. QED
    BY <1>3, <2>1, <2>3, <2>4 DEF Abstract!Extent
<1>6. PICK c \in Cells, n \in 1 .. 2 : c = P /\ n = N
  BY <1>2
<1>7. /\ Mine(c)' = 1 /\ bytes'[c] = n
      /\ \A b \in Cells : b # c => Mine(b)' = Mine(b) /\ bytes'[b] = bytes[b]
  <2>1. held' = [held EXCEPT ![Self] = [held[Self] EXCEPT ![c] = 1]]
    BY <1>1, <1>6
  <2>2. held'[Self] = [held[Self] EXCEPT ![c] = 1]
    BY <2>1, OneSelf DEF HeapInv, HeapTypes
  <2>3. held[Self] \in [Cells -> Nat] /\ bytes \in [Cells -> 0 .. 2]
    BY OneSelf DEF HeapInv, HeapTypes
  <2>4. QED
    BY <1>1, <1>6, <2>2, <2>3 DEF Mine
<1>8. SizeBar' = [SizeBar EXCEPT ![c] = n]
  <2>1. \A b \in Cells : (IF Mine(b)' > 0 THEN bytes'[b] ELSE 0)
                         = IF b = c THEN n ELSE IF Mine(b) > 0 THEN bytes[b] ELSE 0
    BY <1>7
  <2>2. QED
    BY <2>1, Bars, BarsAfter
<1>9. RefsBar' = [RefsBar EXCEPT ![c] = 1]
  BY <1>7, Bars, BarsAfter
<1>10. Abstract!Extent(c, n) \subseteq Cells
       /\ \A b \in Cells : RefsBar[b] > 0 =>
            Abstract!Extent(c, n) \cap Abstract!Extent(b, SizeBar[b]) = {}
  BY <1>4, <1>5, <1>6
<1>11. Abstract!New(c, n)
  BY <1>8, <1>9, <1>10 DEF Abstract!New, SizeBar, RefsBar
<1>12. QED
  BY <1>11
LEMMA RetainIsRetain ==
  ASSUME Alone, HeapInv, HeapInv', NEW c \in Cells, Retain(Self, Self, c)
  PROVE  Abstract!Retain(c)
<1>1. Mine(c) > 0 /\ bytes' = bytes /\ held' = [held EXCEPT ![Self][c] = Mine(c) + 1]
  BY DEF Retain, Mine
<1>2. held[Self] \in [Cells -> Nat] /\ held'[Self] = [held[Self] EXCEPT ![c] = Mine(c) + 1]
  <2>1. held' = [held EXCEPT ![Self] = [held[Self] EXCEPT ![c] = Mine(c) + 1]]
    BY <1>1
  <2>2. QED
    BY <2>1, OneSelf DEF HeapInv, HeapTypes
<1>3. Mine(c)' = Mine(c) + 1 /\ \A b \in Cells : b # c => Mine(b)' = Mine(b)
  BY <1>2 DEF Mine
<1>4. Mine(c) \in Nat
  BY <1>2 DEF Mine
<1>5. RefsBar[c] > 0 /\ RefsBar' = [RefsBar EXCEPT ![c] = RefsBar[c] + 1]
  BY <1>1, <1>3, Bars, BarsAfter
<1>6. UNCHANGED SizeBar
  <2>1. \A b \in Cells : Mine(b)' > 0 <=> Mine(b) > 0
    BY <1>1, <1>3, <1>4
  <2>2. QED
    BY <1>1, <2>1, Bars, BarsAfter
<1>7. QED
  BY <1>5, <1>6 DEF Abstract!Retain, SizeBar, RefsBar

LEMMA ReleaseIsRelease ==
  ASSUME Alone, HeapInv, HeapInv', NEW c \in Cells, Release(Self, c)
  PROVE  Abstract!Release(c)
<1>1. Mine(c) > 0 /\ bytes' = bytes /\ held' = [held EXCEPT ![Self][c] = Mine(c) - 1]
  BY DEF Release, Mine
<1>2. held[Self] \in [Cells -> Nat] /\ held'[Self] = [held[Self] EXCEPT ![c] = Mine(c) - 1]
  <2>1. held' = [held EXCEPT ![Self] = [held[Self] EXCEPT ![c] = Mine(c) - 1]]
    BY <1>1
  <2>2. QED
    BY <2>1, OneSelf DEF HeapInv, HeapTypes
<1>3. Mine(c)' = Mine(c) - 1 /\ \A b \in Cells : b # c => Mine(b)' = Mine(b)
  BY <1>2 DEF Mine
<1>4. Mine(c) \in Nat
  BY <1>2 DEF Mine
<1>5. RefsBar[c] = Mine(c) /\ RefsBar' = [RefsBar EXCEPT ![c] = RefsBar[c] - 1]
  BY <1>1, <1>3, Bars, BarsAfter
<1>6. SizeBar' = [SizeBar EXCEPT ![c] = IF RefsBar[c] = 1 THEN 0 ELSE SizeBar[c]]
  <2>1. SizeBar' = [b \in Cells |-> IF Mine(b)' > 0 THEN bytes[b] ELSE 0]
    BY <1>1, BarsAfter
  <2>2. ASSUME NEW b \in Cells, b # c
        PROVE  (IF Mine(b)' > 0 THEN bytes[b] ELSE 0) = SizeBar[b]
    BY <1>3, <2>2, Bars
  <2>3. (IF Mine(c)' > 0 THEN bytes[c] ELSE 0) = IF RefsBar[c] = 1 THEN 0 ELSE SizeBar[c]
    <3>1. SizeBar[c] = bytes[c]
      BY <1>1, Bars
    <3>2. Mine(c)' > 0 <=> RefsBar[c] # 1
      BY <1>1, <1>3, <1>4, <1>5
    <3>3. QED
      BY <3>1, <3>2
  <2>4. DOMAIN SizeBar = Cells /\ SizeBar = [b \in Cells |-> SizeBar[b]]
    BY Bars
  <2>5. QED
    BY <2>1, <2>2, <2>3, <2>4
<1>7. RefsBar[c] > 0
  BY <1>1, <1>5
<1>8. QED
  BY <1>5, <1>6, <1>7 DEF Abstract!Release, SizeBar, RefsBar

(* To the program the helpers of runtime.rs:111-160 are a heap of counted  *)
(* objects that never overlap: every step of theirs is one of RefHeap or   *)
(* not seen.                                                               *)
THEOREM ImplementsRefHeap == ASSUME Alone PROVE Spec => IsRefHeap
<1>1. Init => Abstract!Init
  BY OneSelf DEF Init, Abstract!Init, InUse
<1>2. ASSUME HeapInv, HeapInv', Next PROVE Abstract!Next \/ UNCHANGED <<SizeBar, RefsBar>>
  <2>1. ClientStep(Self) \/ AllocStep(Self) \/ ReleaseStep(Self)
    BY <1>2, OneSelf DEF Next
  <2>2. CASE Construct(Self)
    BY <1>2, <2>2, ConstructIsNew DEF Abstract!Next
  <2>3. ASSUME NEW a \in Cells, Release(Self, a) PROVE Abstract!Next
    BY <1>2, <2>3, ReleaseIsRelease DEF Abstract!Next
  <2>4. ASSUME NEW a \in Cells, NEW u \in Threads, Retain(Self, u, a) PROVE Abstract!Next
    <3>1. u = Self
      BY OneSelf
    <3>2. QED
      BY <1>2, <2>4, <3>1, RetainIsRetain DEF Abstract!Next
  <2>5. CASE Alloc(Self)
    BY <1>2, <2>5, NotSeen DEF Alloc
  <2>6. CASE AllocStep(Self) /\ ~Construct(Self)
    <3>1. UNCHANGED <<bytes, held>>
      BY <2>6 DEF AllocStep, AllocInit, AllocSeed, AllocHead, AllocFits, AllocNext, AllocUnlink,
         AllocCount, AllocZero, AllocBump, AllocAdvance, AllocFirst
    <3>2. QED
      BY <1>2, <3>1, NotSeen
  <2>7. CASE ReleaseStep(Self)
    <3>1. UNCHANGED <<bytes, held>>
      BY <2>7 DEF ReleaseStep, ReleaseLoad, ReleaseHead, ReleaseLink, ReleaseCap, ReleasePush
    <3>2. QED
      BY <1>2, <3>1, NotSeen
  <2>8. QED
    BY <2>1, <2>2, <2>3, <2>4, <2>5, <2>6, <2>7 DEF ClientStep
<1>3. HeapInv /\ HeapInv' /\ [Next]_vars => [Abstract!Next]_(Abstract!vars)
  <2>1. ASSUME UNCHANGED vars PROVE UNCHANGED <<SizeBar, RefsBar>>
    BY <2>1 DEF vars, heapVars, SizeBar, RefsBar, InUse
  <2>2. UNCHANGED <<SizeBar, RefsBar>> => UNCHANGED Abstract!vars
    BY DEF Abstract!vars, SizeBar, RefsBar
  <2>3. QED
    BY <1>2, <2>1, <2>2
<1>4. QED
  BY <1>1, <1>3, HeapInvariant, PTL DEF Spec, IsRefHeap, Abstract!Spec
=============================================================================
