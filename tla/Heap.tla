-------------------------------- MODULE Heap --------------------------------
(***************************************************************************)
(* The heap helpers of src/x86/runtime.rs, ALLOC_REVISED, RETAIN and       *)
(* RELEASE, as their instructions execute: one action per access to memory *)
(* another thread can reach.  A block starts with two words: word0 holds   *)
(* the vtable or length while the block is an object and the next free     *)
(* block while it is on the freelist; word8 holds the count, or the dead   *)
(* block's capacity.                                                       *)
(*                                                                         *)
(* The program's threads allocate, share, retain and release; they release *)
(* a reference only if they hold one.  Addresses and sizes are in units of *)
(* 16 bytes, to which the bump pointer rounds.  Cell 0 stands for null and *)
(* the header, cell 1 is the first object (base + 4096).                   *)
(***************************************************************************)
EXTENDS Integers

CONSTANTS
  Threads,
  HeapEnd,   (* BOUND: the program stops allocating when a bump allocation *)
             (* would pass this cell (the code has no such check).         *)
  MaxRefs,   (* BOUND: references of one object a thread holds.            *)
  Sites      (* The instructions the program allocates with: "Alloc" for   *)
             (* Instr::Alloc and AllocDyn, "String" for BuildArgv, which   *)
             (* stores the tagged count itself.                            *)

ASSUME HeapEndAssumption == HeapEnd \in Nat
ASSUME MaxRefsAssumption == MaxRefs \in Nat
ASSUME SitesAssumption   == Sites \subseteq {"Alloc", "String"}

First == 1
Cells == First .. HeapEnd
Sizes == 1 .. 2
Null  == 0
Data  == -1        (* Any word0 that is not a link: a vtable or a length.  *)

VARIABLES
  head, bump,      (* The two header words; bump = 0 before the first use. *)
  word0, word8,    (* The first two words of each cell that starts a block.*)
  pc,              (* thread -> where in a helper it is, or "client".      *)
  ptr, val, req,   (* thread -> rcx/rax, the scratch value, the size (rsi).*)
  site,            (* thread -> the instruction that called alloc.         *)
  bytes,           (* cell -> the size of the object's type, which release *)
                   (* is called with.                                      *)
  held             (* thread -> cell -> references it holds.               *)

heapVars   == <<head, bump, word0, word8>>
threadVars == <<pc, ptr, val, req, site>>
vars       == <<heapVars, threadVars, bytes, held>>

InUse(a) == \E t \in Threads : held[t][a] > 0

Go(t, l) == pc' = [pc EXCEPT ![t] = l]

Init ==
  /\ head = Null /\ bump = 0
  /\ word0 = [a \in Cells |-> 0] /\ word8 = [a \in Cells |-> 0]
  /\ pc = [t \in Threads |-> "client"]
  /\ ptr = [t \in Threads |-> Null]
  /\ val = [t \in Threads |-> 0]
  /\ req = [t \in Threads |-> 0]
  /\ site = [t \in Threads |-> "Alloc"]
  /\ bytes = [a \in Cells |-> 0]
  /\ held = [t \in Threads |-> [a \in Cells |-> 0]]

-----------------------------------------------------------------------------
(* ALLOC_REVISED.                                                          *)

Alloc(t) ==
  /\ pc[t] = "client"
  /\ \E s \in Sites, n \in Sizes :
       /\ (IF bump = 0 THEN First ELSE bump) + n - 1 <= HeapEnd
       /\ req' = [req EXCEPT ![t] = n]
       /\ site' = [site EXCEPT ![t] = s]
  /\ Go(t, "a_init")
  /\ UNCHANGED <<heapVars, ptr, val, bytes, held>>

(* cmp qword [r10+8], 0; jne.                                              *)
AllocInit(t) ==
  /\ pc[t] = "a_init"
  /\ Go(t, IF bump = 0 THEN "a_seed" ELSE "a_head")
  /\ UNCHANGED <<heapVars, ptr, val, req, site, bytes, held>>

AllocSeed(t) ==
  /\ pc[t] = "a_seed"
  /\ bump' = First
  /\ Go(t, "a_head")
  /\ UNCHANGED <<head, word0, word8, ptr, val, req, site, bytes, held>>

(* mov rcx, [r10]; test rcx, rcx; je bump.                                 *)
AllocHead(t) ==
  /\ pc[t] = "a_head"
  /\ ptr' = [ptr EXCEPT ![t] = head]
  /\ Go(t, IF head = Null THEN "a_bump" ELSE "a_fits")
  /\ UNCHANGED <<heapVars, val, req, site, bytes, held>>

(* cmp [rcx+8], rsi; jb bump: only the head of the list is looked at.      *)
FitsMut(n, t) == TRUE
Fits(n, t)    == n >= req[t]

AllocFits(t) ==
  /\ pc[t] = "a_fits"
  /\ Go(t, IF Fits(word8[ptr[t]], t) THEN "a_next" ELSE "a_bump")
  /\ UNCHANGED <<heapVars, ptr, val, req, site, bytes, held>>

AllocNext(t) ==
  /\ pc[t] = "a_next"
  /\ val' = [val EXCEPT ![t] = word0[ptr[t]]]
  /\ Go(t, "a_unlink")
  /\ UNCHANGED <<heapVars, ptr, req, site, bytes, held>>

AllocUnlink(t) ==
  /\ pc[t] = "a_unlink"
  /\ head' = val[t]
  /\ Go(t, "a_count")
  /\ UNCHANGED <<bump, word0, word8, ptr, val, req, site, bytes, held>>

(* mov qword [rcx+8], 1.                                                   *)
AllocCount(t) ==
  /\ pc[t] = "a_count"
  /\ word8' = [word8 EXCEPT ![ptr[t]] = 1]
  /\ Go(t, "a_zero")
  /\ UNCHANGED <<head, bump, word0, ptr, val, req, site, bytes, held>>

(* rep stosb from the start of the block: the count word goes too.         *)
AllocZero(t) ==
  /\ pc[t] = "a_zero"
  /\ word0' = [word0 EXCEPT ![ptr[t]] = 0]
  /\ word8' = [word8 EXCEPT ![ptr[t]] = 0]
  /\ Go(t, "a_return")
  /\ UNCHANGED <<head, bump, ptr, val, req, site, bytes, held>>

AllocBump(t) ==
  /\ pc[t] = "a_bump"
  /\ ptr' = [ptr EXCEPT ![t] = bump]
  /\ Go(t, "a_advance")
  /\ UNCHANGED <<heapVars, val, req, site, bytes, held>>

AllocAdvance(t) ==
  /\ pc[t] = "a_advance"
  /\ bump' = ptr[t] + req[t]
  /\ Go(t, "a_first")
  /\ UNCHANGED <<head, word0, word8, ptr, val, req, site, bytes, held>>

AllocFirst(t) ==
  /\ pc[t] = "a_first"
  /\ word8' = [word8 EXCEPT ![ptr[t]] = 1]
  /\ Go(t, "a_return")
  /\ UNCHANGED <<head, bump, word0, ptr, val, req, site, bytes, held>>

(* The caller fills the object in; a string's count is stored by the caller*)
(* as well.                                                                *)
StringCountMut(t, a) == word8[a]
StringCount(t, a)    == IF site[t] = "String" THEN 1 ELSE word8[a]

Construct(t) ==
  /\ pc[t] = "a_return"
  /\ word0' = [word0 EXCEPT ![ptr[t]] = Data]
  /\ word8' = [word8 EXCEPT ![ptr[t]] = StringCount(t, ptr[t])]
  /\ bytes' = [bytes EXCEPT ![ptr[t]] = req[t]]
  /\ held' = [held EXCEPT ![t][ptr[t]] = 1]
  /\ Go(t, "client")
  /\ UNCHANGED <<head, bump, ptr, val, req, site>>

-----------------------------------------------------------------------------
(* RETAIN and RELEASE.                                                     *)

(* lock inc qword [rax+8]: the new reference is for t or another thread.   *)
Retain(t, u, a) ==
  /\ pc[t] = "client" /\ held[t][a] > 0 /\ held[u][a] < MaxRefs
  /\ word8' = [word8 EXCEPT ![a] = @ + 1]
  /\ held' = [held EXCEPT ![u][a] = @ + 1]
  /\ UNCHANGED <<head, bump, word0, threadVars, bytes>>

(* lock dec qword [rax+8], with rax the object and rsi the size.           *)
Release(t, a) ==
  /\ pc[t] = "client" /\ held[t][a] > 0
  /\ word8' = [word8 EXCEPT ![a] = @ - 1]
  /\ held' = [held EXCEPT ![t][a] = @ - 1]
  /\ ptr' = [ptr EXCEPT ![t] = a]
  /\ req' = [req EXCEPT ![t] = bytes[a]]
  /\ Go(t, "r_load")
  /\ UNCHANGED <<head, bump, word0, val, site, bytes>>

(* mov rcx, [rax+8]; shl rcx, 2; jnz ret.                                  *)
DeadMut(n) == n <= 1
Dead(n)    == n = 0

ReleaseLoad(t) ==
  /\ pc[t] = "r_load"
  /\ Go(t, IF Dead(word8[ptr[t]]) THEN "r_head" ELSE "client")
  /\ UNCHANGED <<heapVars, ptr, val, req, site, bytes, held>>

ReleaseHead(t) ==
  /\ pc[t] = "r_head"
  /\ val' = [val EXCEPT ![t] = head]
  /\ Go(t, "r_link")
  /\ UNCHANGED <<heapVars, ptr, req, site, bytes, held>>

ReleaseLink(t) ==
  /\ pc[t] = "r_link"
  /\ word0' = [word0 EXCEPT ![ptr[t]] = val[t]]
  /\ Go(t, "r_cap")
  /\ UNCHANGED <<head, bump, word8, ptr, val, req, site, bytes, held>>

ReleaseCap(t) ==
  /\ pc[t] = "r_cap"
  /\ word8' = [word8 EXCEPT ![ptr[t]] = req[t]]
  /\ Go(t, "r_push")
  /\ UNCHANGED <<head, bump, word0, ptr, val, req, site, bytes, held>>

ReleasePush(t) ==
  /\ pc[t] = "r_push"
  /\ head' = ptr[t]
  /\ Go(t, "client")
  /\ UNCHANGED <<bump, word0, word8, ptr, val, req, site, bytes, held>>

-----------------------------------------------------------------------------

AllocStep(t) ==
  \/ AllocInit(t) \/ AllocSeed(t) \/ AllocHead(t) \/ AllocFits(t)
  \/ AllocNext(t) \/ AllocUnlink(t) \/ AllocCount(t) \/ AllocZero(t)
  \/ AllocBump(t) \/ AllocAdvance(t) \/ AllocFirst(t) \/ Construct(t)

ReleaseStep(t) ==
  \/ ReleaseLoad(t) \/ ReleaseHead(t) \/ ReleaseLink(t)
  \/ ReleaseCap(t) \/ ReleasePush(t)

ClientStep(t) ==
  \/ Alloc(t)
  \/ \E a \in Cells : Release(t, a) \/ \E u \in Threads : Retain(t, u, a)

Next == \E t \in Threads : ClientStep(t) \/ AllocStep(t) \/ ReleaseStep(t)

Spec == Init /\ [][Next]_vars

(* A thread inside a helper keeps running; what the program does is open.  *)
FairSpec == Spec /\ \A t \in Threads : WF_vars(AllocStep(t) \/ ReleaseStep(t))

-----------------------------------------------------------------------------
(* Properties.                                                             *)

TypeOK ==
  /\ head \in Cells \cup {Null} /\ bump \in 0 .. HeapEnd + 1
  /\ word0 \in [Cells -> Cells \cup {Null, Data}]
  /\ word8 \in [Cells -> 0 .. MaxRefs]
  /\ ptr \in [Threads -> 0 .. HeapEnd] /\ req \in [Threads -> 0 .. 2]
  /\ held \in [Threads -> [Cells -> 0 .. MaxRefs]]

(* The cells reached from the freelist's head over links: those in every   *)
(* set that has the head and follows the links of its cells.               *)
FollowsLinks(S) ==
  /\ head \in S \cup {Null}
  /\ \A a \in S \cap Cells : word0[a] \in S \cup {Null}

FreeList ==
  {a \in Cells \cup {Data} : \A S \in SUBSET (Cells \cup {Data}) : FollowsLinks(S) => a \in S}

(* Blocks on the list do not overlap objects in use or one another.        *)
FreeBlocksDisjoint ==
  \A a \in FreeList \ {Data} :
    /\ \A b \in Cells : InUse(b) =>
         (a .. a + word8[a] - 1) \cap (b .. b + bytes[b] - 1) = {}
    /\ \A b \in FreeList \ {Data, a} :
         (a .. a + word8[a] - 1) \cap (b .. b + word8[b] - 1) = {}

(* The freelist is a list of disjoint blocks nobody refers to: it never    *)
(* runs into an object in use (a link read from a vtable word would show   *)
(* as Data).  A count that runs ahead of or behind the references, a block *)
(* pushed twice, a pop that leaves the head behind or a reuse that takes   *)
(* too small a block ends here.                                            *)
FreeListSound ==
  /\ \A a \in FreeList : a # Data /\ ~InUse(a)
  /\ FreeBlocksDisjoint

(* A block whose last reference is released comes back to the freelist.    *)
ReleasedReturns ==
  \A a \in Cells :
    (\E t \in Threads : pc[t] = "r_load" /\ ptr[t] = a /\ ~InUse(a)) ~> (a \in FreeList)

(* To the program the helpers are a heap of counted objects.               *)
Abstract ==
  INSTANCE RefHeap WITH
    size <- [a \in Cells |-> IF InUse(a) THEN bytes[a] ELSE 0],
    refs <- [a \in Cells |-> IF InUse(a) THEN word8[a] ELSE 0]

IsRefHeap == Abstract!Spec

-----------------------------------------------------------------------------
(* What the comments say of it, and the code does not do.                  *)

(* runtime.rs:118 calls the word an "atomic refcount" and 148-149 has a    *)
(* block pushed "on count-zero": one of the releases of an object, the one *)
(* that takes the count to zero, pushes it.                                *)
OneReleasePushes ==
  \A t, u \in Threads :
    /\ t # u
    /\ pc[t] \in {"r_head", "r_link", "r_cap", "r_push"}
    /\ pc[u] \in {"r_head", "r_link", "r_cap", "r_push"}
    => ptr[t] # ptr[u]
=============================================================================
