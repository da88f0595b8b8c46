---------------------------- MODULE ImageProofs -----------------------------
(***************************************************************************)
(* Proofs about Image: for every program, every size of page and of        *)
(* helper and wherever the kernel maps, no page is ever writable and       *)
(* executable, the program runs with its code executable and its data      *)
(* writable, and when the JIT returns nothing it mapped is left, unless    *)
(* mprotect fails.  ImageInv is the inductive invariant: the types of the  *)
(* emitter's state, and in which phase which pages have which rights and   *)
(* contents.                                                               *)
(*                                                                         *)
(* And for every program whose names exist, each operand of the running    *)
(* code reaches what the IR names.  LinkInv is what that needs besides:    *)
(* each operand the emitter leaves open is written down with a symbol that *)
(* fits (Sound), what symbols stand for is where the tables say (LaidDown),*)
(* so that each operand has relocations and their targets are what it      *)
(* names (Linked), and memory holds the parts where targets are reckoned   *)
(* from (Placed).                                                          *)
(***************************************************************************)
EXTENDS Image, WellFoundedInduction, SequenceTheorems, TLAPS

-----------------------------------------------------------------------------
(* Recursion.                                                              *)

(* A non-empty set of naturals has a least element.                        *)
LEMMA LeastNumber ==
  ASSUME NEW T \in SUBSET Nat, T # {}
  PROVE  \E n \in T : \A m \in T : n <= m
<1> DEFINE R == OpToRel(<, Nat)
<1>1. IsWellFoundedOn(R, Nat)
  BY NatLessThanWellFounded
<1>2. \A x, y \in Nat : y < x => <<y, x>> \in R
  BY DEF OpToRel
<1> HIDE DEF R
<1>3. PICK x \in T : \A y \in T : ~ (<<y, x>> \in R)
  BY <1>1, WFMin
<1>4. \A y \in T : ~ (y < x)
  BY <1>2, <1>3
<1>5. QED
  BY <1>4

(* Induction up to a bound, for a set.                                     *)
LEMMA UpTo ==
  ASSUME NEW N \in Nat, NEW G, 0 \in G, \A n \in 1 .. N : n - 1 \in G => n \in G
  PROVE  \A n \in 0 .. N : n \in G
<1> DEFINE T == {n \in 0 .. N : n \notin G}
<1> SUFFICES ASSUME T # {} PROVE FALSE
  OBVIOUS
<1>1. T \in SUBSET Nat
  OBVIOUS
<1>2. PICK n \in T : \A m \in T : n <= m
  <2> HIDE DEF T
  <2>1. QED
    BY <1>1, LeastNumber
<1>3. n \in 1 .. N /\ n - 1 \in 0 .. N /\ ~ (n <= n - 1)
  BY <1>2
<1>4. n - 1 \in G
  BY <1>2, <1>3
<1>5. QED
  BY <1>2, <1>3, <1>4

(* A function defined by recursion up to a bound exists.                   *)
Recursive(g, N, a, H) == g[0] = a /\ \A n \in 1 .. N : g[n] = H[n][g[n - 1]]

LEMMA Recursion ==
  ASSUME NEW N \in Nat, NEW S, NEW a \in S, NEW H \in [1 .. N -> [S -> S]]
  PROVE  \E g \in [0 .. N -> S] : Recursive(g, N, a, H)
<1> DEFINE Steps(g, n) == g \in [0 .. n -> S] /\ Recursive(g, n, a, H)
           G == {n \in 0 .. N : \E g : Steps(g, n)}
<1>1. 0 \in G
  <2> DEFINE h == [i \in 0 .. 0 |-> a]
  <2>1. h \in [0 .. 0 -> S] /\ h[0] = a
    OBVIOUS
  <2>2. \A i \in 1 .. 0 : FALSE
    OBVIOUS
  <2> HIDE DEF h
  <2>3. Steps(h, 0)
    BY <2>1, <2>2 DEF Recursive
  <2>4. QED
    BY <2>3
<1>2. ASSUME NEW n \in 1 .. N, n - 1 \in G
      PROVE  n \in G
  <2>1. PICK g : Steps(g, n - 1)
    BY <1>2
  <2> DEFINE h == [i \in 0 .. n |-> IF i = n THEN H[n][g[n - 1]] ELSE g[i]]
  <2>2. g[n - 1] \in S
    BY <2>1
  <2>3. h \in [0 .. n -> S] /\ h[0] = a
    BY <2>1, <2>2 DEF Recursive
  <2>4. ASSUME NEW i \in 1 .. n
        PROVE  h[i] = H[i][h[i - 1]]
    <3>1. h[i - 1] = g[i - 1]
      OBVIOUS
    <3>2. CASE i = n
      BY <3>1, <3>2
    <3>3. CASE i # n
      <4>1. i \in 1 .. n - 1
        BY <3>3
      <4>2. h[i] = g[i]
        BY <3>3
      <4>3. QED
        BY <2>1, <3>1, <4>1, <4>2 DEF Recursive
    <3>4. QED
      BY <3>2, <3>3
  <2> HIDE DEF h
  <2>5. Steps(h, n)
    BY <2>3, <2>4 DEF Recursive
  <2>6. QED
    BY <2>5
<1>3. N \in 0 .. N
  OBVIOUS
<1>4. N \in G
  <2> HIDE DEF G
  <2>1. QED
    BY <1>1, <1>2, <1>3, UpTo
<1>5. QED
  BY <1>4

(* What a recursive function keeps.                                        *)
LEMMA Keeps ==
  ASSUME NEW N \in Nat, NEW S, NEW f, f[0] \in S, \A n \in 1 .. N : f[n - 1] \in S => f[n] \in S
  PROVE  \A n \in 0 .. N : f[n] \in S
<1> DEFINE G == {n \in 0 .. N : f[n] \in S}
<1>1. 0 \in G
  OBVIOUS
<1>2. \A n \in 1 .. N : n - 1 \in G => n \in G
  OBVIOUS
<1> HIDE DEF G
<1>3. \A n \in 0 .. N : n \in G
  BY <1>1, <1>2, UpTo
<1>4. QED
  BY <1>3 DEF G

LEMMA FunctionIsSequence ==
  ASSUME NEW S, NEW n \in Nat, NEW f \in [1 .. n -> S]
  PROVE  f \in Seq(S) /\ Len(f) = n
OBVIOUS

(* The sequences of a sequence one after the other.                        *)
LEMMA FlattenNone ==
  ASSUME NEW s, Len(s) = 0
  PROVE  FlattenSeq(s) = s
BY DEF FlattenSeq

LEMMA FlattenUnfolds ==
  ASSUME NEW S, NEW s \in Seq(Seq(S)), Len(s) # 0
  PROVE  \E f : /\ f[1] = s[1] /\ \A i \in 2 .. Len(s) : f[i] = f[i - 1] \o s[i]
               /\ FlattenSeq(s) = f[Len(s)]
<1> DEFINE L == Len(s)
           F(g) == [i \in 1 .. L |-> IF i = 1 THEN s[i] ELSE g[i - 1] \o s[i]]
           M == L - 1
           H == [n \in 1 .. M |-> [x \in Seq(S) |-> x \o s[n + 1]]]
<1>1. L \in Nat /\ L # 0 /\ \A i \in 1 .. L : s[i] \in Seq(S)
  OBVIOUS
<1>2. \E g : g = F(g)
  <2>1. M \in Nat /\ s[1] \in Seq(S)
    BY <1>1
  <2>2. H \in [1 .. M -> [Seq(S) -> Seq(S)]]
    <3>1. \A n \in 1 .. M : s[n + 1] \in Seq(S)
      BY <1>1
    <3>2. \A n \in 1 .. M : \A x \in Seq(S) : x \o s[n + 1] \in Seq(S)
      BY <3>1
    <3>3. QED
      BY <3>2
  <2>3. \A n \in 1 .. M : \A x \in Seq(S) : H[n][x] = x \o s[n + 1]
    OBVIOUS
  <2> HIDE DEF M, H
  <2>4. PICK g \in [0 .. M -> Seq(S)] : Recursive(g, M, s[1], H)
    BY <2>1, <2>2, Recursion
  <2> DEFINE h == [i \in 1 .. L |-> g[i - 1]]
  <2>5. \A i \in 1 .. L : h[i] = F(h)[i]
    <3>1. ASSUME NEW i \in 1 .. L, i # 1
          PROVE  g[i - 1] = g[i - 2] \o s[i]
      <4>1. i - 1 \in 1 .. M /\ (i - 1) - 1 = i - 2 /\ i - 2 \in 0 .. M /\ (i - 1) + 1 = i
        BY <1>1, <3>1 DEF M
      <4>2. g[i - 1] = H[i - 1][g[i - 2]]
        BY <2>4, <4>1 DEF Recursive
      <4>3. g[i - 2] \in Seq(S)
        BY <2>4, <4>1
      <4>4. QED
        BY <2>3, <4>1, <4>2, <4>3
    <3>2. g[0] = s[1]
      BY <2>4 DEF Recursive
    <3>3. ASSUME NEW i \in 1 .. L, i # 1
          PROVE  h[i] = F(h)[i]
      <4>1. i - 1 \in 1 .. L /\ h[i - 1] = g[i - 2]
        BY <1>1, <3>3
      <4>2. QED
        BY <3>1, <3>3, <4>1
    <3>4. h[1] = F(h)[1]
      BY <1>1, <3>2
    <3>5. QED
      BY <3>3, <3>4
  <2>6. h = F(h)
    BY <2>5
  <2>7. QED
    BY <2>6
<1>3. PICK f : f = F(f) /\ FlattenSeq(s) = f[L]
  <2> DEFINE f == CHOOSE g : g = F(g)
  <2>1. f = F(f)
    BY <1>2
  <2>2. FlattenSeq(s) = f[L]
    BY <1>1 DEF FlattenSeq
  <2>3. QED
    BY <2>1, <2>2
<1> HIDE DEF L
<1>4. f[1] = s[1] /\ \A i \in 2 .. L : f[i] = f[i - 1] \o s[i]
  <2>1. 1 \in 1 .. L /\ \A i \in 2 .. L : i \in 1 .. L /\ i # 1
    BY <1>1
  <2>2. \A i \in 1 .. L : f[i] = IF i = 1 THEN s[i] ELSE f[i - 1] \o s[i]
    BY <1>3
  <2> HIDE DEF F
  <2>3. QED
    BY <2>1, <2>2
<1>5. QED
  BY <1>3, <1>4 DEF L

LEMMA Flatten ==
  ASSUME NEW S, NEW s \in Seq(Seq(S))
  PROVE  FlattenSeq(s) \in Seq(S)
<1> DEFINE L == Len(s)
<1>1. L \in Nat /\ \A i \in 1 .. L : s[i] \in Seq(S)
  OBVIOUS
<1>2. CASE L = 0
  <2>1. s = <<>>
    BY <1>2
  <2>2. FlattenSeq(s) = s
    BY <1>2, FlattenNone
  <2>3. <<>> \in Seq(S)
    OBVIOUS
  <2>4. QED
    BY <2>1, <2>2, <2>3, Zenon
<1>3. CASE L # 0
  <2>1. PICK f : /\ f[1] = s[1] /\ \A i \in 2 .. L : f[i] = f[i - 1] \o s[i]
                 /\ FlattenSeq(s) = f[L]
    BY <1>3, FlattenUnfolds
  <2> HIDE DEF L
  <2> DEFINE h == [i \in 0 .. L - 1 |-> f[i + 1]]
  <2>2. \A n \in 0 .. L - 1 : h[n] \in Seq(S)
    <3>1. h[0] \in Seq(S)
      BY <1>1, <1>3, <2>1
    <3>2. ASSUME NEW n \in 1 .. L - 1, h[n - 1] \in Seq(S)
          PROVE  h[n] \in Seq(S)
      <4>1. n + 1 \in 2 .. L /\ n + 1 \in 1 .. L /\ (n + 1) - 1 = n /\ (n - 1) + 1 = n
            /\ n - 1 \in 0 .. L - 1 /\ n \in 0 .. L - 1
        BY <1>1
      <4>2. h[n] = f[n + 1] /\ h[n - 1] = f[n]
        BY <4>1
      <4>3. f[n + 1] = f[n] \o s[n + 1] /\ s[n + 1] \in Seq(S)
        <5>1. f[n + 1] = f[(n + 1) - 1] \o s[n + 1]
          BY <2>1, <4>1
        <5>2. s[n + 1] \in Seq(S)
          BY <1>1, <4>1
        <5>3. (n + 1) - 1 = n
          OBVIOUS
        <5> HIDE DEF L
        <5>4. QED
          BY <5>1, <5>2, <5>3, Zenon
      <4> HIDE DEF h
      <4>4. QED
        BY <3>2, <4>2, <4>3
    <3>3. L - 1 \in Nat
      BY <1>1, <1>3
    <3> HIDE DEF h
    <3>4. QED
      BY <3>1, <3>2, <3>3, Keeps
  <2>3. f[L] = h[L - 1] /\ L - 1 \in 0 .. L - 1
    <3>1. L - 1 \in 0 .. L - 1 /\ (L - 1) + 1 = L
      BY <1>1, <1>3
    <3>2. QED
      BY <3>1
  <2>4. QED
    BY <2>1, <2>2, <2>3
<1>4. QED
  BY <1>2, <1>3

(* The last of some numbers is one of them.                                *)
LEMMA LastIsOne ==
  ASSUME NEW N \in Nat, NEW T \in SUBSET (1 .. N), T # {}
  PROVE  Max(T) \in T
<1> DEFINE U == {N - t : t \in T}
<1>1. U \in SUBSET Nat
  <2>1. \A t \in T : N - t \in Nat
    OBVIOUS
  <2>2. QED
    BY <2>1
<1>2. U # {}
  OBVIOUS
<1> HIDE DEF U
<1>3. PICK u \in U : \A v \in U : u <= v
  BY <1>1, <1>2, LeastNumber
<1>4. PICK t \in T : u = N - t
  BY <1>3 DEF U
<1>5. \A s \in T : N - s \in U
  BY DEF U
<1>6. \A s \in T : t >= s
  <2>1. ASSUME NEW s \in T
        PROVE  t >= s
    <3>1. u <= N - s
      BY <1>3, <1>5
    <3>2. QED
      BY <1>4, <3>1
  <2>2. QED
    BY <2>1
<1>7. QED
  BY <1>6 DEF Max

-----------------------------------------------------------------------------
(* Cells, and values patched into them.                                    *)

LEMMA CellHasItsType ==
  ASSUME NEW kinds, NEW what \in kinds, NEW k \in Int, NEW j \in Int
  PROVE  Cell(what, k, j) \in CellOf(kinds)
<1>1. NoName \in Means
  BY DEF NoName, Sym, Means
<1>2. QED
  BY <1>1 DEF Cell, CellOf, None

LEMMA CellsHaveTheirType ==
  ASSUME NEW kinds, NEW n \in Nat, NEW what \in kinds, NEW k \in Int
  PROVE  Cells(n, what, k) \in Seq(CellOf(kinds)) /\ Len(Cells(n, what, k)) = n
<1>1. \A j \in 1 .. n : Cell(what, k, j - 1) \in CellOf(kinds)
  BY CellHasItsType
<1>2. Cells(n, what, k) \in [1 .. n -> CellOf(kinds)]
  BY <1>1 DEF Cells
<1>3. QED
  BY <1>2, FunctionIsSequence

(* Patching changes neither how many cells there are nor what they are.    *)
LEMMA PatchingKeepsCells ==
  ASSUME NEW kinds, NEW cells \in Seq(CellOf(kinds)), NEW N \in Nat,
         NEW spans \in [1 .. N -> [site : Int, width : Int]], NEW values \in [1 .. N -> Int]
  PROVE  /\ Patched(cells, spans, values) \in Seq(CellOf(kinds))
         /\ Len(Patched(cells, spans, values)) = Len(cells)
<1> DEFINE over(i) == {k \in DOMAIN spans : i - spans[k].site \in 1 .. spans[k].width}
           cell(i) == IF over(i) = {} THEN cells[i]
                      ELSE [cells[i] EXCEPT !.value = values[Max(over(i))],
                                            !.part = i - spans[Max(over(i))].site - 1]
<1>1. Len(cells) \in Nat /\ DOMAIN cells = 1 .. Len(cells)
  OBVIOUS
<1>2. ASSUME NEW i \in 1 .. Len(cells)
      PROVE  cell(i) \in CellOf(kinds)
  <2>1. cells[i] \in CellOf(kinds)
    OBVIOUS
  <2>2. CASE over(i) = {}
    BY <2>1, <2>2
  <2>3. CASE over(i) # {}
    <3>1. over(i) \in SUBSET (1 .. N)
      OBVIOUS
    <3> HIDE DEF over
    <3>2. PICK last : last = Max(over(i)) /\ last \in 1 .. N
      BY <2>3, <3>1, LastIsOne
    <3>3. values[last] \in Int /\ i - spans[last].site - 1 \in Int
      BY <3>2
    <3>4. [cells[i] EXCEPT !.value = values[last], !.part = i - spans[last].site - 1]
            \in CellOf(kinds)
      BY <2>1, <3>3 DEF CellOf
    <3>5. QED
      BY <2>3, <3>2, <3>4
  <2>4. QED
    BY <2>2, <2>3
<1>3. Patched(cells, spans, values) = [i \in 1 .. Len(cells) |-> cell(i)]
  BY <1>1 DEF Patched
<1> HIDE DEF cell
<1>4. Patched(cells, spans, values) \in [1 .. Len(cells) -> CellOf(kinds)]
  BY <1>2, <1>3
<1>5. QED
  BY <1>1, <1>4, FunctionIsSequence

-----------------------------------------------------------------------------
(* Emission.                                                               *)

Window(blocks) ==
  [width : {4, 8}, means : Means, sym : Symbol]
  \cup [width : {4}, means : Means, sym : [of : {"Block"}, n : 1 .. blocks]]

LEMMA SymbolIsNoBlock ==
  ASSUME NEW s \in Symbol
  PROVE  s.of # "Block"
BY DEF Symbol, Helpers

LEMMA EmitWindowHasItsType ==
  ASSUME NEW blocks \in Nat, NEW e \in Emitter(blocks), NEW w \in Window(blocks)
  PROVE  EmitWindow(e, w) \in Emitter(blocks)
<1> DEFINE n      == IF w.width = 8 THEN 2 ELSE 1
           opcode == [k \in 1 .. n |-> [Cell("op", w.width, 0) EXCEPT !.means = w.means]]
           site   == Len(e.code) + Len(opcode)
           code   == e.code \o opcode \o Cells(w.width, "window", 0)
<1>1. w.width \in {4, 8} /\ w.width \in Nat /\ w.width \in Int /\ w.means \in Means
      /\ "op" \in CodeKinds /\ "window" \in CodeKinds /\ 0 \in Int
  BY DEF Window, CodeKinds
<1>2. opcode \in Seq(CellOf(CodeKinds)) /\ Len(opcode) \in Nat
  <2>1. Cell("op", w.width, 0) \in CellOf(CodeKinds)
    BY <1>1, CellHasItsType
  <2>2. [Cell("op", w.width, 0) EXCEPT !.means = w.means] \in CellOf(CodeKinds)
    BY <1>1, <2>1 DEF CellOf
  <2>3. n \in Nat /\ opcode \in [1 .. n -> CellOf(CodeKinds)]
    BY <2>2
  <2> HIDE DEF n, opcode
  <2>4. QED
    BY <2>3, FunctionIsSequence
<1>3. Cells(w.width, "window", 0) \in Seq(CellOf(CodeKinds))
  BY <1>1, CellsHaveTheirType
<1>4. e.code \in Seq(CellOf(CodeKinds))
  BY DEF Emitter
<1> HIDE DEF n, opcode
<1>5. code \in Seq(CellOf(CodeKinds)) /\ site \in Int
  BY <1>2, <1>3, <1>4
<1>6. CASE w.width = 8
  <2>1. w.sym \in Symbol
    BY <1>6 DEF Window
  <2> DEFINE r == [kind |-> "Abs64", section |-> "code", site |-> site, sym |-> w.sym]
  <2>2. r \in Reloc
    BY <1>5, <2>1 DEF Reloc
  <2>3. EmitWindow(e, w) = [e EXCEPT !.code = code, !.relocs = Append(@, r)]
    BY <1>6 DEF EmitWindow, opcode, n
  <2> HIDE DEF r, code
  <2>4. Append(e.relocs, r) \in Seq(Reloc)
    BY <2>2 DEF Emitter
  <2>5. QED
    BY <1>5, <2>3, <2>4 DEF Emitter
<1>7. CASE w.width # 8 /\ w.sym.of = "Block"
  <2>1. w.sym.n \in 1 .. blocks
    BY <1>7, SymbolIsNoBlock DEF Window
  <2> DEFINE p == [site |-> site, block |-> w.sym.n]
  <2>2. p \in [site : Int, block : 1 .. blocks]
    BY <1>5, <2>1
  <2>3. EmitWindow(e, w) = [e EXCEPT !.code = code, !.jumps = Append(@, p)]
    BY <1>7 DEF EmitWindow, opcode, n
  <2> HIDE DEF p, code
  <2>4. Append(e.jumps, p) \in Seq([site : Int, block : 1 .. blocks])
    BY <2>2 DEF Emitter
  <2>5. QED
    BY <1>5, <2>3, <2>4 DEF Emitter
<1>8. CASE w.width # 8 /\ w.sym.of # "Block"
  <2>1. w.sym \in Symbol
    BY <1>8 DEF Window
  <2> DEFINE p == [site |-> site, sym |-> w.sym]
  <2>2. p \in [site : Int, sym : Symbol]
    BY <1>5, <2>1
  <2>3. EmitWindow(e, w) = [e EXCEPT !.code = code, !.calls = Append(@, p)]
    BY <1>8 DEF EmitWindow, opcode, n
  <2> HIDE DEF p, code
  <2>4. Append(e.calls, p) \in Seq([site : Int, sym : Symbol])
    BY <2>2 DEF Emitter
  <2>5. QED
    BY <1>5, <2>3, <2>4 DEF Emitter
<1>9. QED
  BY <1>6, <1>7, <1>8

LEMMA EmitAllUnfolds ==
  ASSUME NEW blocks \in Nat, NEW e \in Emitter(blocks), NEW ws \in Seq(Window(blocks))
  PROVE  \E f : /\ f[0] = e /\ \A n \in 1 .. Len(ws) : f[n] = EmitWindow(f[n - 1], ws[n])
               /\ EmitAll(e, ws) = f[Len(ws)]
<1> DEFINE L == Len(ws)
           F(g) == [n \in 0 .. L |-> IF n = 0 THEN e ELSE EmitWindow(g[n - 1], ws[n])]
           H == [n \in 1 .. L |-> [x \in Emitter(blocks) |-> EmitWindow(x, ws[n])]]
<1>1. L \in Nat /\ \A n \in 1 .. L : ws[n] \in Window(blocks)
  OBVIOUS
<1>2. \A n \in 1 .. L : \A x \in Emitter(blocks) : EmitWindow(x, ws[n]) \in Emitter(blocks)
  BY <1>1, EmitWindowHasItsType
<1>3. H \in [1 .. L -> [Emitter(blocks) -> Emitter(blocks)]]
  BY <1>2
<1>4. \A n \in 1 .. L : \A x \in Emitter(blocks) : H[n][x] = EmitWindow(x, ws[n])
  OBVIOUS
<1>5. PICK g : g = F(g)
  <2> HIDE DEF L, H
  <2>1. PICK g \in [0 .. L -> Emitter(blocks)] : Recursive(g, L, e, H)
    BY <1>1, <1>3, Recursion
  <2>2. \A n \in 1 .. L : g[n] = EmitWindow(g[n - 1], ws[n])
    <3>1. \A n \in 1 .. L : n - 1 \in 0 .. L
      BY <1>1
    <3>2. \A n \in 1 .. L : g[n - 1] \in Emitter(blocks) /\ g[n] = H[n][g[n - 1]]
      BY <2>1, <3>1 DEF Recursive
    <3>3. QED
      BY <1>4, <3>2
  <2>3. \A n \in 0 .. L : g[n] = F(g)[n]
    <3>1. \A n \in 0 .. L : n # 0 => n \in 1 .. L
      BY <1>1
    <3>2. QED
      BY <2>1, <2>2, <3>1 DEF Recursive
  <2>4. g = F(g)
    BY <2>1, <2>3
  <2>5. QED
    BY <2>4
<1>6. PICK f : f = F(f) /\ EmitAll(e, ws) = f[L]
  <2> DEFINE f == CHOOSE h : h = F(h)
  <2>1. f = F(f)
    BY <1>5
  <2>2. EmitAll(e, ws) = f[L]
    BY DEF EmitAll
  <2>3. QED
    BY <2>1, <2>2
<1>7. f[0] = e /\ \A n \in 1 .. L : f[n] = EmitWindow(f[n - 1], ws[n])
  BY <1>1, <1>6
<1>8. QED
  BY <1>6, <1>7

LEMMA EmitAllHasItsType ==
  ASSUME NEW blocks \in Nat, NEW e \in Emitter(blocks), NEW ws \in Seq(Window(blocks))
  PROVE  EmitAll(e, ws) \in Emitter(blocks)
<1> DEFINE L == Len(ws)
<1>1. L \in Nat /\ \A n \in 1 .. L : ws[n] \in Window(blocks)
  OBVIOUS
<1>2. PICK f : /\ f[0] = e /\ \A n \in 1 .. L : f[n] = EmitWindow(f[n - 1], ws[n])
               /\ EmitAll(e, ws) = f[L]
  BY EmitAllUnfolds
<1> HIDE DEF L
<1>3. \A n \in 1 .. L : f[n - 1] \in Emitter(blocks) => f[n] \in Emitter(blocks)
  BY <1>1, <1>2, EmitWindowHasItsType
<1>4. \A n \in 0 .. L : f[n] \in Emitter(blocks)
  BY <1>1, <1>2, <1>3, Keeps
<1>5. L \in 0 .. L
  BY <1>1
<1>6. QED
  BY <1>2, <1>4, <1>5

(* What the program and the layout of its data are.                        *)
LEMMA ProgramHasItsType ==
  ASSUME prog \in Programs
  PROVE  /\ prog.strings \in Nat /\ prog.statics \in Nat /\ prog.heap \in Nat
         /\ Len(prog.fns) \in Nat /\ DOMAIN prog.fns = 1 .. Len(prog.fns)
         /\ prog.fns \in Seq(Seq(Seq([op : Items, n : Nat])))
         /\ Len(prog.vtables) \in Nat /\ DOMAIN prog.vtables = 1 .. Len(prog.vtables)
         /\ prog.vtables \in Seq(Seq({Hole} \cup DOMAIN prog.fns))
<1>1. IsProgram(prog)
  BY ProgramsAssumption
<1>2. /\ prog.fns \in Seq(Seq(Seq([op : Items, n : Nat])))
      /\ prog.vtables \in Seq(Seq({Hole} \cup DOMAIN prog.fns))
      /\ prog.strings \in Nat /\ prog.statics \in Nat /\ prog.heap \in Nat
  BY <1>1 DEF IsProgram
<1>3. Len(prog.fns) \in Nat /\ DOMAIN prog.fns = 1 .. Len(prog.fns)
  BY <1>2
<1>4. Len(prog.vtables) \in Nat /\ DOMAIN prog.vtables = 1 .. Len(prog.vtables)
  BY <1>2
<1>5. QED
  BY <1>2, <1>3, <1>4

LEMMA ClampStaysInside ==
  ASSUME NEW n \in Nat, n # 0, NEW s \in Seq(Int), Len(s) # 0
  PROVE  Clamp(n, s) \in 1 .. Len(s) /\ s[Clamp(n, s)] \in Int
<1>1. Len(s) \in Nat
  OBVIOUS
<1>2. Clamp(n, s) \in 1 .. Len(s)
  BY <1>1 DEF Clamp
<1>3. QED
  BY <1>2

(* A symbol that only needs a number.                                      *)
LEMMA SymbolOf ==
  ASSUME NEW of \in {"String", "VtableOff", "ExcState", "ArgvRsp", "HeapBase"} \cup Helpers,
         NEW n \in Int
  PROVE  Sym(of, n) \in Symbol
BY DEF Sym, Symbol

LEMMA FnSymbol ==
  ASSUME NEW n \in DOMAIN prog.fns
  PROVE  Sym("Fn", n) \in Symbol
BY DEF Sym, Symbol

LEMMA CallHasItsType ==
  ASSUME NEW blocks, NEW of \in {"Fn"} \cup Helpers, NEW n \in Int, Sym(of, n) \in Symbol
  PROVE  Call(of, n) \in Window(blocks)
<1>1. Sym(of, n) \in Means
  BY DEF Sym, Means
<1>2. QED
  BY <1>1 DEF Call, Window

LEMMA HelperCallHasItsType ==
  ASSUME NEW blocks, NEW of \in Helpers
  PROVE  Call(of, 0) \in Window(blocks)
<1>1. \A n \in Int : Call(of, n) \in Window(blocks)
  <2>1. ASSUME NEW n \in Int
        PROVE  Call(of, n) \in Window(blocks)
    <3>1. of \in {"String", "VtableOff", "ExcState", "ArgvRsp", "HeapBase"} \cup Helpers
          /\ of \in {"Fn"} \cup Helpers
      OBVIOUS
    <3>2. Sym(of, n) \in Symbol
      BY <3>1, SymbolOf
    <3>3. QED
      BY <3>1, <3>2, CallHasItsType
  <2>2. QED
    BY <2>1
<1>2. QED
  BY <1>1

LEMMA Abs64HasItsType ==
  ASSUME NEW blocks, NEW of \in {"Fn", "String", "Vtable", "Static", "ArgvRsp"}, NEW n \in Int,
         NEW sym \in Symbol
  PROVE  Abs64(of, n, sym) \in Window(blocks)
<1>1. Sym(of, n) \in Means
  BY DEF Sym, Means
<1>2. QED
  BY <1>1 DEF Abs64, Window

LEMMA Element ==
  ASSUME NEW S, NEW s \in Seq(S), NEW k \in DOMAIN s
  PROVE  s[k] \in S
OBVIOUS

LEMMA OneWindow ==
  ASSUME NEW S, NEW x \in S
  PROVE  <<x>> \in Seq(S)
OBVIOUS

(* The windows of an item are those of its program.                        *)
LEMMA WindowsHaveTheirType ==
  ASSUME TypeOK, phase = "functions", NEW j \in DOMAIN prog.fns,
         NEW b \in DOMAIN prog.fns[j], NEW k \in DOMAIN prog.fns[j][b]
  PROVE  Windows(prog.fns[j][b][k], j) \in Seq(Window(Len(prog.fns[j])))
<1> DEFINE item == prog.fns[j][b][k]
           W    == Window(Len(prog.fns[j]))
<1>1. prog \in Programs /\ IsProgram(prog)
  BY ProgramsAssumption DEF TypeOK
<1>2. /\ item.op \in {"Call", "CallStatic", "FnAddr"} => item.n \in DOMAIN prog.fns
      /\ item.op \in {"Jump", "JumpIf"} => item.n \in DOMAIN prog.fns[j]
      /\ item.op = "VTableAddr"     => item.n # 0 /\ prog.vtables # <<>>
      /\ item.op = "LoadStaticAddr" => item.n # 0 /\ prog.statics # 0
  BY <1>1 DEF IsProgram
<1>3. item \in [op : Items, n : Nat] /\ DOMAIN prog.fns[j] = 1 .. Len(prog.fns[j])
  <2>1. prog.fns \in Seq(Seq(Seq([op : Items, n : Nat])))
    BY <1>1, ProgramHasItsType
  <2>2. prog.fns[j] \in Seq(Seq([op : Items, n : Nat]))
    BY <2>1
  <2>3. prog.fns[j][b] \in Seq([op : Items, n : Nat])
    BY <2>2
  <2>4. item \in [op : Items, n : Nat]
    BY <2>3, Element
  <2>5. DOMAIN prog.fns[j] = 1 .. Len(prog.fns[j])
    BY <2>2
  <2>6. QED
    BY <2>4, <2>5
<1>4. /\ places.vtables \in Seq(Int) /\ Len(places.vtables) = Len(prog.vtables)
      /\ places.statics \in Seq(Int) /\ Len(places.statics) = prog.statics
  BY DEF TypeOK
<1> HIDE DEF item, W
<1>5. CASE item.op \in DOMAIN HelperOf
  <2>1. HelperOf[item.op] \in Helpers
    BY <1>5 DEF HelperOf, Helpers
  <2>2. Call(HelperOf[item.op], 0) \in W
    BY <2>1, HelperCallHasItsType DEF W
  <2>3. Windows(item, j) = <<Call(HelperOf[item.op], 0)>>
    BY <1>5 DEF Windows, HelperOf
  <2>4. QED
    BY <2>2, <2>3, OneWindow DEF W, item
<1>6. CASE item.op \in {"Call", "CallStatic"}
  <2>1. Call("Fn", item.n) \in W
    <3>1. Sym("Fn", item.n) \in Symbol /\ item.n \in Int
      BY <1>2, <1>3, <1>6, FnSymbol
    <3>2. QED
      BY <3>1, CallHasItsType DEF W
  <2>2. Windows(item, j) = <<Call("Fn", item.n)>>
    BY <1>6 DEF Windows, HelperOf
  <2>3. QED
    BY <2>1, <2>2, OneWindow DEF W, item
<1>7. CASE item.op = "FnAddr"
  <2>1. Abs64("Fn", item.n, Sym("Fn", item.n)) \in W
    <3>1. Sym("Fn", item.n) \in Symbol /\ item.n \in Int
      BY <1>2, <1>3, <1>7, FnSymbol
    <3>2. QED
      BY <3>1, Abs64HasItsType DEF W
  <2>2. Windows(item, j) = <<Abs64("Fn", item.n, Sym("Fn", item.n))>>
    BY <1>7 DEF Windows, HelperOf
  <2>3. QED
    BY <2>1, <2>2, OneWindow DEF W, item
<1>8. CASE item.op \in {"WriteStr", "EWriteStr", "LoadStrAddr"}
  <2>1. Abs64("String", item.n, Sym("String", item.n)) \in W
    <3>1. Sym("String", item.n) \in Symbol /\ item.n \in Int
      BY <1>3, SymbolOf
    <3>2. QED
      BY <3>1, Abs64HasItsType DEF W
  <2>2. Windows(item, j) = <<Abs64("String", item.n, Sym("String", item.n))>>
    BY <1>8 DEF Windows, HelperOf
  <2>3. QED
    BY <2>1, <2>2, OneWindow DEF W, item
<1>9. CASE item.op = "VTableAddr"
  <2> DEFINE off == places.vtables[Clamp(item.n, places.vtables)]
  <2>1. off \in Int
    <3>1. Len(places.vtables) # 0
      BY <1>1, <1>2, <1>4, <1>9, ProgramHasItsType
    <3>2. QED
      BY <1>2, <1>3, <1>4, <1>9, <3>1, ClampStaysInside
  <2> HIDE DEF off
  <2>2. Abs64("Vtable", item.n, Sym("VtableOff", off)) \in W
    <3>1. Sym("VtableOff", off) \in Symbol /\ item.n \in Int
      BY <1>3, <2>1, SymbolOf
    <3>2. QED
      BY <3>1, Abs64HasItsType DEF W
  <2>3. Windows(item, j) = <<Abs64("Vtable", item.n, Sym("VtableOff", off))>>
    BY <1>9 DEF Windows, HelperOf, off
  <2>4. QED
    BY <2>2, <2>3, OneWindow DEF W, item
<1>10. CASE item.op = "LoadStaticAddr"
  <2> DEFINE sym == Sym("Static", Clamp(item.n, places.statics))
  <2>1. sym \in Symbol
    <3>1. Clamp(item.n, places.statics) \in 1 .. prog.statics
      BY <1>2, <1>3, <1>4, <1>10, ClampStaysInside
    <3>2. QED
      BY <3>1 DEF Symbol, Sym
  <2>2. Abs64("Static", item.n, sym) \in W
    <3>1. item.n \in Int
      BY <1>3
    <3> HIDE DEF sym
    <3>2. QED
      BY <2>1, <3>1, Abs64HasItsType DEF W
  <2>3. Windows(item, j) = <<Abs64("Static", item.n, sym)>>
    BY <1>10 DEF Windows, HelperOf
  <2>4. QED
    BY <2>2, <2>3, OneWindow DEF W, item
<1>11. CASE item.op = "BuildArgv"
  <2>1. Abs64("ArgvRsp", 0, Sym("ArgvRsp", 0)) \in W
    BY SymbolOf, Abs64HasItsType DEF W
  <2>2. Call("Alloc", 0) \in W
    <3>1. "Alloc" \in Helpers
      BY DEF Helpers
    <3>2. QED
      BY <3>1, HelperCallHasItsType DEF W
  <2>3. Windows(item, j) = <<Abs64("ArgvRsp", 0, Sym("ArgvRsp", 0)), Call("Alloc", 0),
                             Call("Alloc", 0)>>
    BY <1>11 DEF Windows, HelperOf
  <2>4. \A x, y \in W : <<x, y, y>> \in Seq(W)
    OBVIOUS
  <2>5. QED
    BY <2>1, <2>2, <2>3, <2>4, Zenon DEF W, item
<1>12. CASE item.op \in {"Jump", "JumpIf"}
  <2> DEFINE w == [width |-> 4, means |-> [of |-> "Block", n |-> item.n, fn |-> j],
                   sym |-> Sym("Block", item.n)]
  <2>1. item.n \in 1 .. Len(prog.fns[j]) /\ item.n \in Int /\ j \in Int
    BY <1>1, <1>2, <1>3, <1>12, ProgramHasItsType
  <2>2. w \in W
    BY <2>1 DEF W, Window, Means, Sym
  <2>3. Windows(item, j) = <<w>>
    BY <1>12 DEF Windows, HelperOf
  <2> HIDE DEF w
  <2>4. QED
    BY <2>2, <2>3, OneWindow DEF W, item
<1>13. CASE item.op \in {"Ret", "Exit"}
  <2>1. Windows(item, j) = <<>>
    BY <1>13 DEF Windows, HelperOf
  <2>2. <<>> \in Seq(W)
    OBVIOUS
  <2>3. QED
    BY <2>1, <2>2, Zenon DEF W, item
<1>14. \/ item.op \in DOMAIN HelperOf \/ item.op \in {"Call", "CallStatic"} \/ item.op = "FnAddr"
       \/ item.op \in {"WriteStr", "EWriteStr", "LoadStrAddr"} \/ item.op = "VTableAddr"
       \/ item.op = "LoadStaticAddr" \/ item.op = "BuildArgv" \/ item.op \in {"Jump", "JumpIf"}
       \/ item.op \in {"Ret", "Exit"}
  <2>1. item.op \in Items
    BY <1>3
  <2>2. QED
    BY <2>1 DEF Items, HelperOf
<1>15. QED
  BY <1>5, <1>6, <1>7, <1>8, <1>9, <1>10, <1>11, <1>12, <1>13, <1>14

LEMMA EmitBlockHasItsType ==
  ASSUME TypeOK, phase = "functions", NEW j \in DOMAIN prog.fns, NEW b \in DOMAIN prog.fns[j],
         NEW e \in Emitter(Len(prog.fns[j]))
  PROVE  EmitBlock(e, prog.fns[j][b], b, j) \in Emitter(Len(prog.fns[j]))
<1> DEFINE items == prog.fns[j][b]
           blocks == Len(prog.fns[j])
           ws == [k \in DOMAIN items |-> Windows(items[k], j)]
           opened == [e EXCEPT !.code = Append(@, Cell("Block", b, j))]
<1>1. /\ blocks \in Nat /\ b \in Int /\ j \in Int
      /\ Len(items) \in Nat /\ DOMAIN items = 1 .. Len(items)
  <2>1. prog.fns \in Seq(Seq(Seq([op : Items, n : Nat]))) /\ DOMAIN prog.fns = 1 .. Len(prog.fns)
    BY ProgramHasItsType DEF TypeOK
  <2>2. prog.fns[j] \in Seq(Seq([op : Items, n : Nat]))
    BY <2>1
  <2>3. items \in Seq([op : Items, n : Nat])
    BY <2>2, Element
  <2>4. Len(items) \in Nat /\ DOMAIN items = 1 .. Len(items)
    BY <2>3
  <2>5. blocks \in Nat /\ DOMAIN prog.fns[j] = 1 .. blocks
    BY <2>2
  <2>6. j \in Int
    BY <2>1
  <2> HIDE DEF items, blocks
  <2>7. QED
    BY <2>4, <2>5, <2>6
<1>2. \A k \in DOMAIN items : Windows(items[k], j) \in Seq(Window(blocks))
  BY WindowsHaveTheirType
<1>3. opened \in Emitter(blocks)
  <2>1. "Block" \in CodeKinds
    BY DEF CodeKinds
  <2>2. Cell("Block", b, j) \in CellOf(CodeKinds)
    BY <1>1, <2>1, CellHasItsType
  <2>3. Append(e.code, Cell("Block", b, j)) \in Seq(CellOf(CodeKinds))
    BY <2>2 DEF Emitter
  <2> HIDE DEF blocks
  <2>4. e \in Emitter(blocks)
    BY DEF blocks
  <2>5. QED
    BY <2>3, <2>4 DEF Emitter
<1>4. EmitBlock(e, items, b, j) = EmitAll(opened, FlattenSeq(ws))
  BY DEF EmitBlock
<1> HIDE DEF items, blocks, opened
<1>5. ws \in Seq(Seq(Window(blocks)))
  <2>1. ws \in [1 .. Len(items) -> Seq(Window(blocks))]
    BY <1>1, <1>2
  <2> HIDE DEF ws
  <2>2. QED
    BY <1>1, <2>1, FunctionIsSequence
<1> HIDE DEF ws
<1>6. FlattenSeq(ws) \in Seq(Window(blocks))
  BY <1>5, Flatten
<1>7. EmitAll(opened, FlattenSeq(ws)) \in Emitter(blocks)
  BY <1>1, <1>3, <1>6, EmitAllHasItsType
<1>8. QED
  BY <1>4, <1>7 DEF items, blocks

LEMMA AfterBlocksUnfolds ==
  ASSUME TypeOK, phase = "functions", NEW j \in DOMAIN prog.fns,
         NEW e \in Emitter(Len(prog.fns[j]))
  PROVE  /\ AfterBlocks(e, j)[0] = e
         /\ \A b \in 1 .. Len(prog.fns[j]) :
              AfterBlocks(e, j)[b] = EmitBlock(AfterBlocks(e, j)[b - 1], prog.fns[j][b], b, j)
<1> DEFINE L == Len(prog.fns[j])
           T == Emitter(L)
           F(g) == [b \in 0 .. L |->
                     IF b = 0 THEN e ELSE EmitBlock(g[b - 1], prog.fns[j][b], b, j)]
           H == [b \in 1 .. L |-> [x \in T |-> EmitBlock(x, prog.fns[j][b], b, j)]]
<1>1. L \in Nat /\ DOMAIN prog.fns[j] = 1 .. L /\ e \in T
  <2>1. prog.fns \in Seq(Seq(Seq([op : Items, n : Nat])))
    BY ProgramHasItsType DEF TypeOK
  <2>2. prog.fns[j] \in Seq(Seq([op : Items, n : Nat]))
    BY <2>1
  <2>3. QED
    BY <2>2
<1>2. \A b \in 1 .. L : \A x \in T : EmitBlock(x, prog.fns[j][b], b, j) \in T
  <2>1. \A b \in DOMAIN prog.fns[j] : \A x \in T : EmitBlock(x, prog.fns[j][b], b, j) \in T
    BY EmitBlockHasItsType
  <2>2. QED
    BY <1>1, <2>1
<1> HIDE DEF T
<1>3. H \in [1 .. L -> [T -> T]]
  BY <1>2
<1>4. \A b \in 1 .. L : \A x \in T : H[b][x] = EmitBlock(x, prog.fns[j][b], b, j)
  OBVIOUS
<1>5. PICK g : g = F(g)
  <2> HIDE DEF L, H
  <2>1. PICK g \in [0 .. L -> T] : Recursive(g, L, e, H)
    BY <1>1, <1>3, Recursion
  <2>2. \A b \in 1 .. L : g[b] = EmitBlock(g[b - 1], prog.fns[j][b], b, j)
    <3>1. \A b \in 1 .. L : b - 1 \in 0 .. L
      BY <1>1
    <3>2. \A b \in 1 .. L : g[b - 1] \in T /\ g[b] = H[b][g[b - 1]]
      BY <2>1, <3>1 DEF Recursive
    <3>3. QED
      BY <1>4, <3>2
  <2>3. \A b \in 0 .. L : g[b] = F(g)[b]
    <3>1. \A b \in 0 .. L : b # 0 => b \in 1 .. L
      BY <1>1
    <3>2. QED
      BY <2>1, <2>2, <3>1 DEF Recursive
  <2>4. g = F(g)
    BY <2>1, <2>3
  <2>5. QED
    BY <2>4
<1>6. PICK f : f = F(f) /\ AfterBlocks(e, j) = f
  <2> DEFINE f == CHOOSE h : h = F(h)
  <2>1. f = F(f)
    BY <1>5
  <2>2. AfterBlocks(e, j) = f
    BY DEF AfterBlocks
  <2>3. QED
    BY <2>1, <2>2
<1>7. f[0] = e /\ \A b \in 1 .. L : f[b] = EmitBlock(f[b - 1], prog.fns[j][b], b, j)
  <2>1. \A b \in 0 .. L :
          f[b] = IF b = 0 THEN e ELSE EmitBlock(f[b - 1], prog.fns[j][b], b, j)
    BY <1>6, Zenon
  <2>2. 0 \in 0 .. L /\ \A b \in 1 .. L : b \in 0 .. L /\ b # 0
    BY <1>1
  <2> HIDE DEF F, L
  <2>3. QED
    BY <2>1, <2>2
<1>8. QED
  BY <1>6, <1>7

LEMMA AfterBlocksHasItsType ==
  ASSUME TypeOK, phase = "functions", NEW j \in DOMAIN prog.fns,
         NEW e \in Emitter(Len(prog.fns[j]))
  PROVE  \A b \in 0 .. Len(prog.fns[j]) : AfterBlocks(e, j)[b] \in Emitter(Len(prog.fns[j]))
<1> DEFINE L == Len(prog.fns[j])
           T == Emitter(L)
           f == AfterBlocks(e, j)
<1>1. L \in Nat /\ DOMAIN prog.fns[j] = 1 .. L /\ e \in T
  <2>1. prog.fns \in Seq(Seq(Seq([op : Items, n : Nat])))
    BY ProgramHasItsType DEF TypeOK
  <2>2. prog.fns[j] \in Seq(Seq([op : Items, n : Nat]))
    BY <2>1
  <2>3. QED
    BY <2>2
<1>2. \A b \in 1 .. L : \A x \in T : EmitBlock(x, prog.fns[j][b], b, j) \in T
  <2>1. \A b \in DOMAIN prog.fns[j] : \A x \in T : EmitBlock(x, prog.fns[j][b], b, j) \in T
    BY EmitBlockHasItsType
  <2>2. QED
    BY <1>1, <2>1
<1>3. f[0] = e /\ \A b \in 1 .. L : f[b] = EmitBlock(f[b - 1], prog.fns[j][b], b, j)
  BY AfterBlocksUnfolds
<1> HIDE DEF f, L, T
<1>4. \A b \in 1 .. L : f[b - 1] \in T => f[b] \in T
  BY <1>2, <1>3
<1>5. \A b \in 0 .. L : f[b] \in T
  BY <1>1, <1>3, <1>4, Keeps
<1>6. QED
  BY <1>5 DEF f, L, T

LEMMA PatchJumpsHasItsType ==
  ASSUME NEW blocks \in Nat, NEW e \in Emitter(blocks), NEW at \in [1 .. blocks -> Int]
  PROVE  PatchJumps(e, at) \in Emitter(0)
<1> DEFINE N == Len(e.jumps)
           spans  == [k \in 1 .. N |-> [site |-> e.jumps[k].site, width |-> 4]]
           values == [k \in 1 .. N |-> at[e.jumps[k].block] - (e.jumps[k].site + 4)]
<1>1. N \in Nat /\ DOMAIN e.jumps = 1 .. N
  BY DEF Emitter
<1>2. \A k \in 1 .. N : e.jumps[k].site \in Int /\ e.jumps[k].block \in 1 .. blocks
  <2>1. e.jumps \in Seq([site : Int, block : 1 .. blocks])
    BY DEF Emitter
  <2>2. \A k \in 1 .. N : e.jumps[k] \in [site : Int, block : 1 .. blocks]
    BY <1>1, <2>1, Element
  <2>3. QED
    BY <2>2
<1>3. PatchJumps(e, at) = [e EXCEPT !.code = Patched(@, spans, values), !.jumps = <<>>]
  BY <1>1 DEF PatchJumps
<1> HIDE DEF N
<1>4. spans \in [1 .. N -> [site : Int, width : Int]]
  BY <1>2
<1>5. values \in [1 .. N -> Int]
  <2>1. \A k \in 1 .. N : at[e.jumps[k].block] \in Int
    BY <1>2
  <2>2. ASSUME NEW k \in 1 .. N PROVE at[e.jumps[k].block] - (e.jumps[k].site + 4) \in Int
    <3>1. e.jumps[k].site \in Int /\ at[e.jumps[k].block] \in Int
      BY <1>2, <2>1
    <3>2. QED
      BY <3>1
  <2>3. QED
    BY <2>2
<1> HIDE DEF spans, values
<1>6. Patched(e.code, spans, values) \in Seq(CellOf(CodeKinds))
  <2>1. e.code \in Seq(CellOf(CodeKinds))
    BY DEF Emitter
  <2>2. QED
    BY <1>1, <1>4, <1>5, <2>1, PatchingKeepsCells
<1>7. <<>> \in Seq([site : Int, block : 1 .. 0])
  OBVIOUS
<1>8. QED
  BY <1>3, <1>6, <1>7 DEF Emitter

-----------------------------------------------------------------------------
(* The types of the lowering's state: one lemma for each of its steps.     *)

LEMMA OffsetsUnfold ==
  ASSUME NEW from \in Int, NEW N \in Nat, NEW sizes \in [1 .. N -> Int]
  PROVE  \E f : /\ f[0] = from /\ \A k \in 1 .. N : f[k] = f[k - 1] + sizes[k]
               /\ Offsets(from, sizes) = [k \in 1 .. N |-> f[k - 1]]
<1> DEFINE F(g) == [k \in 0 .. N |-> IF k = 0 THEN from ELSE g[k - 1] + sizes[k]]
           H == [k \in 1 .. N |-> [x \in Int |-> x + sizes[k]]]
<1>1. Len(sizes) = N
  BY FunctionIsSequence
<1>2. H \in [1 .. N -> [Int -> Int]]
  OBVIOUS
<1>3. \A k \in 1 .. N : \A x \in Int : H[k][x] = x + sizes[k]
  OBVIOUS
<1>4. PICK g : g = F(g)
  <2> HIDE DEF H
  <2>1. PICK g \in [0 .. N -> Int] : Recursive(g, N, from, H)
    BY <1>2, Recursion
  <2>2. \A k \in 1 .. N : g[k] = g[k - 1] + sizes[k]
    <3>1. \A k \in 1 .. N : k - 1 \in 0 .. N
      OBVIOUS
    <3>2. \A k \in 1 .. N : g[k - 1] \in Int /\ g[k] = H[k][g[k - 1]]
      BY <2>1, <3>1 DEF Recursive
    <3>3. QED
      BY <1>3, <3>2
  <2>3. \A k \in 0 .. N : g[k] = F(g)[k]
    <3>1. \A k \in 0 .. N : k # 0 => k \in 1 .. N
      OBVIOUS
    <3>2. QED
      BY <2>1, <2>2, <3>1 DEF Recursive
  <2>4. g = F(g)
    BY <2>1, <2>3
  <2>5. QED
    BY <2>4
<1>5. PICK f : f = F(f) /\ Offsets(from, sizes) = [k \in 1 .. N |-> f[k - 1]]
  <2> DEFINE f == CHOOSE h : h = F(h)
  <2>1. f = F(f)
    BY <1>4
  <2>2. Offsets(from, sizes) = [k \in 1 .. N |-> f[k - 1]]
    BY <1>1 DEF Offsets
  <2>3. QED
    BY <2>1, <2>2
<1>6. f[0] = from /\ \A k \in 1 .. N : f[k] = f[k - 1] + sizes[k]
  <2>1. \A k \in 0 .. N : f[k] = IF k = 0 THEN from ELSE f[k - 1] + sizes[k]
    BY <1>5, Zenon
  <2>2. 0 \in 0 .. N /\ \A k \in 1 .. N : k \in 0 .. N /\ k # 0
    OBVIOUS
  <2> HIDE DEF F
  <2>3. QED
    BY <2>1, <2>2
<1>7. QED
  BY <1>5, <1>6

LEMMA OffsetsHaveTheirType ==
  ASSUME NEW from \in Int, NEW N \in Nat, NEW sizes \in [1 .. N -> Int]
  PROVE  Offsets(from, sizes) \in Seq(Int) /\ Len(Offsets(from, sizes)) = N
<1>1. PICK f : /\ f[0] = from /\ \A k \in 1 .. N : f[k] = f[k - 1] + sizes[k]
               /\ Offsets(from, sizes) = [k \in 1 .. N |-> f[k - 1]]
  BY OffsetsUnfold
<1>2. \A k \in 0 .. N : f[k] \in Int
  <2>1. \A k \in 1 .. N : f[k - 1] \in Int => f[k] \in Int
    BY <1>1
  <2>2. QED
    BY <1>1, <2>1, Keeps
<1>3. Offsets(from, sizes) \in [1 .. N -> Int]
  <2>1. \A k \in 1 .. N : k - 1 \in 0 .. N
    OBVIOUS
  <2>2. QED
    BY <1>1, <1>2, <2>1
<1>4. QED
  BY <1>3, FunctionIsSequence

LEMMA InitIsTyped ==
  ASSUME Init
  PROVE  TypeOK
<1>1. /\ <<>> \in Seq(CellOf(CodeKinds)) /\ <<>> \in Seq(CellOf(DataKinds))
      /\ <<>> \in Seq(Reloc) /\ <<>> \in Seq([site : Int, sym : Symbol])
      /\ <<>> \in Seq([site : Int, block : 1 .. 0]) /\ <<>> \in Seq(Int)
  OBVIOUS
<1>2. emit \in Emitter(0)
  BY <1>1 DEF Init, Emitter
<1>3. places \in [vtables : Seq(Int), statics : Seq(Int), argv : Int, exc : Int]
  BY <1>1 DEF Init, None
<1>4. helperAt \in [Helpers -> Int]
  BY DEF Init, None
<1>5. starts \in Seq(Int) /\ Len(starts) <= Len(prog.fns)
  <2>1. Len(prog.fns) \in Nat /\ Len(<<>>) = 0
    BY ProgramHasItsType DEF Init
  <2>2. QED
    BY <1>1, <2>1 DEF Init
<1>6. phase = "data" /\ prog \in Programs /\ mode \in Modes
  BY DEF Init
<1>7. QED
  BY <1>2, <1>3, <1>4, <1>5, <1>6 DEF TypeOK

(* What a step has to show when it changes the emitter and the places.     *)
LEMMA LayOutDataIsTyped ==
  ASSUME TypeOK, LayOutData
  PROVE  TypeOK'
<1> DEFINE V == Len(prog.vtables)
           rowSizes == [r \in 1 .. V |-> 8 * Len(prog.vtables[r])]
           pieces   == [r \in 1 .. V |-> Cells(rowSizes[r], "vtable", r)]
           words    == FlattenSeq(pieces)
           singles  == [s \in 1 .. prog.statics |-> Cells(8, "static", s)]
           fields   == FlattenSeq(singles)
           eights   == [s \in 1 .. prog.statics |-> 8]
           D        == Seq(CellOf(DataKinds))
<1>1. /\ prog \in Programs /\ V \in Nat /\ DOMAIN prog.vtables = 1 .. V
      /\ prog.strings \in Nat /\ prog.statics \in Nat
  BY ProgramHasItsType DEF TypeOK
<1>2. \A r \in 1 .. V : rowSizes[r] \in Nat
  <2>1. prog.vtables \in Seq(Seq({Hole} \cup DOMAIN prog.fns))
    BY <1>1, ProgramHasItsType
  <2>2. \A r \in 1 .. V : prog.vtables[r] \in Seq({Hole} \cup DOMAIN prog.fns)
    BY <1>1, <2>1, Element
  <2>3. \A r \in 1 .. V : Len(prog.vtables[r]) \in Nat
    BY <2>2
  <2> HIDE DEF V
  <2>4. QED
    BY <2>3
<1>3. rowSizes \in [1 .. V -> Int] /\ DOMAIN rowSizes = 1 .. V
  BY <1>2
<1>4. "string" \in DataKinds /\ "vtable" \in DataKinds /\ "static" \in DataKinds
  BY DEF DataKinds
<1> HIDE DEF V, rowSizes
<1>5. words \in D /\ Len(words) \in Int
  <2>1. pieces \in [1 .. V -> D]
    <3>1. \A r \in 1 .. V : r \in Int /\ rowSizes[r] \in Nat
      BY <1>1, <1>2
    <3>2. \A r \in 1 .. V : Cells(rowSizes[r], "vtable", r) \in D
      BY <1>4, <3>1, CellsHaveTheirType
    <3> HIDE DEF D
    <3>3. QED
      BY <3>2
  <2> HIDE DEF pieces, D
  <2>2. pieces \in Seq(D)
    BY <1>1, <2>1, FunctionIsSequence
  <2>3. words \in D
    BY <2>2, Flatten DEF D
  <2> HIDE DEF words
  <2>4. QED
    BY <2>3 DEF D
<1>6. fields \in D
  <2>1. singles \in [1 .. prog.statics -> D]
    BY <1>1, <1>4, CellsHaveTheirType
  <2> HIDE DEF singles, D
  <2>2. singles \in Seq(D)
    BY <1>1, <2>1, FunctionIsSequence
  <2>3. QED
    BY <2>2, Flatten DEF D
<1>7. Cells(prog.strings, "string", 0) \in D
  <2>1. \A k \in Int : Cells(prog.strings, "string", k) \in D
    BY <1>1, <1>4, CellsHaveTheirType
  <2> HIDE DEF D
  <2>2. QED
    BY <2>1
<1>8. emit' = [emit EXCEPT !.data = Cells(prog.strings, "string", 0) \o words \o fields]
  BY <1>1 DEF LayOutData, rowSizes
<1>9. places' = [places EXCEPT !.vtables = Offsets(prog.strings, rowSizes),
                               !.statics = Offsets(prog.strings + Len(words), eights)]
  BY <1>1 DEF LayOutData, rowSizes
<1> HIDE DEF words, fields
<1>10. Cells(prog.strings, "string", 0) \o words \o fields \in D
  BY <1>5, <1>6, <1>7
<1>11. UNCHANGED <<prog, mode, starts, helperAt>> /\ phase' = "functions"
  BY DEF LayOutData
<1>12. emit' \in Emitter(0)
  <2>1. emit \in Emitter(0)
    BY DEF TypeOK
  <2>2. QED
    BY <1>8, <1>10, <2>1 DEF Emitter
<1>13. Emitter(0)' = Emitter(0)
  BY <1>11 DEF Emitter, Reloc, Symbol
<1>14. /\ Offsets(prog.strings, rowSizes) \in Seq(Int)
       /\ Len(Offsets(prog.strings, rowSizes)) = V
  BY <1>1, <1>3, OffsetsHaveTheirType
<1>15. /\ Offsets(prog.strings + Len(words), eights) \in Seq(Int)
       /\ Len(Offsets(prog.strings + Len(words), eights)) = prog.statics
  <2>1. eights \in [1 .. prog.statics -> Int] /\ prog.strings + Len(words) \in Int
    BY <1>1, <1>5
  <2> HIDE DEF eights
  <2>2. QED
    BY <1>1, <2>1, OffsetsHaveTheirType
<1> HIDE DEF eights
<1>16. /\ places' \in [vtables : Seq(Int), statics : Seq(Int), argv : Int, exc : Int]
       /\ Len(places'.vtables) = V /\ Len(places'.statics) = prog.statics
  <2>1. places \in [vtables : Seq(Int), statics : Seq(Int), argv : Int, exc : Int]
    BY DEF TypeOK
  <2>2. QED
    BY <1>9, <1>14, <1>15, <2>1
<1>17. QED
  BY <1>11, <1>12, <1>13, <1>16 DEF TypeOK, V

LEMMA WiderSequence ==
  ASSUME NEW S, NEW T, S \subseteq T, NEW s \in Seq(S)
  PROVE  s \in Seq(T)
<1>1. Len(s) \in Nat /\ s \in [1 .. Len(s) -> S]
  OBVIOUS
<1>2. s \in [1 .. Len(s) -> T]
  BY <1>1
<1>3. QED
  BY <1>1, <1>2, FunctionIsSequence

LEMMA NoJumpsYet ==
  ASSUME NEW blocks \in Nat, NEW e \in Emitter(0)
  PROVE  e \in Emitter(blocks)
<1> DEFINE A == [site : Int, block : 1 .. 0]
           B == [site : Int, block : 1 .. blocks]
<1>1. A \subseteq B
  OBVIOUS
<1>2. e.jumps \in Seq(A)
  BY DEF Emitter
<1>3. e.jumps \in Seq(B)
  <2> HIDE DEF A, B
  <2>1. QED
    BY <1>1, <1>2, WiderSequence
<1>4. QED
  BY <1>3 DEF Emitter

LEMMA EmitFunctionIsTyped ==
  ASSUME TypeOK, EmitFunction
  PROVE  TypeOK'
<1> DEFINE j      == Len(starts) + 1
           L      == Len(prog.fns[j])
           marked == [emit EXCEPT !.code = Append(@, Cell("Fn", j, 0))]
           stub   == Abs64("ArgvRsp", 0, Sym("ArgvRsp", 0))
           opened == IF j = 1 /\ "argv" \in uses THEN EmitWindow(marked, stub) ELSE marked
           after  == AfterBlocks(opened, j)
           at     == [b \in 1 .. L |-> Len(after[b - 1].code)]
<1>1. prog \in Programs /\ phase = "functions" /\ emit \in Emitter(0)
  BY DEF TypeOK, EmitFunction
<1>2. /\ starts \in Seq(Int) /\ Len(starts) \in Nat /\ j \in DOMAIN prog.fns /\ j \in Int
      /\ Len(starts) + 1 <= Len(prog.fns)
  <2>1. starts \in Seq(Int) /\ Len(starts) < Len(prog.fns)
    BY DEF TypeOK, EmitFunction
  <2>2. Len(prog.fns) \in Nat /\ DOMAIN prog.fns = 1 .. Len(prog.fns)
    BY <1>1, ProgramHasItsType
  <2>3. Len(starts) \in Nat
    BY <2>1
  <2>4. QED
    BY <2>1, <2>2, <2>3
<1> HIDE DEF j
<1>3. L \in Nat /\ DOMAIN prog.fns[j] = 1 .. L
  <2>1. prog.fns \in Seq(Seq(Seq([op : Items, n : Nat])))
    BY <1>1, ProgramHasItsType
  <2>2. prog.fns[j] \in Seq(Seq([op : Items, n : Nat]))
    BY <1>2, <2>1, Element
  <2>3. QED
    BY <2>2
<1>4. emit' = PatchJumps(after[L], at) /\ starts' = Append(starts, Len(emit.code))
  BY <1>3 DEF EmitFunction, j
<1>5. UNCHANGED <<prog, mode, phase, places, helperAt>>
  BY DEF EmitFunction
<1> HIDE DEF L
<1>6. opened \in Emitter(L)
  <2>1. emit \in Emitter(L)
    BY <1>1, <1>3, NoJumpsYet
  <2>2. Cell("Fn", j, 0) \in CellOf(CodeKinds)
    <3>1. "Fn" \in CodeKinds
      BY DEF CodeKinds
    <3>2. \A k \in Int : Cell("Fn", j, k) \in CellOf(CodeKinds)
      BY <1>2, <3>1, CellHasItsType
    <3>3. QED
      BY <3>2
  <2>3. Append(emit.code, Cell("Fn", j, 0)) \in Seq(CellOf(CodeKinds))
    BY <2>1, <2>2 DEF Emitter
  <2>4. marked \in Emitter(L)
    BY <2>1, <2>3 DEF Emitter
  <2>5. stub \in Window(L)
    BY SymbolOf, Abs64HasItsType
  <2> HIDE DEF marked, stub
  <2>6. EmitWindow(marked, stub) \in Emitter(L)
    BY <1>3, <2>4, <2>5, EmitWindowHasItsType
  <2>7. QED
    BY <2>4, <2>6
<1> HIDE DEF opened
<1>7. \A b \in 0 .. L : after[b] \in Emitter(L)
  BY <1>1, <1>2, <1>6, AfterBlocksHasItsType DEF L
<1> HIDE DEF after
<1>8. at \in [1 .. L -> Int]
  <2>1. ASSUME NEW b \in 1 .. L
        PROVE  Len(after[b - 1].code) \in Int
    <3>1. after[b - 1] \in Emitter(L)
      BY <1>3, <1>7
    <3>2. after[b - 1].code \in Seq(CellOf(CodeKinds))
      BY <3>1 DEF Emitter
    <3>3. QED
      BY <3>2
  <2>2. QED
    BY <2>1
<1> HIDE DEF at
<1>9. emit' \in Emitter(0)
  <2>1. after[L] \in Emitter(L)
    BY <1>3, <1>7
  <2>2. QED
    BY <1>3, <1>4, <1>8, <2>1, PatchJumpsHasItsType
<1>10. Emitter(0)' = Emitter(0)
  BY <1>5 DEF Emitter, Reloc, Symbol
<1>11. starts' \in Seq(Int) /\ Len(starts') = Len(starts) + 1
  <2>1. emit.code \in Seq(CellOf(CodeKinds))
    BY <1>1 DEF Emitter
  <2>2. Len(emit.code) \in Int
    BY <2>1
  <2>3. QED
    BY <1>2, <1>4, <2>2
<1>12. QED
  BY <1>1, <1>2, <1>5, <1>9, <1>10, <1>11 DEF TypeOK

LEMMA AppendedHasItsType == Appended \in Seq(Helpers)
<1> DEFINE one(k) == IF PlainHelpers[k] \in uses THEN <<PlainHelpers[k]>> ELSE <<>>
           ones   == [k \in 1 .. 6 |-> one(k)]
<1>1. DOMAIN PlainHelpers = 1 .. 6 /\ \A k \in 1 .. 6 : PlainHelpers[k] \in Helpers
  BY DEF PlainHelpers, Helpers
<1>2. ASSUME NEW k \in 1 .. 6
      PROVE  one(k) \in Seq(Helpers)
  <2>1. <<PlainHelpers[k]>> \in Seq(Helpers)
    BY <1>1, OneWindow
  <2>2. <<>> \in Seq(Helpers)
    OBVIOUS
  <2>3. QED
    BY <2>1, <2>2, Zenon
<1>3. ones \in [1 .. 6 -> Seq(Helpers)]
  BY <1>2
<1>4. Appended = FlattenSeq(ones) \o (IF "exc" \in uses THEN ExcHelpers ELSE <<>>)
  BY <1>1 DEF Appended
<1> HIDE DEF ones
<1>5. ones \in Seq(Seq(Helpers))
  BY <1>3, FunctionIsSequence
<1>6. FlattenSeq(ones) \in Seq(Helpers)
  BY <1>5, Flatten
<1>7. ExcHelpers \in Seq(Helpers)
  BY DEF ExcHelpers, Helpers
<1>8. QED
  BY <1>4, <1>6, <1>7

LEMMA AppendHelpersIsTyped ==
  ASSUME TypeOK, AppendHelpers
  PROVE  TypeOK'
<1> DEFINE N      == Len(Appended)
           sizes  == [k \in DOMAIN Appended |-> Size[Appended[k]]]
           at     == Offsets(Len(emit.code), sizes)
           argv   == IF "argv" \in uses THEN Cells(8, "argv", 0) ELSE <<>>
           exc    == IF "exc" \in uses THEN Cells(ExcSize, "exc", 0) ELSE <<>>
           pieces == [k \in DOMAIN at |-> Cells(Size[Appended[k]], Appended[k], 0)]
           C      == Seq(CellOf(CodeKinds))
           D      == Seq(CellOf(DataKinds))
<1>1. /\ N \in Nat /\ DOMAIN Appended = 1 .. N
      /\ \A k \in 1 .. N : Appended[k] \in Helpers /\ Size[Appended[k]] \in Nat
  <2>1. Appended \in Seq(Helpers)
    BY AppendedHasItsType
  <2>2. N \in Nat /\ DOMAIN Appended = 1 .. N
    BY <2>1
  <2>3. \A k \in 1 .. N : Appended[k] \in Helpers
    BY <2>1, <2>2, Element
  <2>4. QED
    BY <2>2, <2>3, SizeAssumption
<1>2. emit \in Emitter(0) /\ emit.code \in C /\ emit.data \in D
  BY DEF TypeOK, Emitter
<1>3. Len(emit.code) \in Int /\ Len(emit.data) \in Int
  BY <1>2
<1> HIDE DEF N
<1>4. at \in Seq(Int) /\ Len(at) = N /\ DOMAIN at = 1 .. N
  <2>1. sizes \in [1 .. N -> Int]
    BY <1>1
  <2> HIDE DEF sizes
  <2>2. at \in Seq(Int) /\ Len(at) = N
    BY <1>1, <1>3, <2>1, OffsetsHaveTheirType
  <2> HIDE DEF at
  <2>3. QED
    BY <2>2
<1>5. /\ helperAt' = [h \in Helpers |->
                       IF h \in ToSet(Appended) THEN at[CHOOSE k \in DOMAIN at : Appended[k] = h]
                       ELSE None]
      /\ emit' = [emit EXCEPT !.code = @ \o FlattenSeq(pieces), !.data = @ \o argv \o exc]
      /\ phase' = "relocs" /\ UNCHANGED <<prog, mode, starts>>
      /\ phase = "functions" /\ Len(starts) = Len(prog.fns)
  BY DEF AppendHelpers
<1> DEFINE argvAt == IF argv # <<>> THEN Len(emit.data) ELSE None
           excAt  == IF exc # <<>> THEN Len(emit.data) + Len(argv) ELSE None
<1>6. places' = [places EXCEPT !.argv = argvAt, !.exc = excAt]
  BY DEF AppendHelpers
<1> HIDE DEF at
<1>7. helperAt' \in [Helpers -> Int]
  <2>1. ASSUME NEW h \in Helpers, h \in ToSet(Appended)
        PROVE  at[CHOOSE k \in DOMAIN at : Appended[k] = h] \in Int
    <3>1. \E k \in DOMAIN at : Appended[k] = h
      BY <1>1, <1>4, <2>1 DEF ToSet
    <3>2. (CHOOSE k \in DOMAIN at : Appended[k] = h) \in DOMAIN at
      BY <3>1
    <3>3. QED
      BY <1>4, <3>2, Element
  <2>2. None \in Int
    BY DEF None
  <2>3. QED
    BY <1>5, <2>1, <2>2
<1>8. FlattenSeq(pieces) \in C
  <2>1. Helpers \subseteq CodeKinds
    BY DEF CodeKinds
  <2>2. ASSUME NEW k \in 1 .. N
        PROVE  Cells(Size[Appended[k]], Appended[k], 0) \in C
    <3>1. PICK what : what = Appended[k] /\ what \in CodeKinds
      BY <1>1, <2>1
    <3>2. PICK n \in Nat : n = Size[Appended[k]]
      BY <1>1
    <3>3. \A i \in Int : Cells(n, what, i) \in C
      BY <3>1, CellsHaveTheirType
    <3> HIDE DEF C
    <3>4. Cells(n, what, 0) \in C
      BY <3>3
    <3>5. QED
      BY <3>1, <3>2, <3>4, Zenon
  <2>3. pieces \in [1 .. N -> C]
    BY <1>4, <2>2
  <2> HIDE DEF pieces, C
  <2>4. pieces \in Seq(C)
    BY <1>1, <2>3, FunctionIsSequence
  <2>5. QED
    BY <2>4, Flatten DEF C
<1>9. argv \in D /\ exc \in D
  <2>1. "argv" \in DataKinds /\ "exc" \in DataKinds /\ ExcSize \in Nat /\ 8 \in Nat
    BY SizeAssumption DEF DataKinds
  <2>2. \A k \in Int : Cells(8, "argv", k) \in D /\ Cells(ExcSize, "exc", k) \in D
    BY <2>1, CellsHaveTheirType
  <2>3. <<>> \in D /\ 0 \in Int
    OBVIOUS
  <2> HIDE DEF D
  <2>4. argv \in D
    BY <2>2, <2>3, Zenon
  <2>5. exc \in D
    BY <2>2, <2>3, Zenon
  <2>6. QED
    BY <2>4, <2>5
<1> HIDE DEF argv, exc, pieces
<1>10. emit' \in Emitter(0)
  <2>1. emit.code \o FlattenSeq(pieces) \in C
    BY <1>2, <1>8
  <2>2. emit.data \o argv \o exc \in D
    BY <1>2, <1>9
  <2>3. QED
    BY <1>2, <1>5, <2>1, <2>2 DEF Emitter
<1>11. Emitter(0)' = Emitter(0)
  BY <1>5 DEF Emitter, Reloc, Symbol
<1>12. places' \in [vtables : Seq(Int), statics : Seq(Int), argv : Int, exc : Int]
       /\ places'.vtables = places.vtables /\ places'.statics = places.statics
  <2>1. None \in Int
    BY DEF None
  <2>2. Len(argv) \in Int
    BY <1>9
  <2>3. argvAt \in Int /\ excAt \in Int
    BY <1>3, <2>1, <2>2
  <2>4. places \in [vtables : Seq(Int), statics : Seq(Int), argv : Int, exc : Int]
    BY DEF TypeOK
  <2> HIDE DEF argvAt, excAt
  <2>5. QED
    BY <1>6, <2>3, <2>4
<1>13. QED
  BY <1>5, <1>7, <1>10, <1>11, <1>12 DEF TypeOK

(* A relocation of the code, or of the data.                               *)
LEMMA RelocOf ==
  ASSUME NEW kind \in {"Abs64", "Rel32Call"}, NEW section \in {"code", "data"},
         NEW site \in Int, NEW sym \in Symbol
  PROVE  [kind |-> kind, section |-> section, site |-> site, sym |-> sym] \in Reloc
BY DEF Reloc

LEMMA CallRelocsHaveTheirType ==
  ASSUME TypeOK
  PROVE  CallRelocs \in Seq(Reloc)
<1> DEFINE N == Len(emit.calls)
           call(k) == [kind |-> "Rel32Call", section |-> "code",
                       site |-> emit.calls[k].site, sym |-> emit.calls[k].sym]
<1>1. emit.calls \in Seq([site : Int, sym : Symbol])
  BY DEF TypeOK, Emitter
<1>2. N \in Nat /\ DOMAIN emit.calls = 1 .. N
  BY <1>1
<1>3. ASSUME NEW k \in 1 .. N
      PROVE  call(k) \in Reloc
  <2>1. emit.calls[k] \in [site : Int, sym : Symbol]
    BY <1>1, <1>2, Element
  <2>2. QED
    BY <2>1, RelocOf
<1>4. CallRelocs = [k \in 1 .. N |-> call(k)]
  BY <1>2 DEF CallRelocs
<1> HIDE DEF N, call
<1>5. CallRelocs \in [1 .. N -> Reloc]
  BY <1>3, <1>4
<1>6. QED
  BY <1>2, <1>5, FunctionIsSequence

(* The words of a vtable, and the operands of helpers.                     *)
VtableReloc(r, s) == [kind |-> "Abs64", section |-> "data", site |-> places.vtables[r] + 8 * (s - 1),
                      sym |-> Sym("Fn", prog.vtables[r][s])]
VtableWord(r, s) == IF prog.vtables[r][s] = Hole THEN <<>> ELSE <<VtableReloc(r, s)>>
VtableRow(r)     == [s \in DOMAIN prog.vtables[r] |-> VtableWord(r, s)]
VtableRows       == [r \in DOMAIN prog.vtables |-> FlattenSeq(VtableRow(r))]

LEMMA VtableWordsHaveTheirType ==
  ASSUME TypeOK, phase # "data", NEW r \in DOMAIN prog.vtables, NEW s \in DOMAIN prog.vtables[r]
  PROVE  VtableWord(r, s) \in Seq(Reloc)
<1>1. /\ Len(prog.vtables) \in Nat /\ DOMAIN prog.vtables = 1 .. Len(prog.vtables)
      /\ prog.vtables \in Seq(Seq({Hole} \cup DOMAIN prog.fns))
  BY ProgramHasItsType DEF TypeOK
<1>2. places.vtables \in Seq(Int) /\ Len(places.vtables) = Len(prog.vtables)
  BY DEF TypeOK
<1>3. prog.vtables[r] \in Seq({Hole} \cup DOMAIN prog.fns)
  BY <1>1, Element
<1>4. prog.vtables[r][s] \in {Hole} \cup DOMAIN prog.fns /\ s \in Int
  BY <1>3, Element
<1>5. CASE prog.vtables[r][s] = Hole
  <2>1. VtableWord(r, s) = <<>>
    BY <1>5 DEF VtableWord
  <2>2. <<>> \in Seq(Reloc)
    OBVIOUS
  <2>3. QED
    BY <2>1, <2>2, Zenon
<1>6. CASE prog.vtables[r][s] # Hole
  <2>1. Sym("Fn", prog.vtables[r][s]) \in Symbol
    BY <1>4, <1>6, FnSymbol
  <2>2. places.vtables[r] + 8 * (s - 1) \in Int
    <3>1. places.vtables[r] \in Int
      BY <1>1, <1>2
    <3>2. QED
      BY <1>4, <3>1
  <2>3. VtableReloc(r, s) \in Reloc
    BY <2>1, <2>2, RelocOf DEF VtableReloc
  <2>4. VtableWord(r, s) = <<VtableReloc(r, s)>>
    BY <1>6 DEF VtableWord
  <2>5. QED
    BY <2>3, <2>4, OneWindow
<1>7. QED
  BY <1>5, <1>6

LEMMA VtableRowsHaveTheirType ==
  ASSUME TypeOK, phase # "data"
  PROVE  /\ VtableRelocs = FlattenSeq(VtableRows)
         /\ VtableRows \in Seq(Seq(Reloc)) /\ Len(VtableRows) = Len(prog.vtables)
         /\ \A r \in DOMAIN prog.vtables : /\ VtableRow(r) \in Seq(Seq(Reloc))
                                           /\ Len(VtableRow(r)) = Len(prog.vtables[r])
<1> DEFINE V == Len(prog.vtables)
<1>1. /\ V \in Nat /\ DOMAIN prog.vtables = 1 .. V
      /\ prog.vtables \in Seq(Seq({Hole} \cup DOMAIN prog.fns))
  BY ProgramHasItsType DEF TypeOK
<1>2. VtableRelocs = FlattenSeq(VtableRows)
  BY DEF VtableRelocs, VtableRows, VtableRow, VtableWord, VtableReloc
<1> HIDE DEF V
<1>3. ASSUME NEW r \in 1 .. V
      PROVE  VtableRow(r) \in Seq(Seq(Reloc)) /\ Len(VtableRow(r)) = Len(prog.vtables[r])
  <2> DEFINE M == Len(prog.vtables[r])
  <2>1. M \in Nat /\ DOMAIN prog.vtables[r] = 1 .. M
    <3>1. prog.vtables[r] \in Seq({Hole} \cup DOMAIN prog.fns)
      BY <1>1, Element
    <3>2. QED
      BY <3>1
  <2> HIDE DEF M
  <2>2. \A s \in 1 .. M : VtableWord(r, s) \in Seq(Reloc)
    BY <1>1, <2>1, VtableWordsHaveTheirType
  <2>3. VtableRow(r) \in [1 .. M -> Seq(Reloc)]
    BY <2>1, <2>2 DEF VtableRow
  <2>4. VtableRow(r) \in Seq(Seq(Reloc)) /\ Len(VtableRow(r)) = M
    BY <2>1, <2>3, FunctionIsSequence
  <2>5. QED
    BY <2>4 DEF M
<1>4. \A r \in 1 .. V : FlattenSeq(VtableRow(r)) \in Seq(Reloc)
  BY <1>3, Flatten
<1>5. VtableRows \in [1 .. V -> Seq(Reloc)]
  BY <1>1, <1>4 DEF VtableRows
<1>6. VtableRows \in Seq(Seq(Reloc)) /\ Len(VtableRows) = V
  BY <1>1, <1>5, FunctionIsSequence
<1>7. QED
  BY <1>1, <1>2, <1>3, <1>6 DEF V

LEMMA VtableRelocsHaveTheirType ==
  ASSUME TypeOK, phase # "data"
  PROVE  VtableRelocs \in Seq(Reloc)
BY VtableRowsHaveTheirType, Flatten

OperandSym(h) == IF h \in {"Alloc", "Release"} THEN Sym("HeapBase", 0) ELSE Sym("ExcState", places.exc)

HelperReloc(h)  == [kind |-> "Abs64", section |-> "code", site |-> helperAt[h] + Operand(h),
                    sym |-> OperandSym(h)]
HelperWindow(h) == IF helperAt[h] = None THEN <<>> ELSE <<HelperReloc(h)>>
ExcWindows      == [k \in 1 .. 6 |-> HelperWindow(ExcHelpers[k])]

LEMMA HelperWindowsHaveTheirType ==
  ASSUME TypeOK
  PROVE  /\ \A h \in Helpers : HelperWindow(h) \in Seq(Reloc)
         /\ ExcWindows \in Seq(Seq(Reloc)) /\ Len(ExcWindows) = 6
         /\ HelperRelocs = HelperWindow("Alloc") \o HelperWindow("Release") \o FlattenSeq(ExcWindows)
<1>1. Sym("HeapBase", 0) \in Symbol /\ Sym("ExcState", places.exc) \in Symbol
  <2>1. places.exc \in Int
    BY DEF TypeOK
  <2>2. QED
    BY <2>1, SymbolOf
<1>2. ASSUME NEW h \in Helpers
      PROVE  HelperWindow(h) \in Seq(Reloc)
  <2>1. helperAt[h] + Operand(h) \in Int
    <3>1. helperAt[h] \in Int
      BY DEF TypeOK
    <3>2. Operand(h) \in Int
      BY DEF Operand, AllocWindow, ReleaseWindow, ExcWindow
    <3>3. QED
      BY <3>1, <3>2
  <2>2. OperandSym(h) \in Symbol
    BY <1>1 DEF OperandSym
  <2>3. HelperReloc(h) \in Reloc
    BY <2>1, <2>2, RelocOf DEF HelperReloc
  <2>4. <<HelperReloc(h)>> \in Seq(Reloc)
    BY <2>3, OneWindow
  <2>5. <<>> \in Seq(Reloc)
    OBVIOUS
  <2>6. QED
    BY <2>4, <2>5, Zenon DEF HelperWindow
<1>3. /\ DOMAIN ExcHelpers = 1 .. 6 /\ \A k \in 1 .. 6 : ExcHelpers[k] \in Helpers
      /\ \A k \in 1 .. 6 : ExcHelpers[k] \notin {"Alloc", "Release"}
  BY DEF ExcHelpers, Helpers
<1>4. ExcWindows \in Seq(Seq(Reloc)) /\ Len(ExcWindows) = 6
  <2>1. ExcWindows \in [1 .. 6 -> Seq(Reloc)]
    BY <1>2, <1>3 DEF ExcWindows
  <2>2. QED
    BY <2>1, FunctionIsSequence
<1>5. HelperRelocs = HelperWindow("Alloc") \o HelperWindow("Release") \o FlattenSeq(ExcWindows)
  <2> DEFINE window(h, offset, sym) ==
        IF helperAt[h] = None THEN <<>>
        ELSE <<[kind |-> "Abs64", section |-> "code", site |-> helperAt[h] + offset, sym |-> sym]>>
  <2>1. HelperRelocs = window("Alloc", AllocWindow, Sym("HeapBase", 0))
                       \o window("Release", ReleaseWindow, Sym("HeapBase", 0))
                       \o FlattenSeq([k \in 1 .. 6 |->
                            window(ExcHelpers[k], ExcWindow, Sym("ExcState", places.exc))])
    BY <1>3 DEF HelperRelocs
  <2>2. /\ HelperWindow("Alloc") = window("Alloc", AllocWindow, Sym("HeapBase", 0))
        /\ HelperWindow("Release") = window("Release", ReleaseWindow, Sym("HeapBase", 0))
    BY DEF HelperWindow, HelperReloc, Operand, OperandSym
  <2>3. \A k \in 1 .. 6 : HelperWindow(ExcHelpers[k])
                            = window(ExcHelpers[k], ExcWindow, Sym("ExcState", places.exc))
    BY <1>3 DEF HelperWindow, HelperReloc, Operand, OperandSym
  <2> HIDE DEF window
  <2>4. ExcWindows = [k \in 1 .. 6 |-> window(ExcHelpers[k], ExcWindow, Sym("ExcState", places.exc))]
    BY <2>3 DEF ExcWindows
  <2>5. QED
    BY <2>1, <2>2, <2>4
<1>6. QED
  BY <1>2, <1>4, <1>5

LEMMA HelperRelocsHaveTheirType ==
  ASSUME TypeOK
  PROVE  HelperRelocs \in Seq(Reloc)
<1>1. FlattenSeq(ExcWindows) \in Seq(Reloc)
  BY HelperWindowsHaveTheirType, Flatten
<1>2. HelperWindow("Alloc") \in Seq(Reloc) /\ HelperWindow("Release") \in Seq(Reloc)
  BY HelperWindowsHaveTheirType DEF Helpers
<1>3. \A x, y, z \in Seq(Reloc) : x \o y \o z \in Seq(Reloc)
  OBVIOUS
<1>4. QED
  BY <1>1, <1>2, <1>3, HelperWindowsHaveTheirType

LEMMA CollectRelocsIsTyped ==
  ASSUME TypeOK, CollectRelocs
  PROVE  TypeOK'
<1>1. emit \in Emitter(0) /\ phase = "relocs"
  BY DEF TypeOK, CollectRelocs
<1>2. emit' = [emit EXCEPT !.relocs = @ \o CallRelocs \o VtableRelocs \o HelperRelocs,
                           !.calls = <<>>]
  BY DEF CollectRelocs
<1>3. UNCHANGED <<prog, mode, starts, places, helperAt>> /\ phase' \in {"map", "write"}
  BY DEF CollectRelocs
<1>4. emit' \in Emitter(0)
  <2>1. emit.relocs \in Seq(Reloc)
    BY <1>1 DEF Emitter
  <2>2. /\ CallRelocs \in Seq(Reloc) /\ VtableRelocs \in Seq(Reloc)
        /\ HelperRelocs \in Seq(Reloc)
    BY <1>1, CallRelocsHaveTheirType, VtableRelocsHaveTheirType, HelperRelocsHaveTheirType
  <2>3. \A w, x, y, z \in Seq(Reloc) : w \o x \o y \o z \in Seq(Reloc)
    OBVIOUS
  <2>4. emit.relocs \o CallRelocs \o VtableRelocs \o HelperRelocs \in Seq(Reloc)
    BY <2>1, <2>2, <2>3
  <2>5. <<>> \in Seq([site : Int, sym : Symbol])
    OBVIOUS
  <2>6. QED
    BY <1>1, <1>2, <2>4, <2>5 DEF Emitter
<1>5. Emitter(0)' = Emitter(0)
  BY <1>3 DEF Emitter, Reloc, Symbol
<1>6. QED
  BY <1>1, <1>3, <1>4, <1>5 DEF TypeOK

(* After lowering, only the phase changes of what TypeOK is about.         *)
LEMMA LaterStepsAreTyped ==
  ASSUME TypeOK, WriteImage \/ Load \/ Map \/ Fill \/ Protect \/ Run \/ Unmap \/ UNCHANGED vars
  PROVE  TypeOK'
<1>1. UNCHANGED <<prog, mode, emit, starts, places, helperAt>>
  BY DEF WriteImage, Load, Map, Fill, Protect, Run, Unmap, vars, lowering
<1>2. \/ phase' = phase
      \/ /\ phase \in {"write", "load", "map", "fill", "protect", "run", "unmap"}
         /\ phase' \in {"load", "run", "fill", "protect", "unmap", "exited", "returned"}
  BY DEF WriteImage, Load, Map, Fill, Protect, Run, Unmap, Fail, vars
<1>3. Emitter(0)' = Emitter(0)
  BY <1>1 DEF Emitter, Reloc, Symbol
<1>4. QED
  BY <1>1, <1>2, <1>3 DEF TypeOK

-----------------------------------------------------------------------------
(* Addresses and pages.                                                    *)

LEMMA Quotient ==
  ASSUME NEW P \in Nat \ {0}, NEW a \in Int
  PROVE  /\ a \div P \in Int /\ a % P \in 0 .. P - 1
         /\ a = (P * (a \div P)) + (a % P)
OBVIOUS

LEMMA QuotientGrows ==
  ASSUME NEW P \in Nat \ {0}, NEW a \in Int, NEW b \in Int, a <= b
  PROVE  a \div P <= b \div P
OBVIOUS

(* What lies before a multiple of a page lies on an earlier page.          *)
Multiple(v, P) == \E q \in Int : v = P * q

LEMMA PageBefore ==
  ASSUME NEW P \in Nat \ {0}, NEW a \in Int, NEW b \in Int, Multiple(b, P), a < b
  PROVE  a \div P < b \div P
<1>1. PICK q \in Int : b = P * q
  BY DEF Multiple
<1>2. b \div P = q
  BY <1>1
<1> DEFINE d == a \div P
<1>3. d \in Int /\ P * d <= a
  BY Quotient
<1> HIDE DEF d
<1>4. P * d < P * q
  BY <1>1, <1>3
<1>5. d < q
  BY <1>3, <1>4
<1>6. QED
  BY <1>2, <1>5 DEF d

LEMMA AlignUpHolds ==
  ASSUME NEW P \in Nat \ {0}, NEW v \in Int
  PROVE  AlignUp(v, P) \in Int /\ v <= AlignUp(v, P) /\ Multiple(AlignUp(v, P), P)
<1> DEFINE w == v + P - 1
           q == w \div P
<1>1. w \in Int
  OBVIOUS
<1> HIDE DEF w
<1>2. q \in Int /\ w % P \in 0 .. P - 1 /\ w = (P * q) + (w % P)
  BY <1>1, Quotient
<1>3. AlignUp(v, P) = q * P
  BY DEF AlignUp, w
<1> HIDE DEF q
<1>4. q * P = P * q /\ P * q \in Int
  BY <1>2
<1>5. v <= P * q
  BY <1>1, <1>2, <1>4 DEF w
<1>6. QED
  BY <1>2, <1>3, <1>4, <1>5 DEF Multiple

LEMMA SumOfMultiples ==
  ASSUME NEW P \in Nat \ {0}, NEW a, NEW b, Multiple(a, P), Multiple(b, P)
  PROVE  Multiple(a + b, P)
<1>1. PICK q \in Int : a = P * q
  BY DEF Multiple
<1>2. PICK r \in Int : b = P * r
  BY DEF Multiple
<1>3. a + b = P * (q + r) /\ q + r \in Int
  BY <1>1, <1>2
<1>4. QED
  BY <1>3 DEF Multiple

(* The page of a byte is a page of what holds the byte.                    *)
LEMMA PageOfByte ==
  ASSUME NEW addr \in Int, NEW len \in Int, NEW a \in addr .. addr + len - 1
  PROVE  a \div Page \in PagesOf(addr, len)
<1>1. Page \in Nat \ {0}
  BY PageAssumption
<1>2. len # 0 /\ a \in Int /\ addr + len - 1 \in Int /\ addr <= a /\ a <= addr + len - 1
  OBVIOUS
<1>3. /\ addr \div Page <= a \div Page
      /\ a \div Page <= (addr + len - 1) \div Page
  BY <1>1, <1>2, QuotientGrows
<1>4. /\ a \div Page \in Int /\ addr \div Page \in Int
      /\ (addr + len - 1) \div Page \in Int
  BY <1>1, <1>2, Quotient
<1>5. QED
  BY <1>2, <1>3, <1>4 DEF PagesOf

(* Pages on both sides of a multiple of a page are different ones.         *)
LEMMA PagesApart ==
  ASSUME NEW b \in Int, Multiple(b, Page), NEW addr \in Int, NEW len \in Int, addr + len <= b,
         NEW p \in PagesOf(addr, len)
  PROVE  p \in Int /\ p < b \div Page
<1>1. Page \in Nat \ {0} /\ len # 0 /\ p \in addr \div Page .. (addr + len - 1) \div Page
  BY PageAssumption DEF PagesOf
<1> DEFINE last == addr + len - 1
<1>2. last \in Int /\ last < b
  OBVIOUS
<1> HIDE DEF last
<1>3. last \div Page < b \div Page
  BY <1>1, <1>2, PageBefore
<1>4. last \div Page \in Int /\ b \div Page \in Int /\ addr \div Page \in Int
  BY <1>1, <1>2, Quotient
<1>5. p \in addr \div Page .. last \div Page
  BY <1>1 DEF last
<1>6. QED
  BY <1>3, <1>4, <1>5

LEMMA PagesAfter ==
  ASSUME NEW b \in Int, NEW addr \in Int, NEW len \in Int, b <= addr, NEW p \in PagesOf(addr, len)
  PROVE  p \in Int /\ b \div Page <= p
<1>1. Page \in Nat \ {0} /\ p \in addr \div Page .. (addr + len - 1) \div Page
  BY PageAssumption DEF PagesOf
<1>2. b \div Page <= addr \div Page
  BY <1>1, QuotientGrows
<1>3. b \div Page \in Int /\ addr \div Page \in Int /\ (addr + len - 1) \div Page \in Int
  BY <1>1, Quotient
<1>4. QED
  BY <1>1, <1>2, <1>3

-----------------------------------------------------------------------------
(* Relocation.                                                             *)

LEMMA TargetIsNumber ==
  ASSUME TypeOK, phase \notin {"data", "functions"}, NEW sym \in Symbol,
         NEW code \in Int, NEW data \in Int, NEW heap \in Int
  PROVE  Target(sym, code, data, heap) \in Int
<1>1. /\ places.statics \in Seq(Int) /\ Len(places.statics) = prog.statics
      /\ places.argv \in Int /\ helperAt \in [Helpers -> Int]
      /\ starts \in Seq(Int) /\ Len(starts) = Len(prog.fns)
      /\ DOMAIN prog.fns = 1 .. Len(prog.fns)
  BY ProgramHasItsType DEF TypeOK
<1>2. CASE sym.of = "Fn"
  <2>1. sym.n \in DOMAIN prog.fns
    BY <1>2 DEF Symbol, Helpers
  <2>2. starts[sym.n] \in Int
    BY <1>1, <2>1
  <2>3. Target(sym, code, data, heap) = code + starts[sym.n]
    BY <1>2 DEF Target, Helpers
  <2>4. QED
    BY <2>2, <2>3
<1>3. CASE sym.of = "Static"
  <2>1. sym.n \in 1 .. prog.statics
    BY <1>3 DEF Symbol, Helpers
  <2>2. places.statics[sym.n] \in Int
    BY <1>1, <2>1
  <2>3. Target(sym, code, data, heap) = data + places.statics[sym.n]
    BY <1>3 DEF Target, Helpers
  <2>4. QED
    BY <2>2, <2>3
<1>4. CASE sym.of \in {"String", "VtableOff", "ExcState"}
  <2>1. sym.n \in Int
    BY <1>4 DEF Symbol, Helpers
  <2>2. Target(sym, code, data, heap) = data + sym.n
    BY <1>4 DEF Target, Helpers
  <2>3. QED
    BY <2>1, <2>2
<1>5. CASE sym.of = "ArgvRsp"
  <2>1. OrZero(places.argv) \in Int
    BY <1>1 DEF OrZero
  <2>2. Target(sym, code, data, heap) = data + OrZero(places.argv)
    BY <1>5 DEF Target, Helpers
  <2>3. QED
    BY <2>1, <2>2
<1>6. CASE sym.of = "HeapBase"
  BY <1>6 DEF Target, Helpers
<1>7. CASE sym.of \in Helpers
  <2>1. OrZero(helperAt[sym.of]) \in Int
    BY <1>1, <1>7 DEF OrZero
  <2>2. Target(sym, code, data, heap) = code + OrZero(helperAt[sym.of])
    BY <1>7 DEF Target, Helpers
  <2>3. QED
    BY <2>1, <2>2
<1>8. QED
  BY <1>2, <1>3, <1>4, <1>5, <1>6, <1>7 DEF Symbol

(* Relocating changes neither how many bytes there are nor what they are.  *)
LEMMA AppliedKeepsCells ==
  ASSUME TypeOK, phase \notin {"data", "functions"}, NEW kinds, NEW cells \in Seq(CellOf(kinds)),
         NEW section \in {"code", "data"}, NEW code \in Int, NEW data \in Int, NEW heap \in Int
  PROVE  /\ Applied(cells, section, code, data, heap) \in Seq(CellOf(kinds))
         /\ Len(Applied(cells, section, code, data, heap)) = Len(cells)
<1> DEFINE N == Len(emit.relocs)
           width(r) == IF r.section # section THEN 0
                       ELSE IF r.kind = "Abs64" THEN 8
                       ELSE IF section = "code" THEN 4 ELSE 0
           value(r) == IF r.kind = "Abs64" THEN Target(r.sym, code, data, heap)
                       ELSE Target(r.sym, code, data, heap) - (code + r.site + 4)
           spans  == [k \in 1 .. N |-> [site |-> emit.relocs[k].site, width |-> width(emit.relocs[k])]]
           values == [k \in 1 .. N |-> value(emit.relocs[k])]
<1>1. emit.relocs \in Seq(Reloc)
  BY DEF TypeOK, Emitter
<1>2. N \in Nat /\ DOMAIN emit.relocs = 1 .. N
  BY <1>1
<1>3. Applied(cells, section, code, data, heap) = Patched(cells, spans, values)
  BY <1>2, Zenon DEF Applied
<1> HIDE DEF N
<1>4. ASSUME NEW k \in 1 .. N
      PROVE  /\ emit.relocs[k].site \in Int /\ width(emit.relocs[k]) \in Int
             /\ value(emit.relocs[k]) \in Int
  <2>1. emit.relocs[k] \in Reloc
    BY <1>1, <1>2, Element
  <2>2. emit.relocs[k].site \in Int /\ emit.relocs[k].sym \in Symbol
    BY <2>1 DEF Reloc
  <2>3. Target(emit.relocs[k].sym, code, data, heap) \in Int
    BY <2>2, TargetIsNumber
  <2>4. value(emit.relocs[k]) \in Int
    BY <2>2, <2>3
  <2>5. QED
    BY <2>2, <2>4
<1> HIDE DEF width, value
<1>5. spans \in [1 .. N -> [site : Int, width : Int]]
  <2>1. \A k \in 1 .. N : [site |-> emit.relocs[k].site, width |-> width(emit.relocs[k])]
                           \in [site : Int, width : Int]
    BY <1>4
  <2>2. QED
    BY <2>1
<1>6. values \in [1 .. N -> Int]
  BY <1>4
<1> HIDE DEF spans, values
<1>7. N \in Nat
  BY <1>2
<1>8. /\ Patched(cells, spans, values) \in Seq(CellOf(kinds))
      /\ Len(Patched(cells, spans, values)) = Len(cells)
  BY <1>5, <1>6, <1>7, PatchingKeepsCells, ZenonT(40)
<1>9. QED
  BY <1>3, <1>8, Zenon

-----------------------------------------------------------------------------
(* Where code, data and heap are.                                          *)

LEMMA LengthsAreNumbers ==
  ASSUME TypeOK
  PROVE  /\ emit.code \in Seq(CellOf(CodeKinds)) /\ Len(emit.code) \in Nat
         /\ emit.data \in Seq(CellOf(DataKinds)) /\ Len(emit.data) \in Nat
         /\ prog.heap \in Nat /\ Page \in Nat \ {0} /\ BaseVaddr \in Nat /\ Mapped \in Nat
<1>1. emit.code \in Seq(CellOf(CodeKinds)) /\ emit.data \in Seq(CellOf(DataKinds))
  BY DEF TypeOK, Emitter
<1>2. Len(emit.code) \in Nat /\ Len(emit.data) \in Nat
  BY <1>1
<1>3. prog.heap \in Nat
  BY ProgramHasItsType DEF TypeOK
<1>4. QED
  BY <1>1, <1>2, <1>3, PageAssumption

(* In an image, data begin on a page after the last of the code.           *)
LEMMA ImageLayout ==
  ASSUME TypeOK
  PROVE  /\ Preamble \in Nat /\ HeaderLen \in Nat /\ RxLen \in Nat
         /\ RxLen = HeaderLen + Preamble + Len(emit.code)
         /\ DataOffset \in Int /\ RxLen <= DataOffset
         /\ DataVaddr \in Int /\ BaseVaddr + RxLen <= DataVaddr /\ Multiple(DataVaddr, Page)
         /\ HeapVaddr \in Int /\ DataVaddr + Len(emit.data) <= HeapVaddr
         /\ HeapLen \in Nat
<1>1. /\ Len(emit.code) \in Nat /\ Len(emit.data) \in Nat /\ prog.heap \in Nat
      /\ Page \in Nat \ {0} /\ BaseVaddr \in Nat
  BY LengthsAreNumbers
<1>2. Preamble \in Nat /\ HeaderLen \in Nat
  BY DEF Preamble, PreambleLen, HeaderLen
<1>3. RxLen = HeaderLen + Preamble + Len(emit.code)
  BY DEF RxLen
<1>4. RxLen \in Nat /\ BaseVaddr + RxLen \in Int
  <2> DEFINE n == Len(emit.code)
  <2>1. n \in Nat /\ RxLen = HeaderLen + Preamble + n
    BY <1>1, <1>3
  <2> HIDE DEF n
  <2>2. QED
    BY <1>1, <1>2, <2>1
<1>5. DataOffset \in Int /\ RxLen <= DataOffset
  <2>1. RxLen \in Int
    BY <1>4
  <2>2. QED
    BY <1>1, <2>1, AlignUpHolds DEF DataOffset
<1>6. DataVaddr \in Int /\ BaseVaddr + RxLen <= DataVaddr /\ Multiple(DataVaddr, Page)
  BY <1>1, <1>4, AlignUpHolds DEF DataVaddr
<1>7. HeapVaddr \in Int /\ DataVaddr + Len(emit.data) <= HeapVaddr
  <2>1. DataVaddr + Len(emit.data) \in Int
    BY <1>1, <1>6
  <2>2. QED
    BY <1>1, <2>1, AlignUpHolds DEF HeapVaddr
<1>8. HeapLen \in Int /\ prog.heap <= HeapLen
  <2>1. prog.heap \in Int
    BY <1>1
  <2>2. QED
    BY <1>1, <2>1, AlignUpHolds DEF HeapLen
<1>9. HeapLen \in Nat
  BY <1>1, <1>8
<1>10. QED
  BY <1>2, <1>3, <1>4, <1>5, <1>6, <1>7, <1>9

(* And so in the JIT's memory.                                             *)
LEMMA JitLayout ==
  ASSUME TypeOK
  PROVE  /\ CodeR \in Nat /\ Len(emit.code) <= CodeR /\ DataR \in Nat /\ Len(emit.data) <= DataR
         /\ HeapLen \in Nat /\ Total \in Nat /\ Total = CodeR + DataR + HeapLen
         /\ JitData \in Nat /\ JitData = Mapped + CodeR /\ Multiple(JitData, Page)
         /\ JitHeap \in Nat /\ JitHeap = Mapped + CodeR + DataR
<1>1. /\ Len(emit.code) \in Nat /\ Len(emit.data) \in Nat
      /\ Page \in Nat \ {0} /\ Mapped \in Nat /\ HeapLen \in Nat
  BY LengthsAreNumbers, ImageLayout
<1>2. CodeR \in Int /\ Len(emit.code) <= CodeR /\ Multiple(CodeR, Page)
  <2>1. Len(emit.code) \in Int
    BY <1>1
  <2>2. QED
    BY <1>1, <2>1, AlignUpHolds DEF CodeR
<1>3. DataR \in Int /\ Len(emit.data) <= DataR
  <2>1. Len(emit.data) \in Int
    BY <1>1
  <2>2. QED
    BY <1>1, <2>1, AlignUpHolds DEF DataR
<1>4. CodeR \in Nat /\ DataR \in Nat
  BY <1>1, <1>2, <1>3
<1>5. Multiple(Mapped, Page)
  <2>1. Mapped % Page = 0 /\ Mapped \in Int
    BY <1>1, PageAssumption
  <2> DEFINE q == Mapped \div Page
  <2>2. q \in Int /\ Mapped = (Page * q) + (Mapped % Page)
    BY <1>1, <2>1, Quotient
  <2> HIDE DEF q
  <2>3. Page * q \in Int
    BY <1>1, <2>2
  <2>4. Mapped = Page * q
    BY <2>1, <2>2, <2>3
  <2>5. QED
    BY <2>2, <2>4 DEF Multiple
<1>6. Multiple(Mapped + CodeR, Page)
  BY <1>1, <1>2, <1>5, SumOfMultiples
<1>7. QED
  BY <1>1, <1>2, <1>3, <1>4, <1>6 DEF Total, JitData, JitHeap

(* No kind of code is a kind of data.                                      *)
LEMMA KindsDiffer ==
  /\ CodeKinds \cap (DataKinds \cup {"heap"}) = {}
  /\ \A what \in {"header", "preamble", "zero", "heap"} : what \notin CodeKinds
  /\ \A what \in {"header", "preamble", "zero"} : what \notin DataKinds \cup {"heap"}
BY DEF CodeKinds, DataKinds, Helpers

-----------------------------------------------------------------------------
(* What Load maps.                                                         *)

CodeSegment == Segment({"r", "x"}, 0, BaseVaddr, RxLen, RxLen)
DataSegment == Segment({"r", "w"}, DataOffset, DataVaddr, Len(emit.data), Len(emit.data))
HeapSegment == Segment({"r", "w"}, DataOffset, HeapVaddr, 0, HeapLen)

LEMMA ThreeSegments == ToSet(Segments) = {CodeSegment, DataSegment, HeapSegment}
BY DEF ToSet, Segments, CodeSegment, DataSegment, HeapSegment

LEMMA SegmentsAreNumbers ==
  ASSUME TypeOK, NEW s \in {CodeSegment, DataSegment, HeapSegment}
  PROVE  s.vaddr \in Int /\ s.memsz \in Int
<1>1. /\ BaseVaddr \in Int /\ RxLen \in Int /\ DataVaddr \in Int /\ HeapVaddr \in Int
      /\ Len(emit.data) \in Int /\ HeapLen \in Int
  BY LengthsAreNumbers, ImageLayout
<1>2. QED
  BY <1>1 DEF CodeSegment, DataSegment, HeapSegment, Segment

(* The file's bytes below the end of the code are headers and code.        *)
LEMMA CodeInFile ==
  ASSUME TypeOK, ImageIsWritten, NEW o \in Int, 0 <= o, o < RxLen
  PROVE  FileCell(o).what \in CodeKinds \cup {"header", "preamble"}
<1>1. /\ Preamble \in Nat /\ HeaderLen \in Nat /\ Len(emit.code) \in Nat
      /\ RxLen = HeaderLen + Preamble + Len(emit.code) /\ RxLen <= DataOffset
      /\ DataOffset \in Int /\ RxLen \in Nat
  BY ImageLayout, LengthsAreNumbers
<1>2. CASE o < HeaderLen
  <2>1. FileCell(o) = Cell("header", 0, o)
    BY <1>1, <1>2 DEF FileCell
  <2>2. QED
    BY <2>1 DEF Cell
<1>3. CASE HeaderLen <= o /\ o < HeaderLen + Preamble
  <2>1. FileCell(o) = Cell("preamble", 0, o - HeaderLen)
    BY <1>1, <1>3 DEF FileCell
  <2>2. QED
    BY <2>1 DEF Cell
<1>4. CASE HeaderLen + Preamble <= o
  <2>1. ~ (o < HeaderLen) /\ o \notin HeaderLen .. (HeaderLen + Preamble) - 1
        /\ o \in HeaderLen + Preamble .. RxLen - 1 /\ ~ (DataOffset <= o)
        /\ o - (HeaderLen + Preamble) + 1 \in 1 .. Len(emit.code)
    <3> DEFINE h == HeaderLen
               q == Preamble
               n == Len(emit.code)
               r == RxLen
               d == DataOffset
    <3>1. /\ h \in Nat /\ q \in Nat /\ n \in Nat /\ r = h + q + n
          /\ d \in Int /\ r <= d /\ h + q <= o /\ o < r
      BY <1>1, <1>4
    <3> HIDE DEF h, q, n, r, d
    <3>2. /\ ~ (o < h) /\ o \notin h .. (h + q) - 1 /\ o \in h + q .. r - 1 /\ ~ (d <= o)
          /\ o - (h + q) + 1 \in 1 .. n
      BY <3>1
    <3>3. QED
      BY <3>2 DEF h, q, n, r, d
  <2>2. o \notin DataOffset .. DataOffset + Len(image.data) - 1
    BY <2>1
  <2>3. FileCell(o) = image.code[o - (HeaderLen + Preamble) + 1]
    BY <2>1, <2>2 DEF FileCell
  <2> DEFINE i == o - (HeaderLen + Preamble) + 1
  <2>4. i \in DOMAIN image.code /\ image.code \in Seq(CellOf(CodeKinds))
    BY <2>1 DEF ImageIsWritten
  <2> HIDE DEF i
  <2>5. image.code[i] \in CellOf(CodeKinds)
    BY <2>4, Element
  <2>6. image.code[i].what \in CodeKinds
    BY <2>5 DEF CellOf
  <2>7. QED
    BY <2>3, <2>6 DEF i
<1>5. QED
  BY <1>1, <1>2, <1>3, <1>4

(* And from the offset of the data, data.                                  *)
LEMMA DataInFile ==
  ASSUME TypeOK, ImageIsWritten, NEW k \in Nat, k < Len(emit.data)
  PROVE  FileCell(DataOffset + k).what \in DataKinds
<1> DEFINE o == DataOffset + k
           i == o - DataOffset + 1
<1>1. /\ Preamble \in Nat /\ HeaderLen \in Nat /\ Len(emit.code) \in Nat /\ Len(emit.data) \in Nat
      /\ RxLen = HeaderLen + Preamble + Len(emit.code) /\ RxLen <= DataOffset
      /\ DataOffset \in Int
  BY ImageLayout, LengthsAreNumbers
<1>2. image.data \in Seq(CellOf(DataKinds)) /\ Len(image.data) = Len(emit.data)
  BY DEF ImageIsWritten
<1>3. /\ ~ (o < HeaderLen) /\ o \notin HeaderLen .. (HeaderLen + Preamble) - 1
      /\ o \notin HeaderLen + Preamble .. RxLen - 1
      /\ o \in DataOffset .. DataOffset + Len(emit.data) - 1
      /\ i \in 1 .. Len(emit.data)
  <2> DEFINE h == HeaderLen
             q == Preamble
             n == Len(emit.code)
             m == Len(emit.data)
             r == RxLen
             d == DataOffset
  <2>1. /\ h \in Nat /\ q \in Nat /\ n \in Nat /\ r = h + q + n /\ m \in Nat /\ k < m
        /\ d \in Int /\ r <= d
    BY <1>1
  <2> HIDE DEF h, q, n, m, r, d
  <2>2. /\ ~ (d + k < h) /\ d + k \notin h .. (h + q) - 1 /\ d + k \notin h + q .. r - 1
        /\ d + k \in d .. d + m - 1 /\ (d + k) - d + 1 \in 1 .. m
    BY <2>1
  <2>3. QED
    BY <2>2 DEF h, q, n, m, r, d
<1>4. o \in DataOffset .. DataOffset + Len(image.data) - 1 /\ i \in 1 .. Len(image.data)
  BY <1>2, <1>3
<1>5. FileCell(o) = image.data[i]
  <2> HIDE DEF o
  <2>1. QED
    BY <1>3, <1>4 DEF FileCell
<1> HIDE DEF i
<1>6. image.data[i] \in CellOf(DataKinds)
  <2>1. i \in DOMAIN image.data
    BY <1>2, <1>4
  <2>2. QED
    BY <1>2, <2>1, Element
<1>7. image.data[i].what \in DataKinds
  BY <1>6 DEF CellOf
<1>8. FileCell(o).what \in DataKinds
  BY <1>5, <1>7
<1>9. QED
  BY <1>8

-----------------------------------------------------------------------------
(* The rights of pages, action by action.                                  *)

LEMMA NoRights == DOMAIN <<>> = {}
OBVIOUS

LEMMA InitHasNoPages ==
  ASSUME Init
  PROVE  PagesInv
<1>1. phase = "data" /\ prot = <<>> /\ mem = <<>>
  BY DEF Init
<1>2. RunsWithItsRights
  BY <1>1, NoRights DEF RunsWithItsRights
<1>3. QED
  BY <1>1, <1>2 DEF PagesInv, NothingIsLeft

(* While there is only code to emit, nothing is mapped.                    *)
LEMMA LoweringMapsNothing ==
  ASSUME PagesInv, LayOutData \/ EmitFunction \/ AppendHelpers \/ CollectRelocs
  PROVE  PagesInv'
<1>1. phase \in {"data", "functions", "relocs"} /\ UNCHANGED running /\ mode' = mode
  BY DEF LayOutData, EmitFunction, AppendHelpers, CollectRelocs
<1>2. prot' = <<>> /\ mem' = <<>>
  BY <1>1 DEF PagesInv, running
<1>3. \/ phase' \in {"data", "functions", "relocs"}
      \/ phase' = "map" /\ mode = "jit"
      \/ phase' = "write" /\ mode # "jit"
  BY <1>1 DEF LayOutData, EmitFunction, AppendHelpers, CollectRelocs
<1>4. RunsWithItsRights'
  BY <1>2, <1>3, NoRights DEF RunsWithItsRights
<1>5. QED
  BY <1>1, <1>2, <1>3, <1>4 DEF PagesInv, NothingIsLeft

LEMMA WriteImageKeepsPages ==
  ASSUME ImageInv, WriteImage
  PROVE  PagesInv'
<1>1. /\ phase = "write" /\ phase' = "load" /\ UNCHANGED <<prog, mode, lowering, running>>
      /\ image'.code = Applied(emit.code, "code", BlobVaddr, DataVaddr, HeapVaddr)
      /\ image'.data = Applied(emit.data, "data", BlobVaddr, DataVaddr, HeapVaddr)
      /\ image'.segments = Segments
  BY DEF WriteImage
<1>2. TypeOK /\ PagesInv
  BY DEF ImageInv
<1>3. BlobVaddr \in Int /\ DataVaddr \in Int /\ HeapVaddr \in Int
  BY <1>2, ImageLayout, LengthsAreNumbers DEF BlobVaddr, CodeVaddr
<1>4. /\ Applied(emit.code, "code", BlobVaddr, DataVaddr, HeapVaddr) \in Seq(CellOf(CodeKinds))
      /\ Len(Applied(emit.code, "code", BlobVaddr, DataVaddr, HeapVaddr)) = Len(emit.code)
  BY <1>1, <1>2, <1>3, LengthsAreNumbers, AppliedKeepsCells
<1>5. /\ Applied(emit.data, "data", BlobVaddr, DataVaddr, HeapVaddr) \in Seq(CellOf(DataKinds))
      /\ Len(Applied(emit.data, "data", BlobVaddr, DataVaddr, HeapVaddr)) = Len(emit.data)
  BY <1>1, <1>2, <1>3, LengthsAreNumbers, AppliedKeepsCells
<1>6. emit' = emit /\ mode' = mode /\ prog' = prog /\ prot' = prot /\ mem' = mem
  BY <1>1 DEF lowering, running
<1>7. Segments' = Segments
  BY <1>6 DEF Segments, Segment, RxLen, Preamble, DataOffset, DataVaddr, HeapVaddr, HeapLen
<1>8. ImageIsWritten'
  BY <1>1, <1>4, <1>5, <1>6, <1>7 DEF ImageIsWritten
<1>9. prot' = <<>> /\ mem' = <<>> /\ mode # "jit"
  BY <1>1, <1>2, <1>6 DEF PagesInv
<1>10. RunsWithItsRights'
  BY <1>1, <1>9, NoRights DEF RunsWithItsRights
<1>11. QED
  BY <1>1, <1>6, <1>8, <1>9, <1>10 DEF PagesInv, NothingIsLeft

(* No page is shared by code and data, and each byte has the rights of the *)
(* segment it is loaded from.                                              *)
LEMMA LoadKeepsPages ==
  ASSUME ImageInv, Load
  PROVE  PagesInv'
<1> DEFINE loads == {s \in ToSet(image.segments) : s.memsz > 0}
           bytes(s) == s.vaddr .. s.vaddr + s.memsz - 1
           pages(s) == PagesOf(s.vaddr, s.memsz)
           from(a) == CHOOSE s \in loads : a \in bytes(s)
           cell(s, a) == IF a - s.vaddr < s.filesz THEN FileCell(s.offset + a - s.vaddr)
                         ELSE Cell("heap", 0, a - s.vaddr)
<1>1. /\ phase = "load" /\ phase' = "run" /\ UNCHANGED <<prog, mode, lowering, image, status>>
      /\ mem' = [a \in UNION { bytes(s) : s \in loads } |-> cell(from(a), a)]
      /\ prot' = [p \in UNION { pages(s) : s \in loads } |->
                   UNION { s.rights : s \in {t \in loads : p \in pages(t)} }]
  BY DEF Load
<1>2. TypeOK /\ PagesInv /\ ImageIsWritten /\ mode # "jit"
  BY <1>1 DEF ImageInv, PagesInv
<1>3. loads \subseteq {CodeSegment, DataSegment, HeapSegment}
  BY <1>2, ThreeSegments DEF ImageIsWritten
<1>4. /\ CodeSegment.rights = {"r", "x"} /\ CodeSegment.vaddr = BaseVaddr
      /\ CodeSegment.memsz = RxLen /\ CodeSegment.filesz = RxLen /\ CodeSegment.offset = 0
      /\ DataSegment.rights = {"r", "w"} /\ DataSegment.vaddr = DataVaddr
      /\ DataSegment.memsz = Len(emit.data) /\ DataSegment.filesz = Len(emit.data)
      /\ DataSegment.offset = DataOffset
      /\ HeapSegment.rights = {"r", "w"} /\ HeapSegment.vaddr = HeapVaddr
      /\ HeapSegment.memsz = HeapLen /\ HeapSegment.filesz = 0
  BY DEF CodeSegment, DataSegment, HeapSegment, Segment
<1>5. /\ BaseVaddr \in Int /\ RxLen \in Nat /\ DataVaddr \in Int /\ HeapVaddr \in Int
      /\ DataOffset \in Int /\ Len(emit.data) \in Nat /\ HeapLen \in Nat
      /\ BaseVaddr + RxLen <= DataVaddr /\ Multiple(DataVaddr, Page)
      /\ DataVaddr + Len(emit.data) <= HeapVaddr
  BY <1>2, ImageLayout, LengthsAreNumbers
<1> HIDE DEF loads
<1>6. ASSUME NEW p \in DOMAIN prot', "w" \in prot'[p], "x" \in prot'[p]
      PROVE  FALSE
  <2> HIDE DEF pages
  <2>1. prot'[p] = UNION { s.rights : s \in {t \in loads : p \in pages(t)} }
    BY <1>1, <1>6
  <2>2. PICK s \in loads : "w" \in s.rights /\ p \in pages(s)
    BY <1>6, <2>1
  <2>3. PICK t \in loads : "x" \in t.rights /\ p \in pages(t)
    BY <1>6, <2>1
  <2>4. t = CodeSegment /\ s \in {DataSegment, HeapSegment}
    BY <1>3, <1>4, <2>2, <2>3
  <2>5. p \in PagesOf(BaseVaddr, RxLen)
    BY <1>4, <2>3, <2>4 DEF pages
  <2>6. p \in Int /\ p < DataVaddr \div Page
    <3>1. RxLen \in Int
      BY <1>5
    <3>2. QED
      BY <1>5, <2>5, <3>1, PagesApart
  <2>7. DataVaddr \div Page <= p
    <3>1. CASE s = DataSegment
      <4>1. p \in PagesOf(DataVaddr, Len(emit.data))
        BY <1>4, <2>2, <3>1 DEF pages
      <4>2. Len(emit.data) \in Int /\ DataVaddr <= DataVaddr
        BY <1>5
      <4>3. QED
        BY <1>5, <4>1, <4>2, PagesAfter
    <3>2. CASE s = HeapSegment
      <4>1. p \in PagesOf(HeapVaddr, HeapLen)
        BY <1>4, <2>2, <3>2 DEF pages
      <4>2. HeapLen \in Int /\ DataVaddr <= HeapVaddr
        BY <1>5
      <4>3. QED
        BY <1>5, <4>1, <4>2, PagesAfter
    <3>3. QED
      BY <2>4, <3>1, <3>2
  <2>8. DataVaddr \div Page \in Int
    BY <1>5, Quotient, PageAssumption
  <2>9. QED
    BY <2>6, <2>7, <2>8
<1>7. ASSUME NEW a \in DOMAIN mem'
      PROVE  /\ mem'[a].what \in CodeKinds => "x" \in prot'[a \div Page]
             /\ mem'[a].what \in DataKinds \cup {"heap"} => "w" \in prot'[a \div Page]
  <2>1. \E s \in loads : a \in bytes(s)
    BY <1>1
  <2> HIDE DEF bytes
  <2>2. PICK s \in loads : s = from(a) /\ a \in bytes(s)
    BY <2>1
  <2>3. mem'[a] = cell(s, a)
    BY <1>1, <2>2
  <2>4. s \in {CodeSegment, DataSegment, HeapSegment} /\ a \in s.vaddr .. s.vaddr + s.memsz - 1
    BY <1>3, <2>2 DEF bytes
  <2>5. s.vaddr \in Int /\ s.memsz \in Int
    BY <1>2, <2>4, SegmentsAreNumbers
  <2>6. a \div Page \in pages(s)
    BY <2>4, <2>5, PageOfByte
  <2> HIDE DEF pages
  <2>7. s.rights \subseteq prot'[a \div Page]
    BY <1>1, <2>2, <2>6
  <2>8. CASE s = CodeSegment
    <3> DEFINE o == a - BaseVaddr
    <3>1. o \in Int /\ 0 <= o /\ o < RxLen /\ 0 + a - BaseVaddr = o
      BY <1>4, <1>5, <2>4, <2>8
    <3>2. mem'[a] = FileCell(o)
      BY <1>4, <2>3, <2>8, <3>1
    <3> HIDE DEF o
    <3>3. mem'[a].what \in CodeKinds \cup {"header", "preamble"}
      BY <1>2, <3>1, <3>2, CodeInFile
    <3>4. "x" \in prot'[a \div Page]
      BY <1>4, <2>7, <2>8
    <3>5. QED
      BY <3>3, <3>4, KindsDiffer
  <2>9. CASE s = DataSegment
    <3> DEFINE k == a - DataVaddr
    <3>1. k \in Nat /\ k < Len(emit.data) /\ DataOffset + a - DataVaddr = DataOffset + k
      BY <1>4, <1>5, <2>4, <2>9
    <3>2. mem'[a] = FileCell(DataOffset + k)
      BY <1>4, <2>3, <2>9, <3>1
    <3> HIDE DEF k
    <3>3. mem'[a].what \in DataKinds
      BY <1>2, <3>1, <3>2, DataInFile
    <3>4. "w" \in prot'[a \div Page]
      BY <1>4, <2>7, <2>9
    <3>5. QED
      BY <3>3, <3>4, KindsDiffer
  <2>10. CASE s = HeapSegment
    <3>1. ~ (a - HeapVaddr < 0)
      BY <1>4, <1>5, <2>4, <2>10
    <3>2. mem'[a] = Cell("heap", 0, a - HeapVaddr)
      BY <1>4, <2>3, <2>10, <3>1
    <3>3. mem'[a].what = "heap"
      BY <3>2 DEF Cell
    <3>4. "w" \in prot'[a \div Page]
      BY <1>4, <2>7, <2>10
    <3>5. QED
      BY <3>3, <3>4, KindsDiffer
  <2>11. QED
    BY <2>4, <2>8, <2>9, <2>10
<1>8. RunsWithItsRights'
  BY <1>6, <1>7 DEF RunsWithItsRights
<1>9. mode' # "jit"
  BY <1>1, <1>2
<1>10. QED
  BY <1>1, <1>8, <1>9 DEF PagesInv, NothingIsLeft

(* What stays when the lowering does.                                      *)
LEMMA SamePlaces ==
  ASSUME UNCHANGED <<prog, mode, lowering, image>>
  PROVE  /\ Protected' = Protected /\ PagesOf(Mapped, Total)' = PagesOf(Mapped, Total)
         /\ JitData' = JitData /\ Total' = Total /\ Unmapped' = Unmapped
BY DEF lowering, Protected, Unmapped, PagesOf, JitData, Total, CodeR, DataR, HeapLen

LEMMA MapKeepsPages ==
  ASSUME ImageInv, Map
  PROVE  PagesInv'
<1>1. phase = "map" /\ UNCHANGED <<prog, mode, lowering, image>> /\ mem' = mem
  BY DEF Map, Fail
<1>2. prot = <<>> /\ mem = <<>> /\ mode = "jit"
  BY <1>1 DEF ImageInv, PagesInv
<1>3. CASE Fail("mmap")
  <2>1. phase' = "returned" /\ prot' = <<>>
    BY <1>2, <1>3 DEF Fail
  <2>2. RunsWithItsRights' /\ NothingIsLeft'
    BY <1>1, <1>2, <2>1, NoRights DEF RunsWithItsRights, NothingIsLeft
  <2>3. QED
    BY <1>1, <1>2, <2>1, <2>2 DEF PagesInv
<1>4. CASE ~ Fail("mmap")
  <2>1. phase' = "fill" /\ prot' = [p \in PagesOf(Mapped, Total) |-> MapRights]
    BY <1>4 DEF Map
  <2>2. MappedTo(MapRights, MapRights)'
    BY <1>1, <2>1, SamePlaces DEF MappedTo
  <2>3. RunsWithItsRights'
    BY <2>1 DEF RunsWithItsRights, MapRights
  <2>4. QED
    BY <1>1, <1>2, <2>1, <2>2, <2>3 DEF PagesInv, NothingIsLeft
<1>5. QED
  BY <1>3, <1>4

(* The JIT's pages hold code, then data, then the heap.                    *)
LEMMA FillKeepsPages ==
  ASSUME ImageInv, Fill
  PROVE  PagesInv'
<1> DEFINE n == Len(emit.code)
           m == Len(emit.data)
           code == Applied(emit.code, "code", Mapped, JitData, JitHeap)
           data == Applied(emit.data, "data", Mapped, JitData, JitHeap)
           cell(a) == CASE a - Mapped < n -> code[a - Mapped + 1]
                        [] a \in JitData .. JitData + m - 1 -> data[a - JitData + 1]
                        [] a >= JitHeap -> Cell("heap", 0, a - JitHeap)
                        [] OTHER -> Zero
<1>1. /\ phase = "fill" /\ phase' = "protect" /\ UNCHANGED <<prog, mode, lowering, image, prot>>
      /\ mem' = [a \in Mapped .. Mapped + Total - 1 |-> cell(a)]
  BY DEF Fill
<1>2. TypeOK /\ PagesInv /\ mode = "jit" /\ MappedTo(MapRights, MapRights)
  BY <1>1 DEF ImageInv, PagesInv
<1>3. /\ JitData \in Int /\ JitHeap \in Int /\ n \in Nat /\ m \in Nat /\ Mapped \in Int
      /\ Mapped + n <= JitData /\ JitData + m <= JitHeap
  <2>1. /\ CodeR \in Nat /\ n <= CodeR /\ DataR \in Nat /\ m <= DataR
        /\ n \in Nat /\ m \in Nat /\ Mapped \in Nat
        /\ JitData = Mapped + CodeR /\ JitHeap = Mapped + CodeR + DataR
    BY <1>2, JitLayout, LengthsAreNumbers
  <2> HIDE DEF n, m
  <2>2. QED
    BY <2>1
<1>4. code \in Seq(CellOf(CodeKinds)) /\ Len(code) = n
  <2>1. emit.code \in Seq(CellOf(CodeKinds)) /\ JitData \in Int /\ JitHeap \in Int /\ Mapped \in Int
    BY <1>2, <1>3, LengthsAreNumbers
  <2>2. phase \notin {"data", "functions"} /\ TypeOK
    BY <1>1, <1>2
  <2>3. QED
    BY <2>1, <2>2, AppliedKeepsCells
<1>5. data \in Seq(CellOf(DataKinds)) /\ Len(data) = m
  <2>1. emit.data \in Seq(CellOf(DataKinds)) /\ JitData \in Int /\ JitHeap \in Int /\ Mapped \in Int
    BY <1>2, <1>3, LengthsAreNumbers
  <2>2. phase \notin {"data", "functions"} /\ TypeOK
    BY <1>1, <1>2
  <2>3. QED
    BY <2>1, <2>2, AppliedKeepsCells
<1> HIDE DEF code, data, n, m
<1>6. ASSUME NEW a \in Mapped .. Mapped + Total - 1
      PROVE  /\ cell(a).what \in CodeKinds => a < JitData
             /\ cell(a).what \in DataKinds \cup {"heap"} => a >= JitData
  <2>1. CASE a - Mapped < n
    <3> DEFINE i == a - Mapped + 1
    <3>1. i \in 1 .. Len(code) /\ a < JitData
      BY <1>3, <1>4, <2>1
    <3>2. i \in DOMAIN code
      BY <1>4, <3>1
    <3>3. a \notin JitData .. JitData + m - 1 /\ ~ (a >= JitHeap)
      BY <1>3, <3>1
    <3>4. cell(a) = code[i]
      BY <2>1, <3>3
    <3> HIDE DEF i
    <3>5. code[i] \in CellOf(CodeKinds)
      BY <1>4, <3>2, Element
    <3>6. code[i].what \in CodeKinds
      BY <3>5 DEF CellOf
    <3>7. QED
      BY <3>1, <3>4, <3>6, KindsDiffer
  <2>2. CASE a \in JitData .. JitData + m - 1
    <3> DEFINE i == a - JitData + 1
    <3>1. i \in 1 .. Len(data) /\ a >= JitData
      BY <1>3, <1>5, <2>2
    <3>2. i \in DOMAIN data
      BY <1>5, <3>1
    <3>3. ~ (a - Mapped < n) /\ ~ (a >= JitHeap)
      BY <1>3, <2>2
    <3>4. cell(a) = data[i]
      BY <2>2, <3>3
    <3> HIDE DEF i
    <3>5. data[i] \in CellOf(DataKinds)
      BY <1>5, <3>2, Element
    <3>6. data[i].what \in DataKinds
      BY <3>5 DEF CellOf
    <3>7. QED
      BY <3>1, <3>4, <3>6, KindsDiffer
  <2>3. CASE a >= JitHeap
    <3>1. /\ ~ (a - Mapped < n) /\ a \notin JitData .. JitData + m - 1
          /\ a >= JitData
      BY <1>3, <2>3
    <3>2. cell(a) = Cell("heap", 0, a - JitHeap)
      BY <2>3, <3>1
    <3>3. cell(a).what = "heap"
      BY <3>2 DEF Cell
    <3>4. QED
      BY <3>1, <3>3, KindsDiffer
  <2>4. CASE /\ ~ (a - Mapped < n) /\ ~ (a >= JitHeap)
             /\ a \notin JitData .. JitData + m - 1
    <3>1. cell(a) = Zero
      BY <2>4
    <3>2. cell(a).what = "zero"
      BY <3>1 DEF Zero, Cell
    <3>3. QED
      BY <3>2, KindsDiffer
  <2>5. QED
    BY <2>1, <2>2, <2>3, <2>4
<1> HIDE DEF cell
<1>7. /\ DOMAIN mem' = Mapped .. Mapped + Total - 1
      /\ \A a \in DOMAIN mem' :
           /\ mem'[a].what \in CodeKinds => a < JitData
           /\ mem'[a].what \in DataKinds \cup {"heap"} => a >= JitData
  <2>1. /\ DOMAIN mem' = Mapped .. Mapped + Total - 1
        /\ \A a \in Mapped .. Mapped + Total - 1 : mem'[a] = cell(a)
    BY <1>1
  <2>2. QED
    BY <1>6, <2>1
<1>8. MemoryIsFilled'
  BY <1>1, <1>7, SamePlaces DEF MemoryIsFilled
<1>9. MappedTo(MapRights, MapRights)'
  BY <1>1, <1>2, SamePlaces DEF MappedTo
<1>10. RunsWithItsRights'
  BY <1>1, <1>2 DEF PagesInv, RunsWithItsRights
<1>11. QED
  BY <1>1, <1>2, <1>8, <1>9, <1>10 DEF PagesInv, NothingIsLeft

(* The pages of code become executable, and no page of data is one.        *)
LEMMA ProtectKeepsPages ==
  ASSUME ImageInv, Protect
  PROVE  PagesInv'
<1>1. phase = "protect" /\ UNCHANGED <<prog, mode, lowering, image>> /\ mem' = mem
  BY DEF Protect, Fail
<1>2. /\ TypeOK /\ mode = "jit" /\ MappedTo(MapRights, MapRights) /\ MemoryIsFilled
      /\ RunsWithItsRights
  BY <1>1 DEF ImageInv, PagesInv
<1>3. CASE Fail("mprotect")
  <2>1. phase' = "returned" /\ prot' = prot /\ "mprotect" \in MayFail
    BY <1>3 DEF Fail
  <2>2. RunsWithItsRights'
    BY <1>2, <2>1 DEF RunsWithItsRights
  <2>3. QED
    BY <1>1, <1>2, <2>1, <2>2 DEF PagesInv
<1>4. CASE ~ Fail("mprotect")
  <2>1. /\ phase' = "run"
        /\ prot' = [p \in DOMAIN prot |-> IF p \in Protected THEN CodeRights ELSE prot[p]]
    BY <1>4 DEF Protect
  <2>2. prot' = [p \in PagesOf(Mapped, Total) |-> IF p \in Protected THEN CodeRights ELSE MapRights]
    BY <1>2, <2>1 DEF MappedTo
  <2>3. MappedTo(MapRights, CodeRights)'
    BY <1>1, <2>2, SamePlaces DEF MappedTo
  <2>4. MemoryIsFilled'
    BY <1>1, <1>2, SamePlaces DEF MemoryIsFilled
  <2>5. /\ CodeR \in Int /\ Total \in Int /\ JitData \in Int /\ JitData = Mapped + CodeR
        /\ Multiple(JitData, Page) /\ Mapped \in Int /\ Page \in Nat \ {0}
    BY <1>2, JitLayout, LengthsAreNumbers
  <2>6. ASSUME NEW a \in DOMAIN mem
        PROVE  /\ mem[a].what \in CodeKinds => "x" \in prot'[a \div Page]
               /\ mem[a].what \in DataKinds \cup {"heap"} => "w" \in prot'[a \div Page]
    <3>1. a \in Mapped .. Mapped + Total - 1
      BY <1>2 DEF MemoryIsFilled
    <3>2. a \div Page \in PagesOf(Mapped, Total)
      BY <2>5, <3>1, PageOfByte
    <3>3. ASSUME mem[a].what \in CodeKinds
          PROVE  "x" \in prot'[a \div Page]
      <4>1. a < JitData
        BY <1>2, <3>3 DEF MemoryIsFilled
      <4>2. a \in Mapped .. Mapped + CodeR - 1
        BY <2>5, <3>1, <4>1
      <4>3. a \div Page \in Protected
        BY <2>5, <4>2, PageOfByte DEF Protected
      <4>4. prot'[a \div Page] = CodeRights
        BY <2>2, <3>2, <4>3
      <4>5. QED
        BY <4>4 DEF CodeRights
    <3>4. ASSUME mem[a].what \in DataKinds \cup {"heap"}
          PROVE  "w" \in prot'[a \div Page]
      <4>1. a >= JitData /\ a \in Int
        BY <1>2, <2>5, <3>1, <3>4 DEF MemoryIsFilled
      <4>2. a \div Page \notin Protected
        <5>1. JitData \div Page <= a \div Page /\ JitData \div Page \in Int
              /\ a \div Page \in Int
          BY <2>5, <4>1, QuotientGrows, Quotient
        <5>2. Mapped + CodeR <= JitData
          BY <2>5
        <5>3. \A p \in PagesOf(Mapped, CodeR) : p \in Int /\ p < JitData \div Page
          BY <2>5, <5>2, PagesApart
        <5>4. QED
          BY <5>1, <5>3 DEF Protected
      <4>3. prot'[a \div Page] = MapRights
        BY <2>2, <3>2, <4>2
      <4>4. QED
        BY <4>3 DEF MapRights
    <3>5. QED
      BY <3>3, <3>4
  <2>7. \A p \in DOMAIN prot' : ~ ({"w", "x"} \subseteq prot'[p])
    BY <2>2 DEF MapRights, CodeRights
  <2>8. RunsWithItsRights'
    BY <1>1, <2>6, <2>7 DEF RunsWithItsRights
  <2>9. QED
    BY <1>1, <1>2, <2>1, <2>3, <2>4, <2>8 DEF PagesInv, NothingIsLeft
<1>5. QED
  BY <1>3, <1>4

LEMMA RunKeepsPages ==
  ASSUME ImageInv, Run
  PROVE  PagesInv'
<1>1. /\ phase = "run" /\ UNCHANGED <<prog, mode, lowering, image, running>>
      /\ \/ mode = "jit" /\ phase' = "unmap"
         \/ phase' = "exited"
  BY DEF Run
<1>2. mode' = mode /\ mem' = mem /\ prot' = prot
  BY <1>1 DEF running
<1>3. /\ RunsWithItsRights
      /\ mode = "jit" => MappedTo(MapRights, CodeRights) /\ MemoryIsFilled
  BY <1>1 DEF ImageInv, PagesInv
<1>4. mode = "jit" => MappedTo(MapRights, CodeRights)' /\ MemoryIsFilled'
  BY <1>1, <1>2, <1>3, SamePlaces DEF MappedTo, MemoryIsFilled
<1>5. RunsWithItsRights'
  BY <1>1, <1>2, <1>3 DEF RunsWithItsRights
<1>6. QED
  BY <1>1, <1>2, <1>4, <1>5 DEF PagesInv, NothingIsLeft

(* Unmap gives back exactly what was mapped.                               *)
LEMMA UnmapKeepsPages ==
  ASSUME ImageInv, Unmap
  PROVE  PagesInv'
<1>1. /\ phase = "unmap" /\ phase' = "returned" /\ UNCHANGED <<prog, mode, lowering, image>>
      /\ prot' = [p \in DOMAIN prot \ Unmapped |-> prot[p]]
      /\ mem' = [a \in {b \in DOMAIN mem : b \div Page \notin Unmapped} |-> mem[a]]
  BY DEF Unmap
<1>2. TypeOK /\ mode = "jit" /\ MappedTo(MapRights, CodeRights) /\ MemoryIsFilled
  BY <1>1 DEF ImageInv, PagesInv
<1>3. DOMAIN prot' = {}
  BY <1>1, <1>2 DEF MappedTo, Unmapped
<1>4. DOMAIN mem' = {}
  <2>1. Mapped \in Int /\ Total \in Int
    BY <1>2, JitLayout, LengthsAreNumbers
  <2>2. ASSUME NEW b \in DOMAIN mem
        PROVE  b \div Page \in Unmapped
    <3>1. b \in Mapped .. Mapped + Total - 1
      BY <1>2 DEF MemoryIsFilled
    <3>2. QED
      BY <2>1, <3>1, PageOfByte DEF Unmapped
  <2>3. QED
    BY <1>1, <2>2
<1>5. RunsWithItsRights' /\ NothingIsLeft'
  BY <1>1, <1>3, <1>4 DEF RunsWithItsRights, NothingIsLeft
<1>6. QED
  BY <1>1, <1>5 DEF PagesInv

-----------------------------------------------------------------------------
(* The theorems.                                                           *)

LEMMA StepKeepsType ==
  ASSUME ImageInv, [Next]_vars
  PROVE  TypeOK'
<1>1. TypeOK
  BY DEF ImageInv
<1>2. CASE LayOutData
  BY <1>1, <1>2, LayOutDataIsTyped
<1>3. CASE EmitFunction
  BY <1>1, <1>3, EmitFunctionIsTyped
<1>4. CASE AppendHelpers
  BY <1>1, <1>4, AppendHelpersIsTyped
<1>5. CASE CollectRelocs
  BY <1>1, <1>5, CollectRelocsIsTyped
<1>6. CASE WriteImage \/ Load \/ Map \/ Fill \/ Protect \/ Run \/ Unmap \/ UNCHANGED vars
  BY <1>1, <1>6, LaterStepsAreTyped
<1>7. QED
  BY <1>2, <1>3, <1>4, <1>5, <1>6 DEF Next

LEMMA StutterKeepsPages ==
  ASSUME PagesInv, UNCHANGED vars
  PROVE  PagesInv'
<1>1. UNCHANGED <<prog, mode, lowering, image, phase, mem, prot, emit>>
  BY DEF vars, running, lowering
<1>2. /\ ImageIsWritten' = ImageIsWritten /\ MemoryIsFilled' = MemoryIsFilled
      /\ MappedTo(MapRights, MapRights)' = MappedTo(MapRights, MapRights)
      /\ MappedTo(MapRights, CodeRights)' = MappedTo(MapRights, CodeRights)
  <2>1. Segments' = Segments
    BY <1>1 DEF Segments, Segment, RxLen, Preamble, DataOffset, DataVaddr, HeapVaddr, HeapLen
  <2>2. QED
    BY <1>1, <2>1, SamePlaces DEF ImageIsWritten, MemoryIsFilled, MappedTo
<1>3. RunsWithItsRights' = RunsWithItsRights /\ NothingIsLeft' = NothingIsLeft
  BY <1>1 DEF RunsWithItsRights, NothingIsLeft
<1>4. QED
  BY <1>1, <1>2, <1>3 DEF PagesInv

LEMMA StepKeepsPages ==
  ASSUME ImageInv, [Next]_vars
  PROVE  PagesInv'
<1>1. PagesInv
  BY DEF ImageInv
<1>2. CASE LayOutData \/ EmitFunction \/ AppendHelpers \/ CollectRelocs
  BY <1>1, <1>2, LoweringMapsNothing
<1>3. CASE WriteImage
  BY <1>3, WriteImageKeepsPages
<1>4. CASE Load
  BY <1>4, LoadKeepsPages
<1>5. CASE Map
  BY <1>5, MapKeepsPages
<1>6. CASE Fill
  BY <1>6, FillKeepsPages
<1>7. CASE Protect
  BY <1>7, ProtectKeepsPages
<1>8. CASE Run
  BY <1>8, RunKeepsPages
<1>9. CASE Unmap
  BY <1>9, UnmapKeepsPages
<1>10. CASE UNCHANGED vars
  BY <1>1, <1>10, StutterKeepsPages
<1>11. QED
  BY <1>2, <1>3, <1>4, <1>5, <1>6, <1>7, <1>8, <1>9, <1>10 DEF Next

-----------------------------------------------------------------------------
(* What operands reach.                                                    *)

(* An opcode whose operand follows, and a window of so many bytes after    *)
(* one.                                                                    *)
Opens(c, q) == q \in DOMAIN c /\ c[q].what = "op" /\ ~ (q < Len(c) /\ c[q + 1].what = "op")

WindowAt(c, q, w) ==
  /\ q \in DOMAIN c /\ q + w <= Len(c)
  /\ c[q].what = "op" /\ c[q].of = w
  /\ \A m \in 1 .. w : c[q + m].what = "window" /\ c[q + m].byte = m - 1

(* A symbol that stands for what the IR names.                             *)
Fits(sym, means, p, v, u) ==
  \/ sym.of = "Fn" /\ sym.n \in DOMAIN p.fns /\ means = Sym("Fn", sym.n)
  \/ sym.of = "String" /\ sym.n \in 0 .. p.strings - 1 /\ means = Sym("String", sym.n)
  \/ sym.of = "VtableOff" /\ \E r \in DOMAIN p.vtables : /\ p.vtables[r] # <<>>
                                                         /\ sym.n = v[r]
                                                         /\ means = Sym("Vtable", r)
  \/ sym.of = "Static" /\ sym.n \in 1 .. p.statics /\ means = Sym("Static", sym.n)
  \/ sym.of = "ArgvRsp" /\ "argv" \in u /\ means = Sym("ArgvRsp", 0)
  \/ /\ sym.of \in Helpers /\ means = Sym(sym.of, 0)
     /\ sym.of \in ToSet(ExcHelpers) => "exc" \in u
     /\ sym.of \in ToSet(PlainHelpers) => sym.of \in u
     /\ sym.of \in {"Alloc", "Release"} => p.heap > 0

(* A jump that has been patched: its value leads to its block.             *)
Landed(c, q) ==
  /\ WindowAt(c, q, 4) /\ c[q].means.of = "Block"
  /\ \A m \in 1 .. 4 : c[q + m].value = c[q + 1].value /\ c[q + m].part = m - 1
  /\ LET t == q + 5 + c[q + 1].value
     IN  /\ t \in DOMAIN c /\ c[t].what = "Block"
         /\ c[t].of = c[q].means.n /\ c[t].byte = c[q].means.fn

Sites(records) == { records[k].site : k \in DOMAIN records }

(* An operand the emitter has left open, for a relocation, a call, or a    *)
(* jump of function j.                                                     *)
RelocFits(r, c, p, v, u) ==
  /\ r.kind = "Abs64" /\ r.section = "code" /\ r.sym.of \notin Helpers
  /\ WindowAt(c, r.site, 8) /\ Fits(r.sym, c[r.site].means, p, v, u)
CallFits(r, c, p, v, u) == WindowAt(c, r.site, 4) /\ Fits(r.sym, c[r.site].means, p, v, u)
JumpFits(r, c, j) ==
  /\ WindowAt(c, r.site, 4)
  /\ c[r.site].means = [of |-> "Block", n |-> r.block, fn |-> j]

Served(e, q) ==
  \/ q \in Sites(e.relocs) \/ q \in Sites(e.calls) \/ q \in Sites(e.jumps)
  \/ Landed(e.code, q)

(* Each operand is written down, with a symbol that fits.                  *)
Sound(e, j, p, v, u) ==
  /\ \A q \in DOMAIN e.code : Opens(e.code, q) => Served(e, q)
  /\ \A k \in DOMAIN e.relocs : RelocFits(e.relocs[k], e.code, p, v, u)
  /\ \A k \in DOMAIN e.calls  : CallFits(e.calls[k], e.code, p, v, u)
  /\ \A k \in DOMAIN e.jumps  : JumpFits(e.jumps[k], e.code, j)

Plain(c) == \A i \in DOMAIN c : c[i].what \notin Helpers

(* Functions begin where starts says.                                      *)
StartsLaid(c, s) ==
  /\ \A f \in DOMAIN s : /\ s[f] + 1 \in DOMAIN c /\ c[s[f] + 1].what = "Fn"
                         /\ c[s[f] + 1].of = f /\ c[s[f] + 1].byte = 0
  /\ IF s = <<>> THEN c = <<>> ELSE s[1] = 0

(* A helper that allocates has a heap; the data's slots are known at once. *)
UsesCover(p, u) ==
  /\ u \cap {"Alloc", "Release"} # {} => p.heap > 0
  /\ Ops(p) \cap ExcOps # {} => "exc" \in u
  /\ "BuildArgv" \in Ops(p) => "argv" \in u

(* Strings, rows and fields are where places says.                         *)
DataLaid(d, p, v, s) ==
  /\ \A i \in DOMAIN d : d[i].part = None
  /\ \A n \in 0 .. p.strings - 1 : n + 1 \in DOMAIN d /\ d[n + 1] = Cell("string", 0, n)
  /\ \A r \in DOMAIN p.vtables : \A t \in 0 .. 8 * Len(p.vtables[r]) - 1 :
       v[r] + t + 1 \in DOMAIN d /\ d[v[r] + t + 1] = Cell("vtable", r, t)
  /\ \A i \in DOMAIN d : d[i].what = "vtable" =>
       /\ d[i].of \in DOMAIN p.vtables
       /\ d[i].byte \in 0 .. 8 * Len(p.vtables[d[i].of]) - 1
       /\ i = v[d[i].of] + d[i].byte + 1
  /\ \A n \in 1 .. p.statics : s[n] + 1 \in DOMAIN d /\ d[s[n] + 1] = Cell("static", n, 0)

(* So are the helpers and the slots.                                       *)
HelpersLaid(c, at) ==
  /\ \A h \in Helpers : at[h] # None => \A t \in 0 .. Size[h] - 1 :
       at[h] + t + 1 \in DOMAIN c /\ c[at[h] + t + 1] = Cell(h, 0, t)
  /\ \A i \in DOMAIN c : c[i].what \in Helpers =>
       /\ at[c[i].what] # None /\ c[i].byte \in 0 .. Size[c[i].what] - 1
       /\ i = at[c[i].what] + c[i].byte + 1

HelpersChosen(at, u) ==
  /\ \A h \in ToSet(PlainHelpers) : at[h] # None <=> h \in u
  /\ \A h \in ToSet(ExcHelpers)   : at[h] # None <=> "exc" \in u

SlotsLaid(d, pl, u) ==
  /\ "argv" \in u => pl.argv # None /\ pl.argv + 1 \in DOMAIN d /\ d[pl.argv + 1] = Cell("argv", 0, 0)
  /\ "exc" \in u  => pl.exc + 1 \in DOMAIN d /\ d[pl.exc + 1] = Cell("exc", 0, 0)

(* Where the parts are put.                                                *)
CodeAt == IF mode = "jit" THEN Mapped  ELSE BlobVaddr
DataAt == IF mode = "jit" THEN JitData ELSE DataVaddr
HeapAt == IF mode = "jit" THEN JitHeap ELSE HeapVaddr

Is(cell, named) == <<cell.what, cell.of, cell.byte>> = named

(* The target of a symbol is the first byte of what the IR names.          *)
Names(sym, means) ==
  LET t == Target(sym, CodeAt, DataAt, HeapAt)
  IN  \/ \E i \in DOMAIN emit.code : t = CodeAt + i - 1 /\ Is(emit.code[i], Named(means))
      \/ \E i \in DOMAIN emit.data : t = DataAt + i - 1 /\ Is(emit.data[i], Named(means))
      \/ t = HeapAt /\ prog.heap > 0 /\ Named(means) = <<"heap", 0, 0>>

(* A byte of an operand tells where the operand begins; its first byte and *)
(* the one before tell its width and what it names.                        *)
SiteOf(cells, i) ==
  CASE cells[i].what = "window"   -> i - 1 - cells[i].byte
    [] cells[i].what \in Helpers  -> i - 1 - cells[i].byte + Operand(cells[i].what)
    [] cells[i].what = "vtable"   -> i - 1 - (cells[i].byte % 8)
    [] OTHER -> i

WidthAt(cells, s) == IF cells[s + 1].what = "window" THEN cells[s].of ELSE 8

MeansAt(cells, s) ==
  LET c == cells[s + 1]
  IN  CASE c.what = "window" -> cells[s].means
        [] c.what \in {"Alloc", "Release"} -> Sym("HeapBase", 0)
        [] c.what \in ToSet(ExcHelpers) -> Sym("ExcState", 0)
        [] c.what = "vtable" -> Sym("Fn", prog.vtables[c.of][c.byte \div 8 + 1])

Width(r) == IF r.kind = "Abs64" THEN 8 ELSE 4

(* A relocation fills an operand, and names what the operand does.         *)
Fills(r, cells) ==
  /\ Width(r) = WidthAt(cells, r.site)
  /\ \A m \in 1 .. Width(r) : r.site + m \in DOMAIN cells /\ SiteOf(cells, r.site + m) = r.site
  /\ Names(r.sym, MeansAt(cells, r.site))

SitesIn(relocs, section) ==
  { relocs[k].site : k \in {l \in DOMAIN relocs : relocs[l].section = section} }

(* Each operand has its relocations.                                       *)
Linked(relocs) ==
  /\ \A k \in DOMAIN relocs :
       Fills(relocs[k], IF relocs[k].section = "code" THEN emit.code ELSE emit.data)
  /\ \A k \in DOMAIN relocs : relocs[k].section = "data" => relocs[k].kind = "Abs64"
  /\ \A q \in DOMAIN emit.code : Opens(emit.code, q) =>
       \/ /\ q \in SitesIn(relocs, "code") /\ WindowAt(emit.code, q, emit.code[q].of)
          /\ emit.code[q].of \in {4, 8}
       \/ q \notin SitesIn(relocs, "code") /\ Landed(emit.code, q)
  /\ \A i \in DOMAIN emit.code :
       emit.code[i].what \in Helpers /\ emit.code[i].byte = Movabs[emit.code[i].what] =>
         /\ i \in SitesIn(relocs, "code") /\ i + 1 \in DOMAIN emit.code
         /\ emit.code[i + 1].what = emit.code[i].what /\ emit.code[i].what \in Patchable
  /\ \A i \in DOMAIN emit.data :
       emit.data[i].what = "vtable" /\ emit.data[i].byte % 8 = 0 =>
         (i - 1 \in SitesIn(relocs, "data")
            <=> prog.vtables[emit.data[i].of][emit.data[i].byte \div 8 + 1] # Hole)
  /\ \A i \in DOMAIN emit.data : emit.data[i].part = None
  /\ 1 \in DOMAIN emit.code /\ Is(emit.code[1], <<"Fn", 1, 0>>)

AppliedCode == Applied(emit.code, "code", CodeAt, DataAt, HeapAt)
AppliedData == Applied(emit.data, "data", CodeAt, DataAt, HeapAt)

(* What memory holds, and where it holds code and data.                    *)
Placed ==
  /\ \A i \in DOMAIN emit.code : CodeAt + i - 1 \in DOMAIN mem /\ mem[CodeAt + i - 1] = AppliedCode[i]
  /\ \A i \in DOMAIN emit.data : DataAt + i - 1 \in DOMAIN mem /\ mem[DataAt + i - 1] = AppliedData[i]
  /\ prog.heap > 0 => HeapAt \in DOMAIN mem /\ mem[HeapAt] = Cell("heap", 0, 0)
  /\ \A a \in DOMAIN mem :
       /\ a \in Int
       /\ mem[a].what \in CodeKinds => a - CodeAt + 1 \in DOMAIN emit.code
       /\ mem[a].what \in DataKinds => a - DataAt + 1 \in DOMAIN emit.data

(* What holds while functions are emitted, and before relocations are      *)
(* collected.                                                              *)
SoFar(e, s, p, pl, u) ==
  /\ Sound(e, 0, p, pl.vtables, u) /\ e.jumps = <<>>
  /\ StartsLaid(e.code, s) /\ UsesCover(p, u)
  /\ DataLaid(e.data, p, pl.vtables, pl.statics)

Lowering == {"data", "functions", "relocs"}

LinkInv ==
  /\ phase = "data" =>
       /\ emit.code = <<>> /\ emit.relocs = <<>> /\ emit.calls = <<>> /\ starts = <<>>
       /\ emit.jumps = <<>> /\ uses = {}
  /\ phase \in {"functions", "relocs"} => SoFar(emit, starts, prog, places, uses)
  /\ phase = "functions" => Plain(emit.code)
  /\ phase = "relocs" => /\ HelpersLaid(emit.code, helperAt) /\ HelpersChosen(helperAt, uses)
                         /\ SlotsLaid(emit.data, places, uses)
  /\ phase \notin Lowering => Linked(emit.relocs)
  /\ phase = "load" => image.code = AppliedCode /\ image.data = AppliedData
  /\ phase \in {"protect", "run"} => Placed
-----------------------------------------------------------------------------
(* Where the sequences of a sequence are when they follow each other.      *)
SpreadOut(flat, s, off, n) ==
  /\ \A k \in 1 .. n : \A t \in 1 .. Len(s[k]) :
       off[k - 1] + t \in 1 .. Len(flat) /\ flat[off[k - 1] + t] = s[k][t]
  /\ \A i \in 1 .. Len(flat) : \E k \in 1 .. n : \E t \in 1 .. Len(s[k]) : i = off[k - 1] + t

LEMMA SpreadFurther ==
  ASSUME NEW S, NEW s, NEW n \in Nat \ {0}, NEW off, NEW x \in Seq(S), s[n] \in Seq(S),
         off[n - 1] = Len(x), SpreadOut(x, s, off, n - 1)
  PROVE  SpreadOut(x \o s[n], s, off, n)
<1> DEFINE y == s[n]
           z == x \o y
<1>1. /\ Len(x) \in Nat /\ Len(y) \in Nat /\ Len(z) = Len(x) + Len(y)
      /\ \A i \in 1 .. Len(x) : z[i] = x[i]
      /\ \A t \in 1 .. Len(y) : z[Len(x) + t] = y[t]
  OBVIOUS
<1> HIDE DEF z
<1>2. ASSUME NEW k \in 1 .. n, NEW t \in 1 .. Len(s[k])
      PROVE  off[k - 1] + t \in 1 .. Len(z) /\ z[off[k - 1] + t] = s[k][t]
  <2>1. CASE k = n
    <3>1. off[k - 1] = Len(x) /\ s[k] = y
      BY <2>1
    <3>2. t \in 1 .. Len(y)
      BY <3>1
    <3> HIDE DEF y
    <3>3. Len(x) + t \in 1 .. Len(z) /\ z[Len(x) + t] = y[t]
      <4>1. z[Len(x) + t] = y[t]
        BY <1>1, <3>2
      <4>2. \A l, m, o \in Nat : l \in 1 .. m => o + l \in 1 .. o + m
        OBVIOUS
      <4>3. t \in Nat
        BY <1>1, <3>2
      <4>4. QED
        BY <1>1, <3>2, <4>1, <4>2, <4>3
    <3>4. QED
      BY <3>1, <3>3
  <2>2. CASE k # n
    <3>1. k \in 1 .. n - 1
      BY <2>2
    <3>2. off[k - 1] + t \in 1 .. Len(x) /\ x[off[k - 1] + t] = s[k][t]
      BY <3>1 DEF SpreadOut
    <3>3. QED
      BY <1>1, <3>2
  <2>3. QED
    BY <2>1, <2>2
<1>3. ASSUME NEW i \in 1 .. Len(z)
      PROVE  \E k \in 1 .. n : \E t \in 1 .. Len(s[k]) : i = off[k - 1] + t
  <2>1. CASE i <= Len(x)
    <3>1. i \in 1 .. Len(x)
      BY <1>1, <2>1
    <3>2. PICK k \in 1 .. n - 1 : \E t \in 1 .. Len(s[k]) : i = off[k - 1] + t
      BY <3>1 DEF SpreadOut
    <3>3. k \in 1 .. n
      OBVIOUS
    <3>4. QED
      BY <3>2, <3>3
  <2>2. CASE i > Len(x)
    <3> DEFINE t == i - Len(x)
    <3>1. t \in 1 .. Len(y) /\ i = off[n - 1] + t
      BY <1>1, <2>2
    <3> HIDE DEF t
    <3>2. n \in 1 .. n
      OBVIOUS
    <3>3. QED
      BY <3>1, <3>2
  <2>3. QED
    BY <1>1, <2>1, <2>2
<1>4. QED
  BY <1>2, <1>3 DEF SpreadOut, z

LEMMA FlattenSpreads ==
  ASSUME NEW S, NEW s \in Seq(Seq(S)), NEW off, off[0] = 0,
         \A k \in 1 .. Len(s) : off[k] = off[k - 1] + Len(s[k])
  PROVE  SpreadOut(FlattenSeq(s), s, off, Len(s))
<1> DEFINE L == Len(s)
<1>1. L \in Nat /\ \A i \in 1 .. L : s[i] \in Seq(S)
  OBVIOUS
<1>2. CASE L = 0
  <2>1. Len(FlattenSeq(s)) = 0
    BY <1>2, FlattenNone
  <2>2. QED
    BY <1>2, <2>1 DEF SpreadOut
<1>3. CASE L # 0
  <2>1. PICK f : /\ f[1] = s[1] /\ \A i \in 2 .. L : f[i] = f[i - 1] \o s[i]
                 /\ FlattenSeq(s) = f[L]
    BY <1>3, FlattenUnfolds
  <2> DEFINE G == {n \in 0 .. L - 1 : /\ f[n + 1] \in Seq(S) /\ off[n + 1] = Len(f[n + 1])
                                      /\ SpreadOut(f[n + 1], s, off, n + 1)}
  <2> HIDE DEF L
  <2>2. 0 \in G
    <3>1. 1 \in 1 .. L /\ 0 \in 0 .. L - 1 /\ f[1] = s[1] /\ s[1] \in Seq(S)
      BY <1>1, <1>3, <2>1
    <3>2. off[1] = Len(s[1])
      <4>1. off[1] = off[1 - 1] + Len(s[1])
        BY <3>1 DEF L
      <4>2. Len(s[1]) \in Nat
        BY <3>1
      <4>3. QED
        BY <4>1, <4>2
    <3>3. SpreadOut(s[1], s, off, 1)
      <4>1. Len(s[1]) \in Nat
        BY <3>1
      <4>2. QED
        BY <4>1 DEF SpreadOut
    <3>4. QED
      BY <3>1, <3>2, <3>3
  <2>3. ASSUME NEW n \in 1 .. L - 1, n - 1 \in G
        PROVE  n \in G
    <3> DEFINE m == n + 1
    <3>1. /\ m \in 2 .. L /\ m \in 1 .. L /\ m - 1 = n /\ (n - 1) + 1 = n /\ n \in 0 .. L - 1
          /\ m \in Nat \ {0}
      BY <1>1
    <3>2. f[n] \in Seq(S) /\ off[n] = Len(f[n]) /\ SpreadOut(f[n], s, off, n)
      BY <2>3, <3>1
    <3> HIDE DEF m
    <3>3. f[m] = f[n] \o s[m] /\ s[m] \in Seq(S) /\ off[m] = off[n] + Len(s[m])
      <4>1. f[m] = f[m - 1] \o s[m] /\ off[m] = off[m - 1] + Len(s[m]) /\ s[m] \in Seq(S)
        BY <1>1, <2>1, <3>1 DEF L
      <4>2. QED
        BY <3>1, <4>1, Zenon
    <3>4. SpreadOut(f[n] \o s[m], s, off, m)
      <4>1. off[m - 1] = Len(f[n]) /\ SpreadOut(f[n], s, off, m - 1)
        BY <3>1, <3>2
      <4>2. QED
        BY <3>1, <3>2, <3>3, <4>1, SpreadFurther
    <3>5. f[m] \in Seq(S) /\ off[m] = Len(f[m])
      BY <3>2, <3>3
    <3>6. QED
      BY <3>1, <3>3, <3>4, <3>5 DEF m
  <2>4. L - 1 \in Nat /\ L - 1 \in 0 .. L - 1 /\ (L - 1) + 1 = L
    BY <1>1, <1>3
  <2> HIDE DEF G
  <2>5. L - 1 \in G
    BY <2>2, <2>3, <2>4, UpTo
  <2>6. SpreadOut(f[L], s, off, L)
    BY <2>4, <2>5 DEF G
  <2>7. QED
    BY <2>1, <2>6 DEF L
<1>4. QED
  BY <1>2, <1>3

(* With the offsets that Offsets gives them.                               *)
LaidOut(flat, s, at, from) ==
  /\ \A k \in 1 .. Len(s) : \A t \in 1 .. Len(s[k]) :
       at[k] - from + t \in 1 .. Len(flat) /\ flat[at[k] - from + t] = s[k][t]
  /\ \A i \in 1 .. Len(flat) : \E k \in 1 .. Len(s) : \E t \in 1 .. Len(s[k]) :
       i = at[k] - from + t

LEMMA FlattenPlaces ==
  ASSUME NEW S, NEW s \in Seq(Seq(S)), NEW from \in Int, NEW sizes \in [1 .. Len(s) -> Int],
         \A k \in 1 .. Len(s) : sizes[k] = Len(s[k])
  PROVE  LaidOut(FlattenSeq(s), s, Offsets(from, sizes), from)
<1> DEFINE N == Len(s)
<1>1. N \in Nat
  OBVIOUS
<1>2. PICK g : /\ g[0] = from /\ \A k \in 1 .. N : g[k] = g[k - 1] + sizes[k]
               /\ Offsets(from, sizes) = [k \in 1 .. N |-> g[k - 1]]
  BY <1>1, OffsetsUnfold
<1> HIDE DEF N
<1>3. \A k \in 0 .. N : g[k] \in Int
  <2>1. \A k \in 1 .. N : g[k - 1] \in Int => g[k] \in Int
    BY <1>2 DEF N
  <2>2. QED
    BY <1>1, <1>2, <2>1, Keeps
<1> DEFINE off == [k \in 0 .. N |-> g[k] - from]
<1>4. \A k \in 1 .. N : k - 1 \in 0 .. N /\ k \in 0 .. N
  BY <1>1
<1>5. off[0] = 0 /\ \A k \in 1 .. N : off[k] = off[k - 1] + Len(s[k])
  <2>1. 0 \in 0 .. N /\ off[0] = from - from
    BY <1>1, <1>2
  <2>2. ASSUME NEW k \in 1 .. N
        PROVE  off[k] = off[k - 1] + Len(s[k])
    <3>1. off[k] = g[k] - from /\ off[k - 1] = g[k - 1] - from
      BY <1>4
    <3>2. g[k] = g[k - 1] + Len(s[k]) /\ g[k - 1] \in Int /\ Len(s[k]) \in Int
      BY <1>2, <1>3, <1>4 DEF N
    <3> HIDE DEF off
    <3>3. QED
      BY <3>1, <3>2
  <2>3. from - from = 0
    OBVIOUS
  <2> HIDE DEF off
  <2>4. QED
    BY <2>1, <2>2, <2>3
<1>6. \A k \in 1 .. N : Offsets(from, sizes)[k] - from = off[k - 1]
  BY <1>2, <1>4
<1> HIDE DEF off
<1>7. SpreadOut(FlattenSeq(s), s, off, N)
  BY <1>5, FlattenSpreads DEF N
<1>8. ASSUME NEW k \in 1 .. N, NEW t \in 1 .. Len(s[k])
      PROVE  /\ Offsets(from, sizes)[k] - from + t \in 1 .. Len(FlattenSeq(s))
             /\ FlattenSeq(s)[Offsets(from, sizes)[k] - from + t] = s[k][t]
  BY <1>6, <1>7 DEF SpreadOut
<1>9. ASSUME NEW i \in 1 .. Len(FlattenSeq(s))
      PROVE  \E k \in 1 .. N : \E t \in 1 .. Len(s[k]) :
               i = Offsets(from, sizes)[k] - from + t
  <2>1. PICK k \in 1 .. N : \E t \in 1 .. Len(s[k]) : i = off[k - 1] + t
    BY <1>7 DEF SpreadOut
  <2>2. off[k - 1] = Offsets(from, sizes)[k] - from
    BY <1>6
  <2>3. QED
    BY <2>1, <2>2
<1>10. QED
  BY <1>8, <1>9 DEF N, LaidOut

(* So the elements of the whole are those of its parts.                    *)
ElementsOf(flat, s) ==
  /\ \A k \in 1 .. Len(s) : \A t \in 1 .. Len(s[k]) : \E i \in DOMAIN flat : flat[i] = s[k][t]
  /\ \A i \in DOMAIN flat : \E k \in 1 .. Len(s) : \E t \in 1 .. Len(s[k]) : flat[i] = s[k][t]

LEMMA FlattenElements ==
  ASSUME NEW S, NEW s \in Seq(Seq(S))
  PROVE  ElementsOf(FlattenSeq(s), s)
<1> DEFINE sizes == [k \in 1 .. Len(s) |-> Len(s[k])]
           flat  == FlattenSeq(s)
           at    == Offsets(0, sizes)
<1>1. Len(s) \in Nat /\ \A k \in 1 .. Len(s) : s[k] \in Seq(S)
  OBVIOUS
<1>2. \A k \in 1 .. Len(s) : Len(s[k]) \in Int
  BY <1>1
<1>3. sizes \in [1 .. Len(s) -> Int] /\ \A k \in 1 .. Len(s) : sizes[k] = Len(s[k])
  BY <1>2
<1>4. DOMAIN flat = 1 .. Len(flat)
  <2>1. flat \in Seq(S)
    BY Flatten
  <2> HIDE DEF flat
  <2>2. QED
    BY <2>1
<1> HIDE DEF sizes
<1>5. LaidOut(flat, s, at, 0)
  <2>1. 0 \in Int
    OBVIOUS
  <2>2. QED
    BY <1>3, <2>1, FlattenPlaces
<1> HIDE DEF at, flat
<1>6. \A k \in 1 .. Len(s) : \A t \in 1 .. Len(s[k]) : \E i \in DOMAIN flat : flat[i] = s[k][t]
  BY <1>4, <1>5 DEF LaidOut
<1>7. ASSUME NEW i \in DOMAIN flat
      PROVE  \E k \in 1 .. Len(s) : \E t \in 1 .. Len(s[k]) : flat[i] = s[k][t]
  <2>1. PICK k \in 1 .. Len(s) : \E t \in 1 .. Len(s[k]) : i = at[k] - 0 + t
    BY <1>4, <1>5 DEF LaidOut
  <2>2. PICK t \in 1 .. Len(s[k]) : i = at[k] - 0 + t
    BY <2>1
  <2>3. flat[i] = s[k][t]
    BY <1>5, <2>2 DEF LaidOut
  <2>4. QED
    BY <2>3
<1>8. QED
  BY <1>6, <1>7 DEF ElementsOf, flat

-----------------------------------------------------------------------------
(* Patching, byte by byte: where no span lies, nothing changes; where all  *)
(* that lie over a window are spans of the window, it holds one value.     *)
Over(spans, i) == {k \in DOMAIN spans : i - spans[k].site \in 1 .. spans[k].width}

Holding(cell, value, part) == [cell EXCEPT !.value = value, !.part = part]

LEMMA PatchedApart ==
  ASSUME NEW cells, NEW spans, NEW values, NEW i \in DOMAIN cells, Over(spans, i) = {}
  PROVE  Patched(cells, spans, values)[i] = cells[i]
BY DEF Patched, Over

LEMMA PatchedOver ==
  ASSUME NEW cells, NEW spans, NEW values, NEW i \in DOMAIN cells, Over(spans, i) # {}
  PROVE  Patched(cells, spans, values)[i] =
           Holding(cells[i], values[Max(Over(spans, i))], i - spans[Max(Over(spans, i))].site - 1)
BY DEF Patched, Over, Holding

(* What patching leaves as it is.                                          *)
Like(c, d) == c.what = d.what /\ c.of = d.of /\ c.byte = d.byte /\ c.means = d.means

LEMMA PatchedIsLike ==
  ASSUME NEW kinds, NEW cells \in Seq(CellOf(kinds)), NEW spans, NEW values,
         NEW i \in DOMAIN cells
  PROVE  Like(Patched(cells, spans, values)[i], cells[i])
<1>1. cells[i] \in CellOf(kinds)
  BY Element
<1>2. CASE Over(spans, i) = {}
  BY <1>2, PatchedApart DEF Like
<1>3. CASE Over(spans, i) # {}
  <2>1. \A value, part : Like(Holding(cells[i], value, part), cells[i])
    BY <1>1 DEF Like, Holding, CellOf
  <2>2. QED
    BY <1>3, <2>1, PatchedOver
<1>4. QED
  BY <1>2, <1>3

(* A window that only the spans at one site lie over holds one value.      *)
Within(c, s, w)    == \A m \in 1 .. w : s + m \in DOMAIN c
Alone(spans, s, w) == /\ \A m \in 1 .. w : \A k \in Over(spans, s + m) : spans[k].site = s
                      /\ \A k \in DOMAIN spans : spans[k].site = s => spans[k].width = w
HoldsFrom(d, c, s, w, value) == \A m \in 1 .. w : d[s + m] = Holding(c[s + m], value, m - 1)

LEMMA PatchedSpan ==
  ASSUME NEW cells, NEW N \in Nat, NEW spans \in [1 .. N -> [site : Int, width : Int]],
         NEW values, NEW s \in Int, NEW w \in Nat,
         Within(cells, s, w), Alone(spans, s, w), \E k \in DOMAIN spans : spans[k].site = s
  PROVE  \E k \in DOMAIN spans :
           spans[k].site = s /\ HoldsFrom(Patched(cells, spans, values), cells, s, w, values[k])
<1> DEFINE O == {k \in 1 .. N : spans[k].site = s}
           last == Max(O)
<1>0. /\ DOMAIN spans = 1 .. N /\ \A m \in 1 .. w : s + m \in DOMAIN cells
      /\ \A m \in 1 .. w : \A k \in Over(spans, s + m) : spans[k].site = s
      /\ \A k \in 1 .. N : spans[k].site = s => spans[k].width = w
  BY DEF Within, Alone
<1>1. O \in SUBSET (1 .. N) /\ O # {}
  BY <1>0
<1>2. last \in O
  <2> HIDE DEF O
  <2>1. QED
    BY <1>1, LastIsOne
<1>3. ASSUME NEW m \in 1 .. w
      PROVE  Over(spans, s + m) = O
  <2>1. \A k \in 1 .. N : (s + m) - s = m
    OBVIOUS
  <2>2. \A k \in O : k \in Over(spans, s + m)
    BY <1>0, <2>1 DEF Over
  <2>3. \A k \in Over(spans, s + m) : k \in O
    BY <1>0 DEF Over
  <2>4. QED
    BY <2>2, <2>3
<1>4. last \in 1 .. N /\ spans[last].site = s
  BY <1>2
<1> HIDE DEF O
<1>5. \A m \in 1 .. w : Patched(cells, spans, values)[s + m] =
                          Holding(cells[s + m], values[last], m - 1)
  <2>1. ASSUME NEW m \in 1 .. w
        PROVE  Patched(cells, spans, values)[s + m] = Holding(cells[s + m], values[last], m - 1)
    <3> DEFINE i == s + m
    <3>1. Over(spans, i) = O /\ O # {} /\ i \in DOMAIN cells
      BY <1>0, <1>1, <1>3
    <3>2. i - spans[last].site - 1 = m - 1
      BY <1>4
    <3> HIDE DEF i, last
    <3>3. Patched(cells, spans, values)[i]
            = Holding(cells[i], values[Max(O)], i - spans[Max(O)].site - 1)
      BY <3>1, PatchedOver
    <3>4. QED
      BY <3>2, <3>3 DEF last, i
  <2>2. QED
    BY <2>1
<1>6. QED
  BY <1>0, <1>4, <1>5 DEF HoldsFrom

(* Code that another begins with, or is but for values.                    *)
Grown(c, d) == Len(c) <= Len(d) /\ \A i \in 1 .. Len(c) : d[i] = c[i]
Kept(c, d)  == Len(c) <= Len(d) /\ \A i \in 1 .. Len(c) : Like(d[i], c[i])

LEMMA GrownIsKept ==
  ASSUME NEW c, NEW d, Grown(c, d)
  PROVE  Kept(c, d)
BY DEF Grown, Kept, Like

LEMMA GrowFurther ==
  ASSUME NEW S, NEW c \in Seq(S), NEW d \in Seq(S), NEW e \in Seq(S), Grown(c, d), Grown(d, e)
  PROVE  Grown(c, e)
<1>1. Len(c) \in Nat /\ Len(d) \in Nat /\ Len(e) \in Nat
  OBVIOUS
<1>2. QED
  BY <1>1 DEF Grown

Follows(c, d, e) ==
  /\ Len(e) = Len(c) + Len(d) /\ Grown(c, e)
  /\ \A i \in 1 .. Len(d) : e[Len(c) + i] = d[i]

LEMMA Joined ==
  ASSUME NEW S, NEW c \in Seq(S), NEW d \in Seq(S)
  PROVE  c \o d \in Seq(S) /\ Follows(c, d, c \o d)
<1>1. Len(c) \in Nat /\ Len(d) \in Nat /\ Len(c \o d) = Len(c) + Len(d)
  OBVIOUS
<1>2. \A i \in 1 .. Len(c) : (c \o d)[i] = c[i]
  OBVIOUS
<1>3. \A i \in 1 .. Len(d) : (c \o d)[Len(c) + i] = d[i]
  OBVIOUS
<1>4. QED
  BY <1>1, <1>2, <1>3 DEF Follows, Grown

-----------------------------------------------------------------------------
(* Emission leaves no operand behind.                                      *)

LEMMA WindowKept ==
  ASSUME NEW S, NEW c \in Seq(S), NEW T, NEW d \in Seq(T), Kept(c, d), NEW q, NEW w \in Nat,
         WindowAt(c, q, w)
  PROVE  WindowAt(d, q, w) /\ d[q].means = c[q].means
<1>1. Len(c) \in Nat /\ DOMAIN c = 1 .. Len(c) /\ Len(d) \in Nat /\ DOMAIN d = 1 .. Len(d)
  OBVIOUS
<1>2. /\ q \in 1 .. Len(c) /\ q + w <= Len(c) /\ c[q].what = "op" /\ c[q].of = w
      /\ \A m \in 1 .. w : c[q + m].what = "window" /\ c[q + m].byte = m - 1
  BY <1>1 DEF WindowAt
<1>3. Len(c) <= Len(d) /\ \A i \in 1 .. Len(c) : Like(d[i], c[i])
  BY DEF Kept
<1>4. \A m \in 1 .. w : q + m \in 1 .. Len(c)
  BY <1>1, <1>2
<1>5. \A m \in 1 .. w : d[q + m].what = "window" /\ d[q + m].byte = m - 1
  BY <1>2, <1>3, <1>4 DEF Like
<1>6. d[q].what = "op" /\ d[q].of = w /\ d[q].means = c[q].means
  BY <1>2, <1>3 DEF Like
<1>7. QED
  BY <1>1, <1>2, <1>3, <1>5, <1>6 DEF WindowAt

LEMMA LandedKept ==
  ASSUME NEW S, NEW c \in Seq(S), NEW T, NEW d \in Seq(T), Grown(c, d), NEW q, Landed(c, q)
  PROVE  Landed(d, q)
<1>1. Len(c) \in Nat /\ DOMAIN c = 1 .. Len(c) /\ Len(d) \in Nat /\ DOMAIN d = 1 .. Len(d)
  OBVIOUS
<1>2. Len(c) <= Len(d) /\ \A i \in 1 .. Len(c) : d[i] = c[i]
  BY DEF Grown
<1>3. WindowAt(d, q, 4)
  BY GrownIsKept, WindowKept DEF Landed
<1>4. q \in 1 .. Len(c) /\ \A m \in 1 .. 4 : q + m \in 1 .. Len(c)
  BY <1>1 DEF Landed, WindowAt
<1>5. d[q] = c[q] /\ d[q + 1] = c[q + 1] /\ \A m \in 1 .. 4 : d[q + m] = c[q + m]
  BY <1>2, <1>4
<1> DEFINE t == q + 5 + c[q + 1].value
<1>6. t \in 1 .. Len(c) /\ c[t].what = "Block" /\ c[t].of = c[q].means.n /\ c[t].byte = c[q].means.fn
  BY <1>1 DEF Landed
<1>7. t = q + 5 + d[q + 1].value
  BY <1>5
<1> HIDE DEF t
<1>8. t \in 1 .. Len(d) /\ d[t].what = "Block" /\ d[t].of = d[q].means.n /\ d[t].byte = d[q].means.fn
  BY <1>1, <1>2, <1>5, <1>6
<1>9. d[q].means.of = "Block" /\ \A m \in 1 .. 4 : d[q + m].value = d[q + 1].value /\ d[q + m].part = m - 1
  BY <1>5 DEF Landed
<1>10. QED
  BY <1>1, <1>3, <1>7, <1>8, <1>9 DEF Landed

(* What is open in code stays open, and fits, when it grows or is patched. *)
LEMMA FitsKept ==
  ASSUME NEW S, NEW c \in Seq(S), NEW T, NEW d \in Seq(T), Kept(c, d),
         NEW p, NEW v, NEW u, NEW j, NEW r
  PROVE  /\ RelocFits(r, c, p, v, u) => RelocFits(r, d, p, v, u)
         /\ CallFits(r, c, p, v, u) => CallFits(r, d, p, v, u)
         /\ JumpFits(r, c, j) => JumpFits(r, d, j)
<1>1. WindowAt(c, r.site, 8) => WindowAt(d, r.site, 8) /\ d[r.site].means = c[r.site].means
  BY WindowKept
<1>2. WindowAt(c, r.site, 4) => WindowAt(d, r.site, 4) /\ d[r.site].means = c[r.site].means
  BY WindowKept
<1>3. QED
  BY <1>1, <1>2 DEF RelocFits, CallFits, JumpFits

LEMMA Appending ==
  ASSUME NEW S, NEW s \in Seq(S), NEW x
  PROVE  /\ DOMAIN s = 1 .. Len(s) /\ DOMAIN Append(s, x) = 1 .. Len(s) + 1 /\ Len(s) \in Nat
         /\ \A k \in 1 .. Len(s) : Append(s, x)[k] = s[k]
         /\ Append(s, x)[Len(s) + 1] = x
         /\ Sites(Append(s, x)) = Sites(s) \cup {x.site}
<1>1. /\ DOMAIN s = 1 .. Len(s) /\ DOMAIN Append(s, x) = 1 .. Len(s) + 1 /\ Len(s) \in Nat
      /\ \A k \in 1 .. Len(s) : Append(s, x)[k] = s[k]
      /\ Append(s, x)[Len(s) + 1] = x
  OBVIOUS
<1> DEFINE a == Append(s, x)
           n == Len(s)
<1>2. /\ DOMAIN s = 1 .. n /\ DOMAIN a = 1 .. n + 1 /\ n \in Nat
      /\ \A k \in 1 .. n : a[k] = s[k]
      /\ a[n + 1] = x
  BY <1>1
<1> HIDE DEF a, n
<1>3. Sites(a) = Sites(s) \cup {x.site}
  <2>1. ASSUME NEW y \in Sites(a)
        PROVE  y \in Sites(s) \cup {x.site}
    <3>1. PICK k \in 1 .. n + 1 : y = a[k].site
      BY <1>2, <2>1 DEF Sites
    <3>2. CASE k = n + 1
      BY <1>2, <3>1, <3>2
    <3>3. CASE k # n + 1
      <4>1. k \in 1 .. n
        BY <1>2, <3>3
      <4>2. QED
        BY <1>2, <3>1, <4>1 DEF Sites
    <3>4. QED
      BY <3>2, <3>3
  <2>2. ASSUME NEW y \in Sites(s) \cup {x.site}
        PROVE  y \in Sites(a)
    <3>1. CASE y = x.site
      <4>1. n + 1 \in 1 .. n + 1
        BY <1>2
      <4>2. QED
        BY <1>2, <3>1, <4>1 DEF Sites
    <3>2. CASE y \in Sites(s)
      <4>1. PICK k \in 1 .. n : y = s[k].site
        BY <1>2, <3>2 DEF Sites
      <4>2. k \in 1 .. n + 1
        BY <1>2
      <4>3. QED
        BY <1>2, <4>1, <4>2 DEF Sites
    <3>3. QED
      BY <3>1, <3>2
  <2>3. QED
    BY <2>1, <2>2
<1>4. QED
  BY <1>1, <1>3 DEF a, n

(* What EmitWindow does: one operand at the end, written down once.        *)
EmittedCode(c, w, d, site) ==
  /\ Grown(c, d) /\ Len(c) < site /\ Len(d) = site + w.width
  /\ \A i \in Len(c) + 1 .. site : d[i].what = "op"
  /\ WindowAt(d, site, w.width) /\ d[site].means = w.means

Emitted(e, w, f, site) ==
  /\ EmittedCode(e.code, w, f.code, site) /\ f.data = e.data
  /\ IF w.width = 8
     THEN /\ f.relocs = Append(e.relocs, [kind |-> "Abs64", section |-> "code",
                                          site |-> site, sym |-> w.sym])
          /\ f.calls = e.calls /\ f.jumps = e.jumps
     ELSE IF w.sym.of = "Block"
     THEN /\ f.jumps = Append(e.jumps, [site |-> site, block |-> w.sym.n])
          /\ f.relocs = e.relocs /\ f.calls = e.calls
     ELSE /\ f.calls = Append(e.calls, [site |-> site, sym |-> w.sym])
          /\ f.relocs = e.relocs /\ f.jumps = e.jumps

LEMMA EmitWindowEmits ==
  ASSUME NEW blocks \in Nat, NEW e \in Emitter(blocks), NEW w \in Window(blocks)
  PROVE  \E site \in Nat : Emitted(e, w, EmitWindow(e, w), site)
<1> DEFINE n      == IF w.width = 8 THEN 2 ELSE 1
           op     == [Cell("op", w.width, 0) EXCEPT !.means = w.means]
           opcode == [k \in 1 .. n |-> op]
           window == Cells(w.width, "window", 0)
           site   == Len(e.code) + Len(opcode)
           code   == e.code \o opcode \o window
           C      == CellOf(CodeKinds)
<1>1. w.width \in {4, 8} /\ w.width \in Nat /\ w.width \in Int /\ w.means \in Means
      /\ "op" \in CodeKinds /\ "window" \in CodeKinds /\ 0 \in Int
  BY DEF Window, CodeKinds
<1>2. n \in {1, 2} /\ op \in C /\ op.what = "op" /\ op.of = w.width /\ op.means = w.means
  <2>1. Cell("op", w.width, 0) \in C
    BY <1>1, CellHasItsType
  <2>2. op \in C /\ op.means = w.means
    BY <1>1, <2>1 DEF CellOf
  <2>3. op.what = "op" /\ op.of = w.width
    BY DEF Cell
  <2>4. QED
    BY <2>2, <2>3
<1> HIDE DEF n, op
<1>3. opcode \in Seq(C) /\ Len(opcode) = n
  <2>1. opcode \in [1 .. n -> C] /\ n \in Nat
    BY <1>2
  <2> HIDE DEF opcode
  <2>2. QED
    BY <2>1, FunctionIsSequence
<1>4. window \in Seq(C) /\ Len(window) = w.width
  BY <1>1, CellsHaveTheirType
<1>5. \A m \in 1 .. w.width : window[m].what = "window" /\ window[m].byte = m - 1
  BY DEF Cells, Cell
<1>6. e.code \in Seq(C) /\ Len(e.code) \in Nat
  <2>1. e.code \in Seq(C)
    BY DEF Emitter
  <2> HIDE DEF C
  <2>2. QED
    BY <2>1
<1>7. \A k \in 1 .. n : opcode[k] = op
  OBVIOUS
<1> HIDE DEF opcode, window, C
<1>8. PICK front : front = e.code \o opcode /\ front \in Seq(C) /\ Follows(e.code, opcode, front)
  BY <1>3, <1>6, Joined
<1>9. code = front \o window /\ code \in Seq(C) /\ Follows(front, window, code)
  BY <1>4, <1>8, Joined
<1>10. site \in Nat /\ site = Len(front) /\ site = Len(e.code) + n /\ Len(code) = site + w.width
       /\ Len(e.code) < site
  <2>1. Len(front) = Len(e.code) + n
    BY <1>3, <1>8 DEF Follows
  <2>2. Len(code) = Len(front) + w.width
    BY <1>4, <1>9 DEF Follows
  <2>3. site = Len(e.code) + n
    BY <1>3
  <2> HIDE DEF code, site
  <2>4. QED
    BY <1>2, <1>6, <2>1, <2>2, <2>3
<1>11. EmitWindow(e, w) =
        IF w.width = 8
        THEN [e EXCEPT !.code = code, !.relocs = Append(@, [kind |-> "Abs64", section |-> "code",
                                                            site |-> site, sym |-> w.sym])]
        ELSE IF w.sym.of = "Block"
        THEN [e EXCEPT !.code = code, !.jumps = Append(@, [site |-> site, block |-> w.sym.n])]
        ELSE [e EXCEPT !.code = code, !.calls = Append(@, [site |-> site, sym |-> w.sym])]
  BY DEF EmitWindow, opcode, op, n, window
<1> HIDE DEF code, site
<1> DEFINE f == EmitWindow(e, w)
<1>12. \A i \in Len(e.code) + 1 .. site : code[i] = op
  <2>1. ASSUME NEW i \in Len(e.code) + 1 .. site
        PROVE  code[i] = op
    <3> DEFINE k == i - Len(e.code)
    <3>1. k \in 1 .. n /\ i = Len(e.code) + k /\ i \in 1 .. Len(front)
      BY <1>2, <1>6, <1>10
    <3> HIDE DEF k
    <3>2. front[i] = opcode[k]
      BY <1>3, <1>8, <3>1 DEF Follows
    <3>3. code[i] = front[i]
      BY <1>9, <3>1 DEF Follows, Grown
    <3>4. QED
      BY <1>7, <3>1, <3>2, <3>3
  <2>2. QED
    BY <2>1
<1>13. WindowAt(code, site, w.width) /\ code[site] = op
  <2>1. DOMAIN code = 1 .. Len(code)
    BY <1>9
  <2>2. site \in Len(e.code) + 1 .. site /\ site \in 1 .. Len(code) /\ site + w.width <= Len(code)
    BY <1>1, <1>6, <1>10
  <2>3. code[site] = op
    BY <1>12, <2>2
  <2>4. \A m \in 1 .. w.width : code[site + m] = window[m]
    BY <1>4, <1>9, <1>10 DEF Follows
  <2>5. QED
    BY <1>2, <1>5, <2>1, <2>2, <2>3, <2>4 DEF WindowAt
<1>14. Grown(e.code, code)
  <2>1. Grown(e.code, front) /\ Grown(front, code)
    BY <1>8, <1>9 DEF Follows
  <2>2. QED
    BY <1>6, <1>8, <1>9, <2>1, GrowFurther
<1>15. EmittedCode(e.code, w, code, site)
  BY <1>2, <1>10, <1>12, <1>13, <1>14 DEF EmittedCode
<1>16. e = [code |-> e.code, data |-> e.data, relocs |-> e.relocs, calls |-> e.calls,
            jumps |-> e.jumps]
  BY DEF Emitter
<1>17. Emitted(e, w, f, site)
  <2>1. f.code = code /\ f.data = e.data
    BY <1>11, <1>16
  <2>2. IF w.width = 8
        THEN /\ f.relocs = Append(e.relocs, [kind |-> "Abs64", section |-> "code",
                                             site |-> site, sym |-> w.sym])
             /\ f.calls = e.calls /\ f.jumps = e.jumps
        ELSE IF w.sym.of = "Block"
        THEN /\ f.jumps = Append(e.jumps, [site |-> site, block |-> w.sym.n])
             /\ f.relocs = e.relocs /\ f.calls = e.calls
        ELSE /\ f.calls = Append(e.calls, [site |-> site, sym |-> w.sym])
             /\ f.relocs = e.relocs /\ f.jumps = e.jumps
    BY <1>11, <1>16
  <2> HIDE DEF f
  <2>3. QED
    BY <1>15, <2>1, <2>2 DEF Emitted
<1>18. QED
  BY <1>10, <1>17

(* A window with a symbol that stands for what it means.                   *)
GoodWindow(w, j, p, v, u) ==
  IF w.width = 8 THEN Fits(w.sym, w.means, p, v, u) /\ w.sym.of \notin Helpers
  ELSE /\ w.width = 4
       /\ IF w.sym.of = "Block" THEN w.means = [of |-> "Block", n |-> w.sym.n, fn |-> j]
          ELSE Fits(w.sym, w.means, p, v, u)

(* Code that grows by bytes that are no opcodes leaves no operand behind.  *)
LEMMA ServedKept ==
  ASSUME NEW S, NEW e, NEW f, e.code \in Seq(S), NEW T, f.code \in Seq(T), Grown(e.code, f.code),
         Sites(e.relocs) \subseteq Sites(f.relocs), Sites(e.calls) \subseteq Sites(f.calls),
         Sites(e.jumps) \subseteq Sites(f.jumps),
         \A q \in DOMAIN e.code : Opens(e.code, q) => Served(e, q),
         NEW q \in 1 .. Len(e.code), Opens(f.code, q)
  PROVE  Served(f, q)
<1>1. /\ Len(e.code) \in Nat /\ DOMAIN e.code = 1 .. Len(e.code)
      /\ Len(f.code) \in Nat /\ DOMAIN f.code = 1 .. Len(f.code)
  OBVIOUS
<1>2. Len(e.code) <= Len(f.code) /\ \A i \in 1 .. Len(e.code) : f.code[i] = e.code[i]
  BY DEF Grown
<1>3. Opens(e.code, q)
  <2>1. e.code[q].what = "op"
    BY <1>2 DEF Opens
  <2>2. ~ (q < Len(e.code) /\ e.code[q + 1].what = "op")
    <3> SUFFICES ASSUME q < Len(e.code), e.code[q + 1].what = "op"
                 PROVE  FALSE
      OBVIOUS
    <3>1. q + 1 \in 1 .. Len(e.code) /\ q < Len(f.code)
      BY <1>1, <1>2
    <3>2. f.code[q + 1].what = "op"
      BY <1>2, <3>1
    <3>3. QED
      BY <3>1, <3>2 DEF Opens
  <2>3. QED
    BY <1>1, <2>1, <2>2 DEF Opens
<1>4. Served(e, q)
  BY <1>1, <1>3
<1>5. Landed(e.code, q) => Landed(f.code, q)
  BY LandedKept
<1>6. QED
  BY <1>4, <1>5 DEF Served

(* The emitter after some of a function: nothing emitted before changes.   *)
Emitting(e, f, j, p, v, u) ==
  Grown(e.code, f.code) /\ f.data = e.data /\ Plain(f.code) /\ Sound(f, j, p, v, u)

LEMMA EmitterSequences ==
  ASSUME NEW blocks, NEW e \in Emitter(blocks)
  PROVE  /\ e.code \in Seq(CellOf(CodeKinds)) /\ e.relocs \in Seq(Reloc)
         /\ e.calls \in Seq([site : Int, sym : Symbol])
         /\ e.jumps \in Seq([site : Int, block : 1 .. blocks])
         /\ e.data \in Seq(CellOf(DataKinds))
         /\ Len(e.code) \in Nat /\ DOMAIN e.code = 1 .. Len(e.code)
<1>1. /\ e.code \in Seq(CellOf(CodeKinds)) /\ e.relocs \in Seq(Reloc)
      /\ e.calls \in Seq([site : Int, sym : Symbol])
      /\ e.jumps \in Seq([site : Int, block : 1 .. blocks])
      /\ e.data \in Seq(CellOf(DataKinds))
  BY DEF Emitter
<1>2. Len(e.code) \in Nat /\ DOMAIN e.code = 1 .. Len(e.code)
  BY <1>1
<1>3. QED
  BY <1>1, <1>2

(* The new operand is served, and all that were stay so.                   *)
LEMMA EmittedIsServed ==
  ASSUME NEW S, NEW e, NEW f, e.code \in Seq(S), f.code \in Seq(S),
         NEW w, w.width \in Nat, NEW site \in Nat, EmittedCode(e.code, w, f.code, site),
         Sites(e.relocs) \subseteq Sites(f.relocs), Sites(e.calls) \subseteq Sites(f.calls),
         Sites(e.jumps) \subseteq Sites(f.jumps),
         site \in Sites(f.relocs) \cup Sites(f.calls) \cup Sites(f.jumps),
         \A q \in DOMAIN e.code : Opens(e.code, q) => Served(e, q)
  PROVE  \A q \in DOMAIN f.code : Opens(f.code, q) => Served(f, q)
<1>1. /\ Len(e.code) \in Nat /\ Len(f.code) \in Nat /\ DOMAIN f.code = 1 .. Len(f.code)
  OBVIOUS
<1>2. /\ Grown(e.code, f.code) /\ Len(e.code) < site /\ Len(f.code) = site + w.width
      /\ \A i \in Len(e.code) + 1 .. site : f.code[i].what = "op"
      /\ \A m \in 1 .. w.width : f.code[site + m].what = "window"
  BY DEF EmittedCode, WindowAt
<1>3. ASSUME NEW q \in 1 .. Len(f.code), Opens(f.code, q)
      PROVE  Served(f, q)
  <2>1. CASE q <= Len(e.code)
    <3>1. q \in 1 .. Len(e.code)
      BY <1>1, <2>1
    <3>2. QED
      BY <1>2, <1>3, <3>1, ServedKept
  <2>2. CASE Len(e.code) < q /\ q < site
    <3>1. q + 1 \in Len(e.code) + 1 .. site /\ q < Len(f.code)
      BY <1>1, <1>2, <2>2
    <3>2. QED
      BY <1>2, <1>3, <3>1 DEF Opens
  <2>3. CASE q = site
    BY <2>3 DEF Served
  <2>4. CASE site < q
    <3>1. q - site \in 1 .. w.width /\ site + (q - site) = q
      BY <1>1, <1>2, <2>4
    <3>2. f.code[q].what = "window"
      BY <1>2, <3>1
    <3>3. QED
      BY <1>3, <3>2 DEF Opens
  <2>5. QED
    BY <1>1, <2>1, <2>2, <2>3, <2>4
<1>4. QED
  BY <1>1, <1>3

LEMMA EmitWindowIsSound ==
  ASSUME NEW blocks \in Nat, NEW e \in Emitter(blocks), NEW w \in Window(blocks),
         NEW j, NEW p, NEW v, NEW u, GoodWindow(w, j, p, v, u),
         Sound(e, j, p, v, u), Plain(e.code)
  PROVE  Emitting(e, EmitWindow(e, w), j, p, v, u)
<1> DEFINE f == EmitWindow(e, w)
<1>1. PICK site \in Nat : Emitted(e, w, f, site)
  BY EmitWindowEmits
<1>2. f \in Emitter(blocks)
  BY EmitWindowHasItsType
<1> HIDE DEF f
<1>3. w.width \in {4, 8} /\ w.width \in Nat
  BY DEF Window
<1>4. EmittedCode(e.code, w, f.code, site) /\ Grown(e.code, f.code) /\ Kept(e.code, f.code)
  BY <1>1, GrownIsKept DEF Emitted, EmittedCode
<1>5. WindowAt(f.code, site, w.width) /\ f.code[site].means = w.means
  BY <1>4 DEF EmittedCode
<1>6. /\ \A k \in DOMAIN e.relocs : RelocFits(e.relocs[k], f.code, p, v, u)
      /\ \A k \in DOMAIN e.calls  : CallFits(e.calls[k], f.code, p, v, u)
      /\ \A k \in DOMAIN e.jumps  : JumpFits(e.jumps[k], f.code, j)
  <2>1. e.code \in Seq(CellOf(CodeKinds)) /\ f.code \in Seq(CellOf(CodeKinds))
    BY <1>2, EmitterSequences
  <2>2. \A r : /\ RelocFits(r, e.code, p, v, u) => RelocFits(r, f.code, p, v, u)
               /\ CallFits(r, e.code, p, v, u) => CallFits(r, f.code, p, v, u)
               /\ JumpFits(r, e.code, j) => JumpFits(r, f.code, j)
    BY <1>4, <2>1, FitsKept
  <2>3. QED
    BY <2>2 DEF Sound
<1>7. Plain(f.code)
  <2>1. /\ Len(e.code) \in Nat /\ DOMAIN e.code = 1 .. Len(e.code)
        /\ Len(f.code) \in Nat /\ DOMAIN f.code = 1 .. Len(f.code)
    BY <1>2, EmitterSequences
  <2>2. /\ Len(f.code) = site + w.width /\ \A i \in 1 .. Len(e.code) : f.code[i] = e.code[i]
        /\ \A i \in Len(e.code) + 1 .. site : f.code[i].what = "op"
        /\ \A m \in 1 .. w.width : f.code[site + m].what = "window"
    BY <1>4 DEF EmittedCode, Grown, WindowAt
  <2>3. ASSUME NEW i \in 1 .. Len(f.code)
        PROVE  f.code[i].what \notin Helpers
    <3>1. CASE i <= Len(e.code)
      <4>1. i \in 1 .. Len(e.code)
        BY <2>1, <3>1
      <4>2. QED
        BY <2>1, <2>2, <4>1 DEF Plain
    <3>2. CASE Len(e.code) < i /\ i <= site
      <4>1. f.code[i].what = "op"
        BY <2>1, <2>2, <3>2
      <4>2. QED
        BY <4>1 DEF Helpers
    <3>3. CASE site < i
      <4>1. i - site \in 1 .. w.width /\ site + (i - site) = i
        BY <1>3, <2>1, <2>2, <3>3
      <4>2. f.code[i].what = "window"
        BY <2>2, <4>1
      <4>3. QED
        BY <4>2 DEF Helpers
    <3>4. QED
      BY <2>1, <3>1, <3>2, <3>3
  <2>4. QED
    BY <2>1, <2>3 DEF Plain
<1>8. e.code \in Seq(CellOf(CodeKinds)) /\ f.code \in Seq(CellOf(CodeKinds))
      /\ \A q \in DOMAIN e.code : Opens(e.code, q) => Served(e, q)
  BY <1>2, EmitterSequences DEF Sound
<1>9. CASE w.width = 8
  <2> DEFINE r == [kind |-> "Abs64", section |-> "code", site |-> site, sym |-> w.sym]
  <2>1. f.relocs = Append(e.relocs, r) /\ f.calls = e.calls /\ f.jumps = e.jumps
    BY <1>1, <1>9 DEF Emitted
  <2>2. RelocFits(r, f.code, p, v, u) /\ r.site = site
    BY <1>5, <1>9 DEF RelocFits, GoodWindow
  <2>3. e.relocs \in Seq(Reloc)
    BY EmitterSequences
  <2> HIDE DEF r
  <2>4. /\ DOMAIN e.relocs = 1 .. Len(e.relocs) /\ Len(e.relocs) \in Nat
        /\ DOMAIN f.relocs = 1 .. Len(e.relocs) + 1
        /\ \A k \in 1 .. Len(e.relocs) : f.relocs[k] = e.relocs[k]
        /\ f.relocs[Len(e.relocs) + 1] = r
        /\ Sites(f.relocs) = Sites(e.relocs) \cup {site}
    BY <2>1, <2>2, <2>3, Appending
  <2>5. \A k \in DOMAIN f.relocs : RelocFits(f.relocs[k], f.code, p, v, u)
    <3>1. \A k \in DOMAIN f.relocs : k # Len(e.relocs) + 1 => k \in 1 .. Len(e.relocs)
      BY <2>4
    <3>2. QED
      BY <1>6, <2>2, <2>4, <3>1
  <2>6. \A q \in DOMAIN f.code : Opens(f.code, q) => Served(f, q)
    <3>1. /\ Sites(e.relocs) \subseteq Sites(f.relocs) /\ Sites(e.calls) \subseteq Sites(f.calls)
          /\ Sites(e.jumps) \subseteq Sites(f.jumps)
          /\ site \in Sites(f.relocs) \cup Sites(f.calls) \cup Sites(f.jumps)
      BY <2>1, <2>4
    <3>2. QED
      BY <1>3, <1>4, <1>8, <3>1, EmittedIsServed
  <2>7. Sound(f, j, p, v, u)
    BY <1>6, <2>1, <2>5, <2>6 DEF Sound
  <2>8. QED
    BY <1>1, <1>4, <1>7, <2>7 DEF Emitting, Emitted, f
<1>10. CASE w.width # 8 /\ w.sym.of = "Block"
  <2> DEFINE r == [site |-> site, block |-> w.sym.n]
  <2>1. f.jumps = Append(e.jumps, r) /\ f.relocs = e.relocs /\ f.calls = e.calls
    BY <1>1, <1>10 DEF Emitted
  <2>2. JumpFits(r, f.code, j) /\ r.site = site
    BY <1>5, <1>10 DEF JumpFits, GoodWindow
  <2>3. e.jumps \in Seq([site : Int, block : 1 .. blocks])
    BY EmitterSequences
  <2> HIDE DEF r
  <2>4. /\ DOMAIN e.jumps = 1 .. Len(e.jumps) /\ Len(e.jumps) \in Nat
        /\ DOMAIN f.jumps = 1 .. Len(e.jumps) + 1
        /\ \A k \in 1 .. Len(e.jumps) : f.jumps[k] = e.jumps[k]
        /\ f.jumps[Len(e.jumps) + 1] = r
        /\ Sites(f.jumps) = Sites(e.jumps) \cup {site}
    BY <2>1, <2>2, <2>3, Appending
  <2>5. \A k \in DOMAIN f.jumps : JumpFits(f.jumps[k], f.code, j)
    <3>1. \A k \in DOMAIN f.jumps : k # Len(e.jumps) + 1 => k \in 1 .. Len(e.jumps)
      BY <2>4
    <3>2. QED
      BY <1>6, <2>2, <2>4, <3>1
  <2>6. \A q \in DOMAIN f.code : Opens(f.code, q) => Served(f, q)
    <3>1. /\ Sites(e.relocs) \subseteq Sites(f.relocs) /\ Sites(e.calls) \subseteq Sites(f.calls)
          /\ Sites(e.jumps) \subseteq Sites(f.jumps)
          /\ site \in Sites(f.relocs) \cup Sites(f.calls) \cup Sites(f.jumps)
      BY <2>1, <2>4
    <3>2. QED
      BY <1>3, <1>4, <1>8, <3>1, EmittedIsServed
  <2>7. Sound(f, j, p, v, u)
    BY <1>6, <2>1, <2>5, <2>6 DEF Sound
  <2>8. QED
    BY <1>1, <1>4, <1>7, <2>7 DEF Emitting, Emitted, f
<1>11. CASE w.width # 8 /\ w.sym.of # "Block"
  <2> DEFINE r == [site |-> site, sym |-> w.sym]
  <2>1. f.calls = Append(e.calls, r) /\ f.relocs = e.relocs /\ f.jumps = e.jumps
    BY <1>1, <1>11 DEF Emitted
  <2>2. CallFits(r, f.code, p, v, u) /\ r.site = site
    BY <1>5, <1>11 DEF CallFits, GoodWindow
  <2>3. e.calls \in Seq([site : Int, sym : Symbol])
    BY EmitterSequences
  <2> HIDE DEF r
  <2>4. /\ DOMAIN e.calls = 1 .. Len(e.calls) /\ Len(e.calls) \in Nat
        /\ DOMAIN f.calls = 1 .. Len(e.calls) + 1
        /\ \A k \in 1 .. Len(e.calls) : f.calls[k] = e.calls[k]
        /\ f.calls[Len(e.calls) + 1] = r
        /\ Sites(f.calls) = Sites(e.calls) \cup {site}
    BY <2>1, <2>2, <2>3, Appending
  <2>5. \A k \in DOMAIN f.calls : CallFits(f.calls[k], f.code, p, v, u)
    <3>1. \A k \in DOMAIN f.calls : k # Len(e.calls) + 1 => k \in 1 .. Len(e.calls)
      BY <2>4
    <3>2. QED
      BY <1>6, <2>2, <2>4, <3>1
  <2>6. \A q \in DOMAIN f.code : Opens(f.code, q) => Served(f, q)
    <3>1. /\ Sites(e.relocs) \subseteq Sites(f.relocs) /\ Sites(e.calls) \subseteq Sites(f.calls)
          /\ Sites(e.jumps) \subseteq Sites(f.jumps)
          /\ site \in Sites(f.relocs) \cup Sites(f.calls) \cup Sites(f.jumps)
      BY <2>1, <2>4
    <3>2. QED
      BY <1>3, <1>4, <1>8, <3>1, EmittedIsServed
  <2>7. Sound(f, j, p, v, u)
    BY <1>6, <2>1, <2>5, <2>6 DEF Sound
  <2>8. QED
    BY <1>1, <1>4, <1>7, <2>7 DEF Emitting, Emitted, f
<1>12. QED
  BY <1>9, <1>10, <1>11

(* The windows of the program's items are such.                            *)
GoodWindows(blocks, j, p, v, u) == { w \in Window(blocks) : GoodWindow(w, j, p, v, u) }

LEMMA OpIsThere ==
  ASSUME prog \in Programs, NEW j \in DOMAIN prog.fns,
         NEW b \in DOMAIN prog.fns[j], NEW k \in DOMAIN prog.fns[j][b]
  PROVE  prog.fns[j][b][k].op \in Ops(prog)
<1>1. prog.fns[j] \in ToSet(prog.fns)
  BY DEF ToSet
<1>2. prog.fns[j][b] \in ToSet(prog.fns[j])
  BY DEF ToSet
<1>3. prog.fns[j][b][k] \in ToSet(prog.fns[j][b])
  BY DEF ToSet
<1>4. QED
  BY <1>1, <1>2, <1>3 DEF Ops

LEMMA FlagIsThere ==
  ASSUME prog \in Programs, NEW j \in DOMAIN prog.fns,
         NEW b \in DOMAIN prog.fns[j], NEW k \in DOMAIN prog.fns[j][b],
         prog.fns[j][b][k].op \in DOMAIN FlagOf
  PROVE  FlagOf[prog.fns[j][b][k].op] \in FlagsOf(prog.fns[j])
<1>1. prog.fns[j][b] \in ToSet(prog.fns[j])
  BY DEF ToSet
<1>2. prog.fns[j][b][k] \in { i \in ToSet(prog.fns[j][b]) : i.op \in DOMAIN FlagOf }
  BY DEF ToSet
<1>3. FlagOf[prog.fns[j][b][k].op]
        \in { FlagOf[item.op] : item \in { i \in ToSet(prog.fns[j][b]) : i.op \in DOMAIN FlagOf } }
  BY <1>2
<1>4. QED
  BY <1>1, <1>3 DEF FlagsOf

LEMMA HelperFits ==
  ASSUME NEW of \in Helpers, NEW p, NEW v, NEW u, of \in ToSet(ExcHelpers) => "exc" \in u,
         of \in ToSet(PlainHelpers) => of \in u,
         of \in {"Alloc", "Release"} => p.heap > 0, NEW j
  PROVE  GoodWindow(Call(of, 0), j, p, v, u)
<1>1. of # "Block"
  BY DEF Helpers
<1>2. Call(of, 0).width = 4 /\ Call(of, 0).sym = Sym(of, 0) /\ Call(of, 0).means = Sym(of, 0)
      /\ Sym(of, 0).of = of
  BY DEF Call, Sym
<1>3. Fits(Sym(of, 0), Sym(of, 0), p, v, u)
  BY <1>2 DEF Fits
<1>4. QED
  BY <1>1, <1>2, <1>3 DEF GoodWindow

LEMMA Abs64Fits ==
  ASSUME NEW of, NEW n, NEW sym, NEW p, NEW v, NEW u, NEW j, Fits(sym, Sym(of, n), p, v, u),
         sym.of \notin Helpers
  PROVE  GoodWindow(Abs64(of, n, sym), j, p, v, u)
<1>1. Abs64(of, n, sym).width = 8 /\ Abs64(of, n, sym).sym = sym
      /\ Abs64(of, n, sym).means = Sym(of, n)
  BY DEF Abs64
<1>2. QED
  BY <1>1 DEF GoodWindow

LEMMA ExcHelperNames == ToSet(ExcHelpers) = {"ExcEnter", "ExcPop", "ExcLoad", "ExcClear",
                                              "ExcThrow", "ExcRethrow"}
BY DEF ExcHelpers, ToSet

LEMMA PlainHelperSet == ToSet(PlainHelpers) = {"Itoa", "ItoaErr", "ScanInt", "Retain", "Release",
                                                "Alloc"}
BY DEF PlainHelpers, ToSet

LEMMA WindowsAreGood ==
  ASSUME TypeOK, phase = "functions", Exists(prog), UsesCover(prog, uses),
         NEW j \in DOMAIN prog.fns, NEW b \in DOMAIN prog.fns[j], NEW k \in DOMAIN prog.fns[j][b],
         NEW u, u = uses \cup FlagsOf(prog.fns[j])
  PROVE  Windows(prog.fns[j][b][k], j)
           \in Seq(GoodWindows(Len(prog.fns[j]), j, prog, places.vtables, u))
<1> DEFINE item == prog.fns[j][b][k]
           ws   == Windows(item, j)
           Good(w) == GoodWindow(w, j, prog, places.vtables, u)
<1>1. prog \in Programs /\ IsProgram(prog)
  BY ProgramsAssumption DEF TypeOK
<1>2. /\ item.op \in {"Call", "CallStatic", "FnAddr"} => item.n \in DOMAIN prog.fns
      /\ item.op \in {"Jump", "JumpIf"} => item.n \in DOMAIN prog.fns[j]
      /\ item.op = "VTableAddr"     => item.n # 0 /\ prog.vtables # <<>>
      /\ item.op = "LoadStaticAddr" => item.n # 0 /\ prog.statics # 0
  BY <1>1 DEF IsProgram
<1>3. /\ item.op \in {"WriteStr", "EWriteStr", "LoadStrAddr"} => item.n < prog.strings
      /\ item.op = "VTableAddr" => /\ item.n <= Len(prog.vtables)
                                  /\ prog.vtables[item.n] # <<>>
      /\ item.op = "LoadStaticAddr" => item.n <= prog.statics
      /\ item.op \in HeapItems => prog.heap > 0
  BY DEF Exists
<1>4. item.op \in Items /\ item.n \in Nat
  <2>1. prog.fns \in Seq(Seq(Seq([op : Items, n : Nat])))
    BY <1>1, ProgramHasItsType
  <2>2. prog.fns[j] \in Seq(Seq([op : Items, n : Nat]))
    BY <2>1, Element
  <2>3. prog.fns[j][b] \in Seq([op : Items, n : Nat])
    BY <2>2, Element
  <2>4. item \in [op : Items, n : Nat]
    BY <2>3, Element
  <2> HIDE DEF item
  <2>5. QED
    BY <2>4
<1>5. /\ places.vtables \in Seq(Int) /\ Len(places.vtables) = Len(prog.vtables)
      /\ places.statics \in Seq(Int) /\ Len(places.statics) = prog.statics
  BY DEF TypeOK
<1>6. item.op \in Ops(prog)
  BY <1>1, OpIsThere
<1>7. /\ Ops(prog) \cap ExcOps # {} => "exc" \in u
      /\ "BuildArgv" \in Ops(prog) => "argv" \in u
      /\ item.op \in DOMAIN FlagOf => FlagOf[item.op] \in u
  <2>1. /\ Ops(prog) \cap ExcOps # {} => "exc" \in uses
        /\ "BuildArgv" \in Ops(prog) => "argv" \in uses
    BY DEF UsesCover
  <2>2. item.op \in DOMAIN FlagOf => FlagOf[item.op] \in FlagsOf(prog.fns[j])
    BY <1>1, FlagIsThere
  <2> HIDE DEF item
  <2>3. QED
    BY <2>1, <2>2
<1>8. /\ prog.strings \in Nat /\ prog.statics \in Nat /\ Len(prog.vtables) \in Nat
      /\ DOMAIN prog.vtables = 1 .. Len(prog.vtables)
  BY <1>1, ProgramHasItsType
<1> HIDE DEF item
<1> DEFINE Fine(s) == \A i \in DOMAIN s : Good(s[i])
<1>9. ASSUME NEW w, Good(w), ws = <<w>>
      PROVE  Fine(ws)
  <2>1. DOMAIN <<w>> = {1} /\ <<w>>[1] = w
    OBVIOUS
  <2> HIDE DEF Good, ws
  <2>2. QED
    BY <1>9, <2>1
<1> SUFFICES Fine(ws)
  <2>1. ws \in Seq(Window(Len(prog.fns[j])))
    BY WindowsHaveTheirType DEF item
  <2> HIDE DEF ws
  <2> DEFINE GW == GoodWindows(Len(prog.fns[j]), j, prog, places.vtables, u)
  <2>2. ASSUME Fine(ws)
        PROVE  ws \in Seq(GW)
    <3>1. \A i \in DOMAIN ws : ws[i] \in Window(Len(prog.fns[j]))
      BY <2>1
    <3>2. \A i \in DOMAIN ws : ws[i] \in GW
      BY <2>2, <3>1 DEF GoodWindows
    <3>3. DOMAIN ws = 1 .. Len(ws) /\ Len(ws) \in Nat /\ ws = [i \in DOMAIN ws |-> ws[i]]
      BY <2>1
    <3> HIDE DEF GW
    <3>4. ws \in [1 .. Len(ws) -> GW]
      BY <3>2, <3>3
    <3>5. QED
      BY <3>3, <3>4, FunctionIsSequence
  <2>3. QED
    BY <2>2 DEF ws, item
<1> HIDE DEF Fine
<1>10. CASE item.op \in DOMAIN HelperOf
  <2> DEFINE h == HelperOf[item.op]
  <2>1. h \in Helpers
    BY <1>10 DEF HelperOf, Helpers
  <2>2. h \in ToSet(ExcHelpers) => "exc" \in u
    <3>1. h \in ToSet(ExcHelpers) => item.op \in ExcOps
      BY <1>10, ExcHelperNames DEF HelperOf, ExcOps
    <3>2. QED
      BY <1>6, <1>7, <3>1
  <2>3. h \in {"Alloc", "Release"} => prog.heap > 0
    <3>1. h \in {"Alloc", "Release"} => item.op \in HeapItems
      BY <1>10 DEF HelperOf, HeapItems
    <3>2. QED
      BY <1>3, <3>1
  <2>4. h \in ToSet(PlainHelpers) => h \in u
    <3>1. h \in ToSet(PlainHelpers) => item.op \in DOMAIN FlagOf /\ h = FlagOf[item.op]
      BY <1>10, PlainHelperSet DEF HelperOf, FlagOf
    <3>2. QED
      BY <1>7, <3>1
  <2>5. ws = <<Call(h, 0)>>
    BY <1>10 DEF Windows, HelperOf
  <2> HIDE DEF h, ws
  <2>6. Good(Call(h, 0))
    BY <2>1, <2>2, <2>3, <2>4, HelperFits
  <2> HIDE DEF Good
  <2>7. QED
    BY <1>9, <2>5, <2>6
<1>11. CASE item.op \in {"Call", "CallStatic"}
  <2>1. ws = <<Call("Fn", item.n)>>
    BY <1>11 DEF Windows, HelperOf
  <2>2. Good(Call("Fn", item.n))
    <3>1. Fits(Sym("Fn", item.n), Sym("Fn", item.n), prog, places.vtables, u)
      BY <1>2, <1>11 DEF Fits, Sym
    <3>2. QED
      BY <3>1 DEF GoodWindow, Call, Sym
  <2> HIDE DEF Good, ws
  <2>3. QED
    BY <1>9, <2>1, <2>2
<1>12. CASE item.op = "FnAddr"
  <2>1. ws = <<Abs64("Fn", item.n, Sym("Fn", item.n))>>
    BY <1>12 DEF Windows, HelperOf
  <2>2. Good(Abs64("Fn", item.n, Sym("Fn", item.n)))
    <3>1. /\ Fits(Sym("Fn", item.n), Sym("Fn", item.n), prog, places.vtables, u)
          /\ Sym("Fn", item.n).of \notin Helpers
      BY <1>2, <1>12 DEF Fits, Sym, Helpers
    <3>2. QED
      BY <3>1, Abs64Fits
  <2> HIDE DEF Good, ws
  <2>3. QED
    BY <1>9, <2>1, <2>2
<1>13. CASE item.op \in {"WriteStr", "EWriteStr", "LoadStrAddr"}
  <2>1. ws = <<Abs64("String", item.n, Sym("String", item.n))>>
    BY <1>13 DEF Windows, HelperOf
  <2>2. Good(Abs64("String", item.n, Sym("String", item.n)))
    <3>1. item.n \in 0 .. prog.strings - 1
      BY <1>3, <1>4, <1>8, <1>13
    <3>2. /\ Fits(Sym("String", item.n), Sym("String", item.n), prog, places.vtables, u)
          /\ Sym("String", item.n).of \notin Helpers
      BY <3>1 DEF Fits, Sym, Helpers
    <3>3. QED
      BY <3>2, Abs64Fits
  <2> HIDE DEF Good, ws
  <2>3. QED
    BY <1>9, <2>1, <2>2
<1>14. CASE item.op = "VTableAddr"
  <2>1. item.n \in DOMAIN prog.vtables /\ prog.vtables[item.n] # <<>>
        /\ Clamp(item.n, places.vtables) = item.n
    BY <1>2, <1>3, <1>4, <1>5, <1>8, <1>14 DEF Clamp
  <2> DEFINE sym == Sym("VtableOff", places.vtables[item.n])
  <2>2. ws = <<Abs64("Vtable", item.n, sym)>>
    BY <1>14, <2>1 DEF Windows, HelperOf
  <2>3. Good(Abs64("Vtable", item.n, sym))
    <3>1. /\ Fits(sym, Sym("Vtable", item.n), prog, places.vtables, u)
          /\ sym.of \notin Helpers
      BY <2>1 DEF Fits, Sym, Helpers
    <3>2. QED
      BY <3>1, Abs64Fits
  <2> HIDE DEF Good, ws
  <2>4. QED
    BY <1>9, <2>2, <2>3
<1>15. CASE item.op = "LoadStaticAddr"
  <2>1. item.n \in 1 .. prog.statics /\ Clamp(item.n, places.statics) = item.n
    BY <1>2, <1>3, <1>4, <1>5, <1>8, <1>15 DEF Clamp
  <2>2. ws = <<Abs64("Static", item.n, Sym("Static", item.n))>>
    BY <1>15, <2>1 DEF Windows, HelperOf
  <2>3. Good(Abs64("Static", item.n, Sym("Static", item.n)))
    <3>1. /\ Fits(Sym("Static", item.n), Sym("Static", item.n), prog, places.vtables, u)
          /\ Sym("Static", item.n).of \notin Helpers
      BY <2>1 DEF Fits, Sym, Helpers
    <3>2. QED
      BY <3>1, Abs64Fits
  <2> HIDE DEF Good, ws
  <2>4. QED
    BY <1>9, <2>2, <2>3
<1>16. CASE item.op = "BuildArgv"
  <2> DEFINE x == Abs64("ArgvRsp", 0, Sym("ArgvRsp", 0))
             y == Call("Alloc", 0)
  <2>1. ws = <<x, y, y>>
    BY <1>16 DEF Windows, HelperOf
  <2>2. Good(x)
    <3>1. /\ Fits(Sym("ArgvRsp", 0), Sym("ArgvRsp", 0), prog, places.vtables, u)
          /\ Sym("ArgvRsp", 0).of \notin Helpers
      BY <1>6, <1>7, <1>16 DEF Fits, Sym, Helpers
    <3>2. QED
      BY <3>1, Abs64Fits
  <2>3. Good(y)
    <3>1. "Alloc" \in Helpers /\ "Alloc" \notin ToSet(ExcHelpers) /\ prog.heap > 0 /\ "Alloc" \in u
      BY <1>3, <1>7, <1>16, ExcHelperNames DEF Helpers, HeapItems, FlagOf
    <3>2. QED
      BY <3>1, HelperFits
  <2> HIDE DEF x, y, Good, ws
  <2>4. DOMAIN <<x, y, y>> = 1 .. 3 /\ <<x, y, y>>[1] = x /\ <<x, y, y>>[2] = y
        /\ <<x, y, y>>[3] = y
    OBVIOUS
  <2>5. \A i \in 1 .. 3 : i = 1 \/ i = 2 \/ i = 3
    OBVIOUS
  <2>6. QED
    BY <2>1, <2>2, <2>3, <2>4, <2>5 DEF Fine
<1>17. CASE item.op \in {"Jump", "JumpIf"}
  <2> DEFINE w == [width |-> 4, means |-> [of |-> "Block", n |-> item.n, fn |-> j],
                   sym |-> Sym("Block", item.n)]
  <2>1. ws = <<w>>
    BY <1>17 DEF Windows, HelperOf
  <2>2. Good(w)
    BY DEF GoodWindow, Sym
  <2> HIDE DEF w, Good, ws
  <2>3. QED
    BY <1>9, <2>1, <2>2
<1>18. CASE item.op \in {"Ret", "Exit"}
  <2>1. ws = <<>>
    BY <1>18 DEF Windows, HelperOf
  <2> HIDE DEF Good, ws
  <2>2. QED
    BY <2>1 DEF Fine
<1>19. \/ item.op \in DOMAIN HelperOf \/ item.op \in {"Call", "CallStatic"} \/ item.op = "FnAddr"
       \/ item.op \in {"WriteStr", "EWriteStr", "LoadStrAddr"} \/ item.op = "VTableAddr"
       \/ item.op = "LoadStaticAddr" \/ item.op = "BuildArgv" \/ item.op \in {"Jump", "JumpIf"}
       \/ item.op \in {"Ret", "Exit"}
  BY <1>4 DEF Items, HelperOf
<1>20. QED
  BY <1>10, <1>11, <1>12, <1>13, <1>14, <1>15, <1>16, <1>17, <1>18, <1>19

LEMMA EmittingFurther ==
  ASSUME NEW blocks, NEW e \in Emitter(blocks), NEW f \in Emitter(blocks),
         NEW g \in Emitter(blocks), NEW j, NEW p, NEW v, NEW u,
         Emitting(e, f, j, p, v, u), Emitting(f, g, j, p, v, u)
  PROVE  Emitting(e, g, j, p, v, u)
<1>1. e.code \in Seq(CellOf(CodeKinds)) /\ f.code \in Seq(CellOf(CodeKinds))
      /\ g.code \in Seq(CellOf(CodeKinds))
  BY EmitterSequences
<1>2. Grown(e.code, f.code) /\ Grown(f.code, g.code)
  BY DEF Emitting
<1>3. Grown(e.code, g.code)
  BY <1>1, <1>2, GrowFurther
<1>4. QED
  BY <1>3 DEF Emitting

LEMMA EmitAllIsSound ==
  ASSUME NEW blocks \in Nat, NEW e \in Emitter(blocks), NEW j, NEW p, NEW v, NEW u,
         NEW ws \in Seq(GoodWindows(blocks, j, p, v, u)), Sound(e, j, p, v, u), Plain(e.code)
  PROVE  Emitting(e, EmitAll(e, ws), j, p, v, u)
<1> DEFINE L == Len(ws)
           S == {x \in Emitter(blocks) : Emitting(e, x, j, p, v, u)}
<1>1. L \in Nat /\ \A n \in 1 .. L : ws[n] \in Window(blocks) /\ GoodWindow(ws[n], j, p, v, u)
  <2>1. L \in Nat /\ \A n \in 1 .. L : ws[n] \in GoodWindows(blocks, j, p, v, u)
    OBVIOUS
  <2>2. QED
    BY <2>1 DEF GoodWindows
<1>2. ws \in Seq(Window(blocks))
  <2>1. ws = [n \in 1 .. L |-> ws[n]]
    OBVIOUS
  <2> HIDE DEF L
  <2>2. ws \in [1 .. L -> Window(blocks)]
    BY <1>1, <2>1
  <2>3. QED
    BY <1>1, <2>2, FunctionIsSequence
<1>3. PICK f : /\ f[0] = e /\ \A n \in 1 .. L : f[n] = EmitWindow(f[n - 1], ws[n])
               /\ EmitAll(e, ws) = f[L]
  BY <1>2, EmitAllUnfolds
<1> HIDE DEF L
<1>4. f[0] \in S
  <2>1. Grown(e.code, e.code)
    BY EmitterSequences DEF Grown
  <2>2. QED
    BY <1>3, <2>1 DEF Emitting
<1>5. ASSUME NEW n \in 1 .. L, f[n - 1] \in S
      PROVE  f[n] \in S
  <2> DEFINE x == f[n - 1]
             y == EmitWindow(x, ws[n])
  <2>1. x \in Emitter(blocks) /\ Emitting(e, x, j, p, v, u) /\ f[n] = y
    BY <1>3, <1>5
  <2>2. ws[n] \in Window(blocks) /\ GoodWindow(ws[n], j, p, v, u)
    BY <1>1
  <2> HIDE DEF x
  <2>3. y \in Emitter(blocks)
    BY <2>1, <2>2, EmitWindowHasItsType
  <2>4. Emitting(x, y, j, p, v, u)
    <3>1. Sound(x, j, p, v, u) /\ Plain(x.code)
      BY <2>1 DEF Emitting
    <3>2. QED
      BY <2>1, <2>2, <3>1, EmitWindowIsSound
  <2> HIDE DEF y
  <2>5. Emitting(e, y, j, p, v, u)
    BY <2>1, <2>3, <2>4, EmittingFurther
  <2>6. QED
    BY <2>1, <2>3, <2>5
<1> HIDE DEF S
<1>6. \A n \in 0 .. L : f[n] \in S
  BY <1>1, <1>4, <1>5, Keeps
<1>7. L \in 0 .. L
  BY <1>1
<1>8. QED
  BY <1>3, <1>6, <1>7 DEF S

(* A mark of a function or of a block is no operand.                       *)
LEMMA MarkIsSound ==
  ASSUME NEW blocks, NEW e \in Emitter(blocks), NEW x \in CellOf(CodeKinds),
         x.what \in {"Fn", "Block"}, NEW j, NEW p, NEW v, NEW u,
         Sound(e, j, p, v, u), Plain(e.code)
  PROVE  /\ [e EXCEPT !.code = Append(@, x)] \in Emitter(blocks)
         /\ [e EXCEPT !.code = Append(@, x)].code = Append(e.code, x)
         /\ Emitting(e, [e EXCEPT !.code = Append(@, x)], j, p, v, u)
<1> DEFINE f == [e EXCEPT !.code = Append(@, x)]
           c == e.code
           d == Append(c, x)
           C == CellOf(CodeKinds)
<1>1. e = [code |-> e.code, data |-> e.data, relocs |-> e.relocs, calls |-> e.calls,
           jumps |-> e.jumps]
  BY DEF Emitter
<1>2. f.code = d /\ f.data = e.data /\ f.relocs = e.relocs /\ f.calls = e.calls
      /\ f.jumps = e.jumps
  BY <1>1
<1>3. c \in Seq(C) /\ Len(c) \in Nat /\ DOMAIN c = 1 .. Len(c)
  BY EmitterSequences
<1>4. /\ DOMAIN d = 1 .. Len(c) + 1 /\ Len(d) = Len(c) + 1
      /\ \A k \in 1 .. Len(c) : d[k] = c[k]
      /\ d[Len(c) + 1] = x /\ d \in Seq(C)
  <2> HIDE DEF c, C
  <2>1. x \in C
    BY DEF C
  <2>2. QED
    BY <1>3, <2>1
<1>5. f \in Emitter(blocks)
  <2>1. f = [code |-> d, data |-> e.data, relocs |-> e.relocs, calls |-> e.calls,
             jumps |-> e.jumps]
    BY <1>1
  <2>2. d \in Seq(C)
    BY <1>4
  <2> HIDE DEF d, f, C
  <2>3. QED
    BY <2>1, <2>2 DEF Emitter, C
<1> HIDE DEF f
<1>6. Grown(c, d) /\ Kept(c, d)
  <2>1. Grown(c, d)
    BY <1>3, <1>4 DEF Grown
  <2>2. QED
    BY <2>1, GrownIsKept
<1>7. Plain(d)
  <2>1. x.what \notin Helpers
    BY DEF Helpers
  <2>2. ASSUME NEW i \in 1 .. Len(c) + 1
        PROVE  d[i].what \notin Helpers
    <3>1. i = Len(c) + 1 \/ i \in 1 .. Len(c)
      BY <1>3
    <3>2. QED
      BY <1>3, <1>4, <2>1, <3>1 DEF Plain
  <2>3. QED
    BY <1>4, <2>2 DEF Plain
<1>8. Sound(f, j, p, v, u)
  <2>1. /\ \A k \in DOMAIN e.relocs : RelocFits(e.relocs[k], d, p, v, u)
        /\ \A k \in DOMAIN e.calls  : CallFits(e.calls[k], d, p, v, u)
        /\ \A k \in DOMAIN e.jumps  : JumpFits(e.jumps[k], d, j)
    <3>1. \A r : /\ RelocFits(r, c, p, v, u) => RelocFits(r, d, p, v, u)
                 /\ CallFits(r, c, p, v, u) => CallFits(r, d, p, v, u)
                 /\ JumpFits(r, c, j) => JumpFits(r, d, j)
      <4>1. c \in Seq(C) /\ d \in Seq(C) /\ Kept(c, d)
        BY <1>3, <1>4, <1>6
      <4> HIDE DEF c, d, C
      <4>2. QED
        BY <4>1, FitsKept
    <3>2. QED
      BY <3>1 DEF Sound
  <2>2. ASSUME NEW q \in DOMAIN f.code, Opens(f.code, q)
        PROVE  Served(f, q)
    <3>1. q \in 1 .. Len(c) + 1
      BY <1>2, <1>4
    <3>2. q # Len(c) + 1
      BY <1>2, <1>4, <2>2 DEF Opens
    <3>3. q \in 1 .. Len(c)
      BY <1>3, <3>1, <3>2
    <3>4. \A r \in DOMAIN e.code : Opens(e.code, r) => Served(e, r)
      BY DEF Sound
    <3>5. f.code \in Seq(C) /\ Grown(e.code, f.code)
      BY <1>2, <1>4, <1>6
    <3>6. e.code \in Seq(C)
      BY <1>3
    <3> HIDE DEF C
    <3>7. QED
      BY <1>2, <2>2, <3>3, <3>4, <3>5, <3>6, ServedKept
  <2>3. QED
    BY <1>2, <2>1, <2>2 DEF Sound
<1>9. Emitting(e, f, j, p, v, u)
  BY <1>2, <1>6, <1>7, <1>8 DEF Emitting
<1>10. QED
  BY <1>2, <1>5, <1>9 DEF f

(* A block begins with its mark.                                           *)
Begins(c, i, b, j) == i \in DOMAIN c /\ c[i].what = "Block" /\ c[i].of = b /\ c[i].byte = j

LEMMA EmitBlockIsSound ==
  ASSUME TypeOK, phase = "functions", Exists(prog), UsesCover(prog, uses),
         NEW j \in DOMAIN prog.fns, NEW b \in DOMAIN prog.fns[j],
         NEW e \in Emitter(Len(prog.fns[j])), NEW u, u = uses \cup FlagsOf(prog.fns[j]),
         Sound(e, j, prog, places.vtables, u), Plain(e.code)
  PROVE  /\ Emitting(e, EmitBlock(e, prog.fns[j][b], b, j), j, prog, places.vtables, u)
         /\ Begins(EmitBlock(e, prog.fns[j][b], b, j).code, Len(e.code) + 1, b, j)
<1> DEFINE items == prog.fns[j][b]
           blocks == Len(prog.fns[j])
           ws == [k \in DOMAIN items |-> Windows(items[k], j)]
           flat == FlattenSeq(ws)
           mark == Cell("Block", b, j)
           opened == [e EXCEPT !.code = Append(@, mark)]
           GW == GoodWindows(blocks, j, prog, places.vtables, u)
           done == EmitAll(opened, flat)
<1>1. /\ blocks \in Nat /\ b \in Int /\ j \in Int
      /\ Len(items) \in Nat /\ DOMAIN items = 1 .. Len(items)
  <2>1. prog.fns \in Seq(Seq(Seq([op : Items, n : Nat]))) /\ DOMAIN prog.fns = 1 .. Len(prog.fns)
    BY ProgramHasItsType DEF TypeOK
  <2>2. prog.fns[j] \in Seq(Seq([op : Items, n : Nat]))
    BY <2>1
  <2>3. items \in Seq([op : Items, n : Nat])
    BY <2>2, Element
  <2>4. Len(items) \in Nat /\ DOMAIN items = 1 .. Len(items)
    BY <2>3
  <2>5. blocks \in Nat /\ DOMAIN prog.fns[j] = 1 .. blocks
    BY <2>2
  <2>6. j \in Int
    BY <2>1
  <2> HIDE DEF items, blocks
  <2>7. QED
    BY <2>4, <2>5, <2>6
<1>2. flat \in Seq(GW)
  <2>1. \A k \in DOMAIN items : Windows(items[k], j) \in Seq(GW)
    BY WindowsAreGood
  <2> HIDE DEF items, GW
  <2>2. ws \in [1 .. Len(items) -> Seq(GW)]
    BY <1>1, <2>1
  <2> HIDE DEF ws
  <2>3. ws \in Seq(Seq(GW))
    BY <1>1, <2>2, FunctionIsSequence
  <2>4. QED
    BY <2>3, Flatten
<1>3. EmitBlock(e, items, b, j) = done
  BY DEF EmitBlock
<1>4. e \in Emitter(blocks)
  OBVIOUS
<1> HIDE DEF items, blocks, flat
<1>5. mark \in CellOf(CodeKinds) /\ mark.what = "Block" /\ mark.of = b /\ mark.byte = j
  <2>1. "Block" \in CodeKinds
    BY DEF CodeKinds
  <2>2. mark \in CellOf(CodeKinds)
    BY <1>1, <2>1, CellHasItsType
  <2>3. QED
    BY <2>2 DEF Cell
<1> HIDE DEF mark
<1>6. /\ opened \in Emitter(blocks) /\ opened.code = Append(e.code, mark)
      /\ Emitting(e, opened, j, prog, places.vtables, u)
  <2>1. mark.what \in {"Fn", "Block"}
    BY <1>5
  <2>2. QED
    BY <1>4, <1>5, <2>1, MarkIsSound
<1> HIDE DEF opened
<1>7. Emitting(opened, done, j, prog, places.vtables, u)
  <2>1. Sound(opened, j, prog, places.vtables, u) /\ Plain(opened.code)
    BY <1>6 DEF Emitting
  <2>2. QED
    BY <1>1, <1>2, <1>6, <2>1, EmitAllIsSound
<1>8. done \in Emitter(blocks)
  <2>1. EmitBlock(e, items, b, j) \in Emitter(blocks)
    BY EmitBlockHasItsType DEF items, blocks
  <2>2. QED
    BY <1>3, <2>1
<1> HIDE DEF done
<1>9. Emitting(e, done, j, prog, places.vtables, u)
  BY <1>4, <1>6, <1>7, <1>8, EmittingFurther
<1>10. Begins(done.code, Len(e.code) + 1, b, j)
  <2>1. e.code \in Seq(CellOf(CodeKinds)) /\ Len(e.code) \in Nat
    BY <1>4, EmitterSequences
  <2>2. Len(opened.code) = Len(e.code) + 1 /\ opened.code[Len(e.code) + 1] = mark
    BY <1>6, <2>1, Appending
  <2>3. Len(opened.code) <= Len(done.code)
        /\ \A i \in 1 .. Len(opened.code) : done.code[i] = opened.code[i]
    BY <1>7 DEF Emitting, Grown
  <2>4. Len(done.code) \in Nat /\ DOMAIN done.code = 1 .. Len(done.code)
    BY <1>8, EmitterSequences
  <2>5. Len(e.code) + 1 \in 1 .. Len(opened.code)
    BY <2>1, <2>2
  <2>6. Len(e.code) + 1 \in DOMAIN done.code /\ done.code[Len(e.code) + 1] = mark
    BY <2>1, <2>2, <2>3, <2>4, <2>5
  <2>7. QED
    BY <1>5, <2>6 DEF Begins
<1>11. QED
  BY <1>3, <1>9, <1>10 DEF items

LEMMA BeginsStill ==
  ASSUME NEW S, NEW c \in Seq(S), NEW T, NEW d \in Seq(T), Kept(c, d), NEW i, NEW b, NEW j,
         Begins(c, i, b, j)
  PROVE  Begins(d, i, b, j)
<1>1. /\ Len(c) \in Nat /\ DOMAIN c = 1 .. Len(c) /\ Len(d) \in Nat /\ DOMAIN d = 1 .. Len(d)
  OBVIOUS
<1>2. i \in 1 .. Len(c) /\ i \in 1 .. Len(d) /\ Like(d[i], c[i])
  BY <1>1 DEF Begins, Kept
<1>3. QED
  BY <1>1, <1>2 DEF Begins, Like

(* After some blocks, each begins where the code before it ended.          *)
AllBegin(after, n, j) ==
  \A b \in 1 .. n : Begins(after[n].code, Len(after[b - 1].code) + 1, b, j)

LEMMA AfterBlocksIsSound ==
  ASSUME TypeOK, phase = "functions", Exists(prog), UsesCover(prog, uses),
         NEW j \in DOMAIN prog.fns, NEW e \in Emitter(Len(prog.fns[j])),
         NEW u, u = uses \cup FlagsOf(prog.fns[j]),
         Sound(e, j, prog, places.vtables, u), Plain(e.code)
  PROVE  /\ Emitting(e, AfterBlocks(e, j)[Len(prog.fns[j])], j, prog, places.vtables, u)
         /\ AllBegin(AfterBlocks(e, j), Len(prog.fns[j]), j)
<1> DEFINE L == Len(prog.fns[j])
           after == AfterBlocks(e, j)
           Reached(n) == Emitting(e, after[n], j, prog, places.vtables, u)
           G == {n \in 0 .. L : Reached(n) /\ AllBegin(after, n, j)}
<1>1. L \in Nat /\ DOMAIN prog.fns[j] = 1 .. L
  <2>1. prog.fns \in Seq(Seq(Seq([op : Items, n : Nat])))
    BY ProgramHasItsType DEF TypeOK
  <2>2. prog.fns[j] \in Seq(Seq([op : Items, n : Nat]))
    BY <2>1, Element
  <2>3. QED
    BY <2>2
<1>2. /\ after[0] = e
      /\ \A b \in 1 .. L : after[b] = EmitBlock(after[b - 1], prog.fns[j][b], b, j)
      /\ \A b \in 0 .. L : after[b] \in Emitter(L)
  BY AfterBlocksUnfolds, AfterBlocksHasItsType
<1>3. e \in Emitter(L)
  OBVIOUS
<1>4. \A b \in 1 .. L : \A x \in Emitter(L) :
        Sound(x, j, prog, places.vtables, u) /\ Plain(x.code)
          => /\ Emitting(x, EmitBlock(x, prog.fns[j][b], b, j), j, prog, places.vtables, u)
             /\ Begins(EmitBlock(x, prog.fns[j][b], b, j).code, Len(x.code) + 1, b, j)
  BY <1>1, EmitBlockIsSound
<1> HIDE DEF L, after
<1>5. 0 \in G
  <2>1. Grown(e.code, e.code)
    BY <1>3, EmitterSequences DEF Grown
  <2>2. Reached(0)
    BY <1>2, <2>1 DEF Emitting
  <2>3. AllBegin(after, 0, j)
    BY DEF AllBegin
  <2>4. QED
    BY <1>1, <2>2, <2>3
<1>6. ASSUME NEW n \in 1 .. L, n - 1 \in G
      PROVE  n \in G
  <2> DEFINE x == after[n - 1]
             y == after[n]
  <2>1. Reached(n - 1) /\ AllBegin(after, n - 1, j) /\ n - 1 \in 0 .. L /\ n \in 0 .. L
    BY <1>1, <1>6
  <2>2. x \in Emitter(L) /\ y \in Emitter(L) /\ y = EmitBlock(x, prog.fns[j][n], n, j)
    BY <1>2, <2>1
  <2>3. Emitting(e, x, j, prog, places.vtables, u)
    BY <2>1
  <2>4. /\ Emitting(x, y, j, prog, places.vtables, u)
        /\ Begins(y.code, Len(x.code) + 1, n, j)
    <3>1. Sound(x, j, prog, places.vtables, u) /\ Plain(x.code)
      BY <2>3 DEF Emitting
    <3> HIDE DEF x, y
    <3>2. QED
      BY <1>4, <2>2, <3>1
  <2>5. \A b \in 1 .. n - 1 : Begins(x.code, Len(after[b - 1].code) + 1, b, j)
    BY <2>1 DEF AllBegin
  <2>6. AllBegin(after, n, j)
    <3>1. x.code \in Seq(CellOf(CodeKinds)) /\ y.code \in Seq(CellOf(CodeKinds))
      BY <2>2, EmitterSequences
    <3>2. Kept(x.code, y.code)
      BY <2>4, GrownIsKept DEF Emitting
    <3> HIDE DEF y
    <3>3. ASSUME NEW b \in 1 .. n
          PROVE  Begins(y.code, Len(after[b - 1].code) + 1, b, j)
      <4>1. CASE b = n
        BY <2>4, <4>1
      <4>2. CASE b # n
        <5>1. b \in 1 .. n - 1
          BY <4>2
        <5>2. Begins(x.code, Len(after[b - 1].code) + 1, b, j)
          BY <2>5, <5>1
        <5> HIDE DEF x
        <5>3. QED
          BY <3>1, <3>2, <5>2, BeginsStill
      <4>3. QED
        BY <4>1, <4>2
    <3>4. QED
      BY <3>3 DEF AllBegin, y
  <2> HIDE DEF x, y
  <2>7. Emitting(e, y, j, prog, places.vtables, u)
    BY <1>3, <2>2, <2>3, <2>4, EmittingFurther
  <2>8. QED
    BY <2>1, <2>6, <2>7 DEF y
<1> HIDE DEF G
<1>7. \A n \in 0 .. L : n \in G
  BY <1>1, <1>5, <1>6, UpTo
<1>8. L \in G
  BY <1>1, <1>7
<1>9. QED
  BY <1>8 DEF G, L, after

LEMMA HoldingHolds ==
  ASSUME NEW kinds, NEW cell \in CellOf(kinds), NEW value, NEW part
  PROVE  Holding(cell, value, part).value = value /\ Holding(cell, value, part).part = part
BY DEF Holding, CellOf

Holds(d, s, w, value) == \A m \in 1 .. w : d[s + m].value = value /\ d[s + m].part = m - 1
Filled(d, spans, values, s, w) ==
  \E k \in DOMAIN spans : spans[k].site = s /\ Holds(d, s, w, values[k])

LEMMA PatchedWindow ==
  ASSUME NEW kinds, NEW c \in Seq(CellOf(kinds)), NEW N \in Nat,
         NEW spans \in [1 .. N -> [site : Int, width : Int]], NEW values,
         NEW s \in Int, NEW w \in Nat, Within(c, s, w), Alone(spans, s, w),
         \E k \in DOMAIN spans : spans[k].site = s
  PROVE  Filled(Patched(c, spans, values), spans, values, s, w)
<1> DEFINE d == Patched(c, spans, values)
<1>1. DOMAIN spans = 1 .. N
  OBVIOUS
<1>2. PICK k \in DOMAIN spans : spans[k].site = s /\ HoldsFrom(d, c, s, w, values[k])
  BY PatchedSpan
<1> HIDE DEF d
<1>3. \A m \in 1 .. w : c[s + m] \in CellOf(kinds)
  BY Element DEF Within
<1>4. \A cell \in CellOf(kinds) : \A value, part :
        Holding(cell, value, part).value = value /\ Holding(cell, value, part).part = part
  BY HoldingHolds
<1>5. ASSUME NEW m \in 1 .. w
      PROVE  d[s + m].value = values[k] /\ d[s + m].part = m - 1
  <2>1. d[s + m] = Holding(c[s + m], values[k], m - 1)
    BY <1>2 DEF HoldsFrom
  <2>2. c[s + m] \in CellOf(kinds)
    BY <1>3
  <2>3. QED
    BY <1>4, <2>1, <2>2
<1>6. QED
  BY <1>2, <1>5 DEF Filled, Holds, d

LEMMA PatchedIsKept ==
  ASSUME NEW kinds, NEW c \in Seq(CellOf(kinds)), NEW spans, NEW values,
         NEW T, Patched(c, spans, values) \in Seq(T)
  PROVE  /\ Kept(c, Patched(c, spans, values)) /\ Len(Patched(c, spans, values)) = Len(c)
         /\ DOMAIN Patched(c, spans, values) = DOMAIN c
<1> DEFINE d == Patched(c, spans, values)
<1>1. Len(c) \in Nat /\ DOMAIN c = 1 .. Len(c)
  OBVIOUS
<1>2. DOMAIN d = DOMAIN c
  BY DEF Patched
<1>3. \A i \in DOMAIN c : Like(d[i], c[i])
  BY PatchedIsLike
<1> HIDE DEF d
<1>4. Len(d) = Len(c)
  <2>1. Len(d) \in Nat /\ DOMAIN d = 1 .. Len(d)
    BY DEF d
  <2> HIDE DEF d
  <2>2. QED
    BY <1>1, <1>2, <2>1
<1>5. QED
  BY <1>1, <1>2, <1>3, <1>4 DEF Kept, d

(* All jumps of a function lead to their blocks once they are patched.     *)
Patches(e, f, p, v, u) ==
  /\ Kept(e.code, f.code) /\ Len(f.code) = Len(e.code) /\ f.data = e.data /\ f.jumps = <<>>
  /\ f.calls = e.calls /\ Plain(f.code) /\ \A i : Sound(f, i, p, v, u)

(* Where a window is, only the spans of its site can be.                   *)
LEMMA OneSite ==
  ASSUME NEW c, NEW s \in Int, NEW q \in Int, NEW w, NEW m \in 1 .. w, NEW x,
         WindowAt(c, s, x), WindowAt(c, q, w), (q + m) - s \in 1 .. x
  PROVE  s = q
<1> DEFINE n == (q + m) - s
<1>1. q + m = s + n
  OBVIOUS
<1>2. c[q + m].byte = m - 1
  BY DEF WindowAt
<1>3. n \in 1 .. x
  OBVIOUS
<1> HIDE DEF n
<1>4. c[s + n].byte = n - 1
  BY <1>3 DEF WindowAt
<1>5. m - 1 = n - 1 /\ n \in Int
  BY <1>1, <1>2, <1>3, <1>4
<1>6. QED
  BY <1>1, <1>5

LEMMA PatchJumpsPatches ==
  ASSUME NEW blocks \in Nat, NEW e \in Emitter(blocks), NEW at \in [1 .. blocks -> Int],
         NEW j, NEW p, NEW v, NEW u, Sound(e, j, p, v, u), Plain(e.code),
         \A b \in 1 .. blocks : Begins(e.code, at[b] + 1, b, j)
  PROVE  Patches(e, PatchJumps(e, at), p, v, u)
<1> DEFINE N == Len(e.jumps)
           spans  == [k \in 1 .. N |-> [site |-> e.jumps[k].site, width |-> 4]]
           values == [k \in 1 .. N |-> at[e.jumps[k].block] - (e.jumps[k].site + 4)]
           f == PatchJumps(e, at)
           c == e.code
           d == Patched(c, spans, values)
           C == CellOf(CodeKinds)
<1>1. /\ e.jumps \in Seq([site : Int, block : 1 .. blocks]) /\ c \in Seq(C)
      /\ Len(c) \in Nat /\ DOMAIN c = 1 .. Len(c)
  BY EmitterSequences
<1>2. N \in Nat /\ DOMAIN e.jumps = 1 .. N
  BY <1>1
<1>3. \A k \in 1 .. N : e.jumps[k].site \in Int /\ e.jumps[k].block \in 1 .. blocks
  <2>1. \A k \in 1 .. N : e.jumps[k] \in [site : Int, block : 1 .. blocks]
    BY <1>1, <1>2, Element
  <2>2. QED
    BY <2>1
<1>4. f.code = d /\ f.data = e.data /\ f.relocs = e.relocs /\ f.calls = e.calls
      /\ f.jumps = <<>>
  <2>1. e = [code |-> e.code, data |-> e.data, relocs |-> e.relocs, calls |-> e.calls,
             jumps |-> e.jumps]
    BY DEF Emitter
  <2>2. f = [e EXCEPT !.code = Patched(@, spans, values), !.jumps = <<>>]
    BY <1>2 DEF PatchJumps
  <2> HIDE DEF f, spans, values
  <2>3. QED
    BY <2>1, <2>2
<1>5. f \in Emitter(0)
  BY PatchJumpsHasItsType
<1> HIDE DEF f
<1>6. d \in Seq(C) /\ Len(d) \in Nat /\ DOMAIN d = 1 .. Len(d)
  BY <1>4, <1>5, EmitterSequences
<1>7. Kept(c, d) /\ Len(d) = Len(c) /\ \A i \in 1 .. Len(c) : Like(d[i], c[i])
  <2>1. Kept(c, d) /\ Len(d) = Len(c)
    <3> HIDE DEF spans, values
    <3>1. QED
      BY <1>1, <1>6, PatchedIsKept
  <2>2. QED
    BY <2>1 DEF Kept
<1>8. /\ spans \in [1 .. N -> [site : Int, width : Int]]
      /\ \A k \in 1 .. N : spans[k].site = e.jumps[k].site /\ spans[k].width = 4
      /\ \A k \in 1 .. N : values[k] = at[e.jumps[k].block] - (e.jumps[k].site + 4)
  BY <1>3
<1>9. \A k \in 1 .. N : /\ WindowAt(c, spans[k].site, 4)
                        /\ c[spans[k].site].means
                             = [of |-> "Block", n |-> e.jumps[k].block, fn |-> j]
  BY <1>2, <1>8 DEF Sound, JumpFits
<1> HIDE DEF N, spans, values, d
<1>10. ASSUME NEW q \in Int, NEW m \in 1 .. 4, WindowAt(c, q, 4), NEW k \in Over(spans, q + m)
       PROVE  spans[k].site = q
  <2>1. k \in 1 .. N /\ (q + m) - spans[k].site \in 1 .. 4 /\ spans[k].site \in Int
    BY <1>3, <1>8 DEF Over
  <2>2. QED
    BY <1>9, <1>10, <2>1, OneSite
<1>11. ASSUME NEW q \in 1 .. Len(c), q \in Sites(e.jumps)
       PROVE  Landed(d, q)
  <2>1. \E k \in 1 .. N : spans[k].site = q
    BY <1>2, <1>8, <1>11 DEF Sites
  <2>2. WindowAt(c, q, 4)
    BY <1>9, <2>1
  <2>3. PICK k \in 1 .. N : spans[k].site = q /\ Holds(d, q, 4, values[k])
    <3>1. Within(c, q, 4)
      <4>1. q + 4 <= Len(c)
        BY <2>2 DEF WindowAt
      <4>2. QED
        BY <1>1, <4>1 DEF Within
    <3>2. Alone(spans, q, 4)
      <4>1. \A m \in 1 .. 4 : \A k \in Over(spans, q + m) : spans[k].site = q
        BY <1>10, <2>2
      <4>2. QED
        BY <1>8, <4>1 DEF Alone
    <3>3. q \in Int /\ 4 \in Nat /\ DOMAIN spans = 1 .. N
      BY <1>8
    <3>4. Filled(d, spans, values, q, 4)
      BY <1>1, <1>2, <1>8, <2>1, <3>1, <3>2, <3>3, PatchedWindow DEF d
    <3>5. QED
      BY <3>3, <3>4 DEF Filled
  <2> DEFINE b == e.jumps[k].block
  <2>4. b \in 1 .. blocks /\ values[k] = at[b] - (q + 4) /\ at[b] \in Int
        /\ c[q].means = [of |-> "Block", n |-> b, fn |-> j]
    BY <1>3, <1>8, <1>9, <2>3
  <2> HIDE DEF b
  <2>5. \A m \in 1 .. 4 : d[q + m].value = values[k] /\ d[q + m].part = m - 1
    BY <2>3 DEF Holds
  <2>6. WindowAt(d, q, 4) /\ d[q].means = [of |-> "Block", n |-> b, fn |-> j]
    <3>1. WindowAt(d, q, 4) /\ d[q].means = c[q].means
      BY <1>1, <1>6, <1>7, <2>2, WindowKept
    <3>2. QED
      BY <2>4, <3>1
  <2>7. q + 5 + values[k] = at[b] + 1
    BY <2>4
  <2>8. Begins(d, at[b] + 1, b, j)
    BY <1>1, <1>6, <1>7, <2>4, BeginsStill
  <2>9. d[q + 1].value = values[k]
    BY <2>5
  <2>10. PICK t : t = q + 5 + d[q + 1].value
    OBVIOUS
  <2>11. t = at[b] + 1
    BY <2>7, <2>9, <2>10
  <2>12. t \in DOMAIN d /\ d[t].what = "Block" /\ d[t].of = b /\ d[t].byte = j
    BY <2>8, <2>11 DEF Begins
  <2>13. d[q].means.of = "Block" /\ d[q].means.n = b /\ d[q].means.fn = j
    BY <2>6
  <2>14. \A m \in 1 .. 4 : d[q + m].value = d[q + 1].value /\ d[q + m].part = m - 1
    BY <2>5, <2>9
  <2>15. QED
    BY <2>6, <2>10, <2>12, <2>13, <2>14 DEF Landed
<1>12. ASSUME NEW q \in 1 .. Len(c), q \notin Sites(e.jumps), Landed(c, q)
       PROVE  Landed(d, q)
  <2>1. WindowAt(c, q, 4) /\ \A m \in 1 .. 4 : q + m \in DOMAIN c
    <3>1. WindowAt(c, q, 4) /\ q + 4 <= Len(c)
      BY <1>12 DEF Landed, WindowAt
    <3>2. QED
      BY <1>1, <3>1
  <2>2. \A m \in 1 .. 4 : d[q + m] = c[q + m]
    <3>1. ASSUME NEW m \in 1 .. 4
          PROVE  Over(spans, q + m) = {}
      <4>1. \A k \in Over(spans, q + m) : k \in 1 .. N /\ spans[k].site = q
        BY <1>8, <1>10, <2>1 DEF Over
      <4>2. \A k \in 1 .. N : spans[k].site # q
        BY <1>2, <1>8, <1>12 DEF Sites
      <4>3. QED
        BY <4>1, <4>2
    <3>2. \A i \in DOMAIN c : Over(spans, i) = {} => d[i] = c[i]
      BY PatchedApart DEF d
    <3>3. QED
      BY <2>1, <3>1, <3>2
  <2>3. WindowAt(d, q, 4) /\ d[q].means = c[q].means
    BY <1>1, <1>6, <1>7, <2>1, WindowKept
  <2> DEFINE t == q + 5 + c[q + 1].value
  <2>4. t \in DOMAIN c /\ c[t].what = "Block" /\ c[t].of = c[q].means.n /\ c[t].byte = c[q].means.fn
    BY <1>12 DEF Landed
  <2>5. t = q + 5 + d[q + 1].value
    BY <2>2
  <2> HIDE DEF t
  <2>6. t \in DOMAIN d /\ d[t].what = "Block" /\ d[t].of = c[q].means.n /\ d[t].byte = c[q].means.fn
    BY <1>1, <1>6, <1>7, <2>4 DEF Like
  <2>7. c[q].means.of = "Block" /\ \A m \in 1 .. 4 : c[q + m].value = c[q + 1].value /\ c[q + m].part = m - 1
    BY <1>12 DEF Landed
  <2>8. \A m \in 1 .. 4 : d[q + m].value = d[q + 1].value /\ d[q + m].part = m - 1
    <3>1. d[q + 1] = c[q + 1]
      BY <2>2
    <3>2. ASSUME NEW m \in 1 .. 4
          PROVE  d[q + m].value = d[q + 1].value /\ d[q + m].part = m - 1
      <4>1. d[q + m] = c[q + m]
        BY <2>2
      <4>2. c[q + m].value = c[q + 1].value /\ c[q + m].part = m - 1
        BY <2>7
      <4>3. QED
        BY <3>1, <4>1, <4>2
    <3>3. QED
      BY <3>2
  <2>9. QED
    BY <2>3, <2>5, <2>6, <2>7, <2>8 DEF Landed
<1>13. ASSUME NEW q \in DOMAIN d, Opens(d, q)
       PROVE  Served(f, q)
  <2>1. q \in 1 .. Len(c)
    BY <1>6, <1>7
  <2>2. Opens(c, q)
    <3>1. c[q].what = "op"
      BY <1>7, <1>13, <2>1 DEF Opens, Like
    <3>2. ~ (q < Len(c) /\ c[q + 1].what = "op")
      <4>1. q < Len(c) => q + 1 \in 1 .. Len(c)
        BY <1>1, <2>1
      <4>2. q < Len(c) => d[q + 1].what = c[q + 1].what
        BY <1>7, <4>1 DEF Like
      <4>3. QED
        BY <1>7, <1>13, <4>2 DEF Opens
    <3>3. QED
      BY <1>1, <2>1, <3>1, <3>2 DEF Opens
  <2>3. Served(e, q)
    BY <1>1, <2>1, <2>2 DEF Sound
  <2>4. QED
    BY <1>4, <1>11, <1>12, <2>1, <2>3 DEF Served
<1>14. \A i : Sound(f, i, p, v, u)
  <2>1. /\ \A k \in DOMAIN e.relocs : RelocFits(e.relocs[k], d, p, v, u)
        /\ \A k \in DOMAIN e.calls  : CallFits(e.calls[k], d, p, v, u)
    <3>1. \A r : /\ RelocFits(r, c, p, v, u) => RelocFits(r, d, p, v, u)
                 /\ CallFits(r, c, p, v, u) => CallFits(r, d, p, v, u)
      BY <1>1, <1>6, <1>7, FitsKept
    <3>2. QED
      BY <3>1 DEF Sound
  <2>2. DOMAIN f.jumps = {}
    BY <1>4
  <2>3. QED
    BY <1>4, <1>13, <2>1, <2>2 DEF Sound
<1>15. Plain(d)
  BY <1>1, <1>6, <1>7 DEF Plain, Like
<1>16. QED
  BY <1>4, <1>7, <1>14, <1>15 DEF Patches, f

-----------------------------------------------------------------------------
(* A function is emitted, with all its jumps in place.                     *)
Marks(c, i, j) == i \in DOMAIN c /\ c[i].what = "Fn" /\ c[i].of = j /\ c[i].byte = 0

FunctionAdded(e, f, j, p, v, u) ==
  /\ Kept(e.code, f.code) /\ f.data = e.data /\ f.jumps = <<>> /\ Plain(f.code)
  /\ Sound(f, 0, p, v, u) /\ Marks(f.code, Len(e.code) + 1, j)

LEMMA KeptFurther ==
  ASSUME NEW S, NEW c \in Seq(S), NEW d \in Seq(S), NEW e \in Seq(S), Kept(c, d), Kept(d, e)
  PROVE  Kept(c, e)
<1>1. Len(c) \in Nat /\ Len(d) \in Nat /\ Len(e) \in Nat
  OBVIOUS
<1>2. Len(c) <= Len(d) /\ Len(d) <= Len(e) /\ \A i \in 1 .. Len(c) : i \in 1 .. Len(d)
  BY <1>1 DEF Kept
<1>3. \A i \in 1 .. Len(c) : Like(e[i], c[i])
  BY <1>2 DEF Kept, Like
<1>4. QED
  BY <1>1, <1>2, <1>3 DEF Kept

LEMMA NoJumpsAreSound ==
  ASSUME NEW e, e.jumps = <<>>, NEW i, NEW j, NEW p, NEW v, NEW u, Sound(e, i, p, v, u)
  PROVE  Sound(e, j, p, v, u)
<1>1. DOMAIN e.jumps = {}
  OBVIOUS
<1>2. QED
  BY <1>1 DEF Sound

LEMMA SoundWider ==
  ASSUME NEW e, NEW j, NEW p, NEW v, NEW u, NEW x, u \subseteq x, Sound(e, j, p, v, u)
  PROVE  Sound(e, j, p, v, x)
<1>1. \A sym, means : Fits(sym, means, p, v, u) => Fits(sym, means, p, v, x)
  <2>1. ASSUME NEW sym, NEW means, Fits(sym, means, p, v, u)
        PROVE  Fits(sym, means, p, v, x)
    <3>1. /\ "argv" \in u => "argv" \in x
          /\ "exc" \in u => "exc" \in x
          /\ sym.of \in u => sym.of \in x
      OBVIOUS
    <3>2. QED
      BY <2>1, <3>1, Zenon DEF Fits
  <2>2. QED
    BY <2>1
<1>2. /\ \A r : RelocFits(r, e.code, p, v, u) => RelocFits(r, e.code, p, v, x)
      /\ \A r : CallFits(r, e.code, p, v, u) => CallFits(r, e.code, p, v, x)
  BY <1>1 DEF RelocFits, CallFits
<1>3. QED
  BY <1>2 DEF Sound

LEMMA FunctionIsAdded ==
  ASSUME TypeOK, EmitFunction, Exists(prog), UsesCover(prog, uses),
         Sound(emit, 0, prog, places.vtables, uses), emit.jumps = <<>>, Plain(emit.code)
  PROVE  FunctionAdded(emit, emit', Len(starts) + 1, prog, places.vtables, uses')
<1> DEFINE j      == Len(starts) + 1
           L      == Len(prog.fns[j])
           mark   == Cell("Fn", j, 0)
           marked == [emit EXCEPT !.code = Append(@, mark)]
           stub   == Abs64("ArgvRsp", 0, Sym("ArgvRsp", 0))
           opened == IF j = 1 /\ "argv" \in uses THEN EmitWindow(marked, stub) ELSE marked
           after  == AfterBlocks(opened, j)
           at     == [b \in 1 .. L |-> Len(after[b - 1].code)]
           done   == after[L]
           v      == places.vtables
           u      == uses'
<1>1. prog \in Programs /\ phase = "functions" /\ emit \in Emitter(0)
  BY DEF TypeOK, EmitFunction
<1>2. j \in DOMAIN prog.fns /\ j \in Int
  <2>1. starts \in Seq(Int) /\ Len(starts) < Len(prog.fns)
    BY DEF TypeOK, EmitFunction
  <2>2. Len(prog.fns) \in Nat /\ DOMAIN prog.fns = 1 .. Len(prog.fns)
    BY <1>1, ProgramHasItsType
  <2>3. Len(starts) \in Nat
    BY <2>1
  <2>4. QED
    BY <2>1, <2>2, <2>3
<1> HIDE DEF j
<1>3. L \in Nat /\ DOMAIN prog.fns[j] = 1 .. L
  <2>1. prog.fns \in Seq(Seq(Seq([op : Items, n : Nat])))
    BY <1>1, ProgramHasItsType
  <2>2. prog.fns[j] \in Seq(Seq([op : Items, n : Nat]))
    BY <1>2, <2>1, Element
  <2>3. QED
    BY <2>2
<1>4. emit' = PatchJumps(done, at)
  BY <1>3 DEF EmitFunction, j
<1> HIDE DEF L
<1>5. u = uses \cup FlagsOf(prog.fns[j]) /\ uses \subseteq u
  BY DEF EmitFunction, j
<1> HIDE DEF u
<1>6. emit \in Emitter(L) /\ Sound(emit, j, prog, v, u)
  BY <1>1, <1>3, <1>5, NoJumpsYet, NoJumpsAreSound, SoundWider
<1>7. mark \in CellOf(CodeKinds) /\ mark.what = "Fn" /\ mark.of = j /\ mark.byte = 0
  <2>1. "Fn" \in CodeKinds
    BY DEF CodeKinds
  <2>2. \A k \in Int : Cell("Fn", j, k) \in CellOf(CodeKinds)
    BY <1>2, <2>1, CellHasItsType
  <2>3. mark \in CellOf(CodeKinds)
    BY <2>2
  <2>4. QED
    BY <2>3 DEF Cell
<1> HIDE DEF mark
<1>8. /\ marked \in Emitter(L) /\ marked.code = Append(emit.code, mark)
      /\ Emitting(emit, marked, j, prog, v, u)
  <2>1. mark.what \in {"Fn", "Block"}
    BY <1>7
  <2>2. QED
    BY <1>6, <1>7, <2>1, MarkIsSound
<1> HIDE DEF marked
<1>9. opened \in Emitter(L) /\ Emitting(marked, opened, j, prog, v, u)
  <2>1. stub \in Window(L)
    BY SymbolOf, Abs64HasItsType
  <2>2. "argv" \in uses => GoodWindow(stub, j, prog, v, u)
    <3>1. /\ "argv" \in uses => Fits(Sym("ArgvRsp", 0), Sym("ArgvRsp", 0), prog, v, u)
          /\ Sym("ArgvRsp", 0).of \notin Helpers
      BY <1>5 DEF Fits, Sym, Helpers
    <3>2. QED
      BY <3>1, Abs64Fits
  <2>3. Sound(marked, j, prog, v, u) /\ Plain(marked.code)
    BY <1>8 DEF Emitting
  <2> HIDE DEF stub
  <2>4. CASE j = 1 /\ "argv" \in uses
    <3>1. EmitWindow(marked, stub) \in Emitter(L)
      BY <1>3, <1>8, <2>1, EmitWindowHasItsType
    <3>2. Emitting(marked, EmitWindow(marked, stub), j, prog, v, u)
      BY <1>3, <1>8, <2>1, <2>2, <2>3, <2>4, EmitWindowIsSound
    <3>3. QED
      BY <2>4, <3>1, <3>2
  <2>5. CASE ~ (j = 1 /\ "argv" \in uses)
    <3>1. Grown(marked.code, marked.code)
      BY <1>8, EmitterSequences DEF Grown
    <3>2. Emitting(marked, marked, j, prog, v, u)
      BY <2>3, <3>1 DEF Emitting
    <3>3. QED
      BY <1>8, <2>5, <3>2
  <2>6. QED
    BY <2>4, <2>5
<1> HIDE DEF opened
<1>10. Sound(opened, j, prog, v, u) /\ Plain(opened.code)
  BY <1>9 DEF Emitting
<1>11. Emitting(opened, done, j, prog, v, u) /\ AllBegin(after, L, j)
  BY <1>1, <1>2, <1>9, <1>10, <1>5, AfterBlocksIsSound DEF L
<1>12. \A b \in 0 .. L : after[b] \in Emitter(L)
  BY <1>1, <1>2, <1>9, AfterBlocksHasItsType DEF L
<1> HIDE DEF after
<1>13. at \in [1 .. L -> Int]
  <2>1. ASSUME NEW b \in 1 .. L
        PROVE  Len(after[b - 1].code) \in Int
    <3>1. after[b - 1] \in Emitter(L)
      BY <1>3, <1>12
    <3>2. after[b - 1].code \in Seq(CellOf(CodeKinds))
      BY <3>1 DEF Emitter
    <3>3. QED
      BY <3>2
  <2>2. QED
    BY <2>1
<1>14. \A b \in 1 .. L : Begins(done.code, at[b] + 1, b, j)
  BY <1>11 DEF AllBegin
<1>15. done \in Emitter(L)
  BY <1>3, <1>12
<1> HIDE DEF at, done
<1>16. Emitting(marked, done, j, prog, v, u) /\ Emitting(emit, done, j, prog, v, u)
  <2>1. Emitting(marked, done, j, prog, v, u)
    BY <1>8, <1>9, <1>11, <1>15, EmittingFurther
  <2>2. QED
    BY <1>6, <1>8, <1>15, <2>1, EmittingFurther
<1>17. Patches(done, emit', prog, v, u)
  <2>1. Sound(done, j, prog, v, u) /\ Plain(done.code)
    BY <1>16 DEF Emitting
  <2>2. Patches(done, PatchJumps(done, at), prog, v, u)
    BY <1>3, <1>13, <1>14, <1>15, <2>1, PatchJumpsPatches
  <2>3. QED
    BY <1>4, <2>2
<1>18. emit'.code \in Seq(CellOf(CodeKinds)) /\ done.code \in Seq(CellOf(CodeKinds))
       /\ emit.code \in Seq(CellOf(CodeKinds)) /\ marked.code \in Seq(CellOf(CodeKinds))
  <2>1. emit' \in Emitter(0)
    BY <1>3, <1>4, <1>13, <1>15, PatchJumpsHasItsType
  <2>2. QED
    BY <1>6, <1>8, <1>15, <2>1, EmitterSequences
<1>19. Kept(done.code, emit'.code) /\ emit'.data = done.data
       /\ emit'.jumps = <<>> /\ Plain(emit'.code) /\ Sound(emit', 0, prog, v, u)
  BY <1>17 DEF Patches
<1>20. Kept(emit.code, emit'.code) /\ Kept(marked.code, emit'.code) /\ done.data = emit.data
  <2>1. Kept(emit.code, done.code) /\ Kept(marked.code, done.code) /\ done.data = emit.data
    BY <1>16, GrownIsKept DEF Emitting
  <2>2. QED
    BY <1>18, <1>19, <2>1, KeptFurther
<1>21. Marks(emit'.code, Len(emit.code) + 1, j)
  <2>1. Len(emit.code) \in Nat /\ Len(marked.code) = Len(emit.code) + 1
        /\ marked.code[Len(emit.code) + 1] = mark
    BY <1>8, <1>18, Appending
  <2>2. Len(emit'.code) \in Nat /\ DOMAIN emit'.code = 1 .. Len(emit'.code)
    BY <1>18
  <2>3. /\ Len(marked.code) <= Len(emit'.code)
        /\ \A i \in 1 .. Len(marked.code) : Like(emit'.code[i], marked.code[i])
    BY <1>20 DEF Kept
  <2>4. Len(emit.code) + 1 \in 1 .. Len(marked.code)
    BY <2>1
  <2>5. Len(emit.code) + 1 \in DOMAIN emit'.code
    BY <2>1, <2>2, <2>3
  <2>6. Like(emit'.code[Len(emit.code) + 1], mark)
    BY <2>1, <2>3, <2>4
  <2>7. QED
    BY <1>7, <2>5, <2>6 DEF Like, Marks
<1>22. QED
  BY <1>19, <1>20, <1>21 DEF FunctionAdded, j, u

LEMMA StartsStill ==
  ASSUME NEW S, NEW c \in Seq(S), NEW d \in Seq(S), Kept(c, d), NEW s \in Seq(Int),
         StartsLaid(c, s), Marks(d, Len(c) + 1, Len(s) + 1)
  PROVE  StartsLaid(d, Append(s, Len(c)))
<1> DEFINE n == Len(s)
           t == Append(s, Len(c))
<1>1. Len(c) \in Nat /\ DOMAIN c = 1 .. Len(c) /\ Len(d) \in Nat /\ DOMAIN d = 1 .. Len(d)
  OBVIOUS
<1>2. /\ n \in Nat /\ DOMAIN s = 1 .. n /\ DOMAIN t = 1 .. n + 1
      /\ \A f \in 1 .. n : t[f] = s[f]
      /\ t[n + 1] = Len(c)
  OBVIOUS
<1>3. s = <<>> => n = 0
  OBVIOUS
<1>4. s # <<>> => n # 0
  OBVIOUS
<1> HIDE DEF n, t
<1>5. ASSUME NEW f \in 1 .. n + 1
      PROVE  Marks(d, t[f] + 1, f)
  <2>1. CASE f = n + 1
    BY <1>2, <2>1 DEF n
  <2>2. CASE f # n + 1
    <3>1. f \in 1 .. n
      BY <1>2, <2>2
    <3>2. t[f] + 1 \in 1 .. Len(c) /\ c[t[f] + 1].what = "Fn" /\ c[t[f] + 1].of = f
          /\ c[t[f] + 1].byte = 0
      BY <1>1, <1>2, <3>1 DEF StartsLaid
    <3>3. t[f] + 1 \in 1 .. Len(d) /\ Like(d[t[f] + 1], c[t[f] + 1])
      BY <1>1, <3>2 DEF Kept
    <3>4. QED
      BY <1>1, <3>2, <3>3 DEF Marks, Like
  <2>3. QED
    BY <2>1, <2>2
<1>6. t[1] = 0 /\ t # <<>>
  <2>1. t # <<>>
    <3>1. 1 \in DOMAIN t
      BY <1>2
    <3>2. DOMAIN <<>> = {}
      OBVIOUS
    <3>3. QED
      BY <3>1, <3>2
  <2>2. CASE s = <<>>
    <3>1. c = <<>>
      BY <2>2 DEF StartsLaid
    <3>2. Len(c) = 0
      BY <3>1
    <3>3. QED
      BY <1>2, <1>3, <2>1, <2>2, <3>2
  <2>3. CASE s # <<>>
    <3>1. 1 \in 1 .. n /\ s[1] = 0
      BY <1>2, <1>4, <2>3 DEF StartsLaid
    <3>2. QED
      BY <1>2, <2>1, <3>1
  <2>4. QED
    BY <2>2, <2>3
<1>7. QED
  BY <1>2, <1>5, <1>6 DEF StartsLaid, Marks, t

LEMMA NextFunction ==
  ASSUME TypeOK, EmitFunction
  PROVE  Len(starts) + 1 \in DOMAIN prog.fns
<1>1. starts \in Seq(Int) /\ Len(starts) < Len(prog.fns)
  BY DEF TypeOK, EmitFunction
<1>2. Len(prog.fns) \in Nat /\ DOMAIN prog.fns = 1 .. Len(prog.fns)
  BY ProgramHasItsType DEF TypeOK
<1>3. Len(starts) \in Nat
  BY <1>1
<1>4. QED
  BY <1>1, <1>2, <1>3

LEMMA EmitFunctionLinks ==
  ASSUME NamesExist, TypeOK, LinkInv, EmitFunction
  PROVE  LinkInv'
<1> DEFINE new == FlagsOf(prog.fns[Len(starts) + 1])
<1>1. phase = "functions" /\ phase' = "functions"
      /\ UNCHANGED <<prog, mode, places, helperAt>>
  BY DEF EmitFunction
<1>2. starts' = Append(starts, Len(emit.code)) /\ uses' = uses \cup new
  BY DEF EmitFunction
<1>3. SoFar(emit, starts, prog, places, uses) /\ Plain(emit.code)
  BY <1>1 DEF LinkInv
<1>4. Exists(prog)
  BY DEF NamesExist, TypeOK
<1>5. FunctionAdded(emit, emit', Len(starts) + 1, prog, places.vtables, uses')
  BY <1>3, <1>4, FunctionIsAdded DEF SoFar
<1>6. TypeOK' /\ emit'.code \in Seq(CellOf(CodeKinds)) /\ emit.code \in Seq(CellOf(CodeKinds))
      /\ starts \in Seq(Int)
  <2>1. TypeOK'
    BY EmitFunctionIsTyped
  <2>2. emit' \in Emitter(0)'
    BY <2>1 DEF TypeOK
  <2>3. emit'.code \in Seq(CellOf(CodeKinds))
    BY <2>2 DEF Emitter
  <2>4. emit.code \in Seq(CellOf(CodeKinds)) /\ starts \in Seq(Int)
    BY DEF TypeOK, Emitter
  <2>5. QED
    BY <2>1, <2>3, <2>4
<1>7. Sound(emit', 0, prog, places.vtables, uses')
  BY <1>5 DEF FunctionAdded
<1>8. StartsLaid(emit'.code, starts')
  BY <1>2, <1>3, <1>5, <1>6, StartsStill DEF FunctionAdded, SoFar
<1>9. UsesCover(prog, uses')
  <2>1. ASSUME NEW h \in {"Alloc", "Release"}, h \in new
        PROVE  prog.heap > 0
    <3>1. PICK block \in ToSet(prog.fns[Len(starts) + 1]) :
            \E item \in ToSet(block) : item.op \in DOMAIN FlagOf /\ h = FlagOf[item.op]
      BY <2>1, Zenon DEF FlagsOf
    <3>2. PICK item \in ToSet(block) : item.op \in DOMAIN FlagOf /\ h = FlagOf[item.op]
      BY <3>1
    <3>3. item.op \in HeapItems
      BY <3>2 DEF FlagOf, HeapItems
    <3>4. PICK b \in DOMAIN prog.fns[Len(starts) + 1] : block = prog.fns[Len(starts) + 1][b]
      BY DEF ToSet
    <3>5. PICK k \in DOMAIN block : item = block[k]
      BY DEF ToSet
    <3>6. Len(starts) + 1 \in DOMAIN prog.fns
      BY NextFunction
    <3>7. QED
      BY <1>4, <3>3, <3>4, <3>5, <3>6 DEF Exists
  <2>2. uses' \cap {"Alloc", "Release"} # {} => prog.heap > 0
    BY <1>2, <1>3, <2>1 DEF SoFar, UsesCover
  <2>3. /\ Ops(prog) \cap ExcOps # {} => "exc" \in uses'
        /\ "BuildArgv" \in Ops(prog) => "argv" \in uses'
    BY <1>2, <1>3 DEF SoFar, UsesCover
  <2>4. QED
    BY <2>2, <2>3 DEF UsesCover
<1>10. SoFar(emit', starts', prog', places', uses') /\ Plain(emit'.code)
  BY <1>1, <1>3, <1>5, <1>7, <1>8, <1>9 DEF SoFar, FunctionAdded
<1>11. QED
  BY <1>1, <1>10 DEF LinkInv, Lowering

LEMMA InitLinks ==
  ASSUME Init
  PROVE  LinkInv
BY DEF Init, LinkInv, Lowering

-----------------------------------------------------------------------------
(* The data is where places says.                                          *)
Parts(d, a, b, c) ==
  /\ \A i \in 1 .. Len(a) : i \in DOMAIN d /\ d[i] = a[i]
  /\ \A i \in 1 .. Len(b) : Len(a) + i \in DOMAIN d /\ d[Len(a) + i] = b[i]
  /\ \A i \in 1 .. Len(c) : Len(a) + Len(b) + i \in DOMAIN d /\ d[Len(a) + Len(b) + i] = c[i]
  /\ \A i \in DOMAIN d : \/ i \in 1 .. Len(a)
                         \/ \E t \in 1 .. Len(b) : i = Len(a) + t
                         \/ \E t \in 1 .. Len(c) : i = Len(a) + Len(b) + t

LEMMA ThreeParts ==
  ASSUME NEW S, NEW a \in Seq(S), NEW b \in Seq(S), NEW c \in Seq(S)
  PROVE  Parts(a \o b \o c, a, b, c)
<1>1. PICK x : x = a \o b /\ x \in Seq(S) /\ Follows(a, b, x)
  BY Joined
<1>2. PICK d : d = a \o b \o c /\ d \in Seq(S) /\ Follows(x, c, d)
  BY <1>1, Joined
<1>3. /\ Len(a) \in Nat /\ Len(b) \in Nat /\ Len(c) \in Nat
      /\ Len(x) = Len(a) + Len(b) /\ Len(d) = Len(x) + Len(c)
      /\ \A i \in 1 .. Len(a) : x[i] = a[i]
      /\ \A i \in 1 .. Len(b) : x[Len(a) + i] = b[i]
      /\ \A i \in 1 .. Len(x) : d[i] = x[i]
      /\ \A i \in 1 .. Len(c) : d[Len(x) + i] = c[i]
      /\ DOMAIN d = 1 .. Len(d)
  BY <1>1, <1>2 DEF Follows, Grown
<1>4. \A i \in 1 .. Len(a) : i \in 1 .. Len(x) /\ i \in DOMAIN d /\ d[i] = a[i]
  BY <1>3
<1>5. ASSUME NEW i \in 1 .. Len(b)
      PROVE  Len(a) + i \in DOMAIN d /\ d[Len(a) + i] = b[i]
  <2>1. Len(a) + i \in 1 .. Len(x) /\ Len(a) + i \in DOMAIN d
    BY <1>3
  <2>2. QED
    BY <1>3, <2>1
<1>6. ASSUME NEW i \in 1 .. Len(c)
      PROVE  Len(a) + Len(b) + i \in DOMAIN d /\ d[Len(a) + Len(b) + i] = c[i]
  <2>1. Len(a) + Len(b) + i = Len(x) + i /\ Len(x) + i \in DOMAIN d
    BY <1>3
  <2>2. QED
    BY <1>3, <2>1
<1>7. ASSUME NEW i \in DOMAIN d
      PROVE  \/ i \in 1 .. Len(a)
             \/ \E t \in 1 .. Len(b) : i = Len(a) + t
             \/ \E t \in 1 .. Len(c) : i = Len(a) + Len(b) + t
  <2>1. CASE i <= Len(a)
    BY <1>3, <2>1
  <2>2. CASE Len(a) < i /\ i <= Len(x)
    <3>1. i - Len(a) \in 1 .. Len(b) /\ i = Len(a) + (i - Len(a))
      BY <1>3, <2>2
    <3>2. QED
      BY <3>1
  <2>3. CASE Len(x) < i
    <3>1. i - Len(x) \in 1 .. Len(c) /\ i = Len(a) + Len(b) + (i - Len(x))
      BY <1>3, <2>3
    <3>2. i = Len(a) + Len(b) + (i - Len(x))
      BY <1>3, <3>1
    <3>3. QED
      BY <3>1, <3>2
  <2>4. i \in Nat /\ Len(a) \in Nat /\ Len(x) \in Nat
    BY <1>3
  <2>5. i <= Len(a) \/ (Len(a) < i /\ i <= Len(x)) \/ Len(x) < i
    BY <2>4
  <2>6. QED
    BY <2>1, <2>2, <2>3, <2>5
<1>8. Parts(d, a, b, c)
  BY <1>4, <1>5, <1>6, <1>7 DEF Parts
<1>9. QED
  BY <1>2, <1>8

LEMMA CellsAre ==
  ASSUME NEW n \in Nat, NEW what, NEW k
  PROVE  DOMAIN Cells(n, what, k) = 1 .. n /\ \A j \in 1 .. n : Cells(n, what, k)[j] = Cell(what, k, j - 1)
BY DEF Cells

(* Pieces of the given sizes, numbered, at offsets from the first of them. *)
PiecesLaid(flat, at, N, sizes, what, from) ==
  /\ \A r \in 1 .. N : at[r] \in Int
  /\ \A r \in 1 .. N : \A t \in 1 .. sizes[r] :
       at[r] - from + t \in 1 .. Len(flat) /\ flat[at[r] - from + t] = Cell(what, r, t - 1)
  /\ \A i \in 1 .. Len(flat) : \E r \in 1 .. N : \E t \in 1 .. sizes[r] :
       i = at[r] - from + t /\ flat[i] = Cell(what, r, t - 1)

LEMMA PiecesAreLaid ==
  ASSUME NEW N \in Nat, NEW sizes \in [1 .. N -> Nat], NEW what \in DataKinds, NEW from \in Nat,
         NEW pieces, pieces = [r \in 1 .. N |-> Cells(sizes[r], what, r)]
  PROVE  /\ FlattenSeq(pieces) \in Seq(CellOf(DataKinds))
         /\ PiecesLaid(FlattenSeq(pieces), Offsets(from, sizes), N, sizes, what, from)
<1> DEFINE D    == CellOf(DataKinds)
           flat == FlattenSeq(pieces)
           at   == Offsets(from, sizes)
<1>1. \A r \in 1 .. N : pieces[r] \in Seq(D) /\ Len(pieces[r]) = sizes[r]
  <2>1. ASSUME NEW r \in 1 .. N
        PROVE  pieces[r] \in Seq(D) /\ Len(pieces[r]) = sizes[r]
    <3>1. r \in Int /\ pieces[r] = Cells(sizes[r], what, r)
      OBVIOUS
    <3>2. PICK n \in Nat : n = sizes[r]
      OBVIOUS
    <3>3. Cells(n, what, r) \in Seq(D) /\ Len(Cells(n, what, r)) = n
      BY <3>1, CellsHaveTheirType
    <3>4. QED
      BY <3>1, <3>2, <3>3
  <2>2. QED
    BY <2>1
<1>2. \A r \in 1 .. N : \A t \in 1 .. sizes[r] : pieces[r][t] = Cell(what, r, t - 1)
  <2>1. ASSUME NEW r \in 1 .. N, NEW t \in 1 .. sizes[r]
        PROVE  Cells(sizes[r], what, r)[t] = Cell(what, r, t - 1)
    <3>1. sizes[r] \in Nat
      OBVIOUS
    <3>2. QED
      BY <3>1, CellsAre
  <2>2. QED
    BY <2>1
<1>3. pieces \in Seq(Seq(D)) /\ Len(pieces) = N
  <2> HIDE DEF D
  <2>1. pieces \in [1 .. N -> Seq(D)]
    BY <1>1
  <2>2. QED
    BY <2>1, FunctionIsSequence
<1>4. flat \in Seq(D)
  BY <1>3, Flatten
<1>5. LaidOut(flat, pieces, at, from)
  <2>1. sizes \in [1 .. Len(pieces) -> Int] /\ from \in Int
        /\ \A k \in 1 .. Len(pieces) : sizes[k] = Len(pieces[k])
    BY <1>1, <1>3
  <2> HIDE DEF D
  <2>2. QED
    BY <1>3, <2>1, FlattenPlaces
<1>6. at \in Seq(Int) /\ Len(at) = N
  <2>1. sizes \in [1 .. N -> Int] /\ from \in Int
    OBVIOUS
  <2>2. QED
    BY <2>1, OffsetsHaveTheirType
<1> HIDE DEF flat, at
<1>7. ASSUME NEW r \in 1 .. N, NEW t \in 1 .. sizes[r]
      PROVE  at[r] - from + t \in 1 .. Len(flat) /\ flat[at[r] - from + t] = Cell(what, r, t - 1)
  <2>1. r \in 1 .. Len(pieces) /\ t \in 1 .. Len(pieces[r])
    BY <1>1, <1>3
  <2>2. at[r] - from + t \in 1 .. Len(flat) /\ flat[at[r] - from + t] = pieces[r][t]
    BY <1>5, <2>1 DEF LaidOut
  <2>3. QED
    BY <1>2, <2>2
<1>8. ASSUME NEW i \in 1 .. Len(flat)
      PROVE  \E r \in 1 .. N : \E t \in 1 .. sizes[r] :
               i = at[r] - from + t /\ flat[i] = Cell(what, r, t - 1)
  <2>1. PICK r \in 1 .. Len(pieces) : \E t \in 1 .. Len(pieces[r]) : i = at[r] - from + t
    BY <1>5 DEF LaidOut
  <2>2. r \in 1 .. N /\ \E t \in 1 .. sizes[r] : i = at[r] - from + t
    BY <1>1, <1>3, <2>1
  <2>3. QED
    BY <1>7, <2>2
<1>9. \A r \in 1 .. N : at[r] \in Int
  BY <1>6
<1>10. PiecesLaid(flat, at, N, sizes, what, from)
  BY <1>7, <1>8, <1>9 DEF PiecesLaid
<1>11. QED
  BY <1>4, <1>10 DEF flat, at

RowSizes(p, V, rowSizes) ==
  \A r \in 1 .. V : Len(p.vtables[r]) \in Nat /\ rowSizes[r] = 8 * Len(p.vtables[r])

LEMMA DataIsLaid ==
  ASSUME NEW p, p.strings \in Nat, p.statics \in Nat, NEW V \in Nat, DOMAIN p.vtables = 1 .. V,
         NEW rowSizes, RowSizes(p, V, rowSizes),
         NEW eights, \A n \in 1 .. p.statics : eights[n] = 8,
         NEW text, Len(text) = p.strings,
         \A i \in 1 .. p.strings : text[i] = Cell("string", 0, i - 1),
         NEW words, Len(words) \in Nat, NEW v,
         PiecesLaid(words, v, V, rowSizes, "vtable", p.strings),
         NEW from, from = p.strings + Len(words), NEW fields, NEW s,
         PiecesLaid(fields, s, p.statics, eights, "static", from),
         NEW d, Parts(d, text, words, fields)
  PROVE  DataLaid(d, p, v, s)
<1>1. /\ \A i \in 1 .. p.strings : i \in DOMAIN d /\ d[i] = Cell("string", 0, i - 1)
      /\ \A i \in 1 .. Len(words) : p.strings + i \in DOMAIN d /\ d[p.strings + i] = words[i]
      /\ \A i \in 1 .. Len(fields) : from + i \in DOMAIN d /\ d[from + i] = fields[i]
      /\ \A i \in DOMAIN d : \/ i \in 1 .. p.strings
                             \/ \E t \in 1 .. Len(words) : i = p.strings + t
                             \/ \E t \in 1 .. Len(fields) : i = from + t
  BY DEF Parts
<1>2. /\ \A r \in 1 .. V : v[r] \in Int
      /\ \A r \in 1 .. V : \A t \in 1 .. rowSizes[r] :
           v[r] - p.strings + t \in 1 .. Len(words)
           /\ words[v[r] - p.strings + t] = Cell("vtable", r, t - 1)
      /\ \A i \in 1 .. Len(words) : \E r \in 1 .. V : \E t \in 1 .. rowSizes[r] :
           i = v[r] - p.strings + t /\ words[i] = Cell("vtable", r, t - 1)
  BY DEF PiecesLaid
<1>3. /\ \A n \in 1 .. p.statics : s[n] \in Int
      /\ \A n \in 1 .. p.statics : \A t \in 1 .. eights[n] :
           s[n] - from + t \in 1 .. Len(fields) /\ fields[s[n] - from + t] = Cell("static", n, t - 1)
      /\ \A i \in 1 .. Len(fields) : \E n \in 1 .. p.statics : \E t \in 1 .. eights[n] :
           i = s[n] - from + t /\ fields[i] = Cell("static", n, t - 1)
  BY DEF PiecesLaid
<1>4. from \in Nat
  OBVIOUS
<1>5. \A r \in 1 .. V : Len(p.vtables[r]) \in Nat /\ rowSizes[r] = 8 * Len(p.vtables[r])
  BY DEF RowSizes
<1> DEFINE InText(i)  == \E n \in Int : d[i] = Cell("string", 0, n)
           InRow(i)   == \E r \in 1 .. V : \E t \in 1 .. rowSizes[r] :
                           i = v[r] + t /\ d[i] = Cell("vtable", r, t - 1)
           InField(i) == \E n \in 1 .. p.statics : \E t \in Int : d[i] = Cell("static", n, t)
<1>6. ASSUME NEW i \in DOMAIN d
      PROVE  InText(i) \/ InRow(i) \/ InField(i)
  <2>1. CASE i \in 1 .. p.strings
    BY <1>1, <2>1
  <2>2. ASSUME NEW x \in 1 .. Len(words), i = p.strings + x
        PROVE  InRow(i)
    <3>1. PICK r \in 1 .. V : \E t \in 1 .. rowSizes[r] :
                 x = v[r] - p.strings + t /\ words[x] = Cell("vtable", r, t - 1)
      BY <1>2
    <3>2. PICK t \in 1 .. rowSizes[r] : x = v[r] - p.strings + t /\ words[x] = Cell("vtable", r, t - 1)
      BY <3>1
    <3>3. i = v[r] + t
      <4>1. p.strings \in Int /\ v[r] \in Int /\ t \in Int
        BY <1>2, <1>5
      <4>2. \A e, g, h \in Int : e + (g - e + h) = g + h
        OBVIOUS
      <4>3. i = p.strings + (v[r] - p.strings + t)
        BY <2>2, <3>2
      <4>4. QED
        BY <4>1, <4>2, <4>3
    <3>4. d[i] = Cell("vtable", r, t - 1)
      BY <1>1, <2>2, <3>2
    <3>5. QED
      BY <3>3, <3>4
  <2>3. ASSUME NEW x \in 1 .. Len(fields), i = from + x
        PROVE  InField(i)
    <3>1. d[i] = fields[x]
      BY <1>1, <2>3
    <3>2. PICK n \in 1 .. p.statics : \E t \in 1 .. eights[n] : fields[x] = Cell("static", n, t - 1)
      BY <1>3
    <3>3. PICK t \in 1 .. eights[n] : fields[x] = Cell("static", n, t - 1)
      BY <3>2
    <3>4. t - 1 \in Int
      OBVIOUS
    <3>5. QED
      BY <3>1, <3>3, <3>4
  <2> HIDE DEF InText, InRow, InField
  <2>4. QED
    BY <1>1, <2>1, <2>2, <2>3
<1>7. \A i \in DOMAIN d : d[i].part = None
  BY <1>6 DEF Cell
<1>8. \A n \in 0 .. p.strings - 1 : n + 1 \in DOMAIN d /\ d[n + 1] = Cell("string", 0, n)
  <2>1. \A n \in 0 .. p.strings - 1 : n + 1 \in 1 .. p.strings /\ (n + 1) - 1 = n
    OBVIOUS
  <2>2. QED
    BY <1>1, <2>1
<1>9. ASSUME NEW r \in DOMAIN p.vtables, NEW t \in 0 .. 8 * Len(p.vtables[r]) - 1
      PROVE  v[r] + t + 1 \in DOMAIN d /\ d[v[r] + t + 1] = Cell("vtable", r, t)
  <2> DEFINE x == t + 1
  <2>1. r \in 1 .. V /\ v[r] \in Int /\ t \in Int
    BY <1>2
  <2>2. x \in 1 .. rowSizes[r] /\ x - 1 = t
    <3>1. Len(p.vtables[r]) \in Nat /\ rowSizes[r] = 8 * Len(p.vtables[r])
      BY <1>5, <2>1
    <3>2. QED
      BY <3>1
  <2>3. p.strings + (v[r] - p.strings + x) = v[r] + t + 1
    <3>1. p.strings \in Int /\ v[r] \in Int /\ t \in Int
      BY <2>1
    <3>2. \A e, g, h \in Int : e + (g - e + (h + 1)) = g + h + 1
      OBVIOUS
    <3>3. QED
      BY <3>1, <3>2
  <2> HIDE DEF x
  <2>4. v[r] - p.strings + x \in 1 .. Len(words)
        /\ words[v[r] - p.strings + x] = Cell("vtable", r, x - 1)
    BY <1>2, <2>1, <2>2
  <2>5. QED
    BY <1>1, <2>2, <2>3, <2>4
<1>10. ASSUME NEW i \in DOMAIN d, d[i].what = "vtable"
       PROVE  /\ d[i].of \in DOMAIN p.vtables
              /\ d[i].byte \in 0 .. 8 * Len(p.vtables[d[i].of]) - 1
              /\ i = v[d[i].of] + d[i].byte + 1
  <2>1. InRow(i)
    <3>1. ~ InText(i) /\ ~ InField(i)
      BY <1>10 DEF Cell
    <3> HIDE DEF InText, InField, InRow
    <3>2. QED
      BY <1>6, <3>1
  <2>2. PICK r \in 1 .. V : \E t \in 1 .. rowSizes[r] : i = v[r] + t /\ d[i] = Cell("vtable", r, t - 1)
    BY <2>1
  <2>3. PICK t \in 1 .. rowSizes[r] : i = v[r] + t /\ d[i] = Cell("vtable", r, t - 1)
    BY <2>2
  <2>4. d[i].of = r /\ d[i].byte = t - 1
    BY <2>3 DEF Cell
  <2>5. r \in DOMAIN p.vtables /\ Len(p.vtables[r]) \in Nat /\ rowSizes[r] = 8 * Len(p.vtables[r])
        /\ v[r] \in Int
    BY <1>2, <1>5
  <2>6. t - 1 \in 0 .. 8 * Len(p.vtables[r]) - 1 /\ i = v[r] + (t - 1) + 1
    BY <2>3, <2>5
  <2>7. QED
    BY <2>4, <2>5, <2>6
<1>11. ASSUME NEW n \in 1 .. p.statics
       PROVE  s[n] + 1 \in DOMAIN d /\ d[s[n] + 1] = Cell("static", n, 0)
  <2>1. 1 \in 1 .. eights[n] /\ 1 - 1 = 0 /\ s[n] \in Int
    BY <1>3
  <2>2. s[n] - from + 1 \in 1 .. Len(fields) /\ fields[s[n] - from + 1] = Cell("static", n, 0)
    BY <1>3, <2>1
  <2>3. from + (s[n] - from + 1) = s[n] + 1
    BY <1>4, <2>1
  <2>4. QED
    BY <1>1, <2>2, <2>3
<1>12. QED
  BY <1>7, <1>8, <1>9, <1>10, <1>11 DEF DataLaid

LEMMA LayOutDataLays ==
  ASSUME TypeOK, LinkInv, LayOutData
  PROVE  DataLaid(emit'.data, prog, places'.vtables, places'.statics)
<1> DEFINE V == Len(prog.vtables)
           rowSizes == [r \in 1 .. V |-> 8 * Len(prog.vtables[r])]
           pieces   == [r \in 1 .. V |-> Cells(rowSizes[r], "vtable", r)]
           words    == FlattenSeq(pieces)
           eights   == [s \in 1 .. prog.statics |-> 8]
           singles  == [s \in 1 .. prog.statics |-> Cells(eights[s], "static", s)]
           fields   == FlattenSeq(singles)
           text     == Cells(prog.strings, "string", 0)
           v        == Offsets(prog.strings, rowSizes)
           s        == Offsets(prog.strings + Len(words), eights)
           d        == text \o words \o fields
<1>1. /\ V \in Nat /\ DOMAIN prog.vtables = 1 .. V
      /\ prog.strings \in Nat /\ prog.statics \in Nat
      /\ prog.vtables \in Seq(Seq({Hole} \cup DOMAIN prog.fns))
  BY ProgramHasItsType DEF TypeOK
<1>2. RowSizes(prog, V, rowSizes) /\ rowSizes \in [1 .. V -> Nat]
  <2>1. \A r \in 1 .. V : prog.vtables[r] \in Seq({Hole} \cup DOMAIN prog.fns)
    BY <1>1, Element
  <2>2. \A r \in 1 .. V : Len(prog.vtables[r]) \in Nat
    BY <2>1
  <2> HIDE DEF V
  <2>3. \A r \in 1 .. V : rowSizes[r] = 8 * Len(prog.vtables[r]) /\ rowSizes[r] \in Nat
    BY <2>2
  <2>4. rowSizes \in [1 .. V -> Nat]
    BY <2>3
  <2> HIDE DEF rowSizes
  <2>5. QED
    BY <2>2, <2>3, <2>4 DEF RowSizes
<1>3. "string" \in DataKinds /\ "vtable" \in DataKinds /\ "static" \in DataKinds
  BY DEF DataKinds
<1>4. eights \in [1 .. prog.statics -> Nat] /\ \A n \in 1 .. prog.statics : eights[n] = 8
  OBVIOUS
<1>5. emit'.data = d
  <2>1. singles = [n \in 1 .. prog.statics |-> Cells(8, "static", n)]
    BY <1>4
  <2>2. emit' = [emit EXCEPT !.data = text \o words \o FlattenSeq([n \in 1 .. prog.statics |-> Cells(8, "static", n)])]
    BY <1>1 DEF LayOutData
  <2>3. emit' = [emit EXCEPT !.data = d]
    BY <2>1, <2>2
  <2>4. emit \in Emitter(0)
    BY DEF TypeOK
  <2> HIDE DEF d
  <2>5. QED
    BY <2>3, <2>4 DEF Emitter
<1>6. places'.vtables = v /\ places'.statics = s
  <2>1. places' = [places EXCEPT !.vtables = v, !.statics = s]
    BY <1>1 DEF LayOutData
  <2>2. places \in [vtables : Seq(Int), statics : Seq(Int), argv : Int, exc : Int]
    BY DEF TypeOK
  <2> HIDE DEF v, s
  <2>3. QED
    BY <2>1, <2>2
<1> DEFINE D == CellOf(DataKinds)
<1>7. /\ text \in Seq(D) /\ Len(text) = prog.strings
      /\ \A i \in 1 .. prog.strings : text[i] = Cell("string", 0, i - 1)
  <2>1. 0 \in Int
    OBVIOUS
  <2>2. Cells(prog.strings, "string", 0) \in Seq(D) /\ Len(Cells(prog.strings, "string", 0)) = prog.strings
    BY <1>1, <1>3, <2>1, CellsHaveTheirType
  <2>3. \A i \in 1 .. prog.strings : Cells(prog.strings, "string", 0)[i] = Cell("string", 0, i - 1)
    BY <1>1, CellsAre
  <2>4. QED
    BY <2>2, <2>3
<1> HIDE DEF text, V, rowSizes, eights, d
<1>8. words \in Seq(D) /\ PiecesLaid(words, v, V, rowSizes, "vtable", prog.strings)
  <2>1. pieces = [r \in 1 .. V |-> Cells(rowSizes[r], "vtable", r)]
    OBVIOUS
  <2> HIDE DEF pieces
  <2>2. QED
    BY <1>1, <1>2, <1>3, <2>1, PiecesAreLaid
<1> HIDE DEF pieces, words, v
<1> DEFINE from == prog.strings + Len(words)
<1>9. Len(words) \in Nat /\ from \in Nat
  <2>1. Len(words) \in Nat
    BY <1>8
  <2>2. QED
    BY <1>1, <2>1
<1> HIDE DEF from
<1>10. fields \in Seq(D) /\ PiecesLaid(fields, s, prog.statics, eights, "static", from)
  <2>1. singles = [n \in 1 .. prog.statics |-> Cells(eights[n], "static", n)]
        /\ s = Offsets(from, eights)
    BY DEF from
  <2> HIDE DEF singles, s
  <2>2. QED
    BY <1>1, <1>3, <1>4, <1>9, <2>1, PiecesAreLaid
<1> HIDE DEF singles, fields, s
<1>11. Parts(d, text, words, fields)
  <2>1. d = text \o words \o fields
    BY DEF d
  <2> HIDE DEF D
  <2>2. QED
    BY <1>7, <1>8, <1>10, <2>1, ThreeParts
<1>12. DataLaid(d, prog, v, s)
  <2>1. from = prog.strings + Len(words)
    BY DEF from
  <2>2. QED
    BY <1>1, <1>2, <1>4, <1>7, <1>8, <1>9, <1>10, <1>11, <2>1, DataIsLaid
<1>13. QED
  BY <1>5, <1>6, <1>12

LEMMA LayOutDataLinks ==
  ASSUME TypeOK, LinkInv, LayOutData
  PROVE  LinkInv'
<1>1. phase' = "functions" /\ UNCHANGED <<prog, mode, starts, helperAt>>
  BY DEF LayOutData
<1>2. /\ emit.code = <<>> /\ emit.relocs = <<>> /\ emit.calls = <<>> /\ starts = <<>>
      /\ emit.jumps = <<>> /\ uses = {}
  BY DEF LinkInv, LayOutData
<1>3. /\ emit'.code = <<>> /\ emit'.relocs = <<>> /\ emit'.calls = <<>> /\ emit'.jumps = <<>>
  <2>1. \E d : emit' = [emit EXCEPT !.data = d]
    BY DEF LayOutData
  <2>2. emit \in Emitter(0)
    BY DEF TypeOK
  <2>3. QED
    BY <1>2, <2>1, <2>2 DEF Emitter
<1>4. uses' = (IF Ops(prog) \cap ExcOps # {} THEN {"exc"} ELSE {})
              \cup (IF "BuildArgv" \in Ops(prog) THEN {"argv"} ELSE {})
  BY DEF LayOutData
<1>5. DataLaid(emit'.data, prog, places'.vtables, places'.statics)
  BY LayOutDataLays
<1>6. Sound(emit', 0, prog, places'.vtables, uses') /\ Plain(emit'.code)
  BY <1>3 DEF Sound, Plain
<1>7. StartsLaid(emit'.code, starts')
  BY <1>1, <1>2, <1>3 DEF StartsLaid
<1>8. UsesCover(prog, uses')
  <2>1. /\ Ops(prog) \cap ExcOps # {} => "exc" \in uses'
        /\ "BuildArgv" \in Ops(prog) => "argv" \in uses'
    BY <1>4
  <2>2. uses' \subseteq {"exc", "argv"}
    BY <1>4
  <2>3. uses' \cap {"Alloc", "Release"} = {}
    BY <2>2
  <2>4. QED
    BY <2>1, <2>3 DEF UsesCover
<1>9. SoFar(emit', starts', prog', places', uses')
  BY <1>1, <1>3, <1>5, <1>6, <1>7, <1>8 DEF SoFar
<1>10. QED
  BY <1>1, <1>6, <1>9 DEF LinkInv, Lowering

-----------------------------------------------------------------------------
(* The helpers that are used are appended, each once.                      *)
OneToOne(s) == \A k, l \in DOMAIN s : s[k] = s[l] => k = l

LEMMA PlainHelperNames ==
  /\ DOMAIN PlainHelpers = 1 .. 6 /\ OneToOne(PlainHelpers)
  /\ \A k \in 1 .. 6 : PlainHelpers[k] \in Helpers
  /\ ToSet(PlainHelpers) = {"Itoa", "ItoaErr", "ScanInt", "Retain", "Release", "Alloc"}
<1>1. DOMAIN PlainHelpers = 1 .. 6
  BY DEF PlainHelpers
<1>2. /\ PlainHelpers[1] = "Itoa" /\ PlainHelpers[2] = "ItoaErr" /\ PlainHelpers[3] = "ScanInt"
      /\ PlainHelpers[4] = "Retain" /\ PlainHelpers[5] = "Release" /\ PlainHelpers[6] = "Alloc"
  BY DEF PlainHelpers
<1>3. \A k \in 1 .. 6 : k = 1 \/ k = 2 \/ k = 3 \/ k = 4 \/ k = 5 \/ k = 6
  OBVIOUS
<1>4. \A k, l \in 1 .. 6 : PlainHelpers[k] = PlainHelpers[l] => k = l
  BY <1>2, <1>3
<1>5. \A k \in 1 .. 6 : PlainHelpers[k] \in Helpers
  BY <1>2, <1>3 DEF Helpers
<1>6. ToSet(PlainHelpers) = {"Itoa", "ItoaErr", "ScanInt", "Retain", "Release", "Alloc"}
  BY PlainHelperSet
<1>7. QED
  BY <1>1, <1>4, <1>5, <1>6 DEF OneToOne

LEMMA ExcHelpersOnce ==
  /\ ExcHelpers \in Seq(Helpers) /\ Len(ExcHelpers) = 6 /\ DOMAIN ExcHelpers = 1 .. 6
  /\ OneToOne(ExcHelpers)
<1>1. ExcHelpers \in Seq(Helpers) /\ Len(ExcHelpers) = 6 /\ DOMAIN ExcHelpers = 1 .. 6
  BY DEF ExcHelpers, Helpers
<1>2. /\ ExcHelpers[1] = "ExcEnter" /\ ExcHelpers[2] = "ExcPop" /\ ExcHelpers[3] = "ExcLoad"
      /\ ExcHelpers[4] = "ExcClear" /\ ExcHelpers[5] = "ExcThrow" /\ ExcHelpers[6] = "ExcRethrow"
  BY DEF ExcHelpers
<1>3. \A k \in 1 .. 6 : k = 1 \/ k = 2 \/ k = 3 \/ k = 4 \/ k = 5 \/ k = 6
  OBVIOUS
<1>4. \A k, l \in 1 .. 6 : ExcHelpers[k] = ExcHelpers[l] => k = l
  BY <1>2, <1>3
<1>5. QED
  BY <1>1, <1>4 DEF OneToOne

LEMMA OneToOneJoined ==
  ASSUME NEW S, NEW a \in Seq(S), NEW b \in Seq(S), OneToOne(a), OneToOne(b),
         ToSet(a) \cap ToSet(b) = {}
  PROVE  OneToOne(a \o b) /\ ToSet(a \o b) = ToSet(a) \cup ToSet(b)
<1>0. \A k \in DOMAIN a : \A l \in DOMAIN b : a[k] # b[l]
  BY DEF ToSet
<1>1. PICK c : c = a \o b /\ c \in Seq(S) /\ Follows(a, b, c)
  BY Joined
<1>2. /\ Len(a) \in Nat /\ DOMAIN a = 1 .. Len(a) /\ Len(b) \in Nat /\ DOMAIN b = 1 .. Len(b)
      /\ Len(c) = Len(a) + Len(b) /\ DOMAIN c = 1 .. Len(c)
      /\ \A i \in 1 .. Len(a) : c[i] = a[i]
      /\ \A i \in 1 .. Len(b) : c[Len(a) + i] = b[i]
  BY <1>1 DEF Follows, Grown
<1>3. \A k \in DOMAIN c : k \in DOMAIN a \/ (k - Len(a) \in DOMAIN b /\ k = Len(a) + (k - Len(a)))
  BY <1>2
<1>4. \A k \in DOMAIN a : k \in DOMAIN c
  BY <1>2
<1>5. \A k \in DOMAIN b : Len(a) + k \in DOMAIN c
  BY <1>2
<1>6. ASSUME NEW k \in DOMAIN c, NEW l \in DOMAIN c, c[k] = c[l]
      PROVE  k = l
  <2>1. CASE k \in DOMAIN a /\ l \in DOMAIN a
    BY <1>2, <1>6, <2>1 DEF OneToOne
  <2>2. CASE k \notin DOMAIN a /\ l \notin DOMAIN a
    <3>1. /\ k - Len(a) \in DOMAIN b /\ l - Len(a) \in DOMAIN b
          /\ b[k - Len(a)] = c[k] /\ b[l - Len(a)] = c[l]
      BY <1>2, <1>3, <2>2
    <3>2. k - Len(a) = l - Len(a)
      BY <1>6, <3>1 DEF OneToOne
    <3>3. QED
      BY <1>2, <3>2
  <2>3. CASE k \in DOMAIN a /\ l \notin DOMAIN a
    <3>1. l - Len(a) \in DOMAIN b /\ b[l - Len(a)] = c[l] /\ a[k] = c[k]
      BY <1>2, <1>3, <2>3
    <3>2. QED
      BY <1>0, <1>6, <2>3, <3>1
  <2>4. CASE k \notin DOMAIN a /\ l \in DOMAIN a
    <3>1. k - Len(a) \in DOMAIN b /\ b[k - Len(a)] = c[k] /\ a[l] = c[l]
      BY <1>2, <1>3, <2>4
    <3>2. QED
      BY <1>0, <1>6, <2>4, <3>1
  <2>5. QED
    BY <2>1, <2>2, <2>3, <2>4
<1>7. ToSet(c) = ToSet(a) \cup ToSet(b)
  <2>1. ASSUME NEW k \in DOMAIN c
        PROVE  c[k] \in ToSet(a) \cup ToSet(b)
    <3>1. CASE k \in DOMAIN a
      BY <1>2, <3>1 DEF ToSet
    <3>2. CASE k \notin DOMAIN a
      <4>1. k - Len(a) \in DOMAIN b /\ b[k - Len(a)] = c[k]
        BY <1>2, <1>3, <3>2
      <4>2. QED
        BY <4>1 DEF ToSet
    <3>3. QED
      BY <3>1, <3>2
  <2>2. ASSUME NEW k \in DOMAIN a
        PROVE  a[k] \in ToSet(c)
    BY <1>2, <1>4 DEF ToSet
  <2>3. ASSUME NEW k \in DOMAIN b
        PROVE  b[k] \in ToSet(c)
    <3>1. Len(a) + k \in DOMAIN c /\ c[Len(a) + k] = b[k]
      BY <1>2, <1>5
    <3>2. QED
      BY <3>1 DEF ToSet
  <2>4. QED
    BY <2>1, <2>2, <2>3 DEF ToSet
<1>8. QED
  BY <1>1, <1>6, <1>7 DEF OneToOne

(* Those of some names that are chosen, in their order.                    *)
Chosen(s, chosen) == [k \in DOMAIN s |-> IF s[k] \in chosen THEN <<s[k]>> ELSE <<>>]

LEMMA ChosenOnce ==
  ASSUME NEW S, NEW N \in Nat, NEW s \in Seq(S), Len(s) = N, OneToOne(s), NEW chosen
  PROVE  /\ FlattenSeq(Chosen(s, chosen)) \in Seq(S)
         /\ OneToOne(FlattenSeq(Chosen(s, chosen)))
         /\ ToSet(FlattenSeq(Chosen(s, chosen))) = ToSet(s) \cap chosen
<1> DEFINE ones  == Chosen(s, chosen)
           flat  == FlattenSeq(ones)
           sizes == [k \in 1 .. N |-> IF s[k] \in chosen THEN 1 ELSE 0]
           at    == Offsets(0, sizes)
<1>0. /\ \A k \in 1 .. N : s[k] \in S
      /\ \A k, l \in 1 .. N : s[k] = s[l] => k = l
      /\ DOMAIN s = 1 .. N
      /\ ones = [k \in 1 .. N |-> IF s[k] \in chosen THEN <<s[k]>> ELSE <<>>]
  BY DEF OneToOne, Chosen
<1> HIDE DEF ones
<1>1. \A k \in 1 .. N : /\ ones[k] \in Seq(S) /\ Len(ones[k]) = sizes[k]
                        /\ s[k] \in chosen => ones[k][1] = s[k]
  <2>1. ASSUME NEW k \in 1 .. N
        PROVE  ones[k] \in Seq(S) /\ Len(ones[k]) = sizes[k] /\ (s[k] \in chosen => ones[k][1] = s[k])
    <3>1. CASE s[k] \in chosen
      <4>1. ones[k] = <<s[k]>> /\ sizes[k] = 1
        BY <1>0, <3>1
      <4>2. <<s[k]>> \in Seq(S) /\ Len(<<s[k]>>) = 1 /\ <<s[k]>>[1] = s[k]
        BY <1>0
      <4>3. QED
        BY <4>1, <4>2
    <3>2. CASE s[k] \notin chosen
      <4>1. ones[k] = <<>> /\ sizes[k] = 0
        BY <1>0, <3>2
      <4>2. <<>> \in Seq(S) /\ Len(<<>>) = 0
        OBVIOUS
      <4>3. QED
        BY <3>2, <4>1, <4>2
    <3>3. QED
      BY <3>1, <3>2
  <2>2. QED
    BY <2>1
<1>2. ones \in Seq(Seq(S)) /\ Len(ones) = N
  <2>1. ones \in [1 .. N -> Seq(S)]
    BY <1>0, <1>1
  <2>2. QED
    BY <2>1, FunctionIsSequence
<1>3. flat \in Seq(S) /\ DOMAIN flat = 1 .. Len(flat)
  <2>1. flat \in Seq(S)
    BY <1>2, Flatten
  <2> HIDE DEF flat
  <2>2. QED
    BY <2>1
<1>4. /\ sizes \in [1 .. N -> Int]
      /\ \A k \in 1 .. N : sizes[k] \in {0, 1} /\ (sizes[k] = 1 <=> s[k] \in chosen)
  OBVIOUS
<1> HIDE DEF sizes, flat
<1>5. LaidOut(flat, ones, at, 0)
  <2>1. sizes \in [1 .. Len(ones) -> Int] /\ 0 \in Int
        /\ \A k \in 1 .. Len(ones) : sizes[k] = Len(ones[k])
    BY <1>1, <1>2, <1>4
  <2>2. QED
    BY <1>2, <2>1, FlattenPlaces DEF flat
<1> HIDE DEF at
<1>6. ASSUME NEW i \in DOMAIN flat
      PROVE  \E k \in 1 .. N : i = at[k] - 0 + 1 /\ flat[i] = s[k] /\ s[k] \in chosen
  <2>1. PICK k \in 1 .. N : \E t \in 1 .. Len(ones[k]) : i = at[k] - 0 + t
    BY <1>2, <1>3, <1>5 DEF LaidOut
  <2>2. PICK t \in 1 .. Len(ones[k]) : i = at[k] - 0 + t
    BY <2>1
  <2>3. t = 1 /\ s[k] \in chosen /\ ones[k][1] = s[k]
    BY <1>1, <1>4
  <2>4. flat[i] = ones[k][t]
    BY <1>2, <1>5, <2>2 DEF LaidOut
  <2>5. QED
    BY <2>2, <2>3, <2>4
<1>7. ASSUME NEW k \in 1 .. N, s[k] \in chosen
      PROVE  \E i \in DOMAIN flat : flat[i] = s[k]
  <2>1. 1 \in 1 .. Len(ones[k]) /\ ones[k][1] = s[k] /\ k \in 1 .. Len(ones)
    BY <1>1, <1>2, <1>4, <1>7
  <2>2. at[k] - 0 + 1 \in 1 .. Len(flat) /\ flat[at[k] - 0 + 1] = ones[k][1]
    BY <1>5, <2>1 DEF LaidOut
  <2>3. QED
    BY <1>3, <2>1, <2>2
<1>8. ASSUME NEW i \in DOMAIN flat, NEW l \in DOMAIN flat, flat[i] = flat[l]
      PROVE  i = l
  <2>1. PICK k \in 1 .. N : i = at[k] - 0 + 1 /\ flat[i] = s[k]
    BY <1>6
  <2>2. PICK m \in 1 .. N : l = at[m] - 0 + 1 /\ flat[l] = s[m]
    BY <1>6
  <2>3. k = m
    BY <1>0, <1>8, <2>1, <2>2
  <2>4. QED
    BY <2>1, <2>2, <2>3
<1>9. ToSet(flat) = ToSet(s) \cap chosen
  <2>1. \A i \in DOMAIN flat : flat[i] \in ToSet(s) /\ flat[i] \in chosen
    BY <1>0, <1>6 DEF ToSet
  <2>2. \A k \in DOMAIN s : s[k] \in chosen => s[k] \in ToSet(flat)
    BY <1>0, <1>7 DEF ToSet
  <2>3. QED
    BY <2>1, <2>2 DEF ToSet
<1>10. QED
  BY <1>3, <1>8, <1>9 DEF OneToOne, flat, ones

LEMMA AppendedAre ==
  /\ Appended \in Seq(Helpers) /\ OneToOne(Appended)
  /\ ToSet(Appended) = (ToSet(PlainHelpers) \cap uses)
                         \cup (IF "exc" \in uses THEN ToSet(ExcHelpers) ELSE {})
<1> DEFINE flat == FlattenSeq(Chosen(PlainHelpers, uses))
           exc  == IF "exc" \in uses THEN ExcHelpers ELSE <<>>
<1>1. Appended = flat \o exc
  BY PlainHelperNames DEF Appended, Chosen
<1>2. PlainHelpers \in Seq(Helpers) /\ Len(PlainHelpers) = 6 /\ OneToOne(PlainHelpers)
  BY PlainHelperNames DEF PlainHelpers, Helpers
<1>3. 6 \in Nat
  OBVIOUS
<1>4. /\ flat \in Seq(Helpers) /\ OneToOne(flat)
      /\ ToSet(flat) = ToSet(PlainHelpers) \cap uses
  BY <1>2, <1>3, ChosenOnce
<1> HIDE DEF flat
<1>5. /\ exc \in Seq(Helpers) /\ OneToOne(exc)
      /\ ToSet(exc) = IF "exc" \in uses THEN ToSet(ExcHelpers) ELSE {}
  <2>1. CASE "exc" \in uses
    BY <2>1, ExcHelpersOnce
  <2>2. CASE "exc" \notin uses
    <3>1. exc = <<>> /\ <<>> \in Seq(Helpers)
      BY <2>2
    <3>2. DOMAIN <<>> = {}
      OBVIOUS
    <3> HIDE DEF exc
    <3>3. QED
      BY <2>2, <3>1, <3>2 DEF OneToOne, ToSet
  <2>3. QED
    BY <2>1, <2>2
<1> HIDE DEF exc
<1>6. ToSet(flat) \cap ToSet(exc) = {}
  <2>1. ToSet(flat) \subseteq ToSet(PlainHelpers) /\ ToSet(exc) \subseteq ToSet(ExcHelpers)
    BY <1>4, <1>5
  <2>2. ToSet(PlainHelpers) \cap ToSet(ExcHelpers) = {}
    BY PlainHelperNames, ExcHelperNames
  <2>3. QED
    BY <2>1, <2>2
<1>7. OneToOne(Appended) /\ ToSet(Appended) = ToSet(flat) \cup ToSet(exc)
  BY <1>1, <1>4, <1>5, <1>6, OneToOneJoined
<1>8. QED
  BY <1>4, <1>5, <1>7, AppendedHasItsType

HelperPieces(pieces, s, N) ==
  \A k \in 1 .. N : /\ s[k] \in Helpers /\ Len(pieces[k]) = Size[s[k]]
                    /\ \A t \in 1 .. Size[s[k]] : pieces[k][t] = Cell(s[k], 0, t - 1)

HelperPlaces(where, at, s, N) ==
  \A h \in Helpers : IF h \in ToSet(s) THEN \E k \in 1 .. N : s[k] = h /\ where[h] = at[k]
                     ELSE where[h] = None

HelperLayout(S, c, flat, N, s, at, pieces, where) ==
  /\ c \in Seq(S) /\ flat \in Seq(S) /\ Plain(c) /\ N \in Nat /\ DOMAIN s = 1 .. N /\ OneToOne(s)
  /\ \A k \in 1 .. N : at[k] \in Int
  /\ Len(pieces) = N /\ HelperPieces(pieces, s, N)
  /\ LaidOut(flat, pieces, at, Len(c)) /\ HelperPlaces(where, at, s, N)

LEMMA HelpersAreLaid ==
  ASSUME NEW S, NEW c, NEW flat, NEW N, NEW s, NEW at, NEW pieces, NEW where,
         HelperLayout(S, c, flat, N, s, at, pieces, where)
  PROVE  /\ HelpersLaid(c \o flat, where)
         /\ \A h \in Helpers : where[h] # None <=> h \in ToSet(s)
<1> SUFFICES ASSUME c \in Seq(S), flat \in Seq(S), Plain(c), N \in Nat, DOMAIN s = 1 .. N,
                    OneToOne(s), \A k \in 1 .. N : at[k] \in Int,
                    Len(pieces) = N, HelperPieces(pieces, s, N),
                    LaidOut(flat, pieces, at, Len(c)), HelperPlaces(where, at, s, N)
             PROVE  /\ HelpersLaid(c \o flat, where)
                    /\ \A h \in Helpers : where[h] # None <=> h \in ToSet(s)
  BY DEF HelperLayout
<1>1. PICK d : d = c \o flat /\ d \in Seq(S) /\ Follows(c, flat, d)
  BY Joined
<1>2. /\ Len(c) \in Nat /\ DOMAIN c = 1 .. Len(c) /\ Len(flat) \in Nat
      /\ Len(d) = Len(c) + Len(flat) /\ DOMAIN d = 1 .. Len(d)
      /\ \A i \in 1 .. Len(c) : d[i] = c[i]
      /\ \A i \in 1 .. Len(flat) : d[Len(c) + i] = flat[i]
  BY <1>1 DEF Follows, Grown
<1>3. /\ \A k \in 1 .. N : s[k] \in Helpers
      /\ \A k \in 1 .. N : Len(pieces[k]) = Size[s[k]] /\ Size[s[k]] \in Nat \ {0}
      /\ \A k \in 1 .. N : \A t \in 1 .. Size[s[k]] : pieces[k][t] = Cell(s[k], 0, t - 1)
  BY SizeAssumption DEF HelperPieces
<1>4. ASSUME NEW k \in 1 .. N, NEW t \in 1 .. Size[s[k]]
      PROVE  /\ at[k] - Len(c) + t \in 1 .. Len(flat) /\ at[k] + t \in DOMAIN d
             /\ d[at[k] + t] = Cell(s[k], 0, t - 1)
  <2>1. k \in 1 .. Len(pieces) /\ t \in 1 .. Len(pieces[k])
    BY <1>3
  <2>2. at[k] - Len(c) + t \in 1 .. Len(flat) /\ flat[at[k] - Len(c) + t] = pieces[k][t]
    BY <2>1 DEF LaidOut
  <2>3. at[k] + t = Len(c) + (at[k] - Len(c) + t) /\ at[k] + t \in DOMAIN d
    <3>1. at[k] \in Int /\ t \in Int
      BY <1>3
    <3>2. QED
      <4>1. PICK l : l = Len(c) + (at[k] - Len(c) + t)
        OBVIOUS
      <4>2. Len(c) \in Int /\ \A e, g, h \in Int : e + (g - e + h) = g + h
        BY <1>2
      <4>3. at[k] + t = l
        BY <3>1, <4>1, <4>2
      <4>4. PICK x \in 1 .. Len(flat) : x = at[k] - Len(c) + t
        BY <2>2
      <4>5. l = Len(c) + x
        BY <4>1, <4>4
      <4>6. Len(c) + x \in DOMAIN d
        BY <1>2
      <4>7. QED
        BY <4>1, <4>3, <4>5, <4>6
  <2>4. QED
    BY <1>2, <1>3, <2>2, <2>3
<1>5. \A k \in 1 .. N : at[k] # None
  <2>1. ASSUME NEW k \in 1 .. N
        PROVE  at[k] # None
    <3>1. 1 \in 1 .. Size[s[k]]
      BY <1>3
    <3>2. at[k] - Len(c) + 1 \in 1 .. Len(flat)
      BY <1>4, <3>1
    <3>3. at[k] >= 0
      BY <1>2, <3>2
    <3>4. QED
      BY <3>3 DEF None
  <2>2. QED
    BY <2>1
<1>6. \A h \in Helpers : where[h] # None <=> h \in ToSet(s)
  BY <1>5 DEF HelperPlaces
<1>7. \A h \in Helpers : where[h] # None => \E k \in 1 .. N : s[k] = h /\ where[h] = at[k]
  BY <1>6 DEF HelperPlaces
<1>8. \A k \in 1 .. N : where[s[k]] = at[k]
  <2>1. ASSUME NEW k \in 1 .. N
        PROVE  where[s[k]] = at[k]
    <3>1. s[k] \in Helpers /\ s[k] \in ToSet(s)
      BY <1>3 DEF ToSet
    <3>2. PICK l \in 1 .. N : s[l] = s[k] /\ where[s[k]] = at[l]
      BY <3>1 DEF HelperPlaces
    <3>3. QED
      BY <3>2 DEF OneToOne
  <2>2. QED
    BY <2>1
<1>9. ASSUME NEW h \in Helpers, where[h] # None, NEW t \in 0 .. Size[h] - 1
      PROVE  where[h] + t + 1 \in DOMAIN d /\ d[where[h] + t + 1] = Cell(h, 0, t)
  <2>1. PICK k \in 1 .. N : s[k] = h /\ where[h] = at[k]
    BY <1>7, <1>9
  <2>2. t + 1 \in 1 .. Size[h] /\ (t + 1) - 1 = t
    BY <1>3, <2>1
  <2>3. at[k] + (t + 1) \in DOMAIN d /\ d[at[k] + (t + 1)] = Cell(h, 0, t)
    BY <1>4, <2>1, <2>2
  <2>4. at[k] + (t + 1) = where[h] + t + 1
    <3>1. at[k] \in Int /\ t \in Int
      BY <1>3, <2>1
    <3>2. QED
      <4>1. \A x, y \in Int : x + (y + 1) = x + y + 1
        OBVIOUS
      <4>2. QED
        BY <2>1, <3>1, <4>1
  <2>5. QED
    BY <2>3, <2>4
<1>10. ASSUME NEW i \in DOMAIN d, d[i].what \in Helpers
       PROVE  /\ where[d[i].what] # None /\ d[i].byte \in 0 .. Size[d[i].what] - 1
              /\ i = where[d[i].what] + d[i].byte + 1
  <2>1. i \notin 1 .. Len(c)
    BY <1>2, <1>10 DEF Plain
  <2>2. i - Len(c) \in 1 .. Len(flat)
    BY <1>2, <2>1
  <2>3. PICK k \in 1 .. N : \E t \in 1 .. Len(pieces[k]) : i - Len(c) = at[k] - Len(c) + t
    BY <2>2 DEF LaidOut
  <2>4. PICK t \in 1 .. Size[s[k]] : i - Len(c) = at[k] - Len(c) + t
    BY <1>3, <2>3
  <2>5. i = at[k] + t /\ t \in Int
    <3>1. PICK o \in Int : o = at[k]
      OBVIOUS
    <3>0. Len(c) \in Int
      BY <1>2
    <3>2. PICK l \in Int : l = Len(c)
      BY <3>0
    <3>3. i \in Int /\ t \in Int
      BY <1>2, <1>3
    <3>4. i - l = o - l + t
      BY <2>4, <3>1, <3>2
    <3>5. i = o + t
      BY <3>3, <3>4
    <3>6. QED
      BY <3>1, <3>3, <3>5
  <2>6. d[i] = Cell(s[k], 0, t - 1)
    BY <1>4, <2>5
  <2>7. d[i].what = s[k] /\ d[i].byte = t - 1
    BY <2>6 DEF Cell
  <2>8. where[d[i].what] = at[k] /\ at[k] # None
    BY <1>5, <1>8, <2>7
  <2>9. t - 1 \in 0 .. Size[s[k]] - 1
    BY <1>3
  <2>10. QED
    BY <2>5, <2>7, <2>8, <2>9
<1>11. HelpersLaid(d, where)
  BY <1>9, <1>10 DEF HelpersLaid
<1>12. QED
  BY <1>1, <1>6, <1>11

(* Code that other code follows keeps its operands when none is opened.    *)
NoOpcode(c) == \A i \in DOMAIN c : c[i].what # "op"
SameOpen(e, f) == f.relocs = e.relocs /\ f.calls = e.calls /\ f.jumps = e.jumps

LEMMA FollowedIsSound ==
  ASSUME NEW S, NEW flat \in Seq(S), NEW e, NEW f, e.code \in Seq(S), f.code = e.code \o flat,
         SameOpen(e, f), NoOpcode(flat), NEW j, NEW p, NEW v, NEW u, Sound(e, j, p, v, u)
  PROVE  Sound(f, j, p, v, u)
<1>0. PICK c \in Seq(S) : c = e.code /\ f.code = c \o flat
  OBVIOUS
<1>1. PICK d : d = c \o flat /\ d \in Seq(S) /\ Follows(c, flat, d)
  BY Joined
<1>2. /\ Len(c) \in Nat /\ DOMAIN c = 1 .. Len(c) /\ Len(flat) \in Nat
      /\ DOMAIN flat = 1 .. Len(flat)
      /\ Len(d) = Len(c) + Len(flat) /\ DOMAIN d = 1 .. Len(d)
      /\ \A i \in 1 .. Len(flat) : d[Len(c) + i] = flat[i]
  BY <1>1 DEF Follows, Grown
<1>3. f.code = d /\ Grown(c, d) /\ Kept(c, d)
  BY <1>0, <1>1, GrownIsKept DEF Follows
<1>4. \A r : /\ RelocFits(r, c, p, v, u) => RelocFits(r, d, p, v, u)
             /\ CallFits(r, c, p, v, u) => CallFits(r, d, p, v, u)
             /\ JumpFits(r, c, j) => JumpFits(r, d, j)
  BY <1>1, <1>3, FitsKept
<1>5. ASSUME NEW q \in DOMAIN d, Opens(d, q)
      PROVE  Served(f, q)
  <2>1. q \in 1 .. Len(c)
    <3>1. CASE q \notin 1 .. Len(c)
      <4>1. q - Len(c) \in 1 .. Len(flat) /\ q = Len(c) + (q - Len(c))
        BY <1>2, <3>1
      <4>2. d[q].what # "op"
        BY <1>2, <4>1 DEF NoOpcode
      <4>3. QED
        BY <1>5, <4>2 DEF Opens
    <3>2. QED
      BY <3>1
  <2>2. \A r \in DOMAIN e.code : Opens(e.code, r) => Served(e, r)
    BY DEF Sound
  <2>3. f.code \in Seq(S) /\ e.code \in Seq(S) /\ Grown(e.code, f.code) /\ Opens(f.code, q)
    BY <1>0, <1>1, <1>3, <1>5
  <2>4. q \in 1 .. Len(e.code)
    BY <1>0, <2>1
  <2>5. QED
    BY <2>2, <2>3, <2>4, ServedKept DEF SameOpen
<1>6. QED
  BY <1>0, <1>3, <1>4, <1>5 DEF Sound, SameOpen

(* The slots follow the data.                                              *)
LEMMA SlotsAreLaid ==
  ASSUME NEW S, NEW d \in Seq(S), NEW argv \in Seq(S), NEW exc \in Seq(S),
         NEW p, NEW v, NEW s, DataLaid(d, p, v, s),
         \A i \in 1 .. Len(argv) : argv[i] = Cell("argv", 0, i - 1),
         \A i \in 1 .. Len(exc)  : exc[i] = Cell("exc", 0, i - 1),
         NEW pl, NEW u, "argv" \in u => Len(argv) > 0 /\ pl.argv = Len(d),
         "exc" \in u => Len(exc) > 0 /\ pl.exc = Len(d) + Len(argv)
  PROVE  DataLaid(d \o argv \o exc, p, v, s) /\ SlotsLaid(d \o argv \o exc, pl, u)
<1> DEFINE e == d \o argv \o exc
<1>1. Parts(e, d, argv, exc)
  BY ThreeParts
<1>2. /\ Len(d) \in Nat /\ Len(argv) \in Nat /\ Len(exc) \in Nat /\ DOMAIN d = 1 .. Len(d)
  OBVIOUS
<1> HIDE DEF e
<1>3. \A i \in DOMAIN d : i \in DOMAIN e /\ e[i] = d[i]
  BY <1>1, <1>2 DEF Parts
<1>4. ASSUME NEW i \in DOMAIN e, i \notin DOMAIN d
      PROVE  e[i].part = None /\ e[i].what # "vtable"
  <2>1. CASE \E t \in 1 .. Len(argv) : i = Len(d) + t
    <3>1. PICK t \in 1 .. Len(argv) : e[i] = argv[t]
      BY <1>1, <2>1 DEF Parts
    <3>2. argv[t] = Cell("argv", 0, t - 1)
      OBVIOUS
    <3>3. QED
      BY <3>1, <3>2 DEF Cell
  <2>2. CASE \E t \in 1 .. Len(exc) : i = Len(d) + Len(argv) + t
    <3>1. PICK t \in 1 .. Len(exc) : e[i] = exc[t]
      <4>1. PICK t \in 1 .. Len(exc) : i = Len(d) + Len(argv) + t
        BY <2>2
      <4>2. e[Len(d) + Len(argv) + t] = exc[t]
        BY <1>1 DEF Parts
      <4>3. QED
        BY <4>1, <4>2
    <3>2. exc[t] = Cell("exc", 0, t - 1)
      OBVIOUS
    <3>3. QED
      BY <3>1, <3>2 DEF Cell
  <2>3. QED
    BY <1>1, <1>2, <1>4, <2>1, <2>2 DEF Parts
<1>5. DataLaid(e, p, v, s)
  <2>1. \A i \in DOMAIN e : e[i].part = None
    BY <1>3, <1>4 DEF DataLaid
  <2>2. \A n \in 0 .. p.strings - 1 : n + 1 \in DOMAIN e /\ e[n + 1] = Cell("string", 0, n)
    BY <1>3 DEF DataLaid
  <2>3. \A r \in DOMAIN p.vtables : \A t \in 0 .. 8 * Len(p.vtables[r]) - 1 :
          v[r] + t + 1 \in DOMAIN e /\ e[v[r] + t + 1] = Cell("vtable", r, t)
    BY <1>3 DEF DataLaid
  <2>4. \A i \in DOMAIN e : e[i].what = "vtable" =>
          /\ e[i].of \in DOMAIN p.vtables
          /\ e[i].byte \in 0 .. 8 * Len(p.vtables[e[i].of]) - 1
          /\ i = v[e[i].of] + e[i].byte + 1
    <3>1. ASSUME NEW i \in DOMAIN e, e[i].what = "vtable"
          PROVE  /\ e[i].of \in DOMAIN p.vtables
                 /\ e[i].byte \in 0 .. 8 * Len(p.vtables[e[i].of]) - 1
                 /\ i = v[e[i].of] + e[i].byte + 1
      <4>1. i \in DOMAIN d /\ e[i] = d[i]
        BY <1>3, <1>4, <3>1
      <4>2. QED
        BY <3>1, <4>1 DEF DataLaid
    <3>2. QED
      BY <3>1
  <2>5. \A n \in 1 .. p.statics : s[n] + 1 \in DOMAIN e /\ e[s[n] + 1] = Cell("static", n, 0)
    BY <1>3 DEF DataLaid
  <2>6. QED
    BY <2>1, <2>2, <2>3, <2>4, <2>5 DEF DataLaid
<1>6. SlotsLaid(e, pl, u)
  <2>1. ASSUME "argv" \in u
        PROVE  pl.argv # None /\ pl.argv + 1 \in DOMAIN e /\ e[pl.argv + 1] = Cell("argv", 0, 0)
    <3>1. 1 \in 1 .. Len(argv) /\ pl.argv = Len(d)
      BY <1>2, <2>1
    <3>2. argv[1] = Cell("argv", 0, 1 - 1)
      BY <3>1
    <3>3. 1 - 1 = 0 /\ pl.argv # None
      BY <1>2, <3>1 DEF None
    <3>4. QED
      BY <1>1, <3>1, <3>2, <3>3 DEF Parts
  <2>2. ASSUME "exc" \in u
        PROVE  pl.exc + 1 \in DOMAIN e /\ e[pl.exc + 1] = Cell("exc", 0, 0)
    <3>1. 1 \in 1 .. Len(exc) /\ pl.exc = Len(d) + Len(argv)
      BY <1>2, <2>2
    <3>2. exc[1] = Cell("exc", 0, 1 - 1)
      BY <3>1
    <3>3. 1 - 1 = 0
      OBVIOUS
    <3>4. QED
      BY <1>1, <3>1, <3>2, <3>3 DEF Parts
  <2>3. QED
    BY <2>1, <2>2 DEF SlotsLaid
<1>7. QED
  BY <1>5, <1>6 DEF e

LEMMA StartsFollowed ==
  ASSUME NEW S, NEW c \in Seq(S), NEW d \in Seq(S), Grown(c, d), NEW s, s # <<>>, StartsLaid(c, s)
  PROVE  StartsLaid(d, s)
<1>1. Len(c) \in Nat /\ DOMAIN c = 1 .. Len(c) /\ Len(d) \in Nat /\ DOMAIN d = 1 .. Len(d)
  OBVIOUS
<1>2. \A i \in DOMAIN c : i \in DOMAIN d /\ d[i] = c[i]
  BY <1>1 DEF Grown
<1>3. QED
  BY <1>2 DEF StartsLaid

LEMMA AppendHelpersLinks ==
  ASSUME NamesExist, TypeOK, LinkInv, AppendHelpers
  PROVE  LinkInv'
<1> DEFINE N      == Len(Appended)
           sizes  == [k \in DOMAIN Appended |-> Size[Appended[k]]]
           at     == Offsets(Len(emit.code), sizes)
           argv   == IF "argv" \in uses THEN Cells(8, "argv", 0) ELSE <<>>
           exc    == IF "exc" \in uses THEN Cells(ExcSize, "exc", 0) ELSE <<>>
           pieces == [k \in DOMAIN at |-> Cells(Size[Appended[k]], Appended[k], 0)]
           flat   == FlattenSeq(pieces)
           C      == CellOf(CodeKinds)
           D      == CellOf(DataKinds)
<1>1. /\ phase = "functions" /\ phase' = "relocs" /\ Len(starts) = Len(prog.fns)
      /\ UNCHANGED <<prog, mode, starts, uses>>
  BY DEF AppendHelpers
<1>2. /\ SoFar(emit, starts, prog, places, uses) /\ Plain(emit.code) /\ Exists(prog)
      /\ emit.code \in Seq(C) /\ emit.data \in Seq(D)
  BY <1>1 DEF LinkInv, NamesExist, TypeOK, Emitter
<1>3. /\ N \in Nat /\ DOMAIN Appended = 1 .. N /\ OneToOne(Appended)
      /\ \A k \in 1 .. N : Appended[k] \in Helpers /\ Size[Appended[k]] \in Nat \ {0}
  <2>1. Appended \in Seq(Helpers)
    BY AppendedHasItsType
  <2>2. N \in Nat /\ DOMAIN Appended = 1 .. N
    BY <2>1
  <2>3. \A k \in 1 .. N : Appended[k] \in Helpers
    BY <2>1, <2>2, Element
  <2>4. QED
    BY <2>2, <2>3, SizeAssumption, AppendedAre
<1>4. helperAt' = [h \in Helpers |->
                    IF h \in ToSet(Appended) THEN at[CHOOSE k \in DOMAIN at : Appended[k] = h]
                    ELSE None]
  BY DEF AppendHelpers
<1>5. emit' = [emit EXCEPT !.code = @ \o flat, !.data = @ \o argv \o exc]
  BY DEF AppendHelpers
<1>6. places' = [places EXCEPT
                   !.argv = IF argv # <<>> THEN Len(emit.data) ELSE None,
                   !.exc  = IF exc # <<>> THEN Len(emit.data) + Len(argv) ELSE None]
  BY DEF AppendHelpers
<1> HIDE DEF N
<1>7. Len(emit.code) \in Nat
  BY <1>2
<1>8. sizes \in [1 .. N -> Int] /\ \A k \in 1 .. N : sizes[k] = Size[Appended[k]]
  BY <1>3
<1> HIDE DEF sizes
<1>9. Len(at) = N /\ DOMAIN at = 1 .. N /\ \A k \in 1 .. N : at[k] \in Int
  <2>1. at \in Seq(Int) /\ Len(at) = N
    BY <1>3, <1>7, <1>8, OffsetsHaveTheirType
  <2> HIDE DEF at
  <2>2. QED
    BY <2>1
<1> DEFINE here == at
<1> HIDE DEF at
<1>10. /\ pieces \in Seq(Seq(C)) /\ Len(pieces) = N
       /\ HelperPieces(pieces, Appended, N)
  <2>1. Helpers \subseteq CodeKinds /\ 0 \in Int
    BY DEF CodeKinds
  <2>2. ASSUME NEW k \in 1 .. N
        PROVE  /\ Cells(Size[Appended[k]], Appended[k], 0) \in Seq(C)
               /\ Len(Cells(Size[Appended[k]], Appended[k], 0)) = Size[Appended[k]]
               /\ \A t \in 1 .. Size[Appended[k]] :
                    Cells(Size[Appended[k]], Appended[k], 0)[t] = Cell(Appended[k], 0, t - 1)
    <3>1. PICK what : what = Appended[k] /\ what \in CodeKinds
      BY <1>3, <2>1
    <3>2. PICK n \in Nat : n = Size[Appended[k]]
      BY <1>3
    <3>3. Cells(n, what, 0) \in Seq(C) /\ Len(Cells(n, what, 0)) = n
      BY <2>1, <3>1, CellsHaveTheirType
    <3>4. \A t \in 1 .. n : Cells(n, what, 0)[t] = Cell(what, 0, t - 1)
      BY CellsAre
    <3>5. QED
      BY <3>1, <3>2, <3>3, <3>4
  <2>3. /\ pieces \in [1 .. N -> Seq(C)]
        /\ \A k \in 1 .. N : pieces[k] = Cells(Size[Appended[k]], Appended[k], 0)
    BY <1>9, <2>2
  <2> HIDE DEF pieces, C
  <2>4. pieces \in Seq(Seq(C)) /\ Len(pieces) = N
    BY <1>3, <2>3, FunctionIsSequence
  <2>5. HelperPieces(pieces, Appended, N)
    BY <1>3, <2>2, <2>3 DEF HelperPieces
  <2>6. QED
    BY <2>4, <2>5
<1> HIDE DEF pieces, C, D
<1>11. flat \in Seq(C) /\ LaidOut(flat, pieces, at, Len(emit.code))
  <2>1. flat \in Seq(C)
    BY <1>10, Flatten
  <2>2. \A k \in 1 .. Len(pieces) : sizes[k] = Len(pieces[k])
    BY <1>8, <1>10 DEF HelperPieces
  <2>3. sizes \in [1 .. Len(pieces) -> Int] /\ Len(emit.code) \in Int
    BY <1>7, <1>8, <1>10
  <2>4. LaidOut(FlattenSeq(pieces), pieces, Offsets(Len(emit.code), sizes), Len(emit.code))
    BY <1>10, <2>2, <2>3, FlattenPlaces
  <2>5. QED
    BY <2>1, <2>4 DEF at
<1>12. HelperPlaces(helperAt', at, Appended, N)
  <2>1. ASSUME NEW h \in Helpers, h \in ToSet(Appended)
        PROVE  \E k \in 1 .. N : Appended[k] = h /\ helperAt'[h] = at[k]
    <3>1. \E k \in DOMAIN at : Appended[k] = h
      BY <1>3, <1>9, <2>1 DEF ToSet
    <3>2. PICK k : k = CHOOSE l \in DOMAIN at : Appended[l] = h
      OBVIOUS
    <3>3. k \in 1 .. N /\ Appended[k] = h
      BY <1>9, <3>1, <3>2
    <3>4. helperAt'[h] = at[k]
      BY <1>4, <2>1, <3>2
    <3>5. QED
      BY <3>3, <3>4
  <2>2. ASSUME NEW h \in Helpers, h \notin ToSet(Appended)
        PROVE  helperAt'[h] = None
    BY <1>4, <2>2
  <2>3. QED
    BY <2>1, <2>2 DEF HelperPlaces
<1>13. /\ HelpersLaid(emit.code \o flat, helperAt')
       /\ \A h \in Helpers : helperAt'[h] # None <=> h \in ToSet(Appended)
  <2> DEFINE where == helperAt'
  <2>1. HelperPlaces(where, at, Appended, N)
    BY <1>12
  <2> HIDE DEF where, flat
  <2>2. /\ HelpersLaid(emit.code \o flat, where)
        /\ \A h \in Helpers : where[h] # None <=> h \in ToSet(Appended)
    <3>1. /\ emit.code \in Seq(C) /\ flat \in Seq(C) /\ Plain(emit.code)
          /\ N \in Nat /\ DOMAIN Appended = 1 .. N /\ OneToOne(Appended)
          /\ (\A k \in 1 .. N : at[k] \in Int) /\ Len(pieces) = N
      BY <1>2, <1>3, <1>9, <1>10, <1>11
    <3>2. /\ HelperPieces(pieces, Appended, N) /\ LaidOut(flat, pieces, at, Len(emit.code))
          /\ HelperPlaces(where, at, Appended, N)
      BY <1>10, <1>11, <2>1
    <3>3. HelperLayout(C, emit.code, flat, N, Appended, at, pieces, where)
      BY <3>1, <3>2 DEF HelperLayout
    <3>4. QED
      BY <3>3, HelpersAreLaid
  <2>3. QED
    BY <2>2 DEF where
<1>14. HelpersChosen(helperAt', uses)
  <2>1. ToSet(PlainHelpers) \subseteq Helpers /\ ToSet(ExcHelpers) \subseteq Helpers
        /\ ToSet(PlainHelpers) \cap ToSet(ExcHelpers) = {}
    BY PlainHelperNames, ExcHelperNames DEF Helpers
  <2>2. /\ \A h \in ToSet(PlainHelpers) : h \in ToSet(Appended) <=> h \in uses
        /\ \A h \in ToSet(ExcHelpers) : h \in ToSet(Appended) <=> "exc" \in uses
    BY <2>1, AppendedAre
  <2>3. QED
    BY <1>13, <2>1, <2>2 DEF HelpersChosen
<1>15. /\ argv \in Seq(D) /\ \A i \in 1 .. Len(argv) : argv[i] = Cell("argv", 0, i - 1)
       /\ argv # <<>> <=> "argv" \in uses
       /\ "argv" \in uses => Len(argv) > 0
  <2>1. CASE "argv" \in uses
    <3>1. 8 \in Nat /\ "argv" \in DataKinds /\ 0 \in Int
      BY DEF DataKinds
    <3>2. Cells(8, "argv", 0) \in Seq(D) /\ Len(Cells(8, "argv", 0)) = 8
      BY <3>1, CellsHaveTheirType DEF D
    <3>3. \A i \in 1 .. 8 : Cells(8, "argv", 0)[i] = Cell("argv", 0, i - 1)
      BY <3>1, CellsAre
    <3>4. PICK a : a = Cells(8, "argv", 0)
      OBVIOUS
    <3>5. a # <<>>
      BY <3>2, <3>4
    <3>6. argv = a
      BY <2>1, <3>4
    <3> HIDE DEF argv
    <3>7. QED
      BY <2>1, <3>2, <3>3, <3>4, <3>5, <3>6
  <2>2. CASE "argv" \notin uses
    <3>1. argv = <<>>
      BY <2>2
    <3>2. <<>> \in Seq(D) /\ Len(<<>>) = 0
      OBVIOUS
    <3> HIDE DEF argv
    <3>3. QED
      BY <2>2, <3>1, <3>2
  <2>3. QED
    BY <2>1, <2>2
<1>16. /\ exc \in Seq(D) /\ \A i \in 1 .. Len(exc) : exc[i] = Cell("exc", 0, i - 1)
       /\ exc # <<>> <=> "exc" \in uses
       /\ "exc" \in uses => Len(exc) > 0
  <2>1. CASE "exc" \in uses
    <3>1. ExcSize \in Nat /\ ExcSize > 0 /\ "exc" \in DataKinds /\ 0 \in Int
      BY SizeAssumption DEF DataKinds
    <3>2. Cells(ExcSize, "exc", 0) \in Seq(D) /\ Len(Cells(ExcSize, "exc", 0)) = ExcSize
      BY <3>1, CellsHaveTheirType DEF D
    <3>3. \A i \in 1 .. ExcSize : Cells(ExcSize, "exc", 0)[i] = Cell("exc", 0, i - 1)
      BY <3>1, CellsAre
    <3>4. PICK a : a = Cells(ExcSize, "exc", 0)
      OBVIOUS
    <3>5. a # <<>>
      BY <3>1, <3>2, <3>4
    <3>6. exc = a
      BY <2>1, <3>4
    <3> HIDE DEF exc
    <3>7. QED
      BY <2>1, <3>1, <3>2, <3>3, <3>4, <3>5, <3>6
  <2>2. CASE "exc" \notin uses
    <3>1. exc = <<>>
      BY <2>2
    <3>2. <<>> \in Seq(D) /\ Len(<<>>) = 0
      OBVIOUS
    <3> HIDE DEF exc
    <3>3. QED
      BY <2>2, <3>1, <3>2
  <2>3. QED
    BY <2>1, <2>2
<1> HIDE DEF argv, exc, flat
<1>17. /\ emit'.code = emit.code \o flat /\ emit'.data = emit.data \o argv \o exc
       /\ emit'.relocs = emit.relocs /\ emit'.calls = emit.calls /\ emit'.jumps = emit.jumps
  <2>1. emit = [code |-> emit.code, data |-> emit.data, relocs |-> emit.relocs,
                calls |-> emit.calls, jumps |-> emit.jumps]
    BY DEF TypeOK, Emitter
  <2>2. QED
    BY <1>5, <2>1
<1>18. /\ places'.vtables = places.vtables /\ places'.statics = places.statics
       /\ "argv" \in uses => places'.argv = Len(emit.data)
       /\ "exc" \in uses => places'.exc = Len(emit.data) + Len(argv)
  <2>1. places = [vtables |-> places.vtables, statics |-> places.statics,
                  argv |-> places.argv, exc |-> places.exc]
    BY DEF TypeOK
  <2>2. QED
    BY <1>6, <1>15, <1>16, <2>1
<1>19. /\ DataLaid(emit'.data, prog, places'.vtables, places'.statics)
       /\ SlotsLaid(emit'.data, places', uses)
  <2>1. DataLaid(emit.data, prog, places.vtables, places.statics)
    BY <1>2 DEF SoFar
  <2> DEFINE pl == places'
  <2>2. /\ "argv" \in uses => Len(argv) > 0 /\ pl.argv = Len(emit.data)
        /\ "exc" \in uses => Len(exc) > 0 /\ pl.exc = Len(emit.data) + Len(argv)
    BY <1>15, <1>16, <1>18
  <2> HIDE DEF pl
  <2>3. /\ DataLaid(emit.data \o argv \o exc, prog, places.vtables, places.statics)
        /\ SlotsLaid(emit.data \o argv \o exc, pl, uses)
    BY <1>2, <1>15, <1>16, <2>1, <2>2, SlotsAreLaid
  <2>4. QED
    BY <1>17, <1>18, <2>3 DEF pl
<1>20. Sound(emit', 0, prog, places.vtables, uses)
  <2>1. NoOpcode(flat)
    <3>1. ASSUME NEW i \in DOMAIN flat
          PROVE  flat[i].what # "op"
      <4>1. i \in 1 .. Len(flat)
        BY <1>11
      <4>2. PICK k \in 1 .. Len(pieces) : \E t \in 1 .. Len(pieces[k]) : i = at[k] - Len(emit.code) + t
        BY <1>11, <4>1 DEF LaidOut
      <4>3. PICK t \in 1 .. Len(pieces[k]) : i = at[k] - Len(emit.code) + t
        BY <4>2
      <4>4. flat[i] = pieces[k][t]
        BY <1>11, <4>3 DEF LaidOut
      <4>5. pieces[k][t] = Cell(Appended[k], 0, t - 1) /\ Appended[k] \in Helpers
        BY <1>10 DEF HelperPieces
      <4>6. flat[i].what \in Helpers
        BY <4>4, <4>5 DEF Cell
      <4>7. QED
        BY <4>6 DEF Helpers
    <3>2. QED
      BY <3>1 DEF NoOpcode
  <2>2. Sound(emit, 0, prog, places.vtables, uses)
    BY <1>2 DEF SoFar
  <2> DEFINE f == emit'
  <2>3. f.code = emit.code \o flat /\ SameOpen(emit, f)
    BY <1>17 DEF SameOpen
  <2> HIDE DEF f
  <2>4. flat \in Seq(C) /\ emit.code \in Seq(C)
    BY <1>2, <1>11
  <2>5. Sound(f, 0, prog, places.vtables, uses)
    BY <2>1, <2>2, <2>3, <2>4, FollowedIsSound
  <2>6. QED
    BY <2>5 DEF f
<1>21. StartsLaid(emit'.code, starts)
  <2>1. starts # <<>>
    <3>1. Len(starts) = Len(prog.fns) /\ prog.fns # <<>>
      BY <1>1, <1>2 DEF Exists
    <3>2. Len(prog.fns) # 0
      <4>1. \E T : prog.fns \in Seq(T)
        BY ProgramHasItsType DEF TypeOK
      <4>2. QED
        BY <3>1, <4>1
    <3>3. QED
      BY <3>1, <3>2
  <2>2. emit.code \o flat \in Seq(C) /\ Grown(emit.code, emit.code \o flat)
    BY <1>2, <1>11, Joined DEF Follows
  <2>3. StartsLaid(emit.code, starts)
    BY <1>2 DEF SoFar
  <2>4. StartsLaid(emit.code \o flat, starts)
    BY <1>2, <2>1, <2>2, <2>3, StartsFollowed
  <2>5. QED
    BY <1>17, <2>4
<1>22. UsesCover(prog, uses) /\ emit'.jumps = <<>>
  BY <1>2, <1>17 DEF SoFar, UsesCover
<1>23. SoFar(emit', starts', prog', places', uses')
  BY <1>1, <1>18, <1>19, <1>20, <1>21, <1>22 DEF SoFar
<1>24. HelpersLaid(emit'.code, helperAt') /\ HelpersChosen(helperAt', uses')
       /\ SlotsLaid(emit'.data, places', uses')
  BY <1>1, <1>13, <1>14, <1>17, <1>19
<1>25. QED
  BY <1>1, <1>23, <1>24 DEF LinkInv, Lowering

-----------------------------------------------------------------------------
(* When relocations are collected, what is written down fits what is there. *)
LEMMA PartsAreAtNumbers ==
  ASSUME TypeOK
  PROVE  CodeAt \in Int /\ DataAt \in Int /\ HeapAt \in Int
<1>1. /\ Preamble \in Nat /\ HeaderLen \in Nat /\ DataVaddr \in Int /\ HeapVaddr \in Int
      /\ BaseVaddr \in Nat /\ Mapped \in Nat /\ JitData \in Nat /\ JitHeap \in Nat
  BY LengthsAreNumbers, ImageLayout, JitLayout
<1>2. BlobVaddr \in Int
  BY <1>1 DEF BlobVaddr, CodeVaddr
<1>3. QED
  BY <1>1, <1>2 DEF CodeAt, DataAt, HeapAt

LaidDown ==
  /\ phase = "relocs" /\ Exists(prog) /\ SoFar(emit, starts, prog, places, uses)
  /\ HelpersLaid(emit.code, helperAt) /\ HelpersChosen(helperAt, uses)
  /\ SlotsLaid(emit.data, places, uses)

LEMMA CodeIsNamed ==
  ASSUME TypeOK, NEW sym, NEW means, NEW k \in Int,
         Target(sym, CodeAt, DataAt, HeapAt) = CodeAt + k,
         k + 1 \in DOMAIN emit.code, Is(emit.code[k + 1], Named(means))
  PROVE  Names(sym, means)
<1>1. CodeAt \in Int
  BY PartsAreAtNumbers
<1>2. CodeAt + k = CodeAt + (k + 1) - 1
  BY <1>1
<1>3. QED
  BY <1>2 DEF Names

LEMMA DataIsNamed ==
  ASSUME TypeOK, NEW sym, NEW means, NEW k \in Int,
         Target(sym, CodeAt, DataAt, HeapAt) = DataAt + k,
         k + 1 \in DOMAIN emit.data, Is(emit.data[k + 1], Named(means))
  PROVE  Names(sym, means)
<1>1. DataAt \in Int
  BY PartsAreAtNumbers
<1>2. DataAt + k = DataAt + (k + 1) - 1
  BY <1>1
<1>3. QED
  BY <1>2 DEF Names

LEMMA FnIsNamed ==
  ASSUME TypeOK, LaidDown, NEW f \in DOMAIN prog.fns
  PROVE  Names(Sym("Fn", f), Sym("Fn", f))
<1> DEFINE sym == Sym("Fn", f)
<1>1. sym.of = "Fn" /\ sym.n = f
  BY DEF Sym
<1>2. starts \in Seq(Int) /\ f \in DOMAIN starts
  <2>1. Len(starts) = Len(prog.fns) /\ starts \in Seq(Int)
    BY DEF TypeOK, LaidDown
  <2>2. DOMAIN prog.fns = 1 .. Len(prog.fns)
    BY ProgramHasItsType DEF TypeOK
  <2>3. QED
    BY <2>1, <2>2
<1>3. starts[f] \in Int
  BY <1>2
<1>4. /\ starts[f] + 1 \in DOMAIN emit.code /\ emit.code[starts[f] + 1].what = "Fn"
      /\ emit.code[starts[f] + 1].of = f /\ emit.code[starts[f] + 1].byte = 0
  BY <1>2 DEF LaidDown, SoFar, StartsLaid
<1>5. Target(sym, CodeAt, DataAt, HeapAt) = CodeAt + starts[f]
  BY <1>1 DEF Target, Helpers
<1>6. Named(sym) = <<"Fn", f, 0>>
  BY <1>1 DEF Named, Helpers
<1> HIDE DEF sym
<1>7. Is(emit.code[starts[f] + 1], Named(sym))
  BY <1>4, <1>6 DEF Is
<1>8. Names(sym, sym)
  BY <1>3, <1>4, <1>5, <1>7, CodeIsNamed
<1>9. QED
  BY <1>8 DEF sym

LEMMA HeapIsNamed ==
  ASSUME prog.heap > 0
  PROVE  Names(Sym("HeapBase", 0), Sym("HeapBase", 0))
<1>1. Target(Sym("HeapBase", 0), CodeAt, DataAt, HeapAt) = HeapAt
  BY DEF Target, Helpers, Sym
<1>2. Named(Sym("HeapBase", 0)) = <<"heap", 0, 0>>
  BY DEF Named, Sym, Helpers
<1>3. QED
  BY <1>1, <1>2 DEF Names

LEMMA ExcIsNamed ==
  ASSUME TypeOK, LaidDown, "exc" \in uses
  PROVE  Names(Sym("ExcState", places.exc), Sym("ExcState", 0))
<1> DEFINE sym == Sym("ExcState", places.exc)
<1>1. places.exc \in Int
  BY DEF TypeOK
<1>2. Target(sym, CodeAt, DataAt, HeapAt) = DataAt + places.exc
  BY DEF Target, Helpers, Sym
<1>3. places.exc + 1 \in DOMAIN emit.data /\ emit.data[places.exc + 1] = Cell("exc", 0, 0)
  BY DEF LaidDown, SlotsLaid
<1>4. Named(Sym("ExcState", 0)) = <<"exc", 0, 0>>
  BY DEF Named, Sym, Helpers
<1>5. Is(emit.data[places.exc + 1], Named(Sym("ExcState", 0)))
  BY <1>3, <1>4 DEF Is, Cell
<1> HIDE DEF sym
<1>6. Names(sym, Sym("ExcState", 0))
  BY <1>1, <1>2, <1>3, <1>5, DataIsNamed
<1>7. QED
  BY <1>6 DEF sym

LEMMA FitsIsNamed ==
  ASSUME TypeOK, LaidDown, NEW sym, NEW means, Fits(sym, means, prog, places.vtables, uses)
  PROVE  Names(sym, means)
<1>1. DataLaid(emit.data, prog, places.vtables, places.statics)
  BY DEF LaidDown, SoFar
<1>2. /\ places.vtables \in Seq(Int) /\ Len(places.vtables) = Len(prog.vtables)
      /\ places.statics \in Seq(Int) /\ Len(places.statics) = prog.statics
      /\ places.argv \in Int /\ helperAt \in [Helpers -> Int]
  BY DEF TypeOK, LaidDown
<1>3. /\ prog.strings \in Nat /\ prog.statics \in Nat
      /\ DOMAIN prog.vtables = 1 .. Len(prog.vtables)
      /\ prog.vtables \in Seq(Seq({Hole} \cup DOMAIN prog.fns))
  BY ProgramHasItsType DEF TypeOK
<1>4. CASE sym.of = "Fn"
  <2>1. sym.n \in DOMAIN prog.fns /\ means = Sym("Fn", sym.n)
    BY <1>4 DEF Fits, Helpers
  <2> DEFINE f == sym.n
  <2>2. Names(Sym("Fn", f), Sym("Fn", f))
    BY <2>1, FnIsNamed
  <2>3. \A x : x.of = "Fn" =>
          Target(x, CodeAt, DataAt, HeapAt) = CodeAt + starts[x.n]
    BY DEF Target, Helpers
  <2>4. Target(sym, CodeAt, DataAt, HeapAt) = Target(Sym("Fn", f), CodeAt, DataAt, HeapAt)
    BY <1>4, <2>3 DEF Sym
  <2>5. QED
    BY <2>1, <2>2, <2>4 DEF Names
<1>5. CASE sym.of = "String"
  <2>1. sym.n \in 0 .. prog.strings - 1 /\ means = Sym("String", sym.n)
    BY <1>5 DEF Fits, Helpers
  <2>2. sym.n + 1 \in DOMAIN emit.data /\ emit.data[sym.n + 1] = Cell("string", 0, sym.n)
    BY <1>1, <2>1 DEF DataLaid
  <2>3. Target(sym, CodeAt, DataAt, HeapAt) = DataAt + sym.n
    BY <1>5 DEF Target, Helpers
  <2>4. Named(means) = <<"string", 0, sym.n>>
    BY <2>1 DEF Named, Sym, Helpers
  <2>5. Is(emit.data[sym.n + 1], Named(means)) /\ sym.n \in Int
    BY <2>1, <2>2, <2>4 DEF Is, Cell
  <2>6. QED
    BY <2>2, <2>3, <2>5, DataIsNamed
<1>6. CASE sym.of = "VtableOff"
  <2>1. PICK r \in DOMAIN prog.vtables : /\ prog.vtables[r] # <<>>
                                         /\ sym.n = places.vtables[r]
                                         /\ means = Sym("Vtable", r)
    BY <1>6 DEF Fits, Helpers
  <2>2. 0 \in 0 .. 8 * Len(prog.vtables[r]) - 1
    <3>1. prog.vtables[r] \in Seq({Hole} \cup DOMAIN prog.fns)
      BY <1>3, Element
    <3>2. Len(prog.vtables[r]) \in Nat /\ Len(prog.vtables[r]) # 0
      BY <2>1, <3>1
    <3>3. QED
      BY <3>2
  <2>3. places.vtables[r] \in Int
    BY <1>2, <1>3
  <2>4. /\ places.vtables[r] + 0 + 1 \in DOMAIN emit.data
        /\ emit.data[places.vtables[r] + 0 + 1] = Cell("vtable", r, 0)
    BY <1>1, <2>2 DEF DataLaid
  <2>5. places.vtables[r] + 0 + 1 = sym.n + 1 /\ sym.n \in Int
    BY <2>1, <2>3
  <2>6. Target(sym, CodeAt, DataAt, HeapAt) = DataAt + sym.n
    BY <1>6 DEF Target, Helpers
  <2>7. Named(means) = <<"vtable", r, 0>>
    BY <2>1 DEF Named, Sym, Helpers
  <2>8. sym.n + 1 \in DOMAIN emit.data /\ Is(emit.data[sym.n + 1], Named(means))
    BY <2>4, <2>5, <2>7 DEF Is, Cell
  <2>9. QED
    BY <2>5, <2>6, <2>8, DataIsNamed
<1>7. CASE sym.of = "Static"
  <2>1. sym.n \in 1 .. prog.statics /\ means = Sym("Static", sym.n)
    BY <1>7 DEF Fits, Helpers
  <2> DEFINE k == places.statics[sym.n]
  <2>2. k \in Int
    BY <1>2, <1>3, <2>1
  <2>3. k + 1 \in DOMAIN emit.data /\ emit.data[k + 1] = Cell("static", sym.n, 0)
    BY <1>1, <2>1 DEF DataLaid
  <2>4. Target(sym, CodeAt, DataAt, HeapAt) = DataAt + k
    BY <1>7 DEF Target, Helpers
  <2>5. Named(means) = <<"static", sym.n, 0>>
    BY <2>1 DEF Named, Sym, Helpers
  <2>6. Is(emit.data[k + 1], Named(means))
    BY <2>3, <2>5 DEF Is, Cell
  <2> HIDE DEF k
  <2>7. QED
    BY <2>2, <2>3, <2>4, <2>6, DataIsNamed
<1>8. CASE sym.of = "ArgvRsp"
  <2>1. "argv" \in uses /\ means = Sym("ArgvRsp", 0)
    BY <1>8 DEF Fits, Helpers
  <2> DEFINE k == places.argv
  <2>2. /\ k # None /\ k + 1 \in DOMAIN emit.data /\ emit.data[k + 1] = Cell("argv", 0, 0)
        /\ k \in Int
    BY <1>2, <2>1 DEF LaidDown, SlotsLaid
  <2>3. Target(sym, CodeAt, DataAt, HeapAt) = DataAt + k
    BY <1>8, <2>2 DEF Target, Helpers, OrZero
  <2>4. Named(means) = <<"argv", 0, 0>>
    BY <2>1 DEF Named, Sym, Helpers
  <2>5. Is(emit.data[k + 1], Named(means))
    BY <2>2, <2>4 DEF Is, Cell
  <2> HIDE DEF k
  <2>6. QED
    BY <2>2, <2>3, <2>5, DataIsNamed
<1>9. CASE sym.of \in Helpers
  <2> DEFINE h == sym.of
             k == helperAt[h]
  <2>1. /\ means = Sym(h, 0)
        /\ h \in ToSet(ExcHelpers) => "exc" \in uses
        /\ h \in ToSet(PlainHelpers) => h \in uses
    BY <1>9 DEF Fits, Helpers
  <2>2. h \in ToSet(PlainHelpers) \/ h \in ToSet(ExcHelpers)
    BY <1>9, PlainHelperNames, ExcHelperNames DEF Helpers
  <2>3. k # None /\ k \in Int
    BY <1>2, <1>9, <2>1, <2>2 DEF LaidDown, HelpersChosen
  <2>4. 0 \in 0 .. Size[h] - 1
    BY <1>9, SizeAssumption
  <2>5. k + 0 + 1 \in DOMAIN emit.code /\ emit.code[k + 0 + 1] = Cell(h, 0, 0)
    BY <1>9, <2>3, <2>4 DEF LaidDown, HelpersLaid
  <2>6. k + 0 + 1 = k + 1
    BY <2>3
  <2>7. Target(sym, CodeAt, DataAt, HeapAt) = CodeAt + k
    BY <1>9, <2>3 DEF Target, Helpers, OrZero
  <2>8. Named(means) = <<h, 0, 0>>
    BY <1>9, <2>1 DEF Named, Sym, Helpers
  <2>9. k + 1 \in DOMAIN emit.code /\ Is(emit.code[k + 1], Named(means))
    BY <2>5, <2>6, <2>8 DEF Is, Cell
  <2> HIDE DEF k, h
  <2>10. QED
    BY <2>3, <2>7, <2>9, CodeIsNamed
<1>10. QED
  BY <1>4, <1>5, <1>6, <1>7, <1>8, <1>9 DEF Fits

(* The relocations collected.                                              *)
LEMMA ToSetJoined ==
  ASSUME NEW S, NEW a \in Seq(S), NEW b \in Seq(S)
  PROVE  ToSet(a \o b) = ToSet(a) \cup ToSet(b)
<1>1. PICK c : c = a \o b /\ c \in Seq(S) /\ Follows(a, b, c)
  BY Joined
<1>2. /\ Len(a) \in Nat /\ DOMAIN a = 1 .. Len(a) /\ Len(b) \in Nat /\ DOMAIN b = 1 .. Len(b)
      /\ Len(c) = Len(a) + Len(b) /\ DOMAIN c = 1 .. Len(c)
      /\ \A i \in 1 .. Len(a) : c[i] = a[i]
      /\ \A i \in 1 .. Len(b) : c[Len(a) + i] = b[i]
  BY <1>1 DEF Follows, Grown
<1>3. ASSUME NEW k \in DOMAIN c
      PROVE  c[k] \in ToSet(a) \cup ToSet(b)
  <2>1. CASE k \in DOMAIN a
    BY <1>2, <2>1 DEF ToSet
  <2>2. CASE k \notin DOMAIN a
    <3>1. k - Len(a) \in DOMAIN b /\ k = Len(a) + (k - Len(a))
      BY <1>2, <2>2
    <3>2. b[k - Len(a)] = c[k]
      BY <1>2, <3>1
    <3>3. QED
      BY <3>1, <3>2 DEF ToSet
  <2>3. QED
    BY <2>1, <2>2
<1>4. \A k \in DOMAIN a : k \in DOMAIN c /\ c[k] = a[k]
  BY <1>2
<1>5. \A k \in DOMAIN b : Len(a) + k \in DOMAIN c /\ c[Len(a) + k] = b[k]
  BY <1>2
<1>6. \A k \in DOMAIN a : a[k] \in ToSet(c)
  BY <1>4 DEF ToSet
<1>7. \A k \in DOMAIN b : b[k] \in ToSet(c)
  BY <1>5 DEF ToSet
<1>8. ToSet(c) = ToSet(a) \cup ToSet(b)
  BY <1>3, <1>6, <1>7 DEF ToSet
<1>9. QED
  BY <1>1, <1>8

LEMMA ToSetFlattened ==
  ASSUME NEW S, NEW s \in Seq(Seq(S))
  PROVE  ToSet(FlattenSeq(s)) = UNION { ToSet(s[k]) : k \in 1 .. Len(s) }
<1> DEFINE flat == FlattenSeq(s)
<1>1. ElementsOf(flat, s)
  BY FlattenElements
<1>2. \A k \in 1 .. Len(s) : s[k] \in Seq(S)
  OBVIOUS
<1>3. \A k \in 1 .. Len(s) : DOMAIN s[k] = 1 .. Len(s[k])
  BY <1>2
<1> HIDE DEF flat
<1>4. \A i \in DOMAIN flat : \E k \in 1 .. Len(s) : flat[i] \in ToSet(s[k])
  BY <1>1, <1>3 DEF ElementsOf, ToSet
<1>5. \A k \in 1 .. Len(s) : \A t \in DOMAIN s[k] : s[k][t] \in ToSet(flat)
  BY <1>1, <1>3 DEF ElementsOf, ToSet
<1>6. ToSet(flat) = UNION { ToSet(s[k]) : k \in 1 .. Len(s) }
  <2>1. \A x \in ToSet(flat) : \E k \in 1 .. Len(s) : x \in ToSet(s[k])
    BY <1>4 DEF ToSet
  <2>2. \A k \in 1 .. Len(s) : ToSet(s[k]) \subseteq ToSet(flat)
    BY <1>5 DEF ToSet
  <2>3. QED
    BY <2>1, <2>2
<1>7. QED
  BY <1>6 DEF flat

LEMMA ToSetOne ==
  ASSUME NEW x
  PROVE  ToSet(<<x>>) = {x} /\ ToSet(<<>>) = {}
<1>1. DOMAIN <<x>> = {1} /\ <<x>>[1] = x /\ DOMAIN <<>> = {}
  OBVIOUS
<1>2. QED
  BY <1>1 DEF ToSet

VtableSet ==
  UNION { { VtableReloc(r, s) : s \in {t \in DOMAIN prog.vtables[r] : prog.vtables[r][t] # Hole} } :
          r \in DOMAIN prog.vtables }
HelperSet == { HelperReloc(h) : h \in {g \in Patchable : helperAt[g] # None} }

LEMMA VtableRelocsAre ==
  ASSUME TypeOK, phase # "data"
  PROVE  ToSet(VtableRelocs) = VtableSet
<1>1. /\ VtableRelocs = FlattenSeq(VtableRows)
      /\ VtableRows \in Seq(Seq(Reloc)) /\ Len(VtableRows) = Len(prog.vtables)
      /\ \A r \in DOMAIN prog.vtables : /\ VtableRow(r) \in Seq(Seq(Reloc))
                                        /\ Len(VtableRow(r)) = Len(prog.vtables[r])
  BY VtableRowsHaveTheirType
<1>2. DOMAIN prog.vtables = 1 .. Len(prog.vtables)
      /\ prog.vtables \in Seq(Seq({Hole} \cup DOMAIN prog.fns))
  BY ProgramHasItsType DEF TypeOK
<1> DEFINE full(r) == {t \in DOMAIN prog.vtables[r] : prog.vtables[r][t] # Hole}
           row(r)  == { VtableReloc(r, s) : s \in full(r) }
<1>3. ASSUME NEW r \in DOMAIN prog.vtables
      PROVE  ToSet(VtableRows[r]) = row(r)
  <2>1. VtableRows[r] = FlattenSeq(VtableRow(r))
    BY DEF VtableRows
  <2>2. DOMAIN prog.vtables[r] = 1 .. Len(prog.vtables[r])
    <3>1. prog.vtables[r] \in Seq({Hole} \cup DOMAIN prog.fns)
      BY <1>2, Element
    <3>2. QED
      BY <3>1
  <2>3. ToSet(VtableRows[r]) = UNION { ToSet(VtableRow(r)[s]) : s \in 1 .. Len(VtableRow(r)) }
    BY <1>1, <2>1, ToSetFlattened
  <2>4. 1 .. Len(VtableRow(r)) = DOMAIN prog.vtables[r]
    BY <1>1, <2>2
  <2>5. \A s \in DOMAIN prog.vtables[r] :
          ToSet(VtableRow(r)[s]) = IF prog.vtables[r][s] = Hole THEN {} ELSE {VtableReloc(r, s)}
    BY ToSetOne DEF VtableRow, VtableWord
  <2>6. \A x : x \in ToSet(VtableRows[r]) <=> \E s \in DOMAIN prog.vtables[r] : x \in ToSet(VtableRow(r)[s])
    BY <2>3, <2>4
  <2>7. ASSUME NEW s \in full(r)
        PROVE  VtableReloc(r, s) \in ToSet(VtableRows[r])
    BY <2>5, <2>6
  <2>8. ASSUME NEW x \in ToSet(VtableRows[r])
        PROVE  x \in row(r)
    <3>1. PICK s \in DOMAIN prog.vtables[r] : x \in ToSet(VtableRow(r)[s])
      BY <2>6
    <3>2. s \in full(r) /\ x = VtableReloc(r, s)
      BY <2>5, <3>1
    <3> HIDE DEF full
    <3>3. QED
      BY <3>2
  <2> HIDE DEF full
  <2>9. QED
    BY <2>7, <2>8
<1>4. ToSet(VtableRelocs) = UNION { ToSet(VtableRows[r]) : r \in 1 .. Len(VtableRows) }
  BY <1>1, ToSetFlattened
<1>5. 1 .. Len(VtableRows) = DOMAIN prog.vtables
  BY <1>1, <1>2
<1>6. VtableSet = UNION { row(r) : r \in DOMAIN prog.vtables }
  BY DEF VtableSet
<1> HIDE DEF row
<1>7. QED
  BY <1>3, <1>4, <1>5, <1>6

LEMMA HelperRelocsAre ==
  ASSUME TypeOK
  PROVE  ToSet(HelperRelocs) = HelperSet
<1> DEFINE x == HelperWindow("Alloc")
           y == HelperWindow("Release")
           z == FlattenSeq(ExcWindows)
           set(h) == IF helperAt[h] = None THEN {} ELSE {HelperReloc(h)}
<1>1. /\ x \in Seq(Reloc) /\ y \in Seq(Reloc) /\ ExcWindows \in Seq(Seq(Reloc))
      /\ Len(ExcWindows) = 6 /\ HelperRelocs = x \o y \o z
  BY HelperWindowsHaveTheirType DEF Helpers
<1>2. z \in Seq(Reloc)
  BY <1>1, Flatten
<1>3. \A h : ToSet(HelperWindow(h)) = set(h)
  BY ToSetOne DEF HelperWindow
<1>4. ToSet(z) = UNION { ToSet(ExcWindows[k]) : k \in 1 .. 6 }
  BY <1>1, ToSetFlattened
<1> HIDE DEF x, y, z
<1>5. ToSet(HelperRelocs) = ToSet(x) \cup ToSet(y) \cup ToSet(z)
  <2>1. PICK w : w = x \o y /\ w \in Seq(Reloc)
    BY <1>1, Joined
  <2>2. ToSet(w) = ToSet(x) \cup ToSet(y)
    BY <1>1, <2>1, ToSetJoined
  <2>3. ToSet(w \o z) = ToSet(w) \cup ToSet(z)
    BY <1>2, <2>1, ToSetJoined
  <2>4. HelperRelocs = w \o z
    BY <1>1, <2>1
  <2>5. QED
    BY <2>2, <2>3, <2>4
<1>6. ToSet(x) = set("Alloc") /\ ToSet(y) = set("Release")
  BY <1>3 DEF x, y
<1>7. ToSet(z) = UNION { set(h) : h \in ToSet(ExcHelpers) }
  <2>1. \A k \in 1 .. 6 : ToSet(ExcWindows[k]) = set(ExcHelpers[k])
    BY <1>3 DEF ExcWindows
  <2>2. ToSet(ExcHelpers) = { ExcHelpers[k] : k \in 1 .. 6 }
    BY ExcHelpersOnce DEF ToSet
  <2> HIDE DEF set
  <2>3. QED
    BY <1>4, <2>1, <2>2
<1>8. HelperSet = UNION { set(h) : h \in Patchable }
  BY DEF HelperSet
<1>9. Patchable = {"Alloc", "Release"} \cup ToSet(ExcHelpers)
  BY DEF Patchable
<1> HIDE DEF set
<1>10. QED
  BY <1>5, <1>6, <1>7, <1>8, <1>9

Collected == emit.relocs \o CallRelocs \o VtableRelocs \o HelperRelocs

LEMMA CollectedAre ==
  ASSUME TypeOK, phase # "data"
  PROVE  /\ Collected \in Seq(Reloc)
         /\ ToSet(Collected) = ToSet(emit.relocs) \cup ToSet(CallRelocs) \cup VtableSet \cup HelperSet
<1>1. /\ emit.relocs \in Seq(Reloc) /\ CallRelocs \in Seq(Reloc) /\ VtableRelocs \in Seq(Reloc)
      /\ HelperRelocs \in Seq(Reloc)
  BY CallRelocsHaveTheirType, VtableRelocsHaveTheirType, HelperRelocsHaveTheirType
     DEF TypeOK, Emitter
<1> DEFINE a == emit.relocs \o CallRelocs
           b == a \o VtableRelocs
<1>2. a \in Seq(Reloc) /\ ToSet(a) = ToSet(emit.relocs) \cup ToSet(CallRelocs)
  BY <1>1, Joined, ToSetJoined
<1> HIDE DEF a
<1>3. b \in Seq(Reloc) /\ ToSet(b) = ToSet(a) \cup ToSet(VtableRelocs)
  BY <1>1, <1>2, Joined, ToSetJoined
<1> HIDE DEF b
<1>4. b \o HelperRelocs \in Seq(Reloc)
      /\ ToSet(b \o HelperRelocs) = ToSet(b) \cup ToSet(HelperRelocs)
  BY <1>1, <1>3, Joined, ToSetJoined
<1>5. Collected = b \o HelperRelocs
  BY DEF Collected, a, b
<1>6. ToSet(VtableRelocs) = VtableSet /\ ToSet(HelperRelocs) = HelperSet
  BY VtableRelocsAre, HelperRelocsAre
<1>7. QED
  BY <1>2, <1>3, <1>4, <1>5, <1>6

LEMMA SiteIs ==
  ASSUME NEW c, NEW i
  PROVE  /\ c[i].what = "window"  => SiteOf(c, i) = i - 1 - c[i].byte
         /\ c[i].what \in Helpers => SiteOf(c, i) = i - 1 - c[i].byte + Operand(c[i].what)
         /\ c[i].what = "vtable"  => SiteOf(c, i) = i - 1 - (c[i].byte % 8)
BY DEF SiteOf, Helpers

LEMMA MeansIs ==
  ASSUME NEW c, NEW s
  PROVE  /\ c[s + 1].what = "window" => MeansAt(c, s) = c[s].means
         /\ c[s + 1].what \in {"Alloc", "Release"} => MeansAt(c, s) = Sym("HeapBase", 0)
         /\ c[s + 1].what \in ToSet(ExcHelpers) => MeansAt(c, s) = Sym("ExcState", 0)
         /\ c[s + 1].what = "vtable" =>
              MeansAt(c, s) = Sym("Fn", prog.vtables[c[s + 1].of][c[s + 1].byte \div 8 + 1])
BY ExcHelperNames DEF MeansAt

(* Each fills an operand, and names what the operand does.                 *)
LEMMA WindowFills ==
  ASSUME TypeOK, NEW r, WindowAt(emit.code, r.site, Width(r)),
         Names(r.sym, emit.code[r.site].means)
  PROVE  Fills(r, emit.code)
<1> DEFINE c == emit.code
           s == r.site
           w == Width(r)
<1>1. Len(c) \in Nat /\ DOMAIN c = 1 .. Len(c) /\ w \in {4, 8}
  BY LengthsAreNumbers DEF Width
<1>2. /\ s \in 1 .. Len(c) /\ s + w <= Len(c) /\ c[s].what = "op" /\ c[s].of = w
      /\ \A m \in 1 .. w : c[s + m].what = "window" /\ c[s + m].byte = m - 1
  BY <1>1 DEF WindowAt
<1>3. Names(r.sym, c[s].means)
  OBVIOUS
<1> HIDE DEF c, s, w
<1>4. c[s + 1].what = "window"
  BY <1>1, <1>2
<1>5. w = WidthAt(c, s) /\ MeansAt(c, s) = c[s].means
  BY <1>2, <1>4, MeansIs DEF WidthAt
<1>6. ASSUME NEW m \in 1 .. w
      PROVE  s + m \in DOMAIN c /\ SiteOf(c, s + m) = s
  <2>1. s + m \in 1 .. Len(c)
    BY <1>1, <1>2
  <2>2. SiteOf(c, s + m) = s + m - 1 - (m - 1)
    BY <1>2, SiteIs
  <2>3. QED
    BY <1>1, <1>2, <2>1, <2>2
<1>7. QED
  BY <1>3, <1>5, <1>6 DEF Fills, c, s, w

LEMMA RecordedFill ==
  ASSUME TypeOK, LaidDown, NEW r \in ToSet(emit.relocs)
  PROVE  /\ Fills(r, emit.code) /\ r.section = "code"
         /\ WindowAt(emit.code, r.site, 8) /\ emit.code[r.site].of = 8
<1>1. RelocFits(r, emit.code, prog, places.vtables, uses)
  BY DEF LaidDown, SoFar, Sound, ToSet
<1>2. /\ r.kind = "Abs64" /\ r.section = "code" /\ WindowAt(emit.code, r.site, 8)
      /\ r.sym.of \notin Helpers
      /\ Fits(r.sym, emit.code[r.site].means, prog, places.vtables, uses)
  BY <1>1 DEF RelocFits
<1>3. Names(r.sym, emit.code[r.site].means)
  BY <1>2, FitsIsNamed
<1>4. Width(r) = 8 /\ emit.code[r.site].of = 8
  BY <1>2 DEF Width, WindowAt
<1>5. QED
  BY <1>2, <1>3, <1>4, WindowFills

LEMMA CallsFill ==
  ASSUME TypeOK, LaidDown, NEW r \in ToSet(CallRelocs)
  PROVE  /\ Fills(r, emit.code) /\ r.section = "code"
         /\ WindowAt(emit.code, r.site, 4) /\ emit.code[r.site].of = 4
<1>1. PICK k \in DOMAIN emit.calls :
        /\ r.kind = "Rel32Call" /\ r.section = "code"
        /\ r.site = emit.calls[k].site /\ r.sym = emit.calls[k].sym
  <2>1. PICK k \in DOMAIN CallRelocs : r = CallRelocs[k]
    BY DEF ToSet
  <2>2. k \in DOMAIN emit.calls
    BY DEF CallRelocs
  <2>3. QED
    BY <2>1, <2>2 DEF CallRelocs
<1>2. CallFits(emit.calls[k], emit.code, prog, places.vtables, uses)
  BY DEF LaidDown, SoFar, Sound
<1>3. /\ WindowAt(emit.code, r.site, 4)
      /\ Fits(r.sym, emit.code[r.site].means, prog, places.vtables, uses)
  BY <1>1, <1>2 DEF CallFits
<1>4. Names(r.sym, emit.code[r.site].means)
  BY <1>3, FitsIsNamed
<1>5. Width(r) = 4 /\ emit.code[r.site].of = 4
  BY <1>1, <1>3 DEF Width, WindowAt
<1>6. QED
  BY <1>1, <1>3, <1>4, <1>5, WindowFills

LEMMA WordsFill ==
  ASSUME TypeOK, LaidDown, NEW v \in DOMAIN prog.vtables, NEW s \in DOMAIN prog.vtables[v],
         prog.vtables[v][s] # Hole
  PROVE  /\ Fills(VtableReloc(v, s), emit.data)
         /\ VtableReloc(v, s).section = "data" /\ VtableReloc(v, s).kind = "Abs64"
<1> DEFINE r == VtableReloc(v, s)
           d == emit.data
           q == places.vtables[v] + 8 * (s - 1)
           f == prog.vtables[v][s]
<1>1. r.kind = "Abs64" /\ r.section = "data" /\ r.site = q /\ r.sym = Sym("Fn", f)
  BY DEF VtableReloc
<1>2. /\ DOMAIN prog.vtables = 1 .. Len(prog.vtables)
      /\ prog.vtables[v] \in Seq({Hole} \cup DOMAIN prog.fns)
  <2>1. DOMAIN prog.vtables = 1 .. Len(prog.vtables)
        /\ prog.vtables \in Seq(Seq({Hole} \cup DOMAIN prog.fns))
    BY ProgramHasItsType DEF TypeOK
  <2>2. QED
    BY <2>1, Element
<1>3. f \in DOMAIN prog.fns /\ s \in 1 .. Len(prog.vtables[v]) /\ Len(prog.vtables[v]) \in Nat
  <2>1. f \in {Hole} \cup DOMAIN prog.fns
    BY <1>2, Element
  <2>2. QED
    BY <1>2, <2>1
<1>4. places.vtables[v] \in Int
  <2>1. places.vtables \in Seq(Int) /\ Len(places.vtables) = Len(prog.vtables)
    BY DEF TypeOK, LaidDown
  <2>2. QED
    BY <1>2, <2>1
<1>5. DataLaid(d, prog, places.vtables, places.statics)
  BY DEF LaidDown, SoFar
<1> HIDE DEF r, d, f
<1>6. ASSUME NEW m \in 1 .. 8
      PROVE  q + m \in DOMAIN d /\ d[q + m] = Cell("vtable", v, 8 * (s - 1) + (m - 1))
  <2> DEFINE t == 8 * (s - 1) + (m - 1)
  <2>1. t \in 0 .. 8 * Len(prog.vtables[v]) - 1 /\ t \in Int
    <3>1. s \in Int /\ m \in Int /\ s >= 1 /\ s <= Len(prog.vtables[v]) /\ m >= 1 /\ m <= 8
      BY <1>3
    <3>2. PICK n \in Nat : n = Len(prog.vtables[v])
      BY <1>3
    <3>3. s <= n
      BY <3>1, <3>2
    <3>4. t \in Int /\ t >= 0 /\ t <= 8 * n - 1
      BY <3>1, <3>3
    <3> HIDE DEF t
    <3>5. t \in 0 .. 8 * n - 1
      BY <3>4
    <3>6. QED
      BY <3>2, <3>4, <3>5
  <2>2. places.vtables[v] + t + 1 = q + m
    <3>1. \A x, y, z \in Int : x + (y + (z - 1)) + 1 = x + y + z
      OBVIOUS
    <3>2. places.vtables[v] \in Int /\ 8 * (s - 1) \in Int /\ m \in Int
      BY <1>3, <1>4
    <3>3. QED
      BY <3>1, <3>2
  <2> HIDE DEF t
  <2>3. places.vtables[v] + t + 1 \in DOMAIN d /\ d[places.vtables[v] + t + 1] = Cell("vtable", v, t)
    BY <1>5, <2>1 DEF DataLaid
  <2> HIDE DEF q
  <2>4. q + m \in DOMAIN d /\ d[q + m] = Cell("vtable", v, t)
    BY <2>2, <2>3
  <2>5. QED
    BY <2>4 DEF t
<1>7. q \in Int
  BY <1>3, <1>4
<1> HIDE DEF q
<1>8. /\ d[q + 1].what = "vtable" /\ d[q + 1].of = v /\ d[q + 1].byte = 8 * (s - 1)
  <2>1. 1 \in 1 .. 8 /\ 8 * (s - 1) + (1 - 1) = 8 * (s - 1)
    BY <1>3
  <2>2. d[q + 1] = Cell("vtable", v, 8 * (s - 1))
    BY <1>6, <2>1
  <2>3. QED
    BY <2>2 DEF Cell
<1>9. MeansAt(d, q) = Sym("Fn", f)
  <2>2. (8 * (s - 1)) \div 8 + 1 = s
    BY <1>3
  <2>3. MeansAt(d, q) = Sym("Fn", prog.vtables[v][(8 * (s - 1)) \div 8 + 1])
    BY <1>8, MeansIs
  <2>4. QED
    BY <2>2, <2>3 DEF f
<1>10. Names(r.sym, MeansAt(d, q))
  BY <1>1, <1>3, <1>9, FnIsNamed
<1>11. Width(r) = 8 /\ WidthAt(d, q) = 8
  BY <1>1, <1>8 DEF Width, WidthAt
<1>12. ASSUME NEW m \in 1 .. 8
       PROVE  q + m \in DOMAIN d /\ SiteOf(d, q + m) = q
  <2>1. q + m \in DOMAIN d /\ d[q + m].what = "vtable" /\ d[q + m].byte = 8 * (s - 1) + (m - 1)
    BY <1>6 DEF Cell
  <2>2. (8 * (s - 1) + (m - 1)) % 8 = m - 1
    <3>1. s - 1 \in Int /\ m - 1 \in 0 .. 7
      BY <1>3
    <3>2. \A k \in Int : \A o \in 0 .. 7 : (8 * k + o) % 8 = o
      OBVIOUS
    <3>3. QED
      BY <3>1, <3>2
  <2>3. PICK i : i = q + m
    OBVIOUS
  <2>4. SiteOf(d, i) = i - 1 - (d[i].byte % 8)
    BY <2>1, <2>3, SiteIs
  <2>5. d[i].byte % 8 = m - 1
    BY <2>1, <2>2, <2>3
  <2>6. i \in Int /\ m \in Int /\ i - 1 - (m - 1) = q
    BY <1>7, <2>3
  <2>7. SiteOf(d, i) = i - 1 - (m - 1)
    BY <2>4, <2>5
  <2>8. SiteOf(d, i) = q
    BY <2>6, <2>7
  <2>9. QED
    BY <2>1, <2>3, <2>8
<1>13. Fills(r, d)
  BY <1>1, <1>10, <1>11, <1>12 DEF Fills
<1>14. QED
  BY <1>1, <1>13 DEF r, d

LEMMA HelperOperands ==
  ASSUME OperandsFit, TypeOK, LaidDown, NEW h \in Patchable, helperAt[h] # None
  PROVE  /\ h \in Helpers /\ helperAt[h] \in Int /\ Operand(h) \in Nat /\ Operand(h) > 0
         /\ \A m \in 0 .. 8 : /\ helperAt[h] + Operand(h) + m \in DOMAIN emit.code
                              /\ emit.code[helperAt[h] + Operand(h) + m] = Cell(h, 0, Operand(h) + m - 1)
<1>1. h \in Helpers
  BY ExcHelperNames DEF Patchable, Helpers
<1>2. Operand(h) \in Nat /\ Operand(h) > 0
  BY DEF Operand, AllocWindow, ReleaseWindow, ExcWindow
<1>3. helperAt[h] \in Int /\ Size[h] \in Nat /\ Operand(h) + 8 <= Size[h]
  BY <1>1, SizeAssumption DEF OperandsFit, TypeOK
<1> DEFINE o == Operand(h)
           a == helperAt[h]
<1>4. ASSUME NEW m \in 0 .. 8
      PROVE  a + o + m \in DOMAIN emit.code /\ emit.code[a + o + m] = Cell(h, 0, o + m - 1)
  <2> DEFINE t == o + m - 1
  <2>1. t \in 0 .. Size[h] - 1 /\ t \in Int
    BY <1>2, <1>3
  <2>2. a + t + 1 = a + o + m
    BY <1>2, <1>3
  <2> HIDE DEF t, o
  <2>3. a + t + 1 \in DOMAIN emit.code /\ emit.code[a + t + 1] = Cell(h, 0, t)
    BY <1>1, <2>1 DEF LaidDown, HelpersLaid
  <2> HIDE DEF a
  <2>4. QED
    BY <2>2, <2>3 DEF t
<1>5. QED
  BY <1>1, <1>2, <1>3, <1>4

LEMMA HelpersFill ==
  ASSUME OperandsFit, TypeOK, LaidDown, NEW h \in Patchable, helperAt[h] # None
  PROVE  Fills(HelperReloc(h), emit.code) /\ HelperReloc(h).section = "code"
<1> DEFINE r == HelperReloc(h)
           c == emit.code
           q == helperAt[h] + Operand(h)
<1>1. r.kind = "Abs64" /\ r.section = "code" /\ r.site = q /\ r.sym = OperandSym(h)
  BY DEF HelperReloc
<1>2. /\ h \in Helpers /\ helperAt[h] \in Int /\ Operand(h) \in Nat
      /\ \A m \in 0 .. 8 : q + m \in DOMAIN c /\ c[q + m] = Cell(h, 0, Operand(h) + m - 1)
  BY HelperOperands
<1>3. q \in Int /\ q - Operand(h) = helperAt[h]
  BY <1>2
<1> HIDE DEF r, c, q
<1>4. \A m \in 0 .. 8 : q + m \in DOMAIN c /\ c[q + m].what = h /\ c[q + m].byte = Operand(h) + m - 1
  BY <1>2 DEF Cell
<1>5. c[q + 1].what = h
  BY <1>4
<1>6. Width(r) = 8 /\ WidthAt(c, q) = 8
  <2>1. h # "window"
    BY <1>2 DEF Helpers
  <2>2. QED
    BY <1>1, <1>5, <2>1 DEF Width, WidthAt
<1>7. MeansAt(c, q) = IF h \in {"Alloc", "Release"} THEN Sym("HeapBase", 0) ELSE Sym("ExcState", 0)
  <2>1. h \in {"Alloc", "Release"} \/ h \in ToSet(ExcHelpers)
    BY DEF Patchable
  <2>2. QED
    BY <1>5, <2>1, MeansIs, ExcHelperNames
<1>8. Names(r.sym, MeansAt(c, q))
  <2>1. CASE h \in {"Alloc", "Release"}
    <3>1. h \in uses
      BY <2>1, PlainHelperNames DEF LaidDown, HelpersChosen
    <3>2. prog.heap > 0
      BY <2>1, <3>1 DEF LaidDown, SoFar, UsesCover
    <3>3. r.sym = Sym("HeapBase", 0) /\ MeansAt(c, q) = Sym("HeapBase", 0)
      BY <1>1, <1>7, <2>1 DEF OperandSym
    <3>4. QED
      BY <3>2, <3>3, HeapIsNamed
  <2>2. CASE h \notin {"Alloc", "Release"}
    <3>1. h \in ToSet(ExcHelpers)
      BY <2>2 DEF Patchable
    <3>2. "exc" \in uses
      BY <3>1 DEF LaidDown, HelpersChosen
    <3>3. r.sym = Sym("ExcState", places.exc) /\ MeansAt(c, q) = Sym("ExcState", 0)
      BY <1>1, <1>7, <2>2 DEF OperandSym
    <3>4. QED
      BY <3>2, <3>3, ExcIsNamed
  <2>3. QED
    BY <2>1, <2>2
<1>9. ASSUME NEW m \in 1 .. 8
      PROVE  q + m \in DOMAIN c /\ SiteOf(c, q + m) = q
  <2>1. q + m \in DOMAIN c /\ c[q + m].what = h /\ c[q + m].byte = Operand(h) + m - 1
    BY <1>4
  <2>2. PICK i : i = q + m
    OBVIOUS
  <2>3. SiteOf(c, i) = i - 1 - c[i].byte + Operand(c[i].what)
    BY <1>2, <2>1, <2>2, SiteIs
  <2>4. c[i].byte = Operand(h) + m - 1 /\ c[i].what = h
    BY <2>1, <2>2
  <2>5. \A o \in Int : i - 1 - (o + m - 1) + o = q
    BY <1>3, <2>2
  <2>6. SiteOf(c, i) = i - 1 - (Operand(h) + m - 1) + Operand(h)
    BY <2>3, <2>4
  <2>7. SiteOf(c, i) = q
    BY <1>2, <2>5, <2>6
  <2>8. QED
    BY <2>1, <2>2, <2>7
<1>10. Fills(r, c)
  BY <1>1, <1>6, <1>8, <1>9 DEF Fills
<1>11. QED
  BY <1>1, <1>10 DEF r, c

LEMMA SitesAre ==
  ASSUME NEW relocs, NEW section, NEW q
  PROVE  q \in SitesIn(relocs, section)
           <=> \E r \in ToSet(relocs) : r.section = section /\ r.site = q
BY DEF SitesIn, ToSet

(* And each operand has its own.                                           *)
LEMMA CollectedFill ==
  ASSUME OperandsFit, TypeOK, LaidDown, NEW r \in ToSet(Collected)
  PROVE  /\ Fills(r, IF r.section = "code" THEN emit.code ELSE emit.data)
         /\ r.section = "data" => r.kind = "Abs64"
         /\ \/ r.section = "code"
            \/ \E v \in DOMAIN prog.vtables : \E s \in DOMAIN prog.vtables[v] :
                 prog.vtables[v][s] # Hole /\ r = VtableReloc(v, s)
<1>1. \/ r \in ToSet(emit.relocs) \/ r \in ToSet(CallRelocs) \/ r \in VtableSet \/ r \in HelperSet
  BY CollectedAre DEF LaidDown
<1>2. CASE r \in ToSet(emit.relocs)
  BY <1>2, RecordedFill
<1>3. CASE r \in ToSet(CallRelocs)
  BY <1>3, CallsFill
<1>4. CASE r \in VtableSet
  <2>1. PICK v \in DOMAIN prog.vtables : \E s \in DOMAIN prog.vtables[v] :
          prog.vtables[v][s] # Hole /\ r = VtableReloc(v, s)
    BY <1>4 DEF VtableSet
  <2>2. PICK s \in DOMAIN prog.vtables[v] : prog.vtables[v][s] # Hole /\ r = VtableReloc(v, s)
    BY <2>1
  <2>3. Fills(r, emit.data) /\ r.section = "data" /\ r.kind = "Abs64"
    BY <2>2, WordsFill
  <2>4. QED
    BY <2>2, <2>3
<1>5. CASE r \in HelperSet
  <2>1. PICK h \in Patchable : helperAt[h] # None /\ r = HelperReloc(h)
    BY <1>5 DEF HelperSet
  <2>2. Fills(r, emit.code) /\ r.section = "code"
    BY <2>1, HelpersFill
  <2>3. QED
    BY <2>2
<1>6. QED
  BY <1>1, <1>2, <1>3, <1>4, <1>5

LEMMA OpensServed ==
  ASSUME TypeOK, LaidDown, NEW q \in DOMAIN emit.code, Opens(emit.code, q)
  PROVE  \/ /\ q \in SitesIn(Collected, "code") /\ WindowAt(emit.code, q, emit.code[q].of)
            /\ emit.code[q].of \in {4, 8}
         \/ q \notin SitesIn(Collected, "code") /\ Landed(emit.code, q)
<1>1. Sound(emit, 0, prog, places.vtables, uses) /\ emit.jumps = <<>> /\ phase # "data"
  BY DEF LaidDown, SoFar
<1>2. Served(emit, q)
  BY <1>1 DEF Sound
<1>3. CASE q \in Sites(emit.relocs)
  <2>1. PICK r \in ToSet(emit.relocs) : q = r.site
    BY <1>3 DEF Sites, ToSet
  <2>2. r.section = "code" /\ WindowAt(emit.code, q, emit.code[q].of) /\ emit.code[q].of \in {4, 8}
    BY <2>1, RecordedFill
  <2>3. r \in ToSet(Collected)
    BY <1>1, CollectedAre
  <2>4. QED
    BY <2>1, <2>2, <2>3, SitesAre
<1>4. CASE q \in Sites(emit.calls)
  <2>1. PICK k \in DOMAIN emit.calls : q = emit.calls[k].site
    BY <1>4 DEF Sites
  <2>2. PICK r : r = CallRelocs[k]
    OBVIOUS
  <2>3. r \in ToSet(CallRelocs) /\ r.site = q
    BY <2>1, <2>2 DEF CallRelocs, ToSet
  <2>4. r.section = "code" /\ WindowAt(emit.code, q, emit.code[q].of) /\ emit.code[q].of \in {4, 8}
    BY <2>3, CallsFill
  <2>5. r \in ToSet(Collected)
    BY <1>1, <2>3, CollectedAre
  <2>6. QED
    BY <2>3, <2>4, <2>5, SitesAre
<1>5. q \notin Sites(emit.jumps)
  <2>1. DOMAIN emit.jumps = {}
    BY <1>1
  <2>2. QED
    BY <2>1 DEF Sites
<1>6. CASE Landed(emit.code, q)
  <2>1. WindowAt(emit.code, q, emit.code[q].of) /\ emit.code[q].of \in {4, 8}
    BY <1>6 DEF Landed, WindowAt
  <2>2. QED
    BY <1>6, <2>1
<1>7. QED
  BY <1>2, <1>3, <1>4, <1>5, <1>6 DEF Served

LEMMA OperandsServed ==
  ASSUME OperandsFit, TypeOK, LaidDown, NEW i \in DOMAIN emit.code,
         emit.code[i].what \in Helpers, emit.code[i].byte = Movabs[emit.code[i].what]
  PROVE  /\ i \in SitesIn(Collected, "code") /\ i + 1 \in DOMAIN emit.code
         /\ emit.code[i + 1].what = emit.code[i].what /\ emit.code[i].what \in Patchable
<1> DEFINE h == emit.code[i].what
<1>1. /\ helperAt[h] # None /\ emit.code[i].byte \in 0 .. Size[h] - 1
      /\ i = helperAt[h] + emit.code[i].byte + 1
  BY DEF LaidDown, HelpersLaid
<1>2. h \in Patchable /\ emit.code[i].byte = Operand(h) - 1
  <2>1. h \in Helpers /\ emit.code[i].byte = Movabs[h] /\ emit.code[i].byte # None
    BY <1>1, SizeAssumption DEF None
  <2> HIDE DEF h
  <2>2. Movabs[h] = CASE h = "Alloc" -> 5 [] h = "Release" -> 21
                      [] h \in ToSet(ExcHelpers) -> 1 [] OTHER -> None
    BY <2>1 DEF Movabs
  <2>3. CASE h = "Alloc"
    BY <2>1, <2>2, <2>3, ExcHelperNames DEF Patchable, Operand, AllocWindow
  <2>4. CASE h = "Release"
    BY <2>1, <2>2, <2>4, ExcHelperNames DEF Patchable, Operand, ReleaseWindow
  <2>5. CASE h \in ToSet(ExcHelpers)
    BY <2>1, <2>2, <2>5, ExcHelperNames DEF Patchable, Operand, ExcWindow
  <2>6. CASE h \notin {"Alloc", "Release"} \cup ToSet(ExcHelpers)
    BY <2>1, <2>2, <2>6
  <2>7. QED
    BY <2>3, <2>4, <2>5, <2>6
<1> HIDE DEF h
<1>3. /\ helperAt[h] \in Int /\ Operand(h) \in Nat
      /\ \A m \in 0 .. 8 : /\ helperAt[h] + Operand(h) + m \in DOMAIN emit.code
                           /\ emit.code[helperAt[h] + Operand(h) + m] = Cell(h, 0, Operand(h) + m - 1)
  BY <1>1, <1>2, HelperOperands
<1>4. i = helperAt[h] + Operand(h)
  BY <1>1, <1>2, <1>3
<1>5. i + 1 \in DOMAIN emit.code /\ emit.code[i + 1].what = h
  <2>1. 1 \in 0 .. 8
    OBVIOUS
  <2>2. QED
    BY <1>3, <1>4, <2>1 DEF Cell
<1>6. HelperReloc(h) \in HelperSet /\ HelperReloc(h).section = "code" /\ HelperReloc(h).site = i
  BY <1>1, <1>2, <1>4 DEF HelperSet, HelperReloc
<1>7. HelperReloc(h) \in ToSet(Collected)
  BY <1>6, CollectedAre DEF LaidDown
<1>8. QED
  BY <1>2, <1>5, <1>6, <1>7, SitesAre DEF h

LEMMA WordsServed ==
  ASSUME OperandsFit, TypeOK, LaidDown, NEW i \in DOMAIN emit.data,
         emit.data[i].what = "vtable", emit.data[i].byte % 8 = 0
  PROVE  i - 1 \in SitesIn(Collected, "data")
           <=> prog.vtables[emit.data[i].of][emit.data[i].byte \div 8 + 1] # Hole
<1> DEFINE v == emit.data[i].of
           b == emit.data[i].byte
           s == b \div 8 + 1
<1>1. /\ v \in DOMAIN prog.vtables /\ b \in 0 .. 8 * Len(prog.vtables[v]) - 1
      /\ i = places.vtables[v] + b + 1
  BY DEF LaidDown, SoFar, DataLaid
<1>2. /\ DOMAIN prog.vtables = 1 .. Len(prog.vtables)
      /\ prog.vtables \in Seq(Seq({Hole} \cup DOMAIN prog.fns))
      /\ places.vtables \in Seq(Int) /\ Len(places.vtables) = Len(prog.vtables)
  BY ProgramHasItsType DEF TypeOK, LaidDown
<1>3. \A x \in DOMAIN prog.vtables : /\ DOMAIN prog.vtables[x] = 1 .. Len(prog.vtables[x])
                                    /\ Len(prog.vtables[x]) \in Nat /\ places.vtables[x] \in Int
  <2>1. \A x \in DOMAIN prog.vtables : prog.vtables[x] \in Seq({Hole} \cup DOMAIN prog.fns)
    BY <1>2, Element
  <2>2. QED
    BY <1>2, <2>1
<1> HIDE DEF v
<1>4. b \in Int /\ b % 8 = 0 /\ b = 8 * (s - 1) /\ s \in DOMAIN prog.vtables[v]
  <2> DEFINE n == Len(prog.vtables[v])
  <2>1. n \in Nat /\ b \in Int /\ 0 <= b /\ b < 8 * n /\ b % 8 = 0
    BY <1>1, <1>3
  <2> HIDE DEF b, n
  <2>2. b = 8 * (s - 1) /\ s \in 1 .. n
    BY <2>1
  <2> HIDE DEF s
  <2>3. QED
    BY <1>1, <1>3, <2>1, <2>2 DEF n
<1> HIDE DEF b, s
<1>5. ASSUME prog.vtables[v][s] # Hole
      PROVE  i - 1 \in SitesIn(Collected, "data")
  <2>1. VtableReloc(v, s) \in VtableSet
    BY <1>1, <1>4, <1>5 DEF VtableSet
  <2>2. VtableReloc(v, s) \in ToSet(Collected)
    BY <2>1, CollectedAre DEF LaidDown
  <2>3. VtableReloc(v, s).section = "data" /\ VtableReloc(v, s).site = places.vtables[v] + 8 * (s - 1)
    BY DEF VtableReloc
  <2>4. places.vtables[v] + 8 * (s - 1) = i - 1
    <3>1. i = places.vtables[v] + b + 1 /\ places.vtables[v] \in Int /\ b \in Int /\ b = 8 * (s - 1)
      BY <1>1, <1>3, <1>4
    <3>2. places.vtables[v] + b = i - 1
      BY <3>1
    <3>3. QED
      BY <3>1, <3>2
  <2>5. QED
    BY <2>2, <2>3, <2>4, SitesAre
<1>6. ASSUME i - 1 \in SitesIn(Collected, "data")
      PROVE  prog.vtables[v][s] # Hole
  <2>1. PICK r \in ToSet(Collected) : r.section = "data" /\ r.site = i - 1
    BY <1>6, SitesAre
  <2>2. PICK w \in DOMAIN prog.vtables : \E t \in DOMAIN prog.vtables[w] :
          prog.vtables[w][t] # Hole /\ r = VtableReloc(w, t)
    BY <2>1, CollectedFill
  <2>3. PICK t \in DOMAIN prog.vtables[w] : prog.vtables[w][t] # Hole /\ r = VtableReloc(w, t)
    BY <2>2
  <2> DEFINE o == 8 * (t - 1)
             n == Len(prog.vtables[w])
  <2>4. t \in 1 .. n /\ n \in Nat /\ places.vtables[w] \in Int
    BY <1>3
  <2> HIDE DEF n
  <2>5. o \in 0 .. 8 * n - 1 /\ o \in Int
    BY <2>4
  <2>6. r.site = places.vtables[w] + o
    BY <2>3 DEF VtableReloc
  <2> HIDE DEF o
  <2>7. places.vtables[w] + o + 1 = i
    <3>1. i \in Int
      BY <1>1, <1>3, <1>4
    <3>2. QED
      BY <2>1, <2>4, <2>5, <2>6, <3>1
  <2>8. emit.data[places.vtables[w] + o + 1] = Cell("vtable", w, o)
    BY <2>5 DEF LaidDown, SoFar, DataLaid, n
  <2>9. w = v /\ o = b
    BY <2>7, <2>8 DEF Cell, v, b
  <2>10. t = s
    <3>1. 8 * (t - 1) = b /\ 8 * (s - 1) = b /\ t \in Int /\ s \in Int
      BY <1>3, <1>4, <2>4, <2>9 DEF o
    <3>2. QED
      BY <3>1
  <2>11. QED
    BY <2>3, <2>9, <2>10
<1>7. QED
  BY <1>5, <1>6 DEF v, b, s

LEMMA CollectedIsLinked ==
  ASSUME OperandsFit, TypeOK, LaidDown
  PROVE  Linked(Collected)
<1>1. \A k \in DOMAIN Collected : Collected[k] \in ToSet(Collected)
  BY DEF ToSet
<1>2. \A k \in DOMAIN Collected :
        /\ Fills(Collected[k], IF Collected[k].section = "code" THEN emit.code ELSE emit.data)
        /\ Collected[k].section = "data" => Collected[k].kind = "Abs64"
  BY <1>1, CollectedFill
<1>3. \A q \in DOMAIN emit.code : Opens(emit.code, q) =>
        \/ /\ q \in SitesIn(Collected, "code") /\ WindowAt(emit.code, q, emit.code[q].of)
           /\ emit.code[q].of \in {4, 8}
        \/ q \notin SitesIn(Collected, "code") /\ Landed(emit.code, q)
  BY OpensServed
<1>4. \A i \in DOMAIN emit.code :
        emit.code[i].what \in Helpers /\ emit.code[i].byte = Movabs[emit.code[i].what] =>
          /\ i \in SitesIn(Collected, "code") /\ i + 1 \in DOMAIN emit.code
          /\ emit.code[i + 1].what = emit.code[i].what /\ emit.code[i].what \in Patchable
  BY OperandsServed
<1>5. \A i \in DOMAIN emit.data :
        emit.data[i].what = "vtable" /\ emit.data[i].byte % 8 = 0 =>
          (i - 1 \in SitesIn(Collected, "data")
             <=> prog.vtables[emit.data[i].of][emit.data[i].byte \div 8 + 1] # Hole)
  BY WordsServed
<1>6. \A i \in DOMAIN emit.data : emit.data[i].part = None
  BY DEF LaidDown, SoFar, DataLaid
<1>7. 1 \in DOMAIN emit.code /\ Is(emit.code[1], <<"Fn", 1, 0>>)
  <2>1. starts \in Seq(Int) /\ Len(starts) = Len(prog.fns) /\ prog.fns # <<>>
    BY DEF TypeOK, LaidDown, Exists
  <2>2. Len(prog.fns) # 0
    <3>1. prog.fns \in Seq(Seq(Seq([op : Items, n : Nat])))
      BY ProgramHasItsType DEF TypeOK
    <3>2. QED
      BY <2>1, <3>1
  <2>3. starts # <<>> /\ 1 \in DOMAIN starts
    BY <2>1, <2>2
  <2>4. starts[1] = 0 /\ 0 + 1 \in DOMAIN emit.code /\ emit.code[0 + 1].what = "Fn"
        /\ emit.code[0 + 1].of = 1 /\ emit.code[0 + 1].byte = 0
    <3>1. starts[1] = 0
      BY <2>3 DEF LaidDown, SoFar, StartsLaid
    <3>2. QED
      BY <2>3, <3>1 DEF LaidDown, SoFar, StartsLaid
  <2>5. QED
    BY <2>4 DEF Is
<1>8. QED
  BY <1>2, <1>3, <1>4, <1>5, <1>6, <1>7 DEF Linked

-----------------------------------------------------------------------------
(* What is linked stays so.                                                *)
SameParts ==
  /\ emit'.code = emit.code /\ emit'.data = emit.data
  /\ UNCHANGED <<prog, mode, starts, places, helperAt>>

LEMMA PartsStay ==
  ASSUME SameParts
  PROVE  CodeAt' = CodeAt /\ DataAt' = DataAt /\ HeapAt' = HeapAt
BY DEF SameParts, CodeAt, DataAt, HeapAt, BlobVaddr, CodeVaddr, DataVaddr, HeapVaddr, JitData,
       JitHeap, CodeR, DataR, RxLen, Preamble

LEMMA TargetStays ==
  ASSUME SameParts, NEW CONSTANT sym, NEW CONSTANT c, NEW CONSTANT d, NEW CONSTANT h
  PROVE  Target(sym, c, d, h)' = Target(sym, c, d, h)
BY DEF SameParts, Target

LEMMA NamesStay ==
  ASSUME SameParts, NEW CONSTANT sym, NEW CONSTANT means
  PROVE  Names(sym, means)' <=> Names(sym, means)
<1>1. CodeAt' = CodeAt /\ DataAt' = DataAt /\ HeapAt' = HeapAt
  BY PartsStay
<1>2. Target(sym, CodeAt, DataAt, HeapAt)' = Target(sym, CodeAt, DataAt, HeapAt)
  BY <1>1 DEF SameParts, Target
<1>3. QED
  BY <1>1, <1>2 DEF SameParts, Names

LEMMA FillsStay ==
  ASSUME SameParts, NEW CONSTANT r, NEW CONSTANT cells
  PROVE  Fills(r, cells)' <=> Fills(r, cells)
<1>1. MeansAt(cells, r.site)' = MeansAt(cells, r.site)
  BY DEF SameParts, MeansAt
<1>2. Names(r.sym, MeansAt(cells, r.site))' <=> Names(r.sym, MeansAt(cells, r.site))
  BY <1>1, NamesStay
<1>3. QED
  BY <1>2 DEF Fills

LEMMA LinkedStays ==
  ASSUME SameParts, NEW CONSTANT relocs, Linked(relocs)
  PROVE  Linked(relocs)'
BY FillsStay DEF SameParts, Linked

LEMMA LinkedNext ==
  ASSUME SameParts, NEW relocs, relocs = emit'.relocs, Linked(relocs)
  PROVE  Linked(emit.relocs)'
<1>1. PICK x : x = relocs
  OBVIOUS
<1>2. Linked(x)
  BY <1>1
<1>3. Linked(x)'
  BY <1>2, LinkedStays
<1>4. x = emit'.relocs
  BY <1>1
<1>5. QED
  BY <1>3, <1>4

(* Once relocations are collected, they are linked.                        *)
LEMMA CollectRelocsLinks ==
  ASSUME NamesExist, OperandsFit, TypeOK, LinkInv, CollectRelocs
  PROVE  LinkInv'
<1>1. LaidDown
  BY DEF CollectRelocs, LinkInv, TypeOK, NamesExist, LaidDown
<1>2. Linked(Collected)
  BY <1>1, CollectedIsLinked
<1>3. /\ emit'.code = emit.code /\ emit'.data = emit.data /\ emit'.relocs = Collected
      /\ phase' \in {"map", "write"}
      /\ UNCHANGED <<prog, mode, starts, places, helperAt>>
  <2>1. emit = [code |-> emit.code, data |-> emit.data, relocs |-> emit.relocs,
                calls |-> emit.calls, jumps |-> emit.jumps]
    BY DEF TypeOK, Emitter
  <2>2. QED
    BY <2>1 DEF CollectRelocs, Collected
<1>4. Linked(emit.relocs)'
  BY <1>2, <1>3, LinkedNext DEF SameParts
<1>5. phase' \notin Lowering /\ phase' \notin {"load", "protect", "run"}
  BY <1>3 DEF Lowering
<1>6. QED
  BY <1>4, <1>5 DEF LinkInv, Lowering

-----------------------------------------------------------------------------
(* Where things are put in memory.                                         *)

LEMMA CodeByteInFile ==
  ASSUME TypeOK, ImageIsWritten, NEW i \in DOMAIN emit.code
  PROVE  FileCell(HeaderLen + Preamble + i - 1) = image.code[i]
<1> DEFINE h == HeaderLen
           q == Preamble
           n == Len(emit.code)
           r == RxLen
           d == DataOffset
           o == h + q + i - 1
<1>1. /\ h \in Nat /\ q \in Nat /\ n \in Nat /\ r = h + q + n /\ d \in Int /\ r <= d
      /\ emit.code \in Seq(CellOf(CodeKinds))
  BY ImageLayout, LengthsAreNumbers
<1>2. i \in 1 .. n
  BY <1>1
<1> HIDE DEF h, q, n, r, d
<1>3. /\ ~ (o < h) /\ o \notin h .. (h + q) - 1 /\ o \in h + q .. r - 1 /\ ~ (d <= o)
      /\ o - (h + q) + 1 = i
  BY <1>1, <1>2
<1> HIDE DEF o
<1>4. o \notin d .. d + Len(image.data) - 1
  BY <1>3
<1>5. FileCell(o) = image.code[o - (h + q) + 1]
  BY <1>3, <1>4 DEF FileCell, h, q, r, d
<1>6. QED
  BY <1>3, <1>5 DEF o, h, q

LEMMA DataByteInFile ==
  ASSUME TypeOK, ImageIsWritten, NEW i \in DOMAIN emit.data
  PROVE  FileCell(DataOffset + i - 1) = image.data[i]
<1> DEFINE h == HeaderLen
           q == Preamble
           n == Len(emit.code)
           m == Len(emit.data)
           r == RxLen
           d == DataOffset
           o == d + i - 1
<1>1. /\ h \in Nat /\ q \in Nat /\ n \in Nat /\ m \in Nat /\ r = h + q + n /\ d \in Int /\ r <= d
      /\ emit.data \in Seq(CellOf(DataKinds)) /\ Len(image.data) = m
  BY ImageLayout, LengthsAreNumbers DEF ImageIsWritten
<1>2. i \in 1 .. m
  BY <1>1
<1> HIDE DEF h, q, n, m, r, d
<1>3. /\ ~ (o < h) /\ o \notin h .. (h + q) - 1 /\ o \notin h + q .. r - 1 /\ o \in d .. d + m - 1
      /\ o - d + 1 = i
  BY <1>1, <1>2
<1> HIDE DEF o
<1>4. o \in d .. d + Len(image.data) - 1
  BY <1>1, <1>3
<1>5. FileCell(o) = image.data[o - d + 1]
  BY <1>3, <1>4 DEF FileCell, h, q, r, d
<1>6. QED
  BY <1>3, <1>5 DEF o, d

Within3(s, a) == a \in s.vaddr .. s.vaddr + s.memsz - 1
LoadedCell(s, a) == IF a - s.vaddr < s.filesz THEN FileCell(s.offset + a - s.vaddr)
                    ELSE Cell("heap", 0, a - s.vaddr)
ThreeLoaded == {CodeSegment, DataSegment, HeapSegment}

LEMMA SegmentFields ==
  /\ CodeSegment.vaddr = BaseVaddr /\ CodeSegment.memsz = RxLen
  /\ CodeSegment.filesz = RxLen /\ CodeSegment.offset = 0
  /\ DataSegment.vaddr = DataVaddr /\ DataSegment.memsz = Len(emit.data)
  /\ DataSegment.filesz = Len(emit.data) /\ DataSegment.offset = DataOffset
  /\ HeapSegment.vaddr = HeapVaddr /\ HeapSegment.memsz = HeapLen /\ HeapSegment.filesz = 0
BY DEF CodeSegment, DataSegment, HeapSegment, Segment

(* No two segments hold one address.                                       *)
LEMMA SegmentsApart ==
  ASSUME TypeOK, NEW s \in ThreeLoaded, NEW t \in ThreeLoaded, NEW a, Within3(s, a), Within3(t, a)
  PROVE  s = t
<1> DEFINE b == BaseVaddr
           r == RxLen
           d == DataVaddr
           m == Len(emit.data)
           v == HeapVaddr
           l == HeapLen
<1>1. /\ b \in Int /\ r \in Nat /\ d \in Int /\ m \in Nat /\ v \in Int /\ l \in Nat
      /\ b + r <= d /\ d + m <= v
  BY ImageLayout, LengthsAreNumbers
<1>2. /\ Within3(CodeSegment, a) <=> a \in b .. b + r - 1
      /\ Within3(DataSegment, a) <=> a \in d .. d + m - 1
      /\ Within3(HeapSegment, a) <=> a \in v .. v + l - 1
  BY SegmentFields DEF Within3
<1> HIDE DEF b, r, d, m, v, l
<1>3. /\ ~ (a \in b .. b + r - 1 /\ a \in d .. d + m - 1)
      /\ ~ (a \in b .. b + r - 1 /\ a \in v .. v + l - 1)
      /\ ~ (a \in d .. d + m - 1 /\ a \in v .. v + l - 1)
  BY <1>1
<1>4. QED
  BY <1>2, <1>3 DEF ThreeLoaded

(* Each byte of memory is that of its segment.                             *)
LEMMA LoadLoads ==
  ASSUME ImageInv, Load
  PROVE  /\ \A s \in ThreeLoaded : \A a : Within3(s, a) => a \in DOMAIN mem' /\ mem'[a] = LoadedCell(s, a)
         /\ \A a \in DOMAIN mem' : \E s \in ThreeLoaded : Within3(s, a)
<1> DEFINE loads == {s \in ToSet(image.segments) : s.memsz > 0}
           from(a) == CHOOSE s \in loads : Within3(s, a)
<1>1. mem' = [a \in UNION { s.vaddr .. s.vaddr + s.memsz - 1 : s \in loads } |-> LoadedCell(from(a), a)]
  BY DEF Load, Within3, LoadedCell
<1>2. TypeOK /\ ImageIsWritten
  BY DEF ImageInv, PagesInv, Load
<1>3. loads = {s \in ThreeLoaded : s.memsz > 0}
  BY <1>2, ThreeSegments DEF ImageIsWritten, ThreeLoaded
<1> HIDE DEF loads
<1>4. ASSUME NEW s \in ThreeLoaded, NEW a, Within3(s, a)
      PROVE  a \in DOMAIN mem' /\ mem'[a] = LoadedCell(s, a)
  <2>1. s.vaddr \in Int /\ s.memsz \in Int
    BY <1>2, SegmentsAreNumbers DEF ThreeLoaded
  <2>2. s.memsz > 0
    BY <1>4, <2>1 DEF Within3
  <2>3. s \in loads
    BY <1>3, <2>2
  <2>4. a \in DOMAIN mem' /\ mem'[a] = LoadedCell(from(a), a)
    BY <1>1, <1>4, <2>3 DEF Within3
  <2>5. from(a) \in loads /\ Within3(from(a), a)
    BY <1>4, <2>3
  <2> HIDE DEF from
  <2>6. from(a) = s
    BY <1>2, <1>3, <1>4, <2>5, SegmentsApart
  <2>7. QED
    BY <2>4, <2>6
<1>5. ASSUME NEW a \in DOMAIN mem'
      PROVE  \E s \in ThreeLoaded : Within3(s, a)
  BY <1>1, <1>3, <1>5 DEF Within3
<1>6. QED
  BY <1>4, <1>5

(* What follows from the lowering stays with it.                           *)
LEMMA LoweredStays ==
  ASSUME UNCHANGED <<prog, mode, lowering>>
  PROVE  /\ emit' = emit /\ prog' = prog /\ mode' = mode
         /\ SameParts
         /\ CodeAt' = CodeAt /\ DataAt' = DataAt /\ HeapAt' = HeapAt
         /\ AppliedCode' = AppliedCode /\ AppliedData' = AppliedData
<1>1. /\ emit' = emit /\ prog' = prog /\ mode' = mode /\ starts' = starts /\ places' = places
      /\ helperAt' = helperAt
  BY DEF lowering
<1>2. SameParts
  BY <1>1 DEF SameParts
<1>3. CodeAt' = CodeAt /\ DataAt' = DataAt /\ HeapAt' = HeapAt
  BY <1>2, PartsStay
<1>4. AppliedCode' = AppliedCode
  BY <1>1, <1>3 DEF AppliedCode, Applied, Target
<1>5. AppliedData' = AppliedData
  BY <1>1, <1>3 DEF AppliedData, Applied, Target
<1>6. QED
  BY <1>1, <1>2, <1>3, <1>4, <1>5

LEMMA LinkedLater ==
  ASSUME LinkInv, phase \notin Lowering, UNCHANGED <<prog, mode, lowering>>
  PROVE  Linked(emit.relocs)'
<1>1. Linked(emit.relocs) /\ SameParts /\ emit' = emit
  BY LoweredStays DEF LinkInv
<1>2. emit.relocs = emit'.relocs
  BY <1>1
<1>3. QED
  BY <1>1, <1>2, LinkedNext

LEMMA WriteImageLinks ==
  ASSUME ImageInv, LinkInv, WriteImage
  PROVE  LinkInv'
<1>1. phase = "write" /\ phase' = "load" /\ UNCHANGED <<prog, mode, lowering>> /\ mode # "jit"
  BY DEF WriteImage, ImageInv, PagesInv
<1>2. CodeAt = BlobVaddr /\ DataAt = DataVaddr /\ HeapAt = HeapVaddr
  BY <1>1 DEF CodeAt, DataAt, HeapAt
<1>3. image'.code = AppliedCode /\ image'.data = AppliedData
  BY <1>2 DEF WriteImage, AppliedCode, AppliedData
<1>4. AppliedCode' = AppliedCode /\ AppliedData' = AppliedData
  BY <1>1, LoweredStays
<1>5. Linked(emit.relocs)'
  BY <1>1, LinkedLater DEF Lowering
<1>6. QED
  BY <1>1, <1>3, <1>4, <1>5 DEF LinkInv, Lowering

LEMMA LoadPlaces ==
  ASSUME ImageInv, LinkInv, Load
  PROVE  Placed'
<1> DEFINE b == BaseVaddr
           h == HeaderLen
           q == Preamble
           n == Len(emit.code)
           r == RxLen
           d == DataVaddr
           o == DataOffset
           m == Len(emit.data)
           v == HeapVaddr
           l == HeapLen
<1>1. /\ phase = "load" /\ UNCHANGED <<prog, mode, lowering>> /\ mode # "jit" /\ TypeOK /\ ImageIsWritten
      /\ image.code = AppliedCode /\ image.data = AppliedData
  BY DEF Load, ImageInv, PagesInv, LinkInv
<1>2. /\ CodeAt = b + h + q /\ DataAt = d /\ HeapAt = v
  BY <1>1 DEF CodeAt, DataAt, HeapAt, BlobVaddr, CodeVaddr
<1>3. /\ b \in Int /\ h \in Nat /\ q \in Nat /\ n \in Nat /\ r = h + q + n /\ o \in Int
      /\ d \in Int /\ m \in Nat /\ v \in Int /\ l \in Nat /\ b + r <= d /\ d + m <= v
      /\ r <= o /\ DOMAIN emit.code = 1 .. n /\ DOMAIN emit.data = 1 .. m
  BY <1>1, ImageLayout, LengthsAreNumbers
<1>4. /\ \A s \in ThreeLoaded : \A a : Within3(s, a) => a \in DOMAIN mem' /\ mem'[a] = LoadedCell(s, a)
      /\ \A a \in DOMAIN mem' : \E s \in ThreeLoaded : Within3(s, a)
  BY LoadLoads
<1>5. /\ CodeSegment \in ThreeLoaded /\ DataSegment \in ThreeLoaded /\ HeapSegment \in ThreeLoaded
      /\ \A s \in ThreeLoaded : s = CodeSegment \/ s = DataSegment \/ s = HeapSegment
  BY DEF ThreeLoaded
<1>6. /\ \A a : Within3(CodeSegment, a) <=> a \in b .. b + r - 1
      /\ \A a : Within3(DataSegment, a) <=> a \in d .. d + m - 1
      /\ \A a : Within3(HeapSegment, a) <=> a \in v .. v + l - 1
      /\ \A a : LoadedCell(CodeSegment, a) = IF a - b < r THEN FileCell(0 + a - b)
                                             ELSE Cell("heap", 0, a - b)
      /\ \A a : LoadedCell(DataSegment, a) = IF a - d < m THEN FileCell(o + a - d)
                                             ELSE Cell("heap", 0, a - d)
      /\ \A a : LoadedCell(HeapSegment, a) = IF a - v < 0 THEN FileCell(HeapSegment.offset + a - v)
                                             ELSE Cell("heap", 0, a - v)
  BY SegmentFields DEF Within3, LoadedCell
<1>7. /\ \A i \in DOMAIN emit.code : FileCell(h + q + i - 1) = image.code[i]
      /\ \A i \in DOMAIN emit.data : FileCell(o + i - 1) = image.data[i]
  BY <1>1, CodeByteInFile, DataByteInFile
<1> HIDE DEF b, h, q, n, r, d, o, m, v, l
<1>8. ASSUME NEW i \in DOMAIN emit.code
      PROVE  CodeAt + i - 1 \in DOMAIN mem' /\ mem'[CodeAt + i - 1] = AppliedCode[i]
  <2> DEFINE a == CodeAt + i - 1
  <2>1. a \in b .. b + r - 1 /\ a - b < r /\ 0 + a - b = h + q + i - 1
    <3>1. /\ i \in 1 .. n /\ a = b + h + q + i - 1 /\ b \in Int /\ h \in Nat /\ q \in Nat
          /\ n \in Nat /\ r = h + q + n
      BY <1>2, <1>3
    <3> HIDE DEF a
    <3>2. QED
      BY <3>1
  <2> HIDE DEF a
  <2>2. a \in DOMAIN mem' /\ mem'[a] = FileCell(h + q + i - 1)
    BY <1>4, <1>5, <1>6, <2>1
  <2>3. QED
    BY <1>1, <1>7, <2>2 DEF a
<1>9. ASSUME NEW i \in DOMAIN emit.data
      PROVE  DataAt + i - 1 \in DOMAIN mem' /\ mem'[DataAt + i - 1] = AppliedData[i]
  <2> DEFINE a == DataAt + i - 1
  <2>1. a \in d .. d + m - 1 /\ a - d < m /\ o + a - d = o + i - 1
    <3>1. i \in 1 .. m /\ a = d + i - 1 /\ d \in Int /\ m \in Nat /\ o \in Int
      BY <1>2, <1>3
    <3> HIDE DEF a
    <3>2. QED
      BY <3>1
  <2> HIDE DEF a
  <2>2. a \in DOMAIN mem' /\ mem'[a] = FileCell(o + i - 1)
    BY <1>4, <1>5, <1>6, <2>1
  <2>3. QED
    BY <1>1, <1>7, <2>2 DEF a
<1>10. ASSUME prog.heap > 0
       PROVE  HeapAt \in DOMAIN mem' /\ mem'[HeapAt] = Cell("heap", 0, 0)
  <2>1. l > 0
    <3>1. prog.heap \in Nat /\ Page \in Nat \ {0}
      BY <1>1, LengthsAreNumbers
    <3>2. l \in Int /\ prog.heap <= l
      BY <3>1, AlignUpHolds DEF l, HeapLen
    <3>3. QED
      BY <1>10, <3>1, <3>2
  <2>2. v \in v .. v + l - 1 /\ ~ (v - v < 0) /\ v - v = 0
    BY <1>3, <2>1
  <2>3. QED
    BY <1>2, <1>4, <1>5, <1>6, <2>2
<1>11. ASSUME NEW a \in DOMAIN mem'
       PROVE  /\ a \in Int
              /\ mem'[a].what \in CodeKinds => a - CodeAt + 1 \in DOMAIN emit.code
              /\ mem'[a].what \in DataKinds => a - DataAt + 1 \in DOMAIN emit.data
  <2>1. PICK s \in ThreeLoaded : Within3(s, a)
    BY <1>4
  <2>2. mem'[a] = LoadedCell(s, a)
    BY <1>4, <2>1
  <2>3. CASE s = CodeSegment
    <3> DEFINE k == 0 + a - b
    <3>1. a \in b .. b + r - 1 /\ a - b < r /\ k \in Int /\ 0 <= k /\ k < r /\ a \in Int
      BY <1>3, <1>6, <2>1, <2>3
    <3>2. mem'[a] = FileCell(k)
      BY <1>6, <2>2, <2>3, <3>1
    <3>3. a = b + k
      BY <1>3, <3>1
    <3> HIDE DEF k
    <3>4. FileCell(k).what \in CodeKinds \cup {"header", "preamble"}
      BY <1>1, <3>1, CodeInFile DEF r
    <3>5. FileCell(k).what \notin DataKinds
      BY <3>4, KindsDiffer
    <3>6. CASE k < h + q
      <4>1. FileCell(k).what \in {"header", "preamble"}
        <5>1. FileCell(k) = IF k < h THEN Cell("header", 0, k) ELSE Cell("preamble", 0, k - h)
          <6>1. /\ k < h => k \notin h .. (h + q) - 1
                /\ ~ (k < h) => k \in h .. (h + q) - 1
                /\ k \notin h + q .. r - 1 /\ k \notin o .. o + Len(image.data) - 1
            BY <1>3, <3>1, <3>6
          <6>2. k < h => FileCell(k) = Cell("header", 0, k)
            BY <6>1 DEF FileCell, h, q, r, o
          <6>3. ~ (k < h) => FileCell(k) = Cell("preamble", 0, k - h)
            BY <6>1 DEF FileCell, h, q, r, o
          <6>4. QED
            BY <6>2, <6>3
        <5>2. QED
          BY <5>1 DEF Cell
      <4>2. QED
        BY <3>1, <3>2, <3>5, <4>1, KindsDiffer
    <3>7. CASE ~ (k < h + q)
      <4>1. a - CodeAt + 1 \in 1 .. n
        BY <1>2, <1>3, <3>1, <3>3, <3>7
      <4>2. QED
        BY <1>3, <3>1, <3>2, <3>5, <4>1
    <3>8. QED
      BY <3>6, <3>7
  <2>4. CASE s = DataSegment
    <3> DEFINE k == a - d
    <3>1. a \in d .. d + m - 1 /\ a - d < m /\ k \in Nat /\ k < m /\ o + a - d = o + k
          /\ a - DataAt + 1 \in 1 .. m /\ a \in Int
      BY <1>2, <1>3, <1>6, <2>1, <2>4
    <3>2. mem'[a] = FileCell(o + k)
      BY <1>6, <2>2, <2>4, <3>1
    <3> HIDE DEF k
    <3>3. FileCell(o + k).what \in DataKinds
      BY <1>1, <3>1, DataInFile DEF o, m
    <3>4. QED
      BY <1>3, <3>1, <3>2, <3>3, KindsDiffer
  <2>5. CASE s = HeapSegment
    <3>1. a \in v .. v + l - 1 /\ ~ (a - v < 0) /\ a \in Int
      BY <1>3, <1>6, <2>1, <2>5
    <3>2. mem'[a] = Cell("heap", 0, a - v)
      BY <1>6, <2>2, <2>5, <3>1
    <3>3. mem'[a].what = "heap"
      BY <3>2 DEF Cell
    <3>4. "heap" \notin DataKinds
      BY DEF DataKinds
    <3>5. QED
      BY <3>1, <3>3, <3>4, KindsDiffer
  <2>6. QED
    BY <1>5, <2>3, <2>4, <2>5
<1>12. /\ emit' = emit /\ prog' = prog /\ CodeAt' = CodeAt /\ DataAt' = DataAt /\ HeapAt' = HeapAt
       /\ AppliedCode' = AppliedCode /\ AppliedData' = AppliedData
  BY <1>1, LoweredStays
<1>13. QED
  BY <1>8, <1>9, <1>10, <1>11, <1>12 DEF Placed

LEMMA FillPlaces ==
  ASSUME ImageInv, Fill
  PROVE  Placed'
<1> DEFINE n == Len(emit.code)
           m == Len(emit.data)
           b == Mapped
           d == JitData
           v == JitHeap
           l == HeapLen
           cell(a) == CASE a - b < n -> AppliedCode[a - b + 1]
                        [] a \in d .. d + m - 1 -> AppliedData[a - d + 1]
                        [] a >= v -> Cell("heap", 0, a - v)
                        [] OTHER -> Zero
<1>1. phase = "fill" /\ UNCHANGED <<prog, mode, lowering>> /\ mode = "jit" /\ TypeOK
  BY DEF Fill, ImageInv, PagesInv
<1>2. CodeAt = b /\ DataAt = d /\ HeapAt = v
  BY <1>1 DEF CodeAt, DataAt, HeapAt
<1>3. mem' = [a \in b .. b + Total - 1 |-> cell(a)]
  BY <1>2 DEF Fill, AppliedCode, AppliedData
<1>4. /\ b \in Int /\ d \in Int /\ v \in Int /\ n \in Nat /\ m \in Nat /\ l \in Nat
      /\ b + n <= d /\ d + m <= v /\ b + Total = v + l /\ Total \in Int
      /\ DOMAIN emit.code = 1 .. n /\ DOMAIN emit.data = 1 .. m
  <2>1. /\ CodeR \in Nat /\ n <= CodeR /\ DataR \in Nat /\ m <= DataR /\ l \in Nat
        /\ n \in Nat /\ m \in Nat /\ b \in Nat
        /\ d = b + CodeR /\ v = b + CodeR + DataR /\ Total = CodeR + DataR + l
        /\ DOMAIN emit.code = 1 .. n /\ DOMAIN emit.data = 1 .. m
    <3>1. /\ n \in Nat /\ m \in Nat /\ b \in Nat
          /\ DOMAIN emit.code = 1 .. n /\ DOMAIN emit.data = 1 .. m
      BY <1>1, LengthsAreNumbers
    <3>2. /\ CodeR \in Nat /\ n <= CodeR /\ DataR \in Nat /\ m <= DataR /\ l \in Nat
          /\ d = b + CodeR /\ v = b + CodeR + DataR /\ Total = CodeR + DataR + l
      BY <1>1, JitLayout
    <3>3. QED
      BY <3>1, <3>2
  <2> HIDE DEF n, m, b, d, v, l
  <2>2. QED
    BY <2>1
<1> HIDE DEF n, m, b, d, v, l
<1>5. DOMAIN mem' = b .. b + Total - 1 /\ \A a \in b .. b + Total - 1 : mem'[a] = cell(a)
  BY <1>3
<1>6. ASSUME NEW i \in DOMAIN emit.code
      PROVE  CodeAt + i - 1 \in DOMAIN mem' /\ mem'[CodeAt + i - 1] = AppliedCode[i]
  <2> DEFINE a == b + i - 1
  <2>1. i \in 1 .. n
    BY <1>4
  <2>2. a \in b .. b + Total - 1 /\ a - b < n /\ a \notin d .. d + m - 1 /\ ~ (a >= v) /\ a - b + 1 = i
    BY <1>4, <2>1
  <2>3. a = CodeAt + i - 1
    BY <1>2
  <2> HIDE DEF a
  <2>4. cell(a) = AppliedCode[i]
    BY <2>2
  <2>5. QED
    BY <1>5, <2>2, <2>3, <2>4
<1>7. ASSUME NEW i \in DOMAIN emit.data
      PROVE  DataAt + i - 1 \in DOMAIN mem' /\ mem'[DataAt + i - 1] = AppliedData[i]
  <2> DEFINE a == d + i - 1
  <2>1. i \in 1 .. m
    BY <1>4
  <2>2. a \in b .. b + Total - 1 /\ ~ (a - b < n) /\ a \in d .. d + m - 1 /\ ~ (a >= v) /\ a - d + 1 = i
    BY <1>4, <2>1
  <2>3. a = DataAt + i - 1
    BY <1>2
  <2> HIDE DEF a
  <2>4. cell(a) = AppliedData[i]
    BY <2>2
  <2>5. QED
    BY <1>5, <2>2, <2>3, <2>4
<1>8. ASSUME prog.heap > 0
      PROVE  HeapAt \in DOMAIN mem' /\ mem'[HeapAt] = Cell("heap", 0, 0)
  <2>1. l > 0
    <3>1. prog.heap \in Nat /\ Page \in Nat \ {0}
      BY <1>1, LengthsAreNumbers
    <3>2. l \in Int /\ prog.heap <= l
      BY <3>1, AlignUpHolds DEF l, HeapLen
    <3>3. QED
      BY <1>8, <3>1, <3>2
  <2>2. /\ v \in b .. b + Total - 1 /\ ~ (v - b < n) /\ v \notin d .. d + m - 1 /\ v >= v
        /\ v - v = 0
    BY <1>4, <2>1
  <2>3. cell(v) = Cell("heap", 0, 0)
    BY <2>2
  <2>4. QED
    BY <1>2, <1>5, <2>2, <2>3
<1>9. ASSUME NEW a \in DOMAIN mem'
      PROVE  /\ a \in Int
             /\ mem'[a].what \in CodeKinds => a - CodeAt + 1 \in DOMAIN emit.code
             /\ mem'[a].what \in DataKinds => a - DataAt + 1 \in DOMAIN emit.data
  <2>1. a \in b .. b + Total - 1 /\ mem'[a] = cell(a)
    BY <1>5
  <2>0. a \in Int
    BY <1>4, <2>1
  <2>2. /\ AppliedCode \in Seq(CellOf(CodeKinds)) /\ Len(AppliedCode) = n
        /\ AppliedData \in Seq(CellOf(DataKinds)) /\ Len(AppliedData) = m
    <3>1. phase \notin {"data", "functions"} /\ CodeAt \in Int /\ DataAt \in Int /\ HeapAt \in Int
      BY <1>1, <1>2, <1>4
    <3>2. QED
      BY <1>1, <3>1, LengthsAreNumbers, AppliedKeepsCells DEF AppliedCode, AppliedData, n, m
  <2>3. CASE a - b < n
    <3> DEFINE i == a - b + 1
    <3>1. i \in 1 .. n /\ a \notin d .. d + m - 1 /\ ~ (a >= v)
      BY <1>4, <2>1, <2>3
    <3>2. cell(a) = AppliedCode[i]
      BY <2>3, <3>1
    <3>3. a - CodeAt + 1 = i
      BY <1>2
    <3> HIDE DEF i
    <3>4. AppliedCode[i] \in CellOf(CodeKinds)
      BY <2>2, <3>1
    <3>5. AppliedCode[i].what \in CodeKinds
      BY <3>4 DEF CellOf
    <3>6. QED
      <4>1. mem'[a].what \in CodeKinds /\ mem'[a].what \notin DataKinds
        BY <2>1, <3>2, <3>5, KindsDiffer
      <4>2. a - CodeAt + 1 \in DOMAIN emit.code
        BY <1>4, <3>1, <3>3
      <4>3. QED
        BY <2>0, <4>1, <4>2
  <2>4. CASE a \in d .. d + m - 1
    <3> DEFINE i == a - d + 1
    <3>1. i \in 1 .. m /\ ~ (a - b < n) /\ ~ (a >= v)
      <4>1. a >= d /\ a <= d + m - 1
        BY <1>4, <2>0, <2>4
      <4>2. i \in Int /\ i >= 1 /\ i <= m
        BY <1>4, <2>0, <4>1
      <4>3. ~ (a >= v)
        BY <1>4, <2>0, <4>1
      <4>4. a >= b + n
        BY <1>4, <2>0, <4>1
      <4>5. ~ (a - b < n)
        BY <1>4, <2>0, <4>4
      <4> HIDE DEF i
      <4>6. QED
        BY <1>4, <4>2, <4>3, <4>5
    <3>2. cell(a) = AppliedData[i]
      BY <2>4, <3>1
    <3>3. a - DataAt + 1 = i
      BY <1>2
    <3> HIDE DEF i
    <3>4. AppliedData[i] \in CellOf(DataKinds)
      BY <2>2, <3>1
    <3>5. AppliedData[i].what \in DataKinds
      BY <3>4 DEF CellOf
    <3>6. QED
      <4>1. mem'[a].what \in DataKinds /\ mem'[a].what \notin CodeKinds
        BY <2>1, <3>2, <3>5, KindsDiffer
      <4>2. a - DataAt + 1 \in DOMAIN emit.data
        BY <1>4, <3>1, <3>3
      <4>3. QED
        BY <2>0, <4>1, <4>2
  <2>5. CASE ~ (a - b < n) /\ a \notin d .. d + m - 1
    <3>1. cell(a) = IF a >= v THEN Cell("heap", 0, a - v) ELSE Zero
      BY <2>5
    <3>2. cell(a).what \in {"heap", "zero"}
      BY <3>1 DEF Cell, Zero
    <3>3. "heap" \notin DataKinds
      BY DEF DataKinds
    <3>4. QED
      BY <2>0, <2>1, <3>2, <3>3, KindsDiffer
  <2>6. QED
    BY <2>3, <2>4, <2>5
<1>10. /\ emit' = emit /\ prog' = prog /\ CodeAt' = CodeAt /\ DataAt' = DataAt /\ HeapAt' = HeapAt
       /\ AppliedCode' = AppliedCode /\ AppliedData' = AppliedData
  BY <1>1, LoweredStays
<1>11. QED
  BY <1>6, <1>7, <1>8, <1>9, <1>10 DEF Placed

LEMMA PlacedStays ==
  ASSUME Placed, UNCHANGED <<prog, mode, lowering, mem>>
  PROVE  Placed'
<1>1. /\ emit' = emit /\ prog' = prog /\ CodeAt' = CodeAt /\ DataAt' = DataAt /\ HeapAt' = HeapAt
      /\ AppliedCode' = AppliedCode /\ AppliedData' = AppliedData
  BY LoweredStays
<1>2. mem' = mem
  OBVIOUS
<1>3. QED
  BY <1>1, <1>2 DEF Placed

(* Each step keeps what is linked, linked, and puts it where it is to be.  *)
LEMMA StepLinks ==
  ASSUME NamesExist, OperandsFit, ImageInv, LinkInv, [Next]_vars
  PROVE  LinkInv'
<1> USE DEF ImageInv
<1>1. CASE LayOutData
  BY <1>1, LayOutDataLinks
<1>2. CASE EmitFunction
  BY <1>2, EmitFunctionLinks
<1>3. CASE AppendHelpers
  BY <1>3, AppendHelpersLinks
<1>4. CASE CollectRelocs
  BY <1>4, CollectRelocsLinks
<1>5. CASE WriteImage
  BY <1>5, WriteImageLinks
<1>6. CASE Load
  <2>1. phase = "load" /\ phase' = "run" /\ UNCHANGED <<prog, mode, lowering>>
    BY <1>6 DEF Load
  <2>2. Linked(emit.relocs)'
    BY <2>1, LinkedLater DEF Lowering
  <2>3. Placed'
    BY <1>6, LoadPlaces
  <2>4. QED
    BY <2>1, <2>2, <2>3 DEF LinkInv, Lowering
<1>7. CASE Fill
  <2>1. phase = "fill" /\ phase' = "protect" /\ UNCHANGED <<prog, mode, lowering>>
    BY <1>7 DEF Fill
  <2>2. Linked(emit.relocs)'
    BY <2>1, LinkedLater DEF Lowering
  <2>3. Placed'
    BY <1>7, FillPlaces
  <2>4. QED
    BY <2>1, <2>2, <2>3 DEF LinkInv, Lowering
<1>8. CASE Map \/ Run \/ Unmap
  <2>1. /\ phase \notin Lowering /\ phase' \notin Lowering /\ UNCHANGED <<prog, mode, lowering>>
        /\ phase' \notin {"load", "protect", "run"}
    BY <1>8 DEF Map, Run, Unmap, Fail, Lowering
  <2>2. Linked(emit.relocs)'
    BY <2>1, LinkedLater
  <2>3. QED
    BY <2>1, <2>2 DEF LinkInv, Lowering
<1>9. CASE Protect
  <2>1. /\ phase = "protect" /\ phase' \in {"run", "returned"}
        /\ UNCHANGED <<prog, mode, lowering, mem>>
    BY <1>9 DEF Protect, Fail
  <2>2. Linked(emit.relocs)'
    BY <2>1, LinkedLater DEF Lowering
  <2>3. Placed'
    BY <2>1, PlacedStays DEF LinkInv
  <2>4. QED
    BY <2>1, <2>2, <2>3 DEF LinkInv, Lowering
<1>10. CASE UNCHANGED vars
  <2>1. UNCHANGED <<prog, mode, lowering, mem, phase, image, uses>>
    BY <1>10 DEF vars, running, lowering
  <2>2. CASE phase \in Lowering
    BY <2>1, <2>2 DEF LinkInv, Lowering, lowering
  <2>3. CASE phase \notin Lowering
    <3>1. Linked(emit.relocs)'
      BY <2>1, <2>3, LinkedLater
    <3>2. phase \in {"protect", "run"} => Placed'
      BY <2>1, PlacedStays DEF LinkInv
    <3>3. phase = "load" => image.code' = AppliedCode' /\ image.data' = AppliedData'
      BY <2>1, LoweredStays DEF LinkInv
    <3>4. QED
      BY <2>1, <2>3, <3>1, <3>2, <3>3 DEF LinkInv, Lowering
  <2>4. QED
    BY <2>2, <2>3
<1>11. QED
  BY <1>1, <1>2, <1>3, <1>4, <1>5, <1>6, <1>7, <1>8, <1>9, <1>10 DEF Next

-----------------------------------------------------------------------------
(* What relocation leaves in the operands.                                 *)

SpansOf(section) == [k \in DOMAIN emit.relocs |->
  [site |-> emit.relocs[k].site,
   width |-> IF emit.relocs[k].section # section THEN 0
             ELSE IF emit.relocs[k].kind = "Abs64" THEN 8
             ELSE IF section = "code" THEN 4 ELSE 0]]

ValueOf(r, code, data, heap) ==
  IF r.kind = "Abs64" THEN Target(r.sym, code, data, heap)
  ELSE Target(r.sym, code, data, heap) - (code + r.site + 4)
ValuesOf(code, data, heap) == [k \in DOMAIN emit.relocs |-> ValueOf(emit.relocs[k], code, data, heap)]

LEMMA AppliedIs ==
  ASSUME NEW cells, NEW section, NEW code, NEW data, NEW heap
  PROVE  Applied(cells, section, code, data, heap)
           = Patched(cells, SpansOf(section), ValuesOf(code, data, heap))
BY DEF Applied, SpansOf, ValuesOf, ValueOf

SectionCells(section) == IF section = "code" THEN emit.code ELSE emit.data

(* The spans over a byte are those of the relocations of its operand.      *)
Own(section, s) ==
  { k \in DOMAIN emit.relocs : emit.relocs[k].section = section /\ emit.relocs[k].site = s }

LEMMA SpansHaveTheirType ==
  ASSUME TypeOK, NEW section
  PROVE  /\ Len(emit.relocs) \in Nat /\ DOMAIN emit.relocs = 1 .. Len(emit.relocs)
         /\ \A k \in DOMAIN emit.relocs : emit.relocs[k] \in Reloc /\ emit.relocs[k].site \in Int
         /\ SpansOf(section) \in [1 .. Len(emit.relocs) -> [site : Int, width : Int]]
<1>1. emit.relocs \in Seq(Reloc)
  BY DEF TypeOK, Emitter
<1>2. Len(emit.relocs) \in Nat /\ DOMAIN emit.relocs = 1 .. Len(emit.relocs)
  BY <1>1
<1>3. \A k \in DOMAIN emit.relocs : emit.relocs[k] \in Reloc
  BY <1>1, Element
<1>4. \A k \in DOMAIN emit.relocs : emit.relocs[k].site \in Int
  BY <1>3 DEF Reloc
<1>5. SpansOf(section) \in [1 .. Len(emit.relocs) -> [site : Int, width : Int]]
  BY <1>2, <1>4 DEF SpansOf
<1>6. QED
  BY <1>2, <1>3, <1>4, <1>5

LEMMA SpanWidth ==
  ASSUME TypeOK, Linked(emit.relocs), NEW section \in {"code", "data"}, NEW k \in DOMAIN emit.relocs
  PROVE  /\ SpansOf(section)[k].site = emit.relocs[k].site
         /\ SpansOf(section)[k].width = IF emit.relocs[k].section = section THEN Width(emit.relocs[k]) ELSE 0
         /\ Width(emit.relocs[k]) \in {4, 8}
<1>1. emit.relocs[k].kind \in {"Abs64", "Rel32Call"}
  BY SpansHaveTheirType DEF Reloc
<1>2. emit.relocs[k].section = "data" => emit.relocs[k].kind = "Abs64"
  BY DEF Linked
<1>3. QED
  BY <1>1, <1>2 DEF SpansOf, Width

LEMMA OverIsOwn ==
  ASSUME TypeOK, Linked(emit.relocs), NEW section \in {"code", "data"}, NEW i \in Int,
         NEW k \in Over(SpansOf(section), i)
  PROVE  k \in Own(section, SiteOf(SectionCells(section), i))
<1> DEFINE r == emit.relocs[k]
           m == i - r.site
<1>1. k \in DOMAIN emit.relocs /\ r.site \in Int
  BY SpansHaveTheirType DEF Over, SpansOf
<1>2. r.section = section /\ m \in 1 .. Width(r)
  BY <1>1, SpanWidth DEF Over
<1>3. Fills(r, SectionCells(section))
  BY <1>1, <1>2 DEF Linked, SectionCells
<1>4. SiteOf(SectionCells(section), r.site + m) = r.site
  BY <1>2, <1>3 DEF Fills
<1>5. r.site + m = i
  BY <1>1
<1>6. QED
  BY <1>1, <1>2, <1>4, <1>5 DEF Own

LEMMA OwnIsOver ==
  ASSUME TypeOK, Linked(emit.relocs), NEW section \in {"code", "data"}, NEW s \in Int,
         NEW k \in Own(section, s)
  PROVE  /\ k \in DOMAIN emit.relocs /\ Fills(emit.relocs[k], SectionCells(section))
         /\ Width(emit.relocs[k]) = WidthAt(SectionCells(section), s)
         /\ WidthAt(SectionCells(section), s) \in {4, 8}
         /\ \A m \in 1 .. WidthAt(SectionCells(section), s) :
              /\ k \in Over(SpansOf(section), s + m)
              /\ s + m \in DOMAIN SectionCells(section) /\ SiteOf(SectionCells(section), s + m) = s
<1>1. /\ k \in DOMAIN emit.relocs /\ emit.relocs[k].section = section /\ emit.relocs[k].site = s
      /\ DOMAIN SpansOf(section) = DOMAIN emit.relocs
  BY DEF Own, SpansOf
<1>2. Fills(emit.relocs[k], SectionCells(section))
  BY <1>1 DEF Linked, SectionCells
<1>3. /\ Width(emit.relocs[k]) = WidthAt(SectionCells(section), s)
      /\ Width(emit.relocs[k]) \in {4, 8}
      /\ \A m \in 1 .. Width(emit.relocs[k]) :
           s + m \in DOMAIN SectionCells(section) /\ SiteOf(SectionCells(section), s + m) = s
  BY <1>1, <1>2, SpanWidth DEF Fills
<1>4. SpansOf(section)[k].site = s /\ SpansOf(section)[k].width = WidthAt(SectionCells(section), s)
  BY <1>1, <1>3, SpanWidth
<1>5. ASSUME NEW m \in 1 .. WidthAt(SectionCells(section), s)
      PROVE  k \in Over(SpansOf(section), s + m)
  <2>1. (s + m) - s = m
    BY <1>3
  <2>2. QED
    BY <1>1, <1>4, <2>1 DEF Over
<1>6. QED
  BY <1>1, <1>2, <1>3, <1>5

AppliedTo(section) == Applied(SectionCells(section), section, CodeAt, DataAt, HeapAt)

LEMMA AppliedToIs == AppliedTo("code") = AppliedCode /\ AppliedTo("data") = AppliedData
BY DEF AppliedTo, AppliedCode, AppliedData, SectionCells

LEMMA SectionCellsAre ==
  ASSUME TypeOK, NEW section \in {"code", "data"}
  PROVE  \E kinds : SectionCells(section) \in Seq(CellOf(kinds))
BY LengthsAreNumbers DEF SectionCells

LEMMA AppliedIsLike ==
  ASSUME TypeOK, NEW section \in {"code", "data"}, NEW i \in DOMAIN SectionCells(section)
  PROVE  /\ DOMAIN AppliedTo(section) = DOMAIN SectionCells(section)
         /\ Like(AppliedTo(section)[i], SectionCells(section)[i])
<1> DEFINE spans == SpansOf(section)
           values == ValuesOf(CodeAt, DataAt, HeapAt)
<1>1. AppliedTo(section) = Patched(SectionCells(section), spans, values)
  BY AppliedIs DEF AppliedTo
<1>2. PICK kinds : SectionCells(section) \in Seq(CellOf(kinds))
  BY SectionCellsAre
<1> HIDE DEF spans, values
<1>3. DOMAIN Patched(SectionCells(section), spans, values) = DOMAIN SectionCells(section)
  BY DEF Patched
<1>4. Like(Patched(SectionCells(section), spans, values)[i], SectionCells(section)[i])
  BY <1>2, PatchedIsLike
<1>5. QED
  BY <1>1, <1>3, <1>4

LEMMA UntouchedByte ==
  ASSUME TypeOK, Linked(emit.relocs), NEW section \in {"code", "data"},
         NEW i \in DOMAIN SectionCells(section),
         SiteOf(SectionCells(section), i) \notin SitesIn(emit.relocs, section)
  PROVE  AppliedTo(section)[i] = SectionCells(section)[i]
<1> DEFINE spans == SpansOf(section)
           values == ValuesOf(CodeAt, DataAt, HeapAt)
<1>1. i \in Int
  <2>1. PICK kinds : SectionCells(section) \in Seq(CellOf(kinds))
    BY SectionCellsAre
  <2>2. QED
    BY <2>1
<1>2. Over(spans, i) = {}
  <2>1. SUFFICES ASSUME NEW k \in Over(spans, i) PROVE FALSE
    OBVIOUS
  <2>2. k \in Own(section, SiteOf(SectionCells(section), i))
    BY <1>1, OverIsOwn
  <2>3. SiteOf(SectionCells(section), i) \in SitesIn(emit.relocs, section)
    BY <2>2 DEF Own, SitesIn
  <2>4. QED
    BY <2>3
<1> HIDE DEF spans, values
<1>3. Patched(SectionCells(section), spans, values)[i] = SectionCells(section)[i]
  BY <1>2, PatchedApart
<1>4. QED
  BY <1>3, AppliedIs DEF AppliedTo, spans, values

(* An operand that has its relocations holds the value of one of them.     *)
OperandHolds(section, s, k) ==
  /\ k \in Own(section, s)
  /\ \A m \in 1 .. WidthAt(SectionCells(section), s) :
       /\ AppliedTo(section)[s + m].value = ValueOf(emit.relocs[k], CodeAt, DataAt, HeapAt)
       /\ AppliedTo(section)[s + m].part = m - 1

LEMMA OperandIsFilled ==
  ASSUME TypeOK, Linked(emit.relocs), NEW section \in {"code", "data"},
         NEW s \in SitesIn(emit.relocs, section)
  PROVE  \E k \in Own(section, s) : OperandHolds(section, s, k)
<1> DEFINE spans == SpansOf(section)
           values == ValuesOf(CodeAt, DataAt, HeapAt)
           w == WidthAt(SectionCells(section), s)
           c == SectionCells(section)
           O == Own(section, s)
           last == Max(O)
           N == Len(emit.relocs)
<1>1. PICK n \in DOMAIN emit.relocs : emit.relocs[n].section = section /\ emit.relocs[n].site = s
  BY DEF SitesIn
<1>2. s \in Int /\ N \in Nat /\ DOMAIN emit.relocs = 1 .. N
  BY <1>1, SpansHaveTheirType
<1>3. n \in O /\ O \in SUBSET (1 .. N) /\ O # {}
  BY <1>1, <1>2 DEF Own
<1>4. /\ w \in {4, 8}
      /\ \A k \in O : \A m \in 1 .. w : k \in Over(spans, s + m)
      /\ \A m \in 1 .. w : s + m \in DOMAIN c /\ SiteOf(c, s + m) = s
  BY <1>2, <1>3, OwnIsOver
<1>5. ASSUME NEW m \in 1 .. w, NEW k \in Over(spans, s + m)
      PROVE  k \in O
  <2>1. s + m \in Int
    BY <1>2, <1>4
  <2>2. k \in Own(section, SiteOf(c, s + m))
    BY <2>1, OverIsOwn
  <2>3. QED
    BY <1>4, <2>2
<1>6. PICK kinds : c \in Seq(CellOf(kinds))
  BY SectionCellsAre
<1>7. AppliedTo(section) = Patched(c, spans, values)
  BY AppliedIs DEF AppliedTo
<1> HIDE DEF c, O, w
<1>8. last \in O
  BY <1>2, <1>3, LastIsOne
<1>9. spans[last].site = s /\ values[last] = ValueOf(emit.relocs[last], CodeAt, DataAt, HeapAt)
  BY <1>8 DEF O, Own, SpansOf, ValuesOf
<1> HIDE DEF spans, values, last
<1>10. ASSUME NEW m \in 1 .. w
       PROVE  AppliedTo(section)[s + m].value = values[last] /\ AppliedTo(section)[s + m].part = m - 1
  <2> DEFINE i == s + m
  <2>1. Over(spans, i) = O /\ i \in DOMAIN c
    BY <1>4, <1>5
  <2>2. i - spans[last].site - 1 = m - 1
    BY <1>2, <1>4, <1>9
  <2>3. c[i] \in CellOf(kinds)
    BY <1>6, <2>1, Element
  <2> HIDE DEF i
  <2>4. Patched(c, spans, values)[i] = Holding(c[i], values[last], i - spans[last].site - 1)
    BY <1>3, <2>1, PatchedOver DEF last
  <2>5. Patched(c, spans, values)[i] = Holding(c[i], values[last], m - 1)
    BY <2>2, <2>4
  <2>6. QED
    BY <1>7, <2>3, <2>5, HoldingHolds DEF i
<1>11. OperandHolds(section, s, last)
  BY <1>8, <1>9, <1>10 DEF OperandHolds, O, w, c
<1>12. QED
  BY <1>8, <1>11 DEF O

-----------------------------------------------------------------------------
(* What memory holds.                                                      *)

BaseOf(section) == IF section = "code" THEN CodeAt ELSE DataAt

LEMMA ByteIsPlaced ==
  ASSUME TypeOK, Placed, NEW section \in {"code", "data"}, NEW i \in DOMAIN SectionCells(section)
  PROVE  /\ BaseOf(section) + i - 1 \in DOMAIN mem
         /\ mem[BaseOf(section) + i - 1] = AppliedTo(section)[i]
         /\ Like(mem[BaseOf(section) + i - 1], SectionCells(section)[i])
<1>1. /\ BaseOf(section) + i - 1 \in DOMAIN mem
      /\ mem[BaseOf(section) + i - 1] = AppliedTo(section)[i]
  BY AppliedToIs DEF Placed, BaseOf, SectionCells
<1>2. Like(AppliedTo(section)[i], SectionCells(section)[i])
  BY AppliedIsLike
<1>3. QED
  BY <1>1, <1>2

LEMMA WhatIsPlaced ==
  ASSUME TypeOK, Placed, NEW section \in {"code", "data"}, NEW i \in DOMAIN SectionCells(section)
  PROVE  What(BaseOf(section) + i - 1)
           = <<SectionCells(section)[i].what, SectionCells(section)[i].of, SectionCells(section)[i].byte>>
BY ByteIsPlaced DEF What, Like

(* What a symbol names is at its target.                                   *)
LEMMA NamedIsThere ==
  ASSUME TypeOK, Placed, NEW sym, NEW means, Names(sym, means)
  PROVE  What(Target(sym, CodeAt, DataAt, HeapAt)) = Named(means)
<1> DEFINE t == Target(sym, CodeAt, DataAt, HeapAt)
<1>1. \/ \E i \in DOMAIN emit.code : t = CodeAt + i - 1 /\ Is(emit.code[i], Named(means))
      \/ \E i \in DOMAIN emit.data : t = DataAt + i - 1 /\ Is(emit.data[i], Named(means))
      \/ t = HeapAt /\ prog.heap > 0 /\ Named(means) = <<"heap", 0, 0>>
  BY DEF Names
<1> HIDE DEF t
<1>2. ASSUME NEW i \in DOMAIN emit.code, t = CodeAt + i - 1, Is(emit.code[i], Named(means))
      PROVE  What(t) = Named(means)
  <2>1. SectionCells("code") = emit.code /\ BaseOf("code") = CodeAt
    BY DEF SectionCells, BaseOf
  <2>2. What(t) = <<emit.code[i].what, emit.code[i].of, emit.code[i].byte>>
    BY <1>2, <2>1, WhatIsPlaced
  <2>3. QED
    BY <1>2, <2>2 DEF Is
<1>3. ASSUME NEW i \in DOMAIN emit.data, t = DataAt + i - 1, Is(emit.data[i], Named(means))
      PROVE  What(t) = Named(means)
  <2>1. SectionCells("data") = emit.data /\ BaseOf("data") = DataAt
    BY DEF SectionCells, BaseOf
  <2>2. What(t) = <<emit.data[i].what, emit.data[i].of, emit.data[i].byte>>
    BY <1>3, <2>1, WhatIsPlaced
  <2>3. QED
    BY <1>3, <2>2 DEF Is
<1>4. ASSUME t = HeapAt, prog.heap > 0, Named(means) = <<"heap", 0, 0>>
      PROVE  What(t) = Named(means)
  <2>1. t \in DOMAIN mem /\ mem[t] = Cell("heap", 0, 0)
    BY <1>4 DEF Placed
  <2>2. QED
    BY <1>4, <2>1 DEF What, Cell
<1>5. QED
  BY <1>1, <1>2, <1>3, <1>4 DEF t

LEMMA OperandIsReached ==
  ASSUME TypeOK, phase \notin {"data", "functions"}, Linked(emit.relocs), Placed,
         NEW section \in {"code", "data"}, NEW s \in SitesIn(emit.relocs, section)
  PROVE  Reaches(BaseOf(section) + s, WidthAt(SectionCells(section), s),
                 MeansAt(SectionCells(section), s))
<1> DEFINE w == WidthAt(SectionCells(section), s)
           c == SectionCells(section)
           b == BaseOf(section)
           a == b + s
           means == MeansAt(c, s)
<1>1. PICK k \in Own(section, s) : OperandHolds(section, s, k)
  BY OperandIsFilled
<1> DEFINE r == emit.relocs[k]
           v == ValueOf(r, CodeAt, DataAt, HeapAt)
           t == Target(r.sym, CodeAt, DataAt, HeapAt)
<1>2. /\ k \in DOMAIN emit.relocs /\ r.section = section /\ r.site = s /\ s \in Int
      /\ r \in Reloc
  BY SpansHaveTheirType DEF Own
<1>3. /\ Fills(r, c) /\ Width(r) = w /\ w \in {4, 8}
      /\ \A m \in 1 .. w : s + m \in DOMAIN c
  BY <1>2, OwnIsOver
<1>4. Names(r.sym, means)
  BY <1>2, <1>3 DEF Fills
<1>5. CodeAt \in Int /\ DataAt \in Int /\ HeapAt \in Int /\ b \in Int
  BY PartsAreAtNumbers DEF BaseOf
<1>6. t \in Int
  <2>1. r.sym \in Symbol
    BY <1>2 DEF Reloc
  <2>2. QED
    BY <1>5, <2>1, TargetIsNumber
<1>7. What(t) = Named(means)
  BY <1>4, NamedIsThere
<1>8. v = IF w = 8 THEN t ELSE t - (CodeAt + s + 4)
  BY <1>2, <1>3 DEF ValueOf, Width
<1>9. w = 4 => b = CodeAt
  <2>1. w = 4 => r.section # "data"
    BY <1>2, <1>3 DEF Linked, Width
  <2>2. QED
    BY <1>2, <2>1 DEF BaseOf
<1>10. \A m \in 1 .. w : /\ AppliedTo(section)[s + m].value = v
                         /\ AppliedTo(section)[s + m].part = m - 1
  BY <1>1 DEF OperandHolds
<1> HIDE DEF w, c, b, v, t, means
<1>11. ASSUME NEW j \in 0 .. w - 1
       PROVE  a + j \in DOMAIN mem /\ mem[a + j].value = v /\ mem[a + j].part = j
  <2>1. PICK m : m = j + 1
    OBVIOUS
  <2>2. m \in 1 .. w /\ m - 1 = j /\ b + (s + m) - 1 = a + j
    BY <1>2, <1>3, <1>5, <2>1
  <2>3. s + m \in DOMAIN c
    BY <1>3, <2>2
  <2>4. PICK i : i = s + m
    OBVIOUS
  <2>5. i \in DOMAIN c /\ b + i - 1 = a + j
    BY <2>2, <2>3, <2>4
  <2>6. b + i - 1 \in DOMAIN mem /\ mem[b + i - 1] = AppliedTo(section)[i]
    BY <2>5, ByteIsPlaced DEF c, b
  <2>7. AppliedTo(section)[i].value = v /\ AppliedTo(section)[i].part = m - 1
    BY <1>10, <2>2, <2>4
  <2>8. QED
    BY <2>2, <2>5, <2>6, <2>7
<1>12. mem[a].value = v
  <2>1. 0 \in 0 .. w - 1 /\ a + 0 = a
    BY <1>2, <1>3, <1>5
  <2>2. mem[a + 0].value = v
    BY <1>11, <2>1
  <2>3. QED
    BY <2>1, <2>2
<1>13. (IF w = 8 THEN v ELSE a + w + v) = t
  <2>1. CASE w = 8
    BY <1>8, <2>1
  <2>2. CASE w = 4
    <3>1. v = t - (b + s + 4) /\ a = b + s
      BY <1>8, <1>9, <2>2
    <3>2. a + 4 + v = t
      BY <1>2, <1>5, <1>6, <3>1
    <3>3. QED
      BY <2>2, <3>2
  <2>3. QED
    BY <1>3, <2>1, <2>2
<1>14. Reaches(a, w, means)
  <2> HIDE DEF a
  <2>1. QED
    BY <1>7, <1>11, <1>12, <1>13 DEF Reaches
<1>15. QED
  BY <1>14 DEF a, b, w, means, c

(* A call, a jump or an address in the code.                               *)
LEMMA LandedIsReached ==
  ASSUME TypeOK, Linked(emit.relocs), Placed, NEW q \in DOMAIN emit.code,
         Landed(emit.code, q), q \notin SitesIn(emit.relocs, "code")
  PROVE  Reaches(CodeAt + q, 4, emit.code[q].means)
<1> DEFINE c == emit.code
           a == CodeAt + q
           v == c[q + 1].value
           t == q + 5 + v
<1>1. /\ c \in Seq(CellOf(CodeKinds)) /\ DOMAIN c = 1 .. Len(c) /\ Len(c) \in Nat /\ CodeAt \in Int
      /\ SectionCells("code") = c /\ BaseOf("code") = CodeAt
  BY LengthsAreNumbers, PartsAreAtNumbers DEF SectionCells, BaseOf
<1>2. /\ q \in DOMAIN c /\ q + 4 <= Len(c)
      /\ \A m \in 1 .. 4 : /\ c[q + m].what = "window" /\ c[q + m].byte = m - 1
                           /\ c[q + m].value = v /\ c[q + m].part = m - 1
      /\ t \in DOMAIN c /\ c[t].what = "Block" /\ c[t].of = c[q].means.n
      /\ c[t].byte = c[q].means.fn /\ c[q].means.of = "Block"
  BY DEF Landed, WindowAt
<1>3. q \in 1 .. Len(c) /\ q \in Int
  BY <1>1
<1>4. v \in Int
  <2>1. q + 1 \in DOMAIN c
    <3>1. Len(c) \in Nat /\ DOMAIN c = 1 .. Len(c) /\ q \in 1 .. Len(c) /\ q + 4 <= Len(c)
      BY <1>1, <1>2, <1>3
    <3> HIDE DEF c
    <3>2. \A x, y \in Int : x >= 1 /\ x + 4 <= y => x + 1 \in 1 .. y
      OBVIOUS
    <3>3. q >= 1
      BY <1>3, <3>1
    <3>4. QED
      BY <1>3, <3>1, <3>2, <3>3
  <2>2. c[q + 1] \in CellOf(CodeKinds)
    BY <1>1, <2>1, Element
  <2>3. QED
    BY <2>2 DEF CellOf
<1> HIDE DEF c, v
<1>5. ASSUME NEW j \in 0 .. 3
      PROVE  a + j \in DOMAIN mem /\ mem[a + j].value = v /\ mem[a + j].part = j
  <2>1. PICK m : m = j + 1
    OBVIOUS
  <2>2. PICK i : i = q + m
    OBVIOUS
  <2>3. /\ m \in 1 .. 4 /\ m - 1 = j /\ i \in DOMAIN c /\ CodeAt + i - 1 = a + j
        /\ i - 1 - (m - 1) = q
    <3>1. /\ m \in 1 .. 4 /\ m \in Int /\ j \in Int /\ m - 1 = j /\ i = q + m /\ q \in 1 .. Len(c)
          /\ q + 4 <= Len(c) /\ Len(c) \in Nat /\ CodeAt \in Int
      BY <1>1, <1>2, <1>3, <2>1, <2>2
    <3>2. i \in 1 .. Len(c) /\ i - 1 - (m - 1) = q
      BY <3>1
    <3>3. CodeAt + i - 1 = CodeAt + q + j
      BY <3>1
    <3>4. QED
      BY <1>1, <3>1, <3>2, <3>3
  <2>4. c[i].what = "window" /\ c[i].byte = m - 1 /\ c[i].value = v /\ c[i].part = m - 1
    BY <1>2, <2>2, <2>3
  <2>5. SiteOf(c, i) = q
    BY <2>3, <2>4, SiteIs
  <2>6. AppliedTo("code")[i] = c[i]
    BY <1>1, <2>3, <2>5, UntouchedByte
  <2>7. CodeAt + i - 1 \in DOMAIN mem /\ mem[CodeAt + i - 1] = AppliedTo("code")[i]
    BY <1>1, <2>3, ByteIsPlaced
  <2>8. QED
    BY <2>3, <2>4, <2>6, <2>7
<1>6. mem[a].value = v
  <2>1. 0 \in 0 .. 3 /\ a + 0 = a
    BY <1>1, <1>3
  <2>2. mem[a + 0].value = v
    BY <1>5, <2>1
  <2>3. QED
    BY <2>1, <2>2
<1>7. What(a + 4 + v) = <<"Block", c[q].means.n, c[q].means.fn>>
  <2>1. CodeAt + t - 1 = a + 4 + v
    BY <1>1, <1>3, <1>4
  <2>2. What(CodeAt + t - 1) = <<c[t].what, c[t].of, c[t].byte>>
    BY <1>1, <1>2, WhatIsPlaced
  <2>3. QED
    BY <1>2, <2>1, <2>2
<1>8. Named(c[q].means) = <<"Block", c[q].means.n, c[q].means.fn>>
  BY <1>2 DEF Named, Helpers
<1>9. Reaches(a, 4, c[q].means)
  <2> HIDE DEF a
  <2>1. QED
    BY <1>5, <1>6, <1>7, <1>8 DEF Reaches
<1>10. QED
  BY <1>9 DEF a, c

LEMMA CodeByte ==
  ASSUME TypeOK, Placed, NEW a \in DOMAIN mem, mem[a].what \in CodeKinds
  PROVE  \E i \in DOMAIN emit.code : /\ i \in Int /\ a = CodeAt + i - 1 /\ a + 1 = CodeAt + i
                                     /\ a \in Int /\ Like(mem[a], emit.code[i])
<1>1. PICK i : i = a - CodeAt + 1
  OBVIOUS
<1>2. /\ i \in DOMAIN emit.code /\ CodeAt \in Int /\ a \in Int
      /\ SectionCells("code") = emit.code /\ BaseOf("code") = CodeAt
  BY <1>1, PartsAreAtNumbers DEF Placed, SectionCells, BaseOf
<1>3. i \in Int /\ a = CodeAt + i - 1 /\ a + 1 = CodeAt + i
  BY <1>1, <1>2
<1>4. Like(mem[a], emit.code[i])
  <2>1. Like(mem[CodeAt + i - 1], emit.code[i])
    BY <1>2, ByteIsPlaced
  <2>2. QED
    BY <1>3, <2>1
<1>5. QED
  BY <1>2, <1>3, <1>4

LEMMA OpIsReached ==
  ASSUME TypeOK, phase \notin {"data", "functions"}, Linked(emit.relocs), Placed,
         NEW a \in DOMAIN mem, mem[a].what = "op", What(a + 1)[1] # "op"
  PROVE  Reaches(a + 1, mem[a].of, mem[a].means)
<1> DEFINE c == emit.code
<1>1. mem[a].what \in CodeKinds
  BY DEF CodeKinds
<1>2. PICK i \in DOMAIN c : /\ i \in Int /\ a = CodeAt + i - 1 /\ a + 1 = CodeAt + i
                           /\ a \in Int /\ Like(mem[a], c[i])
  BY <1>1, CodeByte
<1>3. c[i].what = "op" /\ mem[a].of = c[i].of /\ mem[a].means = c[i].means
  BY <1>2 DEF Like
<1>4. /\ DOMAIN c = 1 .. Len(c) /\ Len(c) \in Nat /\ CodeAt \in Int
      /\ SectionCells("code") = c /\ BaseOf("code") = CodeAt
  BY LengthsAreNumbers, PartsAreAtNumbers DEF SectionCells, BaseOf
<1>5. Opens(c, i)
  <2>1. SUFFICES ASSUME i < Len(c), c[i + 1].what = "op" PROVE FALSE
    BY <1>2, <1>3 DEF Opens
  <2>2. PICK n : n = i + 1
    OBVIOUS
  <2>3. n \in DOMAIN c /\ CodeAt + n - 1 = a + 1
    <3>1. PICK l \in Nat : l = Len(c)
      BY <1>4
    <3>2. i \in 1 .. l /\ i < l /\ i \in Int
      BY <1>2, <1>4, <2>1, <3>1
    <3>3. n \in 1 .. l
      BY <2>2, <3>2
    <3>4. CodeAt + n - 1 = CodeAt + i
      BY <1>2, <1>4, <2>2
    <3>5. QED
      BY <1>2, <1>4, <3>1, <3>3, <3>4
  <2>4. What(a + 1) = <<c[n].what, c[n].of, c[n].byte>>
    BY <1>4, <2>3, WhatIsPlaced
  <2>5. QED
    BY <2>1, <2>2, <2>4
<1>6. CASE i \in SitesIn(emit.relocs, "code") /\ WindowAt(c, i, c[i].of) /\ c[i].of \in {4, 8}
  <2>1. c[i + 1].what = "window"
    <3>1. 1 \in 1 .. c[i].of
      BY <1>6
    <3>2. QED
      BY <1>6, <3>1 DEF WindowAt
  <2>2. WidthAt(c, i) = c[i].of /\ MeansAt(c, i) = c[i].means
    BY <2>1, MeansIs DEF WidthAt
  <2>3. Reaches(CodeAt + i, WidthAt(c, i), MeansAt(c, i))
    BY <1>4, <1>6, OperandIsReached
  <2>4. QED
    BY <1>2, <1>3, <2>2, <2>3
<1>7. CASE i \notin SitesIn(emit.relocs, "code") /\ Landed(c, i)
  <2>1. Reaches(CodeAt + i, 4, c[i].means)
    BY <1>7, LandedIsReached
  <2>2. c[i].of = 4
    BY <1>7 DEF Landed, WindowAt
  <2>3. QED
    BY <1>2, <1>3, <2>1, <2>2
<1>8. QED
  BY <1>5, <1>6, <1>7 DEF Linked

(* The operand of a helper.                                                *)
LEMMA HelperOperandIsReached ==
  ASSUME TypeOK, phase \notin {"data", "functions"}, Linked(emit.relocs), Placed,
         NEW a \in DOMAIN mem, mem[a].what \in Helpers, mem[a].byte = Movabs[mem[a].what]
  PROVE  Reaches(a + 1, 8, Sym(IF mem[a].what \in {"Alloc", "Release"} THEN "HeapBase"
                               ELSE "ExcState", 0))
<1> DEFINE c == emit.code
           h == mem[a].what
<1>1. h \in CodeKinds
  BY DEF CodeKinds
<1>2. PICK i \in DOMAIN c : /\ i \in Int /\ a = CodeAt + i - 1 /\ a + 1 = CodeAt + i
                           /\ a \in Int /\ Like(mem[a], c[i])
  BY <1>1, CodeByte
<1>3. c[i].what = h /\ c[i].byte = mem[a].byte
  BY <1>2 DEF Like
<1> HIDE DEF h
<1>4. i \in SitesIn(emit.relocs, "code") /\ c[i + 1].what = h /\ h \in Patchable
  BY <1>3 DEF Linked, h
<1>5. WidthAt(c, i) = 8
  <2>1. h # "window"
    BY <1>4, ExcHelperNames DEF Patchable
  <2>2. QED
    BY <1>4, <2>1 DEF WidthAt
<1>6. MeansAt(c, i) = Sym(IF h \in {"Alloc", "Release"} THEN "HeapBase" ELSE "ExcState", 0)
  BY <1>4, MeansIs DEF Patchable
<1>7. Reaches(CodeAt + i, WidthAt(c, i), MeansAt(c, i))
  BY <1>4, OperandIsReached DEF SectionCells, BaseOf
<1>8. QED
  BY <1>2, <1>5, <1>6, <1>7 DEF h

(* A word of a vtable.                                                     *)
LEMMA WordIsReached ==
  ASSUME TypeOK, phase \notin {"data", "functions"}, Linked(emit.relocs), Placed,
         NEW a \in DOMAIN mem, mem[a].what = "vtable", mem[a].byte % 8 = 0
  PROVE  LET f == prog.vtables[mem[a].of][mem[a].byte \div 8 + 1]
         IN  IF f = Hole THEN mem[a].part = None ELSE Reaches(a, 8, Sym("Fn", f))
<1> DEFINE d == emit.data
           f == prog.vtables[mem[a].of][mem[a].byte \div 8 + 1]
<1>1. mem[a].what \in DataKinds
  BY DEF DataKinds
<1>2. PICK i : i = a - DataAt + 1
  OBVIOUS
<1>3. /\ i \in DOMAIN d /\ DataAt \in Int /\ a \in Int
      /\ SectionCells("data") = d /\ BaseOf("data") = DataAt
  BY <1>1, <1>2, PartsAreAtNumbers DEF Placed, SectionCells, BaseOf
<1>4. i \in Int /\ a = DataAt + i - 1 /\ a = DataAt + (i - 1)
  BY <1>2, <1>3
<1>5. mem[a] = AppliedTo("data")[i] /\ Like(mem[a], d[i])
  <2>1. mem[DataAt + i - 1] = AppliedTo("data")[i] /\ Like(mem[DataAt + i - 1], d[i])
    BY <1>3, ByteIsPlaced
  <2>2. QED
    BY <1>4, <2>1
<1>6. d[i].what = "vtable" /\ d[i].of = mem[a].of /\ d[i].byte = mem[a].byte
  BY <1>5 DEF Like
<1>7. i - 1 \in SitesIn(emit.relocs, "data") <=> f # Hole
  BY <1>3, <1>6 DEF Linked
<1> HIDE DEF f
<1>8. CASE f = Hole
  <2>1. SiteOf(d, i) = i - 1
    <3>1. SiteOf(d, i) = i - 1 - (d[i].byte % 8)
      BY <1>6, SiteIs
    <3>2. QED
      BY <1>4, <1>6, <3>1
  <2>2. AppliedTo("data")[i] = d[i]
    BY <1>3, <1>7, <1>8, <2>1, UntouchedByte
  <2>3. d[i].part = None
    BY <1>3 DEF Linked
  <2>4. QED
    BY <1>5, <1>8, <2>2, <2>3 DEF f
<1>9. CASE f # Hole
  <2>1. PICK s : s = i - 1
    OBVIOUS
  <2>2. s + 1 = i /\ a = DataAt + s /\ s \in SitesIn(emit.relocs, "data")
    BY <1>4, <1>7, <1>9, <2>1
  <2>3. WidthAt(d, s) = 8
    BY <1>6, <2>2 DEF WidthAt
  <2>4. MeansAt(d, s) = Sym("Fn", f)
    BY <1>6, <2>2, MeansIs DEF f
  <2>5. Reaches(DataAt + s, WidthAt(d, s), MeansAt(d, s))
    BY <1>3, <2>2, OperandIsReached
  <2>6. QED
    BY <1>9, <2>2, <2>3, <2>4, <2>5 DEF f
<1>10. QED
  BY <1>8, <1>9 DEF f

(* And where execution begins.                                             *)
LEMMA EntryIsReached ==
  ASSUME TypeOK, Linked(emit.relocs), Placed
  PROVE  What(CASE mode = "elf" -> CodeVaddr
                [] mode = "preamble" -> CodeVaddr + PreambleLen
                [] mode = "jit" -> Mapped) = <<"Fn", 1, 0>>
<1>1. mode \in {"elf", "preamble", "jit"}
  BY ModesAssumption DEF TypeOK
<1>2. CodeAt \in Int /\ CodeVaddr \in Int
  BY PartsAreAtNumbers, LengthsAreNumbers DEF CodeVaddr, HeaderLen
<1>3. CodeAt = CASE mode = "elf" -> CodeVaddr
                 [] mode = "preamble" -> CodeVaddr + PreambleLen
                 [] mode = "jit" -> Mapped
  BY <1>1, <1>2 DEF CodeAt, BlobVaddr, Preamble
<1>4. 1 \in DOMAIN emit.code /\ emit.code[1].what = "Fn" /\ emit.code[1].of = 1 /\ emit.code[1].byte = 0
  BY DEF Linked, Is
<1>5. What(CodeAt + 1 - 1) = <<"Fn", 1, 0>>
  BY <1>4, WhatIsPlaced DEF SectionCells, BaseOf
<1>6. CodeAt + 1 - 1 = CodeAt
  BY <1>2
<1>7. QED
  BY <1>3, <1>5, <1>6

LEMMA LinkedIsReached ==
  ASSUME TypeOK, LinkInv
  PROVE  EveryNameIsReached
<1>1. SUFFICES ASSUME phase = "run"
               PROVE  /\ \A a \in DOMAIN mem :
                           LET c == mem[a]
                           IN  /\ c.what = "op" /\ What(a + 1)[1] # "op" =>
                                    Reaches(a + 1, c.of, c.means)
                               /\ c.what \in Helpers /\ c.byte = Movabs[c.what] =>
                                    Reaches(a + 1, 8, Sym(IF c.what \in {"Alloc", "Release"}
                                                          THEN "HeapBase" ELSE "ExcState", 0))
                               /\ c.what = "vtable" /\ c.byte % 8 = 0 =>
                                    LET f == prog.vtables[c.of][c.byte \div 8 + 1]
                                    IN  IF f = Hole THEN c.part = None
                                        ELSE Reaches(a, 8, Sym("Fn", f))
                      /\ What(CASE mode = "elf" -> CodeVaddr
                                [] mode = "preamble" -> CodeVaddr + PreambleLen
                                [] mode = "jit" -> Mapped) = <<"Fn", 1, 0>>
  BY DEF EveryNameIsReached
<1>2. Linked(emit.relocs) /\ Placed /\ phase \notin {"data", "functions"}
  BY <1>1 DEF LinkInv, Lowering
<1>3. ASSUME NEW a \in DOMAIN mem, mem[a].what = "op", What(a + 1)[1] # "op"
      PROVE  Reaches(a + 1, mem[a].of, mem[a].means)
  BY <1>2, <1>3, OpIsReached
<1>4. ASSUME NEW a \in DOMAIN mem, mem[a].what \in Helpers, mem[a].byte = Movabs[mem[a].what]
      PROVE  Reaches(a + 1, 8, Sym(IF mem[a].what \in {"Alloc", "Release"} THEN "HeapBase"
                                   ELSE "ExcState", 0))
  BY <1>2, <1>4, HelperOperandIsReached
<1>5. ASSUME NEW a \in DOMAIN mem, mem[a].what = "vtable", mem[a].byte % 8 = 0
      PROVE  LET f == prog.vtables[mem[a].of][mem[a].byte \div 8 + 1]
             IN  IF f = Hole THEN mem[a].part = None ELSE Reaches(a, 8, Sym("Fn", f))
  BY <1>2, <1>5, WordIsReached
<1>6. What(CASE mode = "elf" -> CodeVaddr
             [] mode = "preamble" -> CodeVaddr + PreambleLen
             [] mode = "jit" -> Mapped) = <<"Fn", 1, 0>>
  BY <1>2, EntryIsReached
<1>7. QED
  BY <1>3, <1>4, <1>5, <1>6

-----------------------------------------------------------------------------
(* What holds of every program.                                            *)

(* Whatever the program, the emitter's cells, symbols and relocations have *)
(* their types, and in each phase the pages their rights and contents.     *)
THEOREM ImageInvariant == Spec => []ImageInv
<1>1. Init => ImageInv
  BY InitIsTyped, InitHasNoPages DEF ImageInv
<1>2. ImageInv /\ [Next]_vars => ImageInv'
  BY StepKeepsType, StepKeepsPages DEF ImageInv
<1>3. QED
  BY <1>1, <1>2, PTL DEF Spec

(* No page is ever writable and executable, and when the program runs its  *)
(* code can be executed and its data and heap written: in an image the     *)
(* kernel loaded (elf.rs) and in the memory of the JIT (memory.rs:3-5).    *)
THEOREM RightsTheorem == Spec => []RunsWithItsRights
<1>1. ImageInv => RunsWithItsRights
  BY DEF ImageInv, PagesInv
<1>2. QED
  BY <1>1, ImageInvariant, PTL

(* Where mprotect does not fail, nothing the JIT mapped is left when       *)
(* rbxt_run has returned, whether mmap failed or the program returned.     *)
THEOREM NothingLeftTheorem ==
  ASSUME "mprotect" \notin MayFail
  PROVE  Spec => []NothingIsLeft
<1>1. ImageInv => NothingIsLeft
  BY DEF ImageInv, PagesInv
<1>2. QED
  BY <1>1, ImageInvariant, PTL

(* Wherever the parts of a program are put, each call, jump and address in *)
(* its code, each word of a vtable and each operand of a helper reaches    *)
(* the first byte of what the IR names, holes are left alone, and          *)
(* execution begins at the first function (Image.EveryNameIsReached), for  *)
(* every program whose names exist and every length of the helpers that    *)
(* holds their operands.                                                   *)
THEOREM NamesTheorem ==
  ASSUME NamesExist, OperandsFit
  PROVE  Spec => []EveryNameIsReached
<1>1. Init => ImageInv /\ LinkInv
  BY InitIsTyped, InitHasNoPages, InitLinks DEF ImageInv
<1>2. (ImageInv /\ LinkInv) /\ [Next]_vars => (ImageInv /\ LinkInv)'
  BY StepKeepsType, StepKeepsPages, StepLinks DEF ImageInv
<1>3. ImageInv /\ LinkInv => EveryNameIsReached
  BY LinkedIsReached DEF ImageInv
<1>4. QED
  BY <1>1, <1>2, <1>3, PTL DEF Spec
=============================================================================
