-------------------------- MODULE SharedLibProofs ---------------------------
(***************************************************************************)
(* Proofs about SharedLib: for every set of programs lower can give, every *)
(* base and every hash function, the records of the two relocation loops   *)
(* fill their table and lie apart, the windows and vtable words get the    *)
(* addresses they name, dlsym finds every symbol, and a host's arguments   *)
(* reach the body it calls.  ImageInv, HashInv and HostInv are the         *)
(* inductive invariants, each for a part of the state the other two leave  *)
(* alone.                                                                  *)
(***************************************************************************)
EXTENDS SharedLib, FiniteSetTheorems, SequenceTheorems, TLAPS

-----------------------------------------------------------------------------
(* Numbers.                                                                *)

(* A non-empty set of naturals has a least element.                        *)
LEMMA LeastNumber ==
  ASSUME NEW T \in SUBSET Nat, T # {}
  PROVE  \E n \in T : \A m \in T : n <= m
<1> DEFINE R == OpToRel(<, Nat)
<1>1. IsWellFoundedOn(R, Nat)
  BY NatLessThanWellFounded
<1>2. \A x, y \in Nat : y < x => <<y, x>> \in R
  BY DEF OpToRel
<1> HIDE DEF R
<1>3. PICK x \in T : \A y \in T : ~ (<<y, x>> \in R)
  BY <1>1, WFMin
<1>4. \A y \in T : ~ (y < x)
  BY <1>2, <1>3
<1>5. QED
  BY <1>4

(* Induction up to a bound, for a set.                                     *)
LEMMA UpTo ==
  ASSUME NEW N \in Nat, NEW G, 0 \in G, \A n \in 1 .. N : n - 1 \in G => n \in G
  PROVE  \A n \in 0 .. N : n \in G
<1> DEFINE T == {n \in 0 .. N : n \notin G}
<1> SUFFICES ASSUME T # {} PROVE FALSE
  OBVIOUS
<1>1. T \in SUBSET Nat
  OBVIOUS
<1>2. PICK n \in T : \A m \in T : n <= m
  <2> HIDE DEF T
  <2>1. QED
    BY <1>1, LeastNumber
<1>3. n \in 1 .. N /\ n - 1 \in 0 .. N /\ ~ (n <= n - 1)
  BY <1>2
<1>4. n - 1 \in G
  BY <1>2, <1>3
<1>5. QED
  BY <1>2, <1>3, <1>4

(* A function defined by recursion up to a bound exists.                   *)
Recursive(g, N, a, H) == g[0] = a /\ \A n \in 1 .. N : g[n] = H[n][g[n - 1]]

LEMMA Recursion ==
  ASSUME NEW N \in Nat, NEW S, NEW a \in S, NEW H \in [1 .. N -> [S -> S]]
  PROVE  \E g \in [0 .. N -> S] : Recursive(g, N, a, H)
<1> DEFINE Steps(g, n) == g \in [0 .. n -> S] /\ Recursive(g, n, a, H)
           G == {n \in 0 .. N : \E g : Steps(g, n)}
<1>1. 0 \in G
  <2> DEFINE h == [i \in 0 .. 0 |-> a]
  <2>1. h \in [0 .. 0 -> S] /\ h[0] = a
    OBVIOUS
  <2>2. \A i \in 1 .. 0 : FALSE
    OBVIOUS
  <2> HIDE DEF h
  <2>3. Steps(h, 0)
    BY <2>1, <2>2 DEF Recursive
  <2>4. QED
    BY <2>3
<1>2. ASSUME NEW n \in 1 .. N, n - 1 \in G
      PROVE  n \in G
  <2>1. PICK g : Steps(g, n - 1)
    BY <1>2
  <2> DEFINE h == [i \in 0 .. n |-> IF i = n THEN H[n][g[n - 1]] ELSE g[i]]
  <2>2. g[n - 1] \in S
    BY <2>1
  <2>3. h \in [0 .. n -> S] /\ h[0] = a
    BY <2>1, <2>2 DEF Recursive
  <2>4. ASSUME NEW i \in 1 .. n
        PROVE  h[i] = H[i][h[i - 1]]
    <3>1. h[i - 1] = g[i - 1]
      OBVIOUS
    <3>2. CASE i = n
      BY <3>1, <3>2
    <3>3. CASE i # n
      <4>1. i \in 1 .. n - 1
        BY <3>3
      <4>2. h[i] = g[i]
        BY <3>3
      <4>3. QED
        BY <2>1, <3>1, <4>1, <4>2 DEF Recursive
    <3>4. QED
      BY <3>2, <3>3
  <2> HIDE DEF h
  <2>5. Steps(h, n)
    BY <2>3, <2>4 DEF Recursive
  <2>6. QED
    BY <2>5
<1>3. N \in 0 .. N
  OBVIOUS
<1>4. N \in G
  <2> HIDE DEF G
  <2>1. QED
    BY <1>1, <1>2, <1>3, UpTo
<1>5. QED
  BY <1>4

(* A sum of lengths is a length.                                           *)
LEMMA SumIsANumber ==
  ASSUME NEW s \in Seq(Nat)
  PROVE  Sum(s) \in Nat
<1> DEFINE L == Len(s)
           F(g) == [n \in 0 .. L |-> IF n = 0 THEN 0 ELSE g[n - 1] + s[n]]
<1>1. L \in Nat /\ \A i \in 1 .. L : s[i] \in Nat
  OBVIOUS
<1>2. \E g : g = F(g)
  <2> DEFINE H == [n \in 1 .. L |-> [x \in Nat |-> x + s[n]]]
  <2>1. H \in [1 .. L -> [Nat -> Nat]]
    BY <1>1
  <2>2. ASSUME NEW n \in 1 .. L, NEW x \in Nat
        PROVE  H[n][x] = x + s[n]
    <3>1. H[n] = [y \in Nat |-> y + s[n]]
      OBVIOUS
    <3>2. QED
      BY <3>1
  <2> HIDE DEF L, H
  <2>3. \E g \in [0 .. L -> Nat] : Recursive(g, L, 0, H)
    <3>1. 0 \in Nat /\ L \in Nat
      BY <1>1
    <3>2. QED
      BY <2>1, <3>1, Recursion
  <2>4. PICK g \in [0 .. L -> Nat] : g[0] = 0 /\ \A n \in 1 .. L : g[n] = H[n][g[n - 1]]
    BY <2>3 DEF Recursive
  <2>5. g = F(g)
    <3>1. \A n \in 1 .. L : g[n] = g[n - 1] + s[n]
      <4>1. \A n \in 1 .. L : g[n - 1] \in Nat
        BY <1>1, <2>4
      <4>2. QED
        BY <2>2, <2>4, <4>1
    <3>2. \A n \in 0 .. L : g[n] = F(g)[n]
      BY <1>1, <2>4, <3>1
    <3>3. QED
      BY <2>4, <3>2
  <2>6. QED
    BY <2>5
<1>3. PICK f : f = F(f) /\ Sum(s) = f[L]
  <2> DEFINE f == CHOOSE g : g = F(g)
  <2>1. f = F(f)
    BY <1>2
  <2>2. Sum(s) = f[L]
    BY DEF Sum, L
  <2>3. QED
    BY <2>1, <2>2
<1> HIDE DEF L
<1>4. f[0] = 0 /\ \A n \in 1 .. L : f[n] = f[n - 1] + s[n]
  BY <1>1, <1>3
<1>5. \A n \in 0 .. L : n \in {i \in 0 .. L : f[i] \in Nat}
  <2> DEFINE G == {i \in 0 .. L : f[i] \in Nat}
  <2>1. 0 \in G
    BY <1>1, <1>4
  <2>2. \A n \in 1 .. L : n - 1 \in G => n \in G
    BY <1>1, <1>4
  <2> HIDE DEF G
  <2>3. \A n \in 0 .. L : n \in G
    BY <1>1, <2>1, <2>2, UpTo
  <2>4. QED
    BY <2>3 DEF G
<1>6. QED
  BY <1>1, <1>3, <1>5

LEMMA SumOfLengths ==
  ASSUME NEW n \in Nat, NEW s \in [1 .. n -> Nat]
  PROVE  Sum(s) \in Nat
<1>1. s \in Seq(Nat)
  BY SeqDef
<1>2. QED
  BY <1>1, SumIsANumber

-----------------------------------------------------------------------------
(* The program and the layout of its image.                                *)

LEMMA ProgramShape ==
  ASSUME mc \in MachineCodes
  PROVE  /\ Len(mc.relocs) \in Nat /\ DOMAIN mc.relocs = 1 .. Len(mc.relocs)
         /\ \A i \in DOMAIN mc.relocs : mc.relocs[i] \in Reloc
         /\ CodeRelocs \subseteq 1 .. Len(mc.relocs)
         /\ DataRelocs \subseteq 1 .. Len(mc.relocs)
         /\ CodeRelocs \cap DataRelocs = {}
<1>1. mc.relocs \in Seq(Reloc)
  BY MachineCodesAssumption DEF IsMachineCode
<1>2. Len(mc.relocs) \in Nat /\ DOMAIN mc.relocs = 1 .. Len(mc.relocs)
  BY <1>1
<1>3. \A i \in DOMAIN mc.relocs : mc.relocs[i] \in Reloc
  BY <1>1
<1>4. CodeRelocs \cap DataRelocs = {}
  BY DEF CodeRelocs, DataRelocs, IsCodeAbs64, IsDataAbs64
<1>5. QED
  BY <1>2, <1>3, <1>4 DEF CodeRelocs, DataRelocs

LEMMA Counts ==
  ASSUME mc \in MachineCodes
  PROVE  /\ IsFiniteSet(CodeRelocs) /\ IsFiniteSet(DataRelocs)
         /\ NGot \in Nat /\ NRela \in Nat /\ NRela = NGot + Cardinality(DataRelocs)
         /\ Cardinality(DataRelocs) \in Nat
<1>1. IsFiniteSet(1 .. Len(mc.relocs))
  BY ProgramShape, FS_Interval
<1>2. IsFiniteSet(CodeRelocs) /\ IsFiniteSet(DataRelocs)
  BY <1>1, ProgramShape, FS_Subset
<1>3. Cardinality(CodeRelocs) \in Nat /\ Cardinality(DataRelocs) \in Nat
  BY <1>2, FS_CardinalityType
<1>4. QED
  BY <1>2, <1>3 DEF NGot, NRela

LEMMA AlignUp ==
  ASSUME NEW v \in Nat
  PROVE  /\ Align(v, 8) \in Nat /\ v <= Align(v, 8)
         /\ Align(v, 16) \in Nat /\ v <= Align(v, 16)
         /\ Align(v, PAGE) \in Nat /\ v <= Align(v, PAGE)
         /\ \E q \in Nat : Align(v, PAGE) = q * PAGE
<1>1. Align(v, 8) \in Nat /\ v <= Align(v, 8)
  BY DEF Align
<1>2. Align(v, 16) \in Nat /\ v <= Align(v, 16)
  BY DEF Align
<1>3. Align(v, PAGE) \in Nat /\ v <= Align(v, PAGE)
  BY DEF Align, PAGE
<1>4. (v + PAGE - 1) \div PAGE \in Nat
  BY DEF PAGE
<1>5. QED
  BY <1>1, <1>2, <1>3, <1>4 DEF Align

(* dep_syms: every import the loader resolves has a symbol of its entry.   *)
LEMMA DepShape ==
  ASSUME mc \in MachineCodes
  PROVE  /\ IsFiniteSet(FirstDeps) /\ Cardinality(FirstDeps) \in Nat
         /\ FirstDeps \subseteq 1 .. Len(mc.imports) /\ Len(mc.imports) \in Nat
         /\ DOMAIN mc.imports = 1 .. Len(mc.imports)
         /\ DOMAIN DepSyms = 1 .. Cardinality(FirstDeps)
<1>1. Len(mc.imports) \in Nat /\ DOMAIN mc.imports = 1 .. Len(mc.imports)
  BY MachineCodesAssumption DEF IsMachineCode
<1>2. IsFiniteSet(1 .. Len(mc.imports)) /\ FirstDeps \subseteq 1 .. Len(mc.imports)
  BY <1>1, FS_Interval DEF FirstDeps
<1>3. IsFiniteSet(FirstDeps) /\ Cardinality(FirstDeps) \in Nat
  BY <1>2, FS_Subset, FS_CardinalityType
<1>4. QED
  BY <1>1, <1>2, <1>3 DEF DepSyms

LEMMA EntryFirst ==
  ASSUME mc \in MachineCodes, NEW i \in DOMAIN mc.imports, IsDep(i)
  PROVE  \E f \in FirstDeps : mc.imports[f].entry = mc.imports[i].entry
<1> DEFINE T == {j \in DOMAIN mc.imports : IsDep(j) /\ mc.imports[j].entry = mc.imports[i].entry}
<1>1. T \in SUBSET Nat /\ T # {}
  BY DepShape
<1>2. PICK f \in T : \A j \in T : f <= j
  <2> HIDE DEF T
  <2>1. QED
    BY <1>1, LeastNumber
<1>3. \A j \in 1 .. f - 1 : j \in DOMAIN mc.imports /\ ~ (f <= j)
  BY <1>2, DepShape
<1>4. \A j \in 1 .. f - 1 : IsDep(j) => mc.imports[j].entry # mc.imports[f].entry
  BY <1>2, <1>3
<1>5. QED
  BY <1>2, <1>4 DEF FirstDeps

(* The n-th of them is well-defined.                                       *)
LEMMA Nth ==
  ASSUME mc \in MachineCodes, NEW f \in FirstDeps
  PROVE  LET n == Cardinality({j \in FirstDeps : j <= f})
         IN  n \in DOMAIN DepSyms /\ DepSyms[n] = mc.imports[f]
<1> DEFINE Upto(g) == {j \in FirstDeps : j <= g}
           n == Cardinality(Upto(f))
<1>1. IsFiniteSet(FirstDeps) /\ FirstDeps \subseteq Nat
  BY DepShape
<1>2. \A g \in FirstDeps : IsFiniteSet(Upto(g)) /\ Cardinality(Upto(g)) \in Nat
                           /\ Cardinality(Upto(g)) <= Cardinality(FirstDeps)
  <2>1. \A g \in FirstDeps : Upto(g) \subseteq FirstDeps
    OBVIOUS
  <2> HIDE DEF Upto
  <2>2. QED
    BY <1>1, <2>1, FS_Subset, FS_CardinalityType
<1>3. \A g \in FirstDeps : g \in Upto(g)
  BY <1>1
<1>4. \A g, h \in FirstDeps : g < h => Cardinality(Upto(g)) < Cardinality(Upto(h))
  <2> SUFFICES ASSUME NEW g \in FirstDeps, NEW h \in FirstDeps, g < h
               PROVE  Cardinality(Upto(g)) < Cardinality(Upto(h))
    OBVIOUS
  <2>1. Upto(g) \subseteq Upto(h) /\ h \in Upto(h) /\ h \notin Upto(g)
    <3>1. g \in Nat /\ h \in Nat /\ \A j \in FirstDeps : j \in Nat
      BY <1>1
    <3>2. \A j \in FirstDeps : j <= g => j <= h
      BY <3>1
    <3>3. ~ (h <= g) /\ h <= h
      BY <3>1
    <3>4. QED
      BY <3>2, <3>3
  <2> HIDE DEF Upto
  <2>2. Upto(g) # Upto(h)
    BY <2>1
  <2>3. QED
    BY <1>2, <2>1, <2>2, FS_Subset
<1> HIDE DEF Upto
<1>5. n \in 1 .. Cardinality(FirstDeps)
  <2>1. Upto(f) # {}
    BY <1>3
  <2>2. Cardinality(Upto(f)) # 0
    BY <1>2, <2>1, FS_EmptySet
  <2>3. QED
    BY <1>2, <2>2, DepShape
<1>6. \A g \in FirstDeps : Cardinality(Upto(g)) = n => g = f
  <2> SUFFICES ASSUME NEW g \in FirstDeps, Cardinality(Upto(g)) = n, g # f PROVE FALSE
    OBVIOUS
  <2>1. g < f \/ f < g
    BY <1>1
  <2>2. QED
    BY <1>2, <1>4, <2>1
<1>7. (CHOOSE i \in FirstDeps : Cardinality(Upto(i)) = n) = f
  BY <1>6
<1>8. QED
  BY <1>5, <1>7, DepShape DEF DepSyms, Upto

(* What dep_sym_index finds.                                               *)
LEMMA DepFound ==
  ASSUME mc \in MachineCodes, NEW i \in DOMAIN mc.imports, IsDep(i)
  PROVE  LET s == CHOOSE n \in DOMAIN DepSyms : DepSyms[n].entry = mc.imports[i].entry
         IN  s \in DOMAIN DepSyms /\ DepSyms[s].entry = mc.imports[i].entry
<1>1. \E n \in DOMAIN DepSyms : DepSyms[n].entry = mc.imports[i].entry
  BY EntryFirst, Nth
<1>2. QED
  BY <1>1

LEMMA TablesShape ==
  ASSUME mc \in MachineCodes
  PROVE  /\ Len(mc.exports) \in Nat /\ DOMAIN mc.exports = 1 .. Len(mc.exports)
         /\ Len(mc.objects) \in Nat /\ DOMAIN mc.objects = 1 .. Len(mc.objects)
         /\ \A i \in DOMAIN mc.exports :
              /\ NameLen[mc.exports[i].name] + 1 \in Nat /\ mc.exports[i].arity \in Nat
              /\ mc.exports[i].receiver \in BOOLEAN /\ mc.exports[i].qualified \in BOOLEAN
         /\ \A i \in DOMAIN mc.objects : NameLen[mc.objects[i].name] + 1 \in Nat
         /\ \A i \in DOMAIN mc.imports :
              /\ NameLen[mc.imports[i].hint] + 1 \in Nat /\ NameLen[mc.imports[i].entry] + 1 \in Nat
              /\ mc.imports[i].base \in Nat \cup {NoBase}
<1> DEFINE Names == DOMAIN NameLen
           Export == [name : Names, fn : DOMAIN mc.fn_bases, arity : Nat,
                      receiver : BOOLEAN, qualified : BOOLEAN]
           Object == [name : Names, off : Nat]
           Import == [hint : Names, entry : Names, so : BOOLEAN, base : Nat \cup {NoBase}]
<1>1. /\ mc.exports \in Seq(Export) /\ mc.objects \in Seq(Object)
      /\ mc.imports \in Seq(Import)
  BY MachineCodesAssumption DEF IsMachineCode
<1>2. /\ \A e \in Export : /\ e.name \in Names /\ e.arity \in Nat
                             /\ e.receiver \in BOOLEAN /\ e.qualified \in BOOLEAN
      /\ \A o \in Object : o.name \in Names
      /\ \A d \in Import : /\ d.hint \in Names /\ d.entry \in Names
                             /\ d.base \in Nat \cup {NoBase}
  OBVIOUS
<1>3. \A n \in Names : NameLen[n] + 1 \in Nat
  BY NameLenAssumption
<1> HIDE DEF Names, Export, Object, Import
<1>4. /\ \A i \in DOMAIN mc.exports : mc.exports[i] \in Export
      /\ \A i \in DOMAIN mc.objects : mc.objects[i] \in Object
      /\ \A i \in DOMAIN mc.imports : mc.imports[i] \in Import
      /\ Len(mc.exports) \in Nat /\ DOMAIN mc.exports = 1 .. Len(mc.exports)
      /\ Len(mc.objects) \in Nat /\ DOMAIN mc.objects = 1 .. Len(mc.objects)
  BY <1>1
<1>5. QED
  BY <1>2, <1>3, <1>4

(* The parts of the image follow each other, text and data on pages of     *)
(* their own and the heap after all tables.                                *)
LEMMA Sizes ==
  ASSUME mc \in MachineCodes
  PROVE  /\ Sum([i \in DOMAIN mc.exports |-> TrampolineSize(mc.exports[i])]) \in Nat
         /\ DynstrSize \in Nat /\ NSyms \in Nat /\ Cardinality(FirstHints) \in Nat
<1>1. Sum([i \in DOMAIN mc.exports |-> TrampolineSize(mc.exports[i])]) \in Nat
  <2> DEFINE s == [i \in DOMAIN mc.exports |-> TrampolineSize(mc.exports[i])]
  <2>1. \A i \in DOMAIN mc.exports : TrampolineSize(mc.exports[i]) \in Nat
    BY TablesShape DEF TrampolineSize
  <2>2. DOMAIN mc.exports = 1 .. Len(mc.exports) /\ Len(mc.exports) \in Nat
    BY TablesShape
  <2>3. s \in [1 .. Len(mc.exports) -> Nat]
    BY <2>1, <2>2
  <2>4. Sum(s) \in Nat
    <3> HIDE DEF s
    <3>1. QED
      BY <2>2, <2>3, SumOfLengths
  <2>5. QED
    BY <2>4
<1>2. Sum([i \in DOMAIN mc.exports |-> NameLen[mc.exports[i].name] + 1]) \in Nat
  <2> DEFINE s == [i \in DOMAIN mc.exports |-> NameLen[mc.exports[i].name] + 1]
  <2>1. DOMAIN mc.exports = 1 .. Len(mc.exports) /\ Len(mc.exports) \in Nat
    BY TablesShape
  <2>2. s \in [1 .. Len(mc.exports) -> Nat]
    BY <2>1, TablesShape
  <2>3. Sum(s) \in Nat
    <3> HIDE DEF s
    <3>1. QED
      BY <2>1, <2>2, SumOfLengths
  <2>4. QED
    BY <2>3
<1>3. Sum([i \in DOMAIN mc.objects |-> NameLen[mc.objects[i].name] + 1]) \in Nat
  <2> DEFINE s == [i \in DOMAIN mc.objects |-> NameLen[mc.objects[i].name] + 1]
  <2>1. DOMAIN mc.objects = 1 .. Len(mc.objects) /\ Len(mc.objects) \in Nat
    BY TablesShape
  <2>2. s \in [1 .. Len(mc.objects) -> Nat]
    BY <2>1, TablesShape
  <2>3. Sum(s) \in Nat
    <3> HIDE DEF s
    <3>1. QED
      BY <2>1, <2>2, SumOfLengths
  <2>4. QED
    BY <2>3
<1>4. Sum([i \in DOMAIN mc.imports |->
             IF i \in FirstDeps THEN NameLen[mc.imports[i].entry] + 1 ELSE 0]) \in Nat
  <2> DEFINE s == [i \in DOMAIN mc.imports |->
                     IF i \in FirstDeps THEN NameLen[mc.imports[i].entry] + 1 ELSE 0]
  <2>1. DOMAIN mc.imports = 1 .. Len(mc.imports) /\ Len(mc.imports) \in Nat
    BY DepShape
  <2>2. s \in [1 .. Len(mc.imports) -> Nat]
    BY <2>1, TablesShape
  <2>3. Sum(s) \in Nat
    <3> HIDE DEF s
    <3>1. QED
      BY <2>1, <2>2, SumOfLengths
  <2>4. QED
    BY <2>3
<1>5. Sum([i \in DOMAIN mc.imports |->
             IF i \in FirstHints THEN NameLen[mc.imports[i].hint] + 1 ELSE 0]) \in Nat
  <2> DEFINE s == [i \in DOMAIN mc.imports |->
                     IF i \in FirstHints THEN NameLen[mc.imports[i].hint] + 1 ELSE 0]
  <2>1. DOMAIN mc.imports = 1 .. Len(mc.imports) /\ Len(mc.imports) \in Nat
    BY DepShape
  <2>2. s \in [1 .. Len(mc.imports) -> Nat]
    BY <2>1, TablesShape
  <2>3. Sum(s) \in Nat
    <3> HIDE DEF s
    <3>1. QED
      BY <2>1, <2>2, SumOfLengths
  <2>4. QED
    BY <2>3
<1>6. DynstrSize \in Nat
  BY <1>2, <1>3, <1>4, <1>5 DEF DynstrSize
<1>7. NSyms \in Nat
  <2>1. Len(DepSyms) = Cardinality(FirstDeps)
    BY DepShape DEF DepSyms
  <2>2. \A x, y, z \in Nat : x + y + 1 + z \in Nat
    OBVIOUS
  <2>3. Len(DepSyms) \in Nat
    BY <2>1, DepShape
  <2>4. NSyms = Len(mc.exports) + Len(mc.objects) + 1 + Len(DepSyms)
    BY DEF NSyms, DepSymBase
  <2>5. QED
    BY <2>2, <2>3, <2>4, TablesShape
<1>8. Cardinality(FirstHints) \in Nat
  <2>1. FirstHints \subseteq FirstDeps
    BY DEF FirstHints
  <2>2. QED
    BY <2>1, DepShape, FS_Subset, FS_CardinalityType
<1>9. QED
  BY <1>1, <1>6, <1>7, <1>8

LEMMA Layout ==
  ASSUME mc \in MachineCodes
  PROVE  /\ CodeBase \in Nat /\ RxEnd \in Nat /\ DataAt \in Nat /\ RxEnd <= DataAt
         /\ \E q \in Nat : DataAt = q * PAGE
         /\ GotStart \in Nat /\ DataAt + mc.data <= GotStart /\ mc.data \in Nat
         /\ RelaStart \in Nat /\ GotStart + NGot * 8 <= RelaStart
         /\ HeapAt \in Nat /\ RelaStart <= HeapAt
         /\ \E q \in Nat : HeapAt = q * PAGE
<1>1. mc.code \in Nat /\ mc.data \in Nat /\ mc.types \in Nat \cup {NoTable} /\ mc.init \in BOOLEAN
  BY MachineCodesAssumption DEF IsMachineCode
<1>2. CodeBase \in Nat
  BY <1>1, AlignUp DEF CodeBase, PhdrAt
<1>3. RxEnd \in Nat
  BY <1>1, <1>2, Sizes DEF RxEnd, TrampBase
<1>4. DataAt \in Nat /\ RxEnd <= DataAt /\ \E q \in Nat : DataAt = q * PAGE
  BY <1>3, AlignUp DEF DataAt
<1>5. GotStart \in Nat /\ DataAt + mc.data <= GotStart
  BY <1>1, <1>4, AlignUp DEF GotStart
<1>6. RelaStart \in Nat /\ GotStart + NGot * 8 <= RelaStart
  <2>1. GotStart + NGot * 8 \in Nat
    BY <1>5, Counts
  <2>2. QED
    BY <2>1, AlignUp DEF RelaStart
<1>7. DynsymStart \in Nat /\ RelaStart <= DynsymStart
  <2>1. RelaStart + NRela * 24 \in Nat /\ RelaStart <= RelaStart + NRela * 24
    BY <1>6, Counts
  <2>2. DynsymStart \in Nat /\ RelaStart + NRela * 24 <= DynsymStart
    BY <2>1, AlignUp DEF DynsymStart
  <2>3. QED
    BY <1>6, <2>1, <2>2
<1>8. DynstrStart \in Nat /\ DynsymStart <= DynstrStart
  <2>1. DynsymStart + NSyms * 24 \in Nat /\ DynsymStart <= DynsymStart + NSyms * 24
    BY <1>7, Sizes
  <2>2. DynstrStart \in Nat /\ DynsymStart + NSyms * 24 <= DynstrStart
    BY <2>1, AlignUp DEF DynstrStart
  <2>3. QED
    BY <1>7, <2>1, <2>2
<1>9. HashStart \in Nat /\ DynstrStart <= HashStart
  <2>1. DynstrStart + DynstrSize \in Nat /\ DynstrStart <= DynstrStart + DynstrSize
    BY <1>8, Sizes
  <2>2. HashStart \in Nat /\ DynstrStart + DynstrSize <= HashStart
    BY <2>1, AlignUp DEF HashStart
  <2>3. QED
    BY <1>8, <2>1, <2>2
<1>10. DynamicStart \in Nat /\ HashStart <= DynamicStart
  <2>1. /\ HashStart + (NSyms + NSyms + 2) * 4 \in Nat
        /\ HashStart <= HashStart + (NSyms + NSyms + 2) * 4
    BY <1>9, Sizes
  <2>2. DynamicStart \in Nat /\ HashStart + (NSyms + NSyms + 2) * 4 <= DynamicStart
    BY <2>1, AlignUp DEF DynamicStart
  <2>3. QED
    BY <1>9, <2>1, <2>2
<1>11. RwEnd \in Nat /\ DynamicStart <= RwEnd
  BY <1>10, Sizes DEF RwEnd
<1>12. HeapAt \in Nat /\ RwEnd <= HeapAt /\ \E q \in Nat : HeapAt = q * PAGE
  BY <1>11, AlignUp DEF HeapAt
<1>13. RelaStart <= HeapAt
  BY <1>6, <1>7, <1>8, <1>9, <1>10, <1>11, <1>12
<1>14. QED
  BY <1>1, <1>2, <1>3, <1>4, <1>5, <1>6, <1>12, <1>13

-----------------------------------------------------------------------------
(* The two loops and the loader.                                           *)

(* The program never changes, and all that is computed from it neither.    *)
LEMMA SameImage ==
  ASSUME mc' = mc
  PROVE  /\ CodeRelocs' = CodeRelocs /\ DataRelocs' = DataRelocs /\ NGot' = NGot
         /\ DepSyms' = DepSyms /\ DataAt' = DataAt /\ GotStart' = GotStart
         /\ \A n : SlotAt(n)' = SlotAt(n)
         /\ \A r : /\ FinalValue(r)' = FinalValue(r) /\ WordRec(r)' = WordRec(r)
                   /\ LoadedWord(r)' = LoadedWord(r)
         /\ \A rec, r : Fits(rec, r)' <=> Fits(rec, r)
         /\ \A r : Given(r)' = Given(r)
<1>1. CodeRelocs' = CodeRelocs /\ DataRelocs' = DataRelocs /\ FirstDeps' = FirstDeps
  <2>1. CodeRelocs' = CodeRelocs
    BY Zenon DEF CodeRelocs
  <2>2. DataRelocs' = DataRelocs
    BY Zenon DEF DataRelocs
  <2>3. FirstDeps' = FirstDeps
    BY Zenon DEF FirstDeps, IsDep
  <2>4. QED
    BY <2>1, <2>2, <2>3
<1>2. NGot' = NGot /\ DepSyms' = DepSyms /\ NRela' = NRela
  <2>1. NGot' = NGot
    BY <1>1, Zenon DEF NGot
  <2>2. NRela' = NRela
    BY <1>1, <2>1, Zenon DEF NRela
  <2>3. DepSyms' = DepSyms
    BY <1>1, SMT DEF DepSyms
  <2>4. QED
    BY <2>1, <2>2, <2>3
<1>3. CodeBase' = CodeBase /\ FirstHints' = FirstHints
  BY <1>1, Zenon DEF CodeBase, PhdrAt, FirstHints
<1>4. DataAt' = DataAt
  BY <1>3, Zenon DEF DataAt, RxEnd, TrampBase
<1>5. GotStart' = GotStart
  BY <1>4, Zenon DEF GotStart
<1>6. NSyms' = NSyms
  BY <1>2, Zenon DEF NSyms, DepSymBase
<1>7. DynstrSize' = DynstrSize
  BY <1>1, <1>3, Zenon DEF DynstrSize
<1>8. HashStart' = HashStart
  BY <1>2, <1>5, <1>6, <1>7, Zenon DEF HashStart, DynstrStart, DynsymStart, RelaStart
<1>9. HeapAt' = HeapAt
  BY <1>3, <1>6, <1>8, Zenon DEF HeapAt, RwEnd, DynamicStart
<1>10. \A n : SlotAt(n)' = SlotAt(n)
  BY <1>5, Zenon DEF SlotAt
<1>11. \A r : FinalValue(r)' = FinalValue(r)
  BY <1>3, <1>4, <1>9, Zenon DEF FinalValue, FnAt
<1>12. \A r : WordRec(r)' = WordRec(r) /\ LoadedWord(r)' = LoadedWord(r)
  BY <1>2, <1>4, <1>11, Zenon DEF WordRec, LoadedWord
<1>13. \A r : IsDepImport(r)' <=> IsDepImport(r)
  BY Zenon DEF IsDepImport, IsDep
<1>14. \A rec, r : Fits(rec, r)' <=> Fits(rec, r)
  BY <1>2, <1>11, <1>13, Zenon DEF Fits
<1>15. \A r : Given(r)' = Given(r)
  BY <1>13, Zenon DEF Given
<1>16. QED
  BY <1>1, <1>2, <1>4, <1>5, <1>10, <1>11, <1>12, <1>14, <1>15, Zenon

(* Steps that add no record, and take no relocation off the list of those  *)
(* to come but one that needs none.                                        *)
LEMMA RecordsStay ==
  ASSUME ImageInv, mc' = mc, rela' = rela, window' = window,
         Bound' = Bound, Placed' = Placed,
         pc' = "got" => pc = "got" /\ slot' = slot
  PROVE  RecordsCounted' /\ RecordsLie' /\ SitesApart' /\ WindowsBound' /\ SlotsApart' /\ WordsPlaced'
<1>1. RecordsCounted'
  BY SameImage DEF ImageInv, RecordsCounted
<1>2. RecordsLie' /\ SitesApart'
  BY SameImage, Zenon DEF ImageInv, RecordsLie, SitesApart
<1>3. WindowsBound' /\ WordsPlaced'
  BY SameImage, Zenon DEF ImageInv, WindowsBound, WordsPlaced
<1>4. SlotsApart'
  BY DEF ImageInv, SlotsApart
<1>5. QED
  BY <1>1, <1>2, <1>3, <1>4

LEMMA NothingAdded ==
  ASSUME ImageInv, ImageTypes', mc' = mc, rela' = rela, window' = window, mem' = mem,
         Bound' = Bound, Placed' = Placed, Applied' \subseteq Applied,
         pc' = "got" => pc = "got" /\ slot' = slot
  PROVE  ImageInv'
<1>1. WordsLoaded'
  BY SameImage DEF ImageInv, WordsLoaded
<1>2. QED
  BY <1>1, RecordsStay DEF ImageInv

(* What the types of a step rest on.                                       *)
LEMMA TypesStay ==
  ASSUME ImageTypes, mc' = mc, DOMAIN mem' = DOMAIN mem, DOMAIN window' = DOMAIN window,
         pc' \in {"got", "data", "hash", "load", "ready", "shift", "body"},
         k' \in Nat \ {0}, rela' \in Seq(Record)
  PROVE  ImageTypes'
  BY SameImage, Zenon DEF ImageTypes

LEMMA InitImage ==
  ASSUME Init
  PROVE  ImageInv
<1>1. mc \in MachineCodes /\ pc = "got" /\ k = 1 /\ slot = GotStart /\ rela = <<>>
  BY DEF Init
<1>2. ImageTypes
  <2>1. DOMAIN window = CodeRelocs
    BY DEF Init
  <2>2. DOMAIN mem = {SlotAt(n) : n \in 1 .. NGot} \cup {DataAt + mc.relocs[i].site : i \in DataRelocs}
    BY DEF Init
  <2>3. QED
    BY <1>1, <2>1, <2>2 DEF ImageTypes
<1>3. Bound = {} /\ Placed = {} /\ Applied = {} /\ DOMAIN rela = {} /\ Len(rela) = 0
  <2>1. \A i \in CodeRelocs : ~ (i < 1)
    BY <1>1, ProgramShape
  <2>2. QED
    BY <1>1, <2>1 DEF Bound, Placed, Applied, Loaded
<1>4. RecordsCounted
  <2>1. slot = SlotAt(1)
    BY <1>1, Layout DEF SlotAt
  <2>2. QED
    BY <1>3, <2>1, FS_EmptySet DEF RecordsCounted
<1>5. RecordsLie /\ SitesApart /\ WindowsBound /\ SlotsApart /\ WordsPlaced /\ WordsLoaded
  BY <1>3 DEF RecordsLie, SitesApart, WindowsBound, SlotsApart, WordsPlaced, WordsLoaded
<1>6. QED
  BY <1>2, <1>4, <1>5 DEF ImageInv

(* The sets, as the steps change them.                                     *)
LEMMA TurnCode ==
  ASSUME ImageTypes, mc' = mc, pc = "got", pc' = "got", k' = k + 1
  PROVE  /\ Placed' = Placed /\ Applied' = Applied /\ Applied = {}
         /\ k \in CodeRelocs => Bound' = Bound \cup {k}
         /\ k \notin CodeRelocs => Bound' = Bound
         /\ k \notin Bound
<1>1. \A i \in CodeRelocs : i \in Nat
  BY ProgramShape DEF ImageTypes
<1>2. k \in Nat
  BY DEF ImageTypes
<1>3. \A i \in CodeRelocs : i < k + 1 <=> i < k \/ i = k
  BY <1>1, <1>2
<1>4. CodeRelocs' = CodeRelocs
  BY SameImage
<1>5. Bound' = {i \in CodeRelocs : i < k + 1} /\ Bound = {i \in CodeRelocs : i < k}
  BY <1>4 DEF Bound
<1>6. k \notin Bound
  BY <1>2, <1>5
<1>7. QED
  BY <1>3, <1>5, <1>6 DEF Placed, Applied, Loaded

LEMMA TurnData ==
  ASSUME ImageTypes, mc' = mc, pc = "data", pc' = "data", k' = k + 1
  PROVE  /\ Bound' = Bound /\ Applied' = Applied /\ Applied = {}
         /\ k \in DataRelocs => Placed' = Placed \cup {k}
         /\ k \notin DataRelocs => Placed' = Placed
         /\ k \notin Placed /\ Bound = CodeRelocs
<1>1. \A i \in DataRelocs : i \in Nat
  BY ProgramShape DEF ImageTypes
<1>2. k \in Nat
  BY DEF ImageTypes
<1>3. \A i \in DataRelocs : i < k + 1 <=> i < k \/ i = k
  BY <1>1, <1>2
<1>4. DataRelocs' = DataRelocs /\ CodeRelocs' = CodeRelocs
  BY SameImage
<1>5. Placed' = {i \in DataRelocs : i < k + 1} /\ Placed = {i \in DataRelocs : i < k}
  BY <1>4 DEF Placed
<1>6. k \notin Placed
  BY <1>2, <1>5
<1>7. QED
  BY <1>3, <1>4, <1>5, <1>6 DEF Bound, Applied, Loaded

(* What relocations name is there.                                         *)
LEMMA RelocData ==
  ASSUME mc \in MachineCodes, NEW i \in DOMAIN mc.relocs
  PROVE  LET r == mc.relocs[i]
         IN  /\ r.n \in Nat /\ r.sym \in Syms
             /\ r.sym = "Fn"     => mc.fn_bases[r.n] \in Nat
             /\ r.sym = "Static" => mc.static_offsets[r.n] \in Nat
             /\ r.sym = "Import" => mc.imports[r.n].base \in Nat \cup {NoBase}
<1> DEFINE r == mc.relocs[i]
<1>1. r.n \in Nat /\ r.sym \in Syms
  BY ProgramShape DEF Reloc
<1>2. /\ r.sym = "Fn"     => r.n \in DOMAIN mc.fn_bases
      /\ r.sym = "Static" => r.n \in DOMAIN mc.static_offsets
      /\ r.sym = "Import" => r.n \in DOMAIN mc.imports
  BY MachineCodesAssumption DEF IsMachineCode
<1>3. mc.fn_bases \in Seq(Nat) /\ mc.static_offsets \in Seq(Nat)
  BY MachineCodesAssumption DEF IsMachineCode
<1>4. /\ r.sym = "Fn" => mc.fn_bases[r.n] \in Nat
      /\ r.sym = "Static" => mc.static_offsets[r.n] \in Nat
  BY <1>2, <1>3
<1>5. r.sym = "Import" => mc.imports[r.n].base \in Nat \cup {NoBase}
  BY <1>2, TablesShape
<1>6. QED
  BY <1>1, <1>4, <1>5

(* Their addresses, where they have one.                                   *)
LEMMA ValueShape ==
  ASSUME mc \in MachineCodes, NEW i \in DOMAIN mc.relocs
  PROVE  FinalValue(mc.relocs[i]) \in Nat \cup {NoValue}
<1> DEFINE r == mc.relocs[i]
<1>1. /\ r.n \in Nat /\ r.sym \in Syms
      /\ r.sym = "Fn"     => mc.fn_bases[r.n] \in Nat
      /\ r.sym = "Static" => mc.static_offsets[r.n] \in Nat
      /\ r.sym = "Import" => mc.imports[r.n].base \in Nat \cup {NoBase}
  BY RelocData
<1>2. DataAt \in Nat /\ CodeBase \in Nat /\ HeapAt \in Nat
  BY Layout
<1>3. r.sym = "Fn" => FnAt(r.n) \in Nat
  BY <1>1, <1>2 DEF FnAt
<1> SUFFICES FinalValue(r) \in Nat \cup {NoValue}
  OBVIOUS
<1> HIDE DEF r
<1>4. CASE r.sym \in {"String", "VtableOff", "ExcState"}
  BY <1>1, <1>2, <1>4 DEF FinalValue
<1>5. CASE r.sym = "Static"
  BY <1>1, <1>2, <1>5 DEF FinalValue
<1>6. CASE r.sym = "HeapBase"
  BY <1>2, <1>6 DEF FinalValue
<1>7. CASE r.sym = "Import"
  BY <1>1, <1>2, <1>7 DEF FinalValue, NoBase
<1>8. CASE r.sym = "Fn"
  BY <1>3, <1>8 DEF FinalValue
<1>9. CASE r.sym \in {"ArgvRsp", "Helper"}
  BY <1>9 DEF FinalValue
<1>10. QED
  BY <1>1, <1>4, <1>5, <1>6, <1>7, <1>8, <1>9 DEF Syms

(* The words the loader writes lie in the GOT or, one each, in the data.   *)
LEMMA Words ==
  ASSUME mc \in MachineCodes
  PROVE  /\ \A n \in Nat \ {0} : SlotAt(n) \in Nat /\ GotStart <= SlotAt(n)
         /\ \A n \in 1 .. NGot : SlotAt(n) + 8 <= RelaStart
         /\ \A n, m \in Nat : SlotAt(n) = SlotAt(m) => n = m
         /\ \A n \in Nat : SlotAt(n + 1) = SlotAt(n) + 8
         /\ \A i \in DataRelocs :
              /\ mc.relocs[i].site \in Nat
              /\ DataAt + mc.relocs[i].site + 8 <= GotStart
              /\ mc.relocs[i].sym = "Fn" /\ FinalValue(mc.relocs[i]) \in Nat
              /\ WordRec(mc.relocs[i]) \in Record
         /\ \A i, j \in DataRelocs : mc.relocs[i].site = mc.relocs[j].site => i = j
<1>1. /\ GotStart \in Nat /\ RelaStart \in Nat /\ NGot \in Nat
      /\ GotStart + NGot * 8 <= RelaStart /\ DataAt \in Nat /\ mc.data \in Nat
      /\ DataAt + mc.data <= GotStart
  BY Layout, Counts
<1>2. /\ \A n \in Nat \ {0} : SlotAt(n) \in Nat /\ GotStart <= SlotAt(n)
      /\ \A n \in 1 .. NGot : SlotAt(n) + 8 <= RelaStart
      /\ \A n, m \in Nat : SlotAt(n) = SlotAt(m) => n = m
      /\ \A n \in Nat : SlotAt(n + 1) = SlotAt(n) + 8
  BY <1>1 DEF SlotAt
<1>3. ASSUME NEW i \in DataRelocs
      PROVE  /\ i \in DOMAIN mc.relocs /\ IsDataAbs64(mc.relocs[i])
             /\ mc.relocs[i].site \in Nat
             /\ mc.relocs[i].sym = "Fn" /\ mc.relocs[i].site + 8 <= mc.data
             /\ \A j \in DataRelocs : mc.relocs[j].site = mc.relocs[i].site => j = i
  <2>1. i \in DOMAIN mc.relocs /\ IsDataAbs64(mc.relocs[i])
    BY DEF DataRelocs
  <2>2. mc.relocs[i].site \in Nat
    BY <2>1, ProgramShape DEF Reloc
  <2>3. /\ mc.relocs[i].sym = "Fn" /\ mc.relocs[i].site + 8 <= mc.data
        /\ \A j \in DOMAIN mc.relocs :
              IsDataAbs64(mc.relocs[j]) /\ mc.relocs[j].site = mc.relocs[i].site => j = i
    BY <2>1, MachineCodesAssumption DEF IsMachineCode
  <2>4. QED
    BY <2>1, <2>2, <2>3 DEF DataRelocs
<1>4. \A i \in DataRelocs : FinalValue(mc.relocs[i]) \in Nat
  <2> SUFFICES ASSUME NEW i \in DataRelocs PROVE FinalValue(mc.relocs[i]) \in Nat
    OBVIOUS
  <2>1. mc.relocs[i].sym = "Fn" /\ mc.relocs[i].section = "Data" /\ i \in DOMAIN mc.relocs
    BY <1>3 DEF IsDataAbs64
  <2>2. FnAt(mc.relocs[i].n) \in Nat
    BY <2>1, RelocData, Layout DEF FnAt
  <2>3. QED
    BY <2>1, <2>2 DEF FinalValue
<1>5. \A i \in DataRelocs : WordRec(mc.relocs[i]) \in Record
  BY <1>1, <1>3, <1>4 DEF WordRec, Rec, Record
<1>6. \A i \in DataRelocs : DataAt + mc.relocs[i].site + 8 <= GotStart
  BY <1>1, <1>3
<1>7. QED
  BY <1>2, <1>3, <1>4, <1>5, <1>6

LEMMA Appended ==
  ASSUME NEW rec \in Record, rela \in Seq(Record), rela' = Append(rela, rec)
  PROVE  /\ rela' \in Seq(Record) /\ Len(rela) \in Nat /\ Len(rela') = Len(rela) + 1
         /\ DOMAIN rela = 1 .. Len(rela) /\ DOMAIN rela' = 1 .. Len(rela) + 1
         /\ \A n \in DOMAIN rela : rela'[n] = rela[n]
         /\ rela'[Len(rela) + 1] = rec
<1> HIDE DEF Record
<1>1. QED
  OBVIOUS

(* The pass over code: a window is bound to the next slot and its record.  *)
LEMMA SlotBound ==
  ASSUME ImageInv, mc' = mc, pc = "got", pc' = "got", k' = k + 1, k \in CodeRelocs,
         NEW rec \in Record, rec.site = slot, Fits(rec, mc.relocs[k]),
         rela' = Append(rela, rec), slot' = slot + 8, DOMAIN mem' = DOMAIN mem,
         window' = [window EXCEPT ![k] = [reg |-> Given(mc.relocs[k]), slot |-> slot]]
  PROVE  ImageInv'
<1> DEFINE L == Len(rela)
<1>1. /\ ImageTypes /\ RecordsCounted /\ RecordsLie /\ SitesApart /\ WindowsBound /\ SlotsApart
      /\ mc \in MachineCodes /\ rela \in Seq(Record) /\ DOMAIN window = CodeRelocs
  BY DEF ImageInv, ImageTypes
<1>2. /\ Placed' = Placed /\ Applied' = Applied /\ Applied = {}
      /\ Bound' = Bound \cup {k} /\ k \notin Bound
  BY <1>1, TurnCode
<1>3. Placed = {} /\ Bound \subseteq CodeRelocs
  BY DEF Placed, Bound
<1>4. IsFiniteSet(Bound) /\ L = Cardinality(Bound) /\ L \in Nat
  <2>1. IsFiniteSet(Bound) /\ Cardinality(Bound) \in Nat
    BY <1>1, <1>3, Counts, FS_Subset, FS_CardinalityType
  <2>2. L = Cardinality(Bound) + 0
    BY <1>1, <1>3, FS_EmptySet DEF RecordsCounted
  <2>3. QED
    BY <2>1, <2>2
<1>5. Cardinality(Bound') = L + 1 /\ L + 1 <= NGot
  <2>1. Cardinality(Bound \cup {k}) = L + 1
    BY <1>2, <1>4, FS_AddElement
  <2>2. Bound \cup {k} \subseteq CodeRelocs
    BY <1>3
  <2>3. Cardinality(Bound \cup {k}) <= NGot
    BY <1>1, <2>2, Counts, FS_Subset DEF NGot
  <2>4. QED
    BY <1>2, <2>1, <2>3
<1>6. /\ rela' \in Seq(Record) /\ Len(rela') = L + 1
      /\ DOMAIN rela = 1 .. L /\ DOMAIN rela' = 1 .. L + 1
      /\ \A n \in DOMAIN rela : rela'[n] = rela[n]
      /\ rela'[L + 1] = rec
  BY <1>1, Appended
<1>7. slot = SlotAt(L + 1) /\ slot' = SlotAt(L + 1 + 1)
  BY <1>1, <1>4, Words DEF RecordsCounted
<1>8. ImageTypes'
  <2>1. k \in Nat \ {0}
    BY <1>1 DEF ImageTypes
  <2>2. k' \in Nat \ {0}
    BY <2>1
  <2>3. DOMAIN window' = DOMAIN window
    OBVIOUS
  <2>4. QED
    BY <1>1, <1>6, <2>2, <2>3, TypesStay
<1>9. NGot' = NGot /\ CodeRelocs' = CodeRelocs /\ \A n : SlotAt(n)' = SlotAt(n)
  BY SameImage
<1>10. RecordsCounted'
  <2>1. Len(rela') = Cardinality(Bound') + Cardinality(Placed')
    <3>1. Cardinality(Placed') = 0
      BY <1>2, <1>3, FS_EmptySet
    <3>2. QED
      BY <1>4, <1>5, <1>6, <3>1
  <2>2. slot' = SlotAt(Len(rela) + 1)'
    BY <1>6, <1>7, SameImage DEF SlotAt
  <2>3. QED
    BY <2>1, <2>2 DEF RecordsCounted
<1>11. \A n \in DOMAIN rela' : n <= NGot /\ n \in Nat /\ rela'[n].site = SlotAt(n)
  <2>1. \A n \in DOMAIN rela : n \in Nat /\ n <= NGot /\ rela'[n].site = SlotAt(n)
    <3>1. \A n \in DOMAIN rela : n \in Nat /\ n <= NGot
      BY <1>1, <1>4, <1>5, <1>6, Counts
    <3>2. \A n \in DOMAIN rela : rela[n].site = SlotAt(n)
      BY <1>1, <3>1 DEF RecordsLie
    <3>3. QED
      BY <1>6, <3>1, <3>2
  <2>2. \A n \in DOMAIN rela' : n \in DOMAIN rela \/ n = L + 1
    BY <1>4, <1>6
  <2>3. QED
    BY <1>4, <1>5, <1>6, <1>7, <2>1, <2>2
<1>12. RecordsLie'
  BY <1>9, <1>11 DEF RecordsLie
<1>13. SitesApart'
  <2>1. \A n, m \in Nat : SlotAt(n) = SlotAt(m) => n = m
    BY <1>1, Words
  <2>2. QED
    BY <1>11, <2>1 DEF SitesApart
<1>14. WindowsBound'
  <2>1. \A rc, r : (Fits(rc, r)' <=> Fits(rc, r)) /\ Given(r)' = Given(r)
    BY SameImage
  <2>2. \A i \in Bound : \E n \in DOMAIN rela' :
          /\ n <= NGot
          /\ window'[i] = [reg |-> Given(mc.relocs[i]), slot |-> SlotAt(n)]
          /\ Fits(rela'[n], mc.relocs[i])
    <3> SUFFICES ASSUME NEW i \in Bound
                 PROVE  \E n \in DOMAIN rela' :
                          /\ n <= NGot
                          /\ window'[i] = [reg |-> Given(mc.relocs[i]), slot |-> SlotAt(n)]
                          /\ Fits(rela'[n], mc.relocs[i])
      OBVIOUS
    <3>1. PICK n \in DOMAIN rela :
            /\ n <= NGot
            /\ window[i] = [reg |-> Given(mc.relocs[i]), slot |-> SlotAt(n)]
            /\ Fits(rela[n], mc.relocs[i])
      BY <1>1 DEF WindowsBound
    <3>2. window'[i] = window[i]
      BY <1>1, <1>2, <1>3
    <3>3. n \in DOMAIN rela' /\ rela'[n] = rela[n]
      BY <1>4, <1>6
    <3>4. QED
      BY <3>1, <3>2, <3>3
  <2>3. /\ L + 1 \in DOMAIN rela' /\ L + 1 <= NGot
        /\ window'[k] = [reg |-> Given(mc.relocs[k]), slot |-> SlotAt(L + 1)]
        /\ Fits(rela'[L + 1], mc.relocs[k])
    BY <1>1, <1>4, <1>5, <1>6, <1>7
  <2>4. \A i \in Bound' : \E n \in DOMAIN rela' :
          /\ n <= NGot
          /\ window'[i] = [reg |-> Given(mc.relocs[i]), slot |-> SlotAt(n)]
          /\ Fits(rela'[n], mc.relocs[i])
    BY <1>2, <2>2, <2>3
  <2>5. QED
    BY <1>9, <2>1, <2>4, Zenon DEF WindowsBound
<1>15. WordsPlaced' /\ WordsLoaded'
  BY <1>2, <1>3 DEF WordsPlaced, WordsLoaded
<1>16. SlotsApart'
  <2>1. window'[k].slot = SlotAt(L + 1)
    BY <1>1, <1>7
  <2>2. ASSUME NEW i \in Bound
        PROVE  window'[i].slot = window[i].slot /\ window[i].slot # SlotAt(L + 1)
    <3>1. window'[i] = window[i]
      BY <1>1, <1>2, <1>3
    <3>2. PICK n \in DOMAIN rela :
            window[i] = [reg |-> Given(mc.relocs[i]), slot |-> SlotAt(n)]
      BY <1>1 DEF WindowsBound
    <3>3. n \in Nat /\ L + 1 \in Nat /\ n # L + 1
      BY <1>4, <1>6
    <3>4. SlotAt(n) # SlotAt(L + 1)
      BY <1>1, <3>3, Words
    <3>5. QED
      BY <3>1, <3>2, <3>4
  <2>3. \A i, j \in Bound : window[i].slot = window[j].slot => i = j
    BY <1>1 DEF SlotsApart
  <2>4. \A i, j \in Bound \cup {k} : window'[i].slot = window'[j].slot => i = j
    BY <2>1, <2>2, <2>3
  <2>5. QED
    BY <1>2, <2>4 DEF SlotsApart
<1>17. QED
  BY <1>8, <1>10, <1>12, <1>13, <1>14, <1>15, <1>16 DEF ImageInv

(* The pass over data: a word of a vtable gets its record.                 *)
LEMMA WordPlaced ==
  ASSUME ImageInv, mc' = mc, pc = "data", pc' = "data", k' = k + 1, k \in DataRelocs,
         rela' = Append(rela, WordRec(mc.relocs[k])),
         window' = window, mem' = mem
  PROVE  ImageInv'
<1> DEFINE L == Len(rela)
           rec == WordRec(mc.relocs[k])
<1>1. /\ ImageTypes /\ RecordsCounted /\ RecordsLie /\ SitesApart /\ WindowsBound /\ WordsPlaced
      /\ SlotsApart
      /\ mc \in MachineCodes /\ rela \in Seq(Record) /\ DOMAIN window = CodeRelocs
  BY DEF ImageInv, ImageTypes
<1>2. /\ Bound' = Bound /\ Applied' = Applied /\ Applied = {}
      /\ Placed' = Placed \cup {k} /\ k \notin Placed /\ Bound = CodeRelocs
  BY <1>1, TurnData
<1>3. Placed \subseteq DataRelocs
  BY DEF Placed
<1>4. /\ IsFiniteSet(Placed) /\ Cardinality(Placed) \in Nat
      /\ L = NGot + Cardinality(Placed) /\ L \in Nat /\ NGot \in Nat
  <2>1. IsFiniteSet(Placed) /\ Cardinality(Placed) \in Nat
    BY <1>1, <1>3, Counts, FS_Subset, FS_CardinalityType
  <2>2. L = NGot + Cardinality(Placed)
    BY <1>1, <1>2 DEF RecordsCounted, NGot
  <2>3. QED
    BY <1>1, <2>1, <2>2, Counts
<1>5. Cardinality(Placed') = Cardinality(Placed) + 1
  BY <1>2, <1>4, FS_AddElement
<1>6. rec \in Record
  BY <1>1, Words
<1>7. /\ rela' \in Seq(Record) /\ Len(rela') = L + 1
      /\ DOMAIN rela = 1 .. L /\ DOMAIN rela' = 1 .. L + 1
      /\ \A n \in DOMAIN rela : rela'[n] = rela[n]
      /\ rela'[L + 1] = rec
  BY <1>1, <1>6, Appended
<1>8. \A n \in DOMAIN rela' : n \in Nat \ {0} /\ (n \in DOMAIN rela \/ (n = L + 1 /\ ~ (n <= NGot)))
  BY <1>4, <1>7
<1>9. /\ NGot' = NGot /\ \A n : SlotAt(n)' = SlotAt(n)
      /\ \A r : WordRec(r)' = WordRec(r)
      /\ \A rc, r : (Fits(rc, r)' <=> Fits(rc, r)) /\ Given(r)' = Given(r)
  BY SameImage
<1>10. ImageTypes'
  <2>1. k \in Nat \ {0}
    BY <1>1 DEF ImageTypes
  <2>2. k' \in Nat \ {0}
    BY <2>1
  <2>3. QED
    BY <1>1, <1>7, <2>2, TypesStay
<1>11. RecordsCounted'
  <2>1. Len(rela') = Cardinality(Bound') + Cardinality(Placed')
    BY <1>2, <1>4, <1>5, <1>7 DEF NGot
  <2>2. QED
    BY <2>1 DEF RecordsCounted
<1>12. \A n \in DOMAIN rela :
         IF n <= NGot THEN rela[n].site = SlotAt(n)
         ELSE \E i \in Placed : rela[n] = WordRec(mc.relocs[i])
  BY <1>1 DEF RecordsLie
<1>13. RecordsLie'
  <2>1. ASSUME NEW n \in DOMAIN rela'
        PROVE  IF n <= NGot THEN rela'[n].site = SlotAt(n)
               ELSE \E i \in Placed' : rela'[n] = WordRec(mc.relocs[i])
    <3>1. CASE n \in DOMAIN rela
      BY <1>2, <1>7, <1>12, <3>1, Zenon
    <3>2. CASE n = L + 1 /\ ~ (n <= NGot)
      BY <1>2, <1>7, <3>2, Zenon
    <3>3. QED
      BY <1>8, <3>1, <3>2
  <2>2. QED
    BY <1>9, <2>1, Zenon DEF RecordsLie
<1>14. \A n \in DOMAIN rela : rela[n].site # rec.site
  <2> SUFFICES ASSUME NEW n \in DOMAIN rela PROVE rela[n].site # rec.site
    OBVIOUS
  <2>1. /\ \A i \in DataRelocs : /\ mc.relocs[i].site \in Nat
                                 /\ DataAt + mc.relocs[i].site + 8 <= GotStart
        /\ \A i, j \in DataRelocs : mc.relocs[i].site = mc.relocs[j].site => i = j
        /\ DataAt \in Nat /\ GotStart \in Nat
    BY <1>1, Words, Layout
  <2>2. \A i \in DataRelocs : WordRec(mc.relocs[i]).site = DataAt + mc.relocs[i].site
    BY DEF WordRec, Rec
  <2>3. rec.site = DataAt + mc.relocs[k].site /\ rec.site + 8 <= GotStart
    BY <2>1, <2>2
  <2>4. CASE n <= NGot
    <3>1. rela[n].site = SlotAt(n)
      BY <1>12, <2>4
    <3>2. SlotAt(n) \in Nat /\ GotStart <= SlotAt(n)
      <4>1. n \in Nat \ {0}
        BY <1>4, <1>7
      <4>2. \A m \in Nat \ {0} : SlotAt(m) \in Nat /\ GotStart <= SlotAt(m)
        BY <1>1, Words
      <4>3. QED
        BY <4>1, <4>2
    <3>3. QED
      BY <2>1, <2>3, <3>1, <3>2
  <2>5. CASE ~ (n <= NGot)
    <3>1. PICK i \in Placed : rela[n] = WordRec(mc.relocs[i])
      BY <1>12, <2>5
    <3>2. i \in DataRelocs /\ i # k
      BY <1>2, <1>3
    <3>3. mc.relocs[i].site # mc.relocs[k].site
      BY <2>1, <3>2
    <3>4. rela[n].site = DataAt + mc.relocs[i].site
      BY <2>2, <3>1, <3>2
    <3>5. mc.relocs[i].site \in Nat /\ mc.relocs[k].site \in Nat /\ DataAt \in Nat
      BY <2>1, <3>2
    <3>6. DataAt + mc.relocs[i].site # DataAt + mc.relocs[k].site
      BY <3>3, <3>5
    <3>7. QED
      BY <2>3, <3>4, <3>6, Zenon
  <2>6. QED
    BY <2>4, <2>5
<1>15. SitesApart'
  <2>1. \A n \in DOMAIN rela' : n \in DOMAIN rela \/ n = L + 1
    BY <1>8
  <2>2. \A n, m \in DOMAIN rela : n # m => rela[n].site # rela[m].site
    BY <1>1 DEF SitesApart
  <2>3. \A n \in DOMAIN rela : rela'[n].site = rela[n].site /\ rela[n].site # rec.site
    BY <1>7, <1>14
  <2>4. rela'[L + 1].site = rec.site
    BY <1>7
  <2> HIDE DEF rec, L
  <2>5. QED
    BY <2>1, <2>2, <2>3, <2>4 DEF SitesApart
<1>16. \A n \in DOMAIN rela : n \in DOMAIN rela'
  BY <1>4, <1>7
<1>17. WindowsBound'
  <2>1. \A i \in Bound : \E n \in DOMAIN rela' :
          /\ n <= NGot
          /\ window'[i] = [reg |-> Given(mc.relocs[i]), slot |-> SlotAt(n)]
          /\ Fits(rela'[n], mc.relocs[i])
    BY <1>1, <1>7, <1>16, Zenon DEF WindowsBound
  <2>2. QED
    BY <1>2, <1>9, <2>1 DEF WindowsBound
<1>18. WordsPlaced'
  <2>1. \A i \in Placed : \E n \in DOMAIN rela' : rela'[n] = WordRec(mc.relocs[i])
    BY <1>1, <1>7, <1>16, Zenon DEF WordsPlaced
  <2>2. L + 1 \in DOMAIN rela' /\ rela'[L + 1] = rec
    BY <1>4, <1>7
  <2>3. \A i \in Placed' : \E n \in DOMAIN rela' : rela'[n] = WordRec(mc.relocs[i])
    BY <1>2, <2>1, <2>2
  <2>4. QED
    BY <1>9, <2>3, Zenon DEF WordsPlaced
<1>19. WordsLoaded'
  BY <1>2 DEF WordsLoaded
<1>20. SlotsApart'
  BY <1>1, <1>2 DEF SlotsApart
<1>21. QED
  BY <1>10, <1>11, <1>13, <1>15, <1>17, <1>18, <1>19, <1>20 DEF ImageInv

(* The loader: no later word is written over one that is loaded.           *)
LEMMA WordStored ==
  ASSUME ImageInv, LoadRecord
  PROVE  ImageInv'
<1>1. /\ ImageTypes /\ RecordsCounted /\ RecordsLie /\ SitesApart /\ WordsLoaded
      /\ mc \in MachineCodes /\ rela \in Seq(Record)
      /\ DOMAIN mem = {SlotAt(n) : n \in 1 .. NGot} \cup {DataAt + mc.relocs[i].site : i \in DataRelocs}
  BY DEF ImageInv, ImageTypes
<1>2. /\ pc = "load" /\ pc' = "load" /\ k <= Len(rela) /\ k' = k + 1
      /\ mem' = [mem EXCEPT ![rela[k].site] = LoadedWord(rela[k])]
      /\ mc' = mc /\ rela' = rela /\ window' = window
  BY DEF LoadRecord, image
<1>3. k \in Nat \ {0} /\ k \in DOMAIN rela
  <2>1. k \in Nat \ {0}
    BY <1>1 DEF ImageTypes
  <2>2. Len(rela) \in Nat /\ DOMAIN rela = 1 .. Len(rela)
    BY <1>1
  <2>3. QED
    BY <1>2, <2>1, <2>2
<1>4. /\ CodeRelocs' = CodeRelocs /\ DataRelocs' = DataRelocs
      /\ \A r : LoadedWord(r)' = LoadedWord(r)
  BY <1>2, SameImage
<1>5. Bound' = Bound /\ Placed' = Placed /\ Placed = DataRelocs
  BY <1>2, <1>4 DEF Bound, Placed
<1>6. \A n \in Applied' : n \in DOMAIN rela /\ (n = k \/ n \in Applied)
  <2>1. Applied' = {n \in DOMAIN rela : n < k + 1} /\ Applied = {n \in DOMAIN rela : n < k}
    BY <1>2 DEF Applied
  <2>2. \A n \in DOMAIN rela : n \in Nat
    BY <1>1
  <2>3. \A n \in Nat : n < k + 1 => n = k \/ n < k
    BY <1>3
  <2>4. QED
    BY <2>1, <2>2, <2>3
<1>7. \A n \in Applied : n # k
  <2>1. \A n \in Applied : n \in DOMAIN rela /\ n < k
    BY <1>2 DEF Applied
  <2>2. ~ (k < k)
    BY <1>3
  <2>3. QED
    BY <2>1, <2>2
<1>8. ASSUME NEW n \in DOMAIN rela
      PROVE  rela[n].site \in DOMAIN mem
  <2>1. CASE n <= NGot
    <3>1. rela[n].site = SlotAt(n)
      BY <1>1, <2>1 DEF RecordsLie
    <3>2. n \in 1 .. NGot
      <4>1. n \in Nat \ {0}
        BY <1>1
      <4>2. QED
        BY <1>1, <2>1, <4>1, Counts
    <3>3. QED
      BY <1>1, <3>1, <3>2
  <2>2. CASE ~ (n <= NGot)
    <3>1. PICK i \in Placed : rela[n] = WordRec(mc.relocs[i])
      BY <1>1, <2>2 DEF RecordsLie
    <3>2. rela[n].site = DataAt + mc.relocs[i].site /\ i \in DataRelocs
      BY <1>5, <3>1 DEF WordRec, Rec
    <3>3. QED
      BY <1>1, <3>2
  <2>3. QED
    BY <2>1, <2>2
<1>9. WordsLoaded'
  <2>1. mem'[rela[k].site] = LoadedWord(rela[k])
    BY <1>2, <1>3, <1>8
  <2>2. ASSUME NEW n \in Applied
        PROVE  mem'[rela[n].site] = LoadedWord(rela[n])
    <3>1. n \in DOMAIN rela /\ rela[n].site # rela[k].site
      <4>1. n \in DOMAIN rela
        BY <1>2 DEF Applied
      <4>2. QED
        BY <1>1, <1>3, <1>7, <4>1 DEF SitesApart
    <3>2. mem[rela[n].site] = LoadedWord(rela[n])
      BY <1>1 DEF WordsLoaded
    <3>3. \A a : a # rela[k].site /\ a \in DOMAIN mem => mem'[a] = mem[a]
      BY <1>2
    <3>4. rela[n].site \in DOMAIN mem
      BY <1>8, <3>1
    <3>5. QED
      BY <3>1, <3>2, <3>3, <3>4
  <2>3. \A n \in Applied' : mem'[rela[n].site] = LoadedWord(rela[n])
    BY <1>6, <2>1, <2>2
  <2>4. QED
    BY <1>2, <1>4, <2>3, Zenon DEF WordsLoaded
<1>10. ImageTypes'
  <2>1. k' \in Nat \ {0} /\ DOMAIN mem' = DOMAIN mem
    BY <1>2, <1>3
  <2>2. QED
    BY <1>1, <1>2, <2>1, TypesStay
<1>11. RecordsCounted' /\ RecordsLie' /\ SitesApart' /\ WindowsBound' /\ SlotsApart' /\ WordsPlaced'
  BY <1>2, <1>5, RecordsStay
<1>12. QED
  BY <1>9, <1>10, <1>11 DEF ImageInv

LEMMA BindImportKeeps ==
  ASSUME ImageInv, BindImport
  PROVE  ImageInv'
<1> DEFINE r == mc.relocs[k]
           s == CHOOSE n \in DOMAIN DepSyms : DepSyms[n].entry = mc.imports[r.n].entry
           rec == Rec("GLOB_DAT", slot, s)
<1>1. /\ ImageTypes /\ RecordsCounted /\ mc \in MachineCodes /\ rela \in Seq(Record)
      /\ k \in Nat \ {0}
  BY DEF ImageInv, ImageTypes
<1>2. /\ pc = "got" /\ pc' = "got" /\ k <= Len(mc.relocs) /\ k' = k + 1 /\ mc' = mc
      /\ IsCodeAbs64(r) /\ IsDepImport(r) /\ rela' = Append(rela, rec)
      /\ window' = [window EXCEPT ![k] = GotLoad(0)] /\ slot' = slot + 8 /\ mem' = mem
  BY DEF BindImport, NextSlot
<1>3. k \in DOMAIN mc.relocs /\ k \in CodeRelocs
  BY <1>1, <1>2, ProgramShape DEF CodeRelocs
<1>4. s \in DOMAIN DepSyms /\ DepSyms[s].entry = mc.imports[r.n].entry
  <2>1. r.n \in DOMAIN mc.imports /\ IsDep(r.n)
    <3>1. r.sym = "Import" /\ IsDep(r.n)
      BY <1>2 DEF IsDepImport
    <3>2. r.sym = "Import" => r.n \in DOMAIN mc.imports
      BY <1>1, <1>3, MachineCodesAssumption DEF IsMachineCode
    <3>3. QED
      BY <3>1, <3>2
  <2> HIDE DEF r
  <2>2. QED
    BY <1>1, <2>1, DepFound
<1> HIDE DEF r, s
<1>5. slot \in Int
  <2>1. slot = SlotAt(Len(rela) + 1) /\ Len(rela) + 1 \in Nat \ {0}
    BY <1>1, <1>2 DEF RecordsCounted
  <2>2. QED
    BY <1>1, <2>1, Words
<1>6. rec \in Record /\ rec.site = slot
  <2>1. s \in Int
    BY <1>1, <1>4, DepShape
  <2>2. QED
    BY <1>5, <2>1 DEF Rec, Record
<1>7. Fits(rec, r)
  BY <1>2, <1>4 DEF Fits, Rec
<1>8. GotLoad(0) = [reg |-> Given(r), slot |-> slot]
  BY <1>2 DEF GotLoad, Given
<1> HIDE DEF rec
<1>9. QED
  BY <1>2, <1>3, <1>6, <1>7, <1>8, SlotBound DEF r

LEMMA FillSlotKeeps ==
  ASSUME ImageInv, FillSlot
  PROVE  ImageInv'
<1> DEFINE r == mc.relocs[k]
           v == IF FinalValue(r) = NoValue THEN 0 ELSE FinalValue(r)
           rec == Rec("RELATIVE", slot, v)
<1>1. /\ ImageTypes /\ RecordsCounted /\ mc \in MachineCodes /\ rela \in Seq(Record)
      /\ k \in Nat \ {0}
  BY DEF ImageInv, ImageTypes
<1>2. /\ pc = "got" /\ pc' = "got" /\ k <= Len(mc.relocs) /\ k' = k + 1 /\ mc' = mc
      /\ IsCodeAbs64(r) /\ ~ IsDepImport(r) /\ rela' = Append(rela, rec)
      /\ window' = [window EXCEPT ![k] = GotLoad(RegDst(r.sym))] /\ slot' = slot + 8
      /\ mem' = [mem EXCEPT ![slot] = v]
  BY DEF FillSlot, NextSlot
<1>3. k \in DOMAIN mc.relocs /\ k \in CodeRelocs
  BY <1>1, <1>2, ProgramShape DEF CodeRelocs
<1>4. v \in Int
  BY <1>1, <1>3, ValueShape DEF NoValue
<1>5. slot \in Int
  <2>1. slot = SlotAt(Len(rela) + 1) /\ Len(rela) + 1 \in Nat \ {0}
    BY <1>1, <1>2 DEF RecordsCounted
  <2>2. QED
    BY <1>1, <2>1, Words
<1>6. FinalValue(r) # NoValue => v = FinalValue(r)
  OBVIOUS
<1> HIDE DEF r, v
<1>7. rec \in Record /\ rec.site = slot
  BY <1>4, <1>5 DEF Rec, Record
<1>8. Fits(rec, r)
  BY <1>2, <1>6 DEF Fits, Rec
<1>9. GotLoad(RegDst(r.sym)) = [reg |-> Given(r), slot |-> slot]
  BY <1>2 DEF GotLoad, Given
<1>10. DOMAIN mem' = DOMAIN mem
  BY <1>2
<1> HIDE DEF rec
<1>11. QED
  BY <1>2, <1>3, <1>7, <1>8, <1>9, <1>10, SlotBound DEF r

(* Steps that only pass relocations or loops by.                           *)
LEMMA SkipsKeep ==
  ASSUME ImageInv, SkipInCode \/ SkipInData
  PROVE  ImageInv'
<1>1. ImageTypes /\ mc \in MachineCodes /\ k \in Nat \ {0} /\ rela \in Seq(Record)
  BY DEF ImageInv, ImageTypes
<1>2. k' \in Nat \ {0}
  BY <1>1 DEF SkipInCode, SkipInData
<1>3. CASE SkipInCode
  <2>1. /\ pc = "got" /\ pc' = "got" /\ k <= Len(mc.relocs) /\ k' = k + 1 /\ mc' = mc
        /\ ~ IsCodeAbs64(mc.relocs[k])
        /\ rela' = rela /\ window' = window /\ mem' = mem /\ slot' = slot
    BY <1>3 DEF SkipInCode, image
  <2>2. k \notin CodeRelocs
    BY <2>1 DEF CodeRelocs
  <2>3. Bound' = Bound /\ Placed' = Placed /\ Applied' = Applied
    BY <1>1, <2>1, <2>2, TurnCode
  <2>4. ImageTypes'
    BY <1>1, <1>2, <2>1, TypesStay
  <2>5. QED
    BY <2>1, <2>3, <2>4, NothingAdded
<1>4. CASE SkipInData
  <2>1. /\ pc = "data" /\ pc' = "data" /\ k <= Len(mc.relocs) /\ k' = k + 1 /\ mc' = mc
        /\ ~ IsDataAbs64(mc.relocs[k]) \/ FinalValue(mc.relocs[k]) = NoValue
        /\ rela' = rela /\ window' = window /\ mem' = mem
    BY <1>4 DEF SkipInData, image
  <2>2. k \notin DataRelocs
    <3>1. ASSUME k \in DataRelocs PROVE FALSE
      <4>1. IsDataAbs64(mc.relocs[k])
        BY <3>1 DEF DataRelocs
      <4>2. FinalValue(mc.relocs[k]) \in Nat
        BY <1>1, <3>1, Words
      <4>3. QED
        BY <2>1, <4>1, <4>2 DEF NoValue
    <3>2. QED
      BY <3>1
  <2>3. Bound' = Bound /\ Placed' = Placed /\ Applied' = Applied
    BY <1>1, <2>1, <2>2, TurnData
  <2>4. ImageTypes'
    BY <1>1, <1>2, <2>1, TypesStay
  <2>5. QED
    BY <2>1, <2>3, <2>4, NothingAdded
<1>5. QED
  BY <1>3, <1>4

LEMMA TurnsKeep ==
  ASSUME ImageInv,
         \/ Turn("got", Len(mc.relocs), "data") \/ Turn("data", Len(mc.relocs), "hash")
         \/ Turn("hash", DepSymBase - 1, "load") \/ Turn("load", Len(rela), "ready")
  PROVE  ImageInv'
<1>1. ImageTypes /\ mc \in MachineCodes /\ k \in Nat \ {0} /\ rela \in Seq(Record)
  BY DEF ImageInv, ImageTypes
<1>2. /\ k' = 1 /\ mc' = mc /\ rela' = rela /\ window' = window /\ mem' = mem
      /\ pc' \in {"data", "hash", "load", "ready"}
  BY DEF Turn, image
<1>3. ImageTypes'
  BY <1>1, <1>2, TypesStay
<1>4. CodeRelocs' = CodeRelocs /\ DataRelocs' = DataRelocs
  BY <1>2, SameImage
<1>5. /\ \A i \in CodeRelocs : i \in Nat /\ i <= Len(mc.relocs)
      /\ \A i \in DataRelocs : i \in Nat /\ i <= Len(mc.relocs) /\ ~ (i < 1)
      /\ Len(mc.relocs) \in Nat
  BY <1>1, ProgramShape
<1>6. \A n \in DOMAIN rela : n \in Nat /\ n <= Len(rela) /\ ~ (n < 1)
  BY <1>1
<1>7. CASE Turn("got", Len(mc.relocs), "data")
  <2>1. pc = "got" /\ pc' = "data" /\ k > Len(mc.relocs)
    BY <1>7 DEF Turn
  <2>2. \A i \in CodeRelocs : i < k
    BY <1>1, <1>5, <2>1
  <2>3. Bound = CodeRelocs /\ Bound' = CodeRelocs'
    BY <2>1, <2>2 DEF Bound
  <2>4. Placed = {} /\ Placed' = {}
    BY <1>2, <1>4, <1>5, <2>1 DEF Placed
  <2>5. Applied' = {}
    BY <2>1 DEF Applied, Loaded
  <2>6. QED
    BY <1>2, <1>3, <1>4, <2>1, <2>3, <2>4, <2>5, NothingAdded
<1>8. CASE Turn("data", Len(mc.relocs), "hash")
  <2>1. pc = "data" /\ pc' = "hash" /\ k > Len(mc.relocs)
    BY <1>8 DEF Turn
  <2>2. \A i \in DataRelocs : i < k
    BY <1>1, <1>5, <2>1
  <2>3. Placed = DataRelocs /\ Placed' = DataRelocs'
    BY <2>1, <2>2 DEF Placed
  <2>4. Bound = CodeRelocs /\ Bound' = CodeRelocs'
    BY <2>1 DEF Bound
  <2>5. Applied' = {}
    BY <2>1 DEF Applied, Loaded
  <2>6. QED
    BY <1>2, <1>3, <1>4, <2>1, <2>3, <2>4, <2>5, NothingAdded
<1>9. CASE Turn("hash", DepSymBase - 1, "load")
  <2>1. pc = "hash" /\ pc' = "load"
    BY <1>9 DEF Turn
  <2>2. Placed = DataRelocs /\ Placed' = DataRelocs' /\ Bound = CodeRelocs /\ Bound' = CodeRelocs'
    BY <2>1 DEF Placed, Bound
  <2>3. Applied' = {}
    BY <1>2, <1>6, <2>1 DEF Applied, Loaded
  <2>4. QED
    BY <1>2, <1>3, <1>4, <2>1, <2>2, <2>3, NothingAdded
<1>10. CASE Turn("load", Len(rela), "ready")
  <2>1. pc = "load" /\ pc' = "ready" /\ k > Len(rela)
    BY <1>10 DEF Turn
  <2>2. Placed = DataRelocs /\ Placed' = DataRelocs' /\ Bound = CodeRelocs /\ Bound' = CodeRelocs'
    BY <2>1 DEF Placed, Bound
  <2>3. \A n \in DOMAIN rela : n < k
    <3>1. Len(rela) \in Nat
      BY <1>1
    <3>2. QED
      BY <1>1, <1>6, <2>1, <3>1
  <2>4. Applied = DOMAIN rela /\ Applied' = DOMAIN rela
    BY <1>2, <2>1, <2>3 DEF Applied, Loaded
  <2>5. QED
    BY <1>2, <1>3, <1>4, <2>1, <2>2, <2>4, NothingAdded
<1>11. QED
  BY <1>7, <1>8, <1>9, <1>10

(* The image in use is not written any more.                               *)
LEMMA UsesKeep ==
  ASSUME ImageInv,
         HashSymbol \/ (\E i \in DOMAIN mc.exports : HostCall(i)) \/ Shift \/ CallBody
         \/ UNCHANGED vars
  PROVE  ImageInv'
<1>1. ImageTypes /\ k \in Nat \ {0} /\ rela \in Seq(Record) /\ mc \in MachineCodes
      /\ pc \in {"got", "data", "hash", "load", "ready", "shift", "body"}
  BY DEF ImageInv, ImageTypes
<1>2. mc' = mc /\ rela' = rela /\ window' = window /\ mem' = mem
  BY DEF HashSymbol, HostCall, Shift, CallBody, vars, image
<1>3. k' \in Nat \ {0}
  <2>1. CASE \E i \in DOMAIN mc.exports : HostCall(i)
    BY <2>1 DEF HostCall
  <2>2. CASE HashSymbol \/ Shift
    BY <1>1, <2>2 DEF HashSymbol, Shift
  <2>3. CASE CallBody \/ UNCHANGED vars
    BY <1>1, <2>3 DEF CallBody, vars
  <2>4. QED
    BY <2>1, <2>2, <2>3
<1>4. \/ pc = "hash" /\ pc' = "hash"
      \/ Loaded /\ Loaded' /\ pc \notin {"got", "data", "load"} /\ pc' \notin {"got", "data", "load"}
      \/ UNCHANGED <<pc, k, slot>>
  BY DEF HashSymbol, HostCall, Shift, CallBody, vars, image, Loaded
<1>5. pc' \in {"got", "data", "hash", "load", "ready", "shift", "body"}
  BY <1>1, <1>4 DEF Loaded
<1>6. ImageTypes'
  BY <1>1, <1>2, <1>3, <1>5, TypesStay
<1>7. CodeRelocs' = CodeRelocs /\ DataRelocs' = DataRelocs
  BY <1>2, SameImage
<1>8. Bound' = Bound /\ Placed' = Placed /\ Applied' = Applied /\ (pc' = "got" => pc = "got" /\ slot' = slot)
  <2>1. CASE pc = "hash" /\ pc' = "hash"
    BY <1>7, <2>1 DEF Bound, Placed, Applied, Loaded
  <2>2. CASE Loaded /\ Loaded' /\ pc \notin {"got", "data", "load"} /\ pc' \notin {"got", "data", "load"}
    BY <1>2, <1>7, <2>2 DEF Bound, Placed, Applied
  <2>3. CASE UNCHANGED <<pc, k, slot>>
    <3>1. Loaded' <=> Loaded
      BY <2>3 DEF Loaded
    <3>2. QED
      BY <1>2, <1>7, <2>3, <3>1 DEF Bound, Placed, Applied
  <2>4. QED
    BY <1>4, <2>1, <2>2, <2>3
<1>9. QED
  BY <1>2, <1>6, <1>8, NothingAdded

LEMMA ImageNext ==
  ASSUME ImageInv, [Next]_vars
  PROVE  ImageInv'
<1>1. CASE RelocateData
  <2>1. /\ pc = "data" /\ pc' = "data" /\ k <= Len(mc.relocs) /\ k' = k + 1 /\ mc' = mc
        /\ IsDataAbs64(mc.relocs[k]) /\ window' = window /\ mem' = mem
        /\ rela' = Append(rela, WordRec(mc.relocs[k]))
    BY <1>1 DEF RelocateData, WordRec
  <2>2. k \in Nat \ {0} /\ mc \in MachineCodes
    BY DEF ImageInv, ImageTypes
  <2>3. k \in DataRelocs
    BY <2>1, <2>2, ProgramShape DEF DataRelocs
  <2>4. QED
    BY <2>1, <2>3, WordPlaced
<1>2. QED
  BY <1>1, BindImportKeeps, FillSlotKeeps, SkipsKeep, TurnsKeep, WordStored, UsesKeep, Zenon
     DEF Next

(* The records written and the words loaded, in every state: the invariant *)
(* of the two relocation loops and of the loader that applies their work.  *)
THEOREM ImageInvariant == Spec => []ImageInv
<1>1. ImageInv /\ [Next]_vars => ImageInv'
  BY ImageNext
<1>2. QED
  BY InitImage, <1>1, PTL DEF Spec

-----------------------------------------------------------------------------
(* What follows of the image.                                              *)

(* The records fill the table the layout pass left room for, whatever the  *)
(* relocations and their order: the copy after the loops never fails.      *)
THEOREM TableTheorem == Spec => []TableIsFull
<1>1. ImageInv => TableIsFull
  <2> SUFFICES ASSUME ImageInv, Written PROVE Len(rela) = NRela
    BY DEF TableIsFull
  <2>1. mc \in MachineCodes /\ Bound = CodeRelocs /\ Placed = DataRelocs
    BY DEF ImageInv, ImageTypes, Written, Bound, Placed
  <2>2. Len(rela) = NGot + Cardinality(DataRelocs)
    BY <2>1 DEF ImageInv, RecordsCounted, NGot
  <2>3. QED
    BY <2>2 DEF NRela
<1>2. QED
  BY ImageInvariant, <1>1, PTL

LEMMA Pages ==
  ASSUME NEW x \in Int, NEW q \in Nat
  PROVE  /\ x < q * PAGE => x \div PAGE < q
         /\ q * PAGE <= x => q <= x \div PAGE
  BY DEF PAGE

(* Where a record lets the loader write: behind the text, before the table *)
(* of the records.                                                         *)
LEMMA SitesLie ==
  ASSUME ImageInv, NEW n \in DOMAIN rela
  PROVE  rela[n].site \in Nat /\ DataAt <= rela[n].site /\ rela[n].site + 8 <= RelaStart
<1>1. mc \in MachineCodes /\ rela \in Seq(Record) /\ RecordsLie
  BY DEF ImageInv, ImageTypes
<1>2. /\ DataAt \in Nat /\ GotStart \in Nat /\ RelaStart \in Nat /\ NGot \in Nat
      /\ mc.data \in Nat /\ DataAt + mc.data <= GotStart /\ GotStart + NGot * 8 <= RelaStart
  BY <1>1, Layout, Counts
<1>3. CASE n <= NGot
  <2>1. rela[n].site = SlotAt(n)
    BY <1>1, <1>3 DEF RecordsLie
  <2>2. n \in Nat \ {0}
    BY <1>1
  <2>3. n \in 1 .. NGot
    BY <1>2, <1>3, <2>2
  <2>4. SlotAt(n) \in Nat /\ GotStart <= SlotAt(n) /\ SlotAt(n) + 8 <= RelaStart
    BY <1>1, <2>2, <2>3, Words
  <2>5. QED
    BY <1>2, <2>1, <2>4
<1>4. CASE ~ (n <= NGot)
  <2>1. PICK i \in Placed : rela[n] = WordRec(mc.relocs[i])
    BY <1>1, <1>4 DEF RecordsLie
  <2>2. i \in DataRelocs /\ rela[n].site = DataAt + mc.relocs[i].site
    BY <2>1 DEF Placed, WordRec, Rec
  <2>3. mc.relocs[i].site \in Nat /\ DataAt + mc.relocs[i].site + 8 <= GotStart
    BY <1>1, <2>2, Words
  <2>4. QED
    BY <1>2, <2>2, <2>3
<1>5. QED
  BY <1>3, <1>4

(* The loader never writes a page of text or of the heap, nor a table it   *)
(* reads, and no word twice.                                               *)
THEOREM LoaderTheorem == Spec => []LoaderWritesApart
<1>1. ImageInv => LoaderWritesApart
  <2> SUFFICES ASSUME ImageInv PROVE LoaderWritesApart
    OBVIOUS
  <2>1. mc \in MachineCodes /\ SitesApart
    BY DEF ImageInv, ImageTypes
  <2>2. /\ DataAt \in Nat /\ RxEnd \in Nat /\ RxEnd <= DataAt
        /\ RelaStart \in Nat /\ HeapAt \in Nat /\ RelaStart <= HeapAt
    BY <2>1, Layout
  <2>3. PICK q \in Nat : DataAt = q * PAGE
    BY <2>1, Layout
  <2>4. PICK h \in Nat : HeapAt = h * PAGE
    BY <2>1, Layout
  <2>5. (RxEnd - 1) \div PAGE < q /\ HeapAt \div PAGE >= h
    <3>1. RxEnd - 1 \in Int /\ RxEnd - 1 < q * PAGE /\ h * PAGE <= HeapAt
      BY <2>2, <2>3, <2>4
    <3>2. QED
      BY <2>2, <3>1, Pages
  <2>6. ASSUME NEW n \in DOMAIN rela
        PROVE  /\ rela[n].site \div PAGE > (RxEnd - 1) \div PAGE
               /\ rela[n].site + 8 <= RelaStart
               /\ rela[n].site \div PAGE < HeapAt \div PAGE
    <3>1. rela[n].site \in Nat /\ DataAt <= rela[n].site /\ rela[n].site + 8 <= RelaStart
      BY SitesLie
    <3>2. rela[n].site < HeapAt
      BY <2>2, <3>1
    <3>3. q <= rela[n].site \div PAGE /\ rela[n].site \div PAGE < h
      BY <2>3, <2>4, <3>1, <3>2, Pages
    <3>4. /\ rela[n].site \div PAGE \in Int /\ (RxEnd - 1) \div PAGE \in Int
          /\ HeapAt \div PAGE \in Int
      BY <2>2, <3>1 DEF PAGE
    <3>5. QED
      BY <2>5, <3>1, <3>3, <3>4
  <2>7. QED
    BY <2>1, <2>6, Zenon DEF LoaderWritesApart, SitesApart
<1>2. QED
  BY ImageInvariant, <1>1, PTL

LEMMA LoadedImage ==
  ASSUME ImageInv, Loaded
  PROVE  /\ mc \in MachineCodes /\ DOMAIN window = CodeRelocs
         /\ Bound = CodeRelocs /\ Placed = DataRelocs
         /\ \A n \in DOMAIN rela : mem[rela[n].site] = LoadedWord(rela[n])
<1>1. Bound = CodeRelocs /\ Placed = DataRelocs /\ Applied = DOMAIN rela
  BY DEF Bound, Placed, Applied, Loaded
<1>2. QED
  BY <1>1 DEF ImageInv, ImageTypes, WordsLoaded

(* What the loader leaves in the slot of a window whose address the pass   *)
(* has.                                                                    *)
LEMMA WordOfWindow ==
  ASSUME mc \in MachineCodes, NEW i \in CodeRelocs, ~ IsUnaddressed(mc.relocs[i]),
         NEW rec, Fits(rec, mc.relocs[i])
  PROVE  LoadedWord(rec) = Named(mc.relocs[i])
<1> DEFINE r == mc.relocs[i]
<1>1. i \in DOMAIN mc.relocs /\ r.section = "Code"
  BY ProgramShape DEF CodeRelocs, IsCodeAbs64
<1>2. <<r.sym, r.reg>> \in EmittedWindows
  BY MachineCodesAssumption DEF IsMachineCode, CodeRelocs
<1>3. CASE IsDepImport(r)
  <2>1. r.sym = "Import" /\ IsDep(r.n)
    BY <1>3 DEF IsDepImport
  <2>2. rec.type = "GLOB_DAT" /\ DepSyms[rec.value].entry = mc.imports[r.n].entry
    BY <1>3 DEF Fits
  <2>3. LoadedWord(rec) = Provided[mc.imports[r.n].entry]
    BY <2>2 DEF LoadedWord
  <2>4. Named(r) = Provided[mc.imports[r.n].entry]
    BY <2>1 DEF Named
  <2>5. QED
    BY <2>3, <2>4
<1>4. CASE ~ IsDepImport(r)
  <2>1. /\ r.n \in Nat /\ r.sym \in Syms
        /\ r.sym = "Static" => mc.static_offsets[r.n] \in Nat
        /\ r.sym = "Import" => mc.imports[r.n].base \in Nat \cup {NoBase}
    BY <1>1, RelocData
  <2>2. DataAt \in Nat /\ CodeBase \in Nat /\ HeapAt \in Nat /\ Base \in Nat
    BY Layout, BaseAssumption
  <2>3. FinalValue(r) # NoValue => LoadedWord(rec) = Base + FinalValue(r)
    BY <1>4 DEF Fits, LoadedWord
  <2>4. ~ IsUnaddressed(r)
    OBVIOUS
  <2> SUFFICES LoadedWord(rec) = Named(r)
    OBVIOUS
  <2> HIDE DEF r
  <2>5. CASE r.sym \in {"String", "VtableOff", "ExcState"}
    <3>1. FinalValue(r) = DataAt + r.n /\ Named(r) = Base + DataAt + r.n
      BY <1>1, <2>5 DEF FinalValue, Named
    <3>2. QED
      BY <2>1, <2>2, <2>3, <3>1 DEF NoValue
  <2>6. CASE r.sym = "Static"
    <3>1. /\ FinalValue(r) = DataAt + mc.static_offsets[r.n]
          /\ Named(r) = Base + DataAt + mc.static_offsets[r.n]
      BY <1>1, <2>6 DEF FinalValue, Named
    <3>2. QED
      BY <2>1, <2>2, <2>3, <2>6, <3>1 DEF NoValue
  <2>7. CASE r.sym = "HeapBase"
    <3>1. FinalValue(r) = HeapAt /\ Named(r) = Base + HeapAt
      BY <1>1, <2>7 DEF FinalValue, Named
    <3>2. QED
      BY <2>2, <2>3, <3>1 DEF NoValue
  <2>8. CASE r.sym = "Import"
    <3>1. ~ IsDep(r.n)
      BY <1>4, <2>8 DEF IsDepImport
    <3>2. mc.imports[r.n].base # NoBase
      BY <2>4, <2>8, <3>1 DEF IsUnaddressed
    <3>3. /\ FinalValue(r) = CodeBase + mc.imports[r.n].base
          /\ Named(r) = Base + CodeBase + mc.imports[r.n].base
      BY <1>1, <2>8, <3>1, <3>2 DEF FinalValue, Named
    <3>4. mc.imports[r.n].base \in Nat
      BY <2>1, <2>8, <3>2
    <3>5. QED
      BY <2>2, <2>3, <3>3, <3>4 DEF NoValue
  <2>9. CASE r.sym = "Fn" \/ r.sym = "ArgvRsp"
    BY <2>4, <2>9 DEF IsUnaddressed
  <2>10. r.sym # "Helper"
    <3>1. \A w \in EmittedWindows : w[1] # "Helper"
      BY DEF EmittedWindows
    <3>2. QED
      BY <1>2, <3>1 DEF r
  <2>11. QED
    BY <2>1, <2>5, <2>6, <2>7, <2>8, <2>9, <2>10 DEF Syms
<1>5. QED
  BY <1>3, <1>4

(* The register of an emitted window is the one the pass gives, but for the*)
(* three it reads as another instruction's.                                *)
LEMMA RegisterOfWindow ==
  ASSUME mc \in MachineCodes, NEW i \in CodeRelocs,
         <<mc.relocs[i].sym, mc.relocs[i].reg>> \notin Misread
  PROVE  Given(mc.relocs[i]) = mc.relocs[i].reg
<1> DEFINE r == mc.relocs[i]
<1>1. <<r.sym, r.reg>> \in EmittedWindows
  BY MachineCodesAssumption DEF IsMachineCode, CodeRelocs
<1>2. <<r.sym, r.reg>> \notin Misread
  OBVIOUS
<1>3. IsDepImport(r) => r.sym = "Import"
  BY DEF IsDepImport
<1> HIDE DEF r
<1>4. Given(r) = r.reg
  BY <1>1, <1>2, <1>3
     DEF EmittedWindows, Misread, Given, RegDst, RSI, RCX, RAX, R8, R10
<1>5. QED
  BY <1>4 DEF r

(* In every program each window is a load of its own slot; the slot holds  *)
(* the address wherever the pass has one, and the register is the window's *)
(* wherever the pass knows it.                                             *)
THEOREM WindowsTheorem == Spec => []WindowsAreServed
<1>1. ImageInv => WindowsAreServed
  <2> SUFFICES ASSUME ImageInv, Loaded, NEW i \in DOMAIN window
               PROVE  /\ window[i].slot # NoSlot
                      /\ \A j \in DOMAIN window : window[j].slot = window[i].slot => j = i
                      /\ IsUnaddressed(mc.relocs[i]) \/ mem[window[i].slot] = Named(mc.relocs[i])
                      /\ \/ <<mc.relocs[i].sym, mc.relocs[i].reg>> \in Misread
                         \/ window[i].reg = mc.relocs[i].reg
    BY DEF WindowsAreServed
  <2>1. i \in CodeRelocs /\ i \in Bound /\ mc \in MachineCodes
    BY LoadedImage
  <2>2. PICK n \in DOMAIN rela :
          /\ n <= NGot
          /\ window[i] = [reg |-> Given(mc.relocs[i]), slot |-> SlotAt(n)]
          /\ Fits(rela[n], mc.relocs[i])
    BY <2>1 DEF ImageInv, WindowsBound
  <2>3. rela[n].site = SlotAt(n)
    BY <2>2 DEF ImageInv, RecordsLie
  <2>4. mem[SlotAt(n)] = LoadedWord(rela[n])
    BY <2>3, LoadedImage
  <2>5. SlotAt(n) # NoSlot
    BY <2>3, SitesLie DEF NoSlot
  <2>6. window[i].reg = Given(mc.relocs[i]) /\ window[i].slot = SlotAt(n)
    BY <2>2
  <2>7. IsUnaddressed(mc.relocs[i]) \/ mem[window[i].slot] = Named(mc.relocs[i])
    BY <2>1, <2>2, <2>4, <2>6, WordOfWindow
  <2>8. \/ <<mc.relocs[i].sym, mc.relocs[i].reg>> \in Misread
        \/ window[i].reg = mc.relocs[i].reg
    BY <2>1, <2>6, RegisterOfWindow
  <2>9. \A j \in DOMAIN window : window[j].slot = window[i].slot => j = i
    BY LoadedImage DEF ImageInv, SlotsApart
  <2>10. QED
    BY <2>5, <2>6, <2>7, <2>8, <2>9
<1>2. QED
  BY ImageInvariant, <1>1, PTL

(* Every word of a vtable becomes the loaded address of the function its   *)
(* row names.                                                              *)
THEOREM VtablesTheorem == Spec => []VtablesDispatch
<1>1. ImageInv => VtablesDispatch
  <2> SUFFICES ASSUME ImageInv, Loaded, NEW i \in DataRelocs
               PROVE  mem[DataAt + mc.relocs[i].site] = Named(mc.relocs[i])
    BY DEF VtablesDispatch
  <2> DEFINE r == mc.relocs[i]
  <2>1. i \in Placed /\ mc \in MachineCodes
    BY LoadedImage
  <2>2. PICK n \in DOMAIN rela : rela[n] = WordRec(r)
    BY <2>1 DEF ImageInv, WordsPlaced
  <2>3. mem[rela[n].site] = LoadedWord(rela[n])
    BY LoadedImage
  <2>4. rela[n].type = "RELATIVE" /\ rela[n].site = DataAt + r.site /\ rela[n].value = FinalValue(r)
    BY <2>2 DEF WordRec, Rec
  <2>5. LoadedWord(rela[n]) = Base + FinalValue(r)
    BY <2>4 DEF LoadedWord
  <2>6. r.sym = "Fn" /\ r.section = "Data" /\ i \in DOMAIN mc.relocs
    BY <2>1, Words DEF DataRelocs, IsDataAbs64
  <2>7. mc.fn_bases[r.n] \in Nat /\ CodeBase \in Nat /\ Base \in Nat
    BY <2>1, <2>6, RelocData, Layout, BaseAssumption
  <2> HIDE DEF r
  <2>8. FinalValue(r) = CodeBase + mc.fn_bases[r.n]
    BY <2>6 DEF FinalValue, FnAt
  <2>9. Named(r) = Base + CodeBase + mc.fn_bases[r.n]
    BY <2>6 DEF Named
  <2>10. LoadedWord(rela[n]) = Named(r)
    BY <2>5, <2>7, <2>8, <2>9
  <2>11. QED
    BY <2>3, <2>4, <2>10 DEF r
<1>2. QED
  BY ImageInvariant, <1>1, PTL

-----------------------------------------------------------------------------
(* The entry trampolines.                                                  *)

LEMMA ShiftedShape ==
  ASSUME mc \in MachineCodes, entry \in DOMAIN mc.exports
  PROVE  /\ mc.exports[entry].arity \in Nat /\ mc.exports[entry].receiver \in BOOLEAN
         /\ Shifted \in 0 .. 5
         /\ \A p \in 1 .. mc.exports[entry].arity : p <= 5 => p <= Shifted
<1>1. mc.exports[entry].arity \in Nat /\ mc.exports[entry].receiver \in BOOLEAN
  BY TablesShape
<1>2. QED
  BY <1>1 DEF Shifted

LEMMA HostNext ==
  ASSUME HostInv, [Next]_vars
  PROVE  HostInv'
<1>1. mc \in MachineCodes /\ mc' = mc
  BY DEF HostInv, Next, vars, image, SkipInCode, BindImport, FillSlot, Turn, SkipInData,
         RelocateData, HashSymbol, LoadRecord, HostCall, Shift, CallBody
<1>2. CASE pc' \notin {"shift", "body"}
  BY <1>1, <1>2 DEF HostInv, HostArgumentsArrive
<1>3. CASE \E i \in DOMAIN mc.exports : HostCall(i)
  <2>1. PICK i \in DOMAIN mc.exports : HostCall(i)
    BY <1>3
  <2>2. /\ entry' = i /\ regs' = [j \in 0 .. 5 |-> j + 1] /\ pc' = "shift"
        /\ k' = IF mc.exports[i].receiver THEN 1 ELSE 7
    BY <2>1 DEF HostCall
  <2>3. mc.exports[i].arity \in Nat
    BY <1>1, TablesShape
  <2>4. Shifted' \in 0 .. 5
    BY <1>1, <2>2, <2>3 DEF Shifted
  <2>5. entry' \in DOMAIN mc'.exports /\ regs' \in [0 .. 5 -> Int] /\ k' \in Nat
    BY <1>1, <2>2
  <2>6. IF mc'.exports[entry'].receiver
        THEN /\ k' \in 1 .. Shifted' + 1
             /\ \A j \in 0 .. 5 :
                  regs'[j] = IF j <= Shifted' /\ j + k' >= Shifted' + 2 THEN j ELSE j + 1
        ELSE k' = 7 /\ \A j \in 0 .. 5 : regs'[j] = j + 1
    <3>1. \A j \in 0 .. 5 : regs'[j] = j + 1
      BY <2>2
    <3> DEFINE s == Shifted'
    <3> s \in 0 .. 5
      BY <2>4
    <3> HIDE DEF s
    <3>2. \A j \in 0 .. 5 : ~ (j <= s /\ j + 1 >= s + 2)
      OBVIOUS
    <3>3. mc'.exports[entry'].receiver = mc.exports[i].receiver
      BY <1>1, <2>2
    <3>4. 1 \in 1 .. s + 1
      OBVIOUS
    <3>5. CASE mc.exports[i].receiver
      <4>1. k' = 1
        BY <2>2, <3>5
      <4>2. \A j \in 0 .. 5 : regs'[j] = IF j <= s /\ j + k' >= s + 2 THEN j ELSE j + 1
        BY <3>1, <3>2, <4>1
      <4>3. k' \in 1 .. s + 1
        BY <3>4, <4>1
      <4>4. QED
        BY <3>3, <3>5, <4>2, <4>3 DEF s
    <3>6. CASE ~ mc.exports[i].receiver
      BY <2>2, <3>1, <3>3, <3>6
    <3>7. QED
      BY <3>5, <3>6
  <2>7. HostArgumentsArrive'
    BY <2>2 DEF HostArgumentsArrive
  <2>8. QED
    BY <1>1, <2>5, <2>6, <2>7 DEF HostInv
<1>4. CASE Shift
  <2> DEFINE m == Moved(k)
  <2>0. m = Shifted + 1 - k
    BY DEF Moved
  <2>1. /\ pc = "shift" /\ pc' = "shift" /\ k <= Shifted /\ k' = k + 1 /\ entry' = entry
        /\ regs' = [regs EXCEPT ![m] = regs[m - 1]]
    BY <1>4 DEF Shift
  <2> HIDE DEF m
  <2>2. /\ entry \in DOMAIN mc.exports /\ regs \in [0 .. 5 -> Int] /\ k \in Nat
        /\ mc.exports[entry].receiver => k \in 1 .. Shifted + 1
        /\ mc.exports[entry].receiver =>
             \A j \in 0 .. 5 :
               regs[j] = IF j <= Shifted /\ j + k >= Shifted + 2 THEN j ELSE j + 1
        /\ ~ mc.exports[entry].receiver => k = 7
    BY <2>1 DEF HostInv
  <2>3. Shifted \in 0 .. 5 /\ mc.exports[entry].receiver \in BOOLEAN
    BY <1>1, <2>2, ShiftedShape
  <2>4. mc.exports[entry].receiver
    BY <2>1, <2>2, <2>3
  <2>5. Shifted' = Shifted
    BY <1>1, <2>1 DEF Shifted
  <2>6. k \in 1 .. Shifted /\ m \in 1 .. 5
    BY <2>0, <2>1, <2>2, <2>3, <2>4
  <2>7. regs[m - 1] = m
    <3>1. m - 1 \in 0 .. 5 /\ ~ (m - 1 + k >= Shifted + 2) /\ m - 1 + 1 = m
      BY <2>0, <2>3, <2>6
    <3>2. QED
      BY <2>2, <2>4, <3>1
  <2>8. ASSUME NEW j \in 0 .. 5
        PROVE  regs'[j] = IF j <= Shifted' /\ j + k' >= Shifted' + 2 THEN j ELSE j + 1
    <3>1. CASE j = m
      <4>1. regs'[j] = j
        BY <2>1, <2>2, <2>6, <2>7, <3>1
      <4>2. j <= Shifted /\ j + (k + 1) >= Shifted + 2
        BY <2>0, <2>3, <2>6, <3>1
      <4>3. QED
        BY <2>1, <2>5, <4>1, <4>2
    <3>2. CASE j # m
      <4>1. regs'[j] = regs[j]
        BY <2>1, <2>2, <3>2
      <4>2. j + (k + 1) >= Shifted + 2 <=> j + k >= Shifted + 2
        BY <2>0, <2>3, <2>6, <3>2
      <4>3. QED
        BY <2>1, <2>2, <2>4, <2>5, <4>1, <4>2
    <3>3. QED
      BY <3>1, <3>2
  <2>9. regs' \in [0 .. 5 -> Int] /\ k' \in Nat /\ k' \in 1 .. Shifted' + 1
    <3>1. regs' \in [0 .. 5 -> Int]
      BY <2>1, <2>2, <2>3, <2>6, <2>7
    <3>2. k' \in Nat /\ k' \in 1 .. Shifted' + 1
      BY <2>1, <2>3, <2>5, <2>6
    <3>3. QED
      BY <3>1, <3>2
  <2>10. HostArgumentsArrive'
    BY <2>1 DEF HostArgumentsArrive
  <2>11. QED
    BY <1>1, <2>1, <2>2, <2>4, <2>8, <2>9, <2>10 DEF HostInv
<1>5. CASE CallBody
  <2>1. /\ pc = "shift" /\ pc' = "body" /\ k > Shifted /\ entry' = entry
        /\ regs' = IF mc.exports[entry].receiver THEN [regs EXCEPT ![0] = 0] ELSE regs
    BY <1>5 DEF CallBody, image
  <2>2. /\ entry \in DOMAIN mc.exports /\ regs \in [0 .. 5 -> Int] /\ k \in Nat
        /\ mc.exports[entry].receiver => k \in 1 .. Shifted + 1
        /\ mc.exports[entry].receiver =>
             \A j \in 0 .. 5 :
               regs[j] = IF j <= Shifted /\ j + k >= Shifted + 2 THEN j ELSE j + 1
        /\ ~ mc.exports[entry].receiver => \A j \in 0 .. 5 : regs[j] = j + 1
    BY <2>1 DEF HostInv
  <2>3. /\ mc.exports[entry].arity \in Nat /\ mc.exports[entry].receiver \in BOOLEAN
        /\ Shifted \in 0 .. 5
        /\ \A p \in 1 .. mc.exports[entry].arity : p <= 5 => p <= Shifted
    BY <1>1, <2>2, ShiftedShape
  <2>4. CASE mc.exports[entry].receiver
    <3>1. k = Shifted + 1
      BY <2>1, <2>2, <2>3, <2>4
    <3>2. regs' = [regs EXCEPT ![0] = 0]
      BY <2>1, <2>4
    <3>3. regs'[0] = 0
      BY <2>2, <3>2
    <3>4. ASSUME NEW p \in 1 .. mc.exports[entry].arity, p <= 5
          PROVE  regs'[p] = p
      <4>1. p \in 1 .. 5 /\ p <= Shifted
        BY <2>3, <3>4
      <4>2. regs'[p] = regs[p]
        BY <2>2, <3>2, <4>1
      <4>3. p + k >= Shifted + 2
        BY <2>3, <3>1, <4>1
      <4>4. QED
        BY <2>2, <2>4, <4>1, <4>2, <4>3
    <3>5. HostArgumentsArrive'
      BY <1>1, <2>1, <2>4, <3>3, <3>4 DEF HostArgumentsArrive
    <3>6. QED
      BY <1>1, <2>1, <3>5 DEF HostInv
  <2>5. CASE ~ mc.exports[entry].receiver
    <3>1. regs' = regs
      BY <2>1, <2>5
    <3>2. \A p \in 1 .. mc.exports[entry].arity : p <= 6 => regs'[p - 1] = p
      <4>1. ASSUME NEW p \in 1 .. mc.exports[entry].arity, p <= 6
            PROVE  regs'[p - 1] = p
        <5>1. p - 1 \in 0 .. 5 /\ p - 1 + 1 = p
          BY <2>3, <4>1
        <5>2. QED
          BY <2>2, <2>5, <3>1, <5>1
      <4>2. QED
        BY <4>1
    <3>3. HostArgumentsArrive'
      BY <1>1, <2>1, <2>5, <3>2 DEF HostArgumentsArrive
    <3>4. QED
      BY <1>1, <2>1, <3>3 DEF HostInv
  <2>6. QED
    BY <2>3, <2>4, <2>5
<1>6. CASE UNCHANGED vars
  <2>1. /\ UNCHANGED <<mc, pc, k, entry, regs>>
    BY <1>6 DEF vars
  <2>2. Shifted' = Shifted /\ (HostArgumentsArrive' <=> HostArgumentsArrive)
    BY <2>1 DEF Shifted, HostArgumentsArrive
  <2>3. QED
    BY <2>1, <2>2 DEF HostInv
<1>7. pc' \in {"shift", "body"} =>
        (\E i \in DOMAIN mc.exports : HostCall(i)) \/ Shift \/ CallBody \/ UNCHANGED vars
  BY DEF Next, SkipInCode, BindImport, FillSlot, Turn, SkipInData,
         RelocateData, HashSymbol, LoadRecord
<1>8. QED
  BY <1>2, <1>3, <1>4, <1>5, <1>6, <1>7

(* Whatever the number of its parameters, an export's body finds the       *)
(* host's arguments in the registers its prologue reads.                   *)
THEOREM HostTheorem == Spec => []HostArgumentsArrive
<1>1. Init => HostInv
  BY DEF Init, HostInv, HostArgumentsArrive
<1>2. HostInv /\ [Next]_vars => HostInv'
  BY HostNext
<1>3. HostInv => HostArgumentsArrive
  BY DEF HostInv
<1>4. QED
  BY <1>1, <1>2, <1>3, PTL DEF Spec

-----------------------------------------------------------------------------
(* The symbol hash table.                                                  *)

LEMMA Buckets ==
  ASSUME mc \in MachineCodes, hash \in [SymNames -> HashValues]
  PROVE  /\ NSyms \in Nat \ {0} /\ DepSymBase \in Nat \ {0} /\ DepSymBase <= NSyms
         /\ \A s \in 1 .. DepSymBase - 1 : BucketOf(SymName(s)) \in 0 .. NSyms - 1
<1>1. DepSymBase \in Nat \ {0}
  <2>1. \A x, y \in Nat : x + y + 1 \in Nat \ {0}
    OBVIOUS
  <2>2. DepSymBase = Len(mc.exports) + Len(mc.objects) + 1
    BY DEF DepSymBase
  <2>3. QED
    BY <2>1, <2>2, TablesShape
<1>2. Len(DepSyms) = Cardinality(FirstDeps) /\ Cardinality(FirstDeps) \in Nat
  BY DepShape DEF DepSyms
<1>3. NSyms \in Nat \ {0} /\ DepSymBase <= NSyms
  BY <1>1, <1>2 DEF NSyms
<1>4. ASSUME NEW s \in 1 .. DepSymBase - 1
      PROVE  BucketOf(SymName(s)) \in 0 .. NSyms - 1
  <2>1. SymName(s) \in SymNames
    BY DEF SymNames
  <2>2. hash[SymName(s)] \in Nat
    BY <2>1, HashAssumption
  <2>3. \A x \in Nat, n \in Nat \ {0} : x % n \in 0 .. n - 1
    OBVIOUS
  <2>4. QED
    BY <1>3, <2>2, <2>3 DEF BucketOf
<1>5. QED
  BY <1>1, <1>3, <1>4

(* The symbols never change.                                               *)
LEMMA SameSymbols ==
  ASSUME mc' = mc, hash' = hash
  PROVE  /\ NSyms' = NSyms /\ DepSymBase' = DepSymBase /\ SymNames' = SymNames
         /\ \A s : BucketOf(SymName(s))' = BucketOf(SymName(s))
         /\ \A s, b, n : IsLatest(s, b, n)' <=> IsLatest(s, b, n)
<1>1. DepSymBase' = DepSymBase /\ NSyms' = NSyms
  BY SameImage, Zenon DEF DepSymBase, NSyms
<1>2. \A s : SymName(s)' = SymName(s)
  BY Zenon DEF SymName
<1>3. SymNames' = SymNames
  BY <1>1, <1>2, Zenon DEF SymNames
<1>4. \A s : BucketOf(SymName(s))' = BucketOf(SymName(s))
  BY <1>1, <1>2, Zenon DEF BucketOf
<1>5. \A s, b, n : IsLatest(s, b, n)' <=> IsLatest(s, b, n)
  BY <1>4, Zenon DEF IsLatest
<1>6. QED
  BY <1>1, <1>3, <1>4, <1>5, Zenon

LEMMA InitHash ==
  ASSUME Init
  PROVE  HashInv
<1>1. mc \in MachineCodes /\ hash \in [SymNames -> HashValues] /\ pc = "got" /\ k = 1
  BY DEF Init
<1>2. NSyms \in Nat \ {0}
  BY <1>1, Buckets
<1>3. bucket = [b \in 0 .. NSyms - 1 |-> 0] /\ chain = [s \in 0 .. NSyms - 1 |-> 0]
  BY DEF Init
<1>4. chain[0] = 0 /\ DOMAIN bucket = 0 .. NSyms - 1 /\ DOMAIN chain = 0 .. NSyms - 1
  BY <1>2, <1>3
<1>5. Indexed = 0
  BY <1>1 DEF Indexed
<1>6. \A b \in 0 .. NSyms - 1 : IsLatest(bucket[b], b, Indexed)
  BY <1>3, <1>5 DEF IsLatest
<1>7. QED
  BY <1>1, <1>4, <1>5, <1>6 DEF HashInv

(* A symbol becomes the latest of its bucket, and the one it had follows   *)
(* it.                                                                     *)
LEMMA SymbolLinked ==
  ASSUME HashInv, HashSymbol
  PROVE  HashInv'
<1> DEFINE b == BucketOf(SymName(k))
<1>1. /\ mc \in MachineCodes /\ hash \in [SymNames -> HashValues] /\ k \in Nat \ {0}
      /\ DOMAIN bucket = 0 .. NSyms - 1 /\ DOMAIN chain = 0 .. NSyms - 1 /\ chain[0] = 0
  BY DEF HashInv
<1>2. /\ pc = "hash" /\ pc' = "hash" /\ k < DepSymBase /\ k' = k + 1
      /\ mc' = mc /\ hash' = hash
      /\ bucket' = [bucket EXCEPT ![b] = k] /\ chain' = [chain EXCEPT ![k] = bucket[b]]
  BY DEF HashSymbol, Linked
<1>3. /\ NSyms \in Nat \ {0} /\ DepSymBase \in Nat \ {0} /\ DepSymBase <= NSyms
      /\ \A s \in 1 .. DepSymBase - 1 : BucketOf(SymName(s)) \in 0 .. NSyms - 1
  BY <1>1, Buckets
<1>4. Indexed = k - 1 /\ Indexed' = k /\ k \in 1 .. DepSymBase - 1
  BY <1>1, <1>2, <1>3 DEF Indexed
<1>5. /\ \A c \in 0 .. NSyms - 1 : IsLatest(bucket[c], c, k - 1)
      /\ \A s \in 1 .. k - 1 : IsLatest(chain[s], BucketOf(SymName(s)), s - 1)
  BY <1>4 DEF HashInv
<1>6. b \in 0 .. NSyms - 1
  BY <1>3, <1>4
<1>7. ASSUME NEW c \in 0 .. NSyms - 1
      PROVE  IsLatest(bucket'[c], c, k)
  <2>1. CASE c = b
    <3>1. bucket'[c] = k
      BY <1>1, <1>2, <2>1
    <3>2. k \in 0 .. k /\ \A t \in 1 .. k : t <= k
      BY <1>1
    <3>3. QED
      BY <2>1, <3>1, <3>2 DEF IsLatest
  <2>2. CASE c # b
    <3>1. bucket'[c] = bucket[c] /\ IsLatest(bucket[c], c, k - 1)
      BY <1>1, <1>2, <1>5, <2>2
    <3>2. \A t \in 1 .. k : t \in 1 .. k - 1 \/ t = k
      BY <1>1
    <3>3. \A t \in 0 .. k - 1 : t \in 0 .. k
      BY <1>1
    <3>4. QED
      BY <2>2, <3>1, <3>2, <3>3 DEF IsLatest
  <2>3. QED
    BY <2>1, <2>2
<1>8. ASSUME NEW s \in 1 .. k
      PROVE  IsLatest(chain'[s], BucketOf(SymName(s)), s - 1)
  <2>1. k \in DOMAIN chain
    BY <1>1, <1>3, <1>4
  <2>2. CASE s = k
    <3>1. chain'[s] = bucket[b]
      BY <1>2, <2>1, <2>2
    <3>2. QED
      BY <1>5, <1>6, <2>2, <3>1
  <2>3. CASE s # k
    <3>1. chain'[s] = chain[s] /\ s \in 1 .. k - 1
      <4>1. s \in 1 .. k - 1 /\ s \in DOMAIN chain
        BY <1>1, <1>3, <1>4, <2>3
      <4>2. QED
        BY <1>2, <2>3, <4>1
    <3>2. QED
      BY <1>5, <3>1
  <2>4. QED
    BY <2>2, <2>3
<1>9. /\ DOMAIN bucket' = 0 .. NSyms - 1 /\ DOMAIN chain' = 0 .. NSyms - 1 /\ chain'[0] = 0
      /\ k' \in Nat \ {0} /\ k' <= DepSymBase
  <2>1. k # 0 /\ 0 \in DOMAIN chain
    BY <1>1, <1>3
  <2>2. chain'[0] = 0
    BY <1>1, <1>2, <2>1
  <2>3. k' \in Nat \ {0} /\ k' <= DepSymBase
    BY <1>1, <1>2, <1>3
  <2>4. QED
    BY <1>1, <1>2, <2>2, <2>3
<1> HIDE DEF b
<1>10. /\ NSyms' = NSyms /\ DepSymBase' = DepSymBase /\ SymNames' = SymNames
       /\ \A s : BucketOf(SymName(s))' = BucketOf(SymName(s))
       /\ \A s, c, n : IsLatest(s, c, n)' <=> IsLatest(s, c, n)
  BY <1>2, SameSymbols
<1>11. /\ \A c \in 0 .. NSyms' - 1 : IsLatest(bucket[c], c, Indexed)'
       /\ \A s \in 1 .. Indexed' : IsLatest(chain[s], BucketOf(SymName(s)), s - 1)'
  <2>1. ASSUME NEW c \in 0 .. NSyms - 1
        PROVE  IsLatest(bucket[c], c, Indexed)'
    <3>1. \A t : BucketOf(SymName(t))' = BucketOf(SymName(t))
      BY <1>10
    <3>2. IsLatest(bucket'[c], c, Indexed')
      BY <1>4, <1>7
    <3>3. QED
      BY <3>1, <3>2, Zenon DEF IsLatest
  <2>2. ASSUME NEW s \in 1 .. k
        PROVE  IsLatest(chain[s], BucketOf(SymName(s)), s - 1)'
    <3>1. \A t : BucketOf(SymName(t))' = BucketOf(SymName(t))
      BY <1>10
    <3>2. IsLatest(chain'[s], BucketOf(SymName(s)), s - 1)
      BY <1>8
    <3>3. QED
      BY <3>1, <3>2, Zenon DEF IsLatest
  <2>3. QED
    BY <1>4, <1>10, <2>1, <2>2
<1>12. QED
  BY <1>1, <1>2, <1>9, <1>10, <1>11, Zenon DEF HashInv

LEMMA HashNext ==
  ASSUME HashInv, [Next]_vars
  PROVE  HashInv'
<1>1. CASE HashSymbol
  BY <1>1, SymbolLinked
<1>2. CASE ~ HashSymbol
  <2>1. mc' = mc /\ hash' = hash /\ bucket' = bucket /\ chain' = chain
    BY <1>2 DEF Next, vars, image, SkipInCode, BindImport, FillSlot, Turn, SkipInData,
         RelocateData, LoadRecord, HostCall, Shift, CallBody
  <2>2. /\ mc \in MachineCodes /\ hash \in [SymNames -> HashValues] /\ k \in Nat \ {0}
        /\ (pc = "hash" => k <= DepSymBase)
    BY DEF HashInv
  <2>3. DepSymBase \in Nat \ {0}
    BY <2>2, Buckets
  <2>4. /\ NSyms' = NSyms /\ DepSymBase' = DepSymBase /\ SymNames' = SymNames
        /\ \A s : BucketOf(SymName(s))' = BucketOf(SymName(s))
        /\ \A s, c, n : IsLatest(s, c, n)' <=> IsLatest(s, c, n)
    BY <2>1, SameSymbols
  <2>5. k' \in Nat \ {0}
    BY <1>2, <2>2 DEF Next, vars, SkipInCode, BindImport, FillSlot, Turn, SkipInData,
         RelocateData, LoadRecord, HostCall, Shift, CallBody
  <2>6. Indexed' = Indexed /\ (pc' = "hash" => k' <= DepSymBase)
    <3>1. CASE Turn("data", Len(mc.relocs), "hash")
      BY <2>3, <3>1 DEF Turn, Indexed
    <3>2. CASE Turn("hash", DepSymBase - 1, "load")
      <4>1. pc = "hash" /\ pc' = "load" /\ k > DepSymBase - 1
        BY <3>2 DEF Turn
      <4>2. k = DepSymBase
        BY <2>2, <2>3, <4>1
      <4>3. QED
        BY <2>4, <4>1, <4>2 DEF Indexed
    <3>3. CASE \/ pc \in {"got", "data"} /\ pc' \in {"got", "data"}
               \/ pc \notin {"got", "data", "hash"} /\ pc' \notin {"got", "data", "hash"}
               \/ UNCHANGED <<pc, k>>
      BY <2>2, <2>4, <3>3 DEF Indexed
    <3>4. \/ Turn("data", Len(mc.relocs), "hash") \/ Turn("hash", DepSymBase - 1, "load")
          \/ pc \in {"got", "data"} /\ pc' \in {"got", "data"}
          \/ pc \notin {"got", "data", "hash"} /\ pc' \notin {"got", "data", "hash"}
          \/ UNCHANGED <<pc, k>>
      <4>1. CASE Turn("got", Len(mc.relocs), "data") \/ Turn("load", Len(rela), "ready")
        BY <4>1 DEF Turn
      <4>2. CASE SkipInCode \/ BindImport \/ FillSlot \/ SkipInData \/ RelocateData
                 \/ LoadRecord \/ (\E i \in DOMAIN mc.exports : HostCall(i)) \/ Shift \/ CallBody
        BY <4>2 DEF SkipInCode, BindImport, FillSlot, SkipInData, RelocateData,
             LoadRecord, HostCall, Shift, CallBody
      <4>3. CASE UNCHANGED vars
        BY <4>3 DEF vars
      <4>4. QED
        BY <1>2, <4>1, <4>2, <4>3 DEF Next
    <3>5. QED
      BY <3>1, <3>2, <3>3, <3>4
  <2>7. QED
    BY <2>1, <2>4, <2>5, <2>6, Zenon DEF HashInv
<1>3. QED
  BY <1>1, <1>2

(* dlsym: the walk along the chain of a name's bucket comes down through   *)
(* the symbols of that bucket, meets every one, and ends.                  *)
LEMMA Found ==
  ASSUME HashInv, Written, NEW s \in 1 .. DepSymBase - 1,
         NEW At, At[0] = bucket[BucketOf(SymName(s))],
         \A n \in 1 .. NSyms : At[n] = chain[At[n - 1]]
  PROVE  /\ At[NSyms] = 0
         /\ \E n \in 0 .. NSyms :
              /\ At[n] # 0 /\ SymName(At[n]) = SymName(s)
              /\ \A m \in 0 .. n - 1 : SymName(At[m]) # SymName(s)
<1> DEFINE M == DepSymBase - 1
           b == BucketOf(SymName(s))
           In(t) == BucketOf(SymName(t))
<1>1. mc \in MachineCodes /\ hash \in [SymNames -> HashValues] /\ chain[0] = 0
  BY DEF HashInv
<1>2. /\ NSyms \in Nat \ {0} /\ M \in Nat /\ M < NSyms
      /\ b \in 0 .. NSyms - 1
  <2>1. /\ NSyms \in Nat \ {0} /\ DepSymBase \in Nat \ {0} /\ DepSymBase <= NSyms
        /\ b \in 0 .. NSyms - 1
    BY <1>1, Buckets
  <2>2. QED
    BY <2>1
<1>3. Indexed = M
  BY DEF Indexed, Written
<1>4. /\ bucket[b] \in 0 .. M /\ (bucket[b] # 0 => In(bucket[b]) = b)
      /\ \A t \in 1 .. M : In(t) = b => t <= bucket[b]
  BY <1>2, <1>3 DEF HashInv, IsLatest
<1>5. \A u \in 1 .. M : /\ chain[u] \in 0 .. u - 1 /\ (chain[u] # 0 => In(chain[u]) = In(u))
                        /\ \A t \in 1 .. u - 1 : In(t) = In(u) => t <= chain[u]
  BY <1>3 DEF HashInv, IsLatest
<1>6. s \in 1 .. M /\ In(s) = b
  OBVIOUS
<1>7. At[0] = bucket[b] /\ \A n \in 1 .. NSyms : At[n] = chain[At[n - 1]]
  OBVIOUS
<1> HIDE DEF M, b, In
<1>8. \A n \in 0 .. NSyms :
        At[n] \in 0 .. M /\ (At[n] # 0 => At[n] + n <= M /\ In(At[n]) = b)
  <2> DEFINE G == {n \in 0 .. NSyms :
                     At[n] \in 0 .. M /\ (At[n] # 0 => At[n] + n <= M /\ In(At[n]) = b)}
  <2>1. 0 \in G
    BY <1>2, <1>4, <1>7
  <2>2. ASSUME NEW n \in 1 .. NSyms, n - 1 \in G
        PROVE  n \in G
    <3>1. At[n] = chain[At[n - 1]] /\ At[n - 1] \in 0 .. M
      BY <1>7, <2>2
    <3>2. CASE At[n - 1] = 0
      BY <1>1, <1>2, <3>1, <3>2
    <3>3. CASE At[n - 1] # 0
      <4>1. At[n - 1] \in 1 .. M /\ At[n - 1] + (n - 1) <= M /\ In(At[n - 1]) = b
        BY <1>2, <2>2, <3>1, <3>3
      <4>2. At[n] \in 0 .. At[n - 1] - 1 /\ (At[n] # 0 => In(At[n]) = b)
        <5> DEFINE u == At[n - 1]
        <5>1. chain[u] \in 0 .. u - 1 /\ (chain[u] # 0 => In(chain[u]) = In(u))
          BY <1>5, <4>1
        <5>2. At[n] = chain[u] /\ In(u) = b
          BY <3>1, <4>1
        <5> HIDE DEF u
        <5>3. At[n] \in 0 .. u - 1 /\ (At[n] # 0 => In(At[n]) = b)
          BY <5>1, <5>2, Zenon
        <5>4. QED
          BY <5>3 DEF u
      <4>3. At[n] \in 0 .. M /\ At[n] + n <= M
        <5>1. \A u, v, i \in Int : u <= M /\ u + (i - 1) <= M /\ v \in 0 .. u - 1
                                    => v \in 0 .. M /\ v + i <= M
          BY <1>2
        <5>2. At[n - 1] \in Int /\ At[n - 1] <= M /\ At[n] \in Int /\ n \in Int
          BY <1>2, <4>1, <4>2
        <5>3. QED
          BY <4>1, <4>2, <5>1, <5>2
      <4>4. QED
        BY <4>2, <4>3
    <3>4. QED
      BY <3>2, <3>3
  <2> HIDE DEF G
  <2>3. \A n \in 0 .. NSyms : n \in G
    BY <1>2, <2>1, <2>2, UpTo
  <2>4. QED
    BY <2>3 DEF G
<1>9. At[NSyms] = 0
  <2>1. At[NSyms] \in 0 .. M /\ (At[NSyms] # 0 => At[NSyms] + NSyms <= M)
    BY <1>2, <1>8
  <2>2. QED
    BY <1>2, <2>1
<1>10. \E n \in 0 .. NSyms : At[n] = s
  <2> DEFINE T == {n \in 0 .. NSyms : At[n] <= s}
  <2>1. T \in SUBSET Nat /\ T # {}
    <3>1. NSyms \in T
      BY <1>2, <1>6, <1>9
    <3>2. QED
      BY <3>1
  <2>2. PICK n \in T : \A m \in T : n <= m
    <3> HIDE DEF T
    <3>1. QED
      BY <2>1, LeastNumber
  <2>3. CASE n = 0
    <3>1. s <= At[0] /\ At[0] <= s
      BY <1>4, <1>6, <1>7, <2>2, <2>3
    <3>2. QED
      BY <1>2, <1>6, <1>8, <2>2, <2>3, <3>1
  <2>4. CASE n # 0
    <3>1. n \in 1 .. NSyms /\ n - 1 \in 0 .. NSyms /\ ~ (n <= n - 1)
      BY <1>2, <2>2, <2>4
    <3>2. ~ (At[n - 1] <= s)
      BY <2>2, <3>1
    <3>3. At[n - 1] \in 1 .. M /\ s \in 1 .. At[n - 1] - 1
      BY <1>2, <1>6, <1>8, <3>1, <3>2
    <3>4. In(At[n - 1]) = b
      BY <1>8, <3>1, <3>3
    <3>5. s <= chain[At[n - 1]]
      BY <1>5, <1>6, <3>3, <3>4
    <3>6. s <= At[n] /\ At[n] <= s /\ At[n] \in 0 .. M
      BY <1>7, <1>8, <2>2, <3>1, <3>5
    <3>7. At[n] = s
      BY <1>2, <1>6, <3>6
    <3>8. QED
      BY <3>1, <3>7
  <2>5. QED
    BY <2>3, <2>4
<1>11. ASSUME NEW n \in 0 .. NSyms, At[n] # 0
       PROVE  \A m \in 0 .. n - 1 : At[m] # 0
  <2> SUFFICES ASSUME NEW m \in 0 .. n - 1, At[m] = 0 PROVE FALSE
    OBVIOUS
  <2> DEFINE G == {i \in 0 .. n - m : At[m + i] = 0}
  <2>1. n - m \in Nat
    OBVIOUS
  <2>2. 0 \in G
    OBVIOUS
  <2>3. ASSUME NEW i \in 1 .. n - m, i - 1 \in G
        PROVE  i \in G
    <3>1. m + i \in 1 .. NSyms /\ m + i - 1 = m + (i - 1)
      BY <1>2
    <3>2. At[m + i] = chain[At[m + i - 1]]
      BY <1>7, <3>1
    <3>3. At[m + i - 1] = 0
      BY <2>3, <3>1
    <3>4. QED
      BY <1>1, <3>2, <3>3
  <2>4. n - m \in 0 .. n - m /\ m + (n - m) = n
    OBVIOUS
  <2>5. n - m \in G
    <3> HIDE DEF G
    <3>1. QED
      BY <2>1, <2>2, <2>3, <2>4, UpTo
  <2>6. QED
    BY <1>11, <2>4, <2>5
<1>12. \E n \in 0 .. NSyms :
         /\ At[n] # 0 /\ SymName(At[n]) = SymName(s)
         /\ \A m \in 0 .. n - 1 : SymName(At[m]) # SymName(s)
  <2> DEFINE T == {n \in 0 .. NSyms : At[n] # 0 /\ SymName(At[n]) = SymName(s)}
  <2>1. T \in SUBSET Nat /\ T # {}
    <3>1. PICK n \in 0 .. NSyms : At[n] = s
      BY <1>10
    <3>2. s # 0
      BY <1>2, <1>6
    <3>3. n \in T
      BY <3>1, <3>2, Zenon
    <3>4. \A i \in T : i \in 0 .. NSyms
      BY Zenon
    <3> HIDE DEF T
    <3>5. QED
      BY <3>3, <3>4
  <2>2. PICK n \in T : \A m \in T : n <= m
    <3> HIDE DEF T
    <3>1. QED
      BY <2>1, LeastNumber
  <2>3. ASSUME NEW m \in 0 .. n - 1
        PROVE  SymName(At[m]) # SymName(s)
    <3>1. m \in 0 .. NSyms /\ ~ (n <= m)
      BY <1>2, <2>2
    <3>2. At[m] # 0
      BY <1>11, <2>2
    <3>3. QED
      BY <2>2, <3>1, <3>2
  <2>4. QED
    BY <2>2, <2>3
<1>13. QED
  BY <1>9, <1>12

(* The walk of Found is there.                                             *)
LEMMA Walk ==
  ASSUME HashInv, Written, NEW s \in 1 .. DepSymBase - 1
  PROVE  \E g : g = [n \in 0 .. NSyms |-> IF n = 0 THEN bucket[BucketOf(SymName(s))]
                                          ELSE chain[g[n - 1]]]
<1> DEFINE M == DepSymBase - 1
           a == bucket[BucketOf(SymName(s))]
           H == [n \in 1 .. NSyms |-> [t \in 0 .. M |-> chain[t]]]
<1>1. mc \in MachineCodes /\ hash \in [SymNames -> HashValues] /\ chain[0] = 0
  BY DEF HashInv
<1>2. /\ NSyms \in Nat /\ M \in Nat /\ BucketOf(SymName(s)) \in 0 .. NSyms - 1
  <2>1. /\ NSyms \in Nat \ {0} /\ DepSymBase \in Nat \ {0}
        /\ BucketOf(SymName(s)) \in 0 .. NSyms - 1
    BY <1>1, Buckets
  <2>2. QED
    BY <2>1
<1>3. Indexed = M
  BY DEF Indexed, Written
<1>4. a \in 0 .. M
  BY <1>2, <1>3 DEF HashInv, IsLatest
<1>5. \A t \in 0 .. M : chain[t] \in 0 .. M
  <2>1. \A t \in 1 .. M : chain[t] \in 0 .. t - 1
    BY <1>3 DEF HashInv, IsLatest
  <2>2. \A t \in 0 .. M : t = 0 \/ t \in 1 .. M
    BY <1>2
  <2>3. \A t \in 1 .. M : chain[t] \in 0 .. M
    BY <1>2, <2>1
  <2>4. 0 \in 0 .. M
    BY <1>2
  <2>5. QED
    BY <1>1, <2>2, <2>3, <2>4
<1> HIDE DEF M, a
<1>6. H \in [1 .. NSyms -> [0 .. M -> 0 .. M]]
  BY <1>5
<1>7. \A n \in 1 .. NSyms, t \in 0 .. M : H[n][t] = chain[t]
  OBVIOUS
<1> HIDE DEF H
<1>8. PICK g \in [0 .. NSyms -> 0 .. M] : Recursive(g, NSyms, a, H)
  BY <1>2, <1>4, <1>6, Recursion
<1>9. g[0] = a /\ \A n \in 1 .. NSyms : g[n] = chain[g[n - 1]]
  <2>1. \A n \in 1 .. NSyms : g[n - 1] \in 0 .. M
    BY <1>2, <1>8
  <2>2. QED
    BY <1>7, <1>8, <2>1 DEF Recursive
<1>10. g = [n \in 0 .. NSyms |-> IF n = 0 THEN a ELSE chain[g[n - 1]]]
  <2>1. \A n \in 0 .. NSyms : g[n] = IF n = 0 THEN a ELSE chain[g[n - 1]]
    BY <1>2, <1>9
  <2>2. QED
    BY <1>8, <2>1
<1>11. QED
  BY <1>10 DEF a

(* dlsym finds every export, vtable and static, whatever their names hash  *)
(* to, and its walk ends.                                                  *)
THEOREM DlsymTheorem == Spec => []DlsymFinds
<1>1. HashInv => DlsymFinds
  <2> SUFFICES ASSUME HashInv, Written PROVE DlsymFinds
    BY DEF DlsymFinds
  <2>1. ASSUME NEW s \in 1 .. DepSymBase - 1
        PROVE  LET At == CHOOSE g : g = [n \in 0 .. NSyms |->
                            IF n = 0 THEN bucket[BucketOf(SymName(s))] ELSE chain[g[n - 1]]]
               IN  /\ At[NSyms] = 0
                   /\ \E n \in 0 .. NSyms :
                        /\ At[n] # 0 /\ SymName(At[n]) = SymName(s)
                        /\ \A m \in 0 .. n - 1 : SymName(At[m]) # SymName(s)
    <3> DEFINE At == CHOOSE g : g = [n \in 0 .. NSyms |->
                       IF n = 0 THEN bucket[BucketOf(SymName(s))] ELSE chain[g[n - 1]]]
    <3>1. At = [n \in 0 .. NSyms |->
                  IF n = 0 THEN bucket[BucketOf(SymName(s))] ELSE chain[At[n - 1]]]
      BY Walk
    <3> HIDE DEF At
    <3>2. NSyms \in Nat
      BY Buckets DEF HashInv
    <3>3. At[0] = bucket[BucketOf(SymName(s))] /\ \A n \in 1 .. NSyms : At[n] = chain[At[n - 1]]
      BY <3>1, <3>2
    <3>4. /\ At[NSyms] = 0
          /\ \E n \in 0 .. NSyms :
               /\ At[n] # 0 /\ SymName(At[n]) = SymName(s)
               /\ \A m \in 0 .. n - 1 : SymName(At[m]) # SymName(s)
      BY <3>3, Found
    <3>5. QED
      BY <3>4 DEF At
  <2>2. QED
    BY <2>1 DEF DlsymFinds
<1>2. QED
  BY InitHash, HashNext, <1>1, PTL DEF Spec
=============================================================================
