-------------------------- MODULE CallFrameProofs ---------------------------
(***************************************************************************)
(* Calls return with the caller's stack, frame, registers and slots, for   *)
(* every program whose call sites take off what they push.                 *)
(***************************************************************************)
EXTENDS CallFrame, TLAPS

(* The conditions: calls of functions of the program, virtual and receiver-*)
(* taking static ones with at most five arguments and imports with at most *)
(* six.                                                                    *)
Matching ==
  /\ CallSites \subseteq {"Fn", "Static", "Virt", "Import"} \X DOMAIN Fns
  /\ \A c \in CallSites :
       /\ c[1] \in {"Static", "Virt"} => Args(c[1], Fns[c[2]]) <= 5
       /\ c[1] = "Import" => Args(c[1], Fns[c[2]]) <= 6

Kept  == [regs : [Regs -> Words], rbp : Nat, fn : DOMAIN Fns, size : Nat, ret : Nat]
Depth == Len(before)

FrameTypes ==
  /\ mem \in Seq(Words) /\ rbp \in Nat
  /\ regs \in [Regs -> Words]
  /\ argv \in [0 .. 5 -> Words]
  /\ cur \in DOMAIN Fns /\ phase \in {"entry", "body", "back"} /\ left \in Nat
  /\ before \in Seq(Kept)

(* How many words a frame has from the saved rbp on, and how many of the   *)
(* calls not yet returned have their return address on the stack and their *)
(* callee's frame built.                                                   *)
FrameSize(f) == FrameWords(f) + Len(f.savers)
Standing     == IF phase = "back" THEN Depth - 1 ELSE Depth
Entered      == IF phase = "body" THEN Depth ELSE Depth - 1

(* A caller's frame ends where its pushes began; a later caller's frame    *)
(* lies above an earlier call's return address.                            *)
Callers ==
  /\ \A d \in 1 .. Depth :
       before[d].size = before[d].rbp + FrameSize(Fns[before[d].fn])
       /\ before[d].size < before[d].ret
  /\ \A d, e \in 1 .. Depth : d < e => before[d].ret < before[e].rbp

(* The return address goes back to the caller and takes off what it pushed.*)
CallAt(d) ==
  LET c == before[d]
  IN  /\ c.ret <= Len(mem)
      /\ mem[c.ret].of = c.fn /\ mem[c.ret].n = c.ret - 1 - c.size

Calls == \A d \in 1 .. Standing : CallAt(d)

(* The registers of frame d: those it had when it made its call.           *)
RegsOf(d) == IF Outer(d) THEN before[d + 1].regs ELSE regs

(* A frame begins after the return address and ends with the registers it  *)
(* saved.  Its slots hold nothing or a value of its own.                   *)
End(d) == Base(d) + FrameSize(CodeOf(d))

SlotsAt(d) ==
  \A k \in 1 .. CodeOf(d).spills : mem[Base(d) + k] \in {NoWord, Word("own", d, k - 1)}

(* The callee has kept its caller's frame pointer and the registers it     *)
(* uses, and leaves the others alone.                                      *)
SavesAt(d) ==
  LET c == before[d]
      f == CodeOf(d)
  IN  /\ mem[Base(d)].n = c.rbp
      /\ \A i \in 1 .. Len(f.savers) : mem[Base(d) + FrameWords(f) + i] = c.regs[f.savers[i]]
      /\ \A r \in Regs \ Range(f.savers) : RegsOf(d)[r] = c.regs[r]

FrameAt(d) ==
  /\ Base(d) = IF d = 0 THEN 1 ELSE before[d].ret + 1
  /\ End(d) <= Len(mem)
  /\ SlotsAt(d)
  /\ d > 0 => SavesAt(d)

Frames == \A d \in 0 .. Entered : FrameAt(d)

(* Where the code that runs stands.                                        *)
AtEntry ==
  IF Depth = 0 THEN Len(mem) = 0
  ELSE Len(mem) = before[Depth].ret /\ regs = before[Depth].regs /\ rbp = before[Depth].rbp
InBody == Len(mem) = rbp + FrameSize(Fns[cur])
Back ==
  /\ Depth > 0
  /\ regs = before[Depth].regs /\ rbp = before[Depth].rbp /\ cur = before[Depth].fn
  /\ Len(mem) = before[Depth].size + left

Now ==
  /\ phase = "entry" => AtEntry
  /\ phase = "body"  => InBody
  /\ phase = "back"  => Back

FrameInv == FrameTypes /\ Callers /\ Calls /\ Frames /\ Now

-----------------------------------------------------------------------------

LEMMA FunctionTypes ==
  ASSUME NEW g \in DOMAIN Fns
  PROVE  Fns[g] \in Code /\ g \in Nat
  BY FnsAssumption

(* The slots of a function fit its frame.                                  *)
LEMMA FrameHolds ==
  ASSUME NEW f \in Code
  PROVE  /\ f.spills \in Nat /\ Len(f.savers) \in Nat /\ FrameWords(f) \in Nat
         /\ FrameSize(f) \in Nat /\ FrameSize(f) = FrameWords(f) + Len(f.savers)
         /\ f.spills <= FrameWords(f)
<1>1. f.spills \in Nat /\ Len(f.savers) \in Nat
  BY DEF Code
<1> DEFINE s == f.spills
           n == Len(f.savers)
<1> HIDE DEF s, n
<1>2. 2 * ((s + 1) \div 2) \in Nat /\ 2 * ((s + 1) \div 2) >= s
  BY <1>1 DEF s
<1>3. FrameWords(f) = 2 * ((s + 1) \div 2) + (IF n % 2 = 0 THEN 1 ELSE 0)
  BY DEF FrameWords, s, n
<1>4. FrameWords(f) \in Nat /\ s <= FrameWords(f)
  BY <1>1, <1>2, <1>3 DEF s
<1>5. QED
  BY <1>1, <1>4 DEF FrameSize, s

(* A frame that nobody writes to stays as it was.                          *)
LEMMA FrameStays ==
  ASSUME NEW d \in Nat, FrameAt(d), CodeOf(d) \in Code, Base(d) \in Nat \ {0},
         CodeOf(d)' = CodeOf(d), Base(d)' = Base(d), RegsOf(d)' = RegsOf(d),
         d > 0 => before'[d] = before[d],
         End(d) <= Len(mem'),
         \A p \in 1 .. End(d) : mem'[p] = mem[p]
  PROVE  FrameAt(d)'
<1>1. /\ CodeOf(d).spills \in Nat /\ FrameWords(CodeOf(d)) \in Nat
      /\ Len(CodeOf(d).savers) \in Nat /\ CodeOf(d).spills <= FrameWords(CodeOf(d))
      /\ End(d) = Base(d) + FrameWords(CodeOf(d)) + Len(CodeOf(d).savers)
  <2>1. /\ CodeOf(d).spills \in Nat /\ FrameWords(CodeOf(d)) \in Nat
        /\ Len(CodeOf(d).savers) \in Nat /\ CodeOf(d).spills <= FrameWords(CodeOf(d))
        /\ FrameSize(CodeOf(d)) = FrameWords(CodeOf(d)) + Len(CodeOf(d).savers)
    BY FrameHolds
  <2>2. QED
    BY <2>1 DEF End
<1>2. End(d)' = End(d)
  BY DEF End
<1>3. (Base(d) = IF d = 0 THEN 1 ELSE before[d].ret + 1)'
  <2>1. CASE d = 0
    BY <2>1, Zenon DEF FrameAt
  <2>2. CASE d # 0
    <3>1. d > 0
      BY <2>2
    <3>2. QED
      BY <2>2, <3>1, Zenon DEF FrameAt
  <2>3. QED
    BY <2>1, <2>2
<1>4. SlotsAt(d)'
  <2>1. \A k \in 1 .. CodeOf(d).spills : mem'[Base(d) + k] = mem[Base(d) + k]
    <3> DEFINE b == Base(d)  w == FrameWords(CodeOf(d))  s == CodeOf(d).spills
               n == Len(CodeOf(d).savers)  e == End(d)
    <3>1. /\ b \in Nat \ {0} /\ w \in Nat /\ n \in Nat /\ s \in Nat /\ s <= w
          /\ e = b + w + n
      BY <1>1
    <3> HIDE DEF b, w, s, n, e
    <3>2. \A k \in 1 .. s : b + k \in 1 .. e
      BY <3>1
    <3>3. QED
      BY <3>2, Zenon DEF b, s, e
  <2>2. \A k \in 1 .. CodeOf(d).spills :
          mem'[Base(d) + k] \in {NoWord, Word("own", d, k - 1)}
    BY <2>1, Zenon DEF FrameAt, SlotsAt
  <2>3. QED
    BY <2>2, Zenon DEF SlotsAt
<1>5. ASSUME d > 0 PROVE SavesAt(d)'
  <2>1. mem'[Base(d)] = mem[Base(d)]
    <3>1. Base(d) \in 1 .. End(d)
      BY <1>1
    <3>2. QED
      BY <3>1, Zenon
  <2>2. \A i \in 1 .. Len(CodeOf(d).savers) :
          mem'[Base(d) + FrameWords(CodeOf(d)) + i] = mem[Base(d) + FrameWords(CodeOf(d)) + i]
    <3> DEFINE b == Base(d)  w == FrameWords(CodeOf(d))  n == Len(CodeOf(d).savers)  e == End(d)
    <3>1. b \in Nat \ {0} /\ w \in Nat /\ n \in Nat /\ e = b + w + n
      BY <1>1
    <3> HIDE DEF b, w, n, e
    <3>2. \A i \in 1 .. n : b + w + i \in 1 .. e
      BY <3>1
    <3>3. QED
      BY <3>2, Zenon DEF b, w, n, e
  <2>3. FrameWords(CodeOf(d))' = FrameWords(CodeOf(d)) /\ before'[d] = before[d]
    BY <1>5
  <2>4. QED
    BY <1>5, <2>1, <2>2, <2>3 DEF FrameAt, SavesAt, Range
<1>6. QED
  BY <1>2, <1>3, <1>4, <1>5 DEF FrameAt

(* A call not yet returned, and the frame that made it.                    *)
LEMMA CallTypes ==
  ASSUME FrameTypes, NEW d \in 1 .. Depth
  PROVE  /\ before[d] \in Kept /\ before[d].rbp \in Nat /\ before[d].size \in Nat
         /\ before[d].ret \in Nat /\ before[d].fn \in DOMAIN Fns
         /\ before[d].regs \in [Regs -> Words]
         /\ Fns[before[d].fn] \in Code /\ Depth \in Nat
<1>1. before[d] \in Kept /\ Depth \in Nat
  BY DEF FrameTypes, Depth
<1>2. before[d].fn \in DOMAIN Fns
  BY <1>1 DEF Kept
<1>3. QED
  BY <1>1, <1>2, FunctionTypes DEF Kept

(* An outer frame ends where its call began to push, under the return      *)
(* address of the last call.                                               *)
LEMMA OuterFrame ==
  ASSUME FrameTypes, Callers, Frames, NEW d \in 0 .. Depth - 1
  PROVE  /\ Depth \in Nat /\ Depth > 0 /\ d \in 0 .. Entered /\ FrameAt(d)
         /\ Base(d) = before[d + 1].rbp /\ Base(d) \in Nat \ {0}
         /\ CodeOf(d) = Fns[before[d + 1].fn] /\ CodeOf(d) \in Code
         /\ RegsOf(d) = before[d + 1].regs
         /\ End(d) \in Nat /\ End(d) <= before[Depth].size
         /\ before[Depth].size < before[Depth].ret
<1>1. Depth \in Nat /\ d + 1 \in 1 .. Depth /\ Depth \in 1 .. Depth /\ d \in Nat
  BY DEF FrameTypes, Depth
<1>2. Outer(d)
  BY <1>1 DEF Outer, Depth
<1>3. /\ Base(d) = before[d + 1].rbp /\ CodeOf(d) = Fns[before[d + 1].fn]
      /\ RegsOf(d) = before[d + 1].regs
  BY <1>2 DEF Base, CodeOf, RegsOf
<1>4. d \in 0 .. Entered
  BY <1>1 DEF Entered
<1>5. FrameAt(d)
  BY <1>4 DEF Frames
<1>6. Base(d) \in Nat \ {0}
  <2>1. CASE d = 0
    BY <1>5, <2>1 DEF FrameAt
  <2>2. CASE d # 0
    <3>1. d \in 1 .. Depth
      BY <1>1, <2>2
    <3>2. before[d].ret \in Nat
      BY <3>1, CallTypes
    <3>3. Base(d) = before[d].ret + 1
      BY <1>5, <2>2, Zenon DEF FrameAt
    <3>4. QED
      BY <3>2, <3>3
  <2>3. QED
    BY <2>1, <2>2
<1>7. CodeOf(d) \in Code /\ before[d + 1].size \in Nat
  BY <1>1, <1>3, CallTypes
<1>8. End(d) = before[d + 1].size
  BY <1>1, <1>3 DEF End, Callers
<1>9. before[Depth].size < before[Depth].ret
  BY <1>1 DEF Callers
<1>10. before[d + 1].size <= before[Depth].size
  <2>1. CASE d + 1 = Depth
    BY <1>7, <2>1
  <2>2. CASE d + 1 < Depth
    <3>1. before[d + 1].size < before[d + 1].ret /\ before[d + 1].ret < before[Depth].rbp
      BY <1>1, <2>2 DEF Callers
    <3>2. before[Depth].size = before[Depth].rbp + FrameSize(Fns[before[Depth].fn])
      BY <1>1 DEF Callers
    <3>3. Fns[before[Depth].fn] \in Code /\ before[Depth].rbp \in Nat
          /\ before[d + 1].ret \in Nat /\ before[d + 1].size \in Nat
      BY <1>1, CallTypes
    <3>4. FrameSize(Fns[before[Depth].fn]) \in Nat
      BY <3>3, FrameHolds
    <3>5. QED
      BY <3>1, <3>2, <3>3, <3>4
  <2>3. QED
    BY <1>1, <2>1, <2>2
<1>11. QED
  BY <1>1, <1>3, <1>4, <1>5, <1>6, <1>7, <1>8, <1>9, <1>10

(* A step that leaves the calls alone, and the stack up to where the last  *)
(* caller's frame ends, leaves the outer frames alone.                     *)
LEMMA OuterFramesStay ==
  ASSUME FrameTypes, Callers, Frames, before' = before,
         Depth > 0 => before[Depth].size <= Len(mem'),
         Depth > 0 => \A p \in 1 .. before[Depth].size : mem'[p] = mem[p]
  PROVE  \A d \in 0 .. Depth - 1 : FrameAt(d)'
<1> SUFFICES ASSUME NEW d \in 0 .. Depth - 1 PROVE FrameAt(d)'
  OBVIOUS
<1>1. /\ Depth \in Nat /\ Depth > 0 /\ FrameAt(d) /\ Base(d) \in Nat \ {0}
      /\ CodeOf(d) \in Code /\ End(d) \in Nat /\ End(d) <= before[Depth].size
  BY OuterFrame
<1>2. d \in Nat /\ d < Depth
  BY <1>1
<1>3. Outer(d) /\ Outer(d)'
  BY <1>2 DEF Outer, Depth
<1>4. CodeOf(d)' = CodeOf(d) /\ Base(d)' = Base(d) /\ RegsOf(d)' = RegsOf(d)
  BY <1>3 DEF CodeOf, Base, RegsOf
<1>5. before[Depth].size \in Nat /\ Len(mem') \in Int
  BY <1>1, CallTypes
<1>6. End(d) <= Len(mem') /\ \A p \in 1 .. End(d) : p \in 1 .. before[Depth].size
  BY <1>1, <1>5
<1>7. \A p \in 1 .. End(d) : mem'[p] = mem[p]
  BY <1>1, <1>6
<1>8. QED
  BY <1>1, <1>2, <1>4, <1>6, <1>7, FrameStays

-----------------------------------------------------------------------------
(* Sequences: what a call and a prologue append.                           *)
LEMMA Appended ==
  ASSUME NEW S, NEW m \in Seq(S), NEW q \in Seq(S), NEW x \in S
  PROVE  /\ (m \o q \o <<x>>) \in Seq(S)
         /\ Len(m \o q \o <<x>>) = Len(m) + Len(q) + 1
         /\ \A p \in 1 .. Len(m) : (m \o q \o <<x>>)[p] = m[p]
         /\ \A i \in 1 .. Len(q) : (m \o q \o <<x>>)[Len(m) + i] = q[i]
         /\ (m \o q \o <<x>>)[Len(m) + Len(q) + 1] = x
  OBVIOUS

LEMMA Built ==
  ASSUME NEW S, NEW m \in Seq(S), NEW x \in S, NEW a \in Seq(S), NEW b \in Seq(S)
  PROVE  /\ (m \o <<x>> \o a \o b) \in Seq(S)
         /\ Len(m \o <<x>> \o a \o b) = Len(m) + 1 + Len(a) + Len(b)
         /\ \A p \in 1 .. Len(m) : (m \o <<x>> \o a \o b)[p] = m[p]
         /\ (m \o <<x>> \o a \o b)[Len(m) + 1] = x
         /\ \A i \in 1 .. Len(a) : (m \o <<x>> \o a \o b)[Len(m) + 1 + i] = a[i]
         /\ \A i \in 1 .. Len(b) : (m \o <<x>> \o a \o b)[Len(m) + 1 + Len(a) + i] = b[i]
  OBVIOUS

LEMMA Shortened ==
  ASSUME NEW S, NEW m \in Seq(S), NEW n \in 0 .. Len(m)
  PROVE  /\ SubSeq(m, 1, n) \in Seq(S) /\ Len(SubSeq(m, 1, n)) = n
         /\ \A p \in 1 .. n : SubSeq(m, 1, n)[p] = m[p]
  OBVIOUS

LEMMA AWord ==
  ASSUME NEW k \in {"none", "host", "own", "arg", "ret", "rbp"}, NEW of \in Nat, NEW n \in Nat
  PROVE  Word(k, of, n) \in Words /\ Word(k, of, n).of = of /\ Word(k, of, n).n = n
  BY DEF Word, Words

-----------------------------------------------------------------------------
(* What a call site pushes, and what comes off.                            *)
LEMMA PushedTypes ==
  ASSUME FrameTypes, NEW kind, NEW n \in Nat
  PROVE  /\ Pushed(kind, n) \in Seq(Words)
         /\ Len(Pushed(kind, n)) = AtLeastZero(n - InRegs(kind))
         /\ AtLeastZero(n - InRegs(kind)) \in Nat
         /\ Cleaned(kind, n) \in Nat
<1> DEFINE k == AtLeastZero(n - InRegs(kind))
<1>1. InRegs(kind) \in {5, 6}
  BY DEF InRegs
<1>2. k \in Nat /\ \A i \in 1 .. k : n + 1 - i \in Nat
  BY <1>1 DEF AtLeastZero
<1>3. Cleaned(kind, n) \in Nat
  BY DEF Cleaned, AtLeastZero
<1>4. \A i \in 1 .. k : Arg(n + 1 - i) \in Words
  <2>1. Len(before) \in Nat
    BY DEF FrameTypes
  <2>2. QED
    BY <1>2, <2>1, AWord DEF Arg
<1>5. Pushed(kind, n) = [i \in 1 .. k |-> Arg(n + 1 - i)]
  BY DEF Pushed
<1> HIDE DEF k
<1>6. Pushed(kind, n) \in Seq(Words) /\ Len(Pushed(kind, n)) = k
  BY <1>2, <1>4, <1>5
<1>7. QED
  BY <1>2, <1>3, <1>6 DEF k

LEMMA ArgsTypes ==
  ASSUME NEW f \in Code, NEW kind
  PROVE  Args(kind, f) \in Nat
  BY DEF Args, Code

LEMMA TakesOffWhatItPushed ==
  ASSUME FrameTypes, Matching, NEW c \in CallSites
  PROVE  Cleaned(c[1], Args(c[1], Fns[c[2]])) = Len(Pushed(c[1], Args(c[1], Fns[c[2]])))
<1> DEFINE kind == c[1]
           n    == Args(c[1], Fns[c[2]])
<1>1. kind \in {"Fn", "Static", "Virt", "Import"} /\ c[2] \in DOMAIN Fns
      /\ (kind \in {"Static", "Virt"} => n <= 5) /\ (kind = "Import" => n <= 6)
  BY DEF Matching
<1>2. n \in Nat
  BY <1>1, FunctionTypes, ArgsTypes
<1> HIDE DEF kind, n
<1>3. Len(Pushed(kind, n)) = AtLeastZero(n - InRegs(kind))
  BY <1>2, PushedTypes
<1>4. Cleaned(kind, n) = AtLeastZero(n - InRegs(kind))
  BY <1>1, <1>2 DEF Cleaned, AtLeastZero, InRegs
<1>5. QED
  BY <1>3, <1>4 DEF kind, n

(* The frame of the code that runs.                                        *)
LEMMA RunningFrame ==
  ASSUME FrameInv, phase = "body"
  PROVE  /\ Depth \in Nat /\ Entered = Depth /\ Standing = Depth /\ FrameAt(Depth)
         /\ Base(Depth) = rbp /\ rbp \in Nat \ {0}
         /\ CodeOf(Depth) = Fns[cur] /\ CodeOf(Depth) \in Code
         /\ RegsOf(Depth) = regs
         /\ End(Depth) = Len(mem) /\ Len(mem) \in Nat /\ rbp <= Len(mem)
         /\ Depth > 0 => /\ rbp = before[Depth].ret + 1
                         /\ before[Depth].size < rbp
<1>1. FrameTypes /\ Depth \in Nat /\ Len(mem) \in Nat /\ cur \in DOMAIN Fns /\ rbp \in Nat
  BY DEF FrameInv, FrameTypes, Depth
<1>2. ~Outer(Depth)
  BY <1>1 DEF Outer, Depth
<1>3. Base(Depth) = rbp /\ CodeOf(Depth) = Fns[cur] /\ RegsOf(Depth) = regs
  BY <1>2 DEF Base, CodeOf, RegsOf
<1>4. Entered = Depth /\ Standing = Depth
  BY DEF Entered, Standing
<1>5. FrameAt(Depth)
  BY <1>1, <1>4 DEF FrameInv, Frames
<1>6. Fns[cur] \in Code /\ FrameSize(Fns[cur]) \in Nat
  BY <1>1, FunctionTypes, FrameHolds
<1>7. End(Depth) = Len(mem) /\ rbp <= Len(mem)
  BY <1>1, <1>3, <1>6 DEF FrameInv, Now, InBody, End
<1>8. ASSUME Depth > 0 PROVE rbp = before[Depth].ret + 1 /\ before[Depth].size < rbp /\ rbp > 0
  <2>1. Depth \in 1 .. Depth
    BY <1>1, <1>8
  <2>2. before[Depth].size < before[Depth].ret
    BY <2>1 DEF FrameInv, Callers
  <2>3. before[Depth].ret \in Nat /\ before[Depth].size \in Nat
    BY <1>1, <2>1, CallTypes
  <2>4. Depth # 0
    BY <1>8
  <2>5. Base(Depth) = before[Depth].ret + 1
    BY <1>5, <2>4, Zenon DEF FrameAt
  <2>6. QED
    BY <1>3, <2>2, <2>3, <2>5
<1>9. ASSUME Depth = 0 PROVE rbp > 0
  BY <1>3, <1>5, <1>9 DEF FrameAt
<1>10. QED
  BY <1>1, <1>3, <1>4, <1>5, <1>6, <1>7, <1>8, <1>9

LEMMA CallStep ==
  ASSUME FrameInv, Matching, NEW c \in CallSites, CallTo(c[1], c[2])
  PROVE  FrameInv'
<1> DEFINE kind   == c[1]
           g      == c[2]
           n      == Args(kind, Fns[g])
           pushed == Pushed(kind, n)
           word   == Word("ret", cur, Cleaned(kind, n))
           now    == [regs |-> regs, rbp |-> rbp, fn |-> cur, size |-> Len(mem),
                      ret |-> Len(mem) + Len(pushed) + 1]
<1>1. /\ FrameTypes /\ Callers /\ Calls /\ Frames /\ InBody /\ phase = "body"
      /\ mem \in Seq(Words) /\ rbp \in Nat /\ cur \in DOMAIN Fns /\ before \in Seq(Kept)
      /\ regs \in [Regs -> Words] /\ Depth \in Nat
  BY DEF FrameInv, Now, CallTo, FrameTypes, Depth
<1>2. /\ mem' = mem \o pushed \o <<word>>
      /\ argv' = ArgRegs(kind, n)
      /\ before' = Append(before, now)
      /\ cur' = g /\ phase' = "entry" /\ UNCHANGED <<rbp, regs, left>>
  BY DEF CallTo
<1>3. g \in DOMAIN Fns /\ n \in Nat
  BY FunctionTypes, ArgsTypes DEF Matching
<1>4. /\ pushed \in Seq(Words) /\ Len(pushed) \in Nat /\ Cleaned(kind, n) = Len(pushed)
  <2>1. pushed \in Seq(Words) /\ Len(pushed) \in Nat
    BY <1>1, <1>3, PushedTypes
  <2>2. QED
    BY <1>1, <2>1, TakesOffWhatItPushed
<1>5. word \in Words /\ word.of = cur /\ word.n = Len(pushed)
  BY <1>1, <1>4, FunctionTypes, AWord
<1> HIDE DEF n, pushed, word, kind
<1>6. /\ mem' \in Seq(Words) /\ Len(mem') = Len(mem) + Len(pushed) + 1
      /\ \A p \in 1 .. Len(mem) : mem'[p] = mem[p]
      /\ mem'[Len(mem) + Len(pushed) + 1] = word
  BY <1>1, <1>2, <1>4, <1>5, Appended
<1>7. now \in Kept
  BY <1>1, <1>4 DEF Kept
<1>8. /\ before' \in Seq(Kept) /\ Depth' = Depth + 1
      /\ \A d \in 1 .. Depth : before'[d] = before[d]
      /\ before'[Depth + 1] = now
  <2> HIDE DEF now
  <2>1. QED
    BY <1>1, <1>2, <1>7 DEF Depth
<1>9. argv' \in [0 .. 5 -> Words]
  <2>1. \A i \in 0 .. 5 : Arg(i) \in Words /\ Arg(i + 1) \in Words
    BY <1>1, AWord DEF Arg, Depth
  <2>2. argv \in [0 .. 5 -> Words]
    BY <1>1 DEF FrameTypes
  <2>3. QED
    BY <1>2, <2>1, <2>2 DEF ArgRegs
<1>10. FrameTypes'
  BY <1>1, <1>2, <1>3, <1>6, <1>8, <1>9 DEF FrameTypes
<1>11. /\ Entered = Depth /\ Standing = Depth /\ rbp \in Nat \ {0} /\ rbp <= Len(mem)
       /\ Len(mem) \in Nat /\ End(Depth) = Len(mem)
       /\ Depth > 0 => rbp = before[Depth].ret + 1 /\ before[Depth].size < rbp
  BY <1>1, RunningFrame
<1>12. Callers'
  <2>1. now.size = now.rbp + FrameSize(Fns[now.fn]) /\ now.size < now.ret
    BY <1>1, <1>4, <1>11 DEF InBody
  <2>2. ASSUME NEW d \in 1 .. Depth PROVE before[d].ret < now.rbp
    <3>1. /\ Depth \in 1 .. Depth /\ before[d].ret \in Nat /\ before[Depth].rbp \in Nat
          /\ before[Depth].ret \in Nat /\ before[Depth].size \in Nat
          /\ Fns[before[Depth].fn] \in Code
      BY <1>1, CallTypes
    <3>2. before[Depth].size = before[Depth].rbp + FrameSize(Fns[before[Depth].fn])
      BY <1>1, <3>1 DEF Callers
    <3>3. before[Depth].rbp <= before[Depth].size
      BY <3>1, <3>2, FrameHolds
    <3>4. CASE d = Depth
      BY <1>11, <3>1, <3>4
    <3>5. CASE d < Depth
      <4>1. before[d].ret < before[Depth].rbp
        BY <1>1, <3>1, <3>5 DEF Callers
      <4>2. QED
        BY <1>11, <3>1, <3>3, <4>1
    <3>6. QED
      BY <1>1, <3>4, <3>5
  <2> HIDE DEF now
  <2>3. ASSUME NEW d \in 1 .. Depth'
        PROVE  before'[d].size = before'[d].rbp + FrameSize(Fns[before'[d].fn])
               /\ before'[d].size < before'[d].ret
    <3>1. CASE d = Depth + 1
      BY <1>8, <2>1, <3>1
    <3>2. CASE d \in 1 .. Depth
      BY <1>1, <1>8, <3>2 DEF Callers
    <3>3. QED
      BY <1>1, <1>8, <2>3, <3>1, <3>2
  <2>4. ASSUME NEW d \in 1 .. Depth', NEW e \in 1 .. Depth', d < e
        PROVE  before'[d].ret < before'[e].rbp
    <3>1. d \in 1 .. Depth /\ before'[d] = before[d]
      BY <1>1, <1>8, <2>4
    <3>2. CASE e = Depth + 1
      BY <1>8, <2>2, <3>1, <3>2
    <3>3. CASE e \in 1 .. Depth
      BY <1>1, <1>8, <2>4, <3>1, <3>3 DEF Callers
    <3>4. QED
      BY <1>1, <1>8, <2>4, <3>2, <3>3
  <2>5. QED
    BY <2>3, <2>4 DEF Callers
<1>13. Calls'
  <2>1. Standing' = Depth + 1
    BY <1>2, <1>8 DEF Standing
  <2>2. ASSUME NEW d \in 1 .. Depth PROVE CallAt(d)'
    <3>1. CallAt(d) /\ before'[d] = before[d]
      BY <1>1, <1>8, <1>11 DEF Calls
    <3>2. before[d].ret \in Nat /\ before[d].size \in Nat /\ before[d].size < before[d].ret
      BY <1>1, CallTypes DEF Callers
    <3>3. before[d].ret \in 1 .. Len(mem) /\ before[d].ret <= Len(mem')
      BY <1>4, <1>6, <1>11, <3>1, <3>2 DEF CallAt
    <3>4. mem'[before[d].ret] = mem[before[d].ret]
      BY <1>6, <3>3
    <3>5. QED
      BY <3>1, <3>3, <3>4 DEF CallAt
  <2>3. ASSUME NEW d \in {Depth + 1} PROVE CallAt(d)'
    <3>1. now.ret = Len(mem) + Len(pushed) + 1 /\ now.fn = cur /\ now.size = Len(mem)
      OBVIOUS
    <3> HIDE DEF now
    <3>2. now.ret - 1 - now.size = Len(pushed) /\ now.ret <= Len(mem')
      BY <1>4, <1>6, <1>11, <3>1
    <3>3. mem'[now.ret] = word
      BY <1>6, <3>1
    <3>4. before'[d] = now
      BY <1>8
    <3>5. QED
      BY <1>5, <3>1, <3>2, <3>3, <3>4 DEF CallAt
  <2>4. QED
    BY <1>1, <2>1, <2>2, <2>3 DEF Calls
<1>14. Frames'
  <2>1. Entered' = Depth
    BY <1>1, <1>2, <1>8 DEF Entered
  <2>2. ASSUME NEW d \in 0 .. Depth PROVE FrameAt(d)'
    <3>1. FrameAt(d) /\ d \in Nat
      BY <1>1, <1>11 DEF Frames
    <3>2. Outer(d)'
      BY <1>1, <1>8 DEF Outer, Depth
    <3>3. /\ CodeOf(d) \in Code /\ Base(d) \in Nat \ {0} /\ End(d) <= Len(mem) /\ End(d) \in Nat
          /\ CodeOf(d) = Fns[before'[d + 1].fn] /\ Base(d) = before'[d + 1].rbp
          /\ RegsOf(d) = before'[d + 1].regs
      <4>1. CASE d = Depth
        <5>1. before'[d + 1] = now
          BY <1>8, <4>1
        <5>2. now.fn = cur /\ now.rbp = rbp /\ now.regs = regs
          OBVIOUS
        <5>3. QED
          BY <1>1, <4>1, <5>1, <5>2, RunningFrame
      <4>2. CASE d \in 0 .. Depth - 1
        <5>1. before'[d + 1] = before[d + 1]
          BY <1>1, <1>8, <4>2
        <5>2. /\ CodeOf(d) \in Code /\ Base(d) \in Nat \ {0} /\ End(d) \in Nat
              /\ End(d) <= before[Depth].size
              /\ CodeOf(d) = Fns[before[d + 1].fn] /\ Base(d) = before[d + 1].rbp
              /\ RegsOf(d) = before[d + 1].regs
          BY <1>1, <4>2, OuterFrame
        <5>3. before[Depth].size < rbp /\ before[Depth].size \in Nat
          BY <1>1, <1>11, <4>2, CallTypes
        <5>4. End(d) <= Len(mem)
          BY <1>11, <5>2, <5>3
        <5>5. QED
          BY <5>1, <5>2, <5>4
      <4>3. QED
        BY <1>1, <4>1, <4>2
    <3>4. CodeOf(d)' = CodeOf(d) /\ Base(d)' = Base(d) /\ RegsOf(d)' = RegsOf(d)
      BY <3>2, <3>3 DEF CodeOf, Base, RegsOf
    <3>5. End(d) <= Len(mem') /\ \A p \in 1 .. End(d) : p \in 1 .. Len(mem)
      BY <1>4, <1>6, <1>11, <3>3
    <3>6. \A p \in 1 .. End(d) : mem'[p] = mem[p]
      BY <1>6, <3>5
    <3>7. d > 0 => before'[d] = before[d]
      BY <1>8, <3>1
    <3>8. QED
      BY <3>1, <3>3, <3>4, <3>5, <3>6, <3>7, FrameStays
  <2>3. QED
    BY <2>1, <2>2 DEF Frames
<1>15. Now'
  <2>1. /\ now.ret = Len(mem) + Len(pushed) + 1 /\ now.regs = regs /\ now.rbp = rbp
    OBVIOUS
  <2> HIDE DEF now
  <2>2. before'[Depth'] = now /\ Depth' # 0
    BY <1>1, <1>8
  <2>3. AtEntry'
    BY <1>2, <1>6, <2>1, <2>2 DEF AtEntry
  <2>4. QED
    BY <1>2, <2>3 DEF Now
<1>16. QED
  BY <1>10, <1>12, <1>13, <1>14, <1>15 DEF FrameInv

-----------------------------------------------------------------------------
(* The steps that make no call.                                            *)

LEMMA InitFrame == Init => FrameInv
<1> SUFFICES ASSUME Init PROVE FrameInv
  OBVIOUS
<1>1. Depth = 0 /\ Len(mem) = 0 /\ phase = "entry" /\ Entered = -1 /\ Standing = 0
  BY DEF Init, Depth, Entered, Standing
<1>2. \A r \in Regs : Word("host", 0, r) \in Words
  BY AWord, RegsAssumption
<1>3. NoWord \in Words
  BY AWord DEF NoWord
<1>4. FrameTypes
  BY <1>2, <1>3, FnsAssumption DEF Init, FrameTypes
<1>5. Callers /\ Calls /\ Frames
  BY <1>1 DEF Callers, Calls, Frames
<1>6. Now
  BY <1>1 DEF Now, AtEntry
<1>7. QED
  BY <1>4, <1>5, <1>6 DEF FrameInv

(* A return address that nobody writes to stays.                           *)
LEMMA CallStays ==
  ASSUME NEW d \in 1 .. Depth, CallAt(d), before' = before,
         before[d].ret <= Len(mem'), mem'[before[d].ret] = mem[before[d].ret]
  PROVE  CallAt(d)'
  BY DEF CallAt

(* Return addresses of earlier calls are in callers' frames.               *)
LEMMA EarlierCall ==
  ASSUME FrameTypes, Callers, NEW d \in 1 .. Depth
  PROVE  /\ before[d].ret \in Nat \ {0} /\ before[Depth].size \in Nat
         /\ before[Depth].ret \in Nat /\ before[Depth].size < before[Depth].ret
         /\ d < Depth => before[d].ret <= before[Depth].size
<1>1. /\ Depth \in 1 .. Depth /\ Depth \in Nat /\ before[d].ret \in Nat /\ before[d].size \in Nat
      /\ before[Depth].rbp \in Nat /\ before[Depth].size \in Nat /\ before[Depth].ret \in Nat
      /\ Fns[before[Depth].fn] \in Code
  BY CallTypes
<1>2. before[d].size < before[d].ret /\ before[Depth].size < before[Depth].ret
  BY <1>1 DEF Callers
<1>3. ASSUME d < Depth PROVE before[d].ret <= before[Depth].size
  <2>1. before[d].ret < before[Depth].rbp
    BY <1>1, <1>3 DEF Callers
  <2>2. before[Depth].size = before[Depth].rbp + FrameSize(Fns[before[Depth].fn])
    BY <1>1 DEF Callers
  <2>3. FrameSize(Fns[before[Depth].fn]) \in Nat
    BY <1>1, FrameHolds
  <2>4. QED
    BY <1>1, <2>1, <2>2, <2>3
<1>4. QED
  BY <1>1, <1>2, <1>3

LEMMA CallersStay ==
  ASSUME Callers, before' = before
  PROVE  Callers'
  BY DEF Callers, Depth

LEMMA PrologueStep == ASSUME FrameInv, Prologue PROVE FrameInv'
<1> DEFINE f     == Fns[cur]
           saved == [i \in 1 .. Len(f.savers) |-> regs[f.savers[i]]]
           pad   == [i \in 1 .. FrameWords(f) |-> NoWord]
           word  == Word("rbp", 0, rbp)
           m     == Len(mem)
<1>1. /\ FrameTypes /\ Callers /\ Calls /\ Frames /\ AtEntry /\ phase = "entry"
      /\ mem \in Seq(Words) /\ rbp \in Nat /\ cur \in DOMAIN Fns /\ before \in Seq(Kept)
      /\ regs \in [Regs -> Words] /\ Depth \in Nat /\ m \in Nat
  BY DEF FrameInv, Now, Prologue, FrameTypes, Depth
<1>2. /\ rbp' = m + 1
      /\ mem' = mem \o <<word>> \o pad \o saved
      /\ phase' = "body" /\ UNCHANGED <<regs, argv, cur, left, before>>
  BY DEF Prologue
<1>3. /\ f \in Code /\ f.spills \in Nat /\ Len(f.savers) \in Nat /\ FrameWords(f) \in Nat
      /\ FrameSize(f) = FrameWords(f) + Len(f.savers) /\ f.spills <= FrameWords(f)
      /\ f.savers \in Seq(Regs)
  <2>1. f \in Code
    BY <1>1, FunctionTypes
  <2>2. f.savers \in Seq(Regs)
    BY <2>1 DEF Code
  <2>3. QED
    BY <2>1, <2>2, FrameHolds
<1>4. word \in Words /\ word.n = rbp /\ NoWord \in Words
  BY <1>1, AWord DEF NoWord
<1> HIDE DEF word, f
<1>5. /\ saved \in Seq(Words) /\ Len(saved) = Len(f.savers)
      /\ \A i \in 1 .. Len(f.savers) : saved[i] = regs[f.savers[i]]
  BY <1>1, <1>3
<1>6. /\ pad \in Seq(Words) /\ Len(pad) = FrameWords(f)
      /\ \A i \in 1 .. FrameWords(f) : pad[i] = NoWord
  BY <1>3, <1>4
<1> HIDE DEF pad, saved
<1>7. /\ mem' \in Seq(Words) /\ Len(mem') = m + 1 + Len(pad) + Len(saved)
      /\ \A p \in 1 .. m : mem'[p] = mem[p]
      /\ mem'[m + 1] = word
      /\ \A i \in 1 .. Len(pad) : mem'[m + 1 + i] = pad[i]
      /\ \A i \in 1 .. Len(saved) : mem'[m + 1 + Len(pad) + i] = saved[i]
  <2>1. mem \in Seq(Words) /\ word \in Words /\ pad \in Seq(Words) /\ saved \in Seq(Words)
    BY <1>1, <1>4, <1>5, <1>6
  <2> DEFINE x == mem \o <<word>> \o pad \o saved
  <2>2. /\ x \in Seq(Words) /\ Len(x) = m + 1 + Len(pad) + Len(saved)
        /\ \A p \in 1 .. m : x[p] = mem[p]
        /\ x[m + 1] = word
        /\ \A i \in 1 .. Len(pad) : x[m + 1 + i] = pad[i]
        /\ \A i \in 1 .. Len(saved) : x[m + 1 + Len(pad) + i] = saved[i]
    BY <2>1, Built
  <2>3. mem' = x
    BY <1>2
  <2> HIDE DEF x
  <2>4. QED
    BY <2>2, <2>3
<1>8. FrameTypes'
  BY <1>1, <1>2, <1>7 DEF FrameTypes
<1>9. Callers' /\ Depth' = Depth /\ Entered' = Depth /\ Standing = Depth /\ Standing' = Depth
      /\ Entered = Depth - 1
  BY <1>1, <1>2, CallersStay DEF Depth, Entered, Standing
<1>10. Depth > 0 => /\ m = before[Depth].ret /\ before[Depth].size \in Nat
                    /\ before[Depth].size < m
                    /\ regs = before[Depth].regs /\ rbp = before[Depth].rbp
  <2> SUFFICES ASSUME Depth > 0
               PROVE  /\ m = before[Depth].ret /\ before[Depth].size \in Nat
                      /\ before[Depth].size < m
                      /\ regs = before[Depth].regs /\ rbp = before[Depth].rbp
    OBVIOUS
  <2>1. Depth \in 1 .. Depth /\ Depth # 0
    BY <1>1
  <2>2. m = before[Depth].ret /\ regs = before[Depth].regs /\ rbp = before[Depth].rbp
    BY <1>1, <2>1 DEF AtEntry
  <2>3. QED
    BY <1>1, <2>1, <2>2, EarlierCall
<1>11. Calls'
  <2>1. ASSUME NEW d \in 1 .. Depth PROVE CallAt(d)'
    <3>1. CallAt(d)
      BY <1>1, <1>9 DEF Calls
    <3>2. before[d].ret \in 1 .. m /\ before[d].ret <= Len(mem')
      <4>1. before[d].ret \in Nat \ {0}
        BY <1>1, EarlierCall
      <4>2. before[d].ret <= m
        BY <3>1, Zenon DEF CallAt
      <4>3. Len(pad) \in Nat /\ Len(saved) \in Nat
        BY <1>3, <1>5, <1>6
      <4>4. Len(mem') = m + 1 + Len(pad) + Len(saved) /\ m \in Nat
        BY <1>1, <1>7
      <4> HIDE DEF m
      <4>5. QED
        BY <4>1, <4>2, <4>3, <4>4
    <3>3. QED
      BY <1>2, <1>7, <3>1, <3>2, CallStays
  <2>2. QED
    BY <1>9, <2>1 DEF Calls
<1>12. \A d \in 0 .. Depth - 1 : FrameAt(d)'
  <2>1. Depth > 0 => /\ before[Depth].size <= Len(mem')
                     /\ \A p \in 1 .. before[Depth].size : mem'[p] = mem[p]
    <3> SUFFICES ASSUME Depth > 0
                 PROVE  /\ before[Depth].size <= Len(mem')
                        /\ \A p \in 1 .. before[Depth].size : mem'[p] = mem[p]
      OBVIOUS
    <3>1. before[Depth].size \in Nat /\ before[Depth].size < m /\ m <= Len(mem')
      BY <1>1, <1>3, <1>5, <1>6, <1>7, <1>10
    <3>2. \A p \in 1 .. before[Depth].size : p \in 1 .. m
      BY <1>1, <3>1
    <3>3. before[Depth].size <= Len(mem')
      BY <1>1, <1>3, <1>5, <1>6, <1>7, <3>1
    <3>4. QED
      BY <1>7, <3>2, <3>3
  <2>2. QED
    BY <1>1, <1>2, <2>1, OuterFramesStay
<1>13. ASSUME NEW d \in {Depth} PROVE FrameAt(d)'
  <2>1. d = Depth /\ d' = d
    OBVIOUS
  <2>2. ~Outer(d)'
    BY <1>1, <1>2 DEF Outer, Depth
  <2>3. Base(d)' = m + 1 /\ CodeOf(d)' = f /\ RegsOf(d)' = regs
    BY <1>2, <2>2 DEF Base, CodeOf, RegsOf, f
  <2>4. (Base(d) = IF d = 0 THEN 1 ELSE before[d].ret + 1)'
    <3>1. CASE d = 0
      BY <1>1, <2>3, <3>1 DEF AtEntry
    <3>2. CASE d # 0
      <4>1. m = before[d].ret
        BY <1>1, <1>10, <3>2
      <4>2. QED
        BY <1>2, <2>3, <3>2, <4>1
    <3>3. QED
      BY <3>1, <3>2
  <2>5. (End(d) <= Len(mem))'
    BY <1>1, <1>3, <1>5, <1>6, <1>7, <2>3 DEF End
  <2>6. SlotsAt(d)'
    <3>1. \A k \in 1 .. f.spills : mem'[m + 1 + k] = NoWord
      BY <1>3, <1>6, <1>7
    <3>2. QED
      BY <2>3, <3>1 DEF SlotsAt
  <2>7. ASSUME d > 0 PROVE SavesAt(d)'
    <3>1. before' = before /\ before[d].regs = regs /\ before[d].rbp = rbp
      BY <1>2, <1>10, <2>7
    <3>2. mem'[m + 1].n = before[d].rbp
      BY <1>4, <1>7, <3>1
    <3>3. \A i \in 1 .. Len(f.savers) :
            mem'[m + 1 + FrameWords(f) + i] = before[d].regs[f.savers[i]]
      BY <1>5, <1>6, <1>7, <3>1
    <3>4. QED
      BY <2>3, <3>1, <3>2, <3>3 DEF SavesAt
  <2>8. QED
    BY <2>4, <2>5, <2>6, <2>7 DEF FrameAt
<1>14. Frames'
  BY <1>1, <1>9, <1>12, <1>13 DEF Frames
<1>15. Now'
  BY <1>1, <1>2, <1>3, <1>5, <1>6, <1>7 DEF Now, InBody, f
<1>16. QED
  BY <1>8, <1>9, <1>11, <1>14, <1>15 DEF FrameInv

LEMMA OwnWord ==
  ASSUME FrameTypes, NEW n \in Nat
  PROVE  Own(n) \in Words /\ Own(n) = Word("own", Depth, n)
  BY AWord DEF FrameTypes, Own, Depth

(* The running function writes a register it has saved.                    *)
LEMMA ComputeRegStep ==
  ASSUME FrameInv, NEW r \in Regs, ComputeReg(r)
  PROVE  FrameInv'
<1>1. /\ FrameTypes /\ Callers /\ Calls /\ Frames /\ InBody /\ phase = "body"
      /\ regs \in [Regs -> Words]
  BY DEF FrameInv, Now, ComputeReg, FrameTypes
<1>2. /\ r \in Range(Fns[cur].savers) /\ regs' = [regs EXCEPT ![r] = Own(r)]
      /\ UNCHANGED <<mem, rbp, argv, cur, phase, left, homes, before>>
  BY DEF ComputeReg
<1>3. regs' \in [Regs -> Words] /\ \A q \in Regs : q # r => regs'[q] = regs[q]
  <2>1. Own(r) \in Words
    BY <1>1, RegsAssumption, OwnWord
  <2>2. QED
    BY <1>1, <1>2, <2>1
<1>4. FrameTypes'
  BY <1>1, <1>2, <1>3 DEF FrameTypes
<1>5. Callers' /\ Depth' = Depth /\ Entered' = Entered /\ Standing' = Standing
  BY <1>1, <1>2, CallersStay DEF Depth, Entered, Standing
<1>6. Calls'
  BY <1>1, <1>2, <1>5 DEF Calls, CallAt
<1>7. \A d \in 0 .. Depth - 1 : FrameAt(d)'
  <2>1. Depth > 0 => before[Depth].size <= Len(mem)
    <3>1. Depth > 0 => before[Depth].size < rbp /\ Depth \in 1 .. Depth
      BY <1>1, RunningFrame
    <3>2. rbp <= Len(mem) /\ rbp \in Nat /\ Len(mem) \in Nat
      BY <1>1, RunningFrame
    <3>3. QED
      BY <1>1, <3>1, <3>2, EarlierCall
  <2>2. QED
    BY <1>1, <1>2, <2>1, OuterFramesStay
<1>8. ASSUME NEW d \in {Depth} PROVE FrameAt(d)'
  <2>1. d = Depth
    OBVIOUS
  <2>2. FrameAt(d) /\ Base(d) = rbp /\ CodeOf(d) = Fns[cur] /\ RegsOf(d) = regs
    BY <1>1, <2>1, RunningFrame
  <2>3. ~Outer(d)'
    BY <1>2, <1>5, <2>1, RunningFrame, <1>1 DEF Outer, Depth
  <2>4. Base(d)' = Base(d) /\ CodeOf(d)' = CodeOf(d) /\ RegsOf(d)' = regs'
    BY <1>2, <2>2, <2>3 DEF Base, CodeOf, RegsOf
  <2>5. SlotsAt(d)'
    BY <1>2, <2>2, <2>4 DEF FrameAt, SlotsAt
  <2>6. ASSUME d > 0 PROVE SavesAt(d)'
    <3>1. SavesAt(d)
      BY <2>2, <2>6 DEF FrameAt
    <3>2. \A q \in Regs \ Range(CodeOf(d).savers) : regs'[q] = regs[q]
      BY <1>2, <1>3, <2>2
    <3>3. FrameWords(CodeOf(d))' = FrameWords(CodeOf(d))
      BY <2>4
    <3>4. Range(CodeOf(d).savers)' = Range(CodeOf(d).savers)
      BY <2>4
    <3>5. QED
      BY <1>2, <2>2, <2>4, <3>1, <3>2, <3>3, <3>4 DEF SavesAt
  <2>7. End(d)' = End(d)
    BY <2>4 DEF End
  <2>8. QED
    BY <1>2, <2>2, <2>4, <2>5, <2>6, <2>7, Zenon DEF FrameAt
<1>9. Frames'
  <2>1. Entered' = Depth /\ Depth \in Nat
    BY <1>1, <1>5, RunningFrame
  <2>2. QED
    BY <1>7, <1>8, <2>1 DEF Frames
<1>10. Now'
  BY <1>1, <1>2 DEF Now, InBody
<1>11. QED
  BY <1>4, <1>5, <1>6, <1>9, <1>10 DEF FrameInv

(* The running function writes one of its slots.                           *)
LEMMA ComputeSlotStep ==
  ASSUME FrameInv, NEW k \in Nat, ComputeSlot(k)
  PROVE  FrameInv'
<1> DEFINE at == rbp + k + 1
           f  == Fns[cur]
<1>1. /\ FrameTypes /\ Callers /\ Calls /\ Frames /\ InBody /\ phase = "body"
      /\ mem \in Seq(Words) /\ cur \in DOMAIN Fns
  BY DEF FrameInv, Now, ComputeSlot, FrameTypes
<1>2. /\ k < f.spills /\ mem' = [mem EXCEPT ![at] = Own(k)]
      /\ UNCHANGED <<rbp, regs, argv, cur, phase, left, homes, before>>
  BY DEF ComputeSlot
<1>3. /\ f.spills \in Nat /\ Len(f.savers) \in Nat /\ FrameWords(f) \in Nat
      /\ FrameSize(f) = FrameWords(f) + Len(f.savers) /\ f.spills <= FrameWords(f)
  BY <1>1, FunctionTypes, FrameHolds
<1>4. /\ Depth \in Nat /\ Entered = Depth /\ Standing = Depth /\ FrameAt(Depth)
      /\ Base(Depth) = rbp /\ rbp \in Nat \ {0} /\ CodeOf(Depth) = f /\ RegsOf(Depth) = regs
      /\ Len(mem) \in Nat /\ End(Depth) = Len(mem) /\ Len(mem) = rbp + FrameSize(f)
      /\ Depth > 0 => rbp = before[Depth].ret + 1 /\ before[Depth].size < rbp
  BY <1>1, RunningFrame DEF InBody
<1> HIDE DEF f
<1>5. at \in 1 .. Len(mem) /\ at > rbp
  <2> DEFINE w == FrameWords(f)  n == Len(f.savers)  s == f.spills  L == Len(mem)
  <2>1. /\ k \in Nat /\ k < s /\ s \in Nat /\ w \in Nat /\ n \in Nat /\ s <= w
        /\ rbp \in Nat \ {0} /\ L = rbp + (w + n)
    BY <1>2, <1>3, <1>4
  <2> HIDE DEF w, n, s, L
  <2>2. rbp + k + 1 \in 1 .. L /\ rbp + k + 1 > rbp
    BY <2>1
  <2>3. QED
    BY <2>2 DEF L
<1>6. Own(k) \in Words /\ Own(k) = Word("own", Depth, k)
  BY <1>1, OwnWord
<1> HIDE DEF at
<1>7. /\ mem' \in Seq(Words) /\ Len(mem') = Len(mem) /\ mem'[at] = Own(k)
      /\ \A p \in 1 .. Len(mem) : p # at => mem'[p] = mem[p]
  BY <1>1, <1>2, <1>5, <1>6
<1>8. FrameTypes'
  BY <1>1, <1>2, <1>7 DEF FrameTypes
<1>9. Callers' /\ Depth' = Depth /\ Entered' = Depth /\ Standing' = Depth
  BY <1>1, <1>2, <1>4, CallersStay DEF Depth, Entered, Standing
<1>10. \A p \in 1 .. rbp : mem'[p] = mem[p]
  BY <1>4, <1>5, <1>7
<1>11. Calls'
  <2>1. ASSUME NEW d \in 1 .. Depth PROVE CallAt(d)'
    <3>1. CallAt(d)
      BY <1>1, <1>4 DEF Calls
    <3>2. before[d].ret \in 1 .. rbp
      <4>1. /\ before[d].ret \in Nat \ {0} /\ before[Depth].ret \in Nat
            /\ before[Depth].size \in Nat /\ before[Depth].size < before[Depth].ret
            /\ d < Depth => before[d].ret <= before[Depth].size
        BY <1>1, EarlierCall
      <4>2. rbp = before[Depth].ret + 1
        BY <1>4
      <4> DEFINE D == Depth  x == before[d].ret  y == before[Depth].ret  z == before[Depth].size
      <4>3. /\ x \in Nat \ {0} /\ y \in Nat /\ z \in Nat /\ z < y /\ (d < D => x <= z)
            /\ rbp = y + 1 /\ D \in Nat /\ d \in 1 .. D /\ (d = D => x = y)
        BY <1>4, <4>1, <4>2
      <4> HIDE DEF D, x, y, z
      <4>4. x \in 1 .. rbp
        BY <4>3
      <4>5. QED
        BY <4>4 DEF x
    <3>3. before[d].ret <= Len(mem')
      BY <1>7, <3>1 DEF CallAt
    <3>4. QED
      BY <1>2, <1>10, <3>1, <3>2, <3>3, CallStays
  <2>2. QED
    BY <1>9, <2>1 DEF Calls
<1>12. \A d \in 0 .. Depth - 1 : FrameAt(d)'
  <2>1. Depth > 0 => /\ before[Depth].size <= Len(mem')
                     /\ \A p \in 1 .. before[Depth].size : mem'[p] = mem[p]
    <3> SUFFICES ASSUME Depth > 0
                 PROVE  /\ before[Depth].size <= Len(mem')
                        /\ \A p \in 1 .. before[Depth].size : mem'[p] = mem[p]
      OBVIOUS
    <3>1. before[Depth].size \in Nat /\ before[Depth].size < rbp
      <4>1. Depth \in 1 .. Depth
        BY <1>4
      <4>2. QED
        BY <1>1, <1>4, <4>1, EarlierCall
    <3>2. \A p \in 1 .. before[Depth].size : p \in 1 .. rbp
      BY <1>4, <3>1
    <3>3. before[Depth].size <= Len(mem')
      BY <1>3, <1>4, <1>7, <3>1
    <3>4. QED
      BY <1>10, <3>2, <3>3
  <2>2. QED
    BY <1>1, <1>2, <2>1, OuterFramesStay
<1>13. ASSUME NEW d \in {Depth} PROVE FrameAt(d)'
  <2>1. d = Depth
    OBVIOUS
  <2>2. ~Outer(d)'
    BY <1>2, <1>4, <1>9 DEF Outer, Depth
  <2>3. Base(d)' = rbp /\ CodeOf(d)' = f /\ RegsOf(d)' = regs
    BY <1>2, <2>2 DEF Base, CodeOf, RegsOf, f
  <2>4. (Base(d) = IF d = 0 THEN 1 ELSE before[d].ret + 1)'
    BY <1>2, <1>4, <2>1, <2>3, Zenon DEF FrameAt
  <2>5. (End(d) <= Len(mem))'
    BY <1>4, <1>7, <2>3 DEF End
  <2>6. SlotsAt(d)'
    <3>1. ASSUME NEW i \in 1 .. f.spills
          PROVE  mem'[rbp + i] \in {NoWord, Word("own", d, i - 1)}
      <4>1. CASE i = k + 1
        <5>1. rbp + i = at /\ i - 1 = k
          BY <1>4, <4>1 DEF at
        <5>2. QED
          BY <1>6, <1>7, <2>1, <5>1
      <4>2. CASE i # k + 1
        <5>1. rbp + i \in 1 .. Len(mem) /\ rbp + i # at
          BY <1>3, <1>4, <4>2 DEF at
        <5>2. mem[rbp + i] \in {NoWord, Word("own", d, i - 1)}
          BY <1>4, <2>1, <3>1, Zenon DEF FrameAt, SlotsAt
        <5>3. QED
          BY <1>7, <5>1, <5>2
      <4>3. QED
        BY <4>1, <4>2
    <3>2. QED
      BY <2>3, <3>1 DEF SlotsAt
  <2>7. ASSUME d > 0 PROVE SavesAt(d)'
    <3>1. SavesAt(d)
      BY <1>4, <2>1, <2>7 DEF FrameAt
    <3>2. mem'[rbp].n = before[d].rbp
      <4>1. mem[rbp].n = before[d].rbp
        BY <1>4, <2>1, <3>1, Zenon DEF SavesAt
      <4>2. rbp \in 1 .. rbp
        BY <1>4
      <4>3. QED
        BY <1>10, <4>1, <4>2
    <3>3. \A i \in 1 .. Len(f.savers) : mem'[rbp + FrameWords(f) + i] = before[d].regs[f.savers[i]]
      <4>1. \A i \in 1 .. Len(f.savers) :
              mem[rbp + FrameWords(f) + i] = before[d].regs[f.savers[i]]
        BY <1>4, <2>1, <3>1, Zenon DEF SavesAt
      <4>2. \A i \in 1 .. Len(f.savers) :
              rbp + FrameWords(f) + i \in 1 .. Len(mem) /\ rbp + FrameWords(f) + i # at
        <5>1. k \in Nat /\ k < f.spills /\ at = rbp + k + 1
          BY <1>2 DEF at, f
        <5>2. /\ f.spills \in Nat /\ FrameWords(f) \in Nat /\ f.spills <= FrameWords(f)
              /\ Len(f.savers) \in Nat /\ Len(mem) = rbp + FrameWords(f) + Len(f.savers)
              /\ rbp \in Nat \ {0}
          BY <1>3, <1>4
        <5>3. QED
          BY <5>1, <5>2
      <4>3. QED
        BY <1>7, <4>1, <4>2, Zenon
    <3>4. \A q \in Regs \ Range(f.savers) : regs[q] = before[d].regs[q]
      BY <1>4, <2>1, <3>1, Zenon DEF SavesAt
    <3>5. QED
      BY <1>2, <2>3, <3>2, <3>3, <3>4, Zenon DEF SavesAt
  <2>8. QED
    BY <2>4, <2>5, <2>6, <2>7, Zenon DEF FrameAt
<1>14. Frames'
  BY <1>4, <1>9, <1>12, <1>13 DEF Frames
<1>15. Now'
  BY <1>1, <1>2, <1>7 DEF Now, InBody
<1>16. QED
  BY <1>8, <1>9, <1>11, <1>14, <1>15 DEF FrameInv

(* The callee gives back what it saved and returns.                        *)
LEMMA EpilogueStep == ASSUME FrameInv, Epilogue PROVE FrameInv'
<1> DEFINE f        == Fns[cur]
           s        == f.savers
           c        == before[Depth]
           place(r) == CHOOSE i \in 1 .. Len(s) : s[i] = r
<1>1. /\ FrameTypes /\ Callers /\ Calls /\ Frames /\ InBody /\ phase = "body"
      /\ mem \in Seq(Words) /\ cur \in DOMAIN Fns /\ before \in Seq(Kept)
      /\ regs \in [Regs -> Words] /\ before # <<>>
  BY DEF FrameInv, Now, Epilogue, FrameTypes
<1>2. /\ regs' = [r \in Regs |->
           IF r \in Range(s) THEN mem[Len(mem) - (Len(s) - place(r))] ELSE regs[r]]
      /\ rbp' = mem[rbp].n /\ cur' = mem[rbp - 1].of /\ left' = mem[rbp - 1].n
      /\ mem' = SubSeq(mem, 1, rbp - 2)
      /\ phase' = "back" /\ UNCHANGED <<argv, before>>
  BY DEF Epilogue
<1>3. /\ f \in Code /\ s \in Seq(Regs) /\ Len(s) \in Nat /\ FrameWords(f) \in Nat
      /\ FrameSize(f) = FrameWords(f) + Len(s)
  <2>1. f \in Code
    BY <1>1, FunctionTypes
  <2>2. s \in Seq(Regs)
    BY <2>1 DEF Code
  <2>3. QED
    BY <2>1, <2>2, FrameHolds
<1>4. /\ Depth \in Nat /\ Depth > 0 /\ Depth \in 1 .. Depth
  BY <1>1 DEF Depth
<1>5. /\ Entered = Depth /\ Standing = Depth /\ FrameAt(Depth)
      /\ Base(Depth) = rbp /\ rbp \in Nat \ {0} /\ CodeOf(Depth) = f /\ RegsOf(Depth) = regs
      /\ Len(mem) \in Nat /\ Len(mem) = rbp + FrameSize(f)
      /\ rbp = c.ret + 1 /\ c.size < rbp
  BY <1>1, <1>4, RunningFrame DEF InBody
<1>6. /\ c.ret \in Nat \ {0} /\ c.size \in Nat /\ c.size < c.ret /\ c.rbp \in Nat
      /\ c.fn \in DOMAIN Fns /\ c.regs \in [Regs -> Words]
  BY <1>1, <1>4, CallTypes, EarlierCall
<1>7. /\ mem[rbp].n = c.rbp
      /\ \A i \in 1 .. Len(s) : mem[rbp + FrameWords(f) + i] = c.regs[s[i]]
      /\ \A r \in Regs \ Range(s) : regs[r] = c.regs[r]
  <2>1. SavesAt(Depth)
    BY <1>4, <1>5 DEF FrameAt
  <2>2. QED
    BY <1>5, <2>1, Zenon DEF SavesAt
<1>8. mem[rbp - 1].of = c.fn /\ mem[rbp - 1].n = c.ret - 1 - c.size
  <2>1. CallAt(Depth)
    BY <1>1, <1>4, <1>5 DEF Calls
  <2>2. rbp - 1 = c.ret
    BY <1>5, <1>6
  <2>3. QED
    BY <2>1, <2>2 DEF CallAt
<1> HIDE DEF f, c
<1>9. regs' = c.regs
  <2>1. ASSUME NEW r \in Regs PROVE regs'[r] = c.regs[r]
    <3>1. CASE r \in Range(s)
      <4>1. PICK i \in 1 .. Len(s) : s[i] = r
        BY <1>3, <3>1 DEF Range
      <4>2. place(r) \in 1 .. Len(s) /\ s[place(r)] = r
        BY <4>1
      <4> DEFINE j == place(r)
      <4>3. regs'[r] = mem[Len(mem) - (Len(s) - j)]
        BY <1>2, <3>1
      <4>4. j \in 1 .. Len(s) /\ s[j] = r
        BY <4>2
      <4> HIDE DEF j, s
      <4>5. Len(mem) - (Len(s) - j) = rbp + FrameWords(f) + j
        BY <1>3, <1>5, <4>4
      <4>6. QED
        BY <1>7, <4>3, <4>4, <4>5
    <3>2. CASE r \notin Range(s)
      BY <1>2, <1>7, <3>2
    <3>3. QED
      BY <3>1, <3>2
  <2>2. DOMAIN regs' = Regs
    BY <1>2
  <2>3. QED
    BY <1>2, <1>6, <2>1
<1>10. /\ mem' \in Seq(Words) /\ Len(mem') = c.ret - 1
       /\ \A p \in 1 .. c.ret - 1 : mem'[p] = mem[p]
  <2>1. c.ret - 1 \in 0 .. Len(mem) /\ rbp - 2 = c.ret - 1
    <3>1. FrameSize(f) \in Nat
      BY <1>3
    <3>2. QED
      BY <1>5, <1>6, <3>1
  <2>2. QED
    BY <1>1, <1>2, <2>1, Shortened
<1>11. FrameTypes'
  <2>1. left' \in Nat
    BY <1>2, <1>6, <1>8
  <2>2. QED
    BY <1>1, <1>2, <1>6, <1>7, <1>8, <1>9, <1>10, <2>1 DEF FrameTypes
<1>12. Callers' /\ Depth' = Depth /\ Entered' = Depth - 1 /\ Standing' = Depth - 1
  BY <1>1, <1>2, CallersStay DEF Depth, Entered, Standing
<1>13. Calls'
  <2>1. ASSUME NEW d \in 1 .. Depth - 1 PROVE CallAt(d)'
    <3>1. CallAt(d) /\ d \in 1 .. Depth /\ d < Depth
      BY <1>1, <1>4, <1>5 DEF Calls
    <3>2. before[d].ret \in Nat \ {0} /\ before[d].ret <= c.size
      BY <1>1, <3>1, EarlierCall DEF c
    <3>3. before[d].ret \in 1 .. c.ret - 1 /\ before[d].ret <= Len(mem')
      BY <1>6, <1>10, <3>2
    <3>4. QED
      BY <1>2, <1>10, <3>1, <3>3, CallStays
  <2>2. QED
    BY <1>12, <2>1 DEF Calls
<1>14. Frames'
  <2>1. c.size <= Len(mem') /\ \A p \in 1 .. c.size : p \in 1 .. c.ret - 1
    BY <1>6, <1>10
  <2>2. \A p \in 1 .. c.size : mem'[p] = mem[p]
    BY <1>10, <2>1
  <2>3. QED
    BY <1>1, <1>2, <1>12, <2>1, <2>2, OuterFramesStay DEF Frames, c
<1>15. Now'
  <2>1. regs' = c.regs /\ rbp' = c.rbp /\ cur' = c.fn /\ left' = c.ret - 1 - c.size
    BY <1>2, <1>7, <1>8, <1>9
  <2>2. before'[Depth'] = c
    BY <1>2, <1>12 DEF c
  <2>3. Len(mem') = c.size + left'
    BY <1>6, <1>10, <2>1
  <2>4. Back'
    BY <1>4, <1>12, <2>1, <2>2, <2>3 DEF Back
  <2>5. QED
    BY <1>2, <2>4 DEF Now
<1>16. QED
  BY <1>11, <1>12, <1>13, <1>14, <1>15 DEF FrameInv

(* The caller takes its arguments off and goes on.                         *)
LEMMA CleanupStep == ASSUME FrameInv, Cleanup PROVE FrameInv'
<1> DEFINE c == before[Depth]
<1>1. /\ FrameTypes /\ Callers /\ Calls /\ Frames /\ Back /\ phase = "back"
      /\ mem \in Seq(Words) /\ cur \in DOMAIN Fns /\ before \in Seq(Kept) /\ Depth \in Nat
      /\ regs \in [Regs -> Words] /\ rbp \in Nat /\ left \in Nat /\ Len(mem) \in Nat
  BY DEF FrameInv, Now, Cleanup, FrameTypes, Depth
<1>2. /\ mem' = SubSeq(mem, 1, Len(mem) - left)
      /\ before' = Front(before)
      /\ phase' = "body" /\ UNCHANGED <<rbp, regs, argv, cur, left>>
  BY DEF Cleanup
<1>3. /\ Depth > 0 /\ Depth \in 1 .. Depth
      /\ regs = c.regs /\ rbp = c.rbp /\ cur = c.fn /\ Len(mem) = c.size + left
  BY <1>1 DEF Back
<1>4. c.size \in Nat /\ c.size = c.rbp + FrameSize(Fns[c.fn])
  BY <1>1, <1>3, CallTypes DEF Callers
<1> HIDE DEF c
<1>5. /\ mem' \in Seq(Words) /\ Len(mem') = c.size /\ \A p \in 1 .. c.size : mem'[p] = mem[p]
  <2>1. c.size \in 0 .. Len(mem) /\ Len(mem) - left = c.size
    BY <1>1, <1>3, <1>4
  <2>2. QED
    BY <1>1, <1>2, <2>1, Shortened
<1>6. /\ before' \in Seq(Kept) /\ Depth' = Depth - 1
      /\ \A d \in 1 .. Depth - 1 : before'[d] = before[d]
  <2>1. Depth - 1 \in 0 .. Len(before)
    BY <1>1, <1>3 DEF Depth
  <2>2. before' = SubSeq(before, 1, Depth - 1)
    BY <1>2 DEF Front, Depth
  <2>3. QED
    BY <1>1, <2>1, <2>2, Shortened DEF Depth
<1>7. FrameTypes'
  BY <1>1, <1>2, <1>5, <1>6 DEF FrameTypes
<1>8. Callers'
  BY <1>1, <1>6 DEF Callers
<1>9. Entered = Depth - 1 /\ Entered' = Depth - 1 /\ Standing = Depth - 1 /\ Standing' = Depth - 1
  BY <1>1, <1>2, <1>6 DEF Entered, Standing
<1>10. Calls'
  <2>1. ASSUME NEW d \in 1 .. Depth - 1 PROVE CallAt(d)'
    <3>1. CallAt(d) /\ d \in 1 .. Depth /\ d < Depth /\ before'[d] = before[d]
      BY <1>1, <1>6, <1>9 DEF Calls
    <3>2. before[d].ret \in Nat \ {0} /\ before[d].ret <= c.size
      BY <1>1, <3>1, EarlierCall DEF c
    <3>3. before[d].ret \in 1 .. c.size /\ before[d].ret <= Len(mem')
      BY <1>4, <1>5, <3>2
    <3>4. mem'[before[d].ret] = mem[before[d].ret]
      BY <1>5, <3>3
    <3>5. QED
      BY <3>1, <3>3, <3>4 DEF CallAt
  <2>2. QED
    BY <1>9, <2>1 DEF Calls
<1>11. Frames'
  <2>1. ASSUME NEW d \in 0 .. Depth - 1 PROVE FrameAt(d)'
    <3>1. /\ FrameAt(d) /\ Base(d) = before[d + 1].rbp /\ Base(d) \in Nat \ {0}
          /\ CodeOf(d) = Fns[before[d + 1].fn] /\ CodeOf(d) \in Code
          /\ RegsOf(d) = before[d + 1].regs /\ End(d) \in Nat /\ End(d) <= c.size /\ d \in Nat
      <4>1. d \in Nat
        BY <1>1
      <4>2. /\ FrameAt(d) /\ Base(d) = before[d + 1].rbp /\ Base(d) \in Nat \ {0}
            /\ CodeOf(d) = Fns[before[d + 1].fn] /\ CodeOf(d) \in Code
            /\ RegsOf(d) = before[d + 1].regs /\ End(d) \in Nat
            /\ End(d) <= before[Depth].size
        BY <1>1, OuterFrame
      <4>3. QED
        BY <4>1, <4>2 DEF c
    <3>2. Base(d)' = Base(d) /\ CodeOf(d)' = CodeOf(d) /\ RegsOf(d)' = RegsOf(d)
      <4>1. CASE d = Depth - 1
        <5>1. ~Outer(d)' /\ before[d + 1] = c
          BY <1>1, <1>6, <4>1 DEF Outer, Depth, c
        <5>2. QED
          BY <1>2, <1>3, <3>1, <5>1 DEF Base, CodeOf, RegsOf
      <4>2. CASE d < Depth - 1
        <5>1. Outer(d)' /\ before'[d + 1] = before[d + 1]
          <6>1. Depth \in Nat /\ d \in Nat /\ d < Depth - 1
            BY <1>1, <3>1, <4>2 DEF Depth
          <6>2. d + 1 \in 1 .. Depth - 1 /\ d < Depth - 1
            BY <6>1
          <6>3. before'[d + 1] = before[d + 1]
            BY <1>6, <6>2
          <6>4. Len(before') = Depth - 1
            BY <1>6 DEF Depth
          <6>5. QED
            BY <6>2, <6>3, <6>4 DEF Outer
        <5>2. QED
          BY <3>1, <5>1 DEF Base, CodeOf, RegsOf
      <4>3. QED
        BY <1>1, <4>1, <4>2
    <3>3. d > 0 => before'[d] = before[d]
      BY <1>1, <1>6
    <3>4. End(d) <= Len(mem') /\ \A p \in 1 .. End(d) : p \in 1 .. c.size
      BY <1>4, <1>5, <3>1
    <3>5. \A p \in 1 .. End(d) : mem'[p] = mem[p]
      BY <1>5, <3>4
    <3>6. QED
      BY <3>1, <3>2, <3>3, <3>4, <3>5, FrameStays
  <2>2. QED
    BY <1>9, <2>1 DEF Frames
<1>12. Now'
  BY <1>2, <1>3, <1>4, <1>5 DEF Now, InBody
<1>13. QED
  BY <1>7, <1>8, <1>10, <1>11, <1>12 DEF FrameInv

-----------------------------------------------------------------------------
(* The inductive invariant: a stack of frames, each as its function built  *)
(* it, for every program whose sites match.                                *)
THEOREM FrameInvariant ==
  ASSUME Matching PROVE Spec => []FrameInv
<1>1. FrameInv /\ [Next]_vars => FrameInv'
  <2> SUFFICES ASSUME FrameInv, [Next]_vars PROVE FrameInv'
    OBVIOUS
  <2>1. CASE UNCHANGED vars
    <3>1. FrameTypes' /\ Callers' /\ Calls'
      BY <2>1 DEF vars, FrameInv, FrameTypes, Callers, Calls, CallAt, Depth, Standing
    <3>2. Frames'
      <4>1. mem' = mem /\ rbp' = rbp /\ regs' = regs /\ cur' = cur /\ phase' = phase
            /\ before' = before /\ Frames
        BY <2>1 DEF vars, FrameInv
      <4>2. ASSUME NEW d \in 0 .. Entered PROVE FrameAt(d)'
        <5>1. Base(d)' = Base(d) /\ CodeOf(d)' = CodeOf(d) /\ RegsOf(d)' = RegsOf(d)
          BY <4>1, Zenon DEF Base, CodeOf, RegsOf, Outer
        <5>2. End(d)' = End(d) /\ (SlotsAt(d) => SlotsAt(d)') /\ (SavesAt(d) => SavesAt(d)')
          BY <4>1, <5>1, Zenon DEF End, SlotsAt, SavesAt
        <5>3. FrameAt(d)
          BY <4>1, Zenon DEF Frames
        <5>4. QED
          BY <4>1, <5>1, <5>2, <5>3, Zenon DEF FrameAt
      <4>3. QED
        BY <4>1, <4>2, Zenon DEF Frames, Entered, Depth
    <3>3. Now'
      BY <2>1 DEF vars, FrameInv, Now, AtEntry, InBody, Back, Depth
    <3>4. QED
      BY <3>1, <3>2, <3>3 DEF FrameInv
  <2>2. CASE Next
    <3>1. CASE \E k \in 0 .. 1 : ComputeSlot(k)
      BY <3>1, ComputeSlotStep
    <3>2. CASE \E r \in Regs : ComputeReg(r)
      BY <3>2, ComputeRegStep
    <3>3. CASE \E c \in CallSites : CallTo(c[1], c[2])
      BY <3>3, CallStep
    <3>4. QED
      BY <2>2, <3>1, <3>2, <3>3, CleanupStep, PrologueStep, EpilogueStep DEF Next
  <2>3. QED
    BY <2>1, <2>2
<1>2. QED
  BY <1>1, InitFrame, PTL DEF Spec

(* The stack pointer is where the prologue left it whenever the body runs, *)
(* and a call returns to its caller's frame.                               *)
THEOREM StackStaysBalanced == ASSUME Matching PROVE Spec => []StackIsBalanced
<1>1. FrameInv => StackIsBalanced
  <2> SUFFICES ASSUME FrameInv PROVE StackIsBalanced
    OBVIOUS
  <2>1. cur \in DOMAIN Fns /\ rbp \in Nat /\ left \in Nat /\ before \in Seq(Kept)
    BY DEF FrameInv, FrameTypes
  <2>2. FrameSize(Fns[cur]) = FrameWords(Fns[cur]) + Len(Fns[cur].savers)
        /\ FrameWords(Fns[cur]) \in Nat /\ Len(Fns[cur].savers) \in Nat
    BY <2>1, FunctionTypes, FrameHolds
  <2>3. phase = "body" => Len(mem) = rbp + FrameWords(Fns[cur]) + Len(Fns[cur].savers)
    BY <2>1, <2>2 DEF FrameInv, Now, InBody
  <2>4. ASSUME phase = "back"
        PROVE  cur = before[Depth].fn /\ rbp = before[Depth].rbp
               /\ Len(mem) - left = before[Depth].size
    <3>1. Depth \in 1 .. Depth /\ Back
      BY <2>1, <2>4 DEF FrameInv, Now, Back, Depth
    <3>2. before[Depth].size \in Nat
      BY <3>1, CallTypes DEF FrameInv
    <3>3. QED
      BY <2>1, <3>1, <3>2 DEF Back
  <2>5. QED
    BY <2>3, <2>4 DEF StackIsBalanced, Depth
<1>2. QED
  BY <1>1, FrameInvariant, PTL

(* A call gives every register of the pool back.                           *)
THEOREM CalleesPreserve == ASSUME Matching PROVE Spec => []RegistersPreserved
<1>1. FrameInv => RegistersPreserved
  BY DEF FrameInv, Now, Back, RegistersPreserved, Depth
<1>2. QED
  BY <1>1, FrameInvariant, PTL

(* No frame's slot is ever written by another.                             *)
THEOREM SlotsStayPrivate == ASSUME Matching PROVE Spec => []SlotsArePrivate
<1>1. FrameInv => SlotsArePrivate
  BY DEF FrameInv, Frames, FrameAt, SlotsAt, SlotsArePrivate, Entered, Depth
<1>2. QED
  BY <1>1, FrameInvariant, PTL

-----------------------------------------------------------------------------
(* Parameters.  At the entry of a function, its call has put one argument  *)
(* in each argument register it fills, and pushed the rest last first.     *)
PassedBy(c) ==
  LET kind == c[1]
      n    == Args(kind, Fns[cur])
      k    == AtLeastZero(n - InRegs(kind))
      from == Depth - 1
  IN  /\ c[2] = cur /\ Callable(kind, Fns[cur])
      /\ kind \in {"Static", "Virt"} =>
           \A i \in 0 .. 5 : i <= n => argv[i] = Word("arg", from, i)
      /\ kind \notin {"Static", "Virt"} =>
           \A i \in 0 .. 5 : i < n => argv[i] = Word("arg", from, i + 1)
      /\ k < Len(mem)
      /\ \A i \in 1 .. k : mem[Len(mem) - 1 - k + i] = Word("arg", from, n + 1 - i)

ParamInv ==
  /\ phase = "entry" => IF Depth = 0 THEN cur = 1 ELSE \E c \in CallSites : PassedBy(c)
  /\ phase = "back" => homes = <<>>
  /\ ParamsArrive

(* @start has no parameters.                                               *)
StartTakesNothing == ~Fns[1].receiver /\ Fns[1].arity = 0

LEMMA NoHomes == ASSUME homes = <<>> PROVE ParamsArrive
<1>1. DOMAIN homes = {}
  OBVIOUS
<1>2. QED
  BY <1>1 DEF ParamsArrive

(* The call site passes what PassedBy says.                                *)
LEMMA SitePasses ==
  ASSUME FrameInv, Matching, NEW c \in CallSites, CallTo(c[1], c[2])
  PROVE  PassedBy(c)'
<1> DEFINE kind   == c[1]
           g      == c[2]
           n      == Args(kind, Fns[g])
           pushed == Pushed(kind, n)
           word   == Word("ret", cur, Cleaned(kind, n))
           k      == AtLeastZero(n - InRegs(kind))
<1>1. /\ FrameTypes /\ mem \in Seq(Words) /\ cur \in DOMAIN Fns /\ before \in Seq(Kept)
      /\ Depth \in Nat /\ Len(mem) \in Nat
  BY DEF FrameInv, FrameTypes, Depth
<1>2. /\ mem' = mem \o pushed \o <<word>> /\ argv' = ArgRegs(kind, n) /\ cur' = g
      /\ Callable(kind, Fns[g]) /\ Depth' = Depth + 1
  BY <1>1 DEF CallTo, Depth
<1>3. g \in DOMAIN Fns /\ n \in Nat /\ Cleaned(kind, n) \in Nat /\ k \in Nat
      /\ pushed \in Seq(Words) /\ Len(pushed) = k
  <2>1. g \in DOMAIN Fns /\ n \in Nat
    BY FunctionTypes, ArgsTypes DEF Matching
  <2>2. QED
    BY <1>1, <2>1, PushedTypes
<1>4. word \in Words
  BY <1>1, <1>3, FunctionTypes, AWord
<1>5. \A i \in 1 .. k : pushed[i] = Word("arg", Depth, n + 1 - i)
  BY DEF Pushed, Arg, Depth
<1> HIDE DEF n, pushed, word, k, kind
<1>6. Len(mem') = Len(mem) + k + 1 /\ \A i \in 1 .. k : mem'[Len(mem) + i] = pushed[i]
  <2>1. mem \in Seq(Words) /\ pushed \in Seq(Words) /\ word \in Words
    BY <1>1, <1>3, <1>4
  <2> DEFINE x == mem \o pushed \o <<word>>
  <2>2. /\ Len(x) = Len(mem) + Len(pushed) + 1
        /\ \A i \in 1 .. Len(pushed) : x[Len(mem) + i] = pushed[i]
    BY <2>1, Appended
  <2> HIDE DEF x
  <2>3. mem' = x
    BY <1>2 DEF x
  <2>4. QED
    BY <1>3, <2>2, <2>3
<1>7. \A i \in 1 .. k : mem'[Len(mem') - 1 - k + i] = Word("arg", Depth, n + 1 - i)
  <2>1. \A i \in 1 .. k : Len(mem') - 1 - k + i = Len(mem) + i
    BY <1>1, <1>3, <1>6
  <2>2. QED
    BY <1>5, <1>6, <2>1
<1>8. kind \in {"Static", "Virt"} => \A i \in 0 .. 5 : i <= n => argv'[i] = Word("arg", Depth, i)
  BY <1>2 DEF ArgRegs, Arg, Depth
<1>9. kind \notin {"Static", "Virt"} =>
        \A i \in 0 .. 5 : i < n => argv'[i] = Word("arg", Depth, i + 1)
  BY <1>2 DEF ArgRegs, Arg, Depth
<1>10. (Depth - 1)' = Depth /\ cur' = c[2] /\ Args(kind, Fns[cur']) = n /\ k < Len(mem')
  BY <1>1, <1>2, <1>3, <1>6 DEF n
<1>11. QED
  BY <1>2, <1>7, <1>8, <1>9, <1>10 DEF PassedBy, k, kind

(* The prologue builds its frame above what is there.                      *)
LEMMA KeepsTheStack ==
  ASSUME FrameInv, Prologue
  PROVE  \A p \in 1 .. Len(mem) : mem'[p] = mem[p]
<1> DEFINE f     == Fns[cur]
           saved == [i \in 1 .. Len(f.savers) |-> regs[f.savers[i]]]
           pad   == [i \in 1 .. FrameWords(f) |-> NoWord]
           word  == Word("rbp", 0, rbp)
<1>1. /\ mem \in Seq(Words) /\ rbp \in Nat /\ regs \in [Regs -> Words] /\ f \in Code
  BY FunctionTypes DEF FrameInv, FrameTypes
<1>2. f.savers \in Seq(Regs) /\ Len(f.savers) \in Nat /\ FrameWords(f) \in Nat
  BY <1>1, FrameHolds DEF Code
<1>3. word \in Words /\ NoWord \in Words
  BY <1>1, AWord DEF NoWord
<1> HIDE DEF f, word
<1>4. saved \in Seq(Words) /\ pad \in Seq(Words)
  BY <1>1, <1>2, <1>3
<1>5. mem' = mem \o <<word>> \o pad \o saved
  BY DEF Prologue, f, word
<1> HIDE DEF saved, pad
<1> DEFINE x == mem \o <<word>> \o pad \o saved
<1>6. \A p \in 1 .. Len(mem) : x[p] = mem[p]
  BY <1>1, <1>3, <1>4, Built
<1> HIDE DEF x
<1>7. mem' = x
  BY <1>5 DEF x
<1>8. QED
  BY <1>6, <1>7

LEMMA FromTheStack ==
  ASSUME NEW f, NEW j, NEW s, NEW b
  PROVE  /\ f.receiver /\ j >= 6 => Incoming(f, j, s, b) = s[b - 2 - (j - 6)]
         /\ ~f.receiver /\ j >= 7 => Incoming(f, j, s, b) = s[b - 2 - (j - 7)]
  BY Zenon DEF Incoming

(* The prologue finds each of its parameters where the site put it:        *)
(* argument j for vreg j, or j + 1 when the receiver is passed as argument *)
(* 1.                                                                      *)
LEMMA PrologueFinds ==
  ASSUME FrameInv, Matching, Depth > 0, Prologue, NEW c \in CallSites, PassedBy(c),
         NEW j \in ParamVregs(Fns[cur])
  PROVE  homes'[j] = Word("arg", Depth - 1,
           IF Fns[cur].receiver /\ c[1] \notin {"Static", "Virt"} THEN j + 1 ELSE j)
<1> DEFINE f    == Fns[cur]
           m    == Len(mem)
           kind == c[1]
           n    == Args(kind, f)
           k    == AtLeastZero(n - InRegs(kind))
           from == Depth - 1
           s    == mem'
<1>1. /\ FrameTypes /\ mem \in Seq(Words) /\ Depth \in Nat /\ m \in Nat /\ f \in Code
      /\ n \in Nat /\ kind \in {"Fn", "Static", "Virt", "Import"}
      /\ (kind \in {"Static", "Virt"} => n <= 5)
  <2>1. FrameTypes /\ mem \in Seq(Words) /\ Depth \in Nat /\ m \in Nat /\ f \in Code
    BY FunctionTypes DEF FrameInv, FrameTypes, Depth
  <2>2. kind \in {"Fn", "Static", "Virt", "Import"} /\ c[2] = cur
    BY DEF Matching, PassedBy
  <2>3. QED
    BY <2>1, <2>2, ArgsTypes DEF Matching
<1>2. homes'[j] = Incoming(f, j, s, m + 1)
  BY DEF Prologue
<1>3. \A p \in 1 .. m : s[p] = mem[p]
  BY KeepsTheStack
<1>4. /\ Callable(kind, f)
      /\ kind \in {"Static", "Virt"} =>
           \A i \in 0 .. 5 : i <= n => argv[i] = Word("arg", from, i)
      /\ kind \notin {"Static", "Virt"} =>
           \A i \in 0 .. 5 : i < n => argv[i] = Word("arg", from, i + 1)
      /\ k < m
      /\ \A i \in 1 .. k : mem[m - 1 - k + i] = Word("arg", from, n + 1 - i)
  BY DEF PassedBy
<1>5. argv' = argv /\ f.arity \in Nat /\ f.receiver \in BOOLEAN
  BY <1>1 DEF Prologue, Code
<1>6. j \in 0 .. f.arity /\ (~f.receiver => j \in 1 .. f.arity)
  BY <1>5 DEF ParamVregs
<1>7. /\ kind \in {"Static", "Virt"} => n = f.arity
      /\ kind \notin {"Static", "Virt"} =>
           n = f.arity + (IF f.receiver THEN 1 ELSE 0) /\ k = AtLeastZero(n - 6)
  BY DEF Args, InRegs
<1> HIDE DEF f, n, k, m, kind, from, s
<1>8. ASSUME NEW i \in 1 .. k
      PROVE  s[m - 1 - k + i] = Word("arg", from, n + 1 - i)
  <2>1. k \in Nat
    BY <1>1 DEF k, AtLeastZero, InRegs
  <2>2. m - 1 - k + i \in 1 .. m
    BY <1>1, <1>4, <2>1
  <2>3. QED
    BY <1>3, <1>4, <2>2
<1>9. CASE kind \in {"Static", "Virt"}
  <2>1. f.receiver /\ j \in 0 .. 5 /\ j <= n
    BY <1>1, <1>4, <1>5, <1>6, <1>7, <1>9 DEF Callable
  <2>2. Incoming(f, j, s, m + 1) = argv[j]
    BY <2>1 DEF Incoming
  <2>3. argv[j] = Word("arg", from, j)
    BY <1>4, <1>9, <2>1
  <2>4. QED
    BY <1>2, <1>9, <2>2, <2>3 DEF kind, from
<1>10. CASE kind \notin {"Static", "Virt"} /\ f.receiver
  <2>1. n = f.arity + 1 /\ k = AtLeastZero(n - 6)
    BY <1>7, <1>10
  <2>2. CASE j < 6
    <3>1. Incoming(f, j, s, m + 1) = argv[j]
      BY <1>6, <1>10, <2>2 DEF Incoming
    <3>2. j \in 0 .. 5 /\ j < n
      BY <1>5, <1>6, <2>1, <2>2
    <3>3. argv[j] = Word("arg", from, j + 1)
      BY <1>4, <1>10, <3>2
    <3>4. QED
      BY <1>2, <1>10, <3>1, <3>3, Zenon DEF kind, from, f
  <2>3. CASE j >= 6
    <3>1. Incoming(f, j, s, m + 1) = s[(m + 1) - 2 - (j - 6)]
      BY <1>10, <2>3, FromTheStack
    <3>2. /\ n - j \in 1 .. k /\ n + 1 - (n - j) = j + 1
          /\ m - 1 - k + (n - j) = (m + 1) - 2 - (j - 6)
      <4>1. m \in Nat /\ j \in Nat /\ n \in Nat /\ j < n /\ j >= 6
        BY <1>1, <1>5, <1>6, <2>1, <2>3
      <4>2. k = n - 6
        BY <2>1, <4>1 DEF AtLeastZero
      <4>3. QED
        BY <4>1, <4>2
    <3>3. s[m - 1 - k + (n - j)] = Word("arg", from, n + 1 - (n - j))
      BY <1>8, <3>2
    <3>4. s[(m + 1) - 2 - (j - 6)] = Word("arg", from, j + 1)
      BY <3>2, <3>3
    <3>5. QED
      BY <1>2, <1>10, <3>1, <3>4 DEF kind, from, f
  <2>4. QED
    BY <1>5, <1>6, <2>2, <2>3
<1>11. CASE ~f.receiver
  <2>1. kind \notin {"Static", "Virt"} /\ n = f.arity /\ k = AtLeastZero(n - 6)
    BY <1>4, <1>5, <1>7, <1>11 DEF Callable
  <2>2. CASE j < 7
    <3>1. Incoming(f, j, s, m + 1) = argv[j - 1]
      BY <1>6, <1>11, <2>2 DEF Incoming
    <3>2. j - 1 \in 0 .. 5 /\ j - 1 < n /\ (j - 1) + 1 = j
      BY <1>5, <1>6, <1>11, <2>1, <2>2
    <3>3. argv[j - 1] = Word("arg", from, (j - 1) + 1)
      BY <1>4, <2>1, <3>2
    <3>4. QED
      BY <1>2, <1>11, <3>1, <3>2, <3>3, Zenon DEF from, f
  <2>3. CASE j >= 7
    <3>1. Incoming(f, j, s, m + 1) = s[(m + 1) - 2 - (j - 7)]
      BY <1>11, <2>3, FromTheStack
    <3>2. /\ n + 1 - j \in 1 .. k /\ n + 1 - (n + 1 - j) = j
          /\ m - 1 - k + (n + 1 - j) = (m + 1) - 2 - (j - 7)
      <4>1. m \in Nat /\ j \in Nat /\ n \in Nat /\ j <= n /\ j >= 7
        BY <1>1, <1>5, <1>6, <1>11, <2>1, <2>3
      <4>2. k = n - 6
        BY <2>1, <4>1 DEF AtLeastZero
      <4>3. QED
        BY <4>1, <4>2
    <3>3. s[m - 1 - k + (n + 1 - j)] = Word("arg", from, n + 1 - (n + 1 - j))
      BY <1>8, <3>2
    <3>4. s[(m + 1) - 2 - (j - 7)] = Word("arg", from, j)
      BY <3>2, <3>3
    <3>5. QED
      BY <1>2, <1>11, <3>1, <3>4 DEF from, f
  <2>4. QED
    BY <1>5, <1>6, <2>2, <2>3
<1>12. QED
  BY <1>5, <1>9, <1>10, <1>11

LEMMA PrologueDelivers ==
  ASSUME FrameInv, Matching, StartTakesNothing, ParamInv, Prologue
  PROVE  ParamsArrive'
<1>1. /\ DOMAIN homes' = ParamVregs(Fns[cur]) /\ before' = before /\ phase = "entry"
      /\ Depth \in Nat
  BY DEF Prologue, FrameInv, FrameTypes, Depth
<1>2. CASE Depth = 0
  <2>1. cur = 1
    BY <1>1, <1>2 DEF ParamInv
  <2>2. DOMAIN homes' = {}
    BY <1>1, <2>1 DEF StartTakesNothing, ParamVregs
  <2>3. QED
    BY <2>2 DEF ParamsArrive
<1>3. CASE Depth > 0
  <2>1. PICK c \in CallSites : PassedBy(c)
    BY <1>1, <1>3 DEF ParamInv
  <2> DEFINE later == Fns[cur].receiver /\ c[1] \notin {"Static", "Virt"}
  <2>2. \A j \in DOMAIN homes' :
          homes'[j] = Word("arg", Depth - 1, IF later THEN j + 1 ELSE j)
    BY <1>1, <1>3, <2>1, PrologueFinds
  <2>3. later => 0 \in DOMAIN homes'
    BY <1>1 DEF ParamVregs
  <2> HIDE DEF later
  <2>4. ASSUME NEW j \in DOMAIN homes'
        PROVE  /\ homes'[j].kind = "arg" /\ homes'[j].of = Len(before') - 1
               /\ \/ homes'[j].n = j
                  \/ homes'[j].n = j + 1 /\ 0 \in DOMAIN homes' /\ homes'[0].n = 1
    BY <1>1, <2>2, <2>3 DEF Word, Depth
  <2>5. QED
    BY <2>4 DEF ParamsArrive
<1>4. QED
  BY <1>1, <1>2, <1>3

(* Whatever function is entered, by whatever kind of call, its parameters  *)
(* are in their homes.                                                     *)
THEOREM ParametersArrive ==
  ASSUME Matching, StartTakesNothing PROVE Spec => []ParamsArrive
<1>1. Init => ParamInv
  <2> SUFFICES ASSUME Init PROVE ParamInv
    OBVIOUS
  <2>1. homes = <<>> /\ phase = "entry" /\ cur = 1 /\ Depth = 0
    BY DEF Init, Depth
  <2>2. QED
    BY <2>1, NoHomes DEF ParamInv
<1>2. FrameInv /\ ParamInv /\ [Next]_vars => ParamInv'
  <2> SUFFICES ASSUME FrameInv, ParamInv, [Next]_vars PROVE ParamInv'
    OBVIOUS
  <2>1. ASSUME homes' = <<>> PROVE ParamsArrive'
    <3>1. DOMAIN homes' = {}
      BY <2>1
    <3>2. QED
      BY <3>1 DEF ParamsArrive
  <2>2. CASE UNCHANGED vars
    BY <2>2 DEF vars, ParamInv, PassedBy, ParamsArrive, Depth
  <2>3. ASSUME NEW c \in CallSites, CallTo(c[1], c[2]) PROVE ParamInv'
    <3>1. homes' = <<>> /\ phase' = "entry" /\ Depth' > 0
      BY <2>3 DEF CallTo, FrameInv, FrameTypes, Depth
    <3>2. PassedBy(c)'
      BY <2>3, SitePasses
    <3>3. QED
      BY <2>1, <3>1, <3>2 DEF ParamInv
  <2>4. CASE Cleanup
    <3>1. homes' = <<>> /\ phase' = "body"
      BY <2>4 DEF Cleanup, ParamInv
    <3>2. QED
      BY <2>1, <3>1 DEF ParamInv
  <2>5. CASE Prologue
    <3>1. phase' = "body"
      BY <2>5 DEF Prologue
    <3>2. QED
      BY <2>5, <3>1, PrologueDelivers DEF ParamInv
  <2>6. ASSUME phase = "body", phase' = phase, homes' = homes, before' = before
        PROVE  ParamInv'
    BY <2>6 DEF ParamInv, ParamsArrive
  <2>7. ASSUME NEW r \in Regs, ComputeReg(r) PROVE ParamInv'
    BY <2>6, <2>7 DEF ComputeReg
  <2>8. ASSUME NEW k \in 0 .. 1, ComputeSlot(k) PROVE ParamInv'
    BY <2>6, <2>8 DEF ComputeSlot
  <2>9. CASE Epilogue
    <3>1. homes' = <<>> /\ phase' = "back"
      BY <2>9 DEF Epilogue
    <3>2. QED
      BY <2>1, <3>1 DEF ParamInv
  <2>10. QED
    BY <2>2, <2>3, <2>4, <2>5, <2>7, <2>8, <2>9 DEF Next
<1>3. ParamInv => ParamsArrive
  BY DEF ParamInv
<1>4. QED
  BY <1>1, <1>2, <1>3, FrameInvariant, PTL DEF Spec
=============================================================================
