--------------------------- MODULE ExcStateProofs ---------------------------
(***************************************************************************)
(* What the exception helpers keep, and that they implement TryStack, for  *)
(* a program of one module whose try blocks nest no deeper than the block  *)
(* has buffers: any number of frames, sites and exceptions.                *)
(***************************************************************************)
EXTENDS ExcState, TLAPS

(* The two conditions: no library has a state block of its own, and no try *)
(* block is entered beyond EXC_MAX_HANDLERS.                               *)
Fits(m) == Modules = {m} /\ MaxNest <= MaxHandlers

(* What a prefix of a sequence is.                                         *)
LEMMA Prefix ==
  ASSUME NEW S, NEW s \in Seq(S), NEW n \in 0 .. Len(s)
  PROVE  /\ SubSeq(s, 1, n) \in Seq(S)
         /\ Len(SubSeq(s, 1, n)) = n
         /\ \A i \in 1 .. n : SubSeq(s, 1, n)[i] = s[i]
  OBVIOUS

(* What a sequence with one element more is.                               *)
LEMMA Longer ==
  ASSUME NEW S, NEW s \in Seq(S), NEW e \in S
  PROVE  /\ Append(s, e) \in Seq(S)
         /\ Len(Append(s, e)) = Len(s) + 1
         /\ \A i \in 1 .. Len(s) : Append(s, e)[i] = s[i]
         /\ Append(s, e)[Len(s) + 1] = e
  OBVIOUS

(* In a program of one module every frame runs that module's code.         *)
LEMMA HereIsM ==
  ASSUME NEW m, Fits(m), TypeOK
  PROVE  Here = m /\ Len(stack) \in Nat \ {0} /\ m \in Modules
  BY DEF Fits, TypeOK, Here

LEMMA InitBlockInv ==
  ASSUME NEW m, Fits(m), Init
  PROVE  BlockInv
  <1>1. PICK k \in Modules : stack = <<k>>
    BY DEF Init
  <1>2. TypeOK
    BY <1>1, BoundsAssumption DEF Init, TypeOK, JmpBuf
  <1>3. BlockMirrorsOpen /\ Nested
    BY DEF Init, BlockMirrorsOpen, Nested
  <1>4. QED
    BY <1>2, <1>3 DEF BlockInv

-----------------------------------------------------------------------------
(* One lemma per action: the invariant is kept, and the step is TryStack's.*)

LEMMA CallStep ==
  ASSUME NEW m, Fits(m), BlockInv, NEW k \in Modules, Call(k)
  PROVE  BlockInv' /\ Abstract!Call(k) 
  <1> USE DEF BlockInv
  <1>1. Here = m /\ Len(stack) \in Nat \ {0} /\ m \in Modules /\ k = m
    BY HereIsM DEF Fits
  <1>2. /\ stack' \in Seq(Modules)
        /\ Len(stack') = Len(stack) + 1
        /\ stack'[Len(stack')] = k
    BY Longer DEF Call, TypeOK
  <1>3. TypeOK'
    BY <1>1, <1>2 DEF TypeOK, Call, blockVars
  <1>4. BlockMirrorsOpen'
    BY DEF BlockMirrorsOpen, Call, blockVars
  <1>5. Nested'
    BY <1>1, <1>2 DEF Nested, Call, TypeOK, JmpBuf
  <1>6. Here' = Here
    BY <1>1, <1>2 DEF Here
  <1>7. Abstract!Call(k)
    BY <1>6 DEF Call, Abstract!Call, blockVars
  <1>8. QED
    BY <1>3, <1>4, <1>5, <1>7

LEMMA ReturnStep ==
  ASSUME NEW m, Fits(m), BlockInv, Return
  PROVE  BlockInv' /\ Abstract!Return
  <1> USE DEF BlockInv
  <1>1. Here = m /\ Len(stack) \in Nat \ {0} /\ m \in Modules
    BY HereIsM
  <1>2. /\ stack' \in Seq(Modules)
        /\ Len(stack') = Len(stack) - 1
        /\ Len(stack') \in Nat \ {0}
    BY <1>1, Prefix DEF Return, TypeOK
  <1>3. TypeOK'
    BY <1>2 DEF TypeOK, Return, blockVars
  <1>4. BlockMirrorsOpen'
    BY DEF BlockMirrorsOpen, Return, blockVars
  <1>5. Nested'
    <2>1. \A i \in 1 .. Len(open) : open[i].height \in 1 .. Len(stack) - 1
      BY <1>1 DEF Nested, Return, TypeOK, JmpBuf
    <2>2. QED
      BY <1>2, <2>1 DEF Nested, Return
  <1>6. Here' = Here
    BY <1>1, <1>2, <1>3, HereIsM DEF Here, Fits, TypeOK
  <1>7. Abstract!Return
    BY <1>6 DEF Return, Abstract!Return, blockVars
  <1>8. QED
    BY <1>3, <1>4, <1>5, <1>7

LEMMA EnterStep ==
  ASSUME NEW m, Fits(m), BlockInv, NEW s \in Sites, HandlerEnter(s)
  PROVE  BlockInv' /\ Abstract!Enter(s)
  <1> USE DEF BlockInv
  <1> DEFINE h == [height |-> Len(stack), site |-> s]
             n == Len(open)
  <1>1. Here = m /\ Len(stack) \in Nat \ {0} /\ m \in Modules
    BY HereIsM
  <1>2. h \in JmpBuf /\ n \in Nat /\ n + 1 \in 1 .. MaxNest
    BY <1>1, BoundsAssumption DEF HandlerEnter, JmpBuf, TypeOK
  <1>3. /\ open' \in Seq(JmpBuf)
        /\ Len(open') = n + 1
        /\ \A i \in 1 .. n : open'[i] = open[i]
        /\ open'[n + 1] = h
    BY <1>2, Longer DEF HandlerEnter, TypeOK
  <1>4. depth[m] = n
    BY <1>1 DEF BlockMirrorsOpen
  <1>5. /\ depth' = [depth EXCEPT ![m] = n + 1]
        /\ buf' = [buf EXCEPT ![m] = [buf[m] EXCEPT ![n + 1] = h]]
        /\ UNCHANGED <<inflight, stack, mode, at>>
    BY <1>1, <1>4 DEF HandlerEnter, NewBuf
  <1>6. TypeOK'
    BY <1>1, <1>2, <1>3, <1>5 DEF TypeOK
  <1>7. BlockMirrorsOpen'
    <2>1. depth'[m] = n + 1 /\ buf'[m] = [buf[m] EXCEPT ![n + 1] = h]
      BY <1>1, <1>5 DEF TypeOK
    <2>2. \A i \in 1 .. n + 1 : buf'[m][i] = open'[i]
      <3> SUFFICES ASSUME NEW i \in 1 .. n + 1
                   PROVE  buf'[m][i] = open'[i]
        OBVIOUS
      <3> HIDE DEF h, n
      <3>1. buf[m] \in [1 .. MaxNest -> JmpBuf] /\ i \in 1 .. MaxNest
        BY <1>1, <1>2, BoundsAssumption DEF TypeOK
      <3>2. CASE i = n + 1
        BY <1>3, <2>1, <3>1, <3>2
      <3>3. CASE i # n + 1
        <4>1. i \in 1 .. n /\ i \in 1 .. depth[m]
          BY <1>2, <1>4, <3>3
        <4>2. buf'[m][i] = buf[m][i] /\ open'[i] = open[i]
          BY <1>3, <2>1, <3>1, <3>3, <4>1
        <4>3. buf[m][i] = open[i]
          BY <1>1, <4>1 DEF BlockMirrorsOpen
        <4>4. QED
          BY <4>2, <4>3
      <3>4. QED
        BY <3>2, <3>3
    <2>3. QED
      BY <1>3, <2>1, <2>2 DEF BlockMirrorsOpen, Fits
  <1>8. Nested'
    <2>1. open'[n + 1].height = Len(stack) /\ stack' = stack
      BY <1>3, <1>5
    <2> HIDE DEF h, n
    <2>2. \A i \in 1 .. n : open'[i].height \in 1 .. Len(stack)
      BY <1>3 DEF Nested, n
    <2>3. \A i \in 1 .. n + 1 : open'[i].height \in 1 .. Len(stack)
      BY <1>1, <1>2, <2>1, <2>2
    <2>4. \A i, j \in 1 .. n + 1 : i <= j => open'[i].height <= open'[j].height
      <3> SUFFICES ASSUME NEW i \in 1 .. n + 1, NEW j \in 1 .. n + 1, i <= j
                   PROVE  open'[i].height <= open'[j].height
        OBVIOUS
      <3>1. CASE j = n + 1
        BY <1>1, <2>1, <2>3, <3>1
      <3>2. CASE j # n + 1
        <4>1. i \in 1 .. n /\ j \in 1 .. n
          BY <1>2, <3>2
        <4>2. open[i].height <= open[j].height
          BY <4>1 DEF Nested, n
        <4>3. QED
          BY <1>3, <4>1, <4>2
      <3>3. QED
        BY <3>1, <3>2
    <2>5. QED
      BY <1>3, <2>1, <2>3, <2>4 DEF Nested
  <1>9. Abstract!Enter(s)
    BY <1>5 DEF HandlerEnter, Abstract!Enter, Here
  <1>10. QED
    BY <1>6, <1>7, <1>8, <1>9

(* Leaving the innermost try block, by a pop or by a landing.              *)
LEMMA Shorter ==
  ASSUME NEW m, Fits(m), BlockInv, open # <<>>,
         depth' = [depth EXCEPT ![m] = Popped(m)],
         open' = SubSeq(open, 1, Len(open) - 1),
         buf' = buf,
         stack' \in Seq(Modules), Len(stack') >= open[Len(open)].height
  PROVE  /\ depth' \in [Modules -> 0 .. MaxNest]
         /\ open' \in Seq(JmpBuf) /\ Len(open') <= MaxNest
         /\ BlockMirrorsOpen'
         /\ Nested'
  <1> USE DEF BlockInv
  <1> DEFINE n == Len(open)
  <1>1. m \in Modules /\ Modules = {m}
    BY DEF Fits
  <1>2. /\ open' \in Seq(JmpBuf)
        /\ Len(open') = n - 1
        /\ n \in Nat \ {0}
        /\ \A i \in 1 .. n - 1 : open'[i] = open[i]
    <2>1. open \in Seq(JmpBuf) /\ n \in Nat \ {0} /\ n - 1 \in 0 .. n
      BY DEF TypeOK
    <2>2. QED
      BY <2>1, Prefix
  <1>3. depth[m] = n /\ depth'[m] = n - 1 /\ n <= MaxNest
    BY <1>1 DEF BlockMirrorsOpen, Popped, TypeOK
  <1>4. depth' \in [Modules -> 0 .. MaxNest]
    BY <1>1, <1>2, <1>3, BoundsAssumption DEF TypeOK, Popped
  <1>5. BlockMirrorsOpen'
    BY <1>1, <1>2, <1>3 DEF BlockMirrorsOpen
  <1>6. Nested'
    <2>1. ASSUME NEW i \in 1 .. n - 1
          PROVE  open'[i].height \in 1 .. Len(stack')
      <3>1. i \in DOMAIN open /\ n \in DOMAIN open /\ i <= n
        BY <1>2
      <3>2. /\ open[i].height \in 1 .. Len(stack) /\ open[n].height \in 1 .. Len(stack)
            /\ open[i].height <= open[n].height
        <4> HIDE DEF n
        <4>1. QED
          BY <3>1 DEF Nested
      <3>3. Len(stack') \in Nat /\ Len(stack') >= open[n].height
        OBVIOUS
      <3> HIDE DEF n
      <3>4. QED
        BY <1>2, <3>2, <3>3
    <2>2. ASSUME NEW i \in 1 .. n - 1, NEW j \in 1 .. n - 1, i <= j
          PROVE  open'[i].height <= open'[j].height
      <3>1. open'[i] = open[i] /\ open'[j] = open[j]
        BY <1>2
      <3>2. i \in 1 .. Len(open) /\ j \in 1 .. Len(open)
        BY <1>2
      <3>3. open[i].height <= open[j].height
        BY <2>2, <3>2 DEF Nested
      <3>4. QED
        BY <3>1, <3>3
    <2>3. QED
      BY <1>2, <2>1, <2>2 DEF Nested
  <1>7. QED
    BY <1>2, <1>3, <1>4, <1>5, <1>6

LEMMA PopStep ==
  ASSUME NEW m, Fits(m), BlockInv, HandlerPop
  PROVE  BlockInv' /\ Abstract!Leave
  <1> USE DEF BlockInv
  <1>1. Here = m /\ Len(stack) \in Nat \ {0} /\ m \in Modules
    BY HereIsM
  <1>2. /\ depth' \in [Modules -> 0 .. MaxNest]
        /\ open' \in Seq(JmpBuf) /\ Len(open') <= MaxNest
        /\ BlockMirrorsOpen'
        /\ Nested'
    <2>1. stack' \in Seq(Modules) /\ Len(stack') >= open[Len(open)].height
      BY <1>1 DEF HandlerPop, TypeOK
    <2>2. QED
      BY <1>1, <2>1, Shorter DEF HandlerPop
  <1>3. TypeOK'
    BY <1>2 DEF TypeOK, HandlerPop
  <1>4. Abstract!Leave
    BY DEF HandlerPop, Abstract!Leave, Here
  <1>5. QED
    BY <1>2, <1>3, <1>4

(* A landing: at the innermost open try block, whose frame is there.       *)
LEMMA LandStep ==
  ASSUME NEW m, Fits(m), BlockInv, depth[m] # 0, Land(m),
         inflight' \in [Modules -> Exceptions \cup {None}]
  PROVE  /\ BlockInv'
         /\ open # <<>>
         /\ stack' = SubSeq(stack, 1, open[Len(open)].height)
         /\ at' = open[Len(open)].site
         /\ Here' = m
  <1> USE DEF BlockInv
  <1> DEFINE n == Len(open)
  <1>1. Here = m /\ Len(stack) \in Nat \ {0} /\ m \in Modules
    BY HereIsM
  <1>2. depth[m] = n /\ n \in Nat \ {0} /\ open # <<>>
    BY <1>1 DEF BlockMirrorsOpen, TypeOK
  <1>3. buf[m][depth[m]] = open[n] /\ open[n] \in JmpBuf
    BY <1>1, <1>2 DEF BlockMirrorsOpen, TypeOK
  <1>4. open[n].height \in 1 .. Len(stack)
    BY <1>2 DEF Nested
  <1>5. stack' = SubSeq(stack, 1, open[n].height) /\ at' = open[n].site
    BY <1>3 DEF Land
  <1>6. /\ stack' \in Seq(Modules)
        /\ Len(stack') = open[n].height
        /\ stack' # <<>>
    BY <1>1, <1>4, <1>5, Prefix DEF TypeOK
  <1>7. /\ depth' \in [Modules -> 0 .. MaxNest]
        /\ open' \in Seq(JmpBuf) /\ Len(open') <= MaxNest
        /\ BlockMirrorsOpen'
        /\ Nested'
    <2>1. Len(stack') >= open[Len(open)].height
      BY <1>4, <1>6
    <2>2. QED
      BY <1>2, <1>6, <2>1, Shorter DEF Land
  <1>8. at' \in Sites
    BY <1>3, <1>5 DEF JmpBuf
  <1>9. TypeOK'
    BY <1>6, <1>7, <1>8 DEF TypeOK, Land
  <1>10. Here' = m
    BY <1>4, <1>6 DEF Here, Fits
  <1>11. QED
    BY <1>2, <1>5, <1>7, <1>9, <1>10

LEMMA ThrowStep ==
  ASSUME NEW m, Fits(m), BlockInv, NEW e \in Exceptions, Throw(e)
  PROVE  BlockInv' /\ Abstract!Throw(e)
  <1> USE DEF BlockInv
  <1>1. Here = m /\ m \in Modules
    BY HereIsM
  <1>2. inflight' \in [Modules -> Exceptions \cup {None}] /\ inflight'[m] = e
    BY <1>1 DEF Throw, TypeOK
  <1>3. CASE depth[m] # 0
    <2>1. CanLand(m)
      BY <1>1, <1>3, BoundsAssumption DEF CanLand, Fits, TypeOK
    <2>2. Land(m)
      BY <1>1, <2>1 DEF Throw
    <2>3. /\ BlockInv'
          /\ open # <<>>
          /\ stack' = SubSeq(stack, 1, open[Len(open)].height)
          /\ at' = open[Len(open)].site
          /\ Here' = m
      BY <1>2, <1>3, <2>2, LandStep
    <2>4. Abstract!Throw(e)
      BY <1>2, <2>2, <2>3 DEF Throw, Land, Abstract!Throw, Abstract!Unwind
    <2>5. QED
      BY <2>3, <2>4
  <1>4. CASE depth[m] = 0
    <2>1. Exit
      BY <1>1, <1>4 DEF Throw, CanLand
    <2>2. open = <<>>
      BY <1>1, <1>4 DEF BlockMirrorsOpen, TypeOK
    <2>3. Here' = m
      BY <1>1, <2>1 DEF Exit, Here
    <2>4. BlockInv'
      BY <1>2, <2>1 DEF Exit, TypeOK, BlockMirrorsOpen, Nested
    <2>5. Abstract!Throw(e)
      BY <1>2, <2>1, <2>2, <2>3 DEF Throw, Exit, Abstract!Throw, Abstract!Unwind
    <2>6. QED
      BY <2>4, <2>5
  <1>5. QED
    BY <1>3, <1>4

LEMMA RethrowStep ==
  ASSUME NEW m, Fits(m), BlockInv, Rethrow
  PROVE  BlockInv' /\ Abstract!Rethrow
  <1> USE DEF BlockInv
  <1>1. Here = m /\ m \in Modules
    BY HereIsM
  <1>2. inflight' \in [Modules -> Exceptions \cup {None}] /\ inflight' = inflight
    BY <1>1 DEF Rethrow, TypeOK
  <1>3. CASE depth[m] # 0
    <2>1. Land(m)
      BY <1>1, <1>3 DEF Rethrow
    <2>2. /\ BlockInv'
          /\ open # <<>>
          /\ stack' = SubSeq(stack, 1, open[Len(open)].height)
          /\ at' = open[Len(open)].site
          /\ Here' = m
      BY <1>2, <1>3, <2>1, LandStep
    <2>3. Abstract!Rethrow
      BY <1>1, <1>2, <2>1, <2>2 DEF Rethrow, Land, Abstract!Rethrow, Abstract!Unwind
    <2>4. QED
      BY <2>2, <2>3
  <1>4. CASE depth[m] = 0
    <2>1. Exit
      BY <1>1, <1>4 DEF Rethrow
    <2>2. open = <<>>
      BY <1>1, <1>4 DEF BlockMirrorsOpen, TypeOK
    <2>3. Here' = m
      BY <1>1, <2>1 DEF Exit, Here
    <2>4. BlockInv'
      BY <1>2, <2>1 DEF Exit, TypeOK, BlockMirrorsOpen, Nested
    <2>5. Abstract!Rethrow
      BY <1>1, <1>2, <2>1, <2>2, <2>3
      DEF Rethrow, Exit, Abstract!Rethrow, Abstract!Unwind
    <2>6. QED
      BY <2>4, <2>5
  <1>5. QED
    BY <1>3, <1>4

LEMMA CatchStep ==
  ASSUME NEW m, Fits(m), BlockInv, LoadAndClear
  PROVE  BlockInv' /\ Abstract!Catch
  <1> USE DEF BlockInv
  <1>1. Here = m /\ Here' = m /\ m \in Modules
    BY HereIsM DEF LoadAndClear, Here
  <1>2. inflight' \in [Modules -> Exceptions \cup {None}] /\ inflight'[m] = None
    BY <1>1 DEF LoadAndClear, TypeOK
  <1>3. BlockInv'
    BY <1>2 DEF LoadAndClear, TypeOK, BlockMirrorsOpen, Nested
  <1>4. Abstract!Catch
    BY <1>1, <1>2 DEF LoadAndClear, Abstract!Catch
  <1>5. QED
    BY <1>3, <1>4

LEMMA EveryStep ==
  ASSUME NEW m, Fits(m), BlockInv, [Next]_vars
  PROVE  BlockInv' /\ [Abstract!Next]_(Abstract!vars)
  <1>1. CASE UNCHANGED vars
    <2>1. Here' = Here
      BY <1>1 DEF vars, Here
    <2>2. BlockInv'
      BY <1>1 DEF vars, blockVars, BlockInv, TypeOK, BlockMirrorsOpen, Nested
    <2>3. UNCHANGED Abstract!vars
      BY <1>1, <2>1 DEF vars, blockVars, Abstract!vars
    <2>4. QED
      BY <2>2, <2>3
  <1>2. ASSUME NEW k \in Modules, Call(k)
        PROVE  BlockInv' /\ Abstract!Next
    BY <1>2, CallStep DEF Abstract!Next
  <1>3. CASE Return
    BY <1>3, ReturnStep DEF Abstract!Next
  <1>4. ASSUME NEW s \in Sites, HandlerEnter(s)
        PROVE  BlockInv' /\ Abstract!Next
    BY <1>4, EnterStep DEF Abstract!Next
  <1>5. CASE HandlerPop
    BY <1>5, PopStep DEF Abstract!Next
  <1>6. ASSUME NEW e \in Exceptions, Throw(e)
        PROVE  BlockInv' /\ Abstract!Next
    BY <1>6, ThrowStep DEF Abstract!Next
  <1>7. CASE Rethrow
    BY <1>7, RethrowStep DEF Abstract!Next
  <1>8. CASE LoadAndClear
    BY <1>8, CatchStep DEF Abstract!Next
  <1>9. QED
    BY <1>1, <1>2, <1>3, <1>4, <1>5, <1>6, <1>7, <1>8 DEF Next

LEMMA InitMaps ==
  ASSUME NEW m, Fits(m), Init
  PROVE  Abstract!Init
  <1>1. PICK k \in Modules : stack = <<k>>
    BY DEF Init
  <1>2. Here = k
    BY <1>1 DEF Here
  <1>3. QED
    BY <1>1, <1>2 DEF Init, Abstract!Init

-----------------------------------------------------------------------------

(* The block mirrors the open try blocks whatever the program throws,      *)
(* rethrows and leaves: what EXC_ENTER, EXC_POP, EXC_THROW and EXC_RETHROW *)
(* do to depth and the buffers fits together.                              *)
THEOREM BlockInvariant ==
  ASSUME NEW m, Fits(m)
  PROVE  Spec => []BlockInv
  <1>1. Init => BlockInv
    BY InitBlockInv
  <1>2. BlockInv /\ [Next]_vars => BlockInv'
    BY EveryStep
  <1>3. QED
    BY <1>1, <1>2, PTL DEF Spec

(* The type invariant of the state blocks.                                 *)
THEOREM BlockTypes ==
  ASSUME NEW m, Fits(m)
  PROVE  Spec => []TypeOK
  <1>1. BlockInv => TypeOK
    BY DEF BlockInv
  <1>2. QED
    BY <1>1, BlockInvariant, PTL

(* No active jump buffer returns to a frame that has gone: a longjmp never *)
(* sets rsp and rbp to dead stack.                                         *)
THEOREM BuffersStayLive ==
  ASSUME NEW m, Fits(m)
  PROVE  Spec => []BuffersLive
  <1>1. BlockInv => BuffersLive
    <2> SUFFICES ASSUME BlockInv, NEW k \in Modules, NEW i \in 1 .. depth[k]
                 PROVE  /\ buf[k][i].height \in 1 .. Len(stack)
                        /\ stack[buf[k][i].height] = k
      BY DEF BuffersLive
    <2>1. k = m /\ depth[k] = Len(open) /\ buf[k][i] = open[i]
      BY DEF BlockInv, BlockMirrorsOpen, Fits
    <2>2. open[i].height \in 1 .. Len(stack)
      BY <2>1 DEF BlockInv, Nested
    <2>3. stack \in Seq({m})
      BY DEF BlockInv, TypeOK, Fits
    <2>4. QED
      BY <2>1, <2>2, <2>3
  <1>2. QED
    BY <1>1, BlockInvariant, PTL

(* The helpers implement try and catch.                                    *)
THEOREM ImplementsTryStack ==
  ASSUME NEW m, Fits(m)
  PROVE  Spec => IsTryStack
  <1>1. Init => Abstract!Init
    BY InitMaps
  <1>2. BlockInv /\ [Next]_vars => [Abstract!Next]_(Abstract!vars)
    BY EveryStep
  <1>3. QED
    BY <1>1, <1>2, BlockInvariant, PTL DEF Spec, IsTryStack, Abstract!Spec
=============================================================================
