----------------------------- MODULE MCRegAlloc -----------------------------
(***************************************************************************)
(* RegAlloc on families of small functions over v0 .. v4.  v0 is the       *)
(* receiver of an instance method and unused padding otherwise, as the     *)
(* prologue takes it.  The functions of WellFormed read only vregs that    *)
(* some path wrote and keep within what InScope asks of parameters, thrown *)
(* values, integers read and variables assigned in a try block; what goes  *)
(* wrong outside is the subject of the families after it.                  *)
(***************************************************************************)
EXTENDS RegAlloc

TwoRegisters == 2
WholePool    == 5
FiveVregs    == 5
Positions    == 16

Function(recv, arity, blocks) == [receiver |-> recv, arity |-> arity, blocks |-> blocks]

Rethrow == Term("Rethrow", Nobody, <<>>)

Moves == {Op(d, {a}) : d \in 1 .. 3, a \in 1 .. 3}
Steps == Moves \cup {Op(3, {}), Call(3, {1}), Call(1, {2, 3}), Effect({1, 2})}

(* A loop whose body reads what the last trip or the entry left.           *)
Loops ==
  {Function(FALSE, 0,
     << Block(<<Op(1, {}), Op(2, {})>>, Jump(2)),
        Block(<<x, y>>, Branch(c, 2, 3)),
        Block(<<Op(3, {1})>>, Ret(v)) >>)
   : x \in Steps, y \in Steps, c \in 1 .. 3, v \in {2, 3}}

(* The same loop laid out with its test after its body.                    *)
TestLast ==
  {Function(FALSE, 0,
     << Block(<<Op(1, {}), Op(2, {})>>, Jump(3)),
        Block(<<x, y>>, Jump(3)),
        Block(<<>>, Branch(c, 2, 4)),
        Block(<<Effect({2})>>, Ret(v)) >>)
   : x \in Steps, y \in Moves, c \in 1 .. 2, v \in {1, 3}}

(* An instance method with two parameters and two arms.                    *)
Arms ==
  {Function(TRUE, 2,
     << Block(<<Op(3, {0})>>, Branch(3, 2, 3)),
        Block(<<x>>, Jump(4)),
        Block(<<y>>, Jump(4)),
        Block(<<Op(3, {1, 2}), Op(1, {0})>>, Ret(v)) >>)
   : x \in Steps, y \in Moves, v \in {1, 3}}

(* A try block, laid out before or after its catch block: it ends          *)
(* normally, rethrows after leaving the handler, or rethrows to it.  The   *)
(* catch reads only values the body does not write.                        *)
TryBodies ==
  {Block(<<x>> \o tail[1], tail[2])
   : x \in {Op(3, {}), Call(3, {1}), Op(3, {2})},
     tail \in {<<<<Call(3, {1}), Pop>>, Jump(4)>>,
               <<<<Pop>>, Rethrow>>, <<<<Call(3, {1})>>, Rethrow>>}}
Tries ==
  UNION {{Function(FALSE, 0,
     << Block(<<Op(1, {}), Enter(2)>>, Branch(2, 3, 2)),
        body,
        Block(<<y, Op(3, {1})>>, Jump(4)),
        Block(<<>>, Ret(3)) >>),
    Function(FALSE, 0,
     << Block(<<Op(1, {}), Enter(2)>>, Branch(2, 2, 3)),
        Block(<<y, Op(3, {1})>>, Jump(4)),
        body,
        Block(<<>>, Ret(3)) >>)}
   : body \in TryBodies, y \in {Effect({2}), Op(2, {1}), Op(3, {1})}}

(* A try block in a try block, the outer catch laid out before or after    *)
(* them.  The inner body is left by a pop, and what follows it in the outer*)
(* body may throw; or it throws to the inner catch, which throws again or  *)
(* goes on in the outer body: every landing at the outer handler comes     *)
(* after the inner one is gone.                                            *)
NestedTries ==
  UNION {{Function(FALSE, 0,
     << Block(<<Op(1, {}), Enter(2)>>, Branch(2, 5, 2)),
        Block(<<x, Enter(3)>>, Branch(3, 4, 3)),
        Block(<<Call(4, {1}), Pop, Call(4, {1}), Pop>>, Jump(5)),
        Block(<<Op(3, {1})>> \o last[1], last[2]),
        Block(<<y>>, Ret(1)) >>),
    Function(FALSE, 0,
     << Block(<<Op(1, {}), Enter(2)>>, Branch(2, 2, 3)),
        Block(<<y>>, Ret(1)),
        Block(<<x, Enter(3)>>, Branch(3, 4, 5)),
        Block(<<Op(3, {1})>> \o last[1], IF last[2] = Rethrow THEN Rethrow ELSE Jump(2)),
        Block(<<Call(4, {1}), Pop, Call(4, {1}), Pop>>, Jump(2)) >>)}
   : x \in {Op(4, {}), Op(3, {1})}, y \in {Effect({1}), Op(3, {2}), Op(1, {1})},
     last \in {<<<<Call(4, {1}), Pop>>, Jump(5)>>, <<<<>>, Rethrow>>}}

(* A variable that lives in a slot, assigned under one handler or under two*)
(* and read where the throw lands.                                         *)
KeptInSlots ==
  {Function(FALSE, 0,
     << Block(<<Op(1, {}), Enter(2)>>, Branch(2, 3, 2)),
        Block(<<Op(3, {}), Op(4, {}), Effect({3, 4}), Op(1, {1}), Call(3, {1})>>, last),
        Block(<<Effect({1})>>, Ret(1)) >>)
   : last \in {Rethrow, Jump(3)}}
  \cup
  {Function(FALSE, 0,
     << Block(<<Op(1, {}), Enter(2)>>, Branch(2, 4, 2)),
        Block(<<Op(3, {}), Op(4, {}), Effect({3, 4}), Enter(3)>>, Branch(3, 5, 3)),
        Block(<<Op(1, {1}), Call(3, {1})>>, last),
        Block(<<Effect({1})>>, Ret(1)),
        Block(<<x>>, Rethrow) >>)
   : x \in {Op(1, {1}), Effect({1})}, last \in {Rethrow, Jump(4)}}

(* A static method whose parameters, v1 and v2, are read before they are   *)
(* assigned, or not at all.                                                *)
StaticMethods ==
  {Function(FALSE, 2,
     << Block(<<x, Op(3, {2}), Op(2, {3})>>, Branch(3, 2, 3)),
        Block(<<y>>, Jump(3)),
        Block(<<Effect({1})>>, Ret(v)) >>)
   : x \in {Op(4, {1}), Effect({1, 2}), Op(4, {})}, y \in Steps, v \in {2, 3}}
  \cup
  {Function(FALSE, 2, << Block(<<Op(3, {1}), Op(4, {3}), Effect({1, 3, 4})>>, Ret(4)) >>)}

(* A value thrown as soon as it is there, out of the function or to the    *)
(* handler of the try block it is in.                                      *)
ThrowsAtOnce ==
  {Function(FALSE, 0, << Block(<<Op(1, {}), Op(2, {1}), x>>, Unwind(3)) >>)
   : x \in {Call(3, {1, 2}), Op(3, {1})}}
  \cup
  {Function(FALSE, 0,
     << Block(<<Op(1, {}), Enter(2)>>, Branch(2, 3, 2)),
        Block(<<Op(3, {1}), Call(4, {1, 3})>>, Unwind(v)),
        Block(<<Op(3, {1})>>, Ret(1)) >>)
   : v \in {1, 3, 4}}

WellFormed == Loops \cup TestLast \cup Arms \cup Tries \cup NestedTries
                \cup KeptInSlots \cup StaticMethods \cup ThrowsAtOnce

(* A static method that assigns its last parameter before reading it.      *)
StaticParams ==
  {Function(FALSE, 2,
     << Block(<<Effect({1}), Op(3, {}), Op(2, {3}), Effect({2, 3})>>, Ret(2)) >>)}

(* A value built, kept while others are computed, and thrown.              *)
Throws ==
  {Function(FALSE, 0,
     << Block(<<Op(1, {}), x, Op(3, {2}), Op(2, {3})>>, Unwind(1)) >>)
   : x \in {Op(2, {}), Op(2, {1})}}

(* An integer read from stdin and not used.                                *)
Discards ==
  {Function(FALSE, 0,
     << Block(<<Op(1, {}), Op(2, {1}), ScanInt(d), Effect({1, 2})>>, Ret(1)) >>)
   : d \in {0, 3}}

(* A variable assigned in the try body and read after the catch.           *)
Reassigns ==
  {Function(FALSE, 0,
     << Block(<<Op(1, {}), Enter(2)>>, Branch(2, 3, 2)),
        Block(<<Op(1, {}), Call(3, {1}), Pop>>, Jump(3)),
        Block(<<>>, Ret(1)) >>)}
=============================================================================
