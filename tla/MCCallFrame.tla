---------------------------- MODULE MCCallFrame -----------------------------
(***************************************************************************)
(* CallFrame with two pool registers.  The callees have as many parameters *)
(* as travel in registers, one fewer and two more; they use no register,   *)
(* one or both, and no slot or two.                                        *)
(***************************************************************************)
EXTENDS CallFrame

TwoRegs == {3, 12}

Fn(receiver, arity, spills, savers) ==
  [receiver |-> receiver, arity |-> arity, spills |-> spills, savers |-> savers]

Program ==
  << Fn(FALSE, 0, 1, <<3, 12>>),   (* 1: @start                            *)
     Fn(FALSE, 8, 2, <<3>>),       (* 2: static, two parameters on stack   *)
     Fn(TRUE, 5, 0, <<3, 12>>),    (* 3: instance, all in registers        *)
     Fn(TRUE, 7, 1, <<12>>),       (* 4: instance, two on the stack        *)
     Fn(FALSE, 6, 0, <<>>),        (* 5: static, all in registers          *)
     Fn(TRUE, 6, 0, <<3>>),        (* 6: instance, one on the stack        *)
     Fn(FALSE, 7, 0, <<3>>) >>     (* 7: static, one on the stack          *)

(* CallVirt and CallStatic of an instance method with up to five arguments,*)
(* imports with up to six, direct calls with any number.                   *)
Balanced ==
  {<<"Fn", 2>>, <<"Fn", 4>>, <<"Fn", 5>>, <<"Virt", 3>>, <<"Static", 3>>, <<"Import", 3>>}

VirtualSix  == {<<"Virt", 6>>, <<"Fn", 5>>}
ImportSeven == {<<"Import", 7>>, <<"Fn", 5>>}
Nested      == {<<"Fn", 5>>}
=============================================================================
