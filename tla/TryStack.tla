------------------------------ MODULE TryStack ------------------------------
(***************************************************************************)
(* What try and catch promise a program: a throw ends the calls made since *)
(* the innermost try block still open was entered and goes on at its       *)
(* landing pad, with the exception thrown; with no try block open the      *)
(* process ends.                                                           *)
(***************************************************************************)
EXTENDS Integers, Sequences

CONSTANTS
  Modules,     (* Executable and libraries: whose code a frame runs.       *)
  Sites,       (* Places of HandlerEnter instructions.                     *)
  Exceptions,
  None         (* No exception.                                            *)

VARIABLES
  stack,       (* The frames, outermost first.                             *)
  open,        (* The try blocks entered and not left, outermost first.    *)
  mode,        (* "run", at a landing pad ("catch"), or "exited".          *)
  at,          (* The site of the last landing.                            *)
  exc          (* The exception a landing pad gets.                        *)

vars == <<stack, open, mode, at, exc>>

Init ==
  /\ \E m \in Modules : stack = <<m>>
  /\ open = <<>>
  /\ mode = "run"
  /\ at \in Sites
  /\ exc = None

Call(m) ==
  /\ mode = "run"
  /\ stack' = Append(stack, m)
  /\ UNCHANGED <<open, mode, at, exc>>

Return ==
  /\ mode = "run" /\ Len(stack) > 1
  /\ \A i \in DOMAIN open : open[i].height # Len(stack)
  /\ stack' = SubSeq(stack, 1, Len(stack) - 1)
  /\ UNCHANGED <<open, mode, at, exc>>

Enter(s) ==
  /\ mode = "run"
  /\ open' = Append(open, [height |-> Len(stack), site |-> s])
  /\ UNCHANGED <<stack, mode, at, exc>>

Leave ==
  /\ mode = "run" /\ open # <<>>
  /\ open[Len(open)].height = Len(stack)
  /\ open' = SubSeq(open, 1, Len(open) - 1)
  /\ UNCHANGED <<stack, mode, at, exc>>

(* The exception e goes where it is handled.                               *)
Unwind(e) ==
  /\ exc' = e
  /\ \/ /\ open = <<>>
        /\ mode' = "exited"
        /\ UNCHANGED <<stack, open, at>>
     \/ /\ open # <<>>
        /\ mode' = "catch"
        /\ stack' = SubSeq(stack, 1, open[Len(open)].height)
        /\ at' = open[Len(open)].site
        /\ open' = SubSeq(open, 1, Len(open) - 1)

Throw(e) == mode = "run" /\ Unwind(e)
Rethrow  == mode = "catch" /\ Unwind(exc)

Catch ==
  /\ mode = "catch"
  /\ mode' = "run"
  /\ exc' = None
  /\ UNCHANGED <<stack, open, at>>

Next ==
  \/ \E m \in Modules : Call(m)
  \/ Return
  \/ \E s \in Sites : Enter(s)
  \/ Leave
  \/ \E e \in Exceptions : Throw(e)
  \/ Rethrow
  \/ Catch

Spec == Init /\ [][Next]_vars
=============================================================================
