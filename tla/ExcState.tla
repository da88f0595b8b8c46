------------------------------ MODULE ExcState ------------------------------
(***************************************************************************)
(* The exception helpers of src/x86/runtime.rs (EXC_ENTER, EXC_POP,        *)
(* EXC_LOAD, EXC_CLEAR, EXC_THROW, EXC_RETHROW) on the state block that    *)
(* `lower` of src/x86/encode_x64.rs appends to the data of every program   *)
(* with exceptions: executable and shared libraries have one each.         *)
(*                                                                         *)
(* A jump buffer is abstracted to what its rsp and rbp say (`height`, the  *)
(* frame it returns to) and what its return address says (`site`, the      *)
(* HandlerEnter after which it goes on); RegAlloc has the registers.  The  *)
(* program calls, returns, enters and leaves try blocks well nested, and a *)
(* function leaves its try blocks before it returns; `open` records what   *)
(* it has entered and not left.                                            *)
(***************************************************************************)
EXTENDS Integers, Sequences

CONSTANTS
  Modules,      (* Executable and libraries.                               *)
  Sites,        (* HandlerEnter instructions.                              *)
  Exceptions,
  None,         (* The null pointer.                                       *)
  MaxHandlers,  (* EXC_MAX_HANDLERS: the buffers of a block.               *)
  MaxNest,      (* BOUND: try blocks open at once.                         *)
  MaxFrames     (* BOUND: frames on the stack.                             *)

ASSUME NoneAssumption == None \notin Exceptions
ASSUME BoundsAssumption ==
  MaxHandlers \in Nat \ {0} /\ MaxNest \in Nat /\ MaxFrames \in Nat

VARIABLES
  inflight,     (* module -> the word at +0.                               *)
  depth,        (* module -> the word at +8.                               *)
  buf,          (* module -> jump buffer 1 .. MaxNest; those from          *)
                (* MaxHandlers + 1 on lie past the block.                  *)
  stack,        (* The frames, outermost first: whose code each runs.      *)
  mode,         (* "run", at a landing pad ("catch"), or "exited".         *)
  at,           (* The site of the last landing.                           *)
  open          (* History: the try blocks entered and not left.           *)

blockVars == <<inflight, depth, buf>>
vars      == <<blockVars, stack, mode, at, open>>

JmpBuf == [height : Nat, site : Sites]

Here == stack[Len(stack)]

Init ==
  /\ inflight = [m \in Modules |-> None]
  /\ depth = [m \in Modules |-> 0]
  /\ buf \in [Modules -> [1 .. MaxNest -> [height : {0}, site : Sites]]]
  /\ \E m \in Modules : stack = <<m>>
  /\ mode = "run"
  /\ at \in Sites
  /\ open = <<>>

-----------------------------------------------------------------------------

Call(m) ==
  /\ mode = "run" /\ Len(stack) < MaxFrames
  /\ stack' = Append(stack, m)
  /\ UNCHANGED <<blockVars, mode, at, open>>

Return ==
  /\ mode = "run" /\ Len(stack) > 1
  /\ \A i \in DOMAIN open : open[i].height # Len(stack)
  /\ stack' = SubSeq(stack, 1, Len(stack) - 1)
  /\ UNCHANGED <<blockVars, mode, at, open>>

(* EXC_ENTER fills the buffer at depth and increments depth; it does not   *)
(* look whether the block has that buffer.                                 *)
NewBufMut(m) == depth[m]
NewBuf(m)    == depth[m] + 1

HandlerEnter(s) ==
  /\ mode = "run" /\ Len(open) < MaxNest
  /\ LET h == [height |-> Len(stack), site |-> s]
     IN  /\ buf' = [buf EXCEPT ![Here] = [@ EXCEPT ![NewBuf(Here)] = h]]
         /\ open' = Append(open, h)
  /\ depth' = [depth EXCEPT ![Here] = @ + 1]
  /\ UNCHANGED <<inflight, stack, mode, at>>

(* EXC_POP.                                                                *)
PoppedMut(m) == depth[m]
Popped(m)    == depth[m] - 1

HandlerPop ==
  /\ mode = "run" /\ open # <<>>
  /\ open[Len(open)].height = Len(stack)
  /\ depth' = [depth EXCEPT ![Here] = Popped(Here)]
  /\ open' = SubSeq(open, 1, Len(open) - 1)
  /\ UNCHANGED <<inflight, buf, stack, mode, at>>

(* The longjmp to the topmost buffer of m's block.                         *)
LandMut(m) ==
  /\ depth' = [depth EXCEPT ![m] = Popped(m)]
  /\ stack' = SubSeq(stack, 1, buf[m][depth[m]].height - 1)
  /\ at' = buf[m][depth[m]].site
  /\ mode' = "catch"
  /\ open' = SubSeq(open, 1, Len(open) - 1)
  /\ UNCHANGED buf

Land(m) ==
  /\ depth' = [depth EXCEPT ![m] = Popped(m)]
  /\ stack' = SubSeq(stack, 1, buf[m][depth[m]].height)
  /\ at' = buf[m][depth[m]].site
  /\ mode' = "catch"
  /\ open' = SubSeq(open, 1, Len(open) - 1)
  /\ UNCHANGED buf

Exit == mode' = "exited" /\ UNCHANGED <<depth, buf, stack, at, open>>

(* EXC_THROW: with no handler, or more than the block holds, the process   *)
(* exits.                                                                  *)
CanLandMut(m) == depth[m] < MaxHandlers /\ depth[m] # 0
CanLand(m)    == depth[m] <= MaxHandlers /\ depth[m] # 0

Throw(e) ==
  /\ mode = "run"
  /\ inflight' = [inflight EXCEPT ![Here] = e]
  /\ \/ CanLand(Here) /\ Land(Here)
     \/ ~CanLand(Here) /\ Exit

(* EXC_RETHROW at a landing pad that does not handle what it got: only a   *)
(* depth of 0 is told apart.                                               *)
Rethrow ==
  /\ mode = "catch"
  /\ \/ depth[Here] # 0 /\ Land(Here)
     \/ depth[Here] = 0 /\ Exit
  /\ UNCHANGED inflight

(* EXC_LOAD and EXC_CLEAR at a landing pad that handles it.                *)
LoadAndClear ==
  /\ mode = "catch"
  /\ inflight' = [inflight EXCEPT ![Here] = None]
  /\ mode' = "run"
  /\ UNCHANGED <<depth, buf, stack, at, open>>

Next ==
  \/ \E m \in Modules : Call(m)
  \/ Return
  \/ \E s \in Sites : HandlerEnter(s)
  \/ HandlerPop
  \/ \E e \in Exceptions : Throw(e)
  \/ Rethrow
  \/ LoadAndClear

Spec == Init /\ [][Next]_vars

-----------------------------------------------------------------------------
(* Properties.                                                             *)

TypeOK ==
  /\ inflight \in [Modules -> Exceptions \cup {None}]
  /\ depth \in [Modules -> 0 .. MaxNest]
  /\ buf \in [Modules -> [1 .. MaxNest -> JmpBuf]]
  /\ stack \in Seq(Modules) /\ stack # <<>>
  /\ mode \in {"run", "catch", "exited"}
  /\ at \in Sites
  /\ open \in Seq(JmpBuf) /\ Len(open) <= MaxNest

(* A buffer below depth returns to a frame that is still on the stack:     *)
(* rsp and rbp are never restored to a frame that has gone.                *)
BuffersLive ==
  \A m \in Modules : \A i \in 1 .. depth[m] :
    buf[m][i].height \in 1 .. Len(stack) /\ stack[buf[m][i].height] = m

(* The block's buffers up to depth are the try blocks open, in order,      *)
(* whatever throws and rethrows left behind above depth.                   *)
BlockMirrorsOpen ==
  \A m \in Modules :
    /\ depth[m] = Len(open)
    /\ \A i \in 1 .. depth[m] : buf[m][i] = open[i]

(* Frames are left from the top: no try block belongs to a frame above a   *)
(* later one's.                                                            *)
Nested ==
  /\ \A i \in 1 .. Len(open) : open[i].height \in 1 .. Len(stack)
  /\ \A i, j \in 1 .. Len(open) : i <= j => open[i].height <= open[j].height

(* The invariant the refinement rests on.                                  *)
BlockInv == TypeOK /\ BlockMirrorsOpen /\ Nested

(* The program sees try and catch: a throw ends the calls since the        *)
(* innermost open try block and lands there with its exception, or ends    *)
(* the process if there is none.                                           *)
Abstract == INSTANCE TryStack WITH exc <- inflight[Here]

IsTryStack == Abstract!Spec

(* runtime.rs:234-235: the throw "longjmps back to the innermost handler;  *)
(* if none is active it calls exit_group(1)".  The process is ended by a   *)
(* throw only when no try block is open.                                   *)
ExitsOnlyWithoutHandlers == [][mode' = "exited" /\ mode # "exited" => open = <<>>]_vars

(* The same sentence, of where the throw lands.                            *)
LandsInnermost ==
  [][mode' = "catch" =>
       /\ open # <<>>
       /\ at' = open[Len(open)].site
       /\ stack' = SubSeq(stack, 1, open[Len(open)].height)]_vars
=============================================================================
