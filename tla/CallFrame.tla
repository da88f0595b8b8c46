----------------------------- MODULE CallFrame ------------------------------
(***************************************************************************)
(* Calls between functions emitted by src/x86/encode_x64.rs: where a call  *)
(* site puts arguments, what the callee's prologue reserves, saves and     *)
(* reads, and what its epilogue and the call site take off the stack.      *)
(*                                                                         *)
(* `mem` is the stack, deepest word last: Len(mem) is rsp and a push is an *)
(* Append.  `rbp` is the index of the word rbp points at, so [rbp + 8k] is *)
(* mem[rbp - k] and [rbp - 8k] is mem[rbp + k].  A word says what was      *)
(* stored there; a return address says whose code it returns to and how    *)
(* many words the code there takes off.                                    *)
(***************************************************************************)
EXTENDS Integers, Sequences, FiniteSets, SequencesExt

CONSTANTS
  Regs,       (* The pool's registers, in the order of Phys.               *)
  Fns,        (* The functions: receiver, arity, spills and savers, the    *)
              (* registers `loc` uses, sorted and each once.  Fns[1] is    *)
              (* @start.                                                   *)
  CallSites,  (* The calls that may be made: kind and callee.              *)
  MaxFrames   (* BOUND: frames on the stack.                               *)

Code == [receiver : BOOLEAN, arity : Nat, spills : Nat, savers : Seq(Regs)]

ASSUME RegsAssumption == Regs \subseteq Nat
ASSUME FnsAssumption ==
  /\ Fns \in Seq(Code)
  /\ Len(Fns) > 0
  /\ \A g \in DOMAIN Fns : \A i, j \in DOMAIN Fns[g].savers :
       Fns[g].savers[i] = Fns[g].savers[j] => i = j

VARIABLES
  mem, rbp,   (* The stack and the frame pointer.                          *)
  regs,       (* Callee-saved register -> the word it holds.               *)
  argv,       (* ARG[0..5]: argument register -> the word it holds.        *)
  cur,        (* The function whose code runs.                             *)
  phase,      (* "entry", "body", or "back" from a call.                   *)
  left,       (* The words the code after the call takes off.              *)
  homes,      (* vreg -> the parameter the prologue put there, until the   *)
              (* function calls or returns.                                *)
  before      (* History: of each call not yet returned, what the caller   *)
              (* had, [regs, rbp, fn, size] with its rsp as size, and where*)
              (* its return address is, ret.                               *)

vars == <<mem, rbp, regs, argv, cur, phase, left, homes, before>>

Word(kind, of, n) == [kind |-> kind, of |-> of, n |-> n]
Arg(i)   == Word("arg", Len(before), i)   (* Argument i of the call made   *)
                                          (* from this depth; 0: receiver. *)
NoWord   == Word("none", 0, 0)

AtLeastZero(n) == IF n < 0 THEN 0 ELSE n

Init ==
  /\ mem = <<>> /\ rbp = 0
  /\ regs = [r \in Regs |-> Word("host", 0, r)]
  /\ argv = [i \in 0 .. 5 |-> NoWord]
  /\ cur = 1 /\ phase = "entry" /\ left = 0
  /\ homes = <<>> /\ before = <<>>

-----------------------------------------------------------------------------
(* The call site.                                                          *)

(* Kinds of call: "Fn" is CallFn, CallFnAddr and CallStatic of a function  *)
(* without receiver, "Static" is CallStatic of one with, "Virt" CallVirt   *)
(* and "Import" CallImport.                                                *)
Args(kind, f) ==
  IF kind \in {"Static", "Virt"} THEN f.arity
  ELSE f.arity + (IF f.receiver THEN 1 ELSE 0)

Callable(kind, f) == kind \in {"Static", "Virt"} => f.receiver

(* Arguments that travel in registers, the receiver not counted.           *)
InRegs(kind) == IF kind \in {"Static", "Virt"} THEN 5 ELSE 6

PushedMut(kind, n) == [i \in 1 .. AtLeastZero(n - InRegs(kind)) |-> Arg(InRegs(kind) + i)]
Pushed(kind, n)    == [i \in 1 .. AtLeastZero(n - InRegs(kind)) |-> Arg(n + 1 - i)]

ArgRegs(kind, n) ==
  [i \in 0 .. 5 |->
     IF kind \in {"Static", "Virt"} THEN (IF i <= n THEN Arg(i) ELSE argv[i])
     ELSE IF i < n THEN Arg(i + 1) ELSE argv[i]]

(* cleanup_tail is given the number of arguments; CallImport does not call *)
(* it.                                                                     *)
CleanedMut(kind, n) == IF kind = "Import" THEN 0 ELSE AtLeastZero(n - 5)
Cleaned(kind, n)    == IF kind = "Import" THEN 0 ELSE AtLeastZero(n - 6)

CallTo(kind, g) ==
  LET n      == Args(kind, Fns[g])
      pushed == Pushed(kind, n)
  IN  /\ phase = "body" /\ Len(before) < MaxFrames
      /\ Callable(kind, Fns[g])
      /\ mem' = mem \o pushed \o <<Word("ret", cur, Cleaned(kind, n))>>
      /\ argv' = ArgRegs(kind, n)
      /\ before' = Append(before, [regs |-> regs, rbp |-> rbp, fn |-> cur, size |-> Len(mem),
                                   ret |-> Len(mem) + Len(pushed) + 1])
      /\ cur' = g /\ phase' = "entry"
      /\ homes' = <<>>
      /\ UNCHANGED <<rbp, regs, left>>

(* After the call: add rsp, 8 * left.                                      *)
Cleanup ==
  /\ phase = "back"
  /\ mem' = SubSeq(mem, 1, Len(mem) - left)
  /\ before' = Front(before)
  /\ phase' = "body"
  /\ UNCHANGED <<rbp, regs, argv, cur, left, homes>>

-----------------------------------------------------------------------------
(* The callee.                                                             *)

(* Slots rounded up to a pair, and a word more for an even number of saved *)
(* registers.                                                              *)
FrameWordsMut(f) == IF Len(f.savers) % 2 = 0 THEN 1 ELSE 0
FrameWords(f) ==
  2 * ((f.spills + 1) \div 2) + (IF Len(f.savers) % 2 = 0 THEN 1 ELSE 0)

(* Where the prologue finds what it puts in vreg j, the stack and rbp being*)
(* s and b: v0 is the receiver, v1 .. v(arity) are the parameters.         *)
Incoming(f, j, s, b) ==
  IF f.receiver
  THEN IF j >= 6 THEN s[b - 2 - (j - 6)] ELSE argv[j]
  ELSE IF j >= 7 THEN s[b - 2 - (j - 7)] ELSE argv[j - 1]

ParamVregs(f) == (IF f.receiver THEN {0} ELSE {}) \cup 1 .. f.arity

(* push rbp; mov rbp, rsp; sub rsp, frame; push each register used.        *)
Prologue ==
  LET f     == Fns[cur]
      saved == [i \in 1 .. Len(f.savers) |-> regs[f.savers[i]]]
  IN  /\ phase = "entry"
      /\ rbp' = Len(mem) + 1
      /\ mem' = mem \o <<Word("rbp", 0, rbp)>>
                    \o [i \in 1 .. FrameWords(f) |-> NoWord]
                    \o saved
      /\ homes' = [j \in ParamVregs(f) |-> Incoming(f, j, mem', rbp')]
      /\ phase' = "body"
      /\ UNCHANGED <<regs, argv, cur, left, before>>

(* The body puts a value of its own in a register it uses or in a slot.    *)
Own(n) == Word("own", Len(before), n)

ComputeReg(r) ==
  /\ phase = "body" /\ r \in Range(Fns[cur].savers)
  /\ regs' = [regs EXCEPT ![r] = Own(r)]
  /\ UNCHANGED <<mem, rbp, argv, cur, phase, left, homes, before>>

ComputeSlot(k) ==
  /\ phase = "body" /\ k < Fns[cur].spills
  /\ mem' = [mem EXCEPT ![rbp + k + 1] = Own(k)]
  /\ UNCHANGED <<rbp, regs, argv, cur, phase, left, homes, before>>

(* The registers come off in reverse from wherever rsp is; then            *)
(* leave; ret.  @start never returns.                                      *)
Epilogue ==
  LET f == Fns[cur]
      s == f.savers
      place(r) == CHOOSE i \in 1 .. Len(s) : s[i] = r
  IN  /\ phase = "body" /\ before # <<>>
      /\ regs' = [r \in Regs |->
           IF r \in Range(s) THEN mem[Len(mem) - (Len(s) - place(r))] ELSE regs[r]]
      /\ rbp' = mem[rbp].n
      /\ cur' = mem[rbp - 1].of
      /\ left' = mem[rbp - 1].n
      /\ mem' = SubSeq(mem, 1, rbp - 2)
      /\ phase' = "back"
      /\ homes' = <<>>
      /\ UNCHANGED <<argv, before>>

-----------------------------------------------------------------------------

Next ==
  \/ \E c \in CallSites : CallTo(c[1], c[2])
  \/ Cleanup
  \/ Prologue
  \/ \E r \in Regs : ComputeReg(r)
  \/ \E k \in 0 .. 1 : ComputeSlot(k)
  \/ Epilogue

Spec == Init /\ [][Next]_vars

-----------------------------------------------------------------------------
(* Properties.                                                             *)

Words == [kind : {"none", "host", "own", "arg", "ret", "rbp"}, of : Nat, n : Nat]

TypeOK ==
  /\ mem \in Seq(Words) /\ rbp \in 0 .. Len(mem)
  /\ regs \in [Regs -> [kind : {"host", "own"}, of : Nat, n : Nat]]
  /\ argv \in [0 .. 5 -> Words]
  /\ cur \in DOMAIN Fns /\ phase \in {"entry", "body", "back"} /\ left \in Nat

(* The body runs with rsp where the prologue left it, whatever calls it has*)
(* made: the epilogue finds the saved registers from rsp alone.  A call    *)
(* returns to its caller's code and frame, with nothing on the stack but   *)
(* what is about to be taken off.                                          *)
StackIsBalanced ==
  /\ phase = "body" =>
       Len(mem) = rbp + FrameWords(Fns[cur]) + Len(Fns[cur].savers)
  /\ phase = "back" =>
       LET caller == before[Len(before)]
       IN  cur = caller.fn /\ rbp = caller.rbp /\ Len(mem) - left = caller.size

(* Every parameter home of a function just entered holds what this call's  *)
(* site passed for it, in registers or on the stack, for either way of     *)
(* numbering vregs and every kind of call.                                 *)
ParamsArrive ==
  \A j \in DOMAIN homes :
    /\ homes[j].kind = "arg" /\ homes[j].of = Len(before) - 1
    /\ \/ homes[j].n = j        (* A receiver apart, or none.              *)
       \/ homes[j].n = j + 1 /\ 0 \in DOMAIN homes /\ homes[0].n = 1

(* The frames, from @start's, 0, to that of the code that runs.            *)
Outer(d)  == d < Len(before)
Base(d)   == IF Outer(d) THEN before[d + 1].rbp ELSE rbp
CodeOf(d) == Fns[IF Outer(d) THEN before[d + 1].fn ELSE cur]

(* A frame's slots hold that frame's own values: no push, save or saved    *)
(* rbp of any call lands in one, and no two frames share one.              *)
SlotsArePrivate ==
  phase = "body" =>
    \A d \in 0 .. Len(before) : \A k \in 1 .. CodeOf(d).spills :
      mem[Base(d) + k] \in {NoWord, Word("own", d, k - 1)}

(* encode_x64.rs:645-646: "Callee-saved registers we touch must be         *)
(* preserved for the caller".  Back from a call, every pool register holds *)
(* what it held before.                                                    *)
RegistersPreserved == phase = "back" => regs = before[Len(before)].regs

(* encode_x64.rs:658: "SysV ABI requires 16-byte stack alignment at call   *)
(* sites."  A process starts with rsp aligned; at every call an even number*)
(* of words has been pushed since.                                         *)
AlignedAtCalls == phase = "entry" /\ before # <<>> => (Len(mem) - 1) % 2 = 0
=============================================================================
