------------------------------- MODULE Digits -------------------------------
(***************************************************************************)
(* ITOA and SCAN_INT of src/x86/runtime.rs: a program prints numbers with  *)
(* WriteInt and reads numbers with ScanInt.                                *)
(*                                                                         *)
(* Each is one loop over the bytes of a buffer on the stack.  What it      *)
(* prints comes back to it as a line of its input, as in a pipeline that   *)
(* echoes; other lines are typed.  A word has Width bits for 64, the read  *)
(* asks for MaxRead bytes for 80, and the stack the buffer is on holds     *)
(* whatever earlier calls left there.                                      *)
(***************************************************************************)
EXTENDS Integers, Sequences, SequencesExt

CONSTANTS
  Width,    (* Bits in a word.                                             *)
  MaxRead,  (* Bytes SCAN_INT reads at most.                               *)
  Printed,  (* The words printed.                                          *)
  Typed,    (* The lines typed: sequences of bytes, newline included.      *)
  Stale,    (* What a byte of the stack may hold before the read.          *)
  Coalesced (* Whether one read returns all the lines there are, as from   *)
            (* a file, or one line, as from a terminal.                    *)

ASSUME WidthAssumption == Width \in Nat \ {0} /\ MaxRead \in Nat \ {0}

Words     == 2 ^ Width
Word      == 0 .. Words - 1
Signed(x) == IF x >= Words \div 2 THEN x - Words ELSE x
ToWord(z) == z % Words

Minus   == 45
Zero    == 48
Newline == 10
IsDigit(c) == c \in Zero .. Zero + 9

VARIABLES
  pc,      (* What runs next.                                              *)
  rax,     (* ITOA's value, then its quotients.                            *)
  pushed,  (* The digits on the stack, least significant first.            *)
  text,    (* ITOA's buffer up to its cursor.                              *)
  stdin,   (* The lines to be read.                                        *)
  buf,     (* SCAN_INT's buffer, 0 .. MaxRead.                             *)
  n,       (* What read returned.                                          *)
  i,       (* SCAN_INT's index.                                            *)
  acc,     (* The number so far.                                           *)
  sign,    (* 1 or -1.                                                     *)
  lines,   (* History: all the lines there ever were.                      *)
  printed, (* History: the word printed.                                   *)
  results  (* History: what each ScanInt returned.                         *)

itoaVars == <<rax, pushed, text>>
scanVars == <<buf, n, i, acc, sign>>
vars == <<pc, itoaVars, stdin, scanVars, lines, printed, results>>

Init ==
  /\ pc = "sign"
  /\ printed \in Printed /\ rax = printed
  /\ pushed = <<>> /\ text = <<>>
  /\ \E l \in Typed : stdin = <<l>> /\ lines = <<l>>
  /\ buf \in [0 .. MaxRead -> Stale]
  /\ n = 0 /\ i = 0 /\ acc = 0 /\ sign = 1
  /\ results = <<>>

-----------------------------------------------------------------------------
(* ITOA.                                                                   *)

(* The sign goes first, and the value is negated: the least integer is its *)
(* own negation, and the division that follows takes it unsigned.          *)
Sign ==
  /\ pc = "sign"
  /\ IF Signed(rax) < 0
     THEN text' = Append(text, Minus) /\ rax' = ToWord(-rax)
     ELSE UNCHANGED <<text, rax>>
  /\ pc' = "digits"
  /\ UNCHANGED <<pushed, stdin, scanVars, lines, printed, results>>

QuotMut(x) == IF Signed(x) < 0 THEN ToWord(-((-Signed(x)) \div 10)) ELSE x \div 10
Quot(x)    == x \div 10

PushDigit ==
  /\ pc = "digits"
  /\ rax' = Quot(rax)
  /\ pushed' = Append(pushed, Zero + (rax % 10))
  /\ pc' = IF rax' # 0 THEN "digits" ELSE "fill"
  /\ UNCHANGED <<text, stdin, scanVars, lines, printed, results>>

PopDigit ==
  /\ pc = "fill"
  /\ text' = Append(text, Last(pushed))
  /\ pushed' = Front(pushed)
  /\ pc' = IF pushed' # <<>> THEN "fill" ELSE "write"
  /\ UNCHANGED <<rax, stdin, scanVars, lines, printed, results>>

(* The write; the program ends the line, which comes back as input.        *)
Write ==
  /\ pc = "write"
  /\ stdin' = Append(stdin, Append(text, Newline))
  /\ lines' = Append(lines, Append(text, Newline))
  /\ pc' = "read"
  /\ UNCHANGED <<itoaVars, scanVars, printed, results>>

-----------------------------------------------------------------------------
(* SCAN_INT.                                                               *)

Available == IF Coalesced THEN FlattenSeq(stdin) ELSE stdin[1]
Count     == IF Len(Available) < MaxRead THEN Len(Available) ELSE MaxRead

(* What is left of the input when Count bytes of it are gone.              *)
Rest ==
  LET left == SubSeq(Available, Count + 1, Len(Available))
  IN  (IF left = <<>> THEN <<>> ELSE <<left>>)
      \o (IF Coalesced THEN <<>> ELSE Tail(stdin))

ReadEof ==
  /\ pc = "read" /\ stdin = <<>> /\ Len(results) <= Len(lines)
  /\ results' = Append(results, 0)
  /\ UNCHANGED <<pc, itoaVars, stdin, scanVars, lines, printed>>

Read ==
  /\ pc = "read" /\ stdin # <<>>
  /\ n' = Count
  /\ buf' = [k \in 0 .. MaxRead |-> IF k < Count THEN Available[k + 1] ELSE buf[k]]
  /\ stdin' = Rest
  /\ i' = 0 /\ acc' = 0 /\ sign' = 1
  /\ pc' = "scan"
  /\ UNCHANGED <<itoaVars, lines, printed, results>>

(* A minus, tested before the index is, sets the sign wherever it stands.  *)
(* The step is one turn of the loop: sign, bound, digit.                   *)
AfterSign == IF buf[i] = Minus THEN i + 1 ELSE i
SignNow   == IF buf[i] = Minus THEN -1 ELSE sign

InRange(k) == k < n
NumberMut(c) == 10 * ((acc + c) - Zero)
Number(c)    == 10 * acc + c - Zero
NextIndexMut(k) == k
NextIndex(k)    == k + 1

ScanDigit ==
  /\ pc = "scan"
  /\ InRange(AfterSign) /\ IsDigit(buf[AfterSign])
  /\ acc' = ToWord(Number(buf[AfterSign]))
  /\ sign' = SignNow
  /\ i' = NextIndex(AfterSign)
  /\ UNCHANGED <<pc, itoaVars, stdin, buf, n, lines, printed, results>>

ScanEnd ==
  /\ pc = "scan"
  /\ ~(InRange(AfterSign) /\ IsDigit(buf[AfterSign]))
  /\ results' = Append(results, ToWord(SignNow * acc))
  /\ sign' = SignNow /\ i' = AfterSign
  /\ pc' = "read"
  /\ UNCHANGED <<itoaVars, stdin, buf, n, acc, lines, printed>>

Next ==
  \/ Sign \/ PushDigit \/ PopDigit \/ Write
  \/ ReadEof \/ Read \/ ScanDigit \/ ScanEnd

(* Straight-line code and its system calls go on.                          *)
Spec == Init /\ [][Next]_vars /\ WF_vars(Next)

-----------------------------------------------------------------------------
(* Properties.                                                             *)

(* The number a line means: its longest prefix of an optional minus and    *)
(* digits, in the integers modulo the word.                                *)
Unsigned(l) ==
  LET run == CHOOSE k \in 0 .. Len(l) :
               /\ \A j \in 1 .. k : IsDigit(l[j])
               /\ k = Len(l) \/ ~IsDigit(l[k + 1])
  IN  FoldLeft(LAMBDA v, c : ToWord(10 * v + c - Zero), 0, SubSeq(l, 1, run))
LineValue(l) ==
  IF l # <<>> /\ l[1] = Minus THEN ToWord(-Unsigned(Tail(l))) ELSE Unsigned(l)

(* ITOA writes the decimal of its word: a minus exactly for a negative     *)
(* one, no leading zero, and digits whose value is the word.               *)
WritesDecimal ==
  pc = "write" =>
    LET digits == IF Signed(printed) < 0 THEN Tail(text) ELSE text
        value  == FoldLeft(LAMBDA v, c : 10 * v + c - Zero, 0, digits)
    IN  /\ digits # <<>> /\ \A k \in DOMAIN digits : IsDigit(digits[k])
        /\ digits[1] = Zero => Len(digits) = 1
        /\ Signed(printed) < 0 => text[1] = Minus
        /\ value = IF Signed(printed) < 0 THEN -Signed(printed) ELSE printed

(* runtime.rs:91-95: "read one line from stdin and parse a signed decimal  *)
(* ... 0 on EOF ... optional leading `-`; parsing stops at the first       *)
(* non-digit".  The k-th call returns the number of the k-th line, so what *)
(* was printed is read back.                                               *)
ReadsEachLine ==
  \A k \in DOMAIN results :
    results[k] = IF k <= Len(lines) THEN LineValue(lines[k]) ELSE 0

(* Every call returns: the program gets a number for each of its lines.    *)
EveryLineRead == <>(Len(results) > Len(lines))
=============================================================================
