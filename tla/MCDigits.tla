------------------------------ MODULE MCDigits ------------------------------
(***************************************************************************)
(* Digits with words of 8 bits, all of them printed, and reads of 5 bytes. *)
(* The tame lines have a minus only in front, end in a newline and fit the *)
(* read; the others do not.                                                *)
(***************************************************************************)
EXTENDS Digits

AllWords == Word

(* Leading zeros, values that wrap, letters in front, behind and between,  *)
(* a lone minus, an empty line.                                            *)
TameLines ==
  { <<10>>, <<45, 10>>, <<48, 48, 55, 10>>, <<45, 49, 57, 10>>, <<50, 53, 54, 10>>,
    <<57, 57, 57, 57, 10>>, <<45, 57, 57, 57, 10>>, <<49, 97, 50, 10>>, <<97, 49, 10>>,
    <<45, 97, 10>> }

(* 1-2, and a 1 that the end of the input follows.                         *)
MinusInside == { <<49, 45, 50, 10>> }
NoNewline   == { <<49>> }
AnyLine     == { <<49, 50, 10>>, <<51, 10>> }
TooLong     == { <<49, 50, 51, 52, 53, 54, 10>> }

FewWords  == {0, 7, 200}
StackBytes == {45, 49}
=============================================================================
