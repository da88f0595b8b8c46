----------------------------- MODULE MCExcState -----------------------------
(***************************************************************************)
(* ExcState for one executable, and for an executable with a library.  Two *)
(* sites and two exceptions let a wrong landing and a wrong exception show.*)
(***************************************************************************)
EXTENDS ExcState

CONSTANTS exe, lib, s1, s2, e1, e2

Alone       == {exe}
WithLibrary == {exe, lib}
TwoSites    == {s1, s2}
TwoThrown   == {e1, e2}
=============================================================================
