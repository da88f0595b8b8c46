------------------------------- MODULE MCArgv -------------------------------
(***************************************************************************)
(* Argv with argument vectors of two kinds: one argument of up to three    *)
(* bytes, or of four of which the first leads three or more, which tries   *)
(* every sequence and every way to break one off; and up to Cap arguments  *)
(* of few kinds.                                                           *)
(***************************************************************************)
EXTENDS Argv

Program == <<112>>

(* The ends of every range of the table of well-formed UTF-8.              *)
EdgeBytes == {65, 127, 128, 143, 144, 159, 160, 191, 193, 194, 223, 224, 237, 239,
              240, 244, 245}
Broken == UNION {[1 .. k -> EdgeBytes] : k \in 0 .. 3}
Whole  == {s \in [1 .. 4 -> EdgeBytes] : s[1] >= 224}
OneArgument == { <<Program, s>> : s \in Broken \cup Whole }

(* Nothing, a letter, e acute, an astral character before a broken one.    *)
FewStrings == { <<>>, <<65>>, <<195, 169, 65>>, <<240, 159, 166, 128, 226, 130>> }
Many(n)    == { <<>> } \cup { <<Program>> \o s : s \in UNION {[1 .. k -> FewStrings] : k \in 0 .. n - 1} }

SomeArgvs    == OneArgument \cup Many(4)
NoArguments  == { <<>>, <<Program>> }
TooMany      == { <<Program>> \o [k \in 1 .. 5 |-> <<65>>] }
LongLeads    == { <<Program, <<248, 144, 128, 128>>>> }
BothEntries  == {"kernel", "seeded"}
ByKernel     == {"kernel"}
ByHost       == {"host"}
=============================================================================
