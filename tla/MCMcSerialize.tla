--------------------------- MODULE MCMcSerialize ----------------------------
(***************************************************************************)
(* McSerialize for programs in which every field is empty but any two, and *)
(* for one in which none is.  Names and blobs are empty or a few bytes.    *)
(***************************************************************************)
EXTENDS McSerialize

Bytes(n, id) == [len |-> n, id |-> id]

Empty ==
  [code |-> Bytes(0, 0), data |-> Bytes(0, 0), fn_bases |-> <<>>,
   vtable_offsets |-> <<>>, static_offsets |-> <<>>,
   helpers |-> [b \in 1 .. 6 |-> <<>>], exc_helpers |-> [b \in 1 .. 8 |-> <<>>],
   import_names |-> <<>>, import_bases |-> <<>>, exports |-> <<>>, relocs |-> <<>>,
   heap_size |-> 0, vtable_names |-> <<>>, static_names |-> <<>>,
   export_takes_receiver |-> <<>>, init_fn |-> MAX, strip_symbols |-> 0]

Full ==
  [code |-> Bytes(3, 11), data |-> Bytes(1, 12), fn_bases |-> <<<<0>>, <<2>>>>,
   vtable_offsets |-> <<<<5>>>>, static_offsets |-> <<<<6>>>>,
   helpers |-> [b \in 1 .. 6 |-> IF b \in {2, 5} THEN <<20 + b>> ELSE <<>>],
   exc_helpers |-> [b \in 1 .. 8 |-> IF b \in {1, 8} THEN <<30 + b>> ELSE <<>>],
   import_names |-> <<<<Bytes(2, 13), Bytes(1, 14)>>>>, import_bases |-> <<<<9>>>>,
   exports |-> <<<<Bytes(2, 15), 1, 2>>>>,
   relocs |-> <<<<0, 0, 4, 1, 3>>, <<1, 0, 8, 0, 1>>>>,
   heap_size |-> 64, vtable_names |-> <<<<Bytes(0, 0)>>, <<Bytes(1, 16)>>>>,
   static_names |-> <<<<Bytes(2, 17)>>>>,
   export_takes_receiver |-> <<<<1>>, <<0>>>>, init_fn |-> 1, strip_symbols |-> 1]

Programs ==
  {[f \in DOMAIN Empty |-> IF f \in {x, y} THEN Full[f] ELSE Empty[f]] :
     x \in DOMAIN Empty, y \in {"helpers", "vtable_names", "export_takes_receiver", "init_fn"}}
  \cup {Empty, Full}
=============================================================================
