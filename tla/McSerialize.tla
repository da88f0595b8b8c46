---------------------------- MODULE McSerialize -----------------------------
(***************************************************************************)
(* encode and decode of src/mc_serialize.rs, between which a buffer may    *)
(* lose its tail.  A MachineCode is a function from its fields to values;  *)
(* a buffer is a sequence of cells, one for each byte: cell i of a number  *)
(* v of w bytes is [w |-> w, i |-> i, v |-> v].                            *)
(*                                                                         *)
(* What a section looks like is its shape; the writer's order of sections  *)
(* and the reader's are separate definitions, as they are in the code.     *)
(***************************************************************************)
EXTENDS Integers, Sequences, FiniteSets, SequencesExt

CONSTANT MachineCodes   (* The programs to encode.                         *)

VARIABLES
  mc,       (* The program encoded.  Never changes.                        *)
  bytes,    (* The buffer, from the magic on.                              *)
  pos,      (* Reader.pos, plus the magic's four cells.                    *)
  section,  (* The section decode reads next; 0 is the magic.              *)
  back,     (* field -> what decode has read.                              *)
  status    (* "decoding", "ok" or "err".                                  *)

vars == <<mc, bytes, pos, section, back, status>>

MAGIC == 1380795185
MAX   == -1     (* u32::MAX, as the signed number it is: no init_fn.       *)

(* An item of a list is read and written part by part: a str, or a number  *)
(* of one of these widths.  Some(x) is <<x>> and None is <<>>; n options   *)
(* are a byte of flags and a u64 for each flag that is set.                *)
Width ==
  [byte |-> 1, kind |-> 1, place |-> 1, tag |-> 1, u32 |-> 4, u64 |-> 8]

Blob    == [is |-> "blob"]
List(p) == [is |-> "list", parts |-> p]
Opts(n) == [is |-> "opts", n |-> n]
One(p)  == [is |-> "one", part |-> p]

Field(name, shape, trailing) == [name |-> name, shape |-> shape, trailing |-> trailing]

Fixed ==
  << Field("code", Blob, FALSE),
     Field("data", Blob, FALSE),
     Field("fn_bases", List(<<"u64">>), FALSE),
     Field("vtable_offsets", List(<<"u64">>), FALSE),
     Field("static_offsets", List(<<"u64">>), FALSE),
     Field("helpers", Opts(6), FALSE),
     Field("exc_helpers", Opts(8), FALSE),
     Field("import_names", List(<<"str", "str">>), FALSE),
     Field("import_bases", List(<<"u64">>), FALSE),
     Field("exports", List(<<"str", "u32", "u32">>), FALSE),
     Field("relocs", List(<<"kind", "place", "u64", "tag", "u64">>), FALSE),
     Field("heap_size", One("u64"), FALSE) >>

VtableNames == Field("vtable_names", List(<<"str">>), TRUE)
StaticNames == Field("static_names", List(<<"str">>), TRUE)
Receivers   == Field("export_takes_receiver", List(<<"byte">>), TRUE)
InitFn      == Field("init_fn", One("u32"), TRUE)
Strip       == Field("strip_symbols", One("byte"), TRUE)

Written == Fixed \o <<VtableNames, StaticNames, Receivers, InitFn, Strip>>

SectionsMut == Fixed \o <<StaticNames, VtableNames, Receivers, InitFn, Strip>>
Sections    == Fixed \o <<VtableNames, StaticNames, Receivers, InitFn, Strip>>

(* What decode puts in a field whose trailing section is missing.          *)
Default(field) ==
  CASE field = "init_fn" -> MAX
    [] field = "strip_symbols" -> 0
    [] OTHER -> <<>>

-----------------------------------------------------------------------------
(* encode.                                                                 *)

Cells(w, v) == [i \in 1 .. w |-> [w |-> w, i |-> i, v |-> v]]

(* A string or blob is [len, id]: so many bytes of some content.           *)
Raw(s) == Cells(s.len, s.id)

Put(part, v) ==
  IF part = "str" THEN Cells(4, v.len) \o Raw(v) ELSE Cells(Width[part], v)

PutItem(parts, item) == FlattenSeq([j \in DOMAIN parts |-> Put(parts[j], item[j])])

Flags(opts) ==
  FoldLeft(LAMBDA f, b : IF opts[b] = <<>> THEN f ELSE f + 2 ^ (b - 1),
           0, [b \in DOMAIN opts |-> b])

PutOpts(opts) ==
  Cells(1, Flags(opts)) \o FlattenSeq([b \in DOMAIN opts |->
    IF opts[b] = <<>> THEN <<>> ELSE Cells(8, opts[b][1])])

PutSection(shape, v) ==
  CASE shape.is = "blob" -> Cells(8, v.len) \o Raw(v)
    [] shape.is = "list" ->
         Cells(4, Len(v)) \o FlattenSeq([j \in DOMAIN v |-> PutItem(shape.parts, v[j])])
    [] shape.is = "opts" -> PutOpts(v)
    [] shape.is = "one"  -> Put(shape.part, v)

(* A writer that knows only the first n sections.                          *)
EncodeTo(m, n) ==
  Cells(4, MAGIC)
    \o FlattenSeq([j \in 1 .. n |-> PutSection(Written[j].shape, m[Written[j].name])])

Encode(m) == EncodeTo(m, Len(Written))

-----------------------------------------------------------------------------
(* Reader: a read gives [at, val], at being where it ends, or Err.         *)

Err     == [at |-> -1, val |-> 0]
Bad(r)  == r.at = -1
Garbage == -2     (* The value of cells that are not one number.           *)

Number(w, at) ==
  IF at + w > Len(bytes) THEN Err
  ELSE [at |-> at + w,
        val |-> IF \A i \in 1 .. w : bytes[at + i].w = w /\ bytes[at + i].i = i
                THEN bytes[at + 1].v ELSE Garbage]

ContentMut(n, at) ==
  IF at + n > Len(bytes) + 1 THEN Err
  ELSE [at |-> at + n,
        val |-> [len |-> n, id |-> IF n = 0 THEN 0 ELSE bytes[at + 1].v]]

Content(n, at) ==
  IF at + n > Len(bytes) THEN Err
  ELSE [at |-> at + n,
        val |-> [len |-> n, id |-> IF n = 0 THEN 0 ELSE bytes[at + 1].v]]

(* The bytes of a relocation that decode refuses.                          *)
Refused(part, v) ==
  \/ part \in {"kind", "place"} /\ v \notin 0 .. 1
  \/ part = "tag" /\ v \notin 0 .. 20

Get(part, at) ==
  LET n == Number(IF part = "str" THEN 4 ELSE Width[part], at)
  IN  IF Bad(n) \/ Refused(part, n.val) THEN Err
      ELSE IF part = "str" THEN Content(n.val, n.at) ELSE n

(* What `?' does in a loop: one more read after r, unless a read failed.   *)
Then(r, g) == IF Bad(g) THEN Err ELSE [at |-> g.at, val |-> Append(r.val, g.val)]

Item(parts, at) ==
  FoldLeft(LAMBDA r, part : IF Bad(r) THEN r ELSE Then(r, Get(part, r.at)),
           [at |-> at, val |-> <<>>], parts)

ItemsMut(parts, n, at) ==
  FoldLeft(LAMBDA r, j : IF Bad(Item(parts, r.at)) THEN r ELSE Then(r, Item(parts, r.at)),
           [at |-> at, val |-> <<>>], [j \in 1 .. n |-> j])

Items(parts, n, at) ==
  FoldLeft(LAMBDA r, j : IF Bad(r) THEN r ELSE Then(r, Item(parts, r.at)),
           [at |-> at, val |-> <<>>], [j \in 1 .. n |-> j])

Options(n, flags, at) ==
  FoldLeft(LAMBDA r, b :
             IF Bad(r) THEN r
             ELSE IF (flags \div 2 ^ (b - 1)) % 2 = 0
                  THEN [r EXCEPT !.val = Append(@, <<>>)]
             ELSE Then(r, Item(<<"u64">>, r.at)),
           [at |-> at, val |-> <<>>], [b \in 1 .. n |-> b])

Length(shape) == CASE shape.is = "blob" -> 8 [] shape.is = "list" -> 4 [] shape.is = "opts" -> 1

GetSection(shape, at) ==
  IF shape.is = "one" THEN Get(shape.part, at)
  ELSE LET n == Number(Length(shape), at)
       IN  CASE Bad(n)            -> Err
             [] shape.is = "blob" -> Content(n.val, n.at)
             [] shape.is = "list" -> Items(shape.parts, n.val, n.at)
             [] shape.is = "opts" -> Options(shape.n, n.val, n.at)

-----------------------------------------------------------------------------

Init ==
  /\ mc \in MachineCodes
  /\ \E n \in 0 .. Len(Encode(mc)) : bytes = SubSeq(Encode(mc), 1, n)
  /\ pos = 0 /\ section = 0
  /\ back = [field \in {Sections[j].name : j \in DOMAIN Sections} |-> Default(field)]
  /\ status = "decoding"

Fail == status' = "err" /\ UNCHANGED <<mc, bytes, pos, section, back>>

Magic ==
  /\ status = "decoding" /\ section = 0
  /\ Number(4, 0) = [at |-> 4, val |-> MAGIC]
  /\ pos' = 4 /\ section' = 1
  /\ UNCHANGED <<mc, bytes, back, status>>

BadMagic ==
  /\ status = "decoding" /\ section = 0
  /\ Number(4, 0) # [at |-> 4, val |-> MAGIC]
  /\ Fail

(* A trailing section is read only if the buffer goes on.                  *)
Present(s) == pos < Len(bytes) \/ ~s.trailing

ReadSection ==
  /\ status = "decoding" /\ section \in DOMAIN Sections
  /\ Present(Sections[section])
  /\ LET s == Sections[section]
         r == GetSection(s.shape, pos)
     IN  \/ Bad(r) /\ Fail
         \/ /\ ~Bad(r)
            /\ pos' = r.at
            /\ back' = [back EXCEPT ![s.name] = r.val]
            /\ section' = section + 1
            /\ UNCHANGED <<mc, bytes, status>>

SkipSection ==
  /\ status = "decoding" /\ section \in DOMAIN Sections
  /\ ~Present(Sections[section])
  /\ section' = section + 1
  /\ UNCHANGED <<mc, bytes, pos, back, status>>

Finish ==
  /\ status = "decoding" /\ section = Len(Sections) + 1
  /\ status' = "ok"
  /\ UNCHANGED <<mc, bytes, pos, section, back>>

Next == Magic \/ BadMagic \/ ReadSection \/ SkipSection \/ Finish

Spec == Init /\ [][Next]_vars

-----------------------------------------------------------------------------
(* Properties.                                                             *)

(* The reader of mc_serialize.rs:304 stays inside its buffer, so that no   *)
(* slice of it panics.                                                     *)
TypeOK ==
  /\ mc \in MachineCodes /\ pos \in 0 .. Len(bytes)
  /\ section \in 0 .. Len(Sections) + 1
  /\ status \in {"decoding", "ok", "err"}

(* The buffer is what a writer of n sections leaves, the fixed ones and    *)
(* some of the trailing ones.                                              *)
WrittenUpTo(n) ==
  n \in Len(Fixed) .. Len(Written) /\ Len(bytes) = Len(EncodeTo(mc, n))

(* mc_serialize.rs:1 and 446: encoding is lossless, and decode reads what  *)
(* an older writer wrote.  A buffer with the first n sections decodes to   *)
(* the program in the fields of these and to the defaults in the others.   *)
Lossless ==
  \A n \in DOMAIN Written : WrittenUpTo(n) =>
    /\ status # "err"
    /\ status = "ok" => \A j \in DOMAIN Written :
         back[Written[j].name] =
           IF j <= n THEN mc[Written[j].name] ELSE Default(Written[j].name)

(* A buffer that lost its tail inside a section, in a count, a name, a flag*)
(* or between two items, is refused and never decoded as another program.  *)
NeverAnother == (\A n \in DOMAIN Written : ~WrittenUpTo(n)) => status # "ok"
=============================================================================
