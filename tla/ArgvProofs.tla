----------------------------- MODULE ArgvProofs -----------------------------
(***************************************************************************)
(* BuildArgv stays in its memory, whatever the arguments: for every cap,   *)
(* any number of arguments up to it and any bytes in them.  And what it    *)
(* makes of the bytes, when none is 248 or more, is what the table of      *)
(* well-formed UTF-8 makes of them.                                        *)
(***************************************************************************)
EXTENDS Argv, WellFoundedInduction, TLAPS

(* The conditions: the kernel enters @start, or a host that has filled the *)
(* slot in, and there are no more arguments than the size is computed for. *)
Tame ==
  /\ Entries \subseteq {"kernel", "seeded"}
  /\ Argvs \subseteq Seq(Seq(Int))
  /\ \A s \in Argvs : Len(s) <= Cap

Bases     == {"junk", "zero", "slot", "argv", "host"}
Registers == [rax : Int, rcx : Int, rdx : Int, rsi : Int, rdi : Int, r8 : Int,
              r9 : Bases, r11 : Int]
Words     == Int \cup Bases \cup {"rsp"}
Blocks    == [size : Int, length : Int, tag : BOOLEAN, refs : Seq(Words), units : Seq(Int)]
Places    == {"start", "build", "allocArray", "header", "arg", "allocString", "tag",
              "decode", "finish", "done"}

ArgvTypes ==
  /\ pc \in Places
  /\ argv \in Seq(Seq(Int)) /\ Len(argv) <= Cap
  /\ entry \in {"kernel", "seeded"} /\ slot \in {"zero", "argv"}
  /\ reg \in Registers
  /\ stack \in Seq(Words)
  /\ block \in Seq(Blocks)
  /\ wild = FALSE

(* A block that has room for what the code will store there.               *)
Room(a, size) == a \in 1 .. Len(block) /\ block[a].size = size
ArrayRoom     == 8 * Len(argv) + HeaderSize
IsArray(a)    == Room(a, ArrayRoom) /\ block[a].length = Len(argv) - 1
Argument(k)   == argv[k + 1]
Left(i)       == i \in 0 .. Len(argv) - 2

(* What each part of the code counts on finding.                           *)
ArrayWanted  == Len(stack) = 1 /\ reg.r9 = "argv" /\ reg.rsi = ArrayRoom
ArrayMade    == Len(stack) = 1 /\ reg.r9 = "argv" /\ Room(reg.rax, ArrayRoom)
NextArgument == Len(stack) = 1 /\ reg.r9 = "argv" /\ IsArray(reg.rdi) /\ Left(reg.r11)
LoopSaved    == Len(stack) = 3 /\ Left(stack[1]) /\ IsArray(stack[2])
                /\ reg.r9 = "argv" /\ reg.r8 = stack[1] + 1
StringWanted == LoopSaved /\ reg.rsi = StringSize(Len(Argument(reg.r8)))
StringMade   == LoopSaved /\ Room(reg.rax, StringSize(Len(Argument(reg.r8))))
                /\ reg.rax # stack[2]

(* The decoder has written at most two bytes for each it has read.         *)
Decoding ==
  /\ Len(stack) = 4 /\ Left(stack[2]) /\ stack[3] = "argv"
  /\ IsArray(reg.rdi) /\ stack[1] # reg.rdi
  /\ reg.r8 = stack[2] + 1
  /\ reg.rdx = Len(Argument(reg.r8)) /\ reg.rcx \in 0 .. reg.rdx
  /\ Room(stack[1], StringSize(reg.rdx))
  /\ reg.rsi <= HeaderSize + 2 * reg.rcx

ArgvInv ==
  /\ ArgvTypes
  /\ pc # "start" => slot = "argv"
  /\ pc \in {"start", "build", "done"} => Len(stack) = 0
  /\ pc = "allocArray"  => ArrayWanted
  /\ pc = "header"      => ArrayMade
  /\ pc = "arg"         => NextArgument
  /\ pc = "allocString" => StringWanted
  /\ pc = "tag"         => StringMade
  /\ pc = "decode"      => Decoding
  /\ pc = "finish"      => Len(stack) = 1

-----------------------------------------------------------------------------
(* What pushing two or three words leaves.                                 *)
LEMMA Pushed ==
  ASSUME NEW S, NEW s \in Seq(S), NEW a \in S, NEW b \in S
  PROVE  /\ <<a, b>> \o s \in Seq(S)
         /\ Len(<<a, b>> \o s) = Len(s) + 2
         /\ (<<a, b>> \o s)[1] = a /\ (<<a, b>> \o s)[2] = b
  OBVIOUS

LEMMA PushedThree ==
  ASSUME NEW S, NEW s \in Seq(S), NEW a \in S, NEW b \in S, NEW c \in S
  PROVE  /\ <<a, b, c>> \o s \in Seq(S)
         /\ Len(<<a, b, c>> \o s) = Len(s) + 3
         /\ (<<a, b, c>> \o s)[1] = a /\ (<<a, b, c>> \o s)[2] = b
         /\ (<<a, b, c>> \o s)[3] = c
  OBVIOUS

(* What taking the first two or three words off leaves.                    *)
LEMMA Popped ==
  ASSUME NEW S, NEW s \in Seq(S), NEW k \in 1 .. Len(s)
  PROVE  /\ SubSeq(s, k, Len(s)) \in Seq(S)
         /\ Len(SubSeq(s, k, Len(s))) = Len(s) - k + 1
  OBVIOUS

LEMMA JunkIsInt == Junk \in Int
  BY DEF Junk

(* A call of ALLOC leaves the blocks there are alone, makes one of the     *)
(* size asked for, and keeps the registers it does not use.                *)
LEMMA AllocKeeps ==
  ASSUME ArgvTypes, Alloc
  PROVE  /\ block' \in Seq(Blocks) /\ Len(block') = Len(block) + 1
         /\ \A a \in 1 .. Len(block) : block'[a] = block[a]
         /\ reg' \in Registers
         /\ reg'.rax = Len(block) + 1
         /\ block'[reg'.rax].size = reg.rsi
         /\ reg'.r8 = reg.r8 /\ reg'.r9 = reg.r9
  <1> DEFINE b == [size |-> reg.rsi, length |-> 0, tag |-> FALSE, refs |-> <<>>, units |-> <<>>]
  <1>1. b \in Blocks
    BY DEF ArgvTypes, Registers, Blocks
  <1>2. PICK cleared \in BOOLEAN :
          /\ block' = Append(block, b)
          /\ reg' = [reg EXCEPT !.rax = Len(block) + 1, !.rcx = Junk, !.rdx = Junk,
                                !.rdi = IF cleared THEN Junk ELSE reg.rdi,
                                !.r11 = IF cleared THEN Junk ELSE reg.r11]
    BY DEF Alloc
  <1> DEFINE d == IF cleared THEN Junk ELSE reg.rdi
             e == IF cleared THEN Junk ELSE reg.r11
             n == Len(block) + 1
  <1>a. d \in Int /\ e \in Int /\ n \in Int
    BY JunkIsInt DEF ArgvTypes, Registers
  <1>b. reg' = [reg EXCEPT !.rax = n, !.rcx = Junk, !.rdx = Junk, !.rdi = d, !.r11 = e]
    BY <1>2
  <1> HIDE DEF d, e, n
  <1>3. /\ reg' \in Registers /\ reg'.rax = n
        /\ reg'.r8 = reg.r8 /\ reg'.r9 = reg.r9
    BY <1>a, <1>b, JunkIsInt DEF ArgvTypes, Registers
  <1> HIDE DEF b
  <1>4. /\ block' \in Seq(Blocks) /\ Len(block') = Len(block) + 1
        /\ \A a \in 1 .. Len(block) : block'[a] = block[a]
        /\ block'[Len(block) + 1] = b
    BY <1>1, <1>2 DEF ArgvTypes
  <1>5. b.size = reg.rsi
    BY DEF b
  <1>6. QED
    BY <1>3, <1>4, <1>5 DEF n

LEMMA InitArgv == ASSUME Tame, Init PROVE ArgvInv
  <1>1. ArgvTypes
    BY DEF Tame, Init, ArgvTypes, Registers, Bases, Places, Junk
  <1>2. QED
    BY <1>1 DEF Init, ArgvInv

-----------------------------------------------------------------------------
(* One lemma per action.                                                   *)

LEMMA StartStep == ASSUME ArgvInv, Start PROVE ArgvInv'
  <1>1. ArgvTypes' /\ slot' = "argv" /\ pc' = "build" /\ Len(stack') = 0
    BY DEF ArgvInv, ArgvTypes, Start, Places
  <1>2. QED
    BY <1>1 DEF ArgvInv

LEMMA BuildStep == ASSUME ArgvInv, Build PROVE ArgvInv'
  <1>1. slot = "argv" /\ Len(stack) = 0 /\ ArgvTypes /\ pc = "build"
    BY DEF ArgvInv, Build
  <1>2. Base = "argv" /\ Elements(Argc(Base)) = Len(argv) /\ Len(argv) \in Nat
    BY <1>1 DEF Base, Argc, Elements, ArgvTypes
  <1> DEFINE size == ArrayRoom
             base == "argv"
  <1>a. size \in Int /\ base \in Bases
    BY <1>2 DEF ArrayRoom, HeaderSize, Bases
  <1>c. Base = base /\ 8 * Elements(Argc(Base)) + HeaderSize = size
    BY <1>2 DEF ArrayRoom
  <1> HIDE DEF size, base
  <1>d. reg' = [reg EXCEPT !.r9 = base, !.rsi = size]
    BY <1>c DEF Build
  <1>b. reg' \in Registers /\ reg'.r9 = base /\ reg'.rsi = size
    BY <1>1, <1>a, <1>d DEF ArgvTypes, Registers
  <1>3. /\ reg' \in Registers /\ reg'.r9 = "argv" /\ reg'.rsi = ArrayRoom
    BY <1>b DEF size, base
  <1>4. stack' \in Seq(Words) /\ Len(stack') = 1
    BY <1>1 DEF Build, ArgvTypes, Words
  <1>5. ArgvTypes' /\ pc' = "allocArray"
    BY <1>1, <1>3, <1>4 DEF Build, ArgvTypes, Places
  <1>6. ArrayWanted' /\ slot' = "argv"
    BY <1>1, <1>3, <1>4 DEF ArrayWanted, Build, ArrayRoom
  <1>7. QED
    BY <1>5, <1>6 DEF ArgvInv

LEMMA AllocArrayStep == ASSUME ArgvInv, AllocArray PROVE ArgvInv'
  <1>1. ArgvTypes /\ ArrayWanted /\ Alloc /\ slot = "argv" /\ pc' = "header"
        /\ UNCHANGED <<entry, argv, slot, stack, wild>>
    BY DEF ArgvInv, AllocArray
  <1>2. /\ block' \in Seq(Blocks) /\ Len(block') = Len(block) + 1 /\ Len(block) \in Nat
        /\ \A a \in 1 .. Len(block) : block'[a] = block[a]
        /\ reg' \in Registers /\ reg'.rax = Len(block) + 1
        /\ block'[reg'.rax].size = reg.rsi
        /\ reg'.r8 = reg.r8 /\ reg'.r9 = reg.r9
    <2>1. Len(block) \in Nat
      BY <1>1 DEF ArgvTypes
    <2>2. QED
      BY <1>1, <2>1, AllocKeeps
  <1>3. ArgvTypes'
    BY <1>1, <1>2 DEF ArgvTypes, Places
  <1>4. Room(reg.rax, ArrayRoom)'
    BY <1>1, <1>2 DEF ArrayWanted, Room, ArrayRoom
  <1>5. ArrayMade'
    BY <1>1, <1>2, <1>4 DEF ArrayWanted, ArrayMade
  <1>6. QED
    BY <1>1, <1>3, <1>5 DEF ArgvInv

LEMMA HeaderStep == ASSUME ArgvInv, Header PROVE ArgvInv'
  <1> DEFINE length == Length(Argc(reg.r9))
             a      == reg.rax
  <1>1. ArgvTypes /\ ArrayMade /\ slot = "argv" /\ Len(argv) \in Nat
    BY DEF ArgvInv, Header, ArgvTypes
  <1>2. length = (IF Len(argv) >= 1 THEN Len(argv) - 1 ELSE 0) /\ length \in Int
    BY <1>1 DEF ArrayMade, Length, Argc
  <1> HIDE DEF length
  <1>3. /\ block' = [block EXCEPT ![a].length = length]
        /\ reg' = [reg EXCEPT !.rdi = reg.rax, !.r11 = 0]
        /\ pc' = IF length > 0 THEN "arg" ELSE "finish"
        /\ UNCHANGED <<entry, argv, slot, stack, wild>>
    BY DEF Header, length
  <1>4. block' \in Seq(Blocks) /\ Len(block') = Len(block)
        /\ block'[a].size = ArrayRoom /\ block'[a].length = length
    <2> DEFINE b == [block[a] EXCEPT !.length = length]
    <2>1. a \in 1 .. Len(block) /\ block[a] \in Blocks /\ block[a].size = ArrayRoom
      BY <1>1 DEF ArgvTypes, ArrayMade, Room
    <2>2. b \in Blocks /\ b.size = ArrayRoom /\ b.length = length
      BY <1>2, <2>1 DEF Blocks
    <2>3. block' = [block EXCEPT ![a] = b]
      BY <1>3
    <2> HIDE DEF b
    <2>4. QED
      BY <1>1, <2>1, <2>2, <2>3 DEF ArgvTypes
  <1>5. reg' \in Registers /\ reg'.rdi = a /\ reg'.r11 = 0 /\ reg'.r9 = "argv"
    <2> DEFINE zero == 0
    <2>1. a \in Int /\ zero \in Int /\ reg' = [reg EXCEPT !.rdi = a, !.r11 = zero]
      BY <1>1, <1>3 DEF ArgvTypes, Registers
    <2> HIDE DEF a, zero
    <2>2. reg' \in Registers /\ reg'.rdi = a /\ reg'.r11 = zero /\ reg'.r9 = reg.r9
      BY <1>1, <2>1 DEF ArgvTypes, Registers
    <2>3. QED
      BY <1>1, <2>2 DEF ArrayMade, zero
  <1>6. ArgvTypes'
    BY <1>1, <1>3, <1>4, <1>5 DEF ArgvTypes, Places
  <1>7. pc' = "arg" => NextArgument'
    BY <1>1, <1>2, <1>3, <1>4, <1>5
       DEF NextArgument, ArrayMade, IsArray, Room, ArrayRoom, Left
  <1>8. Len(stack') = 1 /\ pc' \in {"arg", "finish"}
    BY <1>1, <1>3 DEF ArrayMade
  <1>9. QED
    BY <1>1, <1>3, <1>6, <1>7, <1>8 DEF ArgvInv

LEMMA ArgStep == ASSUME ArgvInv, Arg PROVE ArgvInv'
  <1> DEFINE k == reg.r11 + 1
             size == StringSize(Len(Argument(k)))
  <1>1. /\ ArgvTypes /\ NextArgument /\ slot = "argv" /\ Len(argv) \in Nat
        /\ reg.r11 \in Int /\ reg.rdi \in Int
    BY DEF ArgvInv, Arg, ArgvTypes, Registers
  <1>2. reg.r9 = "argv" /\ k < Len(argv)
    BY <1>1 DEF NextArgument, Left
  <1>3. k \in 0 .. Len(argv) - 1 /\ Len(Argument(k)) \in Nat
    <2>1. Left(reg.r11) /\ argv \in Seq(Seq(Int))
      BY <1>1 DEF NextArgument, ArgvTypes
    <2>2. k \in 0 .. Len(argv) - 1
      BY <1>1, <2>1 DEF Left
    <2> HIDE DEF k
    <2>3. argv[k + 1] \in Seq(Int)
      BY <1>1, <2>1, <2>2
    <2>4. QED
      BY <2>2, <2>3 DEF Argument
  <1>4. size \in Int
    BY <1>3 DEF StringSize, HeaderSize
  <1>5. /\ reg' = [reg EXCEPT !.r8 = k, !.rsi = size]
        /\ stack' = <<reg.r11, reg.rdi>> \o stack
        /\ pc' = "allocString"
        /\ UNCHANGED <<entry, argv, slot, block, wild>>
    BY <1>1, <1>2 DEF Arg, Argument
  <1> HIDE DEF size
  <1>6. /\ reg' \in Registers /\ reg'.r8 = k /\ reg'.rsi = size /\ reg'.r9 = "argv"
    <2>1. k \in Int
      BY <1>1
    <2> HIDE DEF k
    <2>2. QED
      BY <1>1, <1>2, <1>4, <1>5, <2>1 DEF ArgvTypes, Registers
  <1>7. /\ stack' \in Seq(Words) /\ Len(stack') = 3
        /\ stack'[1] = reg.r11 /\ stack'[2] = reg.rdi
    <2>1. reg.r11 \in Words /\ reg.rdi \in Words /\ stack \in Seq(Words)
      BY <1>1 DEF Words, ArgvTypes
    <2> DEFINE a == reg.r11
               b == reg.rdi
               n == Len(stack)
    <2>2. stack' = <<a, b>> \o stack
      BY <1>5
    <2> HIDE DEF a, b
    <2>3. a \in Words /\ b \in Words
      BY <2>1 DEF a, b
    <2>4. /\ stack' \in Seq(Words) /\ Len(stack') = n + 2
          /\ stack'[1] = a /\ stack'[2] = b
      BY <2>1, <2>2, <2>3, Pushed
    <2>5. n = 1
      BY <1>1 DEF NextArgument
    <2> HIDE DEF n
    <2>6. QED
      BY <2>4, <2>5 DEF a, b
  <1>8. ArgvTypes'
    BY <1>1, <1>5, <1>6, <1>7 DEF ArgvTypes, Places
  <1>9. StringWanted'
    BY <1>1, <1>5, <1>6, <1>7
       DEF StringWanted, LoopSaved, NextArgument, IsArray, Room, ArrayRoom, Left, Argument, size
  <1>10. QED
    BY <1>1, <1>5, <1>8, <1>9 DEF ArgvInv

LEMMA AllocStringStep == ASSUME ArgvInv, AllocString PROVE ArgvInv'
  <1>1. ArgvTypes /\ StringWanted /\ Alloc /\ slot = "argv" /\ pc' = "tag"
        /\ UNCHANGED <<entry, argv, slot, stack, wild>>
    BY DEF ArgvInv, AllocString
  <1>2. /\ block' \in Seq(Blocks) /\ Len(block') = Len(block) + 1 /\ Len(block) \in Nat
        /\ \A a \in 1 .. Len(block) : block'[a] = block[a]
        /\ reg' \in Registers /\ reg'.rax = Len(block) + 1
        /\ block'[reg'.rax].size = reg.rsi
        /\ reg'.r8 = reg.r8 /\ reg'.r9 = reg.r9
    <2>1. Len(block) \in Nat
      BY <1>1 DEF ArgvTypes
    <2>2. QED
      BY <1>1, <2>1, AllocKeeps
  <1>3. ArgvTypes'
    BY <1>1, <1>2 DEF ArgvTypes, Places
  <1>4. stack[2] \in 1 .. Len(block) /\ IsArray(stack[2])'
    BY <1>1, <1>2 DEF StringWanted, LoopSaved, IsArray, Room, ArrayRoom
  <1>5. LoopSaved'
    BY <1>1, <1>2, <1>4 DEF StringWanted, LoopSaved, Left
  <1>6. Room(reg.rax, StringSize(Len(Argument(reg.r8))))'
    BY <1>1, <1>2 DEF StringWanted, Room, Argument
  <1>7. StringMade'
    BY <1>1, <1>2, <1>4, <1>5, <1>6 DEF StringMade
  <1>8. QED
    BY <1>1, <1>3, <1>7 DEF ArgvInv

LEMMA TagStep == ASSUME ArgvInv, Tag PROVE ArgvInv'
  <1> DEFINE i == stack[1]
             array == stack[2]
             object == reg.rax
             bytes == Len(Argument(reg.r8))
             none == 0
             head == HeaderSize
  <1>1. /\ ArgvTypes /\ StringMade /\ slot = "argv" /\ Len(argv) \in Nat
        /\ stack \in Seq(Words) /\ Len(stack) = 3
    BY DEF ArgvInv, Tag, ArgvTypes, StringMade, LoopSaved
  <1>2. /\ Left(i) /\ i \in Int /\ reg.r8 = i + 1 /\ reg.r8 \in 0 .. Len(argv) - 1
        /\ array \in 1 .. Len(block) /\ object \in 1 .. Len(block) /\ object # array
        /\ bytes \in Nat /\ Len(block) \in Nat
    <2>1. Left(i) /\ reg.r8 = i + 1
      BY <1>1 DEF StringMade, LoopSaved
    <2>2. i \in 0 .. Len(argv) - 2
      BY <2>1 DEF Left
    <2>3. i \in Int /\ reg.r8 \in 0 .. Len(argv) - 1
      BY <1>1, <2>1, <2>2
    <2>4. array \in 1 .. Len(block) /\ object \in 1 .. Len(block) /\ object # array
      BY <1>1 DEF StringMade, LoopSaved, IsArray, Room
    <2>5. argv \in Seq(Seq(Int)) /\ Len(block) \in Nat
      BY <1>1 DEF ArgvTypes
    <2>6. reg.r8 + 1 \in 1 .. Len(argv)
      BY <1>1, <2>3
    <2>7. argv[reg.r8 + 1] \in Seq(Int)
      BY <2>5, <2>6
    <2>8. bytes \in Nat
      BY <2>7 DEF Argument
    <2>9. QED
      BY <2>1, <2>3, <2>4, <2>5, <2>8
  <1>3. /\ block' = [block EXCEPT ![object].tag = TRUE]
        /\ reg' = [reg EXCEPT !.r11 = i, !.rdi = array, !.rdx = bytes, !.rcx = none, !.rsi = head]
        /\ stack' = <<object, i, reg.r9>> \o SubSeq(stack, 3, Len(stack))
        /\ pc' = "decode"
        /\ UNCHANGED <<entry, argv, slot, wild>>
    BY DEF Tag, Argument
  <1>4. array \in Int /\ object \in Int /\ bytes \in Int /\ none \in Int /\ head \in Int
    BY <1>2 DEF HeaderSize
  <1>5. /\ stack' \in Seq(Words) /\ Len(stack') = 4
        /\ stack'[1] = object /\ stack'[2] = i /\ stack'[3] = "argv"
    <2> DEFINE b == reg.r9
               rest == SubSeq(stack, 3, Len(stack))
               n == Len(rest)
    <2>1. object \in Words /\ i \in Words /\ b \in Words /\ b = "argv"
      BY <1>1, <1>2, <1>4 DEF Words, Bases, StringMade, LoopSaved
    <2>2. rest \in Seq(Words) /\ n = 1
      <3>1. stack \in Seq(Words) /\ 3 \in 1 .. Len(stack)
        BY <1>1
      <3>2. rest \in Seq(Words) /\ n = Len(stack) - 3 + 1
        BY <3>1, Popped
      <3> HIDE DEF rest, n
      <3>3. QED
        BY <1>1, <3>2
    <2> HIDE DEF i, object, b, rest, n
    <2>3. /\ <<object, i, b>> \o rest \in Seq(Words)
          /\ Len(<<object, i, b>> \o rest) = Len(rest) + 3
          /\ (<<object, i, b>> \o rest)[1] = object
          /\ (<<object, i, b>> \o rest)[2] = i
          /\ (<<object, i, b>> \o rest)[3] = b
      <3>1. object \in Words /\ i \in Words /\ b \in Words /\ rest \in Seq(Words)
        BY <2>1, <2>2
      <3>2. QED
        BY <3>1, PushedThree
    <2>4. stack' = <<object, i, b>> \o rest
      BY <1>3 DEF b, rest
    <2>5. Len(stack') = n + 3
      BY <2>3, <2>4 DEF n
    <2>6. QED
      BY <2>1, <2>2, <2>3, <2>4, <2>5
  <1>6. /\ block' \in Seq(Blocks) /\ Len(block') = Len(block)
        /\ \A a \in 1 .. Len(block) : /\ block'[a].size = block[a].size
                                      /\ block'[a].length = block[a].length
    <2> DEFINE b == [block[object] EXCEPT !.tag = TRUE]
    <2>1. block \in Seq(Blocks) /\ block[object] \in Blocks
      BY <1>1, <1>2 DEF ArgvTypes
    <2>2. b \in Blocks /\ b.size = block[object].size /\ b.length = block[object].length
      BY <2>1 DEF Blocks
    <2>3. block' = [block EXCEPT ![object] = b]
      BY <1>3
    <2> HIDE DEF b, object
    <2>4. QED
      BY <1>2, <2>1, <2>2, <2>3
  <1>7. /\ reg' \in Registers /\ reg'.rdi = array /\ reg'.rdx = bytes
        /\ reg'.rcx = none /\ reg'.rsi = head /\ reg'.r8 = reg.r8
    <2>1. reg \in Registers
      BY <1>1 DEF ArgvTypes
    <2> HIDE DEF i, array, bytes, none, head
    <2>2. QED
      BY <2>1, <1>2, <1>3, <1>4 DEF Registers
  <1>8. ArgvTypes'
    BY <1>1, <1>3, <1>5, <1>6, <1>7 DEF ArgvTypes, Places
  <1>9. /\ block'[array].size = ArrayRoom' /\ block'[array].length = Len(argv') - 1
        /\ block'[object].size = StringSize(bytes)
    BY <1>1, <1>2, <1>3, <1>6 DEF StringMade, LoopSaved, IsArray, Room, ArrayRoom, Argument
  <1>10. Decoding'
    <2>1. IsArray(reg.rdi)' /\ (stack[1] # reg.rdi)'
      BY <1>2, <1>5, <1>6, <1>7, <1>9 DEF IsArray, Room
    <2>2. Room(stack[1], StringSize(reg.rdx))'
      BY <1>2, <1>5, <1>6, <1>7, <1>9 DEF Room
    <2>3. (reg.rdx = Len(Argument(reg.r8)))'
      BY <1>3, <1>7 DEF Argument
    <2>4. (reg.rcx \in 0 .. reg.rdx /\ reg.rsi <= HeaderSize + 2 * reg.rcx)'
      BY <1>2, <1>7 DEF HeaderSize
    <2>5. (Left(stack[2]) /\ reg.r8 = stack[2] + 1)'
      BY <1>2, <1>3, <1>5, <1>7 DEF Left
    <2>6. QED
      BY <1>5, <2>1, <2>2, <2>3, <2>4, <2>5 DEF Decoding
  <1>11. QED
    BY <1>1, <1>3, <1>8, <1>10 DEF ArgvInv

(* The decoder's stores stay in the string: what it has written so far is  *)
(* at most two bytes for each it has read.                                 *)
LEMMA EmitStep ==
  ASSUME ArgvInv, pc = "decode", NEW units \in Seq(Int), NEW bytes \in 1 .. 4,
         Len(units) <= bytes, reg.rcx + bytes <= reg.rdx,
         Emit(units, bytes), UNCHANGED <<entry, argv, slot>>
  PROVE  ArgvInv'
  <1> DEFINE object == stack[1]
             end    == reg.rsi + 2 * Len(units)
             next   == reg.rcx + bytes
             junk   == "junk"
  <1>1. ArgvTypes /\ Decoding /\ slot = "argv"
    BY DEF ArgvInv
  <1>2. /\ reg.rcx \in Int /\ 0 <= reg.rcx /\ reg.rdx \in Int /\ reg.rsi \in Int
        /\ object \in 1 .. Len(block) /\ Len(block) \in Nat
        /\ Len(units) \in Nat
    <2>1. reg.rcx \in Int /\ reg.rdx \in Int /\ reg.rsi \in Int /\ Len(block) \in Nat
      BY <1>1 DEF ArgvTypes, Registers
    <2>2. reg.rcx \in 0 .. reg.rdx /\ object \in 1 .. Len(block)
      BY <1>1 DEF Decoding, Room
    <2> HIDE DEF object
    <2>3. QED
      BY <2>1, <2>2
  <1>3. /\ end \in Int /\ next \in 0 .. reg.rdx /\ junk \in Bases
        /\ block[object].size = StringSize(reg.rdx) /\ StringSize(reg.rdx) \in Int
    <2>1. end \in Int /\ next \in 0 .. reg.rdx
      BY <1>2
    <2>2. junk \in Bases
      BY DEF Bases
    <2>3. block[object].size = StringSize(reg.rdx) /\ StringSize(reg.rdx) \in Int
      BY <1>1, <1>2 DEF Decoding, Room, StringSize, HeaderSize
    <2>4. QED
      BY <2>1, <2>2, <2>3
  <1>a. end <= HeaderSize + 2 * next
    <2>1. reg.rsi <= HeaderSize + 2 * reg.rcx
      BY <1>1 DEF Decoding
    <2>2. bytes \in Int /\ Len(units) <= bytes
      OBVIOUS
    <2>3. QED
      BY <1>2, <2>1, <2>2 DEF HeaderSize
  <1>b. end <= block[object].size
    <2>1. block[object].size = 2 * reg.rdx + HeaderSize
      BY <1>3 DEF StringSize
    <2>2. next <= reg.rdx /\ next \in Int /\ HeaderSize \in Int
      BY <1>2, <1>3 DEF HeaderSize
    <2> HIDE DEF end, next
    <2>3. QED
      BY <1>2, <1>3, <1>a, <2>1, <2>2
  <1>4. /\ block' = [block EXCEPT ![object].units = block[object].units \o units]
        /\ reg' = [reg EXCEPT !.rsi = end, !.rcx = next, !.r9 = junk, !.rax = Junk, !.r11 = Junk]
        /\ UNCHANGED <<pc, stack, wild>>
    <2>1. ~(end > block[object].size)
      BY <1>3, <1>b
    <2>2. QED
      BY <2>1 DEF Emit
  <1>5. /\ block' \in Seq(Blocks) /\ Len(block') = Len(block)
        /\ \A a \in 1 .. Len(block) : /\ block'[a].size = block[a].size
                                      /\ block'[a].length = block[a].length
    <2> DEFINE written == block[object].units \o units
               b == [block[object] EXCEPT !.units = written]
    <2>1. block \in Seq(Blocks) /\ block[object] \in Blocks
      BY <1>1, <1>2 DEF ArgvTypes
    <2>2. written \in Seq(Int)
      BY <2>1 DEF Blocks
    <2> HIDE DEF written
    <2>3. b \in Blocks /\ b.size = block[object].size /\ b.length = block[object].length
      BY <2>1, <2>2 DEF Blocks
    <2>4. block' = [block EXCEPT ![object] = b]
      BY <1>4 DEF written
    <2> HIDE DEF b, object
    <2>5. QED
      BY <1>2, <2>1, <2>3, <2>4
  <1>6. /\ reg' \in Registers /\ reg'.rsi = end /\ reg'.rcx = next
        /\ reg'.rdi = reg.rdi /\ reg'.r8 = reg.r8 /\ reg'.rdx = reg.rdx
    <2>1. reg \in Registers /\ next \in Int
      BY <1>1, <1>2 DEF ArgvTypes
    <2> HIDE DEF end, next, junk
    <2>2. QED
      BY <2>1, <1>3, <1>4, JunkIsInt DEF Registers
  <1>7. ArgvTypes' /\ pc' = "decode"
    BY <1>1, <1>4, <1>5, <1>6 DEF ArgvTypes
  <1>8. Decoding'
    <2>1. IsArray(reg.rdi)' /\ Room(stack[1], StringSize(reg.rdx))'
      BY <1>1, <1>4, <1>5, <1>6 DEF Decoding, IsArray, Room, ArrayRoom
    <2>2. QED
      BY <1>1, <1>3, <1>a, <1>4, <1>6, <2>1 DEF Decoding, Left, Argument
  <1>9. QED
    BY <1>1, <1>7, <1>8 DEF ArgvInv

LEMMA EmitOne ==
  ASSUME ArgvInv, pc = "decode", NEW p \in Int, NEW bytes \in 1 .. 4,
         reg.rcx + bytes <= reg.rdx,
         Emit(<<p>>, bytes), UNCHANGED <<entry, argv, slot>>
  PROVE  ArgvInv'
  <1> DEFINE u == <<p>>
  <1>1. u \in Seq(Int) /\ Len(u) = 1 /\ Emit(u, bytes)
    OBVIOUS
  <1> HIDE DEF u
  <1>2. Len(u) <= bytes
    BY <1>1
  <1>3. QED
    BY <1>1, <1>2, EmitStep

LEMMA DecodeStep == ASSUME ArgvInv, Decode PROVE ArgvInv'
  <1> DEFINE k == reg.r8 + 1
  <1>1. ArgvTypes /\ Decoding /\ pc = "decode" /\ UNCHANGED <<entry, argv, slot>>
        /\ reg.rcx < reg.rdx
    BY DEF ArgvInv, Decode
  <1>2. /\ reg.rcx \in Int /\ 0 <= reg.rcx /\ reg.rdx \in Int /\ reg.rdx = Len(argv[k])
        /\ k \in 1 .. Len(argv)
    <2>1. reg.rcx \in Int /\ reg.rdx \in Int /\ reg.rcx \in 0 .. reg.rdx
      BY <1>1 DEF Decoding, ArgvTypes, Registers
    <2>2. reg.rdx = Len(argv[k])
      BY <1>1 DEF Decoding, Argument
    <2>3. k \in 1 .. Len(argv)
      BY <1>1 DEF Decoding, Left, ArgvTypes
    <2>4. QED
      BY <2>1, <2>2, <2>3
  <1>a. argv[k] \in Seq(Int)
    BY <1>1, <1>2 DEF ArgvTypes
  <1> HIDE DEF k
  <1>3. \A j \in Int : 0 <= j /\ j < reg.rdx => Byte(j) \in Int
    BY <1>2, <1>a DEF Byte, k
  <1>4. Lead \in Int
    BY <1>1, <1>2, <1>3 DEF Lead
  <1>5. \A j \in 1 .. 3 : Continued(j) => reg.rcx + j < reg.rdx /\ Six(j) \in Int
    BY <1>2, <1>3 DEF Continued, Six
  <1>6. CASE IsOne /\ Emit(<<Lead>>, 1)
    <2>1. reg.rcx + 1 <= reg.rdx
      BY <1>1, <1>2
    <2>2. QED
      BY <1>1, <1>4, <1>6, <2>1, EmitOne
  <1>7. CASE IsTwo /\ Emit(<<PointOfTwo>>, 2)
    <2>1. Continued(1)
      BY <1>7 DEF IsTwo
    <2>2. Six(1) \in Int /\ reg.rcx + 2 <= reg.rdx
      BY <1>2, <1>5, <2>1
    <2>3. PointOfTwo \in Int
      BY <1>4, <2>2 DEF PointOfTwo
    <2>4. QED
      BY <1>1, <1>7, <2>2, <2>3, EmitOne
  <1>8. CASE IsThree /\ Emit(<<PointOfThree>>, 3)
    <2>1. Continued(1) /\ Continued(2)
      BY <1>8 DEF IsThree
    <2>2. Six(1) \in Int /\ Six(2) \in Int /\ reg.rcx + 3 <= reg.rdx
      BY <1>2, <1>5, <2>1
    <2>3. PointOfThree \in Int
      BY <1>4, <2>2 DEF PointOfThree
    <2>4. QED
      BY <1>1, <1>8, <2>2, <2>3, EmitOne
  <1>9. CASE IsFour /\ Emit(Surrogates(PointOfFour), 4)
    <2> DEFINE p == PointOfFour
               u == Surrogates(p)
    <2>1. Continued(1) /\ Continued(2) /\ Continued(3)
      BY <1>9 DEF IsFour
    <2>2. Six(1) \in Int /\ Six(2) \in Int /\ Six(3) \in Int /\ reg.rcx + 4 <= reg.rdx
      BY <1>2, <1>5, <2>1
    <2>3. p \in Int
      BY <1>4, <2>2 DEF PointOfFour
    <2>4. Emit(u, 4)
      BY <1>9
    <2> HIDE DEF p
    <2>5. u \in Seq(Int) /\ Len(u) = 2
      BY <2>3 DEF Surrogates
    <2> HIDE DEF u
    <2>6. Len(u) <= 4
      BY <2>5
    <2>7. 4 \in 1 .. 4
      OBVIOUS
    <2>8. QED
      BY <1>1, <2>2, <2>4, <2>5, <2>6, <2>7, EmitStep
  <1>10. CASE Emit(<<Replacement>>, SkipLead)
    <2>1. reg.rcx + SkipLead <= reg.rdx /\ SkipLead \in 1 .. 4 /\ Replacement \in Int
      BY <1>1, <1>2 DEF SkipLead, Replacement
    <2>2. QED
      BY <1>1, <1>10, <2>1, EmitOne
  <1>11. QED
    BY <1>6, <1>7, <1>8, <1>9, <1>10 DEF Decode

(* The element stored is one of those the array has room for.              *)
LEMMA StoreStep == ASSUME ArgvInv, Store PROVE ArgvInv'
  <1> DEFINE object == stack[1]
             i      == stack[2]
             array  == reg.rdi
             base   == stack[3]
             index  == i + 1
             units  == (reg.rsi - HeaderSize) \div 2
  <1>1. /\ ArgvTypes /\ Decoding /\ slot = "argv" /\ Len(argv) \in Nat
        /\ stack \in Seq(Words) /\ Len(stack) = 4
    BY DEF ArgvInv, Store, ArgvTypes, Decoding
  <1>2. /\ Left(i) /\ i \in Int /\ 0 <= i /\ i <= Len(argv) - 2 /\ base = "argv"
        /\ array \in 1 .. Len(block) /\ object \in 1 .. Len(block) /\ object # array
        /\ Len(block) \in Nat
        /\ block[array].size = ArrayRoom /\ block[array].length = Len(argv) - 1
    <2>1. /\ Left(i) /\ base = "argv" /\ object # array /\ object \in 1 .. Len(block)
          /\ array \in 1 .. Len(block)
          /\ block[array].size = ArrayRoom /\ block[array].length = Len(argv) - 1
      BY <1>1 DEF Decoding, IsArray, Room
    <2>2. Len(block) \in Nat
      BY <1>1 DEF ArgvTypes
    <2> HIDE DEF i
    <2>3. i \in Int /\ 0 <= i /\ i <= Len(argv) - 2
      BY <1>1, <2>1 DEF Left
    <2>4. QED
      BY <2>1, <2>2, <2>3
  <1>3. ~(array = Junk \/ i = Junk)
    BY <1>2 DEF Junk
  <1>4. ~(HeaderSize + 8 * (i + 1) > block[array].size)
    BY <1>1, <1>2 DEF ArrayRoom, HeaderSize
  <1>5. /\ block' = [block EXCEPT ![object].length = units,
                                 ![array].refs = Append(block[array].refs, object)]
        /\ reg' = [reg EXCEPT !.rax = object, !.r9 = base, !.r11 = index, !.rcx = units]
        /\ stack' = SubSeq(stack, 4, Len(stack))
        /\ pc' = IF i + 1 < block[array].length THEN "arg" ELSE "finish"
        /\ UNCHANGED <<entry, argv, slot, wild>>
    <2>1. /\ block' = [block EXCEPT ![object].length = units,
                                    ![array].refs = Append(block[array].refs, object)]
          /\ reg' = [reg EXCEPT !.rax = object, !.r9 = base, !.r11 = index, !.rcx = units]
      BY <1>3, <1>4, Zenon DEF Store
    <2>2. /\ stack' = SubSeq(stack, 4, Len(stack))
          /\ pc' = IF i + 1 < block[array].length THEN "arg" ELSE "finish"
          /\ UNCHANGED <<entry, argv, slot, wild>>
      BY <1>3, <1>4, Zenon DEF Store
    <2>3. QED
      BY <2>1, <2>2, Zenon
  <1>6. /\ units \in Int /\ object \in Int /\ base \in Bases /\ index \in Int
        /\ object \in Words
    <2>1. reg.rsi \in Int
      BY <1>1 DEF ArgvTypes, Registers
    <2>2. units \in Int
      BY <2>1 DEF HeaderSize
    <2>3. object \in Int /\ index \in Int
      BY <1>2
    <2>4. base \in Bases
      BY <1>2 DEF Bases
    <2>5. object \in Words
      BY <2>3 DEF Words
    <2>6. QED
      BY <2>2, <2>3, <2>4, <2>5
  <1>7. /\ block' \in Seq(Blocks) /\ Len(block') = Len(block)
        /\ block'[array].size = ArrayRoom /\ block'[array].length = Len(argv) - 1
    <2> DEFINE a == [block[array] EXCEPT !.refs = Append(block[array].refs, object)]
               b == [block[object] EXCEPT !.length = units]
    <2>1. block \in Seq(Blocks) /\ block[object] \in Blocks /\ block[array] \in Blocks
      BY <1>1, <1>2 DEF ArgvTypes
    <2>2. b \in Blocks
      BY <1>6, <2>1 DEF Blocks
    <2>3. a \in Blocks /\ a.size = block[array].size /\ a.length = block[array].length
      <3> DEFINE old  == block[array].refs
                 refs == Append(old, object)
                 r    == block[array]
      <3>1. old \in Seq(Words) /\ r \in Blocks
        BY <2>1 DEF Blocks
      <3>2. a = [r EXCEPT !.refs = refs]
        OBVIOUS
      <3> HIDE DEF old, object
      <3>3. refs \in Seq(Words)
        BY <1>6, <3>1
      <3> HIDE DEF refs, r, a
      <3>4. a \in Blocks /\ a.size = r.size /\ a.length = r.length
        BY <3>1, <3>2, <3>3 DEF Blocks
      <3>5. QED
        BY <3>4 DEF r
    <2>4. block' = [[block EXCEPT ![object] = b] EXCEPT ![array] = a]
      <3>1. [block EXCEPT ![object] = b][array] = block[array]
        BY <1>2, <2>1
      <3>2. QED
        BY <1>2, <1>5, <2>1, <3>1
    <2> HIDE DEF a, b, object, array
    <2>5. QED
      BY <1>2, <2>1, <2>2, <2>3, <2>4
  <1>8. /\ reg' \in Registers /\ reg'.rdi = array /\ reg'.r11 = index /\ reg'.r9 = base
    <2>1. reg \in Registers
      BY <1>1 DEF ArgvTypes
    <2> HIDE DEF object, base, index, units
    <2>2. QED
      BY <2>1, <1>5, <1>6 DEF Registers
  <1>9. stack' \in Seq(Words) /\ Len(stack') = 1
    <2> DEFINE rest == SubSeq(stack, 4, Len(stack))
               n == Len(rest)
    <2>1. stack \in Seq(Words) /\ 4 \in 1 .. Len(stack)
      BY <1>1
    <2>2. rest \in Seq(Words) /\ n = Len(stack) - 4 + 1
      BY <2>1, Popped
    <2>3. stack' = rest /\ Len(stack') = n
      BY <1>5
    <2> HIDE DEF rest, n
    <2>4. QED
      BY <1>1, <2>2, <2>3
  <1>10. ArgvTypes' /\ pc' \in {"arg", "finish"}
    BY <1>1, <1>5, <1>7, <1>8, <1>9 DEF ArgvTypes, Places
  <1>11. pc' = "arg" => NextArgument'
    <2> SUFFICES ASSUME pc' = "arg" PROVE NextArgument'
      OBVIOUS
    <2>1. index < Len(argv) - 1
      BY <1>2, <1>5
    <2>2. (reg.r9 = "argv" /\ Left(reg.r11))'
      BY <1>1, <1>2, <1>5, <1>8, <2>1 DEF Left
    <2>3. IsArray(reg.rdi)'
      BY <1>1, <1>2, <1>5, <1>7, <1>8 DEF IsArray, Room, ArrayRoom
    <2>4. QED
      BY <1>9, <2>2, <2>3 DEF NextArgument
  <1>12. QED
    BY <1>1, <1>5, <1>9, <1>10, <1>11 DEF ArgvInv

LEMMA FinishStep == ASSUME ArgvInv, Finish PROVE ArgvInv'
  <1> DEFINE array == reg.rdi
  <1>1. ArgvTypes /\ Len(stack) = 1 /\ stack \in Seq(Words) /\ slot = "argv" /\ reg.rdi \in Int
    BY DEF ArgvInv, Finish, ArgvTypes, Registers
  <1>2. reg' \in Registers
    <2>1. array \in Int /\ reg \in Registers /\ reg' = [reg EXCEPT !.rax = array]
      BY <1>1 DEF Finish, ArgvTypes
    <2> HIDE DEF array
    <2>2. QED
      BY <2>1 DEF Registers
  <1>3. stack' \in Seq(Words) /\ Len(stack') = 0
    <2> DEFINE n == Len(stack)
    <2>1. n = 1 /\ stack \in Seq(Words) /\ stack' = Tail(stack)
      BY <1>1 DEF Finish
    <2> HIDE DEF n
    <2>2. stack # <<>>
      BY <2>1 DEF n
    <2>3. stack' \in Seq(Words) /\ Len(stack') = n - 1
      BY <2>1, <2>2 DEF n
    <2>4. QED
      BY <2>1, <2>3
  <1>4. ArgvTypes'
    BY <1>1, <1>2, <1>3 DEF Finish, ArgvTypes, Places
  <1>5. QED
    BY <1>1, <1>3, <1>4 DEF Finish, ArgvInv

-----------------------------------------------------------------------------
(* The inductive invariant, for every cap and all arguments up to it.      *)
THEOREM ArgvInvariant ==
  ASSUME Tame PROVE Spec => []ArgvInv
  <1>1. Init => ArgvInv
    BY InitArgv
  <1>2. ArgvInv /\ [Next]_vars => ArgvInv'
    <2> SUFFICES ASSUME ArgvInv, [Next]_vars PROVE ArgvInv'
      OBVIOUS
    <2>1. CASE UNCHANGED vars
      BY <2>1 DEF vars, ArgvInv, ArgvTypes, ArrayWanted, ArrayMade, NextArgument, LoopSaved,
                  StringWanted, StringMade, Decoding, Room, ArrayRoom, IsArray, Argument, Left
    <2>2. CASE Next
      BY <2>2, StartStep, BuildStep, AllocArrayStep, HeaderStep, ArgStep, AllocStringStep,
         TagStep, DecodeStep, StoreStep, FinishStep DEF Next
    <2>3. QED
      BY <2>1, <2>2
  <1>3. QED
    BY <1>1, <1>2, PTL DEF Spec

(* encode_x64.rs:1099-1101: no fault.  Whatever the arguments, no element  *)
(* is stored past the array, no code unit past its string, and no pointer  *)
(* is read past argv.                                                      *)
THEOREM NoFault ==
  ASSUME Tame PROVE Spec => []NeverAFault
  <1>1. ArgvInv => NeverAFault
    BY DEF ArgvInv, ArgvTypes, NeverAFault
  <1>2. QED
    BY <1>1, ArgvInvariant, PTL

(* The stack BuildArgv saves on is empty again when it is done.            *)
THEOREM StackIsRestored ==
  ASSUME Tame PROVE Spec => [](pc = "done" => Len(stack) = 0)
  <1>1. ArgvInv => (pc = "done" => Len(stack) = 0)
    BY DEF ArgvInv
  <1>2. QED
    BY <1>1, ArgvInvariant, PTL

-----------------------------------------------------------------------------
(* What an argument stands for.  Numbers first: a set of them has a least. *)
LEMMA LeastNumber ==
  ASSUME NEW T \in SUBSET Nat, T # {}
  PROVE  \E n \in T : \A m \in T : n <= m
  <1> DEFINE R == OpToRel(<, Nat)
  <1>1. IsWellFoundedOn(R, Nat)
    BY NatLessThanWellFounded
  <1>2. \A x, y \in Nat : y < x => <<y, x>> \in R
    BY DEF OpToRel
  <1> HIDE DEF R
  <1>3. PICK x \in T : \A y \in T : ~ (<<y, x>> \in R)
    BY <1>1, WFMin
  <1>4. \A y \in T : ~ (y < x)
    BY <1>2, <1>3
  <1>5. QED
    BY <1>4

(* Induction from the end of a string to its beginning, for a set.         *)
LEMMA DownTo ==
  ASSUME NEW N \in Nat, NEW G, N \in G, \A k \in 1 .. N : k \in G => k - 1 \in G
  PROVE  \A k \in 0 .. N : k \in G
  <1> DEFINE T == {n \in 0 .. N : N - n \notin G}
  <1> SUFFICES ASSUME T # {} PROVE FALSE
    <2>1. \A k \in 0 .. N : N - k \in 0 .. N /\ N - (N - k) = k
      OBVIOUS
    <2>2. QED
      BY <2>1
  <1>1. T \in SUBSET Nat
    OBVIOUS
  <1>2. PICK n \in T : \A m \in T : n <= m
    <2> HIDE DEF T
    <2>1. QED
      BY <1>1, LeastNumber
  <1>a. n \in 0 .. N /\ N - n \notin G
    BY <1>2
  <1>b. n # 0
    BY <1>a
  <1>3. n \in 1 .. N /\ n - 1 \in 0 .. N /\ ~ (n <= n - 1)
    BY <1>a, <1>b
  <1>4. n - 1 \notin T
    BY <1>2, <1>3
  <1>5. N - (n - 1) \in G
    BY <1>3, <1>4
  <1>6. N - (n - 1) \in 1 .. N /\ N - (n - 1) - 1 = N - n
    BY <1>3
  <1>7. QED
    BY <1>2, <1>5, <1>6

(* One turn of the text: what the bytes from the k-th on stand for, when   *)
(* from says it of the later ones.                                         *)
Rows(rest) == {row \in WellFormed : Fits(row, rest)}

Turn(s, k, from) ==
  IF k > Len(s) THEN <<>>
  ELSE LET rest == SubSeq(s, k, Len(s))
           rows == Rows(rest)
       IN  IF rows = {} THEN <<Replacement>> \o from[k + 1]
           ELSE LET row == CHOOSE row \in rows : TRUE
                IN  UnitsOf(row, rest) \o from[k + row.bytes]

LEMMA RestOf ==
  ASSUME NEW s \in Seq(Int), NEW k \in 1 .. Len(s)
  PROVE  /\ SubSeq(s, k, Len(s)) \in Seq(Int)
         /\ Len(SubSeq(s, k, Len(s))) = Len(s) - k + 1
         /\ \A j \in 1 .. Len(s) - k + 1 : SubSeq(s, k, Len(s))[j] = s[k + j - 1]
  OBVIOUS

(* A sequence of the table is one to four bytes of the rest.               *)
LEMMA RowBytes ==
  ASSUME NEW rest \in Seq(Int), NEW row \in Rows(rest)
  PROVE  row.bytes \in 1 .. 4 /\ row.bytes <= Len(rest) /\ row.from \in Int
  BY DEF Rows, WellFormed, Fits

LEMMA PointIsInt ==
  ASSUME NEW rest \in Seq(Int), NEW row \in Rows(rest)
  PROVE  PointOf(row, rest) \in Int
  <1>1. row.bytes \in 1 .. 4 /\ row.bytes <= Len(rest) /\ row.from \in Int
    BY RowBytes
  <1>2. rest[1] \in Int
    BY <1>1
  <1>3. CASE row.bytes = 1
    BY <1>1, <1>2, <1>3 DEF PointOf
  <1>4. CASE row.bytes = 2
    <2>1. rest[2] \in Int
      BY <1>1, <1>4
    <2>2. QED
      BY <1>1, <1>2, <1>4, <2>1 DEF PointOf
  <1>5. CASE row.bytes = 3
    <2>1. rest[2] \in Int /\ rest[3] \in Int
      BY <1>1, <1>5
    <2>2. PointOf(row, rest) = (rest[1] - row.from) * 4096 + (rest[2] - 128) * 64 + (rest[3] - 128)
      BY <1>5 DEF PointOf
    <2> DEFINE from == row.from  a == rest[1]  b == rest[2]  c == rest[3]
    <2>3. /\ from \in Int /\ a \in Int /\ b \in Int /\ c \in Int
          /\ PointOf(row, rest) = (a - from) * 4096 + (b - 128) * 64 + (c - 128)
      BY <1>1, <1>2, <2>1, <2>2
    <2> HIDE DEF from, a, b, c
    <2>4. QED
      BY <2>3, SMT
  <1>6. CASE row.bytes = 4
    <2>1. rest[2] \in Int /\ rest[3] \in Int /\ rest[4] \in Int
      BY <1>1, <1>6
    <2>2. PointOf(row, rest) = (rest[1] - row.from) * 262144 + (rest[2] - 128) * 4096
                               + (rest[3] - 128) * 64 + (rest[4] - 128)
      BY <1>6 DEF PointOf
    <2> DEFINE from == row.from  a == rest[1]  b == rest[2]  c == rest[3]  d == rest[4]
    <2>3. from \in Int /\ a \in Int /\ b \in Int /\ c \in Int /\ d \in Int
      BY <1>1, <1>2, <2>1
    <2>4. PointOf(row, rest) = (a - from) * 262144 + (b - 128) * 4096 + (c - 128) * 64 + (d - 128)
      BY <2>2
    <2> HIDE DEF from, a, b, c, d
    <2>5. QED
      BY <2>3, <2>4, SMT
  <1>7. QED
    BY <1>1, <1>3, <1>4, <1>5, <1>6

LEMMA UnitsAreInts ==
  ASSUME NEW rest \in Seq(Int), NEW row \in Rows(rest)
  PROVE  UnitsOf(row, rest) \in Seq(Int)
  <1> DEFINE p == PointOf(row, rest)
  <1>1. p \in Int
    BY PointIsInt
  <1>2. UnitsOf(row, rest) = IF p < 65536 THEN <<p>>
                             ELSE <<55232 + (p \div 1024), 56320 + (p % 1024)>>
    BY DEF UnitsOf
  <1> HIDE DEF p
  <1>3. QED
    BY <1>1, <1>2

(* What a turn reads of from is later than k.                              *)
LEMMA TurnReadsLater ==
  ASSUME NEW s \in Seq(Int), NEW k \in 1 .. Len(s) + 1, NEW f, NEW g,
         \A j \in 1 .. Len(s) + 1 : j > k => f[j] = g[j]
  PROVE  Turn(s, k, f) = Turn(s, k, g)
  <1>1. CASE k > Len(s)
    BY <1>1 DEF Turn
  <1>2. CASE ~ (k > Len(s))
    <2> DEFINE rest == SubSeq(s, k, Len(s))
               row  == CHOOSE row \in Rows(rest) : TRUE
    <2>1. k \in 1 .. Len(s) /\ f[k + 1] = g[k + 1]
      BY <1>2
    <2>2. rest \in Seq(Int) /\ Len(rest) = Len(s) - k + 1
      BY <2>1, RestOf
    <2>3. CASE Rows(rest) = {}
      BY <1>2, <2>1, <2>3 DEF Turn
    <2>4. CASE Rows(rest) # {}
      <3>1. row \in Rows(rest)
        BY <2>4
      <3> HIDE DEF rest, row
      <3>2. row.bytes \in 1 .. 4 /\ row.bytes <= Len(rest)
        BY <2>2, <3>1, RowBytes
      <3>3. k + row.bytes \in 1 .. Len(s) + 1 /\ k + row.bytes > k
        <4> DEFINE n == row.bytes
                   L == Len(s)
        <4>a. L \in Nat /\ k \in Nat /\ 1 <= k
          BY <2>1
        <4>b. n \in Nat /\ 1 <= n
          BY <3>2
        <4>c. n <= L - k + 1
          BY <2>2, <3>2
        <4>1. n \in Nat /\ 1 <= n /\ n <= L - k + 1 /\ L \in Nat /\ k \in Nat /\ 1 <= k
          BY <4>a, <4>b, <4>c
        <4> HIDE DEF n, L
        <4>2. k + n \in 1 .. L + 1 /\ k + n > k
          BY <4>1
        <4>3. QED
          BY <4>2 DEF n, L
      <3>a. f[k + row.bytes] = g[k + row.bytes]
        BY <3>3, Zenon
      <3>4. QED
        BY <1>2, <2>4, <3>a DEF Turn, rest, row
    <2>5. QED
      BY <2>3, <2>4
  <1>3. QED
    BY <1>1, <1>2

LEMMA TurnIsText ==
  ASSUME NEW s \in Seq(Int), NEW k \in 1 .. Len(s) + 1, NEW f,
         \A j \in 1 .. Len(s) + 1 : j > k => f[j] \in Seq(Int)
  PROVE  Turn(s, k, f) \in Seq(Int)
  <1>1. CASE k > Len(s)
    BY <1>1 DEF Turn
  <1>2. CASE ~ (k > Len(s))
    <2> DEFINE rest == SubSeq(s, k, Len(s))
               row  == CHOOSE row \in Rows(rest) : TRUE
    <2>1. k \in 1 .. Len(s) /\ f[k + 1] \in Seq(Int)
      BY <1>2
    <2>2. rest \in Seq(Int) /\ Len(rest) = Len(s) - k + 1
      BY <2>1, RestOf
    <2>3. CASE Rows(rest) = {}
      <3>1. Turn(s, k, f) = <<Replacement>> \o f[k + 1]
        BY <1>2, <2>3 DEF Turn
      <3>2. <<Replacement>> \in Seq(Int)
        BY DEF Replacement
      <3>3. QED
        BY <2>1, <3>1, <3>2
    <2>4. CASE Rows(rest) # {}
      <3>1. row \in Rows(rest)
        BY <2>4
      <3> HIDE DEF rest, row
      <3>2. row.bytes \in 1 .. 4 /\ row.bytes <= Len(rest)
        BY <2>2, <3>1, RowBytes
      <3>3. f[k + row.bytes] \in Seq(Int)
        <4> DEFINE j == k + row.bytes
        <4>1. j \in 1 .. Len(s) + 1 /\ j > k
          <5> DEFINE n == row.bytes  length == Len(s)
          <5>1. /\ n \in Int /\ 1 <= n /\ n <= length - k + 1
                /\ k \in Int /\ 1 <= k /\ length \in Int
            BY <2>1, <2>2, <3>2
          <5> HIDE DEF n, length
          <5>2. k + n \in 1 .. length + 1 /\ k + n > k
            BY <5>1
          <5>3. QED
            BY <5>2 DEF n, length
        <4> HIDE DEF j
        <4>2. f[j] \in Seq(Int)
          BY <4>1
        <4>3. QED
          BY <4>2 DEF j
      <3>4. UnitsOf(row, rest) \in Seq(Int)
        BY <2>2, <3>1, UnitsAreInts
      <3>5. Turn(s, k, f) = UnitsOf(row, rest) \o f[k + row.bytes]
        BY <1>2, <2>4 DEF Turn, rest, row
      <3>6. QED
        BY <3>3, <3>4, <3>5
    <2>5. QED
      BY <2>3, <2>4
  <1>3. QED
    BY <1>1, <1>2

(* The text from each place on is what a turn makes of the places after it.*)
LEMMA TextTurns ==
  ASSUME NEW s \in Seq(Int)
  PROVE  \A k \in 1 .. Len(s) + 1 : /\ TextFrom(s)[k] = Turn(s, k, TextFrom(s))
                                    /\ TextFrom(s)[k] \in Seq(Int)
  <1> DEFINE N == Len(s)
             D == 1 .. N + 1
             Says(f, k) == \A j \in D : j > k => f[j] = Turn(s, j, f)
             G == {k \in 0 .. N + 1 : \E f \in [D -> Seq(Int)] : Says(f, k)}
  <1>1. N \in Nat /\ N + 1 \in Nat
    OBVIOUS
  <1>2. N + 1 \in G
    <2> DEFINE f == [j \in D |-> <<>>]
    <2>1. f \in [D -> Seq(Int)]
      OBVIOUS
    <2>2. Says(f, N + 1)
      OBVIOUS
    <2> HIDE DEF f
    <2>3. QED
      BY <2>1, <2>2
  <1>3. ASSUME NEW k \in 1 .. N + 1, k \in G
        PROVE  k - 1 \in G
    <2>1. PICK f \in [D -> Seq(Int)] : Says(f, k)
      BY <1>3
    <2> DEFINE t == Turn(s, k, f)
               g == [f EXCEPT ![k] = t]
    <2>2. t \in Seq(Int)
      <3>1. \A j \in 1 .. Len(s) + 1 : j > k => f[j] \in Seq(Int)
        OBVIOUS
      <3>2. QED
        BY <3>1, TurnIsText
    <2>3. /\ g \in [D -> Seq(Int)] /\ g[k] = t
          /\ \A j \in D : j # k => g[j] = f[j]
      <3> HIDE DEF t
      <3>1. QED
        BY <2>2
    <2> HIDE DEF g
    <2>4. ASSUME NEW j \in D, j > k - 1
          PROVE  g[j] = Turn(s, j, g)
      <3>1. \A i \in 1 .. Len(s) + 1 : i > j => f[i] = g[i]
        BY <2>3, <2>4
      <3>2. Turn(s, j, f) = Turn(s, j, g)
        BY <3>1, TurnReadsLater
      <3>3. CASE j = k
        BY <2>3, <3>2, <3>3 DEF t
      <3>4. CASE j # k
        <4>1. j > k
          BY <2>4, <3>4
        <4>2. QED
          BY <2>1, <2>3, <3>2, <3>4, <4>1
      <3>5. QED
        BY <3>3, <3>4
    <2>5. Says(g, k - 1)
      BY <2>4
    <2>6. k - 1 \in 0 .. N + 1
      BY <1>1
    <2>7. QED
      BY <2>3, <2>5, <2>6
  <1>4. 0 \in G
    <2> HIDE DEF G, N
    <2>1. \A k \in 0 .. N + 1 : k \in G
      BY <1>1, <1>2, <1>3, DownTo
    <2>2. QED
      BY <1>1, <2>1
  <1> DEFINE F(h) == [k \in D |-> IF k > Len(s) THEN <<>>
                                  ELSE LET rest == SubSeq(s, k, Len(s))
                                           rows == {row \in WellFormed : Fits(row, rest)}
                                       IN  IF rows = {} THEN <<Replacement>> \o h[k + 1]
                                           ELSE LET row == CHOOSE row \in rows : TRUE
                                                IN  UnitsOf(row, rest) \o h[k + row.bytes]]
             from == CHOOSE h : h = F(h)
  <1>5. TextFrom(s) = from
    BY DEF TextFrom
  <1>6. \A h : F(h) = [k \in D |-> Turn(s, k, h)]
    BY DEF Turn, Rows
  <1> HIDE DEF F
  <1>7. \E h : h = F(h)
    <2>1. PICK h \in [D -> Seq(Int)] : Says(h, 0)
      BY <1>4
    <2>2. \A k \in D : h[k] = Turn(s, k, h)
      BY <2>1
    <2>3. h = [k \in D |-> Turn(s, k, h)]
      BY <2>2
    <2>4. QED
      BY <1>6, <2>3
  <1>8. from = F(from)
    BY <1>7
  <1> HIDE DEF from
  <1>9. \A k \in D : from[k] = Turn(s, k, from)
    <2>1. from = [k \in D |-> Turn(s, k, from)]
      BY <1>6, <1>8
    <2>2. QED
      BY <2>1, Zenon
  <1> DEFINE H == {k \in 0 .. N + 1 : \A j \in D : j > k => from[j] \in Seq(Int)}
  <1>10. N + 1 \in H
    OBVIOUS
  <1>11. ASSUME NEW k \in 1 .. N + 1, k \in H
         PROVE  k - 1 \in H
    <2>1. Turn(s, k, from) \in Seq(Int)
      <3>1. \A j \in 1 .. Len(s) + 1 : j > k => from[j] \in Seq(Int)
        BY <1>11
      <3>2. QED
        BY <3>1, TurnIsText
    <2>2. from[k] \in Seq(Int)
      BY <1>9, <2>1
    <2>3. k - 1 \in 0 .. N + 1
      BY <1>1
    <2>4. \A j \in D : j > k - 1 => j > k \/ j = k
      OBVIOUS
    <2>5. QED
      BY <1>11, <2>2, <2>3, <2>4
  <1>12. 0 \in H
    <2> HIDE DEF H, N
    <2>1. \A k \in 0 .. N + 1 : k \in H
      BY <1>1, <1>10, <1>11, DownTo
    <2>2. QED
      BY <1>1, <2>1
  <1>13. \A k \in D : from[k] \in Seq(Int)
    BY <1>12
  <1>14. QED
    BY <1>5, <1>9, <1>13

-----------------------------------------------------------------------------
(* Which sequences of the table the rest of a string begins with: those of *)
(* one length only.                                                        *)
More(b) == b \in 128 .. 191

SecondOfThree(a, b) ==
  \/ a = 224 /\ b \in 160 .. 191
  \/ a \in 225 .. 236 \cup 238 .. 239 /\ b \in 128 .. 191
  \/ a = 237 /\ b \in 128 .. 159

SecondOfFour(a, b) ==
  \/ a = 240 /\ b \in 144 .. 191
  \/ a \in 241 .. 243 /\ b \in 128 .. 191
  \/ a = 244 /\ b \in 128 .. 143

BeginsOne(s)   == s[1] \in 0 .. 127
BeginsTwo(s)   == Len(s) >= 2 /\ s[1] \in 194 .. 223 /\ More(s[2])
BeginsThree(s) == Len(s) >= 3 /\ SecondOfThree(s[1], s[2]) /\ More(s[3])
BeginsFour(s)  == Len(s) >= 4 /\ SecondOfFour(s[1], s[2]) /\ More(s[3]) /\ More(s[4])

RowKind(row, a, b) ==
  \/ row.bytes = 1 /\ row.from = 0 /\ a \in 0 .. 127
  \/ row.bytes = 2 /\ row.from = 192 /\ a \in 194 .. 223 /\ b \in 128 .. 191
  \/ row.bytes = 3 /\ row.from = 224 /\ SecondOfThree(a, b)
  \/ row.bytes = 4 /\ row.from = 240 /\ SecondOfFour(a, b)

LEMMA RowKinds ==
  ASSUME NEW row \in WellFormed
  PROVE  \A a \in row.lead : \A b : (row.bytes > 1 => b \in row.second) => RowKind(row, a, b)
  <1>1. CASE row = [lead |-> 0 .. 127, second |-> 128 .. 191, bytes |-> 1, from |-> 0]
    BY <1>1, SMT DEF RowKind, SecondOfThree, SecondOfFour
  <1>2. CASE row = [lead |-> 194 .. 223, second |-> 128 .. 191, bytes |-> 2, from |-> 192]
    BY <1>2, SMT DEF RowKind, SecondOfThree, SecondOfFour
  <1>3. CASE row = [lead |-> {224}, second |-> 160 .. 191, bytes |-> 3, from |-> 224]
    BY <1>3, SMT DEF RowKind, SecondOfThree, SecondOfFour
  <1>4. CASE row = [lead |-> 225 .. 236 \cup 238 .. 239, second |-> 128 .. 191, bytes |-> 3, from |-> 224]
    BY <1>4, SMT DEF RowKind, SecondOfThree, SecondOfFour
  <1>5. CASE row = [lead |-> {237}, second |-> 128 .. 159, bytes |-> 3, from |-> 224]
    BY <1>5, SMT DEF RowKind, SecondOfThree, SecondOfFour
  <1>6. CASE row = [lead |-> {240}, second |-> 144 .. 191, bytes |-> 4, from |-> 240]
    BY <1>6, SMT DEF RowKind, SecondOfThree, SecondOfFour
  <1>7. CASE row = [lead |-> 241 .. 243, second |-> 128 .. 191, bytes |-> 4, from |-> 240]
    BY <1>7, SMT DEF RowKind, SecondOfThree, SecondOfFour
  <1>8. CASE row = [lead |-> {244}, second |-> 128 .. 143, bytes |-> 4, from |-> 240]
    BY <1>8, SMT DEF RowKind, SecondOfThree, SecondOfFour
  <1>9. QED
    BY <1>1, <1>2, <1>3, <1>4, <1>5, <1>6, <1>7, <1>8 DEF WellFormed

LEMMA RowCases ==
  ASSUME NEW s \in Seq(Int), NEW row \in Rows(s)
  PROVE  \/ row.bytes = 1 /\ row.from = 0 /\ BeginsOne(s)
         \/ row.bytes = 2 /\ row.from = 192 /\ BeginsTwo(s)
         \/ row.bytes = 3 /\ row.from = 224 /\ BeginsThree(s)
         \/ row.bytes = 4 /\ row.from = 240 /\ BeginsFour(s)
  <1>1. row \in WellFormed /\ Fits(row, s)
    BY DEF Rows
  <1>2. /\ Len(s) >= row.bytes /\ s[1] \in row.lead
        /\ row.bytes > 1 => s[2] \in row.second
        /\ \A j \in 3 .. row.bytes : s[j] \in 128 .. 191
    BY <1>1 DEF Fits
  <1>3. RowKind(row, s[1], s[2])
    BY <1>1, <1>2, RowKinds
  <1>4. row.bytes = 3 => s[3] \in 128 .. 191
    BY <1>2
  <1>5. row.bytes = 4 => s[3] \in 128 .. 191 /\ s[4] \in 128 .. 191
    BY <1>2
  <1>6. QED
    BY <1>2, <1>3, <1>4, <1>5, SMT
       DEF RowKind, BeginsOne, BeginsTwo, BeginsThree, BeginsFour, More

LEMMA OneFits ==
  ASSUME NEW s \in Seq(Int), Len(s) >= 1, BeginsOne(s) PROVE Rows(s) # {}
  <1> DEFINE row == [lead |-> 0 .. 127, second |-> 128 .. 191, bytes |-> 1, from |-> 0]
  <1>1. row \in WellFormed
    BY SMT DEF WellFormed
  <1>2. row.bytes = 1 /\ row.lead = 0 .. 127
    OBVIOUS
  <1> HIDE DEF row
  <1>3. Fits(row, s)
    BY <1>2, SMT DEF Fits, BeginsOne
  <1>4. QED
    BY <1>1, <1>3 DEF Rows

LEMMA TwoFits ==
  ASSUME NEW s \in Seq(Int), BeginsTwo(s) PROVE Rows(s) # {}
  <1> DEFINE row == [lead |-> 194 .. 223, second |-> 128 .. 191, bytes |-> 2, from |-> 192]
  <1>1. row \in WellFormed
    BY SMT DEF WellFormed
  <1>2. row.bytes = 2 /\ row.lead = 194 .. 223 /\ row.second = 128 .. 191
    OBVIOUS
  <1> HIDE DEF row
  <1>3. Fits(row, s)
    BY <1>2, SMT DEF Fits, BeginsTwo, More
  <1>4. QED
    BY <1>1, <1>3 DEF Rows

LEMMA ThreeFits ==
  ASSUME NEW s \in Seq(Int), BeginsThree(s) PROVE Rows(s) # {}
  <1>1. Len(s) >= 3 /\ SecondOfThree(s[1], s[2]) /\ s[3] \in 128 .. 191
    BY DEF BeginsThree, More
  <1>2. ASSUME NEW row \in WellFormed, row.bytes = 3, s[1] \in row.lead, s[2] \in row.second
        PROVE  Rows(s) # {}
    <2>1. Fits(row, s)
      BY <1>1, <1>2, SMT DEF Fits
    <2>2. QED
      BY <2>1 DEF Rows
  <1>3. CASE s[1] = 224 /\ s[2] \in 160 .. 191
    <2> DEFINE row == [lead |-> {224}, second |-> 160 .. 191, bytes |-> 3, from |-> 224]
    <2>1. row \in WellFormed /\ row.bytes = 3 /\ s[1] \in row.lead /\ s[2] \in row.second
      BY <1>3, SMT DEF WellFormed
    <2>2. QED
      BY <1>2, <2>1
  <1>4. CASE s[1] \in 225 .. 236 \cup 238 .. 239 /\ s[2] \in 128 .. 191
    <2> DEFINE row == [lead |-> 225 .. 236 \cup 238 .. 239, second |-> 128 .. 191, bytes |-> 3, from |-> 224]
    <2>1. row \in WellFormed /\ row.bytes = 3 /\ s[1] \in row.lead /\ s[2] \in row.second
      BY <1>4, SMT DEF WellFormed
    <2>2. QED
      BY <1>2, <2>1
  <1>5. CASE s[1] = 237 /\ s[2] \in 128 .. 159
    <2> DEFINE row == [lead |-> {237}, second |-> 128 .. 159, bytes |-> 3, from |-> 224]
    <2>1. row \in WellFormed /\ row.bytes = 3 /\ s[1] \in row.lead /\ s[2] \in row.second
      BY <1>5, SMT DEF WellFormed
    <2>2. QED
      BY <1>2, <2>1
  <1>6. \/ s[1] = 224 /\ s[2] \in 160 .. 191
        \/ s[1] \in 225 .. 236 \cup 238 .. 239 /\ s[2] \in 128 .. 191
        \/ s[1] = 237 /\ s[2] \in 128 .. 159
    BY <1>1, SMT DEF SecondOfThree
  <1>7. QED
    BY <1>3, <1>4, <1>5, <1>6, SMT

LEMMA FourFits ==
  ASSUME NEW s \in Seq(Int), BeginsFour(s) PROVE Rows(s) # {}
  <1>1. Len(s) >= 4 /\ SecondOfFour(s[1], s[2]) /\ s[3] \in 128 .. 191 /\ s[4] \in 128 .. 191
    BY DEF BeginsFour, More
  <1>2. ASSUME NEW row \in WellFormed, row.bytes = 4, s[1] \in row.lead, s[2] \in row.second
        PROVE  Rows(s) # {}
    <2>1. Fits(row, s)
      BY <1>1, <1>2, SMT DEF Fits
    <2>2. QED
      BY <2>1 DEF Rows
  <1>3. CASE s[1] = 240 /\ s[2] \in 144 .. 191
    <2> DEFINE row == [lead |-> {240}, second |-> 144 .. 191, bytes |-> 4, from |-> 240]
    <2>1. row \in WellFormed /\ row.bytes = 4 /\ s[1] \in row.lead /\ s[2] \in row.second
      BY <1>3, SMT DEF WellFormed
    <2>2. QED
      BY <1>2, <2>1
  <1>4. CASE s[1] \in 241 .. 243 /\ s[2] \in 128 .. 191
    <2> DEFINE row == [lead |-> 241 .. 243, second |-> 128 .. 191, bytes |-> 4, from |-> 240]
    <2>1. row \in WellFormed /\ row.bytes = 4 /\ s[1] \in row.lead /\ s[2] \in row.second
      BY <1>4, SMT DEF WellFormed
    <2>2. QED
      BY <1>2, <2>1
  <1>5. CASE s[1] = 244 /\ s[2] \in 128 .. 143
    <2> DEFINE row == [lead |-> {244}, second |-> 128 .. 143, bytes |-> 4, from |-> 240]
    <2>1. row \in WellFormed /\ row.bytes = 4 /\ s[1] \in row.lead /\ s[2] \in row.second
      BY <1>5, SMT DEF WellFormed
    <2>2. QED
      BY <1>2, <2>1
  <1>6. QED
    BY <1>1, <1>3, <1>4, <1>5, SMT DEF SecondOfFour

(* The rows that fit are of one kind.                                      *)
Kind(s, n, first) == Rows(s) # {} /\ \A row \in Rows(s) : row.bytes = n /\ row.from = first

LEMMA Leads ==
  ASSUME NEW s
  PROVE  /\ BeginsOne(s)   => s[1] \in 0 .. 127
         /\ BeginsTwo(s)   => s[1] \in 194 .. 223
         /\ BeginsThree(s) => s[1] \in 224 .. 239
         /\ BeginsFour(s)  => s[1] \in 240 .. 244
  <1>1. BeginsOne(s) => s[1] \in 0 .. 127
    BY DEF BeginsOne
  <1>2. BeginsTwo(s) => s[1] \in 194 .. 223
    BY DEF BeginsTwo
  <1>3. BeginsThree(s) => s[1] \in 224 .. 239
    BY SMT DEF BeginsThree, SecondOfThree
  <1>4. BeginsFour(s) => s[1] \in 240 .. 244
    BY SMT DEF BeginsFour, SecondOfFour
  <1>5. QED
    BY <1>1, <1>2, <1>3, <1>4

LEMMA Apart ==
  ASSUME NEW s
  PROVE  /\ BeginsOne(s)   => ~ (BeginsTwo(s) \/ BeginsThree(s) \/ BeginsFour(s))
         /\ BeginsTwo(s)   => ~ (BeginsOne(s) \/ BeginsThree(s) \/ BeginsFour(s))
         /\ BeginsThree(s) => ~ (BeginsOne(s) \/ BeginsTwo(s) \/ BeginsFour(s))
         /\ BeginsFour(s)  => ~ (BeginsOne(s) \/ BeginsTwo(s) \/ BeginsThree(s))
  <1>1. \A a : /\ a \in 0 .. 127 => ~ (a \in 194 .. 223 \/ a \in 224 .. 239 \/ a \in 240 .. 244)
               /\ a \in 194 .. 223 => ~ (a \in 224 .. 239 \/ a \in 240 .. 244)
               /\ a \in 224 .. 239 => ~ (a \in 240 .. 244)
    BY SMT
  <1>2. QED
    BY <1>1, Leads

LEMMA Kinds ==
  ASSUME NEW s \in Seq(Int), Len(s) >= 1
  PROVE  /\ BeginsOne(s)   => Kind(s, 1, 0)
         /\ BeginsTwo(s)   => Kind(s, 2, 192)
         /\ BeginsThree(s) => Kind(s, 3, 224)
         /\ BeginsFour(s)  => Kind(s, 4, 240)
  <1>1. BeginsOne(s) => Kind(s, 1, 0)
    BY OneFits, RowCases, Apart DEF Kind
  <1>2. BeginsTwo(s) => Kind(s, 2, 192)
    BY TwoFits, RowCases, Apart DEF Kind
  <1>3. BeginsThree(s) => Kind(s, 3, 224)
    BY ThreeFits, RowCases, Apart DEF Kind
  <1>4. BeginsFour(s) => Kind(s, 4, 240)
    BY FourFits, RowCases, Apart DEF Kind
  <1>5. QED
    BY <1>1, <1>2, <1>3, <1>4

(* A turn by the only kind of row there is.                                *)
TurnBy(s, k, f, n, first) ==
  \E row : /\ row.bytes = n /\ row.from = first
           /\ Turn(s, k, f) = UnitsOf(row, SubSeq(s, k, Len(s))) \o f[k + n]

LEMMA TurnFits ==
  ASSUME NEW s \in Seq(Int), NEW k \in 1 .. Len(s), NEW f, NEW n, NEW first,
         Kind(SubSeq(s, k, Len(s)), n, first)
  PROVE  TurnBy(s, k, f, n, first)
  <1> DEFINE rest == SubSeq(s, k, Len(s))
             row  == CHOOSE row \in Rows(rest) : TRUE
  <1>1. row \in Rows(rest) /\ Rows(rest) # {}
    BY DEF Kind
  <1>2. row.bytes = n /\ row.from = first
    BY <1>1 DEF Kind
  <1>3. ~ (k > Len(s))
    OBVIOUS
  <1>4. Turn(s, k, f) = UnitsOf(row, rest) \o f[k + row.bytes]
    BY <1>1, <1>3 DEF Turn
  <1>5. QED
    BY <1>2, <1>4 DEF TurnBy

LEMMA TurnNone ==
  ASSUME NEW s \in Seq(Int), NEW k \in 1 .. Len(s), NEW f,
         LET rest == SubSeq(s, k, Len(s))
         IN  ~ (BeginsOne(rest) \/ BeginsTwo(rest) \/ BeginsThree(rest) \/ BeginsFour(rest))
  PROVE  Turn(s, k, f) = <<Replacement>> \o f[k + 1]
  <1> DEFINE rest == SubSeq(s, k, Len(s))
  <1>1. rest \in Seq(Int)
    BY RestOf
  <1> HIDE DEF rest
  <1>2. Rows(rest) = {}
    BY <1>1, RowCases DEF rest
  <1>3. ~ (k > Len(s))
    OBVIOUS
  <1>4. QED
    BY <1>2, <1>3 DEF Turn, rest

(* The low bits of a byte whose high bits are known.                       *)
LEMMA LowBits ==
  /\ \A b \in 128 .. 191 : b % 64 = b - 128
  /\ \A a \in 194 .. 223 : a % 32 = a - 192
  /\ \A a \in 224 .. 239 : a % 16 = a - 224
  /\ \A a \in 240 .. 247 : a % 8 = a - 240
  BY SMT

TwoPoint(a, b)        == (a % 32) * 64 + (b % 64)
ThreePoint(a, b, c)   == (a % 16) * 4096 + (b % 64) * 64 + (c % 64)
FourPoint(a, b, c, d) == (a % 8) * 262144 + (b % 64) * 4096 + (c % 64) * 64 + (d % 64)

LEMMA TurnOne ==
  ASSUME NEW s \in Seq(Int), NEW k \in 1 .. Len(s), NEW f, BeginsOne(SubSeq(s, k, Len(s)))
  PROVE  Turn(s, k, f) = <<s[k]>> \o f[k + 1]
  <1> DEFINE rest == SubSeq(s, k, Len(s))
             a == s[k]
  <1>1. rest \in Seq(Int) /\ Len(rest) >= 1 /\ rest[1] = a
    BY RestOf
  <1>2. BeginsOne(rest)
    OBVIOUS
  <1>3. Kind(rest, 1, 0)
    <2> HIDE DEF rest
    <2>1. QED
      BY <1>1, <1>2, Kinds
  <1>4. PICK row : row.bytes = 1 /\ row.from = 0 /\ Turn(s, k, f) = UnitsOf(row, rest) \o f[k + 1]
    <2>1. TurnBy(s, k, f, 1, 0)
      BY <1>3, TurnFits
    <2>2. QED
      BY <2>1 DEF TurnBy
  <1> HIDE DEF rest, a
  <1>5. a \in 0 .. 127
    BY <1>1, <1>2 DEF BeginsOne
  <1>6. PointOf(row, rest) = a
    <2>1. PointOf(row, rest) = rest[1] - row.from
      BY <1>4 DEF PointOf
    <2>2. QED
      BY <1>1, <1>4, <1>5, <2>1
  <1>7. UnitsOf(row, rest) = <<a>>
    <2>1. a < 65536
      BY <1>5
    <2>2. QED
      BY <1>6, <2>1, SMT DEF UnitsOf
  <1>8. QED
    BY <1>4, <1>7 DEF a

LEMMA TurnTwo ==
  ASSUME NEW s \in Seq(Int), NEW k \in 1 .. Len(s), NEW f, BeginsTwo(SubSeq(s, k, Len(s)))
  PROVE  Turn(s, k, f) = <<TwoPoint(s[k], s[k + 1])>> \o f[k + 2]
  <1> DEFINE rest == SubSeq(s, k, Len(s))
             a == s[k]
             b == s[k + 1]
             p == TwoPoint(a, b)
  <1>1. BeginsTwo(rest)
    OBVIOUS
  <1>2. rest \in Seq(Int) /\ Len(rest) = Len(s) - k + 1 /\ Len(rest) >= 2
    BY <1>1, RestOf DEF BeginsTwo
  <1>3. rest[1] = a /\ rest[2] = b
    <2>1. /\ 1 \in 1 .. Len(s) - k + 1 /\ k + 1 - 1 = k
          /\ 2 \in 1 .. Len(s) - k + 1 /\ k + 2 - 1 = k + 1
      BY <1>2
    <2>2. QED
      BY <2>1, RestOf
  <1>4. Kind(rest, 2, 192)
    <2> HIDE DEF rest
    <2>1. QED
      BY <1>1, <1>2, Kinds
  <1>5. PICK row : row.bytes = 2 /\ row.from = 192 /\ Turn(s, k, f) = UnitsOf(row, rest) \o f[k + 2]
    <2>1. TurnBy(s, k, f, 2, 192)
      BY <1>4, TurnFits
    <2>2. QED
      BY <2>1 DEF TurnBy
  <1> HIDE DEF rest, a, b
  <1>6. a \in 194 .. 223 /\ b \in 128 .. 191
    BY <1>1, <1>3 DEF BeginsTwo, More
  <1>7. PointOf(row, rest) = (a - 192) * 64 + (b - 128)
    <2>1. PointOf(row, rest) = (rest[1] - row.from) * 64 + (rest[2] - 128)
      BY <1>5, SMT DEF PointOf
    <2>2. QED
      BY <1>3, <1>5, <2>1
  <1>8. p = (a - 192) * 64 + (b - 128) /\ p < 65536
    <2>1. a % 32 = a - 192 /\ b % 64 = b - 128
      BY <1>6, LowBits
    <2>2. p = (a - 192) * 64 + (b - 128)
      BY <2>1 DEF TwoPoint
    <2> HIDE DEF p
    <2>3. QED
      BY <1>6, <2>2
  <1> HIDE DEF p
  <1>9. UnitsOf(row, rest) = <<p>>
    <2>1. PointOf(row, rest) = p /\ p < 65536
      BY <1>7, <1>8
    <2>2. QED
      BY <2>1, SMT DEF UnitsOf
  <1>10. QED
    BY <1>5, <1>9 DEF a, b, p

LEMMA TurnThree ==
  ASSUME NEW s \in Seq(Int), NEW k \in 1 .. Len(s), NEW f, BeginsThree(SubSeq(s, k, Len(s)))
  PROVE  Turn(s, k, f) = <<ThreePoint(s[k], s[k + 1], s[k + 2])>> \o f[k + 3]
  <1> DEFINE rest == SubSeq(s, k, Len(s))
             a == s[k]
             b == s[k + 1]
             c == s[k + 2]
             p == ThreePoint(a, b, c)
  <1>1. BeginsThree(rest)
    OBVIOUS
  <1>2. rest \in Seq(Int) /\ Len(rest) = Len(s) - k + 1 /\ Len(rest) >= 3
    BY <1>1, RestOf DEF BeginsThree
  <1>3. rest[1] = a /\ rest[2] = b /\ rest[3] = c
    <2>1. /\ 1 \in 1 .. Len(s) - k + 1 /\ k + 1 - 1 = k
          /\ 2 \in 1 .. Len(s) - k + 1 /\ k + 2 - 1 = k + 1
          /\ 3 \in 1 .. Len(s) - k + 1 /\ k + 3 - 1 = k + 2
      BY <1>2
    <2>2. QED
      BY <2>1, RestOf
  <1>4. Kind(rest, 3, 224)
    <2> HIDE DEF rest
    <2>1. QED
      BY <1>1, <1>2, Kinds
  <1>5. PICK row : row.bytes = 3 /\ row.from = 224 /\ Turn(s, k, f) = UnitsOf(row, rest) \o f[k + 3]
    <2>1. TurnBy(s, k, f, 3, 224)
      BY <1>4, TurnFits
    <2>2. QED
      BY <2>1 DEF TurnBy
  <1> HIDE DEF rest, a, b, c
  <1>6. a \in 224 .. 239 /\ b \in 128 .. 191 /\ c \in 128 .. 191
    <2>1. SecondOfThree(a, b) /\ c \in 128 .. 191
      BY <1>1, <1>3 DEF BeginsThree, More
    <2>2. QED
      BY <2>1, SMT DEF SecondOfThree
  <1>7. PointOf(row, rest) = (a - 224) * 4096 + (b - 128) * 64 + (c - 128)
    <2>1. PointOf(row, rest) = (rest[1] - row.from) * 4096 + (rest[2] - 128) * 64 + (rest[3] - 128)
      BY <1>5, SMT DEF PointOf
    <2>2. QED
      BY <1>3, <1>5, <2>1
  <1>8. p = (a - 224) * 4096 + (b - 128) * 64 + (c - 128) /\ p < 65536
    <2>1. a % 16 = a - 224 /\ b % 64 = b - 128 /\ c % 64 = c - 128
      BY <1>6, LowBits
    <2>2. p = (a - 224) * 4096 + (b - 128) * 64 + (c - 128)
      BY <2>1 DEF ThreePoint
    <2> HIDE DEF p
    <2>3. QED
      BY <1>6, <2>2, SMT
  <1> HIDE DEF p
  <1>9. UnitsOf(row, rest) = <<p>>
    <2>1. PointOf(row, rest) = p /\ p < 65536
      BY <1>7, <1>8
    <2>2. QED
      BY <2>1, SMT DEF UnitsOf
  <1>10. QED
    BY <1>5, <1>9 DEF a, b, c, p

LEMMA TurnFour ==
  ASSUME NEW s \in Seq(Int), NEW k \in 1 .. Len(s), NEW f, BeginsFour(SubSeq(s, k, Len(s)))
  PROVE  Turn(s, k, f) = Surrogates(FourPoint(s[k], s[k + 1], s[k + 2], s[k + 3])) \o f[k + 4]
  <1> DEFINE rest == SubSeq(s, k, Len(s))
             a == s[k]
             b == s[k + 1]
             c == s[k + 2]
             d == s[k + 3]
             p == FourPoint(a, b, c, d)
  <1>1. BeginsFour(rest)
    OBVIOUS
  <1>2. rest \in Seq(Int) /\ Len(rest) = Len(s) - k + 1 /\ Len(rest) >= 4
    BY <1>1, RestOf DEF BeginsFour
  <1>3. rest[1] = a /\ rest[2] = b /\ rest[3] = c /\ rest[4] = d
    <2>1. /\ 1 \in 1 .. Len(s) - k + 1 /\ k + 1 - 1 = k
          /\ 2 \in 1 .. Len(s) - k + 1 /\ k + 2 - 1 = k + 1
          /\ 3 \in 1 .. Len(s) - k + 1 /\ k + 3 - 1 = k + 2
          /\ 4 \in 1 .. Len(s) - k + 1 /\ k + 4 - 1 = k + 3
      BY <1>2
    <2>2. QED
      BY <2>1, RestOf
  <1>4. Kind(rest, 4, 240)
    <2> HIDE DEF rest
    <2>1. QED
      BY <1>1, <1>2, Kinds
  <1>5. PICK row : row.bytes = 4 /\ row.from = 240 /\ Turn(s, k, f) = UnitsOf(row, rest) \o f[k + 4]
    <2>1. TurnBy(s, k, f, 4, 240)
      BY <1>4, TurnFits
    <2>2. QED
      BY <2>1 DEF TurnBy
  <1> HIDE DEF rest, a, b, c, d
  <1>6. SecondOfFour(a, b) /\ c \in 128 .. 191 /\ d \in 128 .. 191
    BY <1>1, <1>3 DEF BeginsFour, More
  <1>7. a \in 240 .. 247 /\ b \in 128 .. 191
    BY <1>6, SMT DEF SecondOfFour
  <1>8. PointOf(row, rest) = (a - 240) * 262144 + (b - 128) * 4096 + (c - 128) * 64 + (d - 128)
    <2>1. PointOf(row, rest) = (rest[1] - row.from) * 262144 + (rest[2] - 128) * 4096
                               + (rest[3] - 128) * 64 + (rest[4] - 128)
      BY <1>5, SMT DEF PointOf
    <2>2. QED
      BY <1>3, <1>5, <2>1, SMT
  <1>9. /\ p = (a - 240) * 262144 + (b - 128) * 4096 + (c - 128) * 64 + (d - 128)
        /\ 65536 <= p /\ p <= 1114111 /\ p \in Int
    <2>1. a % 8 = a - 240 /\ b % 64 = b - 128 /\ c % 64 = c - 128 /\ d % 64 = d - 128
      <3>1. c \in 128 .. 191 /\ d \in 128 .. 191
        BY <1>6
      <3> HIDE DEF a, b, c, d
      <3>2. a % 8 = a - 240
        BY <1>7, LowBits
      <3>3. b % 64 = b - 128
        BY <1>7, LowBits
      <3>4. c % 64 = c - 128 /\ d % 64 = d - 128
        BY <3>1, LowBits
      <3>5. QED
        BY <3>2, <3>3, <3>4
    <2>2. p = (a - 240) * 262144 + (b - 128) * 4096 + (c - 128) * 64 + (d - 128)
      BY <2>1, SMT DEF FourPoint
    <2> HIDE DEF p
    <2>3. /\ a \in Int /\ b \in Int /\ c \in Int /\ d \in Int
          /\ 128 <= b /\ b <= 191 /\ 128 <= c /\ c <= 191 /\ 128 <= d /\ d <= 191
          /\ \/ a = 240 /\ 144 <= b
             \/ 241 <= a /\ a <= 243
             \/ a = 244 /\ b <= 143
      BY <1>6, <1>7, SMT DEF SecondOfFour
    <2>4. 65536 <= p /\ p <= 1114111 /\ p \in Int
      BY <2>2, <2>3, SMT
    <2>5. QED
      BY <2>2, <2>4, SMT
  <1> HIDE DEF p
  <1>10. UnitsOf(row, rest) = Surrogates(p)
    <2> DEFINE q == PointOf(row, rest)
               e == (a - 240) * 262144 + (b - 128) * 4096 + (c - 128) * 64 + (d - 128)
    <2>a. q = e /\ p = e
      BY <1>8, <1>9, SMT
    <2> HIDE DEF q, e
    <2>1. q = p /\ ~ (p < 65536) /\ p \in Int
      BY <1>9, <2>a, SMT
    <2>2. UnitsOf(row, rest) = <<55232 + (p \div 1024), 56320 + (p % 1024)>>
      BY <2>1, SMT DEF UnitsOf, q
    <2>3. Surrogates(p) = <<55296 + ((p - 65536) \div 1024), 56320 + ((p - 65536) % 1024)>>
      BY DEF Surrogates
    <2>4. (p - 65536) \div 1024 = (p \div 1024) - 64 /\ (p - 65536) % 1024 = p % 1024
      BY <2>1, SMT
    <2>5. p \div 1024 \in Int
      BY <2>1, SMT
    <2>6. QED
      BY <2>2, <2>3, <2>4, <2>5, SMT
  <1>11. QED
    BY <1>5, <1>10 DEF a, b, c, d, p

(* The code's test of a code point against the table's of a second byte.   *)
LEMMA ThreeMatch ==
  ASSUME NEW a \in 224 .. 239, NEW b \in 128 .. 191, NEW c \in 128 .. 191
  PROVE  ThreeIsValid(ThreePoint(a, b, c)) <=> SecondOfThree(a, b)
  <1> DEFINE p == ThreePoint(a, b, c)
  <1>1. a % 16 = a - 224 /\ b % 64 = b - 128 /\ c % 64 = c - 128
    BY LowBits
  <1>2. p = (a - 224) * 4096 + (b - 128) * 64 + (c - 128)
    BY <1>1 DEF ThreePoint
  <1>3. a \in Int /\ 224 <= a /\ a <= 239
    OBVIOUS
  <1>4. b \in Int /\ c \in Int /\ 128 <= b /\ b <= 191 /\ 128 <= c /\ c <= 191
    OBVIOUS
  <1> HIDE DEF p
  <1>5. ThreeIsValid(p) <=> p >= 2048 /\ ~ (55296 <= p /\ p <= 57343)
    <2>1. p \in Int
      BY <1>2, <1>3, <1>4
    <2>2. QED
      BY <2>1, SMT DEF ThreeIsValid
  <1>6. SecondOfThree(a, b) <=> \/ a = 224 /\ 160 <= b
                                \/ 225 <= a /\ a # 237
                                \/ a = 237 /\ b <= 159
    BY <1>3, <1>4, SMT DEF SecondOfThree
  <1>7. p >= 2048 /\ ~ (55296 <= p /\ p <= 57343)
          <=> \/ a = 224 /\ 160 <= b
              \/ 225 <= a /\ a # 237
              \/ a = 237 /\ b <= 159
    BY <1>2, <1>3, <1>4, SMT
  <1>8. QED
    BY <1>5, <1>6, <1>7 DEF p

LEMMA FourMatch ==
  ASSUME NEW a \in 240 .. 247, NEW b \in 128 .. 191, NEW c \in 128 .. 191, NEW d \in 128 .. 191
  PROVE  FourIsValid(FourPoint(a, b, c, d)) <=> SecondOfFour(a, b)
  <1> DEFINE p == FourPoint(a, b, c, d)
  <1>1. a % 8 = a - 240 /\ b % 64 = b - 128 /\ c % 64 = c - 128 /\ d % 64 = d - 128
    BY LowBits
  <1>2. p = (a - 240) * 262144 + (b - 128) * 4096 + (c - 128) * 64 + (d - 128)
    BY <1>1, SMT DEF FourPoint
  <1>3. a \in Int /\ 240 <= a /\ a <= 247 /\ d \in Int /\ 128 <= d /\ d <= 191
    OBVIOUS
  <1>4. b \in Int /\ c \in Int /\ 128 <= b /\ b <= 191 /\ 128 <= c /\ c <= 191
    OBVIOUS
  <1> HIDE DEF p
  <1>5. FourIsValid(p) <=> 65536 <= p /\ p <= 1114111
    <2>1. p \in Int
      BY <1>2, <1>3, <1>4, SMT
    <2>2. QED
      BY <2>1, SMT DEF FourIsValid
  <1>6. SecondOfFour(a, b) <=> \/ a = 240 /\ 144 <= b
                               \/ 241 <= a /\ a <= 243
                               \/ a = 244 /\ b <= 143
    BY <1>3, <1>4, SMT DEF SecondOfFour
  <1>7. 65536 <= p /\ p <= 1114111
          <=> \/ a = 240 /\ 144 <= b
              \/ 241 <= a /\ a <= 243
              \/ a = 244 /\ b <= 143
    BY <1>2, <1>3, <1>4, SMT
  <1>8. QED
    BY <1>5, <1>6, <1>7, SMT DEF p

(* The conditions a string begins a sequence under, byte by byte.          *)
LEMMA BeginsAt ==
  ASSUME NEW s \in Seq(Int), NEW k \in 1 .. Len(s)
  PROVE  LET rest == SubSeq(s, k, Len(s))
         IN  /\ BeginsOne(rest) <=> s[k] \in 0 .. 127
             /\ BeginsTwo(rest) <=> k + 1 <= Len(s) /\ s[k] \in 194 .. 223 /\ More(s[k + 1])
             /\ BeginsThree(rest) <=> /\ k + 2 <= Len(s) /\ SecondOfThree(s[k], s[k + 1])
                                      /\ More(s[k + 2])
             /\ BeginsFour(rest) <=> /\ k + 3 <= Len(s) /\ SecondOfFour(s[k], s[k + 1])
                                     /\ More(s[k + 2]) /\ More(s[k + 3])
  <1> DEFINE rest == SubSeq(s, k, Len(s))
             n == Len(s)
             m == Len(rest)
  <1>1. /\ rest \in Seq(Int) /\ m = n - k + 1 /\ n \in Nat /\ k \in Nat
        /\ \A j \in 1 .. n - k + 1 : rest[j] = s[k + j - 1]
    BY RestOf
  <1>2. k <= n /\ 1 <= k
    OBVIOUS
  <1> HIDE DEF rest, n, m
  <1>3. rest[1] = s[k]
    <2>1. 1 \in 1 .. n - k + 1 /\ k + 1 - 1 = k
      BY <1>1, <1>2
    <2>2. QED
      BY <1>1, <2>1
  <1>4. ASSUME NEW j \in 1 .. 3
        PROVE  /\ m >= j + 1 <=> k + j <= n
               /\ k + j <= n => rest[j + 1] = s[k + j]
    <2>1. m >= j + 1 <=> k + j <= n
      BY <1>1
    <2>2. ASSUME k + j <= n PROVE rest[j + 1] = s[k + j]
      <3>1. j + 1 \in 1 .. n - k + 1 /\ k + (j + 1) - 1 = k + j
        BY <1>1, <2>2
      <3>2. QED
        BY <1>1, <3>1
    <2>3. QED
      BY <2>1, <2>2
  <1>5. (m >= 2 <=> k + 1 <= n) /\ (k + 1 <= n => rest[2] = s[k + 1])
    <2>1. 1 \in 1 .. 3 /\ 1 + 1 = 2
      OBVIOUS
    <2>2. QED
      BY <1>4, <2>1
  <1>6. (m >= 3 <=> k + 2 <= n) /\ (k + 2 <= n => rest[3] = s[k + 2])
    <2>1. 2 \in 1 .. 3 /\ 2 + 1 = 3
      OBVIOUS
    <2>2. QED
      BY <1>4, <2>1
  <1>7. (m >= 4 <=> k + 3 <= n) /\ (k + 3 <= n => rest[4] = s[k + 3])
    <2>1. 3 \in 1 .. 3 /\ 3 + 1 = 4
      OBVIOUS
    <2>2. QED
      BY <1>4, <2>1
  <1>8. (k + 2 <= n => k + 1 <= n) /\ (k + 3 <= n => k + 2 <= n)
    BY <1>1
  <1>a. BeginsOne(rest) <=> s[k] \in 0 .. 127
    BY <1>3, Zenon DEF BeginsOne
  <1>b. BeginsTwo(rest) <=> k + 1 <= n /\ s[k] \in 194 .. 223 /\ More(s[k + 1])
    BY <1>3, <1>5 DEF BeginsTwo, m
  <1>c. BeginsThree(rest) <=> /\ k + 2 <= n /\ SecondOfThree(s[k], s[k + 1])
                              /\ More(s[k + 2])
    BY <1>3, <1>5, <1>6, <1>8 DEF BeginsThree, m
  <1>d. BeginsFour(rest) <=> /\ k + 3 <= n /\ SecondOfFour(s[k], s[k + 1])
                             /\ More(s[k + 2]) /\ More(s[k + 3])
    BY <1>3, <1>5, <1>6, <1>7, <1>8 DEF BeginsFour, m
  <1>9. QED
    BY <1>a, <1>b, <1>c, <1>d DEF rest, n

-----------------------------------------------------------------------------
(* What the loops have done so far.  The bytes of an argument are ones the *)
(* decoder tells apart as the table does: it takes 248 and more for leads. *)
Bytes == 0 .. 247
TameBytes == \A s \in Argvs : s \in Seq(Seq(Bytes))

(* The first n elements of the array are the first n arguments.            *)
Decoded(blocks, args, array, n) ==
  /\ Len(blocks[array].refs) = n
  /\ \A k \in 1 .. n :
       LET string == blocks[array].refs[k]
       IN  /\ string \in 1 .. Len(blocks) /\ string # array
           /\ blocks[string].tag /\ blocks[string].units = Text(args[k + 1])
           /\ blocks[string].length = Len(blocks[string].units)

Unstored(array, string) ==
  \A k \in 1 .. Len(block[array].refs) : block[array].refs[k] # string

(* What is written and what the bytes ahead stand for is the text.         *)
Reading ==
  LET string == block[stack[1]]  bytes == Argument(reg.r8)
  IN  /\ string.tag /\ reg.rsi = HeaderSize + 2 * Len(string.units)
      /\ string.units \o TextFrom(bytes)[reg.rcx + 1] = Text(bytes)

Users == IF argv = <<>> THEN 0 ELSE Len(argv) - 1

Complete(array) ==
  array \in 1 .. Len(block) /\ block[array].length = Users /\ Decoded(block, argv, array, Users)

DecodedInv ==
  /\ argv \in Seq(Seq(Bytes))
  /\ pc = "header"      => block[reg.rax].refs = <<>>
  /\ pc = "arg"         => Decoded(block, argv, reg.rdi, reg.r11)
  /\ pc = "allocString" => Decoded(block, argv, stack[2], stack[1])
  /\ pc = "tag"         => /\ Decoded(block, argv, stack[2], stack[1])
                           /\ Unstored(stack[2], reg.rax) /\ block[reg.rax].units = <<>>
  /\ pc = "decode"      => Decoded(block, argv, reg.rdi, stack[2]) /\ Unstored(reg.rdi, stack[1]) /\ Reading
  /\ pc = "finish"      => Complete(reg.rdi)
  /\ pc = "done"        => Complete(reg.rax)

LEMMA BytesAreInts ==
  ASSUME NEW s \in Seq(Bytes)
  PROVE  s \in Seq(Int)
  <1> DEFINE n == Len(s)
  <1>1. n \in Nat /\ DOMAIN s = 1 .. n /\ s = [k \in 1 .. n |-> s[k]]
        /\ \A k \in 1 .. n : s[k] \in Bytes
    OBVIOUS
  <1>2. Bytes \subseteq Int
    BY DEF Bytes
  <1> HIDE DEF n
  <1>3. s \in [1 .. n -> Int]
    BY <1>1, <1>2
  <1>4. QED
    BY <1>1, <1>3

(* The decoder's four conditions are the table's, and its code points too. *)
LEMMA CodeMatches ==
  ASSUME ArgvInv, DecodedInv, pc = "decode", reg.rcx < reg.rdx
  PROVE  LET s == Argument(reg.r8)  k == reg.rcx + 1  rest == SubSeq(s, k, Len(s))
         IN  /\ s \in Seq(Int) /\ k \in 1 .. Len(s) /\ reg.rdx = Len(s)
             /\ reg.rcx \in Nat /\ Lead = s[k]
             /\ IsOne   <=> BeginsOne(rest)
             /\ IsTwo   <=> BeginsTwo(rest)
             /\ IsThree <=> BeginsThree(rest)
             /\ IsFour  <=> BeginsFour(rest)
             /\ PointOfTwo = TwoPoint(s[k], s[k + 1])
             /\ PointOfThree = ThreePoint(s[k], s[k + 1], s[k + 2])
             /\ PointOfFour = FourPoint(s[k], s[k + 1], s[k + 2], s[k + 3])
  <1> DEFINE s == Argument(reg.r8)
             c == reg.rcx
             k == c + 1
             n == Len(s)
             rest == SubSeq(s, k, Len(s))
  <1>1. /\ ArgvTypes /\ Decoding
        /\ argv \in Seq(Seq(Bytes))
    BY DEF ArgvInv, DecodedInv
  <1>2. reg.rdx = n /\ c \in 0 .. n /\ Left(stack[2]) /\ reg.r8 = stack[2] + 1
    BY <1>1 DEF Decoding
  <1>3. s \in Seq(Bytes)
    <2>1. reg.r8 + 1 \in 1 .. Len(argv)
      BY <1>1, <1>2 DEF Left, ArgvTypes
    <2>2. QED
      BY <1>1, <2>1 DEF Argument
  <1>4. n \in Nat /\ c \in Nat /\ k \in 1 .. n /\ c < n
    BY <1>2, <1>3
  <1>5. s \in Seq(Int)
    BY <1>3, BytesAreInts
  <1>6. s[k] \in 0 .. 247
    <2>1. s[k] \in Bytes
      BY <1>3, <1>4
    <2>2. QED
      BY <2>1 DEF Bytes
  <1>7. Lead = s[k]
    BY DEF Lead, Byte, Argument
  <1>8. \A j \in 1 .. 3 : Byte(reg.rcx + j) = s[k + j]
    <2>1. \A j \in 1 .. 3 : reg.rcx + j + 1 = k + j
      BY <1>4
    <2>2. QED
      BY <2>1 DEF Byte, Argument
  <1>9. \A j \in 1 .. 3 : /\ Continued(j) <=> k + j <= n /\ More(s[k + j])
                          /\ Six(j) = s[k + j] % 64
    <2> SUFFICES ASSUME NEW j \in 1 .. 3
                 PROVE  /\ Continued(j) <=> k + j <= n /\ More(s[k + j])
                        /\ Six(j) = s[k + j] % 64
      OBVIOUS
    <2>1. reg.rcx + j < reg.rdx <=> k + j <= n
      BY <1>2, <1>4
    <2>2. Byte(reg.rcx + j) = s[k + j]
      BY <1>8
    <2>3. Six(j) = s[k + j] % 64
      BY <2>2 DEF Six
    <2>4. Continued(j) <=> k + j <= n /\ More(s[k + j])
      <3> HIDE DEF s, k, n
      <3>1. QED
        BY <2>1, <2>2 DEF Continued, More
    <2>5. QED
      BY <2>3, <2>4
  <1> HIDE DEF s, k, n, rest
  <1>10. /\ Continued(1) <=> k + 1 <= n /\ More(s[k + 1])
         /\ Continued(2) <=> k + 2 <= n /\ More(s[k + 2])
         /\ Continued(3) <=> k + 3 <= n /\ More(s[k + 3])
         /\ Six(1) = s[k + 1] % 64 /\ Six(2) = s[k + 2] % 64 /\ Six(3) = s[k + 3] % 64
    <2>1. 1 \in 1 .. 3 /\ 2 \in 1 .. 3 /\ 3 \in 1 .. 3
      OBVIOUS
    <2>2. QED
      BY <1>9, <2>1
  <1>11. /\ PointOfTwo = TwoPoint(s[k], s[k + 1])
         /\ PointOfThree = ThreePoint(s[k], s[k + 1], s[k + 2])
         /\ PointOfFour = FourPoint(s[k], s[k + 1], s[k + 2], s[k + 3])
    BY <1>7, <1>10 DEF PointOfTwo, PointOfThree, PointOfFour, TwoPoint, ThreePoint, FourPoint
  <1>12. /\ BeginsOne(rest) <=> s[k] \in 0 .. 127
         /\ BeginsTwo(rest) <=> k + 1 <= n /\ s[k] \in 194 .. 223 /\ More(s[k + 1])
         /\ BeginsThree(rest) <=> /\ k + 2 <= n /\ SecondOfThree(s[k], s[k + 1])
                                  /\ More(s[k + 2])
         /\ BeginsFour(rest) <=> /\ k + 3 <= n /\ SecondOfFour(s[k], s[k + 1])
                                 /\ More(s[k + 2]) /\ More(s[k + 3])
    <2>1. k \in 1 .. Len(s)
      BY <1>4 DEF n
    <2>2. QED
      BY <1>5, <2>1, BeginsAt DEF n, rest
  <1>13. IsOne <=> BeginsOne(rest)
    <2>1. Lead < 128 <=> s[k] \in 0 .. 127
      BY <1>6, <1>7
    <2>2. QED
      BY <1>12, <2>1 DEF IsOne
  <1>14. IsTwo <=> BeginsTwo(rest)
    BY <1>7, <1>10, <1>12 DEF IsTwo
  <1>15. (k + 2 <= n => k + 1 <= n) /\ (k + 3 <= n => k + 2 <= n)
    BY <1>4
  <1>16. IsThree <=> BeginsThree(rest)
    <2> DEFINE x == s[k]
               y == s[k + 1]
               z == s[k + 2]
    <2>1. IsThree <=> /\ x \in 224 .. 239 /\ k + 1 <= n /\ More(y) /\ k + 2 <= n /\ More(z)
                      /\ ThreeIsValid(ThreePoint(x, y, z))
      BY <1>7, <1>10, <1>11 DEF IsThree
    <2>2. BeginsThree(rest) <=> k + 2 <= n /\ SecondOfThree(x, y) /\ More(z)
      BY <1>12
    <2> HIDE DEF x, y, z
    <2>3. SecondOfThree(x, y) => x \in 224 .. 239 /\ More(y)
      BY SMT DEF SecondOfThree, More
    <2>4. x \in 224 .. 239 /\ More(y) /\ More(z) =>
            (ThreeIsValid(ThreePoint(x, y, z)) <=> SecondOfThree(x, y))
      BY ThreeMatch DEF More
    <2>5. QED
      BY <1>15, <2>1, <2>2, <2>3, <2>4
  <1>17. IsFour <=> BeginsFour(rest)
    <2> DEFINE x == s[k]
               y == s[k + 1]
               z == s[k + 2]
               w == s[k + 3]
    <2>1. IsFour <=> /\ x >= 240 /\ k + 1 <= n /\ More(y) /\ k + 2 <= n /\ More(z)
                     /\ k + 3 <= n /\ More(w) /\ FourIsValid(FourPoint(x, y, z, w))
      BY <1>7, <1>10, <1>11 DEF IsFour
    <2>2. BeginsFour(rest) <=> k + 3 <= n /\ SecondOfFour(x, y) /\ More(z) /\ More(w)
      BY <1>12
    <2>3. x \in 0 .. 247
      BY <1>6
    <2> HIDE DEF x, y, z, w
    <2>4. SecondOfFour(x, y) => x >= 240 /\ More(y)
      BY SMT DEF SecondOfFour, More
    <2>5. x >= 240 => x \in 240 .. 247
      BY <2>3
    <2>6. x \in 240 .. 247 /\ More(y) /\ More(z) /\ More(w) =>
            (FourIsValid(FourPoint(x, y, z, w)) <=> SecondOfFour(x, y))
      BY FourMatch DEF More
    <2>7. QED
      BY <1>15, <2>1, <2>2, <2>4, <2>5, <2>6
  <1>18. QED
    BY <1>2, <1>4, <1>5, <1>7, <1>11, <1>13, <1>14, <1>16, <1>17 DEF s, k, n, rest

(* What is said of an array stays when its elements' strings do.           *)
LEMMA StaysDecoded ==
  ASSUME NEW old, NEW new, NEW args, NEW array, NEW n, Decoded(old, args, array, n),
         Len(old) \in Nat, Len(new) \in Nat, Len(old) <= Len(new),
         new[array].refs = old[array].refs,
         \A k \in 1 .. n : /\ new[old[array].refs[k]].tag = old[old[array].refs[k]].tag
                           /\ new[old[array].refs[k]].units = old[old[array].refs[k]].units
                           /\ new[old[array].refs[k]].length = old[old[array].refs[k]].length
  PROVE  Decoded(new, args, array, n)
  <1>1. Len(new[array].refs) = n
    BY DEF Decoded
  <1>2. ASSUME NEW k \in 1 .. n
        PROVE  LET string == new[array].refs[k]
               IN  /\ string \in 1 .. Len(new) /\ string # array
                   /\ new[string].tag /\ new[string].units = Text(args[k + 1])
                   /\ new[string].length = Len(new[string].units)
    <2> DEFINE string == old[array].refs[k]
    <2>1. /\ string \in 1 .. Len(old) /\ string # array
          /\ old[string].tag /\ old[string].units = Text(args[k + 1])
          /\ old[string].length = Len(old[string].units)
      BY DEF Decoded
    <2>2. new[array].refs[k] = string
      OBVIOUS
    <2>3. /\ new[string].tag = old[string].tag /\ new[string].units = old[string].units
          /\ new[string].length = old[string].length
      OBVIOUS
    <2> HIDE DEF string
    <2>4. string \in 1 .. Len(new)
      BY <2>1
    <2>5. QED
      BY <2>1, <2>2, <2>3, <2>4
  <1>3. QED
    BY <1>1, <1>2 DEF Decoded

(* One block that is no element and not the array may change, others not.  *)
LEMMA StaysBut ==
  ASSUME NEW old, NEW new, NEW args, NEW array, NEW n, NEW object, Decoded(old, args, array, n),
         Len(old) \in Nat, Len(new) \in Nat, Len(old) <= Len(new),
         array \in 1 .. Len(old), object # array,
         \A k \in 1 .. Len(old[array].refs) : old[array].refs[k] # object,
         \A a \in 1 .. Len(old) : a # object => new[a] = old[a]
  PROVE  Decoded(new, args, array, n)
  <1>1. new[array] = old[array]
    OBVIOUS
  <1>2. ASSUME NEW k \in 1 .. n
        PROVE  new[old[array].refs[k]] = old[old[array].refs[k]]
    <2>1. old[array].refs[k] \in 1 .. Len(old) /\ Len(old[array].refs) = n
      BY DEF Decoded
    <2>2. QED
      BY <2>1
  <1>3. QED
    BY <1>1, <1>2, StaysDecoded

(* What a call of ALLOC says of the block it makes.                        *)
LEMMA AllocMakes ==
  ASSUME ArgvTypes, Alloc
  PROVE  /\ block'[Len(block) + 1].refs = <<>> /\ block'[Len(block) + 1].units = <<>>
         /\ reg'.rax = Len(block) + 1
  <1> DEFINE b == [size |-> reg.rsi, length |-> 0, tag |-> FALSE, refs |-> <<>>, units |-> <<>>]
  <1>1. block' = Append(block, b)
    BY DEF Alloc
  <1>2. b.refs = <<>> /\ b.units = <<>>
    OBVIOUS
  <1> HIDE DEF b
  <1>3. block'[Len(block) + 1] = b
    BY <1>1 DEF ArgvTypes
  <1>4. reg'.rax = Len(block) + 1
    BY AllocKeeps
  <1>5. QED
    BY <1>2, <1>3, <1>4

LEMMA InitDecoded == ASSUME Tame, TameBytes, Init PROVE DecodedInv
  BY DEF TameBytes, Init, DecodedInv

LEMMA StartBuildDecoded ==
  ASSUME ArgvInv, DecodedInv, Start \/ Build
  PROVE  DecodedInv'
  <1>1. argv' = argv /\ pc' \in {"build", "allocArray"}
    BY DEF Start, Build
  <1>2. QED
    BY <1>1 DEF DecodedInv

LEMMA AllocArrayDecoded == ASSUME ArgvInv, DecodedInv, AllocArray PROVE DecodedInv'
  <1>1. argv' = argv /\ pc' = "header" /\ ArgvTypes /\ Alloc
    BY DEF AllocArray, ArgvInv
  <1>2. block'[reg'.rax].refs = <<>>
    BY <1>1, AllocMakes
  <1>3. QED
    BY <1>1, <1>2 DEF DecodedInv

LEMMA HeaderDecoded == ASSUME ArgvInv, ArgvInv', DecodedInv, Header PROVE DecodedInv'
  <1> DEFINE length == Length(Argc(reg.r9))
             a      == reg.rax
  <1>1. /\ ArgvTypes /\ ArrayMade /\ block[a].refs = <<>> /\ Len(argv) \in Nat
        /\ argv' = argv /\ argv \in Seq(Seq(Int))
    BY DEF ArgvInv, Header, ArgvTypes, DecodedInv
  <1>2. length = Users /\ length \in Int
    <2>1. length = (IF Len(argv) >= 1 THEN Len(argv) - 1 ELSE 0)
      BY <1>1 DEF ArrayMade, Length, Argc
    <2>2. argv = <<>> <=> Len(argv) = 0
      BY <1>1
    <2>3. QED
      BY <1>1, <2>1, <2>2 DEF Users
  <1> HIDE DEF length
  <1>3. /\ block' = [block EXCEPT ![a].length = length]
        /\ reg' = [reg EXCEPT !.rdi = reg.rax, !.r11 = 0]
        /\ pc' = IF length > 0 THEN "arg" ELSE "finish"
    BY DEF Header, length
  <1>4. reg'.rdi = a /\ reg'.r11 = 0
    BY <1>1, <1>3 DEF ArgvTypes, Registers
  <1>5. block'[a].refs = <<>> /\ block'[a].length = length /\ a \in 1 .. Len(block')
    <2> DEFINE b == [block[a] EXCEPT !.length = length]
    <2>1. a \in 1 .. Len(block) /\ block[a] \in Blocks /\ block \in Seq(Blocks)
      BY <1>1 DEF ArgvTypes, ArrayMade, Room
    <2>2. b \in Blocks /\ b.refs = <<>> /\ b.length = length
      BY <1>1, <1>2, <2>1 DEF Blocks
    <2>3. block' = [block EXCEPT ![a] = b]
      BY <1>3
    <2> HIDE DEF b, a
    <2>4. QED
      BY <2>1, <2>2, <2>3
  <1>6. \A n : n = 0 => Decoded(block', argv', a, n)
    <2>1. Len(block'[a].refs) = 0
      BY <1>5
    <2>2. \A k \in 1 .. 0 : FALSE
      OBVIOUS
    <2>3. QED
      BY <2>1, <2>2 DEF Decoded
  <1>7. pc' = "arg" => Decoded(block', argv', reg'.rdi, reg'.r11)
    BY <1>4, <1>6
  <1>8. pc' = "finish" => Complete(reg.rdi)'
    <2> SUFFICES ASSUME pc' = "finish" PROVE Complete(reg.rdi)'
      OBVIOUS
    <2>1. length = 0
      <3>1. ~ (length > 0)
        BY <1>3
      <3>2. length >= 0
        BY <1>1, <1>2 DEF Users
      <3>3. QED
        BY <1>2, <3>1, <3>2
    <2>2. Users' = 0
      BY <1>1, <1>2, <2>1 DEF Users
    <2>3. Decoded(block', argv', a, 0)
      BY <1>6
    <2>4. QED
      BY <1>4, <1>5, <2>1, <2>2, <2>3 DEF Complete
  <1>9. argv' \in Seq(Seq(Bytes)) /\ pc' \in {"arg", "finish"}
    BY <1>1, <1>3 DEF DecodedInv
  <1>10. QED
    BY <1>7, <1>8, <1>9 DEF DecodedInv

LEMMA ArgDecoded == ASSUME ArgvInv, ArgvInv', DecodedInv, Arg PROVE DecodedInv'
  <1> DEFINE a == reg.r11
             b == reg.rdi
  <1>1. /\ ArgvTypes /\ NextArgument /\ Decoded(block, argv, b, a) /\ wild' = FALSE
        /\ argv' = argv /\ argv \in Seq(Seq(Bytes))
    BY DEF ArgvInv, ArgvTypes, Arg, DecodedInv
  <1>2. /\ stack' = <<a, b>> \o stack
        /\ pc' = "allocString" /\ block' = block
    BY <1>1 DEF Arg, Wild
  <1>3. stack'[1] = a /\ stack'[2] = b
    <2>1. a \in Words /\ b \in Words /\ stack \in Seq(Words)
      BY <1>1 DEF ArgvTypes, Registers, Words
    <2> HIDE DEF a, b
    <2>2. QED
      BY <1>2, <2>1, Pushed
  <1>4. Decoded(block', argv', stack'[2], stack'[1])
    BY <1>1, <1>2, <1>3
  <1>5. QED
    BY <1>1, <1>2, <1>4 DEF DecodedInv

LEMMA AllocStringDecoded ==
  ASSUME ArgvInv, ArgvInv', DecodedInv, AllocString
  PROVE  DecodedInv'
  <1> DEFINE array  == stack[2]
             i      == stack[1]
             object == Len(block) + 1
  <1>1. /\ ArgvTypes /\ StringWanted /\ Decoded(block, argv, array, i) /\ Alloc
        /\ argv' = argv /\ stack' = stack /\ pc' = "tag" /\ argv \in Seq(Seq(Bytes))
    BY DEF ArgvInv, AllocString, DecodedInv
  <1>2. array \in 1 .. Len(block) /\ Len(block) \in Nat
    BY <1>1 DEF StringWanted, LoopSaved, IsArray, Room, ArgvTypes
  <1>3. /\ Len(block') = Len(block) + 1
        /\ \A a \in 1 .. Len(block) : block'[a] = block[a]
        /\ reg'.rax = object /\ block'[object].units = <<>>
    BY <1>1, AllocKeeps, AllocMakes
  <1> HIDE DEF array, i
  <1>4. \A k \in 1 .. Len(block[array].refs) : block[array].refs[k] # object
    <2>1. \A k \in 1 .. Len(block[array].refs) : block[array].refs[k] \in 1 .. Len(block)
      BY <1>1 DEF Decoded
    <2>2. \A a \in 1 .. Len(block) : a # object
      BY <1>2
    <2>3. QED
      BY <2>1, <2>2
  <1>5. Decoded(block', argv, array, i)
    <2>1. Len(block') \in Nat /\ Len(block) <= Len(block') /\ object # array
      BY <1>2, <1>3
    <2> HIDE DEF object
    <2>2. QED
      BY <1>1, <1>2, <1>3, <1>4, <2>1, StaysBut
  <1>6. block'[array].refs = block[array].refs
    BY <1>2, <1>3
  <1>7. Unstored(stack[2], reg.rax)'
    BY <1>1, <1>3, <1>4, <1>6 DEF Unstored, array
  <1>8. QED
    BY <1>1, <1>3, <1>5, <1>7 DEF DecodedInv, array, i

LEMMA TagDecoded == ASSUME ArgvInv, ArgvInv', DecodedInv, Tag PROVE DecodedInv'
  <1> DEFINE i == stack[1]
             array == stack[2]
             object == reg.rax
             bytes == Len(argv[reg.r8 + 1])
             none == 0
             head == HeaderSize
  <1>1. /\ ArgvTypes /\ StringMade /\ Decoded(block, argv, array, i)
        /\ Unstored(array, object) /\ block[object].units = <<>> /\ argv \in Seq(Seq(Bytes))
        /\ pc' = "decode" /\ argv' = argv
    BY DEF ArgvInv, Tag, DecodedInv
  <1>2. /\ array \in 1 .. Len(block) /\ object \in 1 .. Len(block) /\ object # array
        /\ Len(block) \in Nat /\ i \in Int /\ reg.r8 \in 0 .. Len(argv) - 1
    <2>1. array \in 1 .. Len(block) /\ object \in 1 .. Len(block) /\ object # array
      BY <1>1 DEF StringMade, LoopSaved, IsArray, Room
    <2>2. Left(i) /\ reg.r8 = i + 1
      BY <1>1 DEF StringMade, LoopSaved
    <2>3. Len(block) \in Nat /\ Len(argv) \in Nat
      BY <1>1 DEF ArgvTypes
    <2> HIDE DEF i
    <2>4. i \in Int /\ reg.r8 \in 0 .. Len(argv) - 1
      BY <2>2, <2>3 DEF Left
    <2>5. QED
      BY <2>1, <2>3, <2>4
  <1>3. argv[reg.r8 + 1] \in Seq(Bytes) /\ bytes \in Int
    <2>1. reg.r8 + 1 \in 1 .. Len(argv)
      BY <1>1, <1>2
    <2>2. QED
      BY <1>1, <2>1
  <1>4. /\ block' = [block EXCEPT ![object].tag = TRUE]
        /\ reg' = [reg EXCEPT !.r11 = i, !.rdi = array, !.rdx = bytes, !.rcx = none, !.rsi = head]
        /\ stack' = <<object, i, reg.r9>> \o SubSeq(stack, 3, Len(stack))
    BY DEF Tag
  <1>5. array \in Int /\ object \in Int /\ none \in Int /\ head \in Int
    BY <1>2 DEF HeaderSize
  <1>6. /\ reg'.rdi = array /\ reg'.rcx = none /\ reg'.rsi = head /\ reg'.r8 = reg.r8
    <2>1. reg \in Registers
      BY <1>1 DEF ArgvTypes
    <2> HIDE DEF i, array, bytes, none, head
    <2>2. QED
      BY <2>1, <1>2, <1>3, <1>4, <1>5 DEF Registers
  <1>7. stack'[1] = object /\ stack'[2] = i
    <2> DEFINE b == reg.r9
               rest == SubSeq(stack, 3, Len(stack))
    <2>1. object \in Words /\ i \in Words /\ b \in Words
      BY <1>1, <1>2, <1>5 DEF Words, Bases, StringMade, LoopSaved
    <2>2. rest \in Seq(Words)
      <3>1. stack \in Seq(Words) /\ 3 \in 1 .. Len(stack)
        BY <1>1 DEF ArgvTypes, StringMade, LoopSaved
      <3>2. QED
        BY <3>1, Popped
    <2>3. stack' = <<object, i, b>> \o rest
      BY <1>4
    <2> HIDE DEF i, object, b, rest
    <2>4. QED
      BY <2>1, <2>2, <2>3, PushedThree
  <1>8. /\ Len(block') = Len(block)
        /\ \A a \in 1 .. Len(block) : a # object => block'[a] = block[a]
        /\ block'[object].tag /\ block'[object].units = <<>>
    <2> DEFINE b == [block[object] EXCEPT !.tag = TRUE]
    <2>1. block \in Seq(Blocks) /\ block[object] \in Blocks
      BY <1>1, <1>2 DEF ArgvTypes
    <2>2. b.tag = TRUE /\ b.units = <<>>
      BY <1>1, <2>1 DEF Blocks
    <2>3. block' = [block EXCEPT ![object] = b]
      BY <1>4
    <2> HIDE DEF b, object
    <2>4. QED
      BY <1>2, <2>1, <2>2, <2>3
  <1>9. Decoded(block', argv', array, i)
    <2>1. Len(block') \in Nat /\ Len(block) <= Len(block')
      BY <1>2, <1>8
    <2>2. \A k \in 1 .. Len(block[array].refs) : block[array].refs[k] # object
      BY <1>1 DEF Unstored
    <2> HIDE DEF array, i, object
    <2>3. Decoded(block', argv, array, i)
      BY <1>1, <1>2, <1>8, <2>1, <2>2, StaysBut
    <2>4. QED
      BY <1>1, <2>3
  <1>10. Unstored(reg.rdi, stack[1])'
    <2>1. block'[array] = block[array]
      BY <1>2, <1>8
    <2>2. QED
      BY <1>1, <1>6, <1>7, <2>1 DEF Unstored
  <1>11. Reading'
    <2> DEFINE s == argv[reg.r8 + 1]
               t == TextFrom(s)
    <2>1. t[1] \in Seq(Int) /\ Text(s) = t[1]
      <3>1. s \in Seq(Int)
        BY <1>3, BytesAreInts
      <3>2. 1 \in 1 .. Len(s) + 1
        BY <3>1
      <3> HIDE DEF s
      <3>3. TextFrom(s)[1] \in Seq(Int)
        BY <3>1, <3>2, TextTurns
      <3>4. QED
        BY <3>3 DEF Text
    <2>2. none + 1 = 1
      OBVIOUS
    <2> HIDE DEF t
    <2>3. <<>> \o t[1] = t[1]
      BY <2>1
    <2>4. head = HeaderSize + 2 * Len(<<>>)
      BY DEF HeaderSize
    <2>5. block'[stack'[1]].tag /\ block'[stack'[1]].units = <<>>
      BY <1>7, <1>8
    <2>6. Argument(reg.r8)' = s
      BY <1>1, <1>6 DEF Argument
    <2>7. Reading' <=> /\ block'[stack'[1]].tag
                       /\ reg'.rsi = HeaderSize + 2 * Len(block'[stack'[1]].units)
                       /\ block'[stack'[1]].units \o TextFrom(Argument(reg.r8)')[reg'.rcx + 1]
                            = Text(Argument(reg.r8)')
      BY DEF Reading
    <2> HIDE DEF s, head, none
    <2>8. QED
      BY <1>6, <2>1, <2>2, <2>3, <2>4, <2>5, <2>6, <2>7 DEF t
  <1>12. QED
    BY <1>1, <1>6, <1>7, <1>9, <1>10, <1>11 DEF DecodedInv

(* A turn of the decoder writes what the table makes of the bytes it goes  *)
(* past.                                                                   *)
LEMMA DecodeMeans ==
  ASSUME ArgvInv, DecodedInv, Decode
  PROVE  LET text == TextFrom(Argument(reg.r8))
         IN  \E units \in Seq(Int), n \in 1 .. 4 :
               /\ Emit(units, n)
               /\ reg.rcx + n + 1 \in 1 .. Len(Argument(reg.r8)) + 1
               /\ text[reg.rcx + 1] = units \o text[reg.rcx + 1 + n]
  <1> DEFINE s == Argument(reg.r8)
             k == reg.rcx + 1
             rest == SubSeq(s, k, Len(s))
             text == TextFrom(s)
             Means(units, n) == /\ units \in Seq(Int) /\ n \in 1 .. 4
                                /\ Emit(units, n)
                                /\ reg.rcx + n + 1 \in 1 .. Len(s) + 1
                                /\ text[k] = units \o text[k + n]
  <1>1. pc = "decode" /\ reg.rcx < reg.rdx
    BY DEF Decode
  <1>2. /\ s \in Seq(Int) /\ k \in 1 .. Len(s) /\ reg.rcx \in Nat /\ Lead = s[k]
        /\ IsOne   <=> BeginsOne(rest)
        /\ IsTwo   <=> BeginsTwo(rest)
        /\ IsThree <=> BeginsThree(rest)
        /\ IsFour  <=> BeginsFour(rest)
        /\ PointOfTwo = TwoPoint(s[k], s[k + 1])
        /\ PointOfThree = ThreePoint(s[k], s[k + 1], s[k + 2])
        /\ PointOfFour = FourPoint(s[k], s[k + 1], s[k + 2], s[k + 3])
    BY <1>1, CodeMatches
  <1>3. text[k] = Turn(s, k, text)
    <2>1. k \in 1 .. Len(s) + 1
      BY <1>2
    <2> HIDE DEF s, k
    <2>2. QED
      BY <1>2, <2>1, TextTurns
  <1>4. /\ BeginsTwo(rest)   => k + 1 <= Len(s)
        /\ BeginsThree(rest) => k + 2 <= Len(s)
        /\ BeginsFour(rest)  => k + 3 <= Len(s)
    BY <1>2, BeginsAt
  <1>5. s[k] \in Int
    BY <1>2
  <1>a. /\ reg.rcx + 1 + 1 \in 1 .. Len(s) + 1
        /\ k + 1 <= Len(s) => reg.rcx + 2 + 1 \in 1 .. Len(s) + 1
        /\ k + 2 <= Len(s) => reg.rcx + 3 + 1 \in 1 .. Len(s) + 1
        /\ k + 3 <= Len(s) => reg.rcx + 4 + 1 \in 1 .. Len(s) + 1
    <2> DEFINE n == Len(s)
               c == reg.rcx
    <2>1. n \in Nat /\ c \in Nat /\ c + 1 <= n
      BY <1>2
    <2> HIDE DEF n, c
    <2>2. /\ c + 1 + 1 \in 1 .. n + 1
          /\ c + 1 + 1 <= n => c + 2 + 1 \in 1 .. n + 1
          /\ c + 1 + 2 <= n => c + 3 + 1 \in 1 .. n + 1
          /\ c + 1 + 3 <= n => c + 4 + 1 \in 1 .. n + 1
      BY <2>1
    <2>3. QED
      BY <2>2 DEF n, c
  <1>b. \A d \in 1 .. 3 : k + d <= Len(s) => s[k + d] \in Int
    <2>1. k \in Nat /\ s \in Seq(Int)
      BY <1>2
    <2> HIDE DEF s, k
    <2>2. QED
      BY <2>1
  <1>c. /\ k + 1 <= Len(s) => s[k + 1] \in Int
        /\ k + 2 <= Len(s) => k + 1 <= Len(s) /\ s[k + 2] \in Int
        /\ k + 3 <= Len(s) => k + 2 <= Len(s) /\ s[k + 3] \in Int
    <2>1. 1 \in 1 .. 3 /\ 2 \in 1 .. 3 /\ 3 \in 1 .. 3
      OBVIOUS
    <2>2. k \in Nat /\ Len(s) \in Nat
      <3>1. s \in Seq(Int) /\ k \in 1 .. Len(s)
        BY <1>2
      <3> HIDE DEF s, k
      <3>2. QED
        BY <3>1
    <2> HIDE DEF s, k
    <2>3. (k + 2 <= Len(s) => k + 1 <= Len(s)) /\ (k + 3 <= Len(s) => k + 2 <= Len(s))
      BY <2>2
    <2>4. QED
      BY <1>b, <2>1, <2>3
  <1> SUFFICES \E units, n : Means(units, n)
    BY Zenon
  <1>6. CASE IsOne /\ Emit(<<Lead>>, 1)
    <2>1. text[k] = <<Lead>> \o text[k + 1]
      <3> HIDE DEF s, k, text
      <3>1. QED
        BY <1>2, <1>3, <1>6, TurnOne DEF rest
    <2>2. <<Lead>> \in Seq(Int)
      BY <1>2, <1>5
    <2>3. reg.rcx + 1 + 1 \in 1 .. Len(s) + 1 /\ 1 \in 1 .. 4
      BY <1>a
    <2>4. Means(<<Lead>>, 1)
      BY <1>6, <2>1, <2>2, <2>3
    <2>5. QED
      BY <2>4, Zenon
  <1>7. CASE IsTwo /\ Emit(<<PointOfTwo>>, 2)
    <2>1. text[k] = <<PointOfTwo>> \o text[k + 2]
      <3> HIDE DEF s, k, text
      <3>1. QED
        BY <1>2, <1>3, <1>7, TurnTwo DEF rest
    <2>2. <<PointOfTwo>> \in Seq(Int)
      <3>1. s[k + 1] \in Int
        BY <1>2, <1>4, <1>7, <1>c
      <3>2. PointOfTwo \in Int
        BY <1>2, <1>5, <3>1, SMT DEF TwoPoint
      <3>3. QED
        BY <3>2
    <2>3. reg.rcx + 2 + 1 \in 1 .. Len(s) + 1 /\ 2 \in 1 .. 4
      BY <1>2, <1>4, <1>7, <1>a
    <2>4. Means(<<PointOfTwo>>, 2)
      BY <1>7, <2>1, <2>2, <2>3
    <2>5. QED
      BY <2>4, Zenon
  <1>8. CASE IsThree /\ Emit(<<PointOfThree>>, 3)
    <2>1. text[k] = <<PointOfThree>> \o text[k + 3]
      <3> HIDE DEF s, k, text
      <3>1. QED
        BY <1>2, <1>3, <1>8, TurnThree DEF rest
    <2>2. <<PointOfThree>> \in Seq(Int)
      <3>1. s[k + 1] \in Int /\ s[k + 2] \in Int
        BY <1>2, <1>4, <1>8, <1>c
      <3>2. PointOfThree \in Int
        BY <1>2, <1>5, <3>1, SMT DEF ThreePoint
      <3>3. QED
        BY <3>2
    <2>3. reg.rcx + 3 + 1 \in 1 .. Len(s) + 1 /\ 3 \in 1 .. 4
      BY <1>2, <1>4, <1>8, <1>a
    <2>4. Means(<<PointOfThree>>, 3)
      BY <1>8, <2>1, <2>2, <2>3
    <2>5. QED
      BY <2>4, Zenon
  <1>9. CASE IsFour /\ Emit(Surrogates(PointOfFour), 4)
    <2> DEFINE u == Surrogates(PointOfFour)
    <2>1. text[k] = u \o text[k + 4]
      <3> HIDE DEF s, k, text
      <3>1. QED
        BY <1>2, <1>3, <1>9, TurnFour DEF rest
    <2>2. u \in Seq(Int)
      <3>1. s[k + 1] \in Int /\ s[k + 2] \in Int /\ s[k + 3] \in Int
        BY <1>2, <1>4, <1>9, <1>c
      <3> DEFINE p == PointOfFour
      <3>2. p \in Int
        BY <1>2, <1>5, <3>1, SMT DEF FourPoint
      <3> HIDE DEF p
      <3>3. QED
        BY <3>2 DEF Surrogates, p
    <2>3. reg.rcx + 4 + 1 \in 1 .. Len(s) + 1 /\ 4 \in 1 .. 4
      BY <1>2, <1>4, <1>9, <1>a
    <2>4. Emit(u, 4)
      BY <1>9
    <2> HIDE DEF u
    <2>5. Means(u, 4)
      BY <2>1, <2>2, <2>3, <2>4
    <2>6. QED
      BY <2>5, Zenon
  <1>10. CASE ~ (IsOne \/ IsTwo \/ IsThree \/ IsFour) /\ Emit(<<Replacement>>, SkipLead)
    <2>1. text[k] = <<Replacement>> \o text[k + 1]
      <3> HIDE DEF s, k, text
      <3>1. QED
        BY <1>2, <1>3, <1>10, TurnNone DEF rest
    <2>2. <<Replacement>> \in Seq(Int)
      BY DEF Replacement
    <2>3. reg.rcx + 1 + 1 \in 1 .. Len(s) + 1 /\ 1 \in 1 .. 4 /\ SkipLead = 1
      BY <1>a DEF SkipLead
    <2>4. Means(<<Replacement>>, 1)
      BY <1>10, <2>1, <2>2, <2>3
    <2>5. QED
      BY <2>4, Zenon
  <1>11. QED
    BY <1>6, <1>7, <1>8, <1>9, <1>10 DEF Decode

LEMMA Joined ==
  ASSUME NEW S, NEW a \in Seq(S), NEW b \in Seq(S), NEW c \in Seq(S)
  PROVE  /\ (a \o b) \o c = a \o (b \o c)
         /\ a \o b \in Seq(S) /\ Len(a \o b) = Len(a) + Len(b)
  OBVIOUS

LEMMA JoinedUnits ==
  \A a, b, c \in Seq(Int) : (a \o b) \o c = a \o (b \o c) /\ Len(a \o b) = Len(a) + Len(b)
  <1> TAKE a, b, c \in Seq(Int)
  <1> QED
    OBVIOUS

LEMMA DecodeDecoded == ASSUME ArgvInv, ArgvInv', DecodedInv, Decode PROVE DecodedInv'
  <1> DEFINE object == stack[1]
             array  == reg.rdi
             s      == Argument(reg.r8)
             text   == TextFrom(s)
             done   == block[object].units
             c      == reg.rcx
  <1>1. /\ ArgvTypes /\ Decoding /\ Decoded(block, argv, array, stack[2])
        /\ Unstored(array, object) /\ Reading /\ argv \in Seq(Seq(Bytes))
        /\ pc = "decode" /\ argv' = argv /\ wild' = FALSE /\ c < reg.rdx
    BY DEF ArgvInv, ArgvTypes, Decode, DecodedInv
  <1>2. PICK units \in Seq(Int), n \in 1 .. 4 :
          /\ Emit(units, n)
          /\ c + n + 1 \in 1 .. Len(s) + 1
          /\ text[c + 1] = units \o text[c + 1 + n]
    BY DecodeMeans
  <1>3. /\ s \in Seq(Int) /\ c \in Nat /\ c + 1 \in 1 .. Len(s)
    BY <1>1, CodeMatches
  <1>4. text[c + 1 + n] \in Seq(Int)
    <2>1. c + 1 + n \in 1 .. Len(s) + 1
      BY <1>2, <1>3
    <2> HIDE DEF s, c
    <2>2. QED
      BY <1>3, <2>1, TextTurns
  <1> DEFINE end   == reg.rsi + 2 * Len(units)
             next  == c + n
             junk  == "junk"
             whole == done \o units
  <1>5. /\ block' = [block EXCEPT ![object].units = whole]
        /\ reg' = [reg EXCEPT !.rsi = end, !.rcx = next, !.r9 = junk, !.rax = Junk, !.r11 = Junk]
        /\ pc' = pc /\ stack' = stack
    BY <1>1, <1>2 DEF Emit, Wild
  <1>6. /\ array \in 1 .. Len(block) /\ object \in 1 .. Len(block) /\ object # array
        /\ Len(block) \in Nat /\ block[object] \in Blocks /\ reg.rsi \in Int
    BY <1>1 DEF Decoding, IsArray, Room, ArgvTypes, Registers
  <1>7. /\ reg'.rsi = end /\ reg'.rcx = next /\ reg'.rdi = array /\ reg'.r8 = reg.r8
    <2>1. end \in Int /\ next \in Int /\ junk \in Bases /\ reg \in Registers
      <3>1. end \in Int
        BY <1>6
      <3>2. next \in Int
        <4> HIDE DEF c
        <4>1. QED
          BY <1>3
      <3>3. junk \in Bases /\ reg \in Registers
        BY <1>1 DEF ArgvTypes, Bases
      <3>4. QED
        BY <3>1, <3>2, <3>3
    <2> HIDE DEF end, next, junk
    <2>2. QED
      BY <1>5, <2>1, JunkIsInt DEF Registers
  <1>8. done \in Seq(Int)
    BY <1>6 DEF Blocks
  <1>9. /\ Len(block') = Len(block)
        /\ \A a \in 1 .. Len(block) : a # object => block'[a] = block[a]
        /\ block'[object].tag = block[object].tag /\ block'[object].units = whole
    <2> DEFINE b == [block[object] EXCEPT !.units = whole]
    <2>1. block \in Seq(Blocks)
      BY <1>1 DEF ArgvTypes
    <2> HIDE DEF whole, object
    <2>2. b.tag = block[object].tag /\ b.units = whole
      BY <1>6 DEF Blocks
    <2>3. block' = [block EXCEPT ![object] = b]
      BY <1>5
    <2> HIDE DEF b
    <2>4. QED
      BY <1>6, <2>1, <2>2, <2>3
  <1>10. Decoded(block', argv', array, stack[2])
    <2>1. Len(block') \in Nat /\ Len(block) <= Len(block')
      BY <1>6, <1>9
    <2>2. \A k \in 1 .. Len(block[array].refs) : block[array].refs[k] # object
      BY <1>1 DEF Unstored
    <2> HIDE DEF array, object, whole
    <2>3. Decoded(block', argv, array, stack[2])
      BY <1>1, <1>6, <1>9, <2>1, <2>2, StaysBut
    <2>4. QED
      BY <1>1, <2>3
  <1>11. Unstored(reg.rdi, stack[1])'
    <2>1. block'[array] = block[array]
      BY <1>6, <1>9
    <2>2. QED
      BY <1>1, <1>5, <1>7, <2>1 DEF Unstored
  <1>12. Reading'
    <2>1. /\ block[object].tag /\ reg.rsi = HeaderSize + 2 * Len(done)
          /\ done \o text[c + 1] = Text(s)
      BY <1>1 DEF Reading
    <2>2. Argument(reg.r8)' = s
      BY <1>1, <1>7 DEF Argument
    <2>3. next + 1 = c + 1 + n
      BY <1>3
    <2> DEFINE ahead == text[c + 1 + n]
    <2>4. text[next + 1] = ahead /\ ahead \in Seq(Int) /\ text[c + 1] = units \o ahead
      BY <1>2, <1>4, <2>3
    <2> HIDE DEF ahead, text, done
    <2>5. whole \o ahead = Text(s) /\ Len(whole) = Len(done) + Len(units)
      <3>1. (done \o units) \o ahead = done \o (units \o ahead)
            /\ Len(done \o units) = Len(done) + Len(units)
        <4>1. done \in Seq(Int) /\ units \in Seq(Int) /\ ahead \in Seq(Int)
          BY <1>8, <2>4
        <4> HIDE DEF whole
        <4>2. QED
          BY <4>1, JoinedUnits, Zenon
      <3>2. QED
        BY <2>1, <2>4, <3>1
    <2>6. end = HeaderSize + 2 * Len(whole)
      <3>1. Len(done) \in Nat /\ Len(units) \in Nat
        BY <1>8
      <3>2. QED
        BY <2>1, <2>5, <3>1 DEF HeaderSize
    <2> HIDE DEF whole, end, next, s
    <2>7. QED
      BY <1>5, <1>7, <1>9, <2>1, <2>2, <2>4, <2>5, <2>6 DEF Reading, text, object
  <1>13. QED
    BY <1>1, <1>5, <1>7, <1>10, <1>11, <1>12 DEF DecodedInv

(* The string stored is the next argument, whole: nothing is ahead of the  *)
(* decoder.                                                                *)
LEMMA StoreDecoded == ASSUME ArgvInv, ArgvInv', DecodedInv, Store PROVE DecodedInv'
  <1> DEFINE object == stack[1]
             i      == stack[2]
             array  == reg.rdi
             base   == stack[3]
             index  == i + 1
             units  == (reg.rsi - HeaderSize) \div 2
             s      == Argument(reg.r8)
             old    == block[array].refs
             refs   == Append(old, object)
  <1>1. /\ ArgvTypes /\ Decoding /\ Decoded(block, argv, array, i)
        /\ Unstored(array, object) /\ Reading /\ argv \in Seq(Seq(Bytes))
        /\ argv' = argv /\ wild' = FALSE /\ reg.rcx >= reg.rdx
    BY DEF ArgvInv, ArgvTypes, Store, DecodedInv
  <1>2. /\ i \in Int /\ 0 <= i /\ i <= Len(argv) - 2 /\ base = "argv" /\ Len(argv) \in Nat
        /\ array \in 1 .. Len(block) /\ object \in 1 .. Len(block) /\ object # array
        /\ Len(block) \in Nat /\ block[array].length = Len(argv) - 1
        /\ reg.r8 = i + 1 /\ reg.rdx = Len(s) /\ reg.rcx \in 0 .. reg.rdx
        /\ reg.rsi \in Int
    <2>1. Left(i) /\ base = "argv" /\ IsArray(array) /\ object # array /\ reg.r8 = i + 1
          /\ reg.rdx = Len(s) /\ reg.rcx \in 0 .. reg.rdx /\ object \in 1 .. Len(block)
      BY <1>1 DEF Decoding, Room
    <2>2. array \in 1 .. Len(block) /\ block[array].length = Len(argv) - 1
      BY <2>1 DEF IsArray, Room
    <2>3. Len(argv) \in Nat /\ Len(block) \in Nat /\ reg.rsi \in Int
      BY <1>1 DEF ArgvTypes, Registers
    <2> HIDE DEF i
    <2>4. i \in Int /\ 0 <= i /\ i <= Len(argv) - 2
      BY <2>1, <2>3 DEF Left
    <2>5. QED
      BY <2>1, <2>2, <2>3, <2>4
  <1>3. /\ block' = [block EXCEPT ![object].length = units, ![array].refs = refs]
        /\ reg' = [reg EXCEPT !.rax = object, !.r9 = base, !.r11 = index, !.rcx = units]
        /\ pc' = IF i + 1 < block[array].length THEN "arg" ELSE "finish"
    BY <1>1, Zenon DEF Store, Wild
  <1>4. /\ block \in Seq(Blocks) /\ block[array] \in Blocks /\ block[object] \in Blocks
        /\ old \in Seq(Words) /\ block[object].units \in Seq(Int) /\ object \in Words
    <2>1. block \in Seq(Blocks)
      BY <1>1 DEF ArgvTypes
    <2>2. object \in Words
      BY <1>2 DEF Words
    <2>3. array \in 1 .. Len(block) /\ object \in 1 .. Len(block)
      BY <1>2
    <2>4. block[array] \in Blocks /\ block[object] \in Blocks
      <3> HIDE DEF array, object
      <3>1. QED
        BY <2>1, <2>3
    <2>5. QED
      BY <2>1, <2>2, <2>4 DEF Blocks
  <1>5. block[object].tag /\ block[object].units = Text(s) /\ units = Len(block[object].units)
    <2> DEFINE text == TextFrom(s)
               done == block[object].units
               n    == Len(s)
               m    == Len(done)
    <2>1. /\ block[object].tag /\ reg.rsi = HeaderSize + 2 * m
          /\ done \o text[reg.rcx + 1] = Text(s)
      BY <1>1 DEF Reading
    <2>2. s \in Seq(Int)
      <3>1. reg.r8 + 1 \in 1 .. Len(argv)
        <4>1. i \in Int /\ 0 <= i /\ i <= Len(argv) - 2 /\ Len(argv) \in Nat /\ reg.r8 = i + 1
          BY <1>2
        <4> HIDE DEF i
        <4>2. QED
          BY <4>1
      <3>2. s \in Seq(Bytes)
        BY <1>1, <3>1 DEF Argument
      <3>3. QED
        BY <3>2, BytesAreInts
    <2>3. n \in Nat /\ n + 1 \in 1 .. n + 1 /\ n + 1 > n
      BY <2>2
    <2>4. reg.rcx = n
      BY <1>1, <1>2, <2>3
    <2>5. text[n + 1] = <<>>
      <3>1. n + 1 \in 1 .. Len(s) + 1 /\ n + 1 > Len(s)
        BY <2>3
      <3> HIDE DEF s, n
      <3>2. text[n + 1] = Turn(s, n + 1, text)
        BY <2>2, <3>1, TextTurns
      <3>3. QED
        BY <3>1, <3>2 DEF Turn
    <2>6. m \in Nat /\ done \o <<>> = done
      BY <1>4
    <2> HIDE DEF m, done, text, n
    <2>7. done = Text(s)
      BY <2>1, <2>4, <2>5, <2>6
    <2>8. units = m
      BY <2>1, <2>6 DEF HeaderSize
    <2>9. QED
      BY <2>1, <2>7, <2>8 DEF done, m
  <1>6. /\ reg'.rdi = array /\ reg'.r11 = index /\ units \in Int
    <2>1. /\ units \in Int /\ object \in Int /\ base \in Bases /\ index \in Int
          /\ reg \in Registers
      <3>1. units \in Int
        BY <1>2 DEF HeaderSize
      <3>2. object \in Int /\ index \in Int
        BY <1>2
      <3>3. base \in Bases
        BY <1>2 DEF Bases
      <3>4. QED
        BY <1>1, <3>1, <3>2, <3>3 DEF ArgvTypes
    <2> HIDE DEF object, base, index, units
    <2>2. QED
      BY <2>1, <1>3 DEF Registers
  <1>7. /\ Len(block') = Len(block)
        /\ \A a \in 1 .. Len(block) : a # object /\ a # array => block'[a] = block[a]
        /\ block'[array].refs = refs /\ block'[array].length = block[array].length
        /\ block'[object].tag = block[object].tag /\ block'[object].units = block[object].units
        /\ block'[object].length = units
    <2> DEFINE a == [block[array] EXCEPT !.refs = refs]
               b == [block[object] EXCEPT !.length = units]
    <2>1. block' = [[block EXCEPT ![object] = b] EXCEPT ![array] = a]
      <3>1. [block EXCEPT ![object] = b][array] = block[array]
        BY <1>2, <1>4
      <3>2. QED
        BY <1>2, <1>3, <1>4, <3>1
    <2> HIDE DEF units, refs
    <2>2. a.refs = refs /\ a.length = block[array].length
      BY <1>4 DEF Blocks
    <2>3. b.tag = block[object].tag /\ b.units = block[object].units /\ b.length = units
      BY <1>4 DEF Blocks
    <2> HIDE DEF a, b, object, array
    <2>4. /\ Len(block') = Len(block) /\ block'[array] = a /\ block'[object] = b
          /\ \A c \in 1 .. Len(block) : c # object /\ c # array => block'[c] = block[c]
      BY <1>2, <1>4, <2>1
    <2>5. QED
      BY <2>2, <2>3, <2>4
  <1>8. /\ Len(old) = i /\ Len(refs) = index /\ refs[index] = object
        /\ \A k \in 1 .. i : refs[k] = old[k] /\ old[k] # object
    <2>1. Len(old) = i
      BY <1>1 DEF Decoded
    <2>2. \A k \in 1 .. i : old[k] # object
      BY <1>1, <2>1 DEF Unstored
    <2> HIDE DEF old, object
    <2>3. Len(refs) = Len(old) + 1 /\ refs[Len(old) + 1] = object
          /\ \A k \in 1 .. Len(old) : refs[k] = old[k]
      BY <1>4
    <2>4. QED
      BY <2>1, <2>2, <2>3
  <1>9. Decoded(block', argv', array, index)
    <2> SUFFICES ASSUME NEW k \in 1 .. index
                 PROVE  /\ refs[k] \in 1 .. Len(block') /\ refs[k] # array
                        /\ block'[refs[k]].tag /\ block'[refs[k]].units = Text(argv[k + 1])
                        /\ block'[refs[k]].length = Len(block'[refs[k]].units)
      <3> HIDE DEF refs, array, index
      <3>1. QED
        BY <1>1, <1>7, <1>8 DEF Decoded
    <2>1. CASE k = index
      <3>1. refs[k] = object
        BY <1>8, <2>1
      <3>2. s = argv[k + 1]
        BY <1>2, <2>1 DEF Argument
      <3> HIDE DEF refs, s, index, object, units
      <3>3. QED
        BY <1>2, <1>5, <1>7, <3>1, <3>2
    <2>2. CASE k # index
      <3>1. k \in 1 .. i
        BY <1>2, <2>2
      <3>2. refs[k] = old[k] /\ old[k] # object
        BY <1>8, <3>1
      <3>3. /\ old[k] \in 1 .. Len(block) /\ old[k] # array
            /\ block[old[k]].tag /\ block[old[k]].units = Text(argv[k + 1])
            /\ block[old[k]].length = Len(block[old[k]].units)
        BY <1>1, <3>1 DEF Decoded
      <3> HIDE DEF refs, old, object, array, units
      <3>4. block'[old[k]] = block[old[k]]
        BY <1>7, <3>2, <3>3
      <3>5. QED
        BY <1>7, <3>2, <3>3, <3>4
    <2>3. QED
      BY <2>1, <2>2
  <1>10. pc' = "finish" => Complete(reg.rdi)'
    <2> SUFFICES ASSUME pc' = "finish" PROVE Complete(reg.rdi)'
      OBVIOUS
    <2>1. index = Len(argv) - 1
      BY <1>2, <1>3
    <2>2. Users' = index
      <3>1. argv # <<>>
        BY <1>2
      <3> HIDE DEF index
      <3>2. QED
        BY <1>1, <2>1, <3>1 DEF Users
    <2>3. array \in 1 .. Len(block') /\ block'[array].length = index
      BY <1>2, <1>7, <2>1
    <2> HIDE DEF index, array
    <2>4. QED
      BY <1>6, <1>9, <2>2, <2>3 DEF Complete
  <1>11. pc' = "arg" => Decoded(block', argv', reg'.rdi, reg'.r11)
    BY <1>6, <1>9
  <1>12. pc' \in {"arg", "finish"} /\ argv' \in Seq(Seq(Bytes))
    BY <1>1, <1>3
  <1>13. QED
    BY <1>10, <1>11, <1>12 DEF DecodedInv

LEMMA FinishDecoded == ASSUME ArgvInv, DecodedInv, Finish PROVE DecodedInv'
  <1> DEFINE array == reg.rdi
  <1>1. /\ reg \in Registers /\ array \in Int /\ reg' = [reg EXCEPT !.rax = array]
        /\ pc' = "done" /\ argv' = argv /\ block' = block /\ Complete(array)
        /\ argv \in Seq(Seq(Bytes))
    BY DEF ArgvInv, ArgvTypes, Finish, Registers, DecodedInv
  <1> HIDE DEF array
  <1>2. reg'.rax = array
    BY <1>1 DEF Registers
  <1>3. Complete(reg.rax)'
    BY <1>1, <1>2 DEF Complete, Users
  <1>4. QED
    BY <1>1, <1>3 DEF DecodedInv

(* The decoder implements the table.  For every cap, any number of         *)
(* arguments up to it and any bytes in them below 248: Main gets exactly   *)
(* the user's arguments, in order, each a tagged string of the UTF-16 its  *)
(* bytes stand for.                                                        *)
THEOREM DecodedTheorem ==
  ASSUME Tame, TameBytes PROVE Spec => []ArgumentsAreDecoded
  <1>1. Init => DecodedInv
    BY InitDecoded
  <1>2. ArgvInv /\ ArgvInv' /\ DecodedInv /\ [Next]_vars => DecodedInv'
    <2> SUFFICES ASSUME ArgvInv, ArgvInv', DecodedInv, [Next]_vars PROVE DecodedInv'
      OBVIOUS
    <2>1. CASE UNCHANGED vars
      BY <2>1 DEF vars, DecodedInv, Complete, Users, Unstored, Reading, Argument
    <2>2. CASE Next
      BY <2>2, StartBuildDecoded, AllocArrayDecoded, HeaderDecoded, ArgDecoded,
         AllocStringDecoded, TagDecoded, DecodeDecoded, StoreDecoded, FinishDecoded DEF Next
    <2>3. QED
      BY <2>1, <2>2
  <1>3. ArgvInv /\ DecodedInv => ArgumentsAreDecoded
    <2> SUFFICES ASSUME ArgvInv, DecodedInv, pc = "done" PROVE ArgumentsAreDecoded
      BY DEF ArgumentsAreDecoded
    <2>1. stack = <<>> /\ Complete(reg.rax)
      BY DEF ArgvInv, ArgvTypes, DecodedInv
    <2>2. QED
      BY <2>1 DEF ArgumentsAreDecoded, Complete, Users, Decoded
  <1>4. Spec => []ArgvInv
    BY ArgvInvariant
  <1>5. QED
    BY <1>1, <1>2, <1>3, <1>4, PTL DEF Spec
=============================================================================
