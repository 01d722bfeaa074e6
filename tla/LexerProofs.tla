---------------------------- MODULE LexerProofs ----------------------------
(***************************************************************************)
(* Proofs about Lexer, for every read buffer, block and longest number:    *)
(* what get_lex() returns are the lexemes of the stream.                   *)
(*                                                                         *)
(* The blocks of the buffer hold the characters added to it (BufferOK), so *)
(* that its string is a part of the stream.  The lexemes of a stream are   *)
(* put together place by place (SaidMore), and a place says the same       *)
(* whatever comes behind it (SaidStays).  The invariant then is that what  *)
(* was returned is what the stream says up to SaidTo, and each state knows *)
(* of the bytes before it what it needs to say the next lexeme (StateOK).  *)
(***************************************************************************)
EXTENDS Lexer, ListProofs

USE BlockAssumption

-----------------------------------------------------------------------------
(* The buffer *)

Cell == Text \cup {Garbage}
Block == [0 .. BUFFER_BLOCK_SIZE - 1 -> Cell]

\* How many characters the blocks before block i hold.
Before(i) == (i - 1) * BUFFER_BLOCK_SIZE

\* The blocks are full but for the last, which has one character or more.
BufferOK(b) ==
  /\ b.blocks \in Seq(Block) /\ b.count_sym \in Nat
  /\ b.blocks = <<>> => b.count_sym = 0
  /\ b.blocks # <<>> => b.count_sym - Before(Len(b.blocks)) \in 1 .. BUFFER_BLOCK_SIZE
  /\ \A i \in 1 .. Len(b.blocks), pos \in 0 .. BUFFER_BLOCK_SIZE - 1 :
       b.blocks[i][pos] = Garbage <=> Before(i) + pos >= b.count_sym

LEMMA BeforeSteps ==
  ASSUME NEW i \in Nat \ {0}
  PROVE  /\ Before(i) \in Nat
         /\ Before(i + 1) = Before(i) + BUFFER_BLOCK_SIZE
         /\ \A j \in 1 .. i : Before(j) \in Nat /\ Before(j) <= Before(i)
<1>1. /\ Before(i) \in Nat /\ Before(i + 1) = Before(i) + BUFFER_BLOCK_SIZE
  BY DEF Before
<1>2. ASSUME NEW j \in 1 .. i PROVE Before(j) \in Nat /\ Before(j) <= Before(i)
  <2>1. j - 1 \in Nat /\ i - 1 \in Nat /\ j - 1 <= i - 1
    OBVIOUS
  <2>2. BUFFER_BLOCK_SIZE * (j - 1) <= BUFFER_BLOCK_SIZE * (i - 1)
    BY <2>1, TimesGrows
  <2> QED
    BY <2>1, <2>2 DEF Before
<1> QED
  BY <1>1, <1>2

LEMMA WellFormedIs ==
  ASSUME NEW b, b.blocks \in Seq(Block), b.count_sym \in Nat
  PROVE  BufferOK(b) <=> WellFormed(b)
<1> DEFINE n == Len(b.blocks)
<1>1. n \in Nat /\ DOMAIN b.blocks = 1 .. n /\ (b.blocks = <<>> <=> n = 0)
  BY LenProperties, EmptySeq
<1> HIDE DEF n
<1>2. (n - 1) * BUFFER_BLOCK_SIZE = n * BUFFER_BLOCK_SIZE - BUFFER_BLOCK_SIZE
  BY <1>1
<1>3. n * BUFFER_BLOCK_SIZE \in Int
  BY <1>1
<1>4. CASE n = 0
  BY <1>1, <1>4 DEF BufferOK, WellFormed, n, Before
<1>5. CASE n # 0
  <2>1. b.count_sym \in n * BUFFER_BLOCK_SIZE - (BUFFER_BLOCK_SIZE - 1) .. n * BUFFER_BLOCK_SIZE
          <=> b.count_sym - Before(n) \in 1 .. BUFFER_BLOCK_SIZE
    BY SMTT(30), <1>1, <1>2, <1>3 DEF Before
  <2> QED
    BY <1>1, <1>5, <2>1 DEF BufferOK, WellFormed, n, Before
<1> QED
  BY <1>4, <1>5

\* What is copied of a block is the characters added to it.
LEMMA CopiedIs ==
  ASSUME NEW b, BufferOK(b), NEW i \in 1 .. Len(b.blocks)
  PROVE  /\ CopiedSize(b, i) \in 1 .. BUFFER_BLOCK_SIZE
         /\ Before(i) + CopiedSize(b, i) <= b.count_sym
         /\ Copied(b, i) = [k \in 1 .. CopiedSize(b, i) |-> b.blocks[i][k - 1]]
         /\ Copied(b, i) \in Seq(Text)
<1> DEFINE n == Len(b.blocks)
           size == CopiedSize(b, i)
<1>1. n \in Nat \ {0} /\ i \in 1 .. n /\ b.blocks # <<>> /\ b.count_sym \in Nat
      /\ b.blocks[i] \in Block
  BY LenProperties, EmptySeq, ElementOfSeq DEF BufferOK
<1>2. b.count_sym - Before(n) \in 1 .. BUFFER_BLOCK_SIZE
  BY <1>1 DEF BufferOK
<1>3. size = IF i = n THEN b.count_sym - Before(n) ELSE BUFFER_BLOCK_SIZE
  BY DEF CopiedSize, Before
<1>a. \A pos \in 0 .. BUFFER_BLOCK_SIZE - 1 :
        b.blocks[i][pos] = Garbage <=> Before(i) + pos >= b.count_sym
  BY <1>1 DEF BufferOK
<1> HIDE DEF n, size
<1>4. size \in 1 .. BUFFER_BLOCK_SIZE
  BY <1>2, <1>3
<1>5. Before(i) \in Nat /\ Before(n) \in Nat
  BY <1>1, BeforeSteps
<1>6. Before(i) + size <= b.count_sym
  <2>1. CASE i = n
    BY <1>1, <1>3, <1>5, <2>1
  <2>2. CASE i # n
    <3>1. i + 1 \in 1 .. n /\ i \in Nat \ {0}
      BY <1>1, <2>2
    <3>2. Before(i + 1) <= Before(n) /\ Before(i + 1) = Before(i) + BUFFER_BLOCK_SIZE
      BY <1>1, <3>1, BeforeSteps
    <3> QED
      BY <1>1, <1>2, <1>3, <1>5, <2>2, <3>2
  <2> QED
    BY <2>1, <2>2
<1>7. Copied(b, i) = [k \in 1 .. size |-> b.blocks[i][k - 1]]
  BY <1>4 DEF Copied, size
<1>8. ASSUME NEW k \in 1 .. size PROVE b.blocks[i][k - 1] \in Text
  <2>1. k - 1 \in 0 .. BUFFER_BLOCK_SIZE - 1 /\ Before(i) + (k - 1) < b.count_sym
    BY <1>1, <1>4, <1>5, <1>6
  <2>2. b.blocks[i][k - 1] \in Cell
    BY <1>1, <2>1 DEF Block
  <2>3. b.blocks[i][k - 1] # Garbage
    BY <1>1, <1>5, <1>a, <2>1
  <2> QED
    BY <2>2, <2>3 DEF Cell
<1>9. Copied(b, i) \in Seq(Text)
  BY <1>4, <1>7, <1>8
<1> QED
  BY <1>4, <1>6, <1>7, <1>9 DEF size

LEMMA NewBufferOK == BufferOK(NewBuffer) /\ ConvertToString(NewBuffer) = <<>>
<1>1. NewBuffer.blocks = <<>> /\ NewBuffer.count_sym = 0
  BY DEF NewBuffer
<1>2. <<>> \in Seq(Block) /\ Len(<<>>) = 0
  BY EmptySeq
<1>3. BufferOK(NewBuffer)
  BY <1>1, <1>2 DEF BufferOK
<1>4. [i \in DOMAIN NewBuffer.blocks |-> Copied(NewBuffer, i)] = <<>>
  BY <1>1
<1> QED
  BY <1>3, <1>4, FlattenNone DEF ConvertToString

LEMMA StringType ==
  ASSUME NEW b, BufferOK(b)
  PROVE  /\ [i \in DOMAIN b.blocks |-> Copied(b, i)] \in Seq(Seq(Text))
         /\ Len([i \in DOMAIN b.blocks |-> Copied(b, i)]) = Len(b.blocks)
         /\ ConvertToString(b) \in Seq(Text)
<1>1. DOMAIN b.blocks = 1 .. Len(b.blocks) /\ Len(b.blocks) \in Nat
  BY LenProperties DEF BufferOK
<1>2. [i \in DOMAIN b.blocks |-> Copied(b, i)] \in Seq(Seq(Text))
  BY <1>1, CopiedIs
<1>3. Len([i \in DOMAIN b.blocks |-> Copied(b, i)]) = Len(b.blocks)
  BY <1>1, <1>2
<1> QED
  BY <1>2, <1>3, FlattenType DEF ConvertToString

\* Where add_to_buffer() puts a character.
LEMMA LastPlace ==
  ASSUME NEW b, BufferOK(b)
  PROVE  LET pos == b.count_sym % BUFFER_BLOCK_SIZE
             n   == Len(b.blocks)
         IN  /\ pos \in 0 .. BUFFER_BLOCK_SIZE - 1
             /\ b.blocks = <<>> \/ pos = 0 => b.count_sym = Before(n + 1)
             /\ ~(b.blocks = <<>> \/ pos = 0) => b.count_sym = Before(n) + pos
<1> DEFINE pos == b.count_sym % BUFFER_BLOCK_SIZE
           n   == Len(b.blocks)
           Where == /\ b.blocks = <<>> \/ pos = 0 => b.count_sym = Before(n + 1)
                    /\ ~(b.blocks = <<>> \/ pos = 0) => b.count_sym = Before(n) + pos
<1>1. pos \in 0 .. BUFFER_BLOCK_SIZE - 1
  BY DivMod DEF BufferOK
<1> SUFFICES Where
  BY <1>1
<1>2. n \in Nat /\ (b.blocks = <<>> <=> n = 0) /\ b.count_sym \in Nat
  BY LenProperties, EmptySeq DEF BufferOK
<1>a. /\ b.blocks = <<>> => b.count_sym = 0
      /\ b.blocks # <<>> => b.count_sym - Before(n) \in 1 .. BUFFER_BLOCK_SIZE
  BY DEF BufferOK
<1>b. \A q \in Nat, r \in 0 .. BUFFER_BLOCK_SIZE - 1 :
        b.count_sym = BUFFER_BLOCK_SIZE * q + r => pos = r
  BY <1>2, ModIs
<1> HIDE DEF n, pos
<1>3. CASE n = 0
  BY <1>1, <1>2, <1>3, <1>a DEF Before
<1>4. CASE n # 0
  <2>1. PICK k \in 1 .. BUFFER_BLOCK_SIZE : k = b.count_sym - Before(n)
    BY <1>2, <1>4, <1>a
  <2>2. n \in Nat \ {0} /\ b.blocks # <<>>
    BY <1>2, <1>4
  <2>3. Before(n) \in Nat /\ Before(n + 1) = Before(n) + BUFFER_BLOCK_SIZE
    BY <2>2, BeforeSteps
  <2>4. b.count_sym = Before(n) + k
    BY <1>2, <2>1, <2>3
  <2>5. CASE k = BUFFER_BLOCK_SIZE
    <3>1. b.count_sym = BUFFER_BLOCK_SIZE * n + 0
      BY <2>2, <2>4, <2>5 DEF Before
    <3>2. pos = 0
      BY <1>2, <1>b, <3>1
    <3> QED
      BY <2>3, <2>4, <2>5, <3>2
  <2>6. CASE k # BUFFER_BLOCK_SIZE
    <3>1. b.count_sym = BUFFER_BLOCK_SIZE * (n - 1) + k
      BY <2>2, <2>4 DEF Before
    <3>2. n - 1 \in Nat /\ k \in 0 .. BUFFER_BLOCK_SIZE - 1
      BY <2>2, <2>6
    <3>3. pos = k
      BY <1>b, <3>1, <3>2
    <3> QED
      BY <2>2, <2>4, <3>3
  <2> QED
    BY <2>5, <2>6
<1> QED
  BY <1>3, <1>4

\* A new block for the character
LEMMA AddsBlock ==
  ASSUME NEW b, BufferOK(b), NEW char \in Text,
         b.blocks = <<>> \/ b.count_sym % BUFFER_BLOCK_SIZE = 0
  PROVE  /\ BufferOK(AddToBuffer(b, char))
         /\ ConvertToString(AddToBuffer(b, char)) = Append(ConvertToString(b), char)
<1> DEFINE n == Len(b.blocks)
           a == AddToBuffer(b, char)
           block == [NewBlock EXCEPT ![0] = char]
<1>1. n \in Nat /\ b.count_sym = Before(n + 1) /\ b.count_sym \in Nat /\ b.blocks \in Seq(Block)
      /\ \A i \in 1 .. n : b.blocks[i] \in Block
  BY LastPlace, LenProperties, ElementOfSeq DEF BufferOK
<1>a. 0 \in 0 .. BUFFER_BLOCK_SIZE - 1 /\ b.count_sym % BUFFER_BLOCK_SIZE = 0
  <2>1. CASE b.blocks = <<>>
    <3>1. b.count_sym = 0 /\ 0 = BUFFER_BLOCK_SIZE * 0 + 0
      BY <2>1 DEF BufferOK
    <3> QED
      BY <3>1, ModIs
  <2> QED
    BY <2>1
<1>2. /\ block \in Block /\ block[0] = char /\ char # Garbage
      /\ \A pos \in 0 .. BUFFER_BLOCK_SIZE - 1 : pos # 0 => block[pos] = Garbage
  BY <1>a DEF NewBlock, Block, Cell, Text, Garbage
<1>3. /\ a.count_sym = b.count_sym + 1
      /\ a.blocks = [Append(b.blocks, NewBlock) EXCEPT ![n + 1][0] = char]
  <2>1. NewBlock \in Block
    BY DEF NewBlock, Block, Cell
  <2>2. Len(Append(b.blocks, NewBlock)) = n + 1
    BY <1>1, <2>1, AppendProperties
  <2> QED
    BY <1>a, <2>2 DEF AddToBuffer
<1>4. /\ a.blocks \in Seq(Block) /\ Len(a.blocks) = n + 1 /\ a.blocks[n + 1] = block
      /\ \A i \in 1 .. n : a.blocks[i] = b.blocks[i]
  <2> DEFINE room == Append(b.blocks, NewBlock)
  <2>1. NewBlock \in Block
    BY DEF NewBlock, Block, Cell
  <2>2. /\ room \in Seq(Block) /\ Len(room) = n + 1 /\ room[n + 1] = NewBlock
        /\ \A i \in 1 .. n : room[i] = b.blocks[i]
    BY <1>1, <2>1, AppendProperties
  <2> HIDE DEF room, n, block, a
  <2>3. a.blocks = [room EXCEPT ![n + 1] = block]
    BY <1>3, <2>2 DEF room, block
  <2>4. a.blocks \in Seq(Block) /\ Len(a.blocks) = n + 1
    BY <1>1, <1>2, <2>2, <2>3, ExceptSeq
  <2> QED
    BY <1>1, <2>2, <2>3, <2>4
<1> HIDE DEF n, a, block
<1>5. BufferOK(a)
  <2>1. \A i \in 1 .. n : Before(i) \in Nat /\ Before(i) + BUFFER_BLOCK_SIZE <= Before(n + 1)
    <3> SUFFICES ASSUME NEW i \in 1 .. n
                 PROVE  Before(i) \in Nat /\ Before(i) + BUFFER_BLOCK_SIZE <= Before(n + 1)
      OBVIOUS
    <3>1. i + 1 \in 1 .. n + 1 /\ i \in Nat \ {0} /\ n + 1 \in Nat \ {0}
      BY <1>1
    <3> QED
      BY <3>1, BeforeSteps
  <2>2. \A i \in 1 .. n, pos \in 0 .. BUFFER_BLOCK_SIZE - 1 :
          a.blocks[i][pos] # Garbage /\ Before(i) + pos < a.count_sym
    <3> SUFFICES ASSUME NEW i \in 1 .. n, NEW pos \in 0 .. BUFFER_BLOCK_SIZE - 1
                 PROVE  a.blocks[i][pos] # Garbage /\ Before(i) + pos < a.count_sym
      OBVIOUS
    <3>1. Before(i) + pos < b.count_sym /\ Before(i) \in Nat
      BY <1>1, <2>1
    <3>2. b.blocks[i][pos] = Garbage <=> Before(i) + pos >= b.count_sym
      BY DEF BufferOK, n
    <3> QED
      BY <1>1, <1>3, <1>4, <3>1, <3>2
  <2>3. \A pos \in 0 .. BUFFER_BLOCK_SIZE - 1 :
          a.blocks[n + 1][pos] = Garbage <=> Before(n + 1) + pos >= a.count_sym
    <3> SUFFICES ASSUME NEW pos \in 0 .. BUFFER_BLOCK_SIZE - 1
                 PROVE  block[pos] = Garbage <=> b.count_sym + pos >= b.count_sym + 1
      BY <1>1, <1>3, <1>4
    <3> QED
      BY <1>1, <1>2
  <2>4. \A i \in 1 .. n + 1, pos \in 0 .. BUFFER_BLOCK_SIZE - 1 :
          a.blocks[i][pos] = Garbage <=> Before(i) + pos >= a.count_sym
    <3> SUFFICES ASSUME NEW i \in 1 .. n + 1, NEW pos \in 0 .. BUFFER_BLOCK_SIZE - 1
                 PROVE  a.blocks[i][pos] = Garbage <=> Before(i) + pos >= a.count_sym
      OBVIOUS
    <3>1. CASE i = n + 1
      BY <2>3, <3>1
    <3>2. CASE i # n + 1
      <4>1. i \in 1 .. n
        BY <1>1, <3>2
      <4>2. a.blocks[i][pos] # Garbage /\ Before(i) + pos < a.count_sym
        BY <2>2, <4>1
      <4>3. Before(i) + pos \in Int /\ a.count_sym \in Int
        BY <1>1, <1>3, <2>1, <4>1
      <4> QED
        BY <4>2, <4>3
    <3> QED
      BY <3>1, <3>2
  <2>5. a.count_sym - Before(n + 1) = 1 /\ a.blocks # <<>> /\ a.count_sym \in Nat
    BY <1>1, <1>3, <1>4, EmptySeq
  <2> QED
    BY <1>4, <2>4, <2>5 DEF BufferOK
<1>6. \A i \in 1 .. n : Copied(a, i) = Copied(b, i)
  <2> SUFFICES ASSUME NEW i \in 1 .. n PROVE Copied(a, i) = Copied(b, i)
    OBVIOUS
  <2>1. CopiedSize(a, i) = BUFFER_BLOCK_SIZE
    BY <1>1, <1>4 DEF CopiedSize
  <2>2. CopiedSize(b, i) = BUFFER_BLOCK_SIZE
    <3>1. CASE i = n
      <4>1. n \in Nat \ {0} /\ (i - 1) * BUFFER_BLOCK_SIZE = Before(n)
        BY <1>1, <3>1 DEF Before
      <4>2. Before(n + 1) = Before(n) + BUFFER_BLOCK_SIZE /\ Before(n) \in Nat
        BY <4>1, BeforeSteps
      <4>3. CopiedSize(b, i) = b.count_sym - Before(n)
        BY <3>1, <4>1 DEF CopiedSize, n
      <4> QED
        BY <1>1, <4>2, <4>3
    <3>2. CASE i # n
      BY <3>2 DEF CopiedSize, n
    <3> QED
      BY <3>1, <3>2
  <2> QED
    BY <1>4, <2>1, <2>2 DEF Copied
<1>7. Copied(a, n + 1) = <<char>>
  <2>1. CopiedSize(a, n + 1) = 1
    BY <1>1, <1>3, <1>4 DEF CopiedSize, Before
  <2>2. Copied(a, n + 1) = [k \in 1 .. 1 |-> a.blocks[n + 1][k - 1]]
    <3>1. n + 1 \in 1 .. Len(a.blocks)
      BY <1>1, <1>4
    <3> QED
      BY <1>5, <2>1, <3>1, CopiedIs
  <2>3. a.blocks[n + 1][1 - 1] = char
    BY <1>2, <1>4
  <2> QED
    BY <2>2, <2>3
<1> DEFINE ss == [i \in DOMAIN b.blocks |-> Copied(b, i)]
           tt == [i \in DOMAIN a.blocks |-> Copied(a, i)]
<1>8. tt = Append(ss, <<char>>)
  <2>1. ss \in Seq(Seq(Text)) /\ Len(ss) = n /\ tt \in Seq(Seq(Text)) /\ Len(tt) = n + 1
    BY <1>4, <1>5, StringType DEF n
  <2>2. /\ DOMAIN a.blocks = 1 .. n + 1 /\ DOMAIN b.blocks = 1 .. n
    BY <1>1, <1>4, LenProperties DEF n
  <2>3. <<char>> \in Seq(Text)
    OBVIOUS
  <2>4. /\ Append(ss, <<char>>) \in Seq(Seq(Text)) /\ Len(Append(ss, <<char>>)) = n + 1
        /\ Append(ss, <<char>>)[n + 1] = <<char>>
        /\ \A i \in 1 .. n : Append(ss, <<char>>)[i] = ss[i]
    BY <2>1, <2>3, AppendProperties
  <2>5. /\ tt[n + 1] = <<char>>
        /\ \A i \in 1 .. n : tt[i] = ss[i]
    BY <1>1, <1>6, <1>7, <2>2
  <2> HIDE DEF ss, tt
  <2>6. \A i \in 1 .. n + 1 : tt[i] = Append(ss, <<char>>)[i]
    <3> SUFFICES ASSUME NEW i \in 1 .. n + 1 PROVE tt[i] = Append(ss, <<char>>)[i]
      OBVIOUS
    <3>1. CASE i = n + 1
      BY <2>4, <2>5, <3>1
    <3>2. CASE i # n + 1
      <4>1. i \in 1 .. n
        BY <1>1, <3>2
      <4> QED
        BY <2>4, <2>5, <4>1
    <3> QED
      BY <3>1, <3>2
  <2> QED
    BY <2>1, <2>4, <2>6, SeqEqual
<1>9. ConvertToString(a) = ConvertToString(b) \o <<char>>
  <2>1. ss \in Seq(Seq(Text)) /\ <<char>> \in Seq(Text)
    BY StringType
  <2>2. FlattenSeq(tt) = FlattenSeq(ss) \o <<char>>
    BY <1>8, <2>1, FlattenMore
  <2> QED
    BY <2>2 DEF ConvertToString
<1>10. ConvertToString(b) \o <<char>> = Append(ConvertToString(b), char)
  <2>1. ConvertToString(b) \in Seq(Text)
    BY StringType
  <2> QED
    BY <2>1, AppendIsConcat
<1> QED
  BY <1>5, <1>9, <1>10 DEF a

\* The character finds a place in the last block.
LEMMA FillsBlock ==
  ASSUME NEW b, BufferOK(b), NEW char \in Text,
         ~(b.blocks = <<>> \/ b.count_sym % BUFFER_BLOCK_SIZE = 0)
  PROVE  /\ BufferOK(AddToBuffer(b, char))
         /\ ConvertToString(AddToBuffer(b, char)) = Append(ConvertToString(b), char)
<1> DEFINE n == Len(b.blocks)
           a == AddToBuffer(b, char)
           at == b.count_sym % BUFFER_BLOCK_SIZE
           block == [b.blocks[n] EXCEPT ![at] = char]
<1>1. /\ n \in Nat \ {0} /\ b.count_sym = Before(n) + at /\ b.count_sym \in Nat
      /\ at \in 1 .. BUFFER_BLOCK_SIZE - 1 /\ b.blocks \in Seq(Block)
      /\ \A i \in 1 .. n : b.blocks[i] \in Block
  <2>1. at \in 0 .. BUFFER_BLOCK_SIZE - 1 /\ b.count_sym = Before(n) + at
    BY LastPlace
  <2> QED
    BY <2>1, LenProperties, EmptySeq, ElementOfSeq DEF BufferOK
<1>2. /\ block \in Block /\ block[at] = char /\ char # Garbage
      /\ \A pos \in 0 .. BUFFER_BLOCK_SIZE - 1 : pos # at => block[pos] = b.blocks[n][pos]
  <2>1. at \in 0 .. BUFFER_BLOCK_SIZE - 1 /\ b.blocks[n] \in Block
    BY <1>1
  <2> HIDE DEF at, n
  <2> QED
    BY <2>1 DEF Block, Cell, Text, Garbage
<1>3. /\ a.count_sym = b.count_sym + 1
      /\ a.blocks = [b.blocks EXCEPT ![n] = block]
  BY DEF AddToBuffer
<1>4. /\ a.blocks \in Seq(Block) /\ Len(a.blocks) = n /\ a.blocks[n] = block
      /\ \A i \in 1 .. n : i # n => a.blocks[i] = b.blocks[i]
  BY <1>1, <1>2, <1>3, ExceptSeq
<1>5. /\ \A i \in 1 .. n, pos \in 0 .. BUFFER_BLOCK_SIZE - 1 :
           b.blocks[i][pos] = Garbage <=> Before(i) + pos >= b.count_sym
      /\ DOMAIN a.blocks = 1 .. n /\ DOMAIN b.blocks = 1 .. n
  BY <1>4, LenProperties DEF BufferOK
<1> HIDE DEF n, a, block, at
<1>6. \A i \in 1 .. n : i # n => Before(i) \in Nat /\ Before(i) + BUFFER_BLOCK_SIZE <= Before(n)
  <2> SUFFICES ASSUME NEW i \in 1 .. n, i # n
               PROVE  Before(i) \in Nat /\ Before(i) + BUFFER_BLOCK_SIZE <= Before(n)
    OBVIOUS
  <2>1. i + 1 \in 1 .. n /\ i \in Nat \ {0}
    BY <1>1
  <2> QED
    BY <1>1, <2>1, BeforeSteps
<1>7. Before(n) \in Nat
  BY <1>1, BeforeSteps
<1>8. BufferOK(a)
  <2>1. \A i \in 1 .. n, pos \in 0 .. BUFFER_BLOCK_SIZE - 1 :
          a.blocks[i][pos] = Garbage <=> Before(i) + pos >= a.count_sym
    <3> SUFFICES ASSUME NEW i \in 1 .. n, NEW pos \in 0 .. BUFFER_BLOCK_SIZE - 1
                 PROVE  a.blocks[i][pos] = Garbage <=> Before(i) + pos >= a.count_sym
      OBVIOUS
    <3>0. b.blocks[i][pos] = Garbage <=> Before(i) + pos >= b.count_sym
      BY <1>5
    <3>1. CASE i # n
      <4>1. Before(i) \in Nat /\ Before(i) + pos < b.count_sym /\ a.blocks[i] = b.blocks[i]
        BY SMTT(30), <1>1, <1>4, <1>6, <1>7, <3>1
      <4> QED
        BY SMTT(30), <1>1, <1>3, <3>0, <4>1
    <3>2. CASE i = n /\ pos = at
      BY <1>1, <1>2, <1>3, <1>4, <1>7, <3>2
    <3>3. CASE i = n /\ pos # at
      <4>1. a.blocks[i][pos] = b.blocks[i][pos]
        BY <1>2, <1>4, <3>3
      <4>2. Before(i) + pos >= a.count_sym <=> Before(i) + pos >= b.count_sym
        BY <1>1, <1>3, <1>7, <3>3
      <4> QED
        BY <3>0, <4>1, <4>2
    <3> QED
      BY <3>1, <3>2, <3>3
  <2>2. a.count_sym - Before(n) \in 1 .. BUFFER_BLOCK_SIZE /\ a.blocks # <<>> /\ a.count_sym \in Nat
    BY SMTT(30), <1>1, <1>3, <1>4, <1>7, EmptySeq
  <2> QED
    BY <1>4, <2>1, <2>2 DEF BufferOK
<1>9. \A i \in 1 .. n : i # n => Copied(a, i) = Copied(b, i)
  <2> SUFFICES ASSUME NEW i \in 1 .. n, i # n PROVE Copied(a, i) = Copied(b, i)
    OBVIOUS
  <2>1. CopiedSize(a, i) = BUFFER_BLOCK_SIZE /\ CopiedSize(b, i) = BUFFER_BLOCK_SIZE
    BY <1>4 DEF CopiedSize, n
  <2> QED
    BY <1>4, <2>1 DEF Copied
<1>10. Copied(b, n) \in Seq(Text) /\ Copied(a, n) = Append(Copied(b, n), char)
  <2>1. CopiedSize(b, n) = at /\ CopiedSize(a, n) = at + 1
    <3>1. CopiedSize(b, n) = b.count_sym - Before(n)
      BY DEF CopiedSize, Before, n
    <3>2. CopiedSize(a, n) = a.count_sym - Before(n)
      BY <1>4 DEF CopiedSize, Before
    <3> QED
      BY <1>1, <1>3, <1>7, <3>1, <3>2
  <2>2. /\ Copied(b, n) = [k \in 1 .. at |-> b.blocks[n][k - 1]]
        /\ Copied(b, n) \in Seq(Text)
    <3>1. n \in 1 .. Len(b.blocks)
      BY <1>1 DEF n
    <3> QED
      BY <2>1, <3>1, CopiedIs
  <2>3. /\ Copied(a, n) = [k \in 1 .. at + 1 |-> a.blocks[n][k - 1]]
        /\ Copied(a, n) \in Seq(Text)
    <3>1. n \in 1 .. Len(a.blocks)
      BY <1>1, <1>4
    <3> QED
      BY <1>8, <2>1, <3>1, CopiedIs
  <2>4. Len(Copied(b, n)) = at /\ Len(Copied(a, n)) = at + 1
    BY <1>1, <2>2, <2>3
  <2>5. /\ Append(Copied(b, n), char) \in Seq(Text)
        /\ Len(Append(Copied(b, n), char)) = at + 1
        /\ Append(Copied(b, n), char)[at + 1] = char
        /\ \A k \in 1 .. at : Append(Copied(b, n), char)[k] = Copied(b, n)[k]
    <3> DEFINE s == Copied(b, n)
    <3>1. s \in Seq(Text) /\ Len(s) = at
      BY <2>2, <2>4
    <3> HIDE DEF s
    <3>2. /\ Append(s, char) \in Seq(Text) /\ Len(Append(s, char)) = at + 1
          /\ Append(s, char)[at + 1] = char
          /\ \A k \in 1 .. at : Append(s, char)[k] = s[k]
      BY <3>1, AppendProperties
    <3> QED
      BY <3>2 DEF s
  <2>6. \A k \in 1 .. at + 1 : Copied(a, n)[k] = Append(Copied(b, n), char)[k]
    <3> SUFFICES ASSUME NEW k \in 1 .. at + 1
                 PROVE  Copied(a, n)[k] = Append(Copied(b, n), char)[k]
      OBVIOUS
    <3>1. Copied(a, n)[k] = block[k - 1]
      BY <1>4, <2>3
    <3>2. CASE k = at + 1
      BY <1>1, <1>2, <2>5, <3>1, <3>2
    <3>3. CASE k # at + 1
      <4>1. k \in 1 .. at /\ k - 1 \in 0 .. BUFFER_BLOCK_SIZE - 1 /\ k - 1 # at
        BY <1>1, <3>3
      <4> QED
        BY <1>2, <2>2, <2>5, <3>1, <4>1
    <3> QED
      BY <3>2, <3>3
  <2> QED
    BY ZenonT(60), <2>2, <2>3, <2>4, <2>5, <2>6, SeqEqual
<1> DEFINE front == [i \in 1 .. n - 1 |-> Copied(b, i)]
           ss == [i \in DOMAIN b.blocks |-> Copied(b, i)]
           tt == [i \in DOMAIN a.blocks |-> Copied(a, i)]
<1>11. /\ front \in Seq(Seq(Text)) /\ ss = Append(front, Copied(b, n))
       /\ tt = Append(front, Copied(a, n)) /\ Copied(a, n) \in Seq(Text)
  <2>1. ss \in Seq(Seq(Text)) /\ Len(ss) = n /\ tt \in Seq(Seq(Text)) /\ Len(tt) = n
    BY <1>4, <1>8, StringType DEF n
  <2>2. /\ \A i \in 1 .. n : ss[i] = Copied(b, i) /\ tt[i] = Copied(a, i)
        /\ \A i \in 1 .. n : ss[i] \in Seq(Text) /\ tt[i] \in Seq(Text)
    BY <1>5, <2>1, ElementOfSeq
  <2>3. front \in Seq(Seq(Text)) /\ Len(front) = n - 1
    <3>1. ASSUME NEW i \in 1 .. n - 1 PROVE Copied(b, i) \in Seq(Text)
      <4>1. i \in 1 .. n
        BY <1>1
      <4> QED
        BY <2>2, <4>1
    <3>2. n - 1 \in Nat
      BY <1>1
    <3> QED
      BY <3>1, <3>2
  <2>4. ASSUME NEW i \in 1 .. n - 1 PROVE front[i] = ss[i] /\ front[i] = tt[i]
    <3>1. i \in 1 .. n /\ i # n
      BY <1>1
    <3>2. front[i] = Copied(b, i)
      OBVIOUS
    <3> HIDE DEF front, ss, tt
    <3> QED
      BY <1>9, <2>2, <3>1, <3>2
  <2>5. ASSUME NEW uu \in Seq(Seq(Text)), Len(uu) = n, \A i \in 1 .. n - 1 : front[i] = uu[i],
               NEW t \in Seq(Text), uu[n] = t
        PROVE  uu = Append(front, t)
    <3> HIDE DEF front
    <3>1. /\ Append(front, t) \in Seq(Seq(Text)) /\ Len(Append(front, t)) = n
          /\ Append(front, t)[n] = t
          /\ \A i \in 1 .. n - 1 : Append(front, t)[i] = front[i]
      BY <1>1, <2>3, AppendProperties
    <3>2. \A i \in 1 .. n : uu[i] = Append(front, t)[i]
      <4> SUFFICES ASSUME NEW i \in 1 .. n PROVE uu[i] = Append(front, t)[i]
        OBVIOUS
      <4>1. i = n \/ i \in 1 .. n - 1
        BY <1>1
      <4> QED
        BY <2>5, <3>1, <4>1
    <3> QED
      BY <2>5, <3>1, <3>2, SeqEqual
  <2> HIDE DEF front, ss, tt
  <2>6. n \in 1 .. n
    BY <1>1
  <2> QED
    BY <2>1, <2>2, <2>3, <2>4, <2>5, <2>6
<1> HIDE DEF front, ss, tt
<1>12. ConvertToString(a) = Append(ConvertToString(b), char)
  <2>1. /\ ConvertToString(a) = FlattenSeq(front) \o Copied(a, n)
        /\ ConvertToString(b) = FlattenSeq(front) \o Copied(b, n)
    BY <1>10, <1>11, FlattenMore DEF ConvertToString, ss, tt
  <2>2. FlattenSeq(front) \in Seq(Text)
    BY <1>11, FlattenType
  <2>3. FlattenSeq(front) \o Append(Copied(b, n), char)
          = Append(FlattenSeq(front) \o Copied(b, n), char)
    BY <1>10, <2>2
  <2> QED
    BY <1>10, <2>1, <2>3
<1> QED
  BY <1>8, <1>12 DEF a

\* add_to_buffer() adds one character to the string, whatever the size of
\* the blocks.
LEMMA AddsChar ==
  ASSUME NEW b, BufferOK(b), NEW char \in Text
  PROVE  /\ BufferOK(AddToBuffer(b, char))
         /\ ConvertToString(AddToBuffer(b, char)) = Append(ConvertToString(b), char)
BY AddsBlock, FillsBlock

-----------------------------------------------------------------------------
(* What a stream means *)

AnyLexeme ==
  [type : {"WORD", "NUMBER", "WRONG_NUMBER", "EOLN", "PROTOCOL_PARSE_ERROR"},
   text : Seq(Byte)]

\* What the byte at place p completes, and what get_lex() returns up to place
\* n of a stream.
SaidAt(bytes, p) ==
  IF \E q \in 1 .. p - 1 : Broken(bytes, q) THEN <<>> ELSE CompletedAt(bytes, p)

Said(bytes, n) == FlattenSeq([p \in 1 .. n |-> SaidAt(bytes, p)])

\* The text before place p begins at place s.
Begins(bytes, s, p) ==
  /\ s \in 1 .. p
  /\ \A q \in s .. p - 1 : bytes[q] \in Text
  /\ s > 1 => bytes[s - 1] \notin Text

LEMMA TextIs ==
  ASSUME NEW bytes, NEW p \in Nat, NEW s, Begins(bytes, s, p)
  PROVE  TextBefore(bytes, p) = SubSeq(bytes, s, p - 1)
<1>1. ASSUME NEW t, Begins(bytes, t, p) PROVE t = s
  <2>1. s \in 1 .. p /\ t \in 1 .. p
    BY <1>1 DEF Begins
  <2>2. CASE t < s
    <3>1. s - 1 \in t .. p - 1 /\ s > 1
      BY <2>1, <2>2
    <3> QED
      BY <1>1, <3>1 DEF Begins
  <2>3. CASE s < t
    <3>1. t - 1 \in s .. p - 1 /\ t > 1
      BY <2>1, <2>3
    <3> QED
      BY <1>1, <3>1 DEF Begins
  <2> QED
    BY <2>1, <2>2, <2>3
<1> DEFINE start == CHOOSE t \in 1 .. p : /\ \A q \in t .. p - 1 : bytes[q] \in Text
                                          /\ t > 1 => bytes[t - 1] \notin Text
<1>2. Begins(bytes, start, p)
  BY DEF Begins
<1>3. start = s
  BY <1>1, <1>2
<1> HIDE DEF start
<1>4. TextBefore(bytes, p) = SubSeq(bytes, start, p - 1)
  BY DEF TextBefore, start
<1> QED
  BY <1>3, <1>4

LEMMA TextBegins ==
  ASSUME NEW bytes, NEW p \in Nat \ {0} PROVE \E s : Begins(bytes, s, p)
<1> DEFINE I == {s \in 1 .. p : \A q \in s .. p - 1 : bytes[q] \in Text}
<1>1. I \in SUBSET Nat /\ p \in I
  OBVIOUS
<1> HIDE DEF I
<1>2. PICK s \in I : \A k \in I : s <= k
  BY <1>1, FirstPlace
<1>3. s \in 1 .. p /\ \A q \in s .. p - 1 : bytes[q] \in Text
  BY <1>2 DEF I
<1>4. ASSUME s > 1, bytes[s - 1] \in Text PROVE FALSE
  <2>1. s - 1 \in 1 .. p
    BY <1>3, <1>4
  <2>2. \A q \in s - 1 .. p - 1 : bytes[q] \in Text
    BY <1>3, <1>4
  <2>3. s - 1 \in I
    BY <2>1, <2>2 DEF I
  <2> QED
    BY <1>2, <1>3, <2>3
<1> QED
  BY <1>3, <1>4 DEF Begins

LEMMA TextType ==
  ASSUME NEW bytes \in Seq(Byte), NEW p \in 1 .. Len(bytes)
  PROVE  TextBefore(bytes, p) \in Seq(Byte)
<1>0. p \in Nat \ {0}
  BY LenProperties
<1>1. PICK s : Begins(bytes, s, p)
  BY <1>0, TextBegins
<1>2. TextBefore(bytes, p) = SubSeq(bytes, s, p - 1) /\ s \in 1 .. p
  <2>1. TextBefore(bytes, p) = SubSeq(bytes, s, p - 1)
    BY <1>0, <1>1, TextIs
  <2> QED
    BY <1>1, <2>1 DEF Begins
<1>3. s \in 1 .. Len(bytes) + 1 /\ p - 1 \in s - 1 .. Len(bytes)
  BY <1>2, LenProperties
<1> QED
  BY <1>2, <1>3, SubSeqProperties

LEMMA SaidAtType ==
  ASSUME NEW bytes \in Seq(Byte), NEW p \in 1 .. Len(bytes)
  PROVE  SaidAt(bytes, p) \in Seq(AnyLexeme)
<1>1. TextBefore(bytes, p) \in Seq(Byte)
  BY TextType
<1>2. <<>> \in Seq(AnyLexeme) /\ <<>> \in Seq(Byte)
  BY EmptySeq
<1>3. ASSUME NEW lex \in AnyLexeme PROVE <<lex>> \in Seq(AnyLexeme)
  OBVIOUS
<1>4. /\ Lexeme("PROTOCOL_PARSE_ERROR", <<>>) \in AnyLexeme /\ Lexeme("EOLN", <<>>) \in AnyLexeme
      /\ Lexeme("WORD", TextBefore(bytes, p)) \in AnyLexeme
      /\ NumberLexeme(TextBefore(bytes, p)) \in AnyLexeme
  BY <1>1, <1>2 DEF Lexeme, NumberLexeme, AnyLexeme
<1> QED
  BY <1>2, <1>3, <1>4 DEF SaidAt, CompletedAt

LEMMA SaidNothing == \A bytes : Said(bytes, 0) = <<>>
<1> SUFFICES ASSUME NEW bytes PROVE Said(bytes, 0) = <<>>
  OBVIOUS
<1>1. [p \in 1 .. 0 |-> SaidAt(bytes, p)] = <<>>
  OBVIOUS
<1> QED
  BY <1>1, FlattenNone DEF Said

\* What one place more adds.
LEMMA SaidMore ==
  ASSUME NEW bytes \in Seq(Byte), NEW n \in Nat, n + 1 <= Len(bytes)
  PROVE  /\ Said(bytes, n) \in Seq(AnyLexeme)
         /\ Said(bytes, n + 1) = Said(bytes, n) \o SaidAt(bytes, n + 1)
<1> DEFINE ss == [p \in 1 .. n |-> SaidAt(bytes, p)]
           tt == [p \in 1 .. n + 1 |-> SaidAt(bytes, p)]
<1>1. \A p \in 1 .. n + 1 : SaidAt(bytes, p) \in Seq(AnyLexeme)
  <2> SUFFICES ASSUME NEW p \in 1 .. n + 1 PROVE SaidAt(bytes, p) \in Seq(AnyLexeme)
    OBVIOUS
  <2>1. p \in 1 .. Len(bytes)
    BY LenProperties
  <2> QED
    BY <2>1, SaidAtType
<1>2. tt \in Seq(Seq(AnyLexeme)) /\ Len(tt) = n + 1
  BY <1>1
<1>3. ss = [p \in 1 .. n |-> tt[p]] /\ tt[n + 1] = SaidAt(bytes, n + 1)
  OBVIOUS
<1> HIDE DEF ss, tt
<1>4. /\ FlattenSeq(ss) \in Seq(AnyLexeme)
      /\ FlattenSeq(tt) = FlattenSeq(ss) \o tt[n + 1]
  BY <1>2, <1>3, FlattenStep
<1> QED
  BY <1>3, <1>4 DEF Said, ss, tt

\* What was said does not change when there is more to read.
LEMMA SaidStays ==
  ASSUME NEW bytes \in Seq(Byte), NEW chunk \in Seq(Byte), NEW n \in 0 .. Len(bytes)
  PROVE  /\ \A q \in 1 .. Len(bytes) : Broken(bytes \o chunk, q) <=> Broken(bytes, q)
         /\ Said(bytes \o chunk, n) = Said(bytes, n)
<1> DEFINE more == bytes \o chunk
           L == Len(bytes)
<1>1. /\ L \in Nat /\ more \in Seq(Byte) /\ Len(more) >= L
      /\ \A q \in 1 .. L : more[q] = bytes[q]
  BY LenProperties, ConcatProperties
<1> HIDE DEF more, L
<1>2. \A q \in 1 .. L : Broken(more, q) <=> Broken(bytes, q)
  <2> SUFFICES ASSUME NEW q \in 1 .. L PROVE Broken(more, q) <=> Broken(bytes, q)
    OBVIOUS
  <2>1. more[q] = bytes[q] /\ (q > 1 => more[q - 1] = bytes[q - 1])
    BY <1>1
  <2> QED
    BY <2>1 DEF Broken
<1>3. ASSUME NEW p \in 1 .. L PROVE SaidAt(more, p) = SaidAt(bytes, p)
  <2>0. p \in Nat \ {0}
    BY <1>1
  <2>1. PICK s : Begins(bytes, s, p)
    BY <2>0, TextBegins
  <2>2. Begins(more, s, p) /\ s \in 1 .. p
    BY <1>1, <2>1 DEF Begins
  <2>3. SubSeq(more, s, p - 1) = SubSeq(bytes, s, p - 1)
    <3>1. \A i \in s .. p - 1 : more[i] = bytes[i]
      BY <1>1, <2>2
    <3> QED
      BY SMTT(30), <2>2, <3>1
  <2>4. TextBefore(more, p) = TextBefore(bytes, p)
    <3>1. TextBefore(more, p) = SubSeq(more, s, p - 1)
      BY <2>0, <2>2, TextIs
    <3>2. TextBefore(bytes, p) = SubSeq(bytes, s, p - 1)
      BY <2>0, <2>1, TextIs
    <3> QED
      BY <2>3, <3>1, <3>2
  <2>5. (\E q \in 1 .. p - 1 : Broken(more, q)) <=> (\E q \in 1 .. p - 1 : Broken(bytes, q))
    BY <1>1, <1>2
  <2>6. CompletedAt(more, p) = CompletedAt(bytes, p)
    BY <1>1, <1>2, <2>4 DEF CompletedAt
  <2> QED
    BY <2>5, <2>6 DEF SaidAt
<1>4. [p \in 1 .. n |-> SaidAt(more, p)] = [p \in 1 .. n |-> SaidAt(bytes, p)]
  <2>1. \A p \in 1 .. n : SaidAt(more, p) = SaidAt(bytes, p)
    BY <1>1, <1>3 DEF L
  <2> QED
    BY <2>1
<1> QED
  BY <1>2, <1>4 DEF Said, more, L

\* Nothing is said after a broken place.
LEMMA SaidNoMore ==
  ASSUME NEW bytes \in Seq(Byte), NEW k \in 1 .. Len(bytes), Broken(bytes, k)
  PROVE  Said(bytes, Len(bytes)) = Said(bytes, k)
<1> DEFINE L == Len(bytes)
           Bad == {n \in Nat : k + n <= L /\ Said(bytes, k + n) # Said(bytes, k)}
<1>1. L \in Nat /\ k \in 1 .. L
  BY LenProperties
<1> HIDE DEF L
<1>2. 0 \notin Bad
  BY <1>1
<1>3. ASSUME NEW n \in Nat, n + 1 \in Bad PROVE n \in Bad
  <2>1. k + n \in Nat /\ (k + n) + 1 <= L /\ k + (n + 1) = (k + n) + 1 /\ k \in 1 .. (k + n + 1) - 1
    BY <1>1, <1>3
  <2>2. SaidAt(bytes, (k + n) + 1) = <<>>
    BY <2>1 DEF SaidAt
  <2>3. /\ Said(bytes, k + n) \in Seq(AnyLexeme)
        /\ Said(bytes, (k + n) + 1) = Said(bytes, k + n) \o <<>>
    BY <2>1, <2>2, SaidMore DEF L
  <2>4. Said(bytes, (k + n) + 1) = Said(bytes, k + n)
    BY <2>3, ConcatEmptySeq
  <2>5. Said(bytes, (k + n) + 1) # Said(bytes, k) /\ k + n <= L
    BY <1>1, <1>3, <2>1
  <2>6. Said(bytes, k + n) # Said(bytes, k)
    BY <2>4, <2>5
  <2> QED
    BY <2>5, <2>6
<1>4. Bad = {}
  BY <1>2, <1>3, ByStep
<1>5. L - k \in Nat /\ k + (L - k) = L
  BY <1>1
<1>6. L - k \notin Bad
  BY <1>4
<1>7. Said(bytes, k + (L - k)) = Said(bytes, k)
  BY <1>5, <1>6, <1>1
<1> QED
  BY <1>5, <1>7 DEF L

-----------------------------------------------------------------------------
(* The invariant *)

\* How many characters get_char() has given, and how many of them no state
\* will look at again.
At == Len(received) - Len(unread)
Done == IF request_for_char THEN At ELSE At - 1

\* Up to where what the stream means has been returned: a blank or '\r' that
\* st_start() looks at has ended the lexeme before it.
SaidTo ==
  IF request_for_char \/ Closed \/ (state = "START" /\ c \in {"blank", "cr"})
  THEN At ELSE At - 1

\* The text being read begins at place s, and is in buf.
TextFrom(s) ==
  /\ s \in 1 .. At
  /\ s > 1 => received[s - 1] \in {"blank", "lf"}
  /\ \A q \in s .. Done : received[q] \in Text
  /\ ConvertToString(buf) = SubSeq(received, s, Done)
  /\ state = "WORD" => \E q \in s .. At : received[q] = "letter"
  /\ state = "NUMBER" => /\ \A q \in s .. Done : received[q] # "letter"
                         /\ received[s] = "digit"

PositionOK ==
  /\ At \in 0 .. Len(received)
  /\ \A i \in 1 .. Len(unread) : unread[i] = received[At + i]
  /\ ~request_for_char => At >= 1 /\ c = received[At]

\* What each state knows of the last bytes.
StateOK ==
  /\ state = "START" =>
       /\ request_for_char /\ At >= 1 => received[At] \in {"blank", "lf"}
       /\ ~request_for_char /\ c \in {"blank", "cr"} => ~Broken(received, At)
       /\ ~request_for_char /\ c \notin {"blank", "cr"} /\ At > 1 =>
            received[At - 1] \in {"blank", "lf"}
  /\ state \in {"WORD", "NUMBER"} => \E s \in 1 .. At : TextFrom(s)
  /\ state = "EOLN" => Done >= 1 /\ received[Done] = "cr"
  /\ state = "PROTOCOL_PARSE_ERROR" => ~request_for_char /\ Broken(received, At)
  /\ Closed => state = "PROTOCOL_PARSE_ERROR"

MeaningOK ==
  /\ \A q \in 1 .. Done : ~Broken(received, q)
  /\ lexemes = Said(received, SaidTo)

\* The inductive invariant.
LexerInv ==
  /\ TypeOK /\ BufferOK(buf) /\ lexemes \in Seq(AnyLexeme)
  /\ PositionOK /\ StateOK /\ MeaningOK

-----------------------------------------------------------------------------
(* What a place of the stream completes *)

LEMMA PlaceSays ==
  ASSUME NEW bytes \in Seq(Byte), NEW p \in 1 .. Len(bytes),
         \A q \in 1 .. p - 1 : ~Broken(bytes, q)
  PROVE  /\ Said(bytes, p - 1) \in Seq(AnyLexeme)
         /\ Said(bytes, p) = Said(bytes, p - 1) \o CompletedAt(bytes, p)
<1>1. p - 1 \in Nat /\ (p - 1) + 1 = p /\ (p - 1) + 1 <= Len(bytes)
  BY LenProperties
<1>2. /\ Said(bytes, p - 1) \in Seq(AnyLexeme)
      /\ Said(bytes, (p - 1) + 1) = Said(bytes, p - 1) \o SaidAt(bytes, (p - 1) + 1)
  BY <1>1, SaidMore
<1>3. SaidAt(bytes, p) = CompletedAt(bytes, p)
  BY DEF SaidAt
<1> QED
  BY <1>1, <1>2, <1>3

\* A character of a text completes nothing, nor does a blank behind no text.
LEMMA PlaceSilent ==
  ASSUME NEW bytes \in Seq(Byte), NEW p \in 1 .. Len(bytes),
         \A q \in 1 .. p - 1 : ~Broken(bytes, q), ~Broken(bytes, p),
         \/ bytes[p] \in Text
         \/ bytes[p] \in {"blank", "cr"} /\ (p > 1 => bytes[p - 1] \notin Text)
  PROVE  Said(bytes, p) = Said(bytes, p - 1)
<1>1. CompletedAt(bytes, p) = <<>>
  <2>1. CASE bytes[p] \in Text
    BY <2>1 DEF CompletedAt, Text
  <2>2. CASE bytes[p] \in {"blank", "cr"} /\ (p > 1 => bytes[p - 1] \notin Text)
    <3>1. Begins(bytes, p, p) /\ p \in Nat
      BY <2>2 DEF Begins
    <3>2. TextBefore(bytes, p) = SubSeq(bytes, p, p - 1)
      BY <3>1, TextIs
    <3>3. SubSeq(bytes, p, p - 1) = <<>>
      BY <3>1
    <3> QED
      BY <2>2, <3>2, <3>3 DEF CompletedAt
  <2> QED
    BY <2>1, <2>2
<1> QED
  BY <1>1, PlaceSays, ConcatEmptySeq

\* Exactly one lexeme is completed.
LEMMA PlaceTells ==
  ASSUME NEW bytes \in Seq(Byte), NEW p \in 1 .. Len(bytes),
         \A q \in 1 .. p - 1 : ~Broken(bytes, q), NEW lex \in AnyLexeme,
         CompletedAt(bytes, p) = <<lex>>
  PROVE  Said(bytes, p) = Append(Said(bytes, p - 1), lex)
BY PlaceSays, AppendIsConcat

\* The end of a text that begins at place s.
LEMMA PlaceEnds ==
  ASSUME NEW bytes \in Seq(Byte), NEW p \in 1 .. Len(bytes), ~Broken(bytes, p),
         NEW s \in 1 .. p - 1, Begins(bytes, s, p), bytes[p] \in {"blank", "cr"},
         NEW text, text = SubSeq(bytes, s, p - 1)
  PROVE  /\ CompletedAt(bytes, p) = IF \E q \in s .. p - 1 : bytes[q] = "letter"
                                    THEN <<Lexeme("WORD", text)>>
                                    ELSE <<NumberLexeme(text)>>
         /\ Lexeme("WORD", text) \in AnyLexeme /\ NumberLexeme(text) \in AnyLexeme
<1>1. p \in Nat /\ s \in 1 .. Len(bytes) + 1 /\ p - 1 \in s - 1 .. Len(bytes)
  BY LenProperties
<1>2. TextBefore(bytes, p) = text
  BY <1>1, TextIs
<1>3. /\ text \in Seq(Byte) /\ Len(text) = p - s
      /\ \A i \in 1 .. p - s : text[i] = bytes[s + i - 1]
  BY <1>1, SubSeqProperties
<1>4. text # <<>>
  BY <1>1, <1>3, EmptySeq
<1>5. "letter" \in ToSet(text) <=> \E q \in s .. p - 1 : bytes[q] = "letter"
  <2>3. DOMAIN text = 1 .. p - s
    BY <1>3, LenProperties
  <2>1. ASSUME NEW q \in s .. p - 1, bytes[q] = "letter" PROVE "letter" \in ToSet(text)
    <3>1. q - s + 1 \in 1 .. p - s /\ s + (q - s + 1) - 1 = q
      BY <1>1
    <3>2. text[q - s + 1] = "letter"
      BY <1>3, <2>1, <3>1
    <3> QED
      BY <2>3, <3>1, <3>2 DEF ToSet
  <2>2. ASSUME NEW i \in 1 .. p - s, text[i] = "letter"
        PROVE  \E q \in s .. p - 1 : bytes[q] = "letter"
    <3>1. s + i - 1 \in s .. p - 1
      BY <1>1
    <3> QED
      BY <1>3, <2>2, <3>1
  <2> QED
    BY <2>1, <2>2, <2>3 DEF ToSet
<1>6. Lexeme("WORD", text) \in AnyLexeme /\ NumberLexeme(text) \in AnyLexeme
  BY <1>3 DEF Lexeme, NumberLexeme, AnyLexeme
<1>7. bytes[p] # "lf" /\ bytes[p] \notin Text
  BY DEF Text
<1> QED
  BY <1>2, <1>4, <1>5, <1>6, <1>7 DEF CompletedAt

-----------------------------------------------------------------------------
(* The steps *)

LEMMA BufferType ==
  ASSUME NEW b, BufferOK(b)
  PROVE  WellFormed(b) /\ ToSet(ConvertToString(b)) \subseteq Text
<1>1. WellFormed(b)
  BY WellFormedIs DEF BufferOK
<1>2. ConvertToString(b) \in Seq(Text)
  BY StringType
<1> QED
  BY <1>1, <1>2, LenProperties, ElementOfSeq DEF ToSet

\* Where the lexer is.
LEMMA Places ==
  ASSUME LexerInv
  PROVE  /\ received \in Seq(Byte) /\ Len(received) \in Nat /\ Len(unread) \in Nat
         /\ At \in 0 .. Len(received) /\ Len(received) = At + Len(unread)
         /\ request_for_char => Done = At /\ ~Closed /\ SaidTo = At
         /\ ~request_for_char => At \in 1 .. Len(received) /\ Done = At - 1 /\ c = received[At]
<1>1. /\ received \in Seq(Byte) /\ unread \in Seq(Byte) /\ request_for_char \in BOOLEAN
      /\ At \in 0 .. Len(received) /\ (~request_for_char => At >= 1 /\ c = received[At])
  BY DEF LexerInv, TypeOK, PositionOK
<1>2. Len(received) \in Nat /\ Len(unread) \in Nat
  BY <1>1, LenProperties
<1>3. request_for_char => ~Closed
  BY DEF LexerInv, StateOK
<1>4. Len(received) = At + Len(unread)
  BY <1>2 DEF At
<1> QED
  BY <1>1, <1>2, <1>3, <1>4 DEF Done, SaidTo

LEMMA InitLexer == Init => LexerInv
<1> SUFFICES ASSUME Init PROVE LexerInv
  OBVIOUS
<1>1. /\ received = <<>> /\ unread = <<>> /\ lexemes = <<>> /\ buf = NewBuffer
      /\ state = "START" /\ request_for_char = TRUE /\ c \in Byte
  BY DEF Init
<1>2. /\ <<>> \in Seq(Byte) /\ <<>> \in Seq(AnyLexeme) /\ Len(<<>>) = 0
  BY EmptySeq
<1>3. At = 0 /\ ~Closed /\ Done = 0 /\ SaidTo = 0
  BY <1>1, <1>2 DEF At, Closed, Done, SaidTo
<1>4. BufferOK(buf)
  BY <1>1, NewBufferOK
<1>5. TypeOK
  BY <1>1, <1>2, <1>4, BufferType DEF TypeOK, State
<1>6. PositionOK
  BY <1>1, <1>2, <1>3 DEF PositionOK
<1>7. StateOK
  BY <1>1, <1>3 DEF StateOK
<1>8. MeaningOK
  BY <1>1, <1>3, SaidNothing DEF MeaningOK
<1> QED
  BY <1>1, <1>2, <1>4, <1>5, <1>6, <1>7, <1>8 DEF LexerInv

\* The bytes of a text are not broken places, nor is a blank behind it.
LEMMA TextWhole ==
  ASSUME LexerInv, ~request_for_char, NEW s, TextFrom(s), c # "lf"
  PROVE  ~Broken(received, At)
<1>1. /\ At \in 1 .. Len(received) /\ Done = At - 1 /\ c = received[At] /\ s \in 1 .. At
      /\ Len(received) \in Nat
  BY Places DEF TextFrom
<1>2. At > 1 => received[At - 1] # "cr"
  <2>1. CASE s = At
    BY <1>1, <2>1 DEF TextFrom
  <2>2. CASE s # At
    <3>1. At - 1 \in s .. Done
      BY <1>1, <2>2
    <3> QED
      BY <3>1 DEF TextFrom, Text
  <2> QED
    BY <2>1, <2>2
<1> QED
  BY <1>1, <1>2 DEF Broken

\* Where a text ends, it has at least one character.
LEMMA TextThere ==
  ASSUME LexerInv, ~request_for_char, NEW s, TextFrom(s), state \in {"WORD", "NUMBER"},
         c \notin Text
  PROVE  /\ s \in 1 .. At - 1 /\ received[At - 1] \in Text
         /\ Begins(received, s, At)
         /\ state = "WORD" => \E q \in s .. At - 1 : received[q] = "letter"
<1>1. /\ At \in 1 .. Len(received) /\ Done = At - 1 /\ c = received[At] /\ s \in 1 .. At
      /\ Len(received) \in Nat
  BY Places DEF TextFrom
<1>2. s # At
  BY <1>1 DEF TextFrom, Text
<1>3. At - 1 \in s .. Done /\ s \in 1 .. At - 1
  BY <1>1, <1>2
<1>4. state = "WORD" => \E q \in s .. At - 1 : received[q] = "letter"
  <2> SUFFICES ASSUME state = "WORD" PROVE \E q \in s .. At - 1 : received[q] = "letter"
    OBVIOUS
  <2>1. PICK q \in s .. At : received[q] = "letter"
    BY DEF TextFrom
  <2>2. q # At
    BY <1>1, <2>1 DEF Text
  <2> QED
    BY <1>1, <2>1, <2>2
<1>5. Begins(received, s, At)
  BY <1>1, <1>3 DEF Begins, TextFrom, Text
<1> QED
  BY <1>1, <1>3, <1>4, <1>5 DEF TextFrom

LEMMA ReadStep ==
  ASSUME LexerInv, NEW chunk \in Seq(Byte), Read(chunk) PROVE LexerInv'
<1>1. /\ request_for_char /\ unread = <<>> /\ ~Closed /\ unread' = chunk
      /\ received' = received \o chunk /\ state' = state /\ buf' = buf /\ c' = c
      /\ request_for_char' = request_for_char /\ lexemes' = lexemes
  BY DEF Read, Waits
<1> DEFINE L == Len(received)
<1>2. /\ received \in Seq(Byte) /\ L \in Nat /\ At = L /\ Done = L /\ SaidTo = L
  BY <1>1, Places, EmptySeq
<1>3. /\ received' \in Seq(Byte) /\ Len(received') = L + Len(chunk) /\ Len(chunk) \in Nat
      /\ \A i \in 1 .. L : received'[i] = received[i]
      /\ \A i \in 1 .. Len(chunk) : received'[L + i] = chunk[i]
  <2>1. /\ received \o chunk \in Seq(Byte) /\ Len(received \o chunk) = L + Len(chunk)
        /\ \A i \in 1 .. L + Len(chunk) :
             (received \o chunk)[i] = IF i <= L THEN received[i] ELSE chunk[i - L]
    BY <1>2, ConcatProperties
  <2>2. Len(chunk) \in Nat
    BY LenProperties
  <2>3. \A i \in 1 .. L : (received \o chunk)[i] = received[i]
    BY <1>2, <2>1, <2>2
  <2>4. \A i \in 1 .. Len(chunk) : (received \o chunk)[L + i] = chunk[i]
    <3> SUFFICES ASSUME NEW i \in 1 .. Len(chunk) PROVE (received \o chunk)[L + i] = chunk[i]
      OBVIOUS
    <3>1. L + i \in 1 .. L + Len(chunk) /\ ~(L + i <= L) /\ (L + i) - L = i
      BY <1>2, <2>2
    <3> QED
      BY <2>1, <3>1
  <2> QED
    BY <1>1, <2>1, <2>2, <2>3, <2>4
<1>4. At' = L /\ ~Closed' /\ Done' = L /\ SaidTo' = L
  <2>1. At' = L
    BY <1>1, <1>2, <1>3 DEF At
  <2> QED
    BY <1>1, <2>1 DEF Closed, Done, SaidTo
<1>a. /\ \A q \in 1 .. L : Broken(received', q) <=> Broken(received, q)
      /\ Said(received', L) = Said(received, L)
  BY <1>1, <1>2, SaidStays
<1> HIDE DEF L
<1>5. TypeOK'
  BY <1>1, <1>3 DEF LexerInv, TypeOK
<1>6. PositionOK'
  BY <1>1, <1>2, <1>3, <1>4 DEF PositionOK
<1>7. StateOK'
  <2>1. state = "START" /\ L >= 1 => received'[L] \in {"blank", "lf"}
    <3> SUFFICES ASSUME state = "START", L >= 1 PROVE received'[L] \in {"blank", "lf"}
      OBVIOUS
    <3>1. received[L] \in {"blank", "lf"}
      BY <1>1, <1>2 DEF LexerInv, StateOK
    <3> QED
      BY <1>2, <1>3, <3>1
  <2>2. state \in {"WORD", "NUMBER"} => \E s \in 1 .. L : TextFrom(s)'
    <3> SUFFICES ASSUME state \in {"WORD", "NUMBER"} PROVE \E s \in 1 .. L : TextFrom(s)'
      OBVIOUS
    <3>1. PICK s \in 1 .. L : TextFrom(s)
      BY <1>2 DEF LexerInv, StateOK
    <3>2. SubSeq(received', s, L) = SubSeq(received, s, L)
      <4>1. \A i \in s .. L : received'[i] = received[i]
        BY <1>2, <1>3
      <4> QED
        BY <1>2, <4>1
    <3>3. \A q \in s .. L : received'[q] = received[q]
      BY <1>2, <1>3
    <3>4. s > 1 => received'[s - 1] = received[s - 1]
      BY <1>2, <1>3
    <3>5. /\ (s > 1 => received'[s - 1] \in {"blank", "lf"})
          /\ \A q \in s .. L : received'[q] \in Text
          /\ ConvertToString(buf') = SubSeq(received', s, L)
      BY <1>1, <1>2, <3>1, <3>2, <3>3, <3>4 DEF TextFrom
    <3>6. /\ state = "WORD" => \E q \in s .. L : received'[q] = "letter"
          /\ state = "NUMBER" => /\ \A q \in s .. L : received'[q] # "letter"
                                 /\ received'[s] = "digit"
      <4>1. s \in s .. L /\ At = L /\ Done = L
        BY <1>2
      <4>2. /\ state = "WORD" => \E q \in s .. L : received[q] = "letter"
            /\ state = "NUMBER" => /\ \A q \in s .. L : received[q] # "letter"
                                   /\ received[s] = "digit"
        BY <3>1, <4>1 DEF TextFrom
      <4>3. received'[s] = received[s]
        BY <3>3, <4>1
      <4> HIDE DEF L
      <4>4. state = "WORD" => \E q \in s .. L : received'[q] = "letter"
        BY <3>3, <4>2
      <4> QED
        BY <3>3, <4>2, <4>3, <4>4
    <3>7. TextFrom(s)'
      BY <1>1, <1>4, <3>5, <3>6 DEF TextFrom
    <3> QED
      BY <3>7
  <2>3. state = "EOLN" => L >= 1 /\ received'[L] = "cr"
    <3> SUFFICES ASSUME state = "EOLN" PROVE L >= 1 /\ received'[L] = "cr"
      OBVIOUS
    <3>1. L >= 1 /\ received[L] = "cr"
      BY <1>2 DEF LexerInv, StateOK
    <3> QED
      BY <1>2, <1>3, <3>1
  <2>4. state # "PROTOCOL_PARSE_ERROR"
    BY <1>1 DEF LexerInv, StateOK
  <2> QED
    BY <1>1, <1>4, <2>1, <2>2, <2>3, <2>4 DEF StateOK
<1>8. MeaningOK'
  BY <1>1, <1>2, <1>4, <1>a DEF LexerInv, MeaningOK
<1> QED
  BY <1>1, <1>5, <1>6, <1>7, <1>8 DEF LexerInv

LEMMA GetCharStep == ASSUME LexerInv, GetChar PROVE LexerInv'
<1>1. /\ request_for_char = TRUE /\ unread # <<>> /\ c' = Head(unread) /\ unread' = Tail(unread)
      /\ request_for_char' = FALSE /\ state' = state /\ buf' = buf
      /\ received' = received /\ lexemes' = lexemes
  BY DEF GetChar, LexerInv, TypeOK
<1> DEFINE p == At + 1
<1>2. /\ received \in Seq(Byte) /\ Len(received) \in Nat /\ At \in Nat /\ ~Closed
      /\ Done = At /\ SaidTo = At /\ Len(unread) \in Nat /\ Len(received) = At + Len(unread)
      /\ unread \in Seq(Byte)
  BY <1>1, Places DEF LexerInv, TypeOK
<1>3. /\ unread' \in Seq(Byte) /\ Len(unread') = Len(unread) - 1 /\ Len(unread) >= 1
      /\ \A i \in 1 .. Len(unread') : unread'[i] = unread[i + 1]
      /\ c' = unread[1]
  BY <1>1, <1>2, EmptySeq, HeadTailProperties
<1>4. p \in 1 .. Len(received) /\ received[p] = c' /\ c' \in Byte
  <2>1. received[At + 1] = unread[1]
    BY <1>2, <1>3 DEF LexerInv, PositionOK
  <2>2. unread[1] \in Byte
    BY <1>2, <1>3, ElementOfSeq
  <2> QED
    BY <1>2, <1>3, <2>1, <2>2
<1>5. At' = p /\ Done' = At /\ ~Closed'
  <2>1. At' = p
    BY <1>1, <1>2, <1>3 DEF At
  <2> QED
    BY <1>1, <1>2, <2>1 DEF Done, Closed
<1>6. TypeOK'
  BY <1>1, <1>3, <1>4 DEF LexerInv, TypeOK
<1>7. PositionOK'
  <2>1. \A i \in 1 .. Len(unread') : unread'[i] = received[p + i]
    <3> SUFFICES ASSUME NEW i \in 1 .. Len(unread') PROVE unread'[i] = received[p + i]
      OBVIOUS
    <3>1. i + 1 \in 1 .. Len(unread) /\ At + (i + 1) = p + i
      BY <1>2, <1>3
    <3>2. unread[i + 1] = received[At + (i + 1)]
      BY <3>1 DEF LexerInv, PositionOK
    <3> QED
      BY <1>3, <3>1, <3>2
  <2>2. \A i \in 1 .. Len(unread') : unread'[i] = received'[At' + i]
    BY <1>1, <1>5, <2>1
  <2>3. At' \in 0 .. Len(received') /\ (~request_for_char' => At' >= 1 /\ c' = received'[At'])
    BY <1>1, <1>2, <1>4, <1>5
  <2> QED
    BY <2>2, <2>3 DEF PositionOK
<1>8. state = "START" /\ p > 1 => received[p - 1] \in {"blank", "lf"}
  <2> SUFFICES ASSUME state = "START", p > 1 PROVE received[At] \in {"blank", "lf"}
    BY <1>2
  <2>1. request_for_char /\ At >= 1
    BY <1>1, <1>2
  <2> QED
    BY <2>1 DEF LexerInv, StateOK
<1>9. state = "START" /\ c' \in {"blank", "cr"} => ~Broken(received, p)
  BY <1>4, <1>8 DEF Broken
<1>10. state # "PROTOCOL_PARSE_ERROR"
  BY <1>1 DEF LexerInv, StateOK
<1>11. ASSUME state \in {"WORD", "NUMBER"} PROVE \E s \in 1 .. p : TextFrom(s)'
  <2>1. PICK s \in 1 .. At : TextFrom(s)
    BY <1>11 DEF LexerInv, StateOK
  <2>2. s \in 1 .. p /\ \A q : q \in s .. At => q \in s .. p
    BY <1>2
  <2>3. TextFrom(s)'
    BY <1>1, <1>2, <1>5, <2>1, <2>2 DEF TextFrom
  <2> QED
    BY <2>2, <2>3
<1>12. StateOK'
  <2>1. state = "EOLN" => At >= 1 /\ received[At] = "cr"
    BY <1>2 DEF LexerInv, StateOK
  <2> QED
    BY <1>1, <1>5, <1>8, <1>9, <1>10, <1>11, <2>1 DEF StateOK
<1>13. /\ \A q \in 1 .. At : ~Broken(received, q)
       /\ lexemes = Said(received, At)
  BY <1>2 DEF LexerInv, MeaningOK
<1>14. MeaningOK'
  <2>1. lexemes = Said(received, SaidTo')
    <3>1. CASE state = "START" /\ c' \in {"blank", "cr"}
      <4>1. SaidTo' = p
        BY <1>1, <1>5, <3>1 DEF SaidTo
      <4>2. p > 1 => received[p - 1] \notin Text
        BY <1>8, <3>1 DEF Text
      <4>3. \A q \in 1 .. p - 1 : ~Broken(received, q)
        BY <1>2, <1>13
      <4>4. Said(received, p) = Said(received, p - 1)
        BY <1>2, <1>4, <1>9, <3>1, <4>2, <4>3, PlaceSilent
      <4> QED
        BY <1>2, <1>13, <4>1, <4>4
    <3>2. CASE ~(state = "START" /\ c' \in {"blank", "cr"})
      <4>1. SaidTo' = At
        BY <1>1, <1>2, <1>5, <3>2 DEF SaidTo
      <4> QED
        BY <1>13, <4>1
    <3> QED
      BY <3>1, <3>2
  <2> QED
    BY <1>1, <1>5, <1>13, <2>1 DEF MeaningOK
<1> QED
  BY <1>1, <1>6, <1>7, <1>12, <1>14 DEF LexerInv

\* A state has looked at its character: what does not depend on the state.
LEMMA Looked ==
  ASSUME LexerInv, ~request_for_char, ~Closed, UNCHANGED <<c, unread, received>>,
         request_for_char' \in BOOLEAN
  PROVE  /\ At' = At /\ PositionOK'
         /\ Done' = IF request_for_char' THEN At ELSE At - 1
         /\ \A q \in 1 .. At - 1 : ~Broken(received, q)
         /\ lexemes = Said(received, IF state = "START" /\ c \in {"blank", "cr"}
                                     THEN At ELSE At - 1)
<1>1. At' = At
  BY DEF At
<1>2. PositionOK'
  BY <1>1 DEF LexerInv, PositionOK
<1>3. Done' = IF request_for_char' THEN At ELSE At - 1
  BY <1>1 DEF Done
<1>4. \A q \in 1 .. At - 1 : ~Broken(received, q)
  BY Places DEF LexerInv, MeaningOK
<1>5. lexemes = Said(received, IF state = "START" /\ c \in {"blank", "cr"} THEN At ELSE At - 1)
  BY DEF LexerInv, MeaningOK, SaidTo
<1> QED
  BY <1>1, <1>2, <1>3, <1>4, <1>5

LEMMA StartStep == ASSUME LexerInv, Start PROVE LexerInv'
<1>1. /\ state = "START" /\ request_for_char = FALSE /\ ~Closed
      /\ state' = CASE c = "lf"     -> "PROTOCOL_PARSE_ERROR"
                    [] c = "blank"  -> "START"
                    [] c = "digit"  -> "NUMBER"
                    [] c = "cr"     -> "EOLN"
                    [] c = "letter" -> "WORD"
      /\ request_for_char' = (c \in {"blank", "cr"})
      /\ c' = c /\ buf' = buf /\ unread' = unread /\ received' = received /\ lexemes' = lexemes
  BY DEF Start, In, LexerInv, TypeOK
<1>2. /\ At \in 1 .. Len(received) /\ Len(received) \in Nat /\ c = received[At]
      /\ c \in {"digit", "letter", "blank", "cr", "lf"}
  BY <1>1, Places DEF LexerInv, TypeOK, Byte, Text
<1>3. /\ At' = At /\ PositionOK' /\ ~Closed'
      /\ Done' = IF request_for_char' THEN At ELSE At - 1
      /\ \A q \in 1 .. At - 1 : ~Broken(received, q)
      /\ lexemes = Said(received, IF c \in {"blank", "cr"} THEN At ELSE At - 1)
  BY <1>1, Looked DEF Closed
<1>4. buf = NewBuffer
  BY <1>1 DEF LexerInv, TypeOK
<1>5. /\ c \in {"blank", "cr"} => ~Broken(received, At)
      /\ c \notin {"blank", "cr"} /\ At > 1 => received[At - 1] \in {"blank", "lf"}
  BY <1>1 DEF LexerInv, StateOK
<1>6. TypeOK'
  BY <1>1, <1>2, <1>4 DEF LexerInv, TypeOK, State
<1>7. c = "lf" => Broken(received, At)
  BY <1>2, <1>5 DEF Broken
<1>8. StateOK'
  <2>1. CASE c = "lf"
    <3>1. state' = "PROTOCOL_PARSE_ERROR" /\ ~request_for_char'
      BY <1>1, <2>1
    <3> QED
      BY <1>1, <1>3, <1>7, <2>1, <3>1 DEF StateOK
  <2>2. CASE c = "blank"
    <3>1. state' = "START" /\ request_for_char'
      BY <1>1, <2>2
    <3> QED
      BY <1>1, <1>2, <1>3, <2>2, <3>1 DEF StateOK
  <2>3. CASE c = "cr"
    <3>1. state' = "EOLN" /\ request_for_char' = TRUE
      BY <1>1, <2>3
    <3>2. Done' = At /\ received'[At] = "cr"
      BY <1>1, <1>2, <1>3, <2>3, <3>1
    <3> QED
      BY <1>2, <1>3, <3>1, <3>2 DEF StateOK
  <2>4. CASE c \in Text
    <3>a. c = "digit" => state' = "NUMBER"
      BY <1>1
    <3>b. c = "letter" => state' = "WORD"
      BY <1>1
    <3>c. (c = "digit" \/ c = "letter") /\ c \notin {"blank", "cr"}
      BY <2>4 DEF Text
    <3>d. request_for_char' = FALSE
      <4>1. request_for_char' = (c \in {"blank", "cr"})
        BY DEF Start
      <4>2. (c \in {"blank", "cr"}) = FALSE
        BY <3>c
      <4> QED
        BY <4>1, <4>2
    <3>1. /\ state' = IF c = "digit" THEN "NUMBER" ELSE "WORD"
          /\ request_for_char' = FALSE /\ Done' = At - 1
      BY <1>3, <3>a, <3>b, <3>c, <3>d
    <3>2. /\ At \in At .. At /\ \A q \in At .. At - 1 : FALSE
          /\ SubSeq(received, At, At - 1) = <<>>
      BY <1>2
    <3>3. ConvertToString(buf') = SubSeq(received, At, At - 1)
      BY <1>1, <1>4, <3>2, NewBufferOK
    <3>4. At > 1 => received[At - 1] \in {"blank", "lf"}
      BY <1>5, <2>4 DEF Text
    <3>5. /\ state' = "WORD" => received[At] = "letter"
          /\ state' = "NUMBER" => received[At] = "digit"
      BY <1>2, <2>4, <3>1 DEF Text
    <3>6. TextFrom(At)'
      BY <1>1, <1>2, <1>3, <3>1, <3>2, <3>3, <3>4, <3>5 DEF TextFrom
    <3>7. \E s \in 1 .. At : TextFrom(s)'
      BY <1>2, <1>3, <3>6
    <3> QED
      BY <1>1, <1>2, <1>3, <2>4, <3>1, <3>7 DEF StateOK
  <2> QED
    BY <1>2, <2>1, <2>2, <2>3, <2>4 DEF Text
<1>9. MeaningOK'
  <2>1. CASE c \in {"blank", "cr"}
    <3>1. Done' = At /\ SaidTo' = At
      BY <1>1, <1>3, <2>1 DEF SaidTo
    <3>2. \A q \in 1 .. At : ~Broken(received, q)
      BY <1>2, <1>3, <1>5, <2>1
    <3> QED
      BY <1>1, <1>3, <2>1, <3>1, <3>2 DEF MeaningOK
  <2>2. CASE c \notin {"blank", "cr"}
    <3>1. Done' = At - 1 /\ SaidTo' = At - 1
      BY <1>1, <1>3, <2>2 DEF SaidTo
    <3> QED
      BY <1>1, <1>3, <2>2, <3>1 DEF MeaningOK
  <2> QED
    BY <2>1, <2>2
<1> QED
  BY <1>1, <1>3, <1>6, <1>8, <1>9 DEF LexerInv

\* What st_word() and st_number() share.
LEMMA BareNewlineStep ==
  ASSUME LexerInv, In("WORD") \/ In("NUMBER"), BareNewline PROVE LexerInv'
<1>1. /\ state \in {"WORD", "NUMBER"} /\ request_for_char = FALSE /\ ~Closed /\ c = "lf"
      /\ state' = "PROTOCOL_PARSE_ERROR" /\ buf' = NewBuffer /\ request_for_char' = FALSE
      /\ c' = c /\ unread' = unread /\ received' = received /\ lexemes' = lexemes
  BY DEF BareNewline, In, LexerInv, TypeOK
<1>2. /\ At' = At /\ PositionOK' /\ ~Closed' /\ Done' = At - 1
      /\ \A q \in 1 .. At - 1 : ~Broken(received, q)
      /\ lexemes = Said(received, At - 1)
  BY <1>1, Looked DEF Closed
<1>3. /\ At \in 1 .. Len(received) /\ Len(received) \in Nat /\ c = received[At]
  BY <1>1, Places
<1>4. PICK s \in 1 .. At : TextFrom(s)
  BY <1>1 DEF LexerInv, StateOK
<1>5. At > 1 => received[At - 1] \in Text
  BY <1>1, <1>4, TextThere DEF Text
<1>6. Broken(received, At)
  BY <1>1, <1>3, <1>5 DEF Broken, Text
<1>7. TypeOK' /\ BufferOK(buf')
  BY <1>1, NewBufferOK, BufferType DEF LexerInv, TypeOK, State
<1>8. StateOK'
  BY <1>1, <1>2, <1>6 DEF StateOK
<1>9. MeaningOK'
  <2>1. SaidTo' = At - 1
    BY <1>1, <1>2 DEF SaidTo
  <2> QED
    BY <1>1, <1>2, <2>1 DEF MeaningOK
<1> QED
  BY <1>1, <1>2, <1>7, <1>8, <1>9 DEF LexerInv

LEMMA MoreTextStep ==
  ASSUME LexerInv, MoreText, c \in Text,
         In("WORD") \/ (In("NUMBER") /\ c = "digit")
  PROVE  LexerInv'
<1>1. /\ state \in {"WORD", "NUMBER"} /\ request_for_char = FALSE /\ ~Closed
      /\ buf' = AddToBuffer(buf, c) /\ request_for_char' = TRUE /\ state' = state
      /\ c' = c /\ unread' = unread /\ received' = received /\ lexemes' = lexemes
  BY DEF MoreText, In, LexerInv, TypeOK
<1>2. /\ At' = At /\ PositionOK' /\ ~Closed' /\ Done' = At
      /\ \A q \in 1 .. At - 1 : ~Broken(received, q)
      /\ lexemes = Said(received, At - 1)
  BY <1>1, Looked DEF Closed
<1>3. /\ At \in 1 .. Len(received) /\ Len(received) \in Nat /\ c = received[At]
      /\ Done = At - 1 /\ received \in Seq(Byte)
  BY <1>1, Places
<1>4. PICK s \in 1 .. At : TextFrom(s)
  BY <1>1 DEF LexerInv, StateOK
<1>5. ~Broken(received, At) /\ \A q \in 1 .. At : ~Broken(received, q)
  <2>1. ~Broken(received, At)
    BY <1>1, <1>4, TextWhole DEF Text
  <2> QED
    BY <1>2, <1>3, <2>1
<1>6. BufferOK(buf') /\ ConvertToString(buf') = Append(ConvertToString(buf), c)
  BY <1>1, AddsChar DEF LexerInv
<1>7. TypeOK'
  BY <1>1, <1>6, BufferType DEF LexerInv, TypeOK
<1>8. StateOK'
  <2>1. ConvertToString(buf') = SubSeq(received, s, At)
    <3>1. ConvertToString(buf) = SubSeq(received, s, At - 1)
      BY <1>3, <1>4 DEF TextFrom
    <3>2. SubSeq(received, s, At) = Append(SubSeq(received, s, At - 1), received[At])
      BY <1>3, <1>4
    <3> QED
      BY <1>3, <1>6, <3>1, <3>2
  <2>2. \A q \in s .. At : received[q] \in Text
    <3> SUFFICES ASSUME NEW q \in s .. At PROVE received[q] \in Text
      OBVIOUS
    <3>1. q = At \/ q \in s .. Done
      BY <1>3
    <3> QED
      BY <1>3, <1>4, <3>1 DEF TextFrom
  <2>3. state = "NUMBER" => /\ \A q \in s .. At : received[q] # "letter"
                            /\ received[s] = "digit"
    <3> SUFFICES ASSUME state = "NUMBER"
                 PROVE  /\ \A q \in s .. At : received[q] # "letter"
                        /\ received[s] = "digit"
      OBVIOUS
    <3>1. c = "digit"
      BY DEF In
    <3>2. ASSUME NEW q \in s .. At PROVE received[q] # "letter"
      <4>1. q = At \/ q \in s .. Done
        BY <1>3
      <4> QED
        BY <1>3, <1>4, <3>1, <4>1 DEF TextFrom
    <3> QED
      BY <1>4, <3>2 DEF TextFrom
  <2>4. TextFrom(s)'
    BY <1>1, <1>2, <1>4, <2>1, <2>2, <2>3 DEF TextFrom
  <2>5. \E t \in 1 .. At : TextFrom(t)'
    BY <2>4
  <2> QED
    BY <1>1, <1>2, <2>5 DEF StateOK
<1>9. MeaningOK'
  <2>1. SaidTo' = At
    BY <1>1, <1>2 DEF SaidTo
  <2>2. Said(received, At) = Said(received, At - 1)
    BY <1>2, <1>3, <1>5, PlaceSilent
  <2> QED
    BY <1>1, <1>2, <1>5, <2>1, <2>2 DEF MeaningOK
<1> QED
  BY <1>1, <1>2, <1>6, <1>7, <1>8, <1>9 DEF LexerInv

\* A lexeme returned is the last one told.
LEMMA Returned ==
  ASSUME LexerInv, NEW lex \in AnyLexeme, Return(lex)
  PROVE  /\ lexemes' \in Seq(AnyLexeme)
         /\ Closed' <=> lex.type = "PROTOCOL_PARSE_ERROR"
<1>1. lexemes \in Seq(AnyLexeme) /\ lexemes' = Append(lexemes, lex)
  BY DEF LexerInv, Return
<1>2. Len(lexemes) \in Nat
  BY <1>1, LenProperties
<1>3. /\ lexemes' \in Seq(AnyLexeme) /\ Len(lexemes') = Len(lexemes) + 1
      /\ lexemes'[Len(lexemes) + 1] = lex
  BY <1>1, AppendProperties
<1>4. lexemes' # <<>> /\ lexemes'[Len(lexemes')] = lex
  BY <1>2, <1>3, EmptySeq
<1> QED
  BY <1>3, <1>4 DEF Closed, Last

LEMMA EndOfTextStep ==
  ASSUME LexerInv, NEW lex, EndOfText(lex),
         \/ In("WORD") /\ lex = Lexeme("WORD", ConvertToString(buf))
         \/ In("NUMBER") /\ lex = NumberLexeme(ConvertToString(buf))
  PROVE  LexerInv'
<1>1. /\ state \in {"WORD", "NUMBER"} /\ request_for_char = FALSE /\ ~Closed
      /\ c \in {"blank", "cr"} /\ Return(lex)
      /\ buf' = NewBuffer /\ request_for_char' = FALSE /\ state' = "START"
      /\ c' = c /\ unread' = unread /\ received' = received
  BY DEF EndOfText, In, LexerInv, TypeOK
<1>2. /\ At' = At /\ PositionOK' /\ Done' = At - 1
      /\ \A q \in 1 .. At - 1 : ~Broken(received, q)
      /\ lexemes = Said(received, At - 1)
  BY <1>1, Looked
<1>3. /\ At \in 1 .. Len(received) /\ Len(received) \in Nat /\ c = received[At]
      /\ Done = At - 1 /\ received \in Seq(Byte)
  BY <1>1, Places
<1>4. PICK s \in 1 .. At : TextFrom(s)
  BY <1>1 DEF LexerInv, StateOK
<1>5. /\ s \in 1 .. At - 1 /\ Begins(received, s, At)
      /\ state = "WORD" => \E q \in s .. At - 1 : received[q] = "letter"
  BY <1>1, <1>4, TextThere DEF Text
<1>6. ~Broken(received, At)
  BY <1>1, <1>4, TextWhole
<1> DEFINE text == ConvertToString(buf)
<1>7. text = SubSeq(received, s, At - 1)
  BY <1>3, <1>4 DEF TextFrom
<1>8. state = "NUMBER" => ~\E q \in s .. At - 1 : received[q] = "letter"
  BY <1>3, <1>4 DEF TextFrom
<1> HIDE DEF text
<1>9. CompletedAt(received, At) = <<lex>> /\ lex \in AnyLexeme
  <2>1. /\ CompletedAt(received, At) = IF \E q \in s .. At - 1 : received[q] = "letter"
                                       THEN <<Lexeme("WORD", text)>>
                                       ELSE <<NumberLexeme(text)>>
        /\ Lexeme("WORD", text) \in AnyLexeme /\ NumberLexeme(text) \in AnyLexeme
    BY <1>1, <1>3, <1>5, <1>6, <1>7, PlaceEnds
  <2>2. /\ state = "WORD" => lex = Lexeme("WORD", text)
        /\ state = "NUMBER" => lex = NumberLexeme(text)
    BY DEF In, text
  <2> QED
    BY <1>1, <1>5, <1>8, <2>1, <2>2
<1>10. lexemes' \in Seq(AnyLexeme) /\ ~Closed'
  <2>1. lex.type # "PROTOCOL_PARSE_ERROR"
    BY DEF Lexeme, NumberLexeme
  <2> QED
    BY <1>1, <1>9, <2>1, Returned
<1>11. TypeOK' /\ BufferOK(buf')
  BY <1>1, NewBufferOK, BufferType DEF LexerInv, TypeOK, State
<1>12. StateOK'
  BY <1>1, <1>2, <1>6, <1>10 DEF StateOK
<1>13. MeaningOK'
  <2>1. SaidTo' = At
    BY <1>1, <1>2 DEF SaidTo
  <2>2. Said(received, At) = Append(Said(received, At - 1), lex)
    BY <1>2, <1>3, <1>9, PlaceTells
  <2>3. lexemes' = Said(received, At)
    BY <1>1, <1>2, <2>2 DEF Return
  <2> QED
    BY <1>1, <1>2, <2>1, <2>3 DEF MeaningOK
<1> QED
  BY <1>2, <1>10, <1>11, <1>12, <1>13 DEF LexerInv

LEMMA WordStep == ASSUME LexerInv, Word PROVE LexerInv'
<1>1. In("WORD")
  BY DEF Word
<1>2. CASE BareNewline
  BY <1>1, <1>2, BareNewlineStep
<1>3. CASE EndOfText(Lexeme("WORD", ConvertToString(buf)))
  BY <1>1, <1>3, EndOfTextStep
<1>4. CASE c \in Text /\ MoreText
  BY <1>1, <1>4, MoreTextStep
<1> QED
  BY <1>2, <1>3, <1>4 DEF Word

\* A letter makes a word of what seemed a number.
LEMMA LetterStep ==
  ASSUME LexerInv, In("NUMBER"), c = "letter", state' = "WORD",
         UNCHANGED <<buf, c, request_for_char, unread, received, lexemes>>
  PROVE  LexerInv'
<1>1. /\ request_for_char = FALSE /\ ~Closed /\ state = "NUMBER"
      /\ request_for_char' = FALSE /\ buf' = buf
      /\ c' = c /\ unread' = unread /\ received' = received /\ lexemes' = lexemes
  BY DEF In, LexerInv, TypeOK
<1>2. /\ At' = At /\ PositionOK' /\ ~Closed' /\ Done' = At - 1
      /\ \A q \in 1 .. At - 1 : ~Broken(received, q)
      /\ lexemes = Said(received, At - 1)
  BY <1>1, Looked DEF Closed
<1>3. At \in 1 .. Len(received) /\ c = received[At] /\ Done = At - 1
  BY <1>1, Places
<1>4. PICK s \in 1 .. At : TextFrom(s)
  BY <1>1 DEF LexerInv, StateOK
<1>5. TypeOK'
  BY <1>1 DEF LexerInv, TypeOK, State
<1>6. TextFrom(s)'
  <2>1. At \in s .. At
    BY <1>3, <1>4
  <2> QED
    BY <1>1, <1>2, <1>3, <1>4, <2>1 DEF TextFrom
<1>7. StateOK'
  <2>1. \E t \in 1 .. At : TextFrom(t)'
    BY <1>6
  <2> QED
    BY <1>1, <1>2, <2>1 DEF StateOK
<1>8. MeaningOK'
  <2>1. SaidTo' = At - 1
    BY <1>1, <1>2 DEF SaidTo
  <2> QED
    BY <1>1, <1>2, <2>1 DEF MeaningOK
<1> QED
  BY <1>1, <1>2, <1>5, <1>7, <1>8 DEF LexerInv

LEMMA NumberStep == ASSUME LexerInv, Number PROVE LexerInv'
<1>1. In("NUMBER")
  BY DEF Number
<1>2. CASE BareNewline
  BY <1>1, <1>2, BareNewlineStep
<1>3. CASE EndOfText(NumberLexeme(ConvertToString(buf)))
  BY <1>1, <1>3, EndOfTextStep
<1>4. CASE c = "digit" /\ MoreText
  BY <1>1, <1>4, MoreTextStep DEF Text
<1>5. CASE /\ c = "letter" /\ state' = "WORD"
           /\ UNCHANGED <<buf, c, request_for_char, unread, received, lexemes>>
  BY <1>1, <1>5, LetterStep
<1> QED
  BY <1>2, <1>3, <1>4, <1>5 DEF Number

LEMMA EolnStep == ASSUME LexerInv, Eoln PROVE LexerInv'
<1>1. /\ request_for_char = FALSE /\ ~Closed /\ state = "EOLN"
      /\ buf' = buf /\ c' = c /\ unread' = unread /\ received' = received
  BY DEF Eoln, In, LexerInv, TypeOK
<1>2. /\ At \in 1 .. Len(received) /\ Len(received) \in Nat /\ c = received[At]
      /\ Done = At - 1 /\ received \in Seq(Byte)
  BY <1>1, Places
<1>3. At > 1 /\ received[At - 1] = "cr"
  BY <1>1, <1>2 DEF LexerInv, StateOK
<1>4. Broken(received, At) <=> c # "lf"
  BY <1>2, <1>3 DEF Broken
<1>5. buf = NewBuffer
  BY <1>1 DEF LexerInv, TypeOK
<1>6. CASE c = "lf"
  <2>1. /\ state' = "START" /\ request_for_char' = TRUE /\ Return(Lexeme("EOLN", <<>>))
    BY <1>6 DEF Eoln
  <2>2. /\ At' = At /\ PositionOK' /\ Done' = At
        /\ \A q \in 1 .. At - 1 : ~Broken(received, q)
        /\ lexemes = Said(received, At - 1)
    BY <1>1, <2>1, Looked
  <2>3. CompletedAt(received, At) = <<Lexeme("EOLN", <<>>)>>
    BY <1>2, <1>4, <1>6 DEF CompletedAt
  <2>4. /\ Lexeme("EOLN", <<>>) \in AnyLexeme
        /\ Lexeme("EOLN", <<>>).type # "PROTOCOL_PARSE_ERROR"
    BY EmptySeq DEF Lexeme, AnyLexeme
  <2>5. lexemes' \in Seq(AnyLexeme) /\ ~Closed'
    BY <2>1, <2>4, Returned
  <2>6. TypeOK'
    BY <1>1, <1>5, <2>1 DEF LexerInv, TypeOK, State
  <2>7. StateOK'
    BY <1>1, <1>2, <1>6, <2>1, <2>2, <2>5 DEF StateOK
  <2>8. MeaningOK'
    <3>1. SaidTo' = At
      BY <2>1, <2>2 DEF SaidTo
    <3>2. Said(received, At) = Append(Said(received, At - 1), Lexeme("EOLN", <<>>))
      BY <1>2, <2>2, <2>3, <2>4, PlaceTells
    <3>3. lexemes' = Said(received, At)
      BY <2>1, <2>2, <3>2 DEF Return
    <3>4. \A q \in 1 .. At : ~Broken(received, q)
      BY <1>2, <1>4, <1>6, <2>2
    <3> QED
      BY <1>1, <2>2, <3>1, <3>3, <3>4 DEF MeaningOK
  <2> QED
    BY <1>1, <2>2, <2>5, <2>6, <2>7, <2>8 DEF LexerInv
<1>7. CASE c # "lf"
  <2>1. /\ state' = "PROTOCOL_PARSE_ERROR" /\ request_for_char' = FALSE /\ lexemes' = lexemes
    BY <1>1, <1>7 DEF Eoln
  <2>2. /\ At' = At /\ PositionOK' /\ Done' = At - 1 /\ ~Closed'
        /\ \A q \in 1 .. At - 1 : ~Broken(received, q)
        /\ lexemes = Said(received, At - 1)
    BY <1>1, <2>1, Looked DEF Closed
  <2>3. TypeOK'
    BY <1>1, <1>5, <2>1 DEF LexerInv, TypeOK, State
  <2>4. StateOK'
    BY <1>1, <1>4, <1>7, <2>1, <2>2 DEF StateOK
  <2>5. MeaningOK'
    <3>1. SaidTo' = At - 1
      BY <2>1, <2>2 DEF SaidTo
    <3> QED
      BY <1>1, <2>1, <2>2, <3>1 DEF MeaningOK
  <2> QED
    BY <1>1, <2>1, <2>2, <2>3, <2>4, <2>5 DEF LexerInv
<1> QED
  BY <1>6, <1>7

LEMMA ErrorStep == ASSUME LexerInv, ProtocolParseError PROVE LexerInv'
<1> DEFINE lex == Lexeme("PROTOCOL_PARSE_ERROR", <<>>)
<1>1. /\ request_for_char = FALSE /\ ~Closed /\ state = "PROTOCOL_PARSE_ERROR"
      /\ state' = state /\ request_for_char' = FALSE /\ Return(lex)
      /\ buf' = buf /\ c' = c /\ unread' = unread /\ received' = received
  BY DEF ProtocolParseError, In, LexerInv, TypeOK
<1>2. /\ At \in 1 .. Len(received) /\ received \in Seq(Byte)
  BY <1>1, Places
<1>3. /\ At' = At /\ PositionOK' /\ Done' = At - 1
      /\ \A q \in 1 .. At - 1 : ~Broken(received, q)
      /\ lexemes = Said(received, At - 1)
  BY <1>1, Looked
<1>4. Broken(received, At)
  BY <1>1 DEF LexerInv, StateOK
<1>5. lex \in AnyLexeme /\ lex.type = "PROTOCOL_PARSE_ERROR"
  BY EmptySeq DEF Lexeme, AnyLexeme
<1>6. lexemes' \in Seq(AnyLexeme) /\ Closed'
  BY <1>1, <1>5, Returned
<1>7. CompletedAt(received, At) = <<lex>>
  BY <1>4 DEF CompletedAt
<1> HIDE DEF lex
<1>8. TypeOK'
  BY <1>1 DEF LexerInv, TypeOK
<1>9. StateOK'
  BY <1>1, <1>3, <1>4 DEF StateOK
<1>10. MeaningOK'
  <2>1. SaidTo' = At
    BY <1>3, <1>6 DEF SaidTo
  <2>2. Said(received, At) = Append(Said(received, At - 1), lex)
    BY <1>2, <1>3, <1>5, <1>7, PlaceTells
  <2>3. lexemes' = Said(received, At)
    BY <1>1, <1>3, <2>2 DEF Return
  <2> QED
    BY <1>1, <1>3, <2>1, <2>3 DEF MeaningOK
<1> QED
  BY <1>1, <1>3, <1>6, <1>8, <1>9, <1>10 DEF LexerInv

LEMMA LexerNext == ASSUME LexerInv, [Next]_vars PROVE LexerInv'
<1>1. ASSUME NEW n \in Nat, NEW chunk \in [1 .. n -> Byte] PROVE chunk \in Seq(Byte)
  OBVIOUS
<1>2. ASSUME NEW chunk \in UNION {[1 .. n -> Byte] : n \in 1 .. READ_BUFFER_SIZE}, Read(chunk)
      PROVE  LexerInv'
  <2>1. PICK n \in 1 .. READ_BUFFER_SIZE : chunk \in [1 .. n -> Byte]
    BY <1>2
  <2>2. n \in Nat
    BY LexerAssumption
  <2> QED
    BY <1>1, <1>2, <2>1, <2>2, ReadStep
<1>3. CASE GetLex
  BY <1>3, GetCharStep, StartStep, WordStep, NumberStep, EolnStep, ErrorStep DEF GetLex
<1>4. CASE UNCHANGED vars
  BY ZenonT(60), <1>4 DEF vars, LexerInv, TypeOK, PositionOK, StateOK, MeaningOK, TextFrom, At, Done,
     SaidTo, Closed
<1> QED
  BY <1>2, <1>3, <1>4 DEF Next

LEMMA LexerInductive == Spec => []LexerInv
BY InitLexer, LexerNext, PTL DEF Spec

-----------------------------------------------------------------------------
(* What the lexer promises *)

\* Whatever the sizes of the read buffer and of the blocks, the fields of
\* lexer_info keep their types, and buf is empty between the lexemes.
THEOREM LexerTypes == Spec => []TypeOK
BY LexerInductive, PTL DEF LexerInv

LEMMA AllSaid == LexerInv => ChunksDoNotMatter
<1> SUFFICES ASSUME LexerInv, Idle PROVE lexemes = LexemesOf(received)
  BY DEF ChunksDoNotMatter
<1>1. /\ received \in Seq(Byte) /\ Len(received) \in Nat /\ At \in 0 .. Len(received)
      /\ Len(received) = At + Len(unread)
  BY Places
<1>2. LexemesOf(received) = Said(received, Len(received))
  <2>1. DOMAIN received = 1 .. Len(received)
    BY <1>1, LenProperties
  <2> QED
    BY <2>1 DEF LexemesOf, Said, SaidAt
<1>3. CASE Waits
  <2>1. request_for_char /\ Len(unread) = 0
    BY <1>3, EmptySeq DEF Waits
  <2>2. SaidTo = Len(received)
    BY <1>1, <2>1, Places
  <2> QED
    BY <1>2, <2>2 DEF LexerInv, MeaningOK
<1>4. CASE Closed
  <2>1. ~request_for_char /\ Broken(received, At) /\ SaidTo = At
    BY <1>4 DEF LexerInv, StateOK, SaidTo
  <2>2. At \in 1 .. Len(received)
    BY <2>1, Places
  <2>3. Said(received, Len(received)) = Said(received, At)
    BY <1>1, <2>1, <2>2, SaidNoMore
  <2> QED
    BY <1>2, <2>1, <2>3 DEF LexerInv, MeaningOK
<1> QED
  BY <1>3, <1>4 DEF Idle

\* However the bytes are cut into read()s, and whatever the sizes of the read
\* buffer, of the blocks of the text buffer and of the longest number,
\* get_lex() has returned the lexemes of the whole stream when it waits.
THEOREM LexemesAreExact == Spec => []ChunksDoNotMatter
BY LexerInductive, AllSaid, PTL

=============================================================================
