----------------------------- MODULE ByteBuffer -----------------------------
(***************************************************************************)
(* The buffer of the lexer (buffer.c): a string that grows by characters,  *)
(* kept in blocks of BUFFER_BLOCK_SIZE, of which only the total length is  *)
(* known.  A buffer is a record, and the functions of buffer.c are         *)
(* operators from a buffer to a buffer or to a sequence of characters.     *)
(***************************************************************************)
EXTENDS Integers, SequencesExt

CONSTANT BUFFER_BLOCK_SIZE

ASSUME BlockAssumption == BUFFER_BLOCK_SIZE \in Nat \ {0}

\* What malloc() leaves in a cell, and what lies behind the end of a block.
Garbage == "garbage"

NewBlock == [pos \in 0 .. BUFFER_BLOCK_SIZE - 1 |-> Garbage]

\* new_buffer(), and clear_buffer() once the blocks are freed
NewBuffer == [blocks |-> <<>>, count_sym |-> 0]

\* Mutant of AddToBuffer: only an empty buffer gets a block.
MutOneBlock(b, char) ==
  LET pos  == b.count_sym % BUFFER_BLOCK_SIZE
      room == IF b.blocks = <<>> THEN Append(b.blocks, NewBlock) ELSE b.blocks
  IN  [blocks |-> [room EXCEPT ![Len(room)][pos] = char],
       count_sym |-> b.count_sym + 1]

\* add_to_buffer(): the position tells when the last block is full.
AddToBuffer(b, char) ==
  LET pos  == b.count_sym % BUFFER_BLOCK_SIZE
      room == IF b.blocks = <<>> \/ pos = 0 THEN Append(b.blocks, NewBlock)
                                            ELSE b.blocks
  IN  [blocks |-> [room EXCEPT ![Len(room)][pos] = char],
       count_sym |-> b.count_sym + 1]

\* What convert_to_string() copies of block i: all of it, unless it is the
\* last one.
CopiedSize(b, i) ==
  IF i = Len(b.blocks) THEN b.count_sym - (i - 1) * BUFFER_BLOCK_SIZE
                       ELSE BUFFER_BLOCK_SIZE

Copied(b, i) ==
  [k \in 1 .. CopiedSize(b, i) |->
     IF k <= BUFFER_BLOCK_SIZE THEN b.blocks[i][k - 1] ELSE Garbage]

\* convert_to_string()
ConvertToString(b) == FlattenSeq([i \in DOMAIN b.blocks |-> Copied(b, i)])

-----------------------------------------------------------------------------
(* The blocks and the count agree: every block but the last is full, the   *)
(* last is not empty, and nothing past the count was written.              *)

WellFormed(b) ==
  /\ b.count_sym \in Len(b.blocks) * BUFFER_BLOCK_SIZE
                       - (IF b.blocks = <<>> THEN 0 ELSE BUFFER_BLOCK_SIZE - 1)
                     .. Len(b.blocks) * BUFFER_BLOCK_SIZE
  /\ \A i \in DOMAIN b.blocks, pos \in 0 .. BUFFER_BLOCK_SIZE - 1 :
       b.blocks[i][pos] = Garbage
         <=> (i - 1) * BUFFER_BLOCK_SIZE + pos >= b.count_sym

=============================================================================
