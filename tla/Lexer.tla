------------------------------- MODULE Lexer -------------------------------
(***************************************************************************)
(* The lexer of one connection (lexer.c): it is given the bytes of each    *)
(* read() and makes lexemes of them, keeping its state from one read() to  *)
(* the next.                                                               *)
(*                                                                         *)
(* A byte is one of the classes the lexer tells apart.  Which word or      *)
(* number a lexeme is follows from its bytes, which the model keeps; of a  *)
(* number only its length matters, for the overflow of strtol().           *)
(***************************************************************************)
EXTENDS ByteBuffer

CONSTANTS
  READ_BUFFER_SIZE,  \* the longest read()
  MaxDigits,         \* a number of more digits does not fit an int
  MaxReceived        \* the bound of this model on the bytes of a connection

ASSUME LexerAssumption ==
  READ_BUFFER_SIZE \in Nat \ {0} /\ MaxDigits \in Nat \ {0} /\ MaxReceived \in Nat

VARIABLES
  state, buf, c, request_for_char,  \* the fields of lexer_info; buf is a ByteBuffer
  unread,    \* what read_pointer and read_available leave to read
  received,  \* history: all the bytes of the connection
  lexemes    \* history: what get_lex() returned

vars == <<state, buf, c, request_for_char, unread, received, lexemes>>

Text == {"digit", "letter"}
Byte == Text \cup {"blank", "cr", "lf"}
State == {"START", "WORD", "NUMBER", "EOLN", "PROTOCOL_PARSE_ERROR"}

Lexeme(type, text) == [type |-> type, text |-> text]

\* new_lex(LEX_NUMBER): strtol() or the int may be too short.
NumberLexeme(text) ==
  Lexeme(IF Len(text) > MaxDigits THEN "WRONG_NUMBER" ELSE "NUMBER", text)

\* new_lexer_info()
Init ==
  /\ state = "START"
  /\ buf = NewBuffer
  /\ c \in Byte  \* undefined until it is read
  /\ request_for_char = TRUE
  /\ unread = <<>>
  /\ received = <<>>
  /\ lexemes = <<>>

\* get_lex() has nothing to do: it waits for a character, or it has told
\* the protocol error, after which the connection is closed.
Waits == request_for_char /\ unread = <<>>
Closed == lexemes # <<>> /\ Last(lexemes).type = "PROTOCOL_PARSE_ERROR"
Idle == Waits \/ Closed

\* Mutant of Read: every read() begins a new lexeme.
MutReadStartsAnew(chunk) ==
  /\ Waits /\ ~Closed
  /\ Len(received) + Len(chunk) <= MaxReceived
  /\ unread' = chunk /\ received' = received \o chunk
  /\ state' = "START"
  /\ UNCHANGED <<buf, c, request_for_char, lexemes>>

\* read_ready_data() and put_new_data_to_lexer()
Read(chunk) ==
  /\ Waits /\ ~Closed
  /\ Len(received) + Len(chunk) <= MaxReceived
  /\ unread' = chunk /\ received' = received \o chunk
  /\ UNCHANGED <<state, buf, c, request_for_char, lexemes>>

\* get_char()
GetChar ==
  /\ request_for_char /\ unread # <<>>
  /\ c' = Head(unread) /\ unread' = Tail(unread)
  /\ request_for_char' = FALSE
  /\ UNCHANGED <<state, buf, received, lexemes>>

-----------------------------------------------------------------------------
(* The states of get_lex(), once it has a character *)

In(st) == state = st /\ ~request_for_char /\ ~Closed

Return(lex) == lexemes' = Append(lexemes, lex)

\* Mutant of Start: a blank stays the current character.
MutBlankStays ==
  /\ In("START")
  /\ state' = CASE c = "lf"     -> "PROTOCOL_PARSE_ERROR"
                [] c = "blank"  -> "START"
                [] c = "digit"  -> "NUMBER"
                [] c = "cr"     -> "EOLN"
                [] c = "letter" -> "WORD"
  /\ request_for_char' = (c = "cr")
  /\ UNCHANGED <<c, buf, unread, received, lexemes>>

\* st_start()
Start ==
  /\ In("START")
  /\ state' = CASE c = "lf"     -> "PROTOCOL_PARSE_ERROR"
                [] c = "blank"  -> "START"
                [] c = "digit"  -> "NUMBER"
                [] c = "cr"     -> "EOLN"
                [] c = "letter" -> "WORD"
  /\ request_for_char' = (c \in {"blank", "cr"})
  /\ UNCHANGED <<c, buf, unread, received, lexemes>>

\* What st_word() and st_number() do with '\n'.
BareNewline ==
  /\ c = "lf"
  /\ state' = "PROTOCOL_PARSE_ERROR" /\ buf' = NewBuffer
  /\ UNCHANGED <<c, request_for_char, unread, received, lexemes>>

\* ... with a blank or '\r': the character is looked at again by st_start().
EndOfText(lex) ==
  /\ c \in {"blank", "cr"}
  /\ state' = "START" /\ buf' = NewBuffer /\ Return(lex)
  /\ UNCHANGED <<c, request_for_char, unread, received>>

\* ... with a character of the word, or of the number.
MoreText ==
  /\ buf' = AddToBuffer(buf, c) /\ request_for_char' = TRUE
  /\ UNCHANGED <<state, c, unread, received, lexemes>>

\* st_word()
Word ==
  /\ In("WORD")
  /\ \/ BareNewline
     \/ EndOfText(Lexeme("WORD", ConvertToString(buf)))
     \/ c \in Text /\ MoreText

\* st_number(): a letter makes a word of what seemed a number.
Number ==
  /\ In("NUMBER")
  /\ \/ BareNewline
     \/ EndOfText(NumberLexeme(ConvertToString(buf)))
     \/ c = "digit" /\ MoreText
     \/ /\ c = "letter"
        /\ state' = "WORD"
        /\ UNCHANGED <<buf, c, request_for_char, unread, received, lexemes>>

\* st_eoln()
Eoln ==
  /\ In("EOLN")
  /\ IF c = "lf"
     THEN /\ state' = "START" /\ request_for_char' = TRUE
          /\ Return(Lexeme("EOLN", <<>>))
     ELSE /\ state' = "PROTOCOL_PARSE_ERROR"
          /\ UNCHANGED <<request_for_char, lexemes>>
  /\ UNCHANGED <<buf, c, unread, received>>

\* st_protocol_parse_error()
ProtocolParseError ==
  /\ In("PROTOCOL_PARSE_ERROR")
  /\ Return(Lexeme("PROTOCOL_PARSE_ERROR", <<>>))
  /\ UNCHANGED <<state, buf, c, request_for_char, unread, received>>

\* An iteration of the loop of get_lex()
GetLex == GetChar \/ Start \/ Word \/ Number \/ Eoln \/ ProtocolParseError

Next == GetLex \/ \E chunk \in UNION {[1 .. n -> Byte] : n \in 1 .. READ_BUFFER_SIZE} : Read(chunk)

\* The loop is not left before it returns.
Spec == Init /\ [][Next]_vars /\ WF_vars(GetLex)

-----------------------------------------------------------------------------
(* What a stream of bytes means, without a state and without read()s *)

\* A '\n' that no '\r' precedes, or anything else after a '\r'.
Broken(bytes, p) ==
  LET afterCR == p > 1 /\ bytes[p - 1] = "cr"
  IN  (bytes[p] = "lf") # afterCR

\* The text that ends before place p.
TextBefore(bytes, p) ==
  LET start == CHOOSE s \in 1 .. p : /\ \A q \in s .. p - 1 : bytes[q] \in Text
                                     /\ s > 1 => bytes[s - 1] \notin Text
  IN  SubSeq(bytes, start, p - 1)

\* The lexemes that the byte at place p completes.
CompletedAt(bytes, p) ==
  LET text == TextBefore(bytes, p)
  IN  IF Broken(bytes, p) THEN <<Lexeme("PROTOCOL_PARSE_ERROR", <<>>)>>
      ELSE IF bytes[p] = "lf" THEN <<Lexeme("EOLN", <<>>)>>
      ELSE IF bytes[p] \in Text \/ text = <<>> THEN <<>>
      ELSE IF "letter" \in ToSet(text) THEN <<Lexeme("WORD", text)>>
      ELSE <<NumberLexeme(text)>>

\* The lexemes of a stream: nothing after the first broken place counts.
LexemesOf(bytes) ==
  FlattenSeq([p \in DOMAIN bytes |->
                IF \E q \in 1 .. p - 1 : Broken(bytes, q) THEN <<>>
                                                          ELSE CompletedAt(bytes, p)])

-----------------------------------------------------------------------------
(* Properties *)

\* Every field keeps its type, and the text of a lexeme is in buf only while
\* the lexeme is being read: no lexeme begins with the text of another.
TypeOK ==
  /\ state \in State
  /\ buf # NewBuffer => state \in {"WORD", "NUMBER"}
  /\ WellFormed(buf) /\ ToSet(ConvertToString(buf)) \subseteq Text
  /\ c \in Byte
  /\ request_for_char \in BOOLEAN
  /\ unread \in Seq(Byte) /\ received \in Seq(Byte)

\* However the bytes are cut into read()s, get_lex() returns the lexemes of
\* the whole stream, each as soon as its last byte is there: a lexeme is
\* never lost, split, joined or told twice at the end of a read buffer.
ChunksDoNotMatter == Idle => lexemes = LexemesOf(received)

\* get_lex() always comes to the end of what it was given to read: none of
\* its states passes a character round for ever.
LexerComesToRest == []<>Idle

=============================================================================
