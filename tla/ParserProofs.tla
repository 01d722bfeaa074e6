---------------------------- MODULE ParserProofs ----------------------------
(***************************************************************************)
(* Proofs about Parser, for every set of names and every stream: the type  *)
(* invariant; that a string is freed once and never used after; and that   *)
(* the commands are what the lines mean, each by itself.                   *)
(*                                                                         *)
(* For the last, a line is described by the number and the kind of its     *)
(* arguments (Fits), and the invariant says of each state of get_cmd()     *)
(* what it has before it of the line, and what tmp_cmd holds of it.        *)
(***************************************************************************)
EXTENDS Parser, ListProofs

\* Which commands the states that look for an argument may have, and that
\* the string of the current lexeme is not yet given away where it is about
\* to be.
ArgumentStates ==
  /\ state = "EXPECT_OPTIONAL_STR" => ~cur_lex_data_used
  /\ state = "PROCESS_ARG1" /\ ~request_for_lex => ~cur_lex_data_used
  /\ state = "EXPECT_TWO_NUMBERS" => tmp_cmd.type \in TwoNumbers
  /\ state = "EXPECT_ONE_NUMBER" => tmp_cmd.type \in OneNumber \cup TwoNumbers

\* The inductive invariant.  A state runs only with a lexeme.
PInv ==
  /\ TypeOK
  /\ Len(received) <= MaxReceived
  /\ ~request_for_lex => cur_lex # 0
  /\ ArgumentStates
  /\ ArgumentsAlive

LEMMA InitInvariant == Init => PInv
<1> SUFFICES ASSUME Init PROVE PInv
  OBVIOUS
<1>1. received \in Seq(Lexeme) /\ Len(received) = 0
  BY DEF Init
<1>2. Undefined \in Value
  BY ParserAssumption DEF Undefined, Value
<1>3. TypeOK
  <2>1. tmp_cmd \in [type : Name \cup {"WRONG", "EMPTY", "PROTOCOL_PARSE_ERROR"},
                    value : Value, value2 : Value]
    BY <1>2 DEF Init
  <2>2. taken \in 0 .. Len(received)
    BY <1>1 DEF Init
  <2> QED
    BY <1>1, <2>1, <2>2 DEF Init, TypeOK
<1>4. FreedWithLex = {}
  BY DEF Init, FreedWithLex
<1> QED
  BY <1>1, <1>3, <1>4, ParserAssumption DEF Init, PInv, ArgumentStates, ArgumentsAlive

\* A state of get_cmd() has a lexeme of the stream.
LEMMA HasLexeme ==
  ASSUME PInv, ~request_for_lex
  PROVE  /\ cur_lex \in DOMAIN received /\ cur_lex = taken /\ cur_lex \in 1 .. MaxReceived
         /\ Lex \in Lexeme
         /\ Lex.type = "NUMBER" => Lex.value \in Number
BY ParserAssumption DEF PInv, TypeOK, Lex, Lexeme

LEMMA StepReceive ==
  ASSUME PInv, NEW lex \in Lexeme, Receive(lex)
  PROVE  PInv'
<1>1. /\ Len(received') = Len(received) + 1 /\ received' \in Seq(Lexeme)
      /\ \A p \in 1 .. Len(received) : received'[p] = received[p]
  BY DEF PInv, TypeOK, Receive
<1>2. FreedWithLex' = FreedWithLex
  BY <1>1 DEF PInv, TypeOK, Receive, pinfo, FreedWithLex, Lex
<1>3. TypeOK'
  BY <1>1 DEF PInv, TypeOK, Receive, pinfo
<1>4. (Len(received) <= MaxReceived)'
  BY <1>1, ParserAssumption DEF Receive, PInv, TypeOK
<1>5. ArgumentsAlive' /\ ArgumentStates'
  BY <1>2 DEF PInv, Receive, pinfo, ArgumentsAlive, ArgumentStates
<1> QED
  BY <1>3, <1>4, <1>5 DEF PInv, Receive, pinfo

LEMMA StepGetLex ==
  ASSUME PInv, GetLex
  PROVE  PInv'
<1> DEFINE word == {p \in {taken + 1} : received[p].type = "WORD"}
<1>1. /\ taken \in Nat /\ taken + 1 \in 1 .. Len(received)
      /\ allocated \subseteq 1 .. taken
      /\ FreedWithLex \subseteq allocated
  BY DEF PInv, TypeOK, GetLex, ArgumentsAlive
<1>2. FreedWithLex' = word
  BY <1>1 DEF GetLex, FreedWithLex, Lex
<1>3. /\ allocated' = (allocated \ FreedWithLex) \cup word
      /\ word \cap allocated = {}
  BY <1>1 DEF GetLex
<1>4. TypeOK'
  <2>1. allocated' \subseteq 1 .. taken'
    <3>1. word \subseteq {taken + 1}
      OBVIOUS
    <3>2. allocated' \subseteq (1 .. taken) \cup {taken + 1}
      BY <1>1, <1>3, <3>1
    <3>3. taken' = taken + 1
      BY DEF GetLex
    <3> QED
      BY <1>1, <3>2, <3>3
  <2>2. taken' \in 0 .. Len(received')
    BY <1>1 DEF GetLex
  <2> QED
    BY <2>1, <2>2 DEF PInv, TypeOK, GetLex
<1>5. ArgumentsAlive'
  <2>1. FreedWithLex' \subseteq allocated'
    BY <1>2, <1>3
  <2>2. allocated \ FreedWithLex \subseteq allocated' \ FreedWithLex'
    BY <1>2, <1>3
  <2> QED
    BY <2>1, <2>2 DEF PInv, GetLex, ArgumentsAlive
<1>6. ArgumentStates'
  BY DEF PInv, GetLex, ArgumentStates
<1> QED
  BY <1>1, <1>4, <1>5, <1>6 DEF PInv, GetLex

LEMMA StepGetNothing ==
  ASSUME PInv, GetNothing
  PROVE  PInv'
<1>1. FreedWithLex' = {}
  BY DEF GetNothing, FreedWithLex
<1>2. TypeOK'
  BY DEF PInv, TypeOK, GetNothing
<1>3. ArgumentsAlive'
  BY <1>1 DEF PInv, GetNothing, ArgumentsAlive
<1> QED
  BY <1>2, <1>3 DEF PInv, GetNothing, ArgumentStates

\* A step that only changes the state, and not to one that needs a string.
LEMMA StepGoto ==
  ASSUME PInv, ~request_for_lex, NEW st, Goto(st),
         st \in {"EXPECT_CMD_NAME", "EXPECT_EOLN", "EXPECT_OPTIONAL_STR",
                 "EXPECT_TWO_NUMBERS", "EXPECT_ONE_NUMBER",
                 "WRONG", "EMPTY", "PROTOCOL_PARSE_ERROR"},
         st = "EXPECT_EOLN" =>
           tmp_cmd.type \notin OptionalStr \/ state = "PROCESS_ARG2",
         st = "EXPECT_OPTIONAL_STR" => ~cur_lex_data_used,
         st = "EXPECT_TWO_NUMBERS" => tmp_cmd.type \in TwoNumbers,
         st = "EXPECT_ONE_NUMBER" => tmp_cmd.type \in OneNumber \cup TwoNumbers
  PROVE  PInv'
<1>1. FreedWithLex' = FreedWithLex
  BY DEF Goto, FreedWithLex, Lex
<1>2. TypeOK'
  BY DEF PInv, TypeOK, Goto
<1>3. ArgumentsAlive'
  BY <1>1 DEF PInv, ArgumentsAlive, Goto
<1> QED
  BY <1>2, <1>3 DEF PInv, ArgumentStates, Goto

\* A command is executed and destroyed with its string, which is not that of
\* the current lexeme.
LEMMA StepExecute ==
  ASSUME PInv, ~request_for_lex,
         NEW cmd \in [type : Name \cup {"WRONG", "EMPTY", "PROTOCOL_PARSE_ERROR"},
                      value : Value, value2 : Value],
         NEW st \in {"START", "SKIP", "PROTOCOL_PARSE_ERROR"},
         NEW nextLex \in BOOLEAN,
         Execute(cmd, st, nextLex),
         Argument(cmd) \cap FreedWithLex = {}
  PROVE  PInv'
<1>1. FreedWithLex' = FreedWithLex
  BY DEF Execute, FreedWithLex, Lex
<1>2. TypeOK'
  BY DEF PInv, TypeOK, Execute
<1>3. ArgumentsAlive'
  BY <1>1 DEF PInv, ArgumentsAlive, Execute
<1> QED
  BY <1>2, <1>3 DEF PInv, ArgumentStates, Execute

LEMMA StepUnexpected ==
  ASSUME PInv, ~request_for_lex, Unexpected
  PROVE  PInv'
<1>1. PICK st \in {"PROTOCOL_PARSE_ERROR", "WRONG"} : Goto(st)
  BY DEF Unexpected
<1> QED
  BY <1>1, StepGoto

LEMMA StepExpectCmdName ==
  ASSUME PInv, ExpectCmdName
  PROVE  PInv'
<1>1. FreedWithLex' = FreedWithLex
  BY DEF ExpectCmdName, FreedWithLex, Lex
<1>2. tmp_cmd'.type \in Name \cup {"WRONG"}
  BY DEF PInv, TypeOK, ExpectCmdName
<1>3. TypeOK'
  BY <1>2 DEF PInv, TypeOK, ExpectCmdName
<1>4. ArgumentsAlive'
  BY <1>1 DEF PInv, ArgumentsAlive, ExpectCmdName
<1> QED
  BY <1>3, <1>4 DEF PInv, ArgumentStates, ExpectCmdName, In

LEMMA StepProcessArg1 ==
  ASSUME PInv, ProcessArg1
  PROVE  PInv'
<1>1. ~request_for_lex /\ ~cur_lex_data_used
  BY DEF ProcessArg1, In, PInv, ArgumentStates
<1>2. CASE tmp_cmd.type \in NoArgument /\ Goto("EXPECT_EOLN")
  BY <1>1, <1>2, StepGoto DEF NoArgument, OptionalStr
<1>3. CASE tmp_cmd.type \in OptionalStr /\ Goto("EXPECT_OPTIONAL_STR")
  BY <1>1, <1>3, StepGoto
<1>4. CASE tmp_cmd.type \in OneNumber /\ Goto("EXPECT_ONE_NUMBER")
  BY <1>1, <1>4, StepGoto
<1>5. CASE tmp_cmd.type \in TwoNumbers /\ Goto("EXPECT_TWO_NUMBERS")
  BY <1>1, <1>5, StepGoto
<1> QED
  BY <1>2, <1>3, <1>4, <1>5 DEF ProcessArg1

LEMMA StepProcessArg2 ==
  ASSUME PInv, ProcessArg2
  PROVE  PInv'
<1>1. ~request_for_lex /\ state = "PROCESS_ARG2"
  BY DEF ProcessArg2, In
<1>2. CASE Goto("EXPECT_EOLN")
  BY <1>1, <1>2, StepGoto
<1>3. CASE tmp_cmd.type \in TwoNumbers /\ Goto("EXPECT_ONE_NUMBER")
  BY <1>1, <1>3, StepGoto
<1> QED
  BY <1>2, <1>3 DEF ProcessArg2

LEMMA StepExpectEoln ==
  ASSUME PInv, ExpectEoln
  PROVE  PInv'
<1>1. ~request_for_lex
  BY DEF ExpectEoln, In
<1>2. CASE Lex.type = "EOLN" /\ Execute(tmp_cmd, "START", TRUE)
  <2>1. FreedWithLex = {}
    BY <1>2 DEF FreedWithLex
  <2> QED
    BY <1>1, <1>2, <2>1, StepExecute DEF PInv, TypeOK
<1>3. CASE Unexpected
  BY <1>1, <1>3, StepUnexpected
<1> QED
  BY <1>2, <1>3 DEF ExpectEoln

LEMMA StepExpectOptionalStr ==
  ASSUME PInv, ExpectOptionalStr
  PROVE  PInv'
<1>1. ~request_for_lex /\ state = "EXPECT_OPTIONAL_STR" /\ ~cur_lex_data_used
  BY DEF ExpectOptionalStr, In, PInv, ArgumentStates
<1>2. /\ cur_lex \in 1 .. MaxReceived /\ cur_lex \in DOMAIN received
  BY <1>1, HasLexeme
<1>3. ASSUME Lex.type = "WORD",
             tmp_cmd' = [tmp_cmd EXCEPT !.value = Str(cur_lex)],
             cur_lex_data_used' = TRUE, request_for_lex' = TRUE,
             state' = "PROCESS_ARG2",
             UNCHANGED <<cur_lex, allocated, taken, received, executed>>
      PROVE  PInv'
  <2>1. cur_lex \in allocated
    BY <1>1, <1>2, <1>3 DEF PInv, ArgumentsAlive, FreedWithLex
  <2>2. FreedWithLex' = {}
    BY <1>3 DEF FreedWithLex
  <2>3. /\ Str(cur_lex) \in Value /\ Str(cur_lex).str = cur_lex
    BY <1>2 DEF Str, Value
  <2>4. /\ tmp_cmd' \in [type : Name \cup {"WRONG", "EMPTY", "PROTOCOL_PARSE_ERROR"},
                         value : Value, value2 : Value]
        /\ tmp_cmd'.value.str = cur_lex
    BY <1>3, <2>3 DEF PInv, TypeOK
  <2>5. TypeOK'
    BY <1>3, <2>4 DEF PInv, TypeOK
  <2>6. ArgumentsAlive'
    BY <1>3, <2>1, <2>2, <2>4 DEF ArgumentsAlive
  <2> QED
    BY <1>3, <2>5, <2>6 DEF PInv, ArgumentStates
<1>4. CASE Lex.type = "EOLN" /\ Execute([tmp_cmd EXCEPT !.value = Str(0)], "START", TRUE)
  <2> DEFINE cmd == [tmp_cmd EXCEPT !.value = Str(0)]
  <2>1. FreedWithLex = {}
    BY <1>4 DEF FreedWithLex
  <2>2. Str(0) \in Value
    BY ParserAssumption DEF Str, Value
  <2>3. cmd \in [type : Name \cup {"WRONG", "EMPTY", "PROTOCOL_PARSE_ERROR"},
                 value : Value, value2 : Value]
    BY <2>2 DEF PInv, TypeOK
  <2> HIDE DEF cmd
  <2> QED
    BY <1>1, <1>4, <2>1, <2>3, StepExecute DEF cmd
<1>5. CASE Unexpected
  BY <1>1, <1>5, StepUnexpected
<1> QED
  BY <1>3, <1>4, <1>5 DEF ExpectOptionalStr

\* A number becomes a value of the command, which has no string.
LEMMA StepNumber ==
  ASSUME PInv, ~request_for_lex, Lex.type = "NUMBER",
         tmp_cmd.type \in OneNumber \cup TwoNumbers,
         \/ tmp_cmd' = [tmp_cmd EXCEPT !.value = Num(Lex.value)]
         \/ tmp_cmd' = [tmp_cmd EXCEPT !.value2 = Num(Lex.value)],
         request_for_lex' = TRUE,
         state' \in {"PROCESS_ARG2", "EXPECT_EOLN"},
         UNCHANGED <<cur_lex, cur_lex_data_used, allocated, taken, received, executed>>
  PROVE  PInv'
<1>1. Lex.value \in Number
  BY HasLexeme
<1>2. Num(Lex.value) \in Value
  BY <1>1, ParserAssumption DEF Num, Value
<1>3. /\ tmp_cmd' \in [type : Name \cup {"WRONG", "EMPTY", "PROTOCOL_PARSE_ERROR"},
                       value : Value, value2 : Value]
      /\ tmp_cmd'.type = tmp_cmd.type
  BY <1>2 DEF PInv, TypeOK
<1>4. TypeOK'
  BY <1>3 DEF PInv, TypeOK
<1>5. FreedWithLex' = FreedWithLex
  BY DEF FreedWithLex, Lex
<1>6. tmp_cmd'.type \notin OptionalStr
  BY <1>3 DEF OptionalStr, OneNumber, TwoNumbers
<1>7. ArgumentsAlive'
  BY <1>5, <1>6 DEF PInv, ArgumentsAlive
<1> QED
  BY <1>4, <1>7 DEF PInv, ArgumentStates

LEMMA StepNumbers ==
  ASSUME PInv, ExpectTwoNumbers \/ ExpectOneNumber
  PROVE  PInv'
<1>1. ~request_for_lex /\ tmp_cmd.type \in OneNumber \cup TwoNumbers
  BY DEF ExpectTwoNumbers, ExpectOneNumber, In, PInv, ArgumentStates
<1>2. CASE Unexpected
  BY <1>1, <1>2, StepUnexpected
<1>3. CASE ~Unexpected
  BY <1>1, <1>3, StepNumber DEF ExpectTwoNumbers, ExpectOneNumber
<1> QED
  BY <1>2, <1>3

\* Wrong, Empty and ProtocolParseError: commands without a string.
LEMMA StepSilent ==
  ASSUME PInv, NEW type \in {"WRONG", "EMPTY", "PROTOCOL_PARSE_ERROR"},
         NEW st \in {"START", "SKIP", "PROTOCOL_PARSE_ERROR"},
         NEW nextLex \in BOOLEAN, ~request_for_lex,
         Execute([tmp_cmd EXCEPT !.type = type], st, nextLex)
  PROVE  PInv'
<1> DEFINE cmd == [tmp_cmd EXCEPT !.type = type]
<1>1. /\ cmd \in [type : Name \cup {"WRONG", "EMPTY", "PROTOCOL_PARSE_ERROR"},
                  value : Value, value2 : Value]
      /\ cmd.type = type
  BY DEF PInv, TypeOK
<1>2. Argument(cmd) = {}
  BY <1>1 DEF Argument, OptionalStr
<1> HIDE DEF cmd
<1> QED
  BY <1>1, <1>2, StepExecute DEF cmd

LEMMA StepSkip ==
  ASSUME PInv, Skip
  PROVE  PInv'
<1>1. FreedWithLex' = FreedWithLex
  BY DEF Skip, FreedWithLex, Lex
<1>2. TypeOK'
  BY DEF PInv, TypeOK, Skip, In
<1>3. ArgumentsAlive'
  BY <1>1 DEF PInv, ArgumentsAlive, Skip, In
<1> QED
  BY <1>2, <1>3 DEF PInv, ArgumentStates, Skip, In

LEMMA StepStart ==
  ASSUME PInv, Start
  PROVE  PInv'
<1>1. ~request_for_lex
  BY DEF Start, In
<1>2. CASE Goto("EXPECT_CMD_NAME")
  BY <1>1, <1>2, StepGoto
<1>3. CASE Goto("EMPTY")
  BY <1>1, <1>3, StepGoto
<1>4. CASE Unexpected
  BY <1>1, <1>4, StepUnexpected
<1> QED
  BY <1>2, <1>3, <1>4 DEF Start

LEMMA InvariantStep == PInv /\ [Next]_vars => PInv'
<1> SUFFICES ASSUME PInv, [Next]_vars
             PROVE  PInv'
  OBVIOUS
<1>1. CASE UNCHANGED vars
  BY <1>1 DEF vars, pinfo, PInv, TypeOK, ArgumentStates, ArgumentsAlive, FreedWithLex, Lex
<1>2. ASSUME NEW lex \in Lexeme, Receive(lex)
      PROVE  PInv'
  BY <1>2, StepReceive
<1>3. CASE GetLex \/ GetNothing
  BY <1>3, StepGetLex, StepGetNothing
<1>4. CASE Start \/ ExpectCmdName \/ ProcessArg1 \/ ProcessArg2
  BY <1>4, StepStart, StepExpectCmdName, StepProcessArg1, StepProcessArg2
<1>5. CASE ExpectEoln \/ ExpectOptionalStr \/ ExpectTwoNumbers \/ ExpectOneNumber
  BY <1>5, StepExpectEoln, StepExpectOptionalStr, StepNumbers
<1>6. CASE Wrong
  BY <1>6, StepSilent DEF Wrong, In
<1>7. CASE Empty
  BY <1>7, StepSilent DEF Empty, In
<1>8. CASE ProtocolParseError
  BY <1>8, StepSilent DEF ProtocolParseError, In
<1>9. CASE Skip
  BY <1>9, StepSkip
<1> QED
  BY <1>1, <1>2, <1>3, <1>4, <1>5, <1>6, <1>7, <1>8, <1>9 DEF Next, GetCmd

LEMMA ParserInductive == Spec => []PInv
BY InitInvariant, InvariantStep, PTL DEF Spec

\* The variables of the parser keep their types, however many names, numbers
\* and lexemes there are.
THEOREM ParserTypes == Spec => []TypeOK
<1>1. PInv => TypeOK
  BY DEF PInv
<1> QED
  BY <1>1, ParserInductive, PTL

\* No stream of lexemes makes get_cmd(), destroy_lex() or destroy_cmd() free
\* a string twice, or hand a freed one to execute_cmd().
THEOREM ArgumentsStayAlive == Spec => []ArgumentsAlive
<1>1. PInv => ArgumentsAlive
  BY DEF PInv
<1> QED
  BY <1>1, ParserInductive, PTL

-----------------------------------------------------------------------------
(* What a line means *)

\* Of the arguments of a command, how many there must be and may be at most,
\* and of which kind they are.
Least(name) == IF name \in NoArgument \cup OptionalStr THEN 0
               ELSE IF name \in OneNumber THEN 1 ELSE 2
Most(name) == IF name \in NoArgument THEN 0
              ELSE IF name \in OptionalStr \cup OneNumber THEN 1 ELSE 2
Kind(name) == IF name \in OptionalStr THEN "WORD" ELSE "NUMBER"

Fits(line) ==
  /\ line # <<>> /\ Named(line)
  /\ Len(line) - 1 <= Most(line[1].value)
  /\ \A i \in 2 .. Len(line) : line[i].type = Kind(line[1].value)

\* The line of place p begins at place s.
LineBegins(lexs, s, p) ==
  /\ s \in 1 .. p
  /\ \A q \in s .. p - 1 : lexs[q].type # "EOLN"
  /\ s > 1 => lexs[s - 1].type = "EOLN"

\* What the first n lexemes of a stream make get_cmd() return.
Said(lexs, n) == FlattenSeq([p \in 1 .. n |-> CommandAt(lexs, p)])

\* The arguments of a whole command, whose line begins at place s.
LineArguments(s, line) ==
  IF line[1].value \in OptionalStr
  THEN <<IF Len(line) > 1 THEN s + 1 ELSE 0>>
  ELSE [i \in 1 .. Len(line) - 1 |-> line[i + 1].value]

AnyValue == Name \cup OtherWord \cup Number \cup {"undefined"} \cup Nat
Answer == [type : Name \cup {"WRONG", "EMPTY", "PROTOCOL_PARSE_ERROR"}, args : Seq(AnyValue)]

LEMMA LexemeIs ==
  ASSUME NEW lex \in Lexeme
  PROVE  /\ lex.type \in {"WORD", "NUMBER", "WRONG_NUMBER", "EOLN", "PROTOCOL_PARSE_ERROR"}
         /\ lex.value \in AnyValue
         /\ lex.type = "NUMBER" => lex.value \in Number
BY DEF Lexeme, AnyValue

LEMMA PrefixIs ==
  ASSUME NEW S, NEW s \in Seq(S), NEW t \in Seq(S)
  PROVE  IsPrefix(s, t) <=> Len(s) <= Len(t) /\ \A i \in 1 .. Len(s) : s[i] = t[i]
<1>1. Len(s) \in Nat /\ Len(t) \in Nat
  BY LenProperties
<1>2. CASE Len(s) <= Len(t)
  <2>1. SubSeq(s, 1, Len(s)) = SubSeq(t, 1, Len(s)) <=> \A i \in 1 .. Len(s) : s[i] = t[i]
    <3>1. /\ SubSeq(s, 1, Len(s)) \in Seq(S) /\ Len(SubSeq(s, 1, Len(s))) = Len(s)
          /\ \A i \in 1 .. Len(s) : SubSeq(s, 1, Len(s))[i] = s[i]
      BY <1>1, SubSeqProperties
    <3>2. /\ SubSeq(t, 1, Len(s)) \in Seq(S) /\ Len(SubSeq(t, 1, Len(s))) = Len(s)
          /\ \A i \in 1 .. Len(s) : SubSeq(t, 1, Len(s))[i] = t[i]
      BY <1>1, <1>2, SubSeqProperties
    <3> QED
      BY <3>1, <3>2, SeqEqual
  <2> QED
    BY <1>2, <2>1 DEF IsPrefix
<1>3. CASE ~(Len(s) <= Len(t))
  BY <1>3 DEF IsPrefix
<1> QED
  BY <1>2, <1>3

\* The shapes of a command, as numbers of arguments.
LEMMA ShapeIs ==
  ASSUME NEW name \in Name
  PROVE  \A shape : shape \in Shapes(name) <=>
           /\ shape \in Seq({"WORD", "NUMBER"})
           /\ Len(shape) >= Least(name) /\ Len(shape) <= Most(name)
           /\ \A i \in 1 .. Len(shape) : shape[i] = Kind(name)
<1> SUFFICES ASSUME NEW shape
             PROVE  shape \in Shapes(name) <=>
                      /\ shape \in Seq({"WORD", "NUMBER"})
                      /\ Len(shape) >= Least(name) /\ Len(shape) <= Most(name)
                      /\ \A i \in 1 .. Len(shape) : shape[i] = Kind(name)
  OBVIOUS
<1> DEFINE K == {"WORD", "NUMBER"}
           Same == \A i \in 1 .. Len(shape) : shape[i] = Kind(name)
           w    == Kind(name)
           none == <<>>
           one  == <<w>>
           two  == <<w, w>>
<1>1. w \in K
  BY DEF Kind
<1>2. /\ none \in Seq(K) /\ Len(none) = 0
      /\ one \in Seq(K) /\ Len(one) = 1 /\ \A i \in 1 .. 1 : one[i] = w
      /\ two \in Seq(K) /\ Len(two) = 2 /\ \A i \in 1 .. 2 : two[i] = w
  <2> HIDE DEF w, K
  <2>1. none \in Seq(K) /\ Len(none) = 0
    BY EmptySeq
  <2>2. one \in Seq(K) /\ Len(one) = 1 /\ \A i \in 1 .. 1 : one[i] = w
    BY <1>1
  <2>3. two \in Seq(K) /\ Len(two) = 2 /\ \A i \in 1 .. 2 : two[i] = w
    BY <1>1
  <2> QED
    BY <2>1, <2>2, <2>3
<1>a. PICK lo \in 0 .. 2, hi \in 0 .. 2 : lo = Least(name) /\ hi = Most(name)
  BY DEF Least, Most
<1>3. /\ name \in NoArgument  => Shapes(name) = {none} /\ lo = 0 /\ hi = 0
      /\ name \in OptionalStr => Shapes(name) = {none, one} /\ lo = 0 /\ hi = 1
      /\ name \in OneNumber   => Shapes(name) = {one} /\ lo = 1 /\ hi = 1
      /\ name \in TwoNumbers  => Shapes(name) = {two} /\ lo = 2 /\ hi = 2
  BY <1>a DEF Shapes, Least, Most, Kind, NoArgument, OptionalStr, OneNumber, TwoNumbers
<1> HIDE DEF K, w, none, one, two
<1>4. ASSUME NEW t \in Seq(K), shape \in Seq(K), Len(shape) = Len(t), Same,
             \A i \in 1 .. Len(t) : t[i] = w
      PROVE  shape = t
  BY <1>4, SeqEqual DEF w
<1>5. /\ shape = none => shape \in Seq(K) /\ Len(shape) = 0 /\ Same
      /\ shape = one  => shape \in Seq(K) /\ Len(shape) = 1 /\ Same
      /\ shape = two  => shape \in Seq(K) /\ Len(shape) = 2 /\ Same
  <2>1. ASSUME shape = none PROVE shape \in Seq(K) /\ Len(shape) = 0 /\ Same
    <3>1. Len(shape) = 0
      BY <1>2, <2>1
    <3> QED
      BY <1>2, <2>1, <3>1
  <2>2. ASSUME shape = one PROVE shape \in Seq(K) /\ Len(shape) = 1 /\ Same
    BY <1>2, <2>2 DEF w
  <2>3. ASSUME shape = two PROVE shape \in Seq(K) /\ Len(shape) = 2 /\ Same
    BY <1>2, <2>3 DEF w
  <2> QED
    BY <2>1, <2>2, <2>3
<1>6. shape \in Seq(K) /\ Same => /\ Len(shape) = 0 => shape = none
                                  /\ Len(shape) = 1 => shape = one
                                  /\ Len(shape) = 2 => shape = two
  BY <1>2, <1>4
<1>7. shape \in Seq(K) => Len(shape) \in Nat
  BY LenProperties
<1> HIDE DEF Same
<1>8. ASSUME shape \in Shapes(name)
      PROVE  shape \in Seq(K) /\ Len(shape) >= lo /\ Len(shape) <= hi /\ Same
  <2>1. \/ shape = none /\ lo = 0
        \/ shape = one /\ lo <= 1 /\ hi >= 1
        \/ shape = two /\ lo <= 2 /\ hi >= 2
    BY <1>3, <1>8, ParserAssumption
  <2>2. CASE shape = none /\ lo = 0
    BY <1>5, <2>2
  <2>3. CASE shape = one /\ lo <= 1 /\ hi >= 1
    BY <1>5, <2>3
  <2>4. CASE shape = two /\ lo <= 2 /\ hi >= 2
    BY <1>5, <2>4
  <2> QED
    BY <2>1, <2>2, <2>3, <2>4
<1>9. ASSUME shape \in Seq(K), Len(shape) >= lo, Len(shape) <= hi, Same
      PROVE  shape \in Shapes(name)
  <2>1. PICK n \in Nat : n = Len(shape)
    BY <1>7, <1>9
  <2>2. n >= lo /\ n <= hi /\ n \in 0 .. 2
    BY <1>9, <2>1
  <2>3. shape = IF n = 0 THEN none ELSE IF n = 1 THEN one ELSE two
    BY <1>6, <1>9, <2>1, <2>2
  <2> QED
    BY <1>3, <2>2, <2>3, ParserAssumption
<1> QED
  BY <1>a, <1>8, <1>9 DEF K, Same

\* A line may become a command, or is one, by the number and the kind of its
\* arguments.
LEMMA LineIs ==
  ASSUME NEW line \in Seq(Lexeme)
  PROVE  /\ Viable(line) <=> line = <<>> \/ Fits(line)
         /\ line # <<>> =>
              (Complete(line) <=> Fits(line) /\ Len(line) - 1 >= Least(line[1].value))
<1>1. CASE line = <<>>
  BY <1>1 DEF Viable
<1>2. CASE line # <<>> /\ ~Named(line)
  BY <1>2 DEF Viable, Complete, Fits
<1>3. CASE line # <<>> /\ Named(line)
  <2> DEFINE name == line[1].value
             n == Len(line) - 1
             args == Arguments(line)
             T == {"WORD", "NUMBER", "WRONG_NUMBER", "EOLN", "PROTOCOL_PARSE_ERROR"}
  <2>1. name \in Name /\ n \in Nat /\ Len(line) = n + 1
    BY <1>3, LenProperties, EmptySeq DEF Named
  <2>2. \A i \in 1 .. n : line[i + 1].type \in T
    <3> SUFFICES ASSUME NEW i \in 1 .. n PROVE line[i + 1].type \in T
      OBVIOUS
    <3>1. i + 1 \in 1 .. Len(line)
      BY <2>1
    <3>2. line[i + 1] \in Lexeme
      BY <3>1, ElementOfSeq
    <3> QED
      BY <3>2, LexemeIs
  <2>3. args = [i \in 1 .. n |-> line[i + 1].type]
    BY DEF Arguments
  <2>4. args \in Seq(T) /\ Len(args) = n /\ \A i \in 1 .. n : args[i] = line[i + 1].type
    BY <2>1, <2>2, <2>3
  <2>5. (\A i \in 1 .. n : args[i] = Kind(name))
          <=> (\A i \in 2 .. Len(line) : line[i].type = Kind(name))
    <3>1. ASSUME \A i \in 1 .. n : args[i] = Kind(name), NEW i \in 2 .. Len(line)
          PROVE  line[i].type = Kind(name)
      <4>1. i - 1 \in 1 .. n /\ (i - 1) + 1 = i
        BY <2>1
      <4> QED
        BY <2>4, <3>1, <4>1
    <3>2. ASSUME \A i \in 2 .. Len(line) : line[i].type = Kind(name), NEW i \in 1 .. n
          PROVE  args[i] = Kind(name)
      <4>1. i + 1 \in 2 .. Len(line)
        BY <2>1
      <4> QED
        BY <2>4, <3>2, <4>1
    <3> QED
      BY <3>1, <3>2
  <2>6. /\ Least(name) \in Nat /\ Most(name) \in Nat /\ Least(name) <= Most(name)
        /\ Kind(name) \in {"WORD", "NUMBER"}
    BY DEF Least, Most, Kind, NoArgument, OptionalStr, OneNumber, TwoNumbers
  <2>7. Fits(line) <=> n <= Most(name) /\ \A i \in 1 .. n : args[i] = Kind(name)
    BY <1>3, <2>5 DEF Fits
  <2> HIDE DEF name, n, args
  <2>8. args \in Shapes(name) <=> Fits(line) /\ n >= Least(name)
    <3>1. args \in Shapes(name) <=>
            /\ args \in Seq({"WORD", "NUMBER"})
            /\ n >= Least(name) /\ n <= Most(name)
            /\ \A i \in 1 .. n : args[i] = Kind(name)
      BY <2>1, <2>4, ShapeIs
    <3>2. (\A i \in 1 .. n : args[i] = Kind(name)) => args \in Seq({"WORD", "NUMBER"})
      BY <2>1, <2>4, <2>6
    <3> QED
      BY <2>7, <3>1, <3>2
  <2>9. (\E shape \in Shapes(name) : IsPrefix(args, shape)) <=> Fits(line)
    <3>1. ASSUME NEW shape \in Shapes(name), IsPrefix(args, shape) PROVE Fits(line)
      <4>1. /\ shape \in Seq({"WORD", "NUMBER"}) /\ Len(shape) <= Most(name)
            /\ \A i \in 1 .. Len(shape) : shape[i] = Kind(name)
        BY <2>1, <3>1, ShapeIs
      <4>2. shape \in Seq(T) /\ Len(shape) \in Nat
        BY <4>1, LenProperties
      <4>3. n <= Len(shape) /\ \A i \in 1 .. n : args[i] = shape[i]
        BY <2>4, <3>1, <4>2, PrefixIs
      <4>4. \A i \in 1 .. n : i \in 1 .. Len(shape)
        BY <2>1, <4>2, <4>3
      <4> QED
        BY <2>1, <2>6, <2>7, <4>1, <4>2, <4>3, <4>4
    <3>2. ASSUME Fits(line) PROVE \E shape \in Shapes(name) : IsPrefix(args, shape)
      <4> DEFINE shape == [i \in 1 .. Most(name) |-> Kind(name)]
      <4>1. shape \in Seq({"WORD", "NUMBER"}) /\ Len(shape) = Most(name)
        BY <2>6
      <4>2. \A i \in 1 .. Most(name) : shape[i] = Kind(name)
        OBVIOUS
      <4> HIDE DEF shape
      <4>3. shape \in Shapes(name)
        BY <2>1, <2>6, <4>1, <4>2, ShapeIs
      <4>4. shape \in Seq(T)
        BY <4>1
      <4>5. n <= Len(shape) /\ \A i \in 1 .. n : args[i] = shape[i]
        BY <2>1, <2>6, <2>7, <3>2, <4>1, <4>2
      <4>6. IsPrefix(args, shape)
        BY <2>4, <4>4, <4>5, PrefixIs
      <4> QED
        BY <4>3, <4>6
    <3> QED
      BY <3>1, <3>2
  <2> QED
    BY <1>3, <2>8, <2>9 DEF Viable, Complete, args, name, n
<1> QED
  BY <1>1, <1>2, <1>3

-----------------------------------------------------------------------------
(* What a stream means *)

LEMMA LineStartIs ==
  ASSUME NEW lexs, NEW p \in Nat, NEW s, LineBegins(lexs, s, p)
  PROVE  LineStart(lexs, p) = s
<1>1. ASSUME NEW t, LineBegins(lexs, t, p) PROVE t = s
  <2>1. s \in 1 .. p /\ t \in 1 .. p
    BY <1>1 DEF LineBegins
  <2>2. CASE t < s
    <3>1. s - 1 \in t .. p - 1 /\ s > 1
      BY <2>1, <2>2
    <3> QED
      BY <1>1, <3>1 DEF LineBegins
  <2>3. CASE s < t
    <3>1. t - 1 \in s .. p - 1 /\ t > 1
      BY <2>1, <2>3
    <3> QED
      BY <1>1, <3>1 DEF LineBegins
  <2> QED
    BY <2>1, <2>2, <2>3
<1> DEFINE start == CHOOSE t \in 1 .. p : /\ \A q \in t .. p - 1 : lexs[q].type # "EOLN"
                                          /\ t > 1 => lexs[t - 1].type = "EOLN"
<1>2. LineBegins(lexs, start, p)
  BY DEF LineBegins
<1>3. start = s
  BY <1>1, <1>2
<1> QED
  BY <1>3 DEF LineStart

LEMMA LineExists ==
  ASSUME NEW lexs, NEW p \in Nat \ {0} PROVE \E s : LineBegins(lexs, s, p)
<1> DEFINE I == {s \in 1 .. p : \A q \in s .. p - 1 : lexs[q].type # "EOLN"}
<1>1. I \in SUBSET Nat /\ p \in I
  OBVIOUS
<1> HIDE DEF I
<1>2. PICK s \in I : \A k \in I : s <= k
  BY <1>1, FirstPlace
<1>3. s \in 1 .. p /\ \A q \in s .. p - 1 : lexs[q].type # "EOLN"
  BY <1>2 DEF I
<1>4. ASSUME s > 1, lexs[s - 1].type # "EOLN" PROVE FALSE
  <2>1. s - 1 \in 1 .. p /\ \A q \in s - 1 .. p - 1 : q = s - 1 \/ q \in s .. p - 1
    BY <1>3, <1>4
  <2>2. s - 1 \in I
    BY <1>3, <1>4, <2>1 DEF I
  <2> QED
    BY <1>2, <1>3, <2>2
<1> QED
  BY <1>3, <1>4 DEF LineBegins

\* The line before place p.
LEMMA LineType ==
  ASSUME NEW lexs \in Seq(Lexeme), NEW p \in 1 .. Len(lexs) + 1, NEW s \in 1 .. p
  PROVE  LET line == SubSeq(lexs, s, p - 1)
         IN  /\ line \in Seq(Lexeme) /\ Len(line) = p - s
             /\ \A i \in 1 .. p - s : line[i] = lexs[s + i - 1]
<1>1. Len(lexs) \in Nat
  BY LenProperties
<1>2. p - 1 \in s - 1 .. Len(lexs) /\ s \in 1 .. Len(lexs) + 1
  BY <1>1
<1> QED
  BY <1>1, <1>2, SubSeqProperties

LEMMA LineGrows ==
  ASSUME NEW lexs \in Seq(Lexeme), NEW p \in 1 .. Len(lexs), NEW s \in 1 .. p
  PROVE  SubSeq(lexs, s, p) = Append(SubSeq(lexs, s, p - 1), lexs[p])
<1>1. Len(lexs) \in Nat
  BY LenProperties
<1> QED
  BY <1>1

LEMMA CommandIs ==
  ASSUME NEW lexs \in Seq(Lexeme), NEW p \in 1 .. Len(lexs), NEW s, LineBegins(lexs, s, p),
         NEW line, line = SubSeq(lexs, s, p - 1), NEW type, type = lexs[p].type
  PROVE  /\ type = "PROTOCOL_PARSE_ERROR" => CommandAt(lexs, p) = Told(type, <<>>)
         /\ type = "EOLN" /\ line = <<>> => CommandAt(lexs, p) = Told("EMPTY", <<>>)
         /\ type = "EOLN" /\ line # <<>> /\ Complete(line) =>
              CommandAt(lexs, p) = Told(line[1].value, LineArguments(s, line))
         /\ type = "EOLN" /\ line # <<>> /\ ~Complete(line) /\ Viable(line) =>
              CommandAt(lexs, p) = Told("WRONG", <<>>)
         /\ type = "EOLN" /\ ~Viable(line) => CommandAt(lexs, p) = <<>>
         /\ type \notin {"EOLN", "PROTOCOL_PARSE_ERROR"} =>
              CommandAt(lexs, p) = IF Viable(line) /\ ~Viable(Append(line, lexs[p]))
                                   THEN Told("WRONG", <<>>) ELSE <<>>
<1>1. p \in Nat /\ s \in 1 .. p /\ p \in 1 .. Len(lexs) + 1
  BY LenProperties DEF LineBegins
<1>2. LineStart(lexs, p) = s
  BY <1>1, LineStartIs
<1>3. line \in Seq(Lexeme)
  BY <1>1, LineType
<1>4. line # <<>> /\ Complete(line) => Viable(line)
  BY <1>3, LineIs
<1>5. Viable(<<>>)
  BY DEF Viable
<1> QED
  BY <1>2, <1>4, <1>5 DEF CommandAt, LineArguments

LEMMA CommandType ==
  ASSUME NEW lexs \in Seq(Lexeme), NEW p \in 1 .. Len(lexs)
  PROVE  CommandAt(lexs, p) \in Seq(Answer)
<1>1. p \in Nat \ {0} /\ p \in 1 .. Len(lexs) + 1
  BY LenProperties
<1>2. PICK s : LineBegins(lexs, s, p)
  BY <1>1, LineExists
<1>a. PICK line : line = SubSeq(lexs, s, p - 1)
  OBVIOUS
<1> DEFINE n == Len(line) - 1
<1>3. /\ s \in 1 .. p /\ line \in Seq(Lexeme) /\ Len(line) \in Nat
      /\ lexs[p] \in Lexeme
  <2>1. s \in 1 .. p
    BY <1>2 DEF LineBegins
  <2>2. line \in Seq(Lexeme)
    BY <1>1, <1>a, <2>1, LineType
  <2> QED
    BY <2>1, <2>2, LenProperties, ElementOfSeq
<1>4. ASSUME line # <<>>, Complete(line)
      PROVE  line[1].value \in Name /\ LineArguments(s, line) \in Seq(AnyValue)
  <2>1. line[1].value \in Name
    BY <1>4 DEF Complete, Named
  <2>2. n \in Nat
    BY <1>3, <1>4, EmptySeq
  <2>3. \A i \in 1 .. n : line[i + 1].value \in AnyValue
    <3> SUFFICES ASSUME NEW i \in 1 .. n PROVE line[i + 1].value \in AnyValue
      OBVIOUS
    <3>1. i + 1 \in 1 .. Len(line)
      BY <1>3
    <3>2. line[i + 1] \in Lexeme
      BY <1>3, <3>1, ElementOfSeq
    <3> QED
      BY <3>2, LexemeIs
  <2>4. [i \in 1 .. n |-> line[i + 1].value] \in Seq(AnyValue)
    <3> HIDE DEF n
    <3> QED
      BY <2>2, <2>3
  <2>5. s + 1 \in AnyValue /\ 0 \in AnyValue
    BY <1>1, <1>3 DEF AnyValue
  <2>6. <<IF Len(line) > 1 THEN s + 1 ELSE 0>> \in Seq(AnyValue)
    BY <2>5
  <2>7. LineArguments(s, line) = IF line[1].value \in OptionalStr
                                 THEN <<IF Len(line) > 1 THEN s + 1 ELSE 0>>
                                 ELSE [i \in 1 .. n |-> line[i + 1].value]
    BY DEF LineArguments
  <2> HIDE DEF n
  <2> QED
    BY <2>1, <2>4, <2>6, <2>7
<1>5. ASSUME NEW type \in Name \cup {"WRONG", "EMPTY", "PROTOCOL_PARSE_ERROR"},
             NEW a \in Seq(AnyValue)
      PROVE  Told(type, a) \in Seq(Answer)
  <2>1. [type |-> type, args |-> a] \in Answer
    BY DEF Answer
  <2> QED
    BY <2>1 DEF Told
<1>6. <<>> \in Seq(Answer) /\ <<>> \in Seq(AnyValue)
  BY EmptySeq
<1>7. CommandAt(lexs, p) \in
        {<<>>, Told("PROTOCOL_PARSE_ERROR", <<>>), Told("EMPTY", <<>>), Told("WRONG", <<>>)}
      \/ /\ line # <<>> /\ Complete(line)
         /\ CommandAt(lexs, p) = Told(line[1].value, LineArguments(s, line))
  <2>0. PICK type : type = lexs[p].type
    OBVIOUS
  <2>1. CASE type = "PROTOCOL_PARSE_ERROR"
    BY <1>2, <1>a, <2>0, <2>1, CommandIs
  <2>2. CASE type = "EOLN" /\ line # <<>> /\ Complete(line)
    <3>1. CommandAt(lexs, p) = Told(line[1].value, LineArguments(s, line))
      BY <1>2, <1>a, <2>0, <2>2, CommandIs
    <3> QED
      BY <2>2, <3>1
  <2>3. CASE type = "EOLN" /\ line = <<>>
    BY <1>2, <1>a, <2>0, <2>3, CommandIs
  <2>4. CASE type = "EOLN" /\ line # <<>> /\ ~Complete(line) /\ Viable(line)
    BY <1>2, <1>a, <2>0, <2>4, CommandIs
  <2>5. CASE type = "EOLN" /\ ~Viable(line)
    BY <1>2, <1>a, <2>0, <2>5, CommandIs
  <2>6. CASE type \notin {"EOLN", "PROTOCOL_PARSE_ERROR"}
    BY <1>2, <1>a, <2>0, <2>6, CommandIs
  <2> QED
    BY <2>1, <2>2, <2>3, <2>4, <2>5, <2>6
<1> QED
  BY <1>4, <1>5, <1>6, <1>7

\* What one lexeme more adds.
LEMMA SaidMore ==
  ASSUME NEW lexs \in Seq(Lexeme), NEW n \in Nat, n + 1 <= Len(lexs)
  PROVE  /\ Said(lexs, n) \in Seq(Answer)
         /\ Said(lexs, n + 1) = Said(lexs, n) \o CommandAt(lexs, n + 1)
<1> DEFINE ss == [p \in 1 .. n |-> CommandAt(lexs, p)]
           tt == [p \in 1 .. n + 1 |-> CommandAt(lexs, p)]
<1>1. \A p \in 1 .. n + 1 : CommandAt(lexs, p) \in Seq(Answer)
  <2> SUFFICES ASSUME NEW p \in 1 .. n + 1 PROVE CommandAt(lexs, p) \in Seq(Answer)
    OBVIOUS
  <2>1. p \in 1 .. Len(lexs)
    BY LenProperties
  <2> QED
    BY <2>1, CommandType
<1>2. tt \in Seq(Seq(Answer)) /\ Len(tt) = n + 1
  BY <1>1
<1>3. ss = [p \in 1 .. n |-> tt[p]] /\ tt[n + 1] = CommandAt(lexs, n + 1)
  OBVIOUS
<1> HIDE DEF ss, tt
<1>4. /\ FlattenSeq(ss) \in Seq(Answer)
      /\ FlattenSeq(tt) = FlattenSeq(ss) \o tt[n + 1]
  BY <1>2, <1>3, FlattenStep
<1> QED
  BY <1>3, <1>4 DEF Said, ss, tt

\* A line means the same whatever comes after it.
LEMMA SaidStays ==
  ASSUME NEW lexs \in Seq(Lexeme), NEW more \in Seq(Lexeme), Len(more) >= Len(lexs),
         \A q \in 1 .. Len(lexs) : more[q] = lexs[q], NEW n \in 0 .. Len(lexs)
  PROVE  /\ \A p \in 1 .. Len(lexs) : CommandAt(more, p) = CommandAt(lexs, p)
         /\ Said(more, n) = Said(lexs, n)
<1> DEFINE L == Len(lexs)
<1>1. L \in Nat /\ Len(more) \in Nat
  BY LenProperties
<1>2. ASSUME NEW p \in 1 .. L PROVE CommandAt(more, p) = CommandAt(lexs, p)
  <2>1. p \in Nat \ {0} /\ p \in 1 .. Len(lexs) + 1 /\ p \in 1 .. Len(more) + 1
    BY <1>1
  <2>2. PICK s : LineBegins(lexs, s, p)
    BY <2>1, LineExists
  <2>3. s \in 1 .. p
    BY <2>2 DEF LineBegins
  <2>4. LineBegins(more, s, p)
    BY <1>1, <2>2, <2>3 DEF LineBegins
  <2>5. SubSeq(more, s, p - 1) = SubSeq(lexs, s, p - 1)
    <3>1. \A i \in s .. p - 1 : more[i] = lexs[i]
      BY <1>1, <2>3
    <3> QED
      BY <2>3, <3>1
  <2>6. LineStart(more, p) = s /\ LineStart(lexs, p) = s
    BY <2>1, <2>2, <2>4, LineStartIs
  <2>7. more[p] = lexs[p]
    BY <1>1
  <2> QED
    BY <2>5, <2>6, <2>7 DEF CommandAt
<1>3. [p \in 1 .. n |-> CommandAt(more, p)] = [p \in 1 .. n |-> CommandAt(lexs, p)]
  <2>1. \A p \in 1 .. n : CommandAt(more, p) = CommandAt(lexs, p)
    BY <1>1, <1>2
  <2> QED
    BY <2>1
<1> QED
  BY <1>2, <1>3 DEF Said

LEMMA SaidNothing == \A lexs : Said(lexs, 0) = <<>>
<1> SUFFICES ASSUME NEW lexs PROVE Said(lexs, 0) = <<>>
  OBVIOUS
<1>1. [p \in 1 .. 0 |-> CommandAt(lexs, p)] = <<>>
  OBVIOUS
<1> QED
  BY <1>1, FlattenNone DEF Said

-----------------------------------------------------------------------------
(* The invariant of the commands *)

Command ==
  [type : Name \cup {"WRONG", "EMPTY", "PROTOCOL_PARSE_ERROR"}, value : Value, value2 : Value]

Answered == [i \in DOMAIN executed |-> AsRead(executed[i])]

\* How many lexemes no state will look at again, and up to where what the
\* stream means has been returned: a wrong line is told of before the lexeme
\* that is wrong is skipped.
ReadTo == IF request_for_lex THEN taken ELSE taken - 1
SaidTo ==
  IF request_for_lex \/ Closed \/ (state = "SKIP" /\ Lex.type # "PROTOCOL_PARSE_ERROR")
  THEN taken ELSE taken - 1

\* The states that have the name of a command, and how much of the line they
\* have before them.
ArgumentState ==
  {"PROCESS_ARG1", "PROCESS_ARG2", "EXPECT_EOLN",
   "EXPECT_OPTIONAL_STR", "EXPECT_TWO_NUMBERS", "EXPECT_ONE_NUMBER"}

LengthIn(st, name) ==
  CASE st \in {"PROCESS_ARG1", "EXPECT_OPTIONAL_STR", "EXPECT_TWO_NUMBERS"} -> 1
    [] st = "PROCESS_ARG2"      -> 2
    [] st = "EXPECT_ONE_NUMBER" -> Most(name)
    [] st = "EXPECT_EOLN"       -> Most(name) + 1

\* What the command has of a line that begins at place s.
Holds(cmd, s, line) ==
  /\ cmd.type = line[1].value
  /\ Len(line) > 1 => IF cmd.type \in OptionalStr THEN cmd.value.str = s + 1
                                                  ELSE cmd.value.number = line[2].value
  /\ Len(line) > 2 => cmd.value2.number = line[3].value

\* The line that begins at place s, as far as it is read.
LineOK(s) ==
  LET line == SubSeq(received, s, ReadTo)
  IN  /\ LineBegins(received, s, ReadTo + 1)
      /\ state \in {"START", "EXPECT_CMD_NAME", "EMPTY"} => line = <<>>
      /\ state \in ArgumentState =>
           /\ Fits(line) /\ Holds(tmp_cmd, s, line)
           /\ Len(line) = LengthIn(state, tmp_cmd.type)
      /\ state = "WRONG" /\ Lex.type # "EOLN" => ~Viable(SubSeq(received, s, taken))
      /\ state = "SKIP" => \/ ~request_for_lex /\ Lex.type \in {"EOLN", "PROTOCOL_PARSE_ERROR"}
                           \/ ~Viable(SubSeq(received, s, taken))

\* What the states know of the current lexeme.
LexemeOK ==
  /\ state \in {"EXPECT_CMD_NAME", "EMPTY", "WRONG", "PROTOCOL_PARSE_ERROR"} => ~request_for_lex
  /\ state = "EXPECT_CMD_NAME" => Lex.type = "WORD"
  /\ state = "EMPTY" => Lex.type = "EOLN"
  /\ state = "EXPECT_OPTIONAL_STR" => tmp_cmd.type \in OptionalStr
  /\ state = "WRONG" => /\ Lex.type # "PROTOCOL_PARSE_ERROR"
                        /\ CommandAt(received, taken) = Told("WRONG", <<>>)
  /\ state = "PROTOCOL_PARSE_ERROR" => Lex.type = "PROTOCOL_PARSE_ERROR"
  /\ Closed => state = "PROTOCOL_PARSE_ERROR"

\* Nothing comes after a protocol error.
StreamOK ==
  \A q \in 1 .. Len(received) - 1 : received[q].type # "PROTOCOL_PARSE_ERROR"

MeaningOK ==
  /\ executed \in Seq(Command)
  /\ Answered = Said(received, SaidTo)

\* The inductive invariant.
MeaningInv ==
  /\ PInv /\ StreamOK /\ LexemeOK /\ MeaningOK
  /\ \E s \in 1 .. ReadTo + 1 : LineOK(s)

-----------------------------------------------------------------------------
(* What a command has *)

LEMMA AsReadIs ==
  ASSUME NEW cmd \in Command
  PROVE  /\ AsRead(cmd).type = cmd.type
         /\ cmd.type \in OptionalStr => AsRead(cmd).args = <<cmd.value.str>>
         /\ cmd.type \in OneNumber => AsRead(cmd).args = <<cmd.value.number>>
         /\ cmd.type \in TwoNumbers => AsRead(cmd).args = <<cmd.value.number, cmd.value2.number>>
         /\ cmd.type \notin OptionalStr \cup OneNumber \cup TwoNumbers => AsRead(cmd).args = <<>>
         /\ AsRead(cmd) = [type |-> cmd.type, args |-> AsRead(cmd).args]
BY DEF AsRead, OptionalStr, OneNumber, TwoNumbers

\* A command is read as its line says.
LEMMA CompleteArguments ==
  ASSUME NEW line \in Seq(Lexeme), Fits(line), NEW s, NEW cmd \in Command, Holds(cmd, s, line),
         Len(line) = Most(cmd.type) + 1
  PROVE  AsRead(cmd) = [type |-> line[1].value, args |-> LineArguments(s, line)]
<1>1. line[1].value \in Name /\ cmd.type = line[1].value
  BY DEF Fits, Named, Holds
<1>2. PICK name \in Name : name = line[1].value
  BY <1>1
<1>3. PICK n \in Nat : n = Len(line)
  BY LenProperties
<1>4. /\ n > 1 => IF name \in OptionalStr THEN cmd.value.str = s + 1
                                          ELSE cmd.value.number = line[2].value
      /\ n > 2 => cmd.value2.number = line[3].value
  BY <1>1, <1>2, <1>3 DEF Holds
<1>5. cmd.type = name /\ Len(line) = n /\ n = Most(name) + 1
  BY <1>1, <1>2, <1>3
<1> SUFFICES AsRead(cmd).args = IF name \in OptionalStr
                                THEN <<IF n > 1 THEN s + 1 ELSE 0>>
                                ELSE [i \in 1 .. n - 1 |-> line[i + 1].value]
  <2>1. LineArguments(s, line) = IF name \in OptionalStr
                                 THEN <<IF n > 1 THEN s + 1 ELSE 0>>
                                 ELSE [i \in 1 .. n - 1 |-> line[i + 1].value]
    BY <1>2, <1>3 DEF LineArguments
  <2> QED
    BY <1>1, <1>2, <2>1, AsReadIs
<1>6. CASE name \in OptionalStr
  <2>1. n = 2
    BY <1>5, <1>6 DEF Most, NoArgument, OptionalStr
  <2>2. cmd.value.str = s + 1
    BY <1>4, <1>6, <2>1
  <2>3. AsRead(cmd).args = <<cmd.value.str>>
    BY <1>5, <1>6, AsReadIs
  <2> QED
    BY <1>6, <2>1, <2>2, <2>3
<1>7. CASE name \in NoArgument
  <2>1. n = 1 /\ name \notin OptionalStr \cup OneNumber \cup TwoNumbers
    BY <1>5, <1>7 DEF Most, NoArgument, OptionalStr, OneNumber, TwoNumbers
  <2>2. AsRead(cmd).args = <<>>
    BY <1>5, <2>1, AsReadIs
  <2>3. [i \in 1 .. n - 1 |-> line[i + 1].value] = <<>>
    BY <2>1
  <2> QED
    BY <2>1, <2>2, <2>3
<1>8. CASE name \in OneNumber
  <2>1. n = 2 /\ name \notin OptionalStr
    BY <1>5, <1>8 DEF Most, NoArgument, OptionalStr, OneNumber, TwoNumbers
  <2>2. cmd.value.number = line[2].value
    BY <1>4, <2>1
  <2>3. AsRead(cmd).args = <<cmd.value.number>>
    BY <1>5, <1>8, AsReadIs
  <2>4. [i \in 1 .. n - 1 |-> line[i + 1].value] = <<line[2].value>>
    BY <2>1
  <2> QED
    BY <2>1, <2>2, <2>3, <2>4
<1>9. CASE name \in TwoNumbers
  <2>1. n = 3 /\ name \notin OptionalStr
    BY <1>5, <1>9 DEF Most, NoArgument, OptionalStr, OneNumber, TwoNumbers
  <2>2. cmd.value.number = line[2].value /\ cmd.value2.number = line[3].value
    BY <1>4, <2>1
  <2>3. AsRead(cmd).args = <<cmd.value.number, cmd.value2.number>>
    BY <1>5, <1>9, AsReadIs
  <2>4. [i \in 1 .. n - 1 |-> line[i + 1].value] = <<line[2].value, line[3].value>>
    BY <2>1
  <2> QED
    BY <2>1, <2>2, <2>3, <2>4
<1> QED
  BY <1>6, <1>7, <1>8, <1>9, ParserAssumption

-----------------------------------------------------------------------------
(* What the steps share *)

LEMMA Where ==
  ASSUME MeaningInv
  PROVE  /\ received \in Seq(Lexeme) /\ Len(received) \in Nat /\ taken \in 0 .. Len(received)
         /\ request_for_lex \in BOOLEAN /\ executed \in Seq(Command) /\ tmp_cmd \in Command
         /\ request_for_lex => ReadTo = taken /\ ~Closed /\ SaidTo = taken
         /\ ~request_for_lex => /\ taken \in 1 .. Len(received) /\ cur_lex = taken
                                /\ Lex = received[taken] /\ Lex \in Lexeme
                                /\ ReadTo = taken - 1
<1>1. /\ received \in Seq(Lexeme) /\ taken \in 0 .. Len(received) /\ cur_lex \in {0, taken}
      /\ request_for_lex \in BOOLEAN /\ executed \in Seq(Command) /\ tmp_cmd \in Command
      /\ ~request_for_lex => cur_lex # 0
  BY DEF MeaningInv, PInv, TypeOK, MeaningOK, Command
<1>2. Len(received) \in Nat
  BY <1>1, LenProperties
<1>3. request_for_lex => ReadTo = taken /\ ~Closed /\ SaidTo = taken
  BY DEF MeaningInv, LexemeOK, ReadTo, SaidTo
<1>4. ~request_for_lex => /\ taken \in 1 .. Len(received) /\ cur_lex = taken
                          /\ Lex = received[taken] /\ Lex \in Lexeme
                          /\ ReadTo = taken - 1
  BY <1>1, <1>2, ElementOfSeq DEF Lex, ReadTo
<1> QED
  BY <1>1, <1>2, <1>3, <1>4

\* A state that looks at its lexeme before anything is told of it.
LEMMA Looking ==
  ASSUME MeaningInv, ~request_for_lex, ~Closed, state # "SKIP"
  PROVE  /\ received \in Seq(Lexeme) /\ Len(received) \in Nat /\ taken \in 1 .. Len(received)
         /\ Lex = received[taken] /\ Lex \in Lexeme /\ cur_lex = taken
         /\ Answered = Said(received, taken - 1)
         /\ \E s \in 1 .. taken : LineOK(s)
         /\ \A s \in 1 .. taken : LineOK(s) =>
              /\ LineBegins(received, s, taken)
              /\ SubSeq(received, s, taken - 1) \in Seq(Lexeme)
              /\ Len(SubSeq(received, s, taken - 1)) = taken - s
<1>1. /\ received \in Seq(Lexeme) /\ Len(received) \in Nat /\ taken \in 1 .. Len(received)
      /\ Lex = received[taken] /\ Lex \in Lexeme /\ cur_lex = taken /\ ReadTo = taken - 1
  BY Where
<1>2. SaidTo = taken - 1
  BY DEF SaidTo
<1>3. Answered = Said(received, taken - 1)
  BY <1>2 DEF MeaningInv, MeaningOK
<1>4. ReadTo + 1 = taken
  BY <1>1
<1>5. \E s \in 1 .. taken : LineOK(s)
  BY <1>4 DEF MeaningInv
<1>6. ASSUME NEW s \in 1 .. taken, LineOK(s)
      PROVE  /\ LineBegins(received, s, taken)
             /\ SubSeq(received, s, taken - 1) \in Seq(Lexeme)
             /\ Len(SubSeq(received, s, taken - 1)) = taken - s
  <2>1. LineBegins(received, s, taken)
    BY <1>4, <1>6 DEF LineOK
  <2>2. taken \in 1 .. Len(received) + 1
    BY <1>1
  <2> QED
    BY <1>1, <2>1, <2>2, LineType
<1> QED
  BY <1>1, <1>3, <1>5, <1>6

\* A command returned is the last one told.
LEMMA Executed ==
  ASSUME executed \in Seq(Command), NEW cmd \in Command, executed' = Append(executed, cmd)
  PROVE  /\ executed' \in Seq(Command)
         /\ Answered' = Append(Answered, AsRead(cmd))
         /\ Closed' <=> cmd.type = "PROTOCOL_PARSE_ERROR"
<1> DEFINE n == Len(executed)
           S == {AsRead(x) : x \in Command}
<1>1. /\ n \in Nat /\ executed' \in Seq(Command) /\ Len(executed') = n + 1
      /\ executed'[n + 1] = cmd /\ \A i \in 1 .. n : executed'[i] = executed[i]
      /\ DOMAIN executed = 1 .. n /\ DOMAIN executed' = 1 .. n + 1
      /\ \A i \in 1 .. n : executed[i] \in Command
  BY LenProperties, AppendProperties, ElementOfSeq
<1> HIDE DEF n
<1>2. Answered \in Seq(S) /\ Len(Answered) = n
  <2>1. \A i \in 1 .. n : AsRead(executed[i]) \in S
    BY <1>1
  <2> HIDE DEF S
  <2> QED
    BY <1>1, <2>1 DEF Answered
<1>3. Answered' \in Seq(S) /\ Len(Answered') = n + 1
  <2>1. \A i \in 1 .. n + 1 : AsRead(executed'[i]) \in S
    <3> SUFFICES ASSUME NEW i \in 1 .. n + 1 PROVE executed'[i] \in Command
      OBVIOUS
    <3> QED
      BY <1>1, ElementOfSeq
  <2> HIDE DEF S
  <2> QED
    BY <1>1, <2>1 DEF Answered
<1>4. AsRead(cmd) \in S
  OBVIOUS
<1> HIDE DEF S
<1>5. Answered' = Append(Answered, AsRead(cmd))
  <2>1. /\ Append(Answered, AsRead(cmd)) \in Seq(S)
        /\ Len(Append(Answered, AsRead(cmd))) = n + 1
        /\ Append(Answered, AsRead(cmd))[n + 1] = AsRead(cmd)
        /\ \A i \in 1 .. n : Append(Answered, AsRead(cmd))[i] = Answered[i]
    BY <1>2, <1>4, AppendProperties
  <2>2. \A i \in 1 .. n + 1 : Answered'[i] = Append(Answered, AsRead(cmd))[i]
    <3> SUFFICES ASSUME NEW i \in 1 .. n + 1
                 PROVE  Answered'[i] = Append(Answered, AsRead(cmd))[i]
      OBVIOUS
    <3>1. CASE i = n + 1
      BY <1>1, <2>1, <3>1 DEF Answered
    <3>2. CASE i # n + 1
      <4>1. i \in 1 .. n
        BY <1>1, <3>2
      <4> QED
        BY <1>1, <2>1, <4>1 DEF Answered
    <3> QED
      BY <3>1, <3>2
  <2> QED
    BY <1>3, <2>1, <2>2, SeqEqual
<1>6. Closed' <=> cmd.type = "PROTOCOL_PARSE_ERROR"
  <2>1. executed' # <<>> /\ executed'[Len(executed')] = cmd
    BY <1>1, EmptySeq
  <2> QED
    BY <2>1 DEF Closed, Last
<1> QED
  BY <1>1, <1>5, <1>6

\* A lexeme is told of by one command, or by none.
LEMMA Tells ==
  ASSUME MeaningInv, ~request_for_lex, ~Closed, state # "SKIP",
         NEW cmd \in Command, executed' = Append(executed, cmd), received' = received,
         NEW type, NEW args, CommandAt(received, taken) = Told(type, args),
         AsRead(cmd) = [type |-> type, args |-> args]
  PROVE  /\ executed' \in Seq(Command)
         /\ Answered' = Said(received, taken)
         /\ Closed' <=> cmd.type = "PROTOCOL_PARSE_ERROR"
<1>1. /\ received \in Seq(Lexeme) /\ taken \in 1 .. Len(received) /\ Len(received) \in Nat
      /\ Answered = Said(received, taken - 1)
  BY Looking
<1>2. taken - 1 \in Nat /\ (taken - 1) + 1 = taken /\ (taken - 1) + 1 <= Len(received)
  BY <1>1
<1>3. /\ Said(received, taken - 1) \in Seq(Answer)
      /\ Said(received, (taken - 1) + 1)
           = Said(received, taken - 1) \o CommandAt(received, (taken - 1) + 1)
  BY <1>1, <1>2, SaidMore
<1>4. Said(received, taken) = Said(received, taken - 1) \o <<AsRead(cmd)>>
  BY <1>2, <1>3 DEF Told
<1>5. Said(received, taken - 1) \o <<AsRead(cmd)>> = Append(Said(received, taken - 1), AsRead(cmd))
  BY <1>3, AppendIsConcat
<1>6. /\ executed' \in Seq(Command)
      /\ Answered' = Append(Answered, AsRead(cmd))
      /\ Closed' <=> cmd.type = "PROTOCOL_PARSE_ERROR"
  BY Executed DEF MeaningInv, MeaningOK
<1> QED
  BY <1>1, <1>4, <1>5, <1>6

LEMMA Silent ==
  ASSUME NEW lexs \in Seq(Lexeme), NEW p \in 1 .. Len(lexs), CommandAt(lexs, p) = <<>>
  PROVE  Said(lexs, p) = Said(lexs, p - 1)
<1>1. p - 1 \in Nat /\ (p - 1) + 1 = p /\ (p - 1) + 1 <= Len(lexs)
  BY LenProperties
<1>2. /\ Said(lexs, p - 1) \in Seq(Answer)
      /\ Said(lexs, (p - 1) + 1) = Said(lexs, p - 1) \o CommandAt(lexs, (p - 1) + 1)
  BY <1>1, SaidMore
<1> QED
  BY <1>1, <1>2, ConcatEmptySeq

-----------------------------------------------------------------------------
(* The kinds of steps *)

\* The state changes, and the lexeme is to be looked at again.
LEMMA Stays ==
  ASSUME MeaningInv, PInv', ~request_for_lex, ~Closed, state # "SKIP",
         ~(request_for_lex'), state' # "SKIP", UNCHANGED <<cur_lex, taken, received, executed>>,
         NEW s \in 1 .. taken, LineOK(s),
         NEW line, line = SubSeq(received, s, taken - 1),
         state' \in {"START", "EXPECT_CMD_NAME", "EMPTY"} => line = <<>>,
         state' \in ArgumentState =>
           Fits(line) /\ Holds(tmp_cmd', s, line) /\ Len(line) = LengthIn(state', tmp_cmd'.type),
         state' = "EXPECT_CMD_NAME" => Lex.type = "WORD",
         state' = "EMPTY" => Lex.type = "EOLN",
         state' = "EXPECT_OPTIONAL_STR" => tmp_cmd'.type \in OptionalStr,
         state' = "PROTOCOL_PARSE_ERROR" => Lex.type = "PROTOCOL_PARSE_ERROR",
         state' = "WRONG" => /\ Lex.type # "PROTOCOL_PARSE_ERROR"
                             /\ CommandAt(received, taken) = Told("WRONG", <<>>)
                             /\ Lex.type # "EOLN" => ~Viable(Append(line, Lex))
  PROVE  MeaningInv'
<1>1. /\ received \in Seq(Lexeme) /\ Len(received) \in Nat /\ taken \in 1 .. Len(received)
      /\ Lex = received[taken] /\ cur_lex = taken
      /\ Answered = Said(received, taken - 1)
      /\ LineBegins(received, s, taken)
  BY Looking
<1>2. SubSeq(received, s, taken) = Append(line, Lex)
  BY <1>1, LineGrows
<1>3. /\ Lex' = Lex /\ ReadTo' = taken - 1 /\ ReadTo' + 1 = taken /\ ~(Closed')
      /\ SaidTo' = taken - 1 /\ Answered' = Answered
  BY <1>1 DEF Lex, ReadTo, Closed, SaidTo, Answered
<1>4. LineOK(s)'
  BY <1>1, <1>2, <1>3 DEF LineOK
<1>5. LexemeOK'
  BY <1>1, <1>3 DEF LexemeOK
<1>6. StreamOK' /\ MeaningOK'
  BY <1>1, <1>3 DEF MeaningInv, StreamOK, MeaningOK
<1> QED
  BY <1>3, <1>4, <1>5, <1>6 DEF MeaningInv

\* The lexeme is taken for the next argument, or for the name.
LEMMA Advances ==
  ASSUME MeaningInv, PInv', ~request_for_lex, ~Closed, state # "SKIP",
         request_for_lex' = TRUE, state' \in {"PROCESS_ARG1", "PROCESS_ARG2", "EXPECT_EOLN"},
         UNCHANGED <<taken, received, executed>>,
         NEW s \in 1 .. taken, LineOK(s),
         NEW line, line = Append(SubSeq(received, s, taken - 1), Lex),
         Lex.type \notin {"EOLN", "PROTOCOL_PARSE_ERROR"},
         Fits(line), Holds(tmp_cmd', s, line), Len(line) = LengthIn(state', tmp_cmd'.type)
  PROVE  MeaningInv'
<1> DEFINE before == SubSeq(received, s, taken - 1)
<1>1. /\ received \in Seq(Lexeme) /\ Len(received) \in Nat /\ taken \in 1 .. Len(received)
      /\ Lex = received[taken] /\ Lex \in Lexeme
      /\ Answered = Said(received, taken - 1)
      /\ LineBegins(received, s, taken)
      /\ before \in Seq(Lexeme)
  BY Looking
<1>2. SubSeq(received, s, taken) = line
  BY <1>1, LineGrows
<1>3. Viable(line)
  <2>1. line \in Seq(Lexeme)
    BY <1>1, AppendProperties
  <2> QED
    BY <2>1, LineIs
<1>4. CommandAt(received, taken) = <<>>
  BY <1>1, <1>3, CommandIs
<1>5. Said(received, taken) = Said(received, taken - 1)
  BY <1>1, <1>4, Silent
<1>6. /\ ReadTo' = taken /\ SaidTo' = taken /\ Answered' = Answered /\ (Closed <=> Closed')
  BY DEF ReadTo, Closed, SaidTo, Answered
<1>7. LineBegins(received, s, taken + 1)
  <2>1. \A q \in s .. taken : q = taken \/ q \in s .. taken - 1
    BY <1>1
  <2> QED
    BY <1>1, <2>1 DEF LineBegins
<1>8. LineOK(s)'
  BY <1>2, <1>6, <1>7 DEF LineOK
<1>9. LexemeOK'
  BY <1>6 DEF LexemeOK
<1>10. StreamOK' /\ MeaningOK'
  BY <1>1, <1>5, <1>6 DEF MeaningInv, StreamOK, MeaningOK
<1>11. s \in 1 .. taken + 1
  BY <1>1
<1> QED
  BY <1>6, <1>8, <1>9, <1>10, <1>11 DEF MeaningInv

\* The line is answered at its end.
LEMMA LineEnds ==
  ASSUME MeaningInv, PInv', ~request_for_lex, ~Closed, state # "SKIP", Lex.type = "EOLN",
         NEW cmd \in Command, Execute(cmd, "START", TRUE),
         cmd.type # "PROTOCOL_PARSE_ERROR",
         NEW type, NEW args, CommandAt(received, taken) = Told(type, args),
         AsRead(cmd) = [type |-> type, args |-> args]
  PROVE  MeaningInv'
<1>1. /\ received \in Seq(Lexeme) /\ Len(received) \in Nat /\ taken \in 1 .. Len(received)
      /\ Lex = received[taken]
  BY Looking
<1>2. /\ executed' = Append(executed, cmd) /\ received' = received /\ taken' = taken
      /\ request_for_lex' = TRUE /\ state' = "START"
  BY DEF Execute
<1>3. /\ executed' \in Seq(Command)
      /\ Answered' = Said(received, taken)
      /\ ~(Closed')
  BY <1>2, Tells
<1>4. ReadTo' = taken /\ SaidTo' = taken
  BY <1>2 DEF ReadTo, SaidTo
<1>t. PICK t \in Nat : t = taken + 1
  BY <1>1
<1>5. LineOK(t)'
  <2>1. SubSeq(received, taken + 1, taken) = <<>>
    BY <1>1
  <2>2. LineBegins(received, taken + 1, taken + 1)
    BY <1>1 DEF LineBegins
  <2> QED
    BY <1>2, <1>4, <1>t, <2>1, <2>2 DEF LineOK, ArgumentState
<1>6. LexemeOK'
  BY <1>2, <1>3 DEF LexemeOK
<1>7. StreamOK' /\ MeaningOK'
  BY <1>2, <1>3, <1>4 DEF MeaningInv, StreamOK, MeaningOK
<1>8. t \in 1 .. ReadTo' + 1
  BY <1>1, <1>4, <1>t
<1> QED
  BY <1>5, <1>6, <1>7, <1>8 DEF MeaningInv

-----------------------------------------------------------------------------
(* The steps *)

LEMMA InitMeaning == Init => MeaningInv
<1> SUFFICES ASSUME Init PROVE MeaningInv
  OBVIOUS
<1>1. PInv
  BY InitInvariant
<1>2. /\ received = <<>> /\ Len(received) = 0 /\ executed = <<>> /\ ~Closed
      /\ ReadTo = 0 /\ SaidTo = 0
  BY DEF Init, Closed, ReadTo, SaidTo
<1>3. LineOK(1)
  <2>1. SubSeq(received, 1, 0) = <<>>
    BY <1>2
  <2>2. LineBegins(received, 1, 1)
    BY DEF LineBegins
  <2> QED
    BY <1>2, <2>1, <2>2 DEF LineOK, Init, ArgumentState
<1>4. LexemeOK /\ StreamOK
  BY <1>2 DEF Init, LexemeOK, StreamOK
<1>5. MeaningOK
  <2>1. Answered = <<>> /\ executed \in Seq(Command)
    BY <1>2 DEF Answered
  <2> QED
    BY <1>2, <2>1, SaidNothing DEF MeaningOK
<1> QED
  BY <1>1, <1>2, <1>3, <1>4, <1>5 DEF MeaningInv

\* A lexeme that does not fit: the line is wrong from here on.
LEMMA MeaningUnexpected ==
  ASSUME MeaningInv, PInv', ~request_for_lex, ~Closed, state # "SKIP", Unexpected,
         NEW s \in 1 .. taken, LineOK(s),
         NEW line, line = SubSeq(received, s, taken - 1),
         Viable(line),
         Lex.type = "EOLN" => line # <<>> /\ ~Complete(line),
         Lex.type \notin {"EOLN", "PROTOCOL_PARSE_ERROR"} => ~Viable(Append(line, Lex))
  PROVE  MeaningInv'
<1>1. /\ received \in Seq(Lexeme) /\ Len(received) \in Nat /\ taken \in 1 .. Len(received)
      /\ Lex = received[taken]
      /\ LineBegins(received, s, taken)
  BY Looking
<1>2. /\ ~(request_for_lex') /\ UNCHANGED <<cur_lex, taken, received, executed>>
      /\ state' = IF Lex.type = "PROTOCOL_PARSE_ERROR" THEN "PROTOCOL_PARSE_ERROR" ELSE "WRONG"
  BY DEF Unexpected, Goto
<1>3. Lex.type # "PROTOCOL_PARSE_ERROR" => CommandAt(received, taken) = Told("WRONG", <<>>)
  BY <1>1, CommandIs
<1> QED
  BY <1>2, <1>3, Stays DEF ArgumentState

LEMMA MeaningStart ==
  ASSUME MeaningInv, PInv', Start
  PROVE  MeaningInv'
<1>1. ~request_for_lex /\ ~Closed /\ state = "START"
  BY DEF Start, In
<1>2. PICK s \in 1 .. taken : LineOK(s)
  BY <1>1, Looking
<1>3. /\ received \in Seq(Lexeme) /\ taken \in 1 .. Len(received)
      /\ Lex = received[taken] /\ Lex \in Lexeme
      /\ ReadTo = taken - 1
  BY <1>1, Where
<1> DEFINE line == SubSeq(received, s, taken - 1)
<1>4. line = <<>>
  BY <1>1, <1>2, <1>3 DEF LineOK
<1> HIDE DEF line
<1>5. CASE Lex.type = "WORD" /\ Goto("EXPECT_CMD_NAME")
  BY <1>1, <1>2, <1>4, <1>5, Stays DEF Goto, ArgumentState, line
<1>6. CASE Lex.type = "EOLN" /\ Goto("EMPTY")
  BY <1>1, <1>2, <1>4, <1>6, Stays DEF Goto, ArgumentState, line
<1>7. CASE Lex.type \notin {"WORD", "EOLN"} /\ Unexpected
  <2>1. Viable(line)
    BY <1>4 DEF Viable
  <2>2. ~Viable(Append(line, Lex))
    <3>1. /\ Append(line, Lex) # <<>> /\ Append(line, Lex)[1] = Lex
      BY <1>3, <1>4
    <3> QED
      BY <1>7, <3>1 DEF Viable, Named
  <2> QED
    BY <1>1, <1>2, <1>7, <2>1, <2>2, MeaningUnexpected DEF line
<1> QED
  BY <1>5, <1>6, <1>7 DEF Start

LEMMA MeaningExpectCmdName ==
  ASSUME MeaningInv, PInv', ExpectCmdName
  PROVE  MeaningInv'
<1>1. ~request_for_lex /\ ~Closed /\ state = "EXPECT_CMD_NAME" /\ Lex.type = "WORD"
  BY DEF ExpectCmdName, In, MeaningInv, LexemeOK
<1>2. PICK s \in 1 .. taken : LineOK(s)
  BY <1>1, Looking
<1>3. /\ received \in Seq(Lexeme) /\ taken \in 1 .. Len(received) /\ Len(received) \in Nat
      /\ Lex = received[taken] /\ Lex \in Lexeme /\ tmp_cmd \in Command
      /\ ReadTo = taken - 1
      /\ LineBegins(received, s, taken)
  BY <1>1, <1>2, Where, Looking
<1> DEFINE line == SubSeq(received, s, taken - 1)
           more == Append(line, Lex)
<1>4. line = <<>> /\ line = SubSeq(received, s, taken - 1)
  BY <1>1, <1>2, <1>3 DEF LineOK
<1> HIDE DEF line
<1>5. more # <<>> /\ more[1] = Lex /\ Len(more) = 1 /\ more \in Seq(Lexeme)
  BY <1>3, <1>4
<1>6. UNCHANGED <<cur_lex, taken, received, executed>>
  BY DEF ExpectCmdName
<1> HIDE DEF more
<1>7. CASE Lex.value \in Name
  <2>1. /\ tmp_cmd'.type = Lex.value /\ request_for_lex' = TRUE /\ state' = "PROCESS_ARG1"
    BY <1>3, <1>7 DEF ExpectCmdName, Command
  <2>2. Fits(more)
    <3>1. Named(more)
      BY <1>1, <1>5, <1>7 DEF Named
    <3>2. 0 <= Most(Lex.value)
      BY DEF Most
    <3> QED
      BY <1>5, <3>1, <3>2 DEF Fits
  <2>3. Holds(tmp_cmd', s, more) /\ Len(more) = LengthIn(state', tmp_cmd'.type)
    BY <1>5, <2>1 DEF Holds, LengthIn
  <2> QED
    BY <1>1, <1>2, <1>6, <2>1, <2>2, <2>3, Advances DEF more, line
<1>8. CASE Lex.value \notin Name
  <2>1. ~(request_for_lex') /\ state' = "WRONG"
    BY <1>8 DEF ExpectCmdName
  <2>2. Viable(line)
    BY <1>4 DEF Viable
  <2>3. ~Viable(more)
    BY <1>5, <1>8 DEF Viable, Named
  <2>4. CommandAt(received, taken) = Told("WRONG", <<>>)
    BY <1>1, <1>3, <1>4, <2>2, <2>3, CommandIs DEF more
  <2> QED
    BY <1>1, <1>2, <1>4, <1>6, <2>1, <2>3, <2>4, Stays DEF ArgumentState, more
<1> QED
  BY <1>7, <1>8

\* A line that fits, and a lexeme more.
LEMMA FitsMore ==
  ASSUME NEW line \in Seq(Lexeme), Fits(line), NEW lex \in Lexeme
  PROVE  LET more == Append(line, lex)
             name == line[1].value
         IN  /\ more \in Seq(Lexeme) /\ Len(more) = Len(line) + 1 /\ more # <<>>
             /\ more[Len(line) + 1] = lex /\ \A i \in 1 .. Len(line) : more[i] = line[i]
             /\ Len(line) \in Nat \ {0} /\ more[1] = line[1]
             /\ name \in Name /\ Most(name) \in 0 .. 2
             /\ Fits(more) <=> Len(line) <= Most(name) /\ lex.type = Kind(name)
             /\ Viable(more) <=> Fits(more)
<1> DEFINE more == Append(line, lex)
           name == line[1].value
<1>1. PICK n \in Nat : n = Len(line)
  BY LenProperties
<1>2. n # 0 /\ n \in Nat \ {0} /\ Named(line)
  BY <1>1, EmptySeq DEF Fits
<1>3. /\ more \in Seq(Lexeme) /\ Len(more) = n + 1 /\ more[n + 1] = lex
      /\ \A i \in 1 .. n : more[i] = line[i]
  BY <1>1, AppendProperties
<1>4. more # <<>> /\ more[1] = line[1] /\ Named(more)
  <2>1. 1 \in 1 .. n
    BY <1>2
  <2>2. Len(more) # 0
    BY <1>2, <1>3
  <2> QED
    BY <1>2, <1>3, <2>1, <2>2, EmptySeq DEF Named
<1> HIDE DEF more
<1>5. name \in Name /\ Most(name) \in 0 .. 2
  BY <1>2 DEF Named, Most
<1>6. \A i \in 2 .. n : line[i].type = Kind(name)
  BY <1>1 DEF Fits
<1>7. PICK m \in 0 .. 2, k \in {"WORD", "NUMBER"} : m = Most(name) /\ k = Kind(name)
  BY <1>5 DEF Kind
<1>8. Fits(more) <=> n <= m /\ \A i \in 2 .. n + 1 : more[i].type = k
  <2>1. (n + 1) - 1 = n
    BY <1>2
  <2>2. more[1].value = name
    BY <1>4
  <2> QED
    BY <1>3, <1>4, <1>7, <2>1, <2>2 DEF Fits
<1>9. (\A i \in 2 .. n + 1 : more[i].type = k) <=> lex.type = k
  <2>1. ASSUME \A i \in 2 .. n + 1 : more[i].type = k PROVE lex.type = k
    <3>1. n + 1 \in 2 .. n + 1
      BY <1>2
    <3> QED
      BY <1>3, <2>1, <3>1
  <2>2. ASSUME lex.type = k, NEW i \in 2 .. n + 1 PROVE more[i].type = k
    <3>1. CASE i = n + 1
      BY <1>3, <2>2, <3>1
    <3>2. CASE i # n + 1
      <4>1. i \in 2 .. n /\ i \in 1 .. n
        BY <1>2, <3>2
      <4> QED
        BY <1>3, <1>6, <1>7, <4>1
    <3> QED
      BY <3>1, <3>2
  <2> QED
    BY <2>1, <2>2
<1>10. Viable(more) <=> Fits(more)
  BY <1>3, <1>4, LineIs
<1> QED
  BY <1>1, <1>2, <1>3, <1>4, <1>5, <1>7, <1>8, <1>9, <1>10 DEF more

\* The line that a state which looks for an argument has before it.
ArgumentLine(s, line) ==
  /\ line = SubSeq(received, s, taken - 1)
  /\ LineOK(s) /\ LineBegins(received, s, taken)
  /\ Len(line) = taken - s
  /\ Fits(line) /\ line # <<>> /\ Viable(line)
  /\ Complete(line) <=> Len(line) - 1 >= Least(tmp_cmd.type)
  /\ Holds(tmp_cmd, s, line)
  /\ tmp_cmd.type = line[1].value /\ tmp_cmd.type \in Name
  /\ Len(line) = LengthIn(state, tmp_cmd.type)

LEMMA HasArgumentLine ==
  ASSUME MeaningInv, ~request_for_lex, ~Closed, state \in ArgumentState
  PROVE  \E s \in 1 .. taken, line \in Seq(Lexeme) : ArgumentLine(s, line)
<1>1. state # "SKIP"
  BY DEF ArgumentState
<1>2. PICK s \in 1 .. taken : LineOK(s)
  BY <1>1, Looking
<1>3. PICK line : line = SubSeq(received, s, taken - 1)
  OBVIOUS
<1>4. /\ LineBegins(received, s, taken)
      /\ line \in Seq(Lexeme) /\ Len(line) = taken - s
  BY <1>1, <1>2, <1>3, Looking
<1>5. ReadTo = taken - 1
  BY DEF ReadTo
<1>6. Fits(line) /\ Holds(tmp_cmd, s, line) /\ Len(line) = LengthIn(state, tmp_cmd.type)
  BY <1>2, <1>3, <1>5 DEF LineOK
<1>7. tmp_cmd.type = line[1].value /\ tmp_cmd.type \in Name /\ line # <<>>
  BY <1>6 DEF Holds, Fits, Named
<1>8. Viable(line) /\ (Complete(line) <=> Len(line) - 1 >= Least(tmp_cmd.type))
  BY <1>4, <1>6, <1>7, LineIs
<1> QED
  BY <1>2, <1>3, <1>4, <1>6, <1>7, <1>8 DEF ArgumentLine

LEMMA MeaningProcessArg ==
  ASSUME MeaningInv, PInv', ProcessArg1 \/ ProcessArg2
  PROVE  MeaningInv'
<1>1. ~request_for_lex /\ ~Closed /\ state \in {"PROCESS_ARG1", "PROCESS_ARG2"}
  BY DEF ProcessArg1, ProcessArg2, In
<1>2. state \in ArgumentState
  BY <1>1 DEF ArgumentState
<1>3. PICK s \in 1 .. taken, line \in Seq(Lexeme) : ArgumentLine(s, line)
  BY <1>1, <1>2, HasArgumentLine
<1>b. /\ LineOK(s) /\ line = SubSeq(received, s, taken - 1)
      /\ Fits(line) /\ Holds(tmp_cmd, s, line) /\ Len(line) = LengthIn(state, tmp_cmd.type)
  BY <1>3 DEF ArgumentLine
<1>4. PICK st \in {"EXPECT_EOLN", "EXPECT_OPTIONAL_STR", "EXPECT_ONE_NUMBER",
                   "EXPECT_TWO_NUMBERS"} :
        /\ Goto(st)
        /\ LengthIn(st, tmp_cmd.type) = LengthIn(state, tmp_cmd.type)
        /\ st = "EXPECT_OPTIONAL_STR" => tmp_cmd.type \in OptionalStr
  <2>1. CASE ProcessArg1
    <3>1. CASE tmp_cmd.type \in NoArgument /\ Goto("EXPECT_EOLN")
      BY <2>1, <3>1 DEF ProcessArg1, In, LengthIn, Most
    <3>2. CASE tmp_cmd.type \in OptionalStr /\ Goto("EXPECT_OPTIONAL_STR")
      BY <2>1, <3>2 DEF ProcessArg1, In, LengthIn
    <3>3. CASE tmp_cmd.type \in OneNumber /\ Goto("EXPECT_ONE_NUMBER")
      BY <2>1, <3>3 DEF ProcessArg1, In, LengthIn, Most, NoArgument, OneNumber
    <3>4. CASE tmp_cmd.type \in TwoNumbers /\ Goto("EXPECT_TWO_NUMBERS")
      BY <2>1, <3>4 DEF ProcessArg1, In, LengthIn
    <3> QED
      BY <2>1, <3>1, <3>2, <3>3, <3>4 DEF ProcessArg1
  <2>2. CASE ProcessArg2
    <3>1. CASE tmp_cmd.type \in OptionalStr \cup OneNumber /\ Goto("EXPECT_EOLN")
      BY <2>2, <3>1 DEF ProcessArg2, In, LengthIn, Most, NoArgument, OptionalStr, OneNumber
    <3>2. CASE tmp_cmd.type \in TwoNumbers /\ Goto("EXPECT_ONE_NUMBER")
      BY <2>2, <3>2 DEF ProcessArg2, In, LengthIn, Most, NoArgument, OptionalStr, OneNumber,
                        TwoNumbers
    <3> QED
      BY <2>2, <3>1, <3>2 DEF ProcessArg2
  <2> QED
    BY <2>1, <2>2
<1>5. /\ state' = st /\ tmp_cmd' = tmp_cmd /\ ~(request_for_lex')
      /\ UNCHANGED <<cur_lex, taken, received, executed>>
  BY <1>1, <1>4 DEF Goto
<1> QED
  BY <1>1, <1>4, <1>5, <1>b, Stays

LEMMA MeaningExpectEoln ==
  ASSUME MeaningInv, PInv', ExpectEoln
  PROVE  MeaningInv'
<1>1. ~request_for_lex /\ ~Closed /\ state = "EXPECT_EOLN" /\ state \in ArgumentState
  BY DEF ExpectEoln, In, ArgumentState
<1>2. PICK s \in 1 .. taken, line \in Seq(Lexeme) : ArgumentLine(s, line)
  BY <1>1, HasArgumentLine
<1> DEFINE name == tmp_cmd.type
<1>3. /\ LineOK(s) /\ LineBegins(received, s, taken)
      /\ line = SubSeq(received, s, taken - 1)
      /\ Fits(line) /\ line # <<>> /\ Viable(line)
      /\ Complete(line) <=> Len(line) - 1 >= Least(name)
      /\ Holds(tmp_cmd, s, line)
      /\ name = line[1].value /\ name \in Name
      /\ Len(line) = Most(name) + 1
  BY <1>1, <1>2 DEF ArgumentLine, LengthIn
<1>4. Most(name) \in Nat /\ Least(name) \in Nat /\ Least(name) <= Most(name)
  BY DEF Least, Most, NoArgument, OptionalStr, OneNumber
<1>5. /\ received \in Seq(Lexeme) /\ taken \in 1 .. Len(received)
      /\ Lex = received[taken] /\ Lex \in Lexeme /\ tmp_cmd \in Command
  BY <1>1, Where
<1>6. Complete(line)
  BY <1>3, <1>4
<1>7. CASE Lex.type = "EOLN" /\ Execute(tmp_cmd, "START", TRUE)
  <2>1. CommandAt(received, taken) = Told(line[1].value, LineArguments(s, line))
    <3>1. PICK type : type = received[taken].type /\ type = "EOLN"
      BY <1>5, <1>7
    <3>2. LineBegins(received, s, taken) /\ line = SubSeq(received, s, taken - 1) /\ line # <<>>
      BY <1>3
    <3> QED
      BY <1>5, <1>6, <3>1, <3>2, CommandIs
  <2>2. AsRead(tmp_cmd) = [type |-> line[1].value, args |-> LineArguments(s, line)]
    <3>1. Fits(line) /\ Holds(tmp_cmd, s, line) /\ Len(line) = Most(tmp_cmd.type) + 1
      BY <1>3
    <3> QED
      BY <1>5, <3>1, CompleteArguments
  <2>3. tmp_cmd.type # "PROTOCOL_PARSE_ERROR"
    BY <1>3, ParserAssumption DEF NoArgument, OptionalStr, OneNumber, TwoNumbers
  <2> QED
    BY <1>1, <1>5, <1>7, <2>1, <2>2, <2>3, LineEnds
<1>8. CASE Lex.type # "EOLN" /\ Unexpected
  <2>1. Viable(Append(line, Lex)) => Len(line) <= Most(name)
    BY <1>3, <1>5, FitsMore
  <2>2. ~(Len(line) <= Most(name))
    BY <1>3, <1>4
  <2> QED
    BY <1>1, <1>2, <1>3, <1>8, <2>1, <2>2, MeaningUnexpected
<1> QED
  BY <1>7, <1>8 DEF ExpectEoln

LEMMA MeaningExpectOptionalStr ==
  ASSUME MeaningInv, PInv', ExpectOptionalStr
  PROVE  MeaningInv'
<1>1. /\ ~request_for_lex /\ ~Closed /\ state = "EXPECT_OPTIONAL_STR"
      /\ state \in ArgumentState /\ state # "SKIP"
      /\ tmp_cmd.type \in OptionalStr
  BY DEF ExpectOptionalStr, In, ArgumentState, MeaningInv, LexemeOK
<1>2. PICK s \in 1 .. taken, line \in Seq(Lexeme) : ArgumentLine(s, line)
  BY <1>1, HasArgumentLine
<1> DEFINE more == Append(line, Lex)
<1>3. PICK name \in Name : name = tmp_cmd.type /\ name \in OptionalStr
  BY <1>1, <1>2 DEF ArgumentLine
<1>4. /\ Fits(line) /\ line # <<>> /\ Viable(line)
      /\ name = line[1].value /\ Len(line) = 1 /\ s + 1 = taken /\ Complete(line)
  <2>1. Len(line) = 1
    BY <1>1, <1>2 DEF ArgumentLine, LengthIn
  <2>2. Complete(line)
    BY <1>2, <1>3, <2>1 DEF ArgumentLine, Least
  <2>3. s + 1 = taken
    <3>1. taken \in Nat /\ s \in Nat
      BY Where
    <3>2. Len(line) = taken - s
      BY <1>2 DEF ArgumentLine
    <3>3. 1 = taken - s
      BY <2>1, <3>2
    <3> QED
      BY <3>1, <3>3
  <2> QED
    BY <1>2, <1>3, <2>1, <2>2, <2>3 DEF ArgumentLine
<1>5. LineOK(s) /\ LineBegins(received, s, taken) /\ line = SubSeq(received, s, taken - 1)
  BY <1>2 DEF ArgumentLine
<1>6. /\ received \in Seq(Lexeme) /\ taken \in 1 .. Len(received) /\ cur_lex = taken
      /\ Lex = received[taken] /\ Lex \in Lexeme /\ tmp_cmd \in Command
  BY <1>1, Where
<1> HIDE DEF more
<1>7. /\ Viable(more) <=> Fits(more)
      /\ Fits(more) <=> Lex.type = "WORD"
      /\ Len(more) = 2 /\ more[1] = line[1]
  <2>1. /\ Viable(more) <=> Fits(more)
        /\ Fits(more) <=> Len(line) <= Most(name) /\ Lex.type = Kind(name)
        /\ Len(more) = Len(line) + 1 /\ more[1] = line[1]
    BY <1>4, <1>6, FitsMore DEF more
  <2>2. Most(name) = 1 /\ Kind(name) = "WORD"
    BY <1>3 DEF Most, Kind, NoArgument, OptionalStr
  <2> QED
    BY <1>4, <2>1, <2>2
<1>8. ASSUME Lex.type = "WORD",
             tmp_cmd' = [tmp_cmd EXCEPT !.value = Str(cur_lex)],
             request_for_lex' = TRUE, state' = "PROCESS_ARG2",
             UNCHANGED <<cur_lex, allocated, taken, received, executed>>
      PROVE  MeaningInv'
  <2>1. tmp_cmd'.type = name /\ tmp_cmd'.value.str = s + 1
    BY <1>3, <1>4, <1>6, <1>8 DEF Command, Str
  <2>2. Holds(tmp_cmd', s, more) /\ Len(more) = LengthIn(state', tmp_cmd'.type)
    BY <1>3, <1>4, <1>7, <1>8, <2>1 DEF Holds, LengthIn
  <2>3. more = Append(SubSeq(received, s, taken - 1), Lex)
    BY <1>5 DEF more
  <2> QED
    BY <1>1, <1>5, <1>7, <1>8, <2>2, <2>3, Advances
<1>9. ASSUME Lex.type = "EOLN",
             Execute([tmp_cmd EXCEPT !.value = Str(0)], "START", TRUE)
      PROVE  MeaningInv'
  <2> DEFINE cmd == [tmp_cmd EXCEPT !.value = Str(0)]
  <2>1. cmd \in Command /\ cmd.type = name /\ cmd.value.str = 0
    <3>1. Str(0) \in Value /\ Str(0).str = 0
      BY ParserAssumption DEF Str, Value
    <3> QED
      BY <1>3, <1>6, <3>1 DEF Command
  <2> HIDE DEF cmd
  <2>2. AsRead(cmd) = [type |-> name, args |-> <<0>>]
    BY <1>3, <2>1, AsReadIs
  <2>3. CommandAt(received, taken) = Told(name, <<0>>)
    <3>1. PICK type : type = received[taken].type /\ type = "EOLN"
      BY <1>6, <1>9
    <3>2. CommandAt(received, taken) = Told(line[1].value, LineArguments(s, line))
      <4>1. LineBegins(received, s, taken) /\ line = SubSeq(received, s, taken - 1)
            /\ line # <<>> /\ Complete(line)
        BY <1>4, <1>5
      <4>2. received \in Seq(Lexeme) /\ taken \in 1 .. Len(received)
        BY <1>6
      <4> QED
        BY <3>1, <4>1, <4>2, CommandIs
    <3>3. LineArguments(s, line) = <<0>>
      BY <1>3, <1>4 DEF LineArguments
    <3> QED
      BY <1>4, <3>2, <3>3
  <2>4. cmd.type # "PROTOCOL_PARSE_ERROR"
    BY <1>3, <2>1 DEF OptionalStr
  <2>5. Execute(cmd, "START", TRUE)
    BY <1>9 DEF cmd
  <2> QED
    BY <1>1, <1>9, <2>1, <2>2, <2>3, <2>4, <2>5, LineEnds
<1>10. CASE Lex.type \notin {"WORD", "EOLN"} /\ Unexpected
  <2>1. ~Viable(Append(line, Lex))
    BY <1>7, <1>10 DEF more
  <2> QED
    BY <1>1, <1>4, <1>5, <1>10, <2>1, MeaningUnexpected
<1> QED
  BY <1>8, <1>9, <1>10 DEF ExpectOptionalStr

LEMMA MeaningNumbers ==
  ASSUME MeaningInv, PInv', ExpectTwoNumbers \/ ExpectOneNumber
  PROVE  MeaningInv'
<1>1. /\ ~request_for_lex /\ ~Closed /\ state \in {"EXPECT_TWO_NUMBERS", "EXPECT_ONE_NUMBER"}
      /\ state \in ArgumentState /\ state # "SKIP"
      /\ tmp_cmd.type \in OneNumber \cup TwoNumbers
      /\ state = "EXPECT_TWO_NUMBERS" => tmp_cmd.type \in TwoNumbers
  BY DEF ExpectTwoNumbers, ExpectOneNumber, In, ArgumentState, MeaningInv, PInv, ArgumentStates
<1>2. PICK s \in 1 .. taken, line \in Seq(Lexeme) : ArgumentLine(s, line)
  BY <1>1, HasArgumentLine
<1> DEFINE more == Append(line, Lex)
<1>3. PICK name \in Name : name = tmp_cmd.type /\ name \in OneNumber \cup TwoNumbers
  BY <1>1, <1>2 DEF ArgumentLine
<1>a. Len(line) = LengthIn(state, name)
  BY <1>2, <1>3 DEF ArgumentLine
<1>4. PICK n \in 1 .. 2, m \in 1 .. 2 : n = Len(line) /\ m = Most(name) /\ n <= m
  <2>1. LengthIn(state, name) \in 1 .. 2 /\ LengthIn(state, name) <= Most(name)
        /\ Most(name) \in 1 .. 2
    BY <1>1, <1>3 DEF LengthIn, Most, NoArgument, OptionalStr, OneNumber, TwoNumbers
  <2> QED
    BY <1>a, <2>1
<1>5. /\ Fits(line) /\ line # <<>> /\ Viable(line)
      /\ name = line[1].value /\ ~Complete(line)
  <2>1. Least(name) = m
    BY <1>3, <1>4 DEF Least, Most, NoArgument, OptionalStr, OneNumber, TwoNumbers
  <2>2. Complete(line) <=> n - 1 >= m
    BY <1>2, <1>3, <1>4, <2>1 DEF ArgumentLine
  <2>3. ~(n - 1 >= m)
    BY <1>4
  <2> QED
    BY <1>2, <1>3, <2>2, <2>3 DEF ArgumentLine
<1>6. /\ LineOK(s) /\ LineBegins(received, s, taken) /\ line = SubSeq(received, s, taken - 1)
      /\ Holds(tmp_cmd, s, line)
  BY <1>2 DEF ArgumentLine
<1>7. /\ received \in Seq(Lexeme) /\ taken \in 1 .. Len(received) /\ cur_lex = taken
      /\ Lex = received[taken] /\ Lex \in Lexeme /\ tmp_cmd \in Command
  BY <1>1, Where
<1>b. /\ state = "EXPECT_TWO_NUMBERS" => n = 1 /\ m = 2 /\ name \in TwoNumbers
      /\ state = "EXPECT_ONE_NUMBER" => n = m
      /\ name \in OneNumber => m = 1
      /\ name \notin OneNumber => m = 2
      /\ name \notin OptionalStr
  <2>1. /\ Most(name) = IF name \in OneNumber THEN 1 ELSE 2
        /\ name \notin OptionalStr
    BY <1>3 DEF Most, NoArgument, OptionalStr, OneNumber, TwoNumbers
  <2>2. n = LengthIn(state, name)
    BY <1>4, <1>a
  <2>3. state = "EXPECT_TWO_NUMBERS" => n = 1 /\ m = 2 /\ name \in TwoNumbers
    BY <1>1, <1>3, <1>4, <2>1, <2>2 DEF LengthIn, OneNumber, TwoNumbers
  <2>4. state = "EXPECT_ONE_NUMBER" => n = m
    BY <1>1, <1>4, <2>2 DEF LengthIn
  <2> QED
    BY <1>4, <2>1, <2>3, <2>4
<1> HIDE DEF more
<1>8. /\ Viable(more) <=> Fits(more)
      /\ Fits(more) <=> Lex.type = "NUMBER"
      /\ Len(more) = n + 1 /\ more[1] = line[1] /\ more[n + 1] = Lex
      /\ n = 2 => more[2] = line[2]
  <2>1. /\ Viable(more) <=> Fits(more)
        /\ Fits(more) <=> Len(line) <= Most(name) /\ Lex.type = Kind(name)
        /\ Len(more) = Len(line) + 1 /\ more[1] = line[1] /\ more[Len(line) + 1] = Lex
        /\ \A i \in 1 .. Len(line) : more[i] = line[i]
    BY <1>5, <1>7, FitsMore DEF more
  <2>2. Kind(name) = "NUMBER"
    BY <1>b DEF Kind
  <2> QED
    BY <1>4, <2>1, <2>2
<1>9. ASSUME Lex.type = "NUMBER",
             tmp_cmd' = IF n = 1 THEN [tmp_cmd EXCEPT !.value = Num(Lex.value)]
                                 ELSE [tmp_cmd EXCEPT !.value2 = Num(Lex.value)],
             request_for_lex' = TRUE,
             state' = IF n = m THEN "EXPECT_EOLN" ELSE "PROCESS_ARG2",
             UNCHANGED <<cur_lex, cur_lex_data_used, allocated, taken, received, executed>>
      PROVE  MeaningInv'
  <2>1. /\ tmp_cmd'.type = name
        /\ n = 1 => tmp_cmd'.value.number = Lex.value
        /\ n = 2 => tmp_cmd'.value = tmp_cmd.value /\ tmp_cmd'.value2.number = Lex.value
    <3>0. Num(Lex.value).number = Lex.value
      BY DEF Num
    <3>1. PICK v : v = Num(Lex.value) /\ v.number = Lex.value
      BY <3>0
    <3>2. CASE n = 1
      BY <1>3, <1>7, <1>9, <3>1, <3>2 DEF Command
    <3>3. CASE n = 2
      BY <1>3, <1>7, <1>9, <3>1, <3>3 DEF Command
    <3> QED
      BY <1>4, <3>2, <3>3
  <2>2. ASSUME n = 2 PROVE tmp_cmd.value.number = line[2].value
    <3>1. Len(line) > 1 /\ tmp_cmd.type \notin OptionalStr
      BY <1>3, <1>4, <1>b, <2>2
    <3> QED
      BY <1>6, <3>1 DEF Holds
  <2>3. Holds(tmp_cmd', s, more)
    <3>1. CASE n = 1
      BY <1>5, <1>8, <1>b, <2>1, <3>1 DEF Holds
    <3>2. CASE n = 2
      BY <1>5, <1>8, <1>b, <2>1, <2>2, <3>2 DEF Holds
    <3> QED
      BY <1>4, <3>1, <3>2
  <2>4. Len(more) = LengthIn(state', tmp_cmd'.type)
    <3>1. CASE n = m
      BY <1>4, <1>8, <1>9, <2>1, <3>1 DEF LengthIn
    <3>2. CASE n # m
      BY <1>4, <1>8, <1>9, <2>1, <3>2 DEF LengthIn
    <3> QED
      BY <3>1, <3>2
  <2>5. more = Append(SubSeq(received, s, taken - 1), Lex)
    BY <1>6 DEF more
  <2> QED
    BY <1>1, <1>6, <1>8, <1>9, <2>3, <2>4, <2>5, Advances
<1>10. CASE Lex.type # "NUMBER" /\ Unexpected
  <2>1. ~Viable(Append(line, Lex))
    BY <1>8, <1>10 DEF more
  <2> QED
    BY <1>1, <1>5, <1>6, <1>10, <2>1, MeaningUnexpected
<1>11. CASE ExpectTwoNumbers
  <2>1. n = 1 /\ m = 2 /\ n # m
    BY <1>11, <1>b DEF ExpectTwoNumbers, In
  <2> QED
    BY <1>9, <1>10, <1>11, <2>1 DEF ExpectTwoNumbers
<1>12. CASE ExpectOneNumber
  <2>1. n = m /\ (n = 1 <=> tmp_cmd.type \in OneNumber)
    BY <1>3, <1>4, <1>12, <1>b DEF ExpectOneNumber, In
  <2> QED
    BY <1>9, <1>10, <1>12, <2>1 DEF ExpectOneNumber
<1> QED
  BY <1>11, <1>12

LEMMA MeaningWrong ==
  ASSUME MeaningInv, PInv', Wrong
  PROVE  MeaningInv'
<1> DEFINE cmd == [tmp_cmd EXCEPT !.type = "WRONG"]
<1>1. /\ ~request_for_lex /\ ~Closed /\ state = "WRONG" /\ state # "SKIP"
      /\ Lex.type # "PROTOCOL_PARSE_ERROR"
      /\ CommandAt(received, taken) = Told("WRONG", <<>>)
  BY DEF Wrong, In, MeaningInv, LexemeOK
<1>2. PICK s \in 1 .. taken : LineOK(s)
  BY <1>1, Looking
<1>3. /\ received \in Seq(Lexeme) /\ Len(received) \in Nat /\ taken \in 1 .. Len(received)
      /\ tmp_cmd \in Command /\ ReadTo = taken - 1 /\ ReadTo + 1 = taken
  BY <1>1, Where
<1>4. cmd \in Command /\ cmd.type = "WRONG"
  BY <1>3 DEF Command
<1>5. Execute(cmd, "SKIP", FALSE)
  BY DEF Wrong
<1> HIDE DEF cmd
<1>6. AsRead(cmd) = [type |-> "WRONG", args |-> <<>>]
  BY <1>4, AsReadIs DEF OptionalStr, OneNumber, TwoNumbers
<1>7. /\ executed' = Append(executed, cmd) /\ ~(request_for_lex') /\ state' = "SKIP"
      /\ UNCHANGED <<received, taken, cur_lex>>
  BY <1>5 DEF Execute
<1>8. /\ executed' \in Seq(Command) /\ Answered' = Said(received, taken) /\ ~(Closed')
  BY <1>1, <1>4, <1>6, <1>7, Tells
<1>9. Lex' = Lex /\ ReadTo' = ReadTo /\ SaidTo' = taken
  BY <1>1, <1>3, <1>7 DEF Lex, ReadTo, SaidTo
<1>10. LineOK(s)'
  BY <1>1, <1>2, <1>7, <1>9 DEF LineOK, ArgumentState
<1>11. LexemeOK'
  BY <1>7, <1>8 DEF LexemeOK
<1>12. StreamOK' /\ MeaningOK'
  BY <1>7, <1>8, <1>9 DEF MeaningInv, StreamOK, MeaningOK
<1> QED
  BY <1>3, <1>9, <1>10, <1>11, <1>12 DEF MeaningInv

LEMMA MeaningEmpty ==
  ASSUME MeaningInv, PInv', Empty
  PROVE  MeaningInv'
<1> DEFINE cmd == [tmp_cmd EXCEPT !.type = "EMPTY"]
<1>1. ~request_for_lex /\ ~Closed /\ state = "EMPTY" /\ state # "SKIP" /\ Lex.type = "EOLN"
  BY DEF Empty, In, MeaningInv, LexemeOK
<1>2. PICK s \in 1 .. taken : LineOK(s)
  BY <1>1, Looking
<1>3. /\ received \in Seq(Lexeme) /\ taken \in 1 .. Len(received) /\ Lex = received[taken]
      /\ tmp_cmd \in Command /\ ReadTo = taken - 1
      /\ LineBegins(received, s, taken)
  BY <1>1, <1>2, Where, Looking
<1>4. SubSeq(received, s, taken - 1) = <<>>
  BY <1>1, <1>2, <1>3 DEF LineOK
<1>5. CommandAt(received, taken) = Told("EMPTY", <<>>)
  BY <1>1, <1>3, <1>4, CommandIs
<1>6. cmd \in Command /\ cmd.type = "EMPTY"
  BY <1>3 DEF Command
<1>7. Execute(cmd, "START", TRUE)
  BY DEF Empty
<1> HIDE DEF cmd
<1>8. AsRead(cmd) = [type |-> "EMPTY", args |-> <<>>]
  BY <1>6, AsReadIs DEF OptionalStr, OneNumber, TwoNumbers
<1> QED
  BY <1>1, <1>5, <1>6, <1>7, <1>8, LineEnds

LEMMA MeaningProtocolParseError ==
  ASSUME MeaningInv, PInv', ProtocolParseError
  PROVE  MeaningInv'
<1> DEFINE cmd == [tmp_cmd EXCEPT !.type = "PROTOCOL_PARSE_ERROR"]
<1>1. /\ ~request_for_lex /\ ~Closed /\ state = "PROTOCOL_PARSE_ERROR" /\ state # "SKIP"
      /\ Lex.type = "PROTOCOL_PARSE_ERROR"
  BY DEF ProtocolParseError, In, MeaningInv, LexemeOK
<1>2. PICK s \in 1 .. taken : LineOK(s)
  BY <1>1, Looking
<1>3. /\ received \in Seq(Lexeme) /\ taken \in 1 .. Len(received) /\ Lex = received[taken]
      /\ tmp_cmd \in Command /\ ReadTo = taken - 1 /\ ReadTo + 1 = taken
      /\ LineBegins(received, s, taken)
  BY <1>1, <1>2, Where, Looking
<1>4. CommandAt(received, taken) = Told("PROTOCOL_PARSE_ERROR", <<>>)
  BY <1>1, <1>3, CommandIs
<1>5. cmd \in Command /\ cmd.type = "PROTOCOL_PARSE_ERROR"
  BY <1>3 DEF Command
<1>6. Execute(cmd, state, FALSE)
  BY DEF ProtocolParseError
<1> HIDE DEF cmd
<1>7. AsRead(cmd) = [type |-> "PROTOCOL_PARSE_ERROR", args |-> <<>>]
  BY <1>5, AsReadIs DEF OptionalStr, OneNumber, TwoNumbers
<1>8. /\ executed' = Append(executed, cmd) /\ ~(request_for_lex') /\ state' = state
      /\ UNCHANGED <<received, taken, cur_lex>>
  BY <1>6 DEF Execute
<1>9. /\ executed' \in Seq(Command) /\ Answered' = Said(received, taken) /\ Closed'
  BY <1>1, <1>4, <1>5, <1>7, <1>8, Tells
<1>10. Lex' = Lex /\ ReadTo' = ReadTo /\ SaidTo' = taken
  BY <1>1, <1>8, <1>9 DEF Lex, ReadTo, SaidTo
<1>11. LineOK(s)'
  BY <1>1, <1>2, <1>8, <1>10 DEF LineOK, ArgumentState
<1>12. LexemeOK'
  BY <1>1, <1>8, <1>10 DEF LexemeOK
<1>13. StreamOK' /\ MeaningOK'
  BY <1>8, <1>9, <1>10 DEF MeaningInv, StreamOK, MeaningOK
<1> QED
  BY <1>3, <1>10, <1>11, <1>12, <1>13 DEF MeaningInv

LEMMA MeaningSkip ==
  ASSUME MeaningInv, PInv', Skip
  PROVE  MeaningInv'
<1>1. ~request_for_lex /\ ~Closed /\ state = "SKIP"
  BY DEF Skip, In
<1>2. /\ received \in Seq(Lexeme) /\ Len(received) \in Nat /\ taken \in 1 .. Len(received)
      /\ Lex = received[taken] /\ ReadTo = taken - 1 /\ ReadTo + 1 = taken
  BY <1>1, Where
<1>3. PICK s \in 1 .. taken : LineOK(s)
  BY <1>2 DEF MeaningInv
<1>4. /\ UNCHANGED <<cur_lex, taken, received, executed>>
      /\ Lex' = Lex /\ ~(Closed') /\ Answered' = Answered /\ StreamOK'
  BY <1>1 DEF Skip, Lex, Closed, Answered, MeaningInv, StreamOK
<1>5. /\ executed \in Seq(Command)
      /\ Answered = Said(received, SaidTo)
      /\ LineBegins(received, s, taken)
      /\ Lex.type \in {"EOLN", "PROTOCOL_PARSE_ERROR"} \/ ~Viable(SubSeq(received, s, taken))
  BY <1>1, <1>2, <1>3 DEF MeaningInv, MeaningOK, LineOK
<1>6. CASE Lex.type = "PROTOCOL_PARSE_ERROR"
  <2>1. ~(request_for_lex') /\ state' = "PROTOCOL_PARSE_ERROR"
    BY <1>1, <1>6 DEF Skip
  <2>2. SaidTo = taken - 1 /\ SaidTo' = taken - 1 /\ ReadTo' = ReadTo
    BY <1>1, <1>2, <1>4, <1>6, <2>1 DEF SaidTo, ReadTo
  <2>3. LineOK(s)' /\ LexemeOK'
    BY <1>2, <1>4, <1>5, <1>6, <2>1, <2>2 DEF LineOK, LexemeOK, ArgumentState
  <2>4. MeaningOK'
    BY <1>4, <1>5, <2>2 DEF MeaningOK
  <2> QED
    BY <1>2, <1>4, <2>2, <2>3, <2>4 DEF MeaningInv
<1>7. CASE Lex.type # "PROTOCOL_PARSE_ERROR"
  <2>1. request_for_lex' = TRUE /\ state' = IF Lex.type = "EOLN" THEN "START" ELSE "SKIP"
    BY <1>1, <1>7 DEF Skip
  <2>2. SaidTo = taken /\ SaidTo' = taken /\ ReadTo' = taken
    BY <1>1, <1>4, <1>7, <2>1 DEF SaidTo, ReadTo
  <2>3. MeaningOK' /\ LexemeOK'
    BY <1>4, <1>5, <2>1, <2>2 DEF MeaningOK, LexemeOK
  <2>4. \E t \in 1 .. taken + 1 : LineOK(t)'
    <3>1. CASE Lex.type = "EOLN"
      <4>1. PICK t \in 1 .. taken + 1 : t = taken + 1
        BY <1>2
      <4>2. SubSeq(received, t, taken) = <<>>
        BY <1>2, <4>1
      <4>3. LineBegins(received, t, taken + 1)
        BY <1>2, <3>1, <4>1 DEF LineBegins
      <4>4. LineOK(t)'
        BY <1>4, <2>1, <2>2, <3>1, <4>2, <4>3 DEF LineOK, ArgumentState
      <4> QED
        BY <4>4
    <3>2. CASE Lex.type # "EOLN"
      <4>1. \A q \in s .. taken : q = taken \/ q \in s .. taken - 1
        BY <1>2
      <4>2. LineBegins(received, s, taken + 1)
        BY <1>2, <1>5, <3>2, <4>1 DEF LineBegins
      <4>3. LineOK(s)'
        BY <1>4, <1>5, <1>7, <2>1, <2>2, <3>2, <4>2 DEF LineOK, ArgumentState
      <4>4. s \in 1 .. taken + 1
        BY <1>2
      <4> QED
        BY <4>3, <4>4
    <3> QED
      BY <3>1, <3>2
  <2> QED
    BY <1>4, <2>2, <2>3, <2>4 DEF MeaningInv
<1> QED
  BY <1>6, <1>7

\* A line that is wrong stays wrong.
LEMMA StaysWrong ==
  ASSUME NEW line \in Seq(Lexeme), ~Viable(line), NEW lex \in Lexeme
  PROVE  ~Viable(Append(line, lex))
<1> DEFINE more == Append(line, lex)
<1>1. PICK n \in Nat : n = Len(line)
  BY LenProperties
<1>2. /\ more \in Seq(Lexeme) /\ Len(more) = n + 1 /\ more # <<>>
      /\ \A i \in 1 .. n : more[i] = line[i]
  <2>1. /\ more \in Seq(Lexeme) /\ Len(more) = n + 1
        /\ \A i \in 1 .. n : more[i] = line[i]
    BY <1>1, AppendProperties
  <2> QED
    BY <1>1, <2>1, EmptySeq
<1>3. line # <<>> /\ n # 0
  BY <1>1, EmptySeq DEF Viable
<1> HIDE DEF more
<1>4. ASSUME Fits(more) PROVE Fits(line)
  <2>1. more[1] = line[1]
    BY <1>2, <1>3
  <2>2. PICK m \in Nat, k \in {"WORD", "NUMBER"} : m = Most(line[1].value) /\ k = Kind(line[1].value)
    BY DEF Most, Kind
  <2>3. (n + 1) - 1 <= m /\ Named(more) /\ \A i \in 2 .. n + 1 : more[i].type = k
    BY <1>2, <1>4, <2>1, <2>2 DEF Fits
  <2>4. Named(line)
    BY <2>1, <2>3 DEF Named
  <2>5. n - 1 <= m
    BY <2>3
  <2>6. \A i \in 2 .. n : line[i].type = k
    <3> SUFFICES ASSUME NEW i \in 2 .. n PROVE line[i].type = k
      OBVIOUS
    <3>1. i \in 1 .. n /\ i \in 2 .. n + 1
      OBVIOUS
    <3> QED
      BY <1>2, <2>3, <3>1
  <2> QED
    BY <1>1, <1>3, <2>2, <2>4, <2>5, <2>6 DEF Fits
<1> QED
  BY <1>2, <1>4, LineIs DEF more

LEMMA MeaningGetLex ==
  ASSUME MeaningInv, PInv', GetLex
  PROVE  MeaningInv'
<1>1. /\ request_for_lex /\ ~Closed /\ taken < Len(received)
      /\ taken' = taken + 1 /\ cur_lex' = taken + 1 /\ ~(request_for_lex')
      /\ UNCHANGED <<state, tmp_cmd, received, executed>>
  BY DEF GetLex
<1>2. /\ received \in Seq(Lexeme) /\ Len(received) \in Nat /\ taken \in 0 .. Len(received)
      /\ executed \in Seq(Command)
      /\ ReadTo = taken /\ SaidTo = taken
  BY <1>1, Where
<1>3. PICK p \in 1 .. Len(received) : p = taken + 1
  BY <1>1, <1>2
<1>4. PICK s \in 1 .. p : LineOK(s)
  BY <1>2, <1>3 DEF MeaningInv
<1>5. p - 1 = taken /\ ReadTo' = taken /\ Lex' = received[p] /\ received[p] \in Lexeme
  BY <1>1, <1>2, <1>3, ElementOfSeq DEF ReadTo, Lex
<1> DEFINE line == SubSeq(received, s, taken)
<1>6. line \in Seq(Lexeme) /\ LineBegins(received, s, p)
  <2>1. p \in 1 .. Len(received) + 1
    BY <1>2
  <2>2. line \in Seq(Lexeme)
    BY <1>2, <1>5, <2>1, LineType
  <2> QED
    BY <1>2, <1>3, <1>4, <2>2 DEF LineOK
<1>7. SubSeq(received, s, p) = Append(line, received[p])
  BY <1>2, <1>5, LineGrows
<1>8. state = "SKIP" => ~Viable(line) /\ ~Viable(SubSeq(received, s, p))
  <2>1. state = "SKIP" => ~Viable(line)
    BY <1>1, <1>2, <1>4 DEF LineOK
  <2> HIDE DEF line
  <2> QED
    BY <1>5, <1>6, <1>7, <2>1, StaysWrong
<1>9. LexemeOK' /\ StreamOK' /\ ~(Closed') /\ Answered' = Answered
  BY <1>1 DEF MeaningInv, LexemeOK, StreamOK, Closed, Answered
<1>10. LineOK(s)'
  <2>1. state # "WRONG"
    BY <1>1 DEF MeaningInv, LexemeOK
  <2> QED
    BY <1>1, <1>2, <1>3, <1>4, <1>5, <1>8, <2>1 DEF LineOK
<1>11. MeaningOK'
  <2>1. Answered = Said(received, taken)
    BY <1>2 DEF MeaningInv, MeaningOK
  <2>2. SaidTo' = IF state = "SKIP" /\ received[p].type # "PROTOCOL_PARSE_ERROR"
                  THEN p ELSE taken
    BY <1>1, <1>3, <1>5, <1>9 DEF SaidTo
  <2>3. CASE state = "SKIP" /\ received[p].type # "PROTOCOL_PARSE_ERROR"
    <3>1. ~Viable(line) /\ line = SubSeq(received, s, p - 1)
      BY <1>5, <1>8, <2>3
    <3>2. PICK type : type = received[p].type /\ type # "PROTOCOL_PARSE_ERROR"
      BY <2>3
    <3> HIDE DEF line
    <3>3. CommandAt(received, p) = <<>>
      BY <1>2, <1>6, <3>1, <3>2, CommandIs
    <3>4. Said(received, p) = Said(received, p - 1)
      BY <1>2, <3>3, Silent
    <3> QED
      BY <1>1, <1>2, <1>5, <1>9, <2>1, <2>2, <2>3, <3>4 DEF MeaningOK
  <2>4. CASE ~(state = "SKIP" /\ received[p].type # "PROTOCOL_PARSE_ERROR")
    BY <1>1, <1>2, <1>9, <2>1, <2>2, <2>4 DEF MeaningOK
  <2> QED
    BY <2>3, <2>4
<1> QED
  BY <1>3, <1>5, <1>9, <1>10, <1>11 DEF MeaningInv

LEMMA MeaningGetNothing ==
  ASSUME MeaningInv, PInv', GetNothing
  PROVE  MeaningInv'
<1>1. /\ request_for_lex /\ request_for_lex' /\ ~Closed
      /\ UNCHANGED <<state, tmp_cmd, taken, received, executed>>
  BY DEF GetNothing
<1>2. ReadTo' = ReadTo /\ SaidTo' = SaidTo /\ ~(Closed') /\ Answered' = Answered
  BY <1>1 DEF ReadTo, SaidTo, Closed, Answered
<1>3. PICK s \in 1 .. ReadTo + 1 : LineOK(s)
  BY DEF MeaningInv
<1>4. LineOK(s)'
  <2>1. state # "WRONG"
    BY <1>1 DEF MeaningInv, LexemeOK
  <2> QED
    BY <1>1, <1>2, <1>3, <2>1 DEF LineOK
<1>5. LexemeOK' /\ StreamOK' /\ MeaningOK'
  BY <1>1, <1>2 DEF MeaningInv, LexemeOK, StreamOK, MeaningOK
<1> QED
  BY <1>2, <1>3, <1>4, <1>5 DEF MeaningInv

LEMMA MeaningReceive ==
  ASSUME MeaningInv, PInv', NEW lex \in Lexeme, Receive(lex)
  PROVE  MeaningInv'
<1>1. /\ ~Closed /\ received' = Append(received, lex)
      /\ received # <<>> => Last(received).type # "PROTOCOL_PARSE_ERROR"
      /\ UNCHANGED <<state, cur_lex, tmp_cmd, request_for_lex, taken, executed>>
  BY DEF Receive, pinfo
<1>2. /\ received \in Seq(Lexeme) /\ taken \in 0 .. Len(received)
      /\ request_for_lex \in BOOLEAN
      /\ request_for_lex => ReadTo = taken /\ SaidTo = taken
      /\ ~request_for_lex => /\ taken \in 1 .. Len(received) /\ cur_lex = taken
                             /\ ReadTo = taken - 1
  BY Where
<1>3. PICK n \in Nat : n = Len(received)
  BY <1>2, LenProperties
<1>4. /\ received' \in Seq(Lexeme) /\ Len(received') = n + 1
      /\ \A q \in 1 .. n : received'[q] = received[q]
  BY <1>1, <1>2, <1>3, AppendProperties
<1>5. /\ ReadTo' = ReadTo /\ ReadTo \in 0 .. n /\ ~(Closed') /\ Answered' = Answered
      /\ ~request_for_lex => Lex' = Lex
  <2>1. ReadTo \in 0 .. n
    BY <1>2, <1>3
  <2>2. ~request_for_lex => Lex' = Lex
    BY <1>1, <1>2, <1>3, <1>4 DEF Lex
  <2> QED
    BY <1>1, <2>1, <2>2 DEF ReadTo, Closed, Answered
<1>6. SaidTo' = SaidTo /\ SaidTo \in 0 .. n
  BY <1>1, <1>2, <1>3, <1>5 DEF SaidTo
<1>7. /\ \A p \in 1 .. n : CommandAt(received', p) = CommandAt(received, p)
      /\ Said(received', SaidTo) = Said(received, SaidTo)
  BY <1>2, <1>3, <1>4, <1>6, SaidStays
<1>8. MeaningOK'
  BY <1>1, <1>5, <1>6, <1>7 DEF MeaningInv, MeaningOK
<1>9. StreamOK'
  <2> SUFFICES ASSUME NEW q \in 1 .. n PROVE received'[q].type # "PROTOCOL_PARSE_ERROR"
    BY <1>3, <1>4 DEF StreamOK
  <2>1. received'[q] = received[q]
    BY <1>4
  <2>2. CASE q = n
    <3>1. received # <<>> /\ Last(received) = received[n]
      BY <1>2, <1>3, <2>2, EmptySeq DEF Last
    <3> QED
      BY <1>1, <2>1, <2>2, <3>1
  <2>3. CASE q # n
    <3>1. q \in 1 .. Len(received) - 1
      BY <1>3, <2>3
    <3> QED
      BY <2>1, <3>1 DEF MeaningInv, StreamOK
  <2> QED
    BY <2>2, <2>3
<1>10. LexemeOK'
  <2>1. ~request_for_lex => CommandAt(received', taken) = CommandAt(received, taken)
    BY <1>2, <1>3, <1>7
  <2> QED
    BY <1>1, <1>2, <1>5, <2>1 DEF MeaningInv, LexemeOK
<1>11. PICK s \in 1 .. ReadTo + 1 : LineOK(s)
  BY DEF MeaningInv
<1>12. LineOK(s)'
  <2>1. \A k \in 0 .. n : SubSeq(received', s, k) = SubSeq(received, s, k)
    <3> SUFFICES ASSUME NEW k \in 0 .. n
                 PROVE  SubSeq(received', s, k) = SubSeq(received, s, k)
      OBVIOUS
    <3>1. \A q \in s .. k : received'[q] = received[q]
      BY <1>4, <1>5, <1>11
    <3> QED
      BY <1>5, <1>11, <3>1
  <2>2. LineBegins(received', s, ReadTo + 1)
    <3>1. LineBegins(received, s, ReadTo + 1)
      BY <1>11 DEF LineOK
    <3>2. /\ \A q \in s .. (ReadTo + 1) - 1 : q \in 1 .. n
          /\ s > 1 => s - 1 \in 1 .. n
      BY <1>5, <1>11
    <3> QED
      BY <1>4, <3>1, <3>2 DEF LineBegins
  <2>3. /\ SubSeq(received', s, ReadTo) = SubSeq(received, s, ReadTo)
        /\ SubSeq(received', s, taken) = SubSeq(received, s, taken)
    BY <1>2, <1>3, <1>5, <2>1
  <2>4. state \in {"EXPECT_CMD_NAME", "EMPTY", "WRONG", "PROTOCOL_PARSE_ERROR"} =>
          ~request_for_lex
    BY DEF MeaningInv, LexemeOK
  <2> QED
    BY <1>1, <1>5, <1>11, <2>2, <2>3, <2>4 DEF LineOK
<1> QED
  BY <1>5, <1>8, <1>9, <1>10, <1>11, <1>12 DEF MeaningInv

LEMMA MeaningStep == MeaningInv /\ [Next]_vars => MeaningInv'
<1> SUFFICES ASSUME MeaningInv, [Next]_vars
             PROVE  MeaningInv'
  OBVIOUS
<1>1. PInv'
  BY InvariantStep DEF MeaningInv
<1>2. CASE UNCHANGED vars
  <2>1. UNCHANGED <<state, cur_lex, tmp_cmd, request_for_lex, taken, received, executed>>
    BY <1>2 DEF vars, pinfo
  <2>2. ReadTo' = ReadTo /\ Lex' = Lex /\ (Closed' <=> Closed) /\ Answered' = Answered
    BY <2>1 DEF ReadTo, Lex, Closed, Answered
  <2>3. SaidTo' = SaidTo
    BY <2>1, <2>2 DEF SaidTo
  <2>4. PICK s \in 1 .. ReadTo + 1 : LineOK(s)
    BY DEF MeaningInv
  <2>5. LineOK(s)'
    BY <2>1, <2>2, <2>4 DEF LineOK
  <2>6. StreamOK' /\ LexemeOK' /\ MeaningOK'
    BY <2>1, <2>2, <2>3 DEF MeaningInv, StreamOK, LexemeOK, MeaningOK
  <2> QED
    BY <1>1, <2>2, <2>4, <2>5, <2>6 DEF MeaningInv
<1>3. ASSUME NEW lex \in Lexeme, Receive(lex)
      PROVE  MeaningInv'
  BY <1>1, <1>3, MeaningReceive
<1>4. CASE GetLex \/ GetNothing
  BY <1>1, <1>4, MeaningGetLex, MeaningGetNothing
<1>5. CASE Start \/ ExpectCmdName \/ ProcessArg1 \/ ProcessArg2
  BY <1>1, <1>5, MeaningStart, MeaningExpectCmdName, MeaningProcessArg
<1>6. CASE ExpectEoln \/ ExpectOptionalStr \/ ExpectTwoNumbers \/ ExpectOneNumber
  BY <1>1, <1>6, MeaningExpectEoln, MeaningExpectOptionalStr, MeaningNumbers
<1>7. CASE Wrong \/ Empty \/ Skip \/ ProtocolParseError
  BY <1>1, <1>7, MeaningWrong, MeaningEmpty, MeaningSkip, MeaningProtocolParseError
<1> QED
  BY <1>2, <1>3, <1>4, <1>5, <1>6, <1>7 DEF Next, GetCmd

\* However the lexemes come, get_cmd() makes of each line one command, which
\* is what the line means by itself: no state, and nothing of tmp_cmd, is
\* carried from a line to the next.
THEOREM LinesBecomeCommands == Spec => []LinesToCommands
<1>1. MeaningInv => LinesToCommands
  <2> SUFFICES ASSUME MeaningInv, Idle
               PROVE  Answered = CommandsOf(received)
    BY DEF LinesToCommands, Answered
  <2>1. /\ received \in Seq(Lexeme) /\ Len(received) \in Nat /\ taken \in 0 .. Len(received)
        /\ request_for_lex \in BOOLEAN
        /\ request_for_lex => ~Closed /\ SaidTo = taken
        /\ ~request_for_lex => taken \in 1 .. Len(received) /\ Lex = received[taken]
    BY Where
  <2>2. SaidTo = Len(received)
    <3>1. CASE Waits
      BY <2>1, <3>1 DEF Waits
    <3>2. CASE Closed
      <4>1. SaidTo = taken /\ ~request_for_lex /\ Lex.type = "PROTOCOL_PARSE_ERROR"
        BY <2>1, <3>2 DEF SaidTo, MeaningInv, LexemeOK
      <4>2. taken \notin 1 .. Len(received) - 1
        BY <2>1, <4>1 DEF MeaningInv, StreamOK
      <4> QED
        BY <2>1, <4>1, <4>2
    <3> QED
      BY <3>1, <3>2 DEF Idle
  <2>3. CommandsOf(received) = Said(received, Len(received))
    <3>1. DOMAIN received = 1 .. Len(received)
      BY <2>1, LenProperties
    <3> QED
      BY <3>1 DEF CommandsOf, Said
  <2> QED
    BY <2>2, <2>3 DEF MeaningInv, MeaningOK
<1> QED
  BY <1>1, InitMeaning, MeaningStep, PTL DEF Spec

=============================================================================
