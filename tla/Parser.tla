------------------------------- MODULE Parser -------------------------------
(***************************************************************************)
(* The parser of one connection (parser.c): it makes commands of the       *)
(* lexemes, which come as the reads and the lexer bring them.  A command   *)
(* is executed, and destroyed, before the next is looked for.              *)
(*                                                                         *)
(* Strings and numbers are abstract values.  Each word is a malloc()ed     *)
(* string, named by the place of its lexeme in the stream; the model keeps *)
(* which of them are still allocated.                                      *)
(***************************************************************************)
EXTENDS Integers, SequencesExt

CONSTANTS
  Name,        \* the words that are names of commands, in any case
  OtherWord,   \* words that are not
  Number,      \* the numbers of LEX_NUMBER
  MaxReceived  \* the bound of this model on the lexemes of a connection

NoArgument == {"turn", "join"}
OptionalStr == {"help", "nick", "status"}
OneNumber == {"build", "make"}
TwoNumbers == {"buy", "sell"}

ASSUME ParserAssumption ==
  /\ Name \subseteq NoArgument \cup OptionalStr \cup OneNumber \cup TwoNumbers
  /\ OtherWord \cap (NoArgument \cup OptionalStr \cup OneNumber \cup TwoNumbers) = {}
  /\ Number \subseteq Nat
  /\ MaxReceived \in Nat

VARIABLES
  state,              \* parser_info.state
  cur_lex,            \* the place of parser_info.cur_lex, 0 is NULL
  tmp_cmd,            \* parser_info.tmp_cmd
  request_for_lex, cur_lex_data_used,
  allocated,          \* the strings that are not freed
  taken,              \* how many lexemes get_lex() has returned
  received,           \* history: the lexemes that are there to be returned
  executed            \* history: the commands that get_cmd() returned

pinfo == <<state, cur_lex, tmp_cmd, request_for_lex, cur_lex_data_used>>
vars == <<pinfo, allocated, taken, received, executed>>

Lexeme ==
  [type : {"WORD"}, value : Name \cup OtherWord]
    \cup [type : {"NUMBER"}, value : Number]
    \cup [type : {"WRONG_NUMBER", "EOLN", "PROTOCOL_PARSE_ERROR"}, value : {"undefined"}]

\* A value_of_lex: a string is the place of its word, NULL is 0.
Undefined == [str |-> 0, number |-> 0]
Str(place) == [str |-> place, number |-> 0]
Num(n) == [str |-> 0, number |-> n]

Lex == received[cur_lex]

\* new_parser_info()
Init ==
  /\ state = "START"
  /\ cur_lex = 0
  /\ tmp_cmd = [type |-> "WRONG", value |-> Undefined, value2 |-> Undefined]
  /\ request_for_lex = TRUE /\ cur_lex_data_used = FALSE
  /\ allocated = {}
  /\ taken = 0
  /\ received = <<>>
  /\ executed = <<>>

\* get_cmd() has nothing to do: get_lex() returns NULL, or the client is to
\* be disconnected.
Waits == request_for_lex /\ taken = Len(received)
Closed == executed # <<>> /\ Last(executed).type = "PROTOCOL_PARSE_ERROR"
Idle == Waits \/ Closed

\* The lexer has one more lexeme, which a later get_lex() returns.
Receive(lex) ==
  /\ ~Closed
  /\ Len(received) < MaxReceived
  /\ received # <<>> => Last(received).type # "PROTOCOL_PARSE_ERROR"
  /\ received' = Append(received, lex)
  /\ UNCHANGED <<pinfo, allocated, taken, executed>>

\* What destroy_lex() frees of the current lexeme.
FreedWithLex ==
  IF cur_lex # 0 /\ ~cur_lex_data_used /\ Lex.type = "WORD" THEN {cur_lex} ELSE {}

\* Mutant of GetLex: the string is freed though a command has it.
MutFreeUsedString ==
  /\ request_for_lex /\ ~Closed
  /\ taken < Len(received)
  /\ taken' = taken + 1 /\ cur_lex' = taken + 1
  /\ request_for_lex' = FALSE /\ cur_lex_data_used' = FALSE
  /\ allocated' = (allocated \ {cur_lex})
                    \cup {p \in {taken + 1} : received[p].type = "WORD"}
  /\ UNCHANGED <<state, tmp_cmd, received, executed>>

\* parser_get_lex(), when there is a lexeme.
GetLex ==
  /\ request_for_lex /\ ~Closed
  /\ taken < Len(received)
  /\ taken' = taken + 1 /\ cur_lex' = taken + 1
  /\ request_for_lex' = FALSE /\ cur_lex_data_used' = FALSE
  /\ allocated' = (allocated \ FreedWithLex)
                    \cup {p \in {taken + 1} : received[p].type = "WORD"}
  /\ UNCHANGED <<state, tmp_cmd, received, executed>>

\* parser_get_lex() when there is none: the last lexeme is destroyed.
GetNothing ==
  /\ request_for_lex /\ ~Closed
  /\ taken = Len(received) /\ cur_lex # 0
  /\ cur_lex' = 0 /\ cur_lex_data_used' = FALSE
  /\ allocated' = allocated \ FreedWithLex
  /\ UNCHANGED <<state, tmp_cmd, request_for_lex, taken, received, executed>>

-----------------------------------------------------------------------------
(* The states of get_cmd(), once it has a lexeme *)

In(st) == state = st /\ ~request_for_lex /\ ~Closed

Goto(st) ==
  /\ state' = st
  /\ UNCHANGED <<cur_lex, tmp_cmd, request_for_lex, cur_lex_data_used,
                 allocated, taken, received, executed>>

\* The string of a command, which execute_cmd() or destroy_cmd() takes over.
Argument(cmd) == IF cmd.type \in OptionalStr THEN {cmd.value.str} ELSE {}

\* new_cmd(), execute_cmd() and destroy_cmd(), the next state being st.
Execute(cmd, st, nextLex) ==
  /\ state' = st /\ request_for_lex' = nextLex
  /\ tmp_cmd' = cmd
  /\ executed' = Append(executed, cmd)
  /\ allocated' = allocated \ Argument(cmd)
  /\ UNCHANGED <<cur_lex, cur_lex_data_used, taken, received>>

\* What every state does with a lexeme that does not fit.
Unexpected ==
  Goto(IF Lex.type = "PROTOCOL_PARSE_ERROR" THEN "PROTOCOL_PARSE_ERROR" ELSE "WRONG")

\* p_st_start()
Start ==
  /\ In("START")
  /\ \/ Lex.type = "WORD" /\ Goto("EXPECT_CMD_NAME")
     \/ Lex.type = "EOLN" /\ Goto("EMPTY")
     \/ Lex.type \notin {"WORD", "EOLN"} /\ Unexpected

\* p_st_expect_cmd_name() and get_cmd_type()
ExpectCmdName ==
  LET known == Lex.value \in Name
  IN  /\ In("EXPECT_CMD_NAME")
      /\ tmp_cmd' = [tmp_cmd EXCEPT !.type = IF known THEN Lex.value ELSE "WRONG"]
      /\ request_for_lex' = known
      /\ state' = IF known THEN "PROCESS_ARG1" ELSE "WRONG"
      /\ UNCHANGED <<cur_lex, cur_lex_data_used, allocated, taken, received, executed>>

\* p_st_process_arg1()
ProcessArg1 ==
  /\ In("PROCESS_ARG1")
  /\ \/ tmp_cmd.type \in NoArgument /\ Goto("EXPECT_EOLN")
     \/ tmp_cmd.type \in OptionalStr /\ Goto("EXPECT_OPTIONAL_STR")
     \/ tmp_cmd.type \in OneNumber /\ Goto("EXPECT_ONE_NUMBER")
     \/ tmp_cmd.type \in TwoNumbers /\ Goto("EXPECT_TWO_NUMBERS")

\* Mutant of ProcessArg2: one number is enough for "buy" and "sell".
MutOneNumberIsEnough ==
  /\ In("PROCESS_ARG2")
  /\ Goto("EXPECT_EOLN")

\* Mutant of ProcessArg2: a case is left out, the state goes round for ever.
MutNoStringCase ==
  /\ In("PROCESS_ARG2")
  /\ \/ tmp_cmd.type \in OneNumber /\ Goto("EXPECT_EOLN")
     \/ tmp_cmd.type \in TwoNumbers /\ Goto("EXPECT_ONE_NUMBER")

\* p_st_process_arg2()
ProcessArg2 ==
  /\ In("PROCESS_ARG2")
  /\ \/ tmp_cmd.type \in OptionalStr \cup OneNumber /\ Goto("EXPECT_EOLN")
     \/ tmp_cmd.type \in TwoNumbers /\ Goto("EXPECT_ONE_NUMBER")

\* p_st_expect_eoln()
ExpectEoln ==
  /\ In("EXPECT_EOLN")
  /\ \/ Lex.type = "EOLN" /\ Execute(tmp_cmd, "START", TRUE)
     \/ Lex.type # "EOLN" /\ Unexpected

\* p_st_expect_optional_str(): the string now belongs to the command.
ExpectOptionalStr ==
  /\ In("EXPECT_OPTIONAL_STR")
  /\ \/ /\ Lex.type = "WORD"
        /\ tmp_cmd' = [tmp_cmd EXCEPT !.value = Str(cur_lex)]
        /\ cur_lex_data_used' = TRUE
        /\ request_for_lex' = TRUE
        /\ state' = "PROCESS_ARG2"
        /\ UNCHANGED <<cur_lex, allocated, taken, received, executed>>
     \/ /\ Lex.type = "EOLN"
        /\ Execute([tmp_cmd EXCEPT !.value = Str(0)], "START", TRUE)
     \/ Lex.type \notin {"WORD", "EOLN"} /\ Unexpected

\* p_st_expect_two_numbers()
ExpectTwoNumbers ==
  /\ In("EXPECT_TWO_NUMBERS")
  /\ \/ /\ Lex.type = "NUMBER"
        /\ tmp_cmd' = [tmp_cmd EXCEPT !.value = Num(Lex.value)]
        /\ request_for_lex' = TRUE
        /\ state' = "PROCESS_ARG2"
        /\ UNCHANGED <<cur_lex, cur_lex_data_used, allocated, taken, received, executed>>
     \/ Lex.type # "NUMBER" /\ Unexpected

\* p_st_expect_one_number(): the only number, or the second.
ExpectOneNumber ==
  /\ In("EXPECT_ONE_NUMBER")
  /\ \/ /\ Lex.type = "NUMBER"
        /\ tmp_cmd' = IF tmp_cmd.type \in OneNumber
                      THEN [tmp_cmd EXCEPT !.value = Num(Lex.value)]
                      ELSE [tmp_cmd EXCEPT !.value2 = Num(Lex.value)]
        /\ request_for_lex' = TRUE
        /\ state' = "EXPECT_EOLN"
        /\ UNCHANGED <<cur_lex, cur_lex_data_used, allocated, taken, received, executed>>
     \/ Lex.type # "NUMBER" /\ Unexpected

\* p_st_wrong(): the answer does not wait for the end of the line.
Wrong ==
  /\ In("WRONG")
  /\ Execute([tmp_cmd EXCEPT !.type = "WRONG"], "SKIP", FALSE)

\* p_st_empty()
Empty ==
  /\ In("EMPTY")
  /\ Execute([tmp_cmd EXCEPT !.type = "EMPTY"], "START", TRUE)

\* p_st_skip()
Skip ==
  /\ In("SKIP")
  /\ IF Lex.type = "PROTOCOL_PARSE_ERROR"
     THEN state' = "PROTOCOL_PARSE_ERROR" /\ UNCHANGED request_for_lex
     ELSE /\ request_for_lex' = TRUE
          /\ state' = IF Lex.type = "EOLN" THEN "START" ELSE state
  /\ UNCHANGED <<cur_lex, tmp_cmd, cur_lex_data_used, allocated, taken, received, executed>>

\* p_st_protocol_parse_error()
ProtocolParseError ==
  /\ In("PROTOCOL_PARSE_ERROR")
  /\ Execute([tmp_cmd EXCEPT !.type = "PROTOCOL_PARSE_ERROR"], state, FALSE)

\* An iteration of the loop of get_cmd()
GetCmd ==
  \/ GetLex \/ GetNothing
  \/ Start \/ ExpectCmdName \/ ProcessArg1 \/ ProcessArg2
  \/ ExpectEoln \/ ExpectOptionalStr \/ ExpectTwoNumbers \/ ExpectOneNumber
  \/ Wrong \/ Empty \/ Skip \/ ProtocolParseError

Next == GetCmd \/ \E lex \in Lexeme : Receive(lex)

\* The loops of get_cmd() and process_readed_data() are not left before
\* there is nothing to do.
Spec == Init /\ [][Next]_vars /\ WF_vars(GetCmd)

-----------------------------------------------------------------------------
(* What a stream of lexemes means, line by line and without a state *)

\* The arguments a command may have.
Shapes(name) ==
  CASE name \in NoArgument  -> {<<>>}
    [] name \in OptionalStr -> {<<>>, <<"WORD">>}
    [] name \in OneNumber   -> {<<"NUMBER">>}
    [] name \in TwoNumbers  -> {<<"NUMBER", "NUMBER">>}

Named(line) == line[1].type = "WORD" /\ line[1].value \in Name

Arguments(line) == [i \in 1 .. Len(line) - 1 |-> line[i + 1].type]

\* The line is a command, or may still become one.
Complete(line) == Named(line) /\ Arguments(line) \in Shapes(line[1].value)
Viable(line) ==
  line = <<>> \/ /\ Named(line)
                 /\ \E shape \in Shapes(line[1].value) : IsPrefix(Arguments(line), shape)

\* The place where the line of place p begins.
LineStart(lexs, p) ==
  CHOOSE s \in 1 .. p : /\ \A q \in s .. p - 1 : lexs[q].type # "EOLN"
                        /\ s > 1 => lexs[s - 1].type = "EOLN"

Told(type, args) == <<[type |-> type, args |-> args]>>

\* What the lexeme at place p makes get_cmd() return.
CommandAt(lexs, p) ==
  LET s    == LineStart(lexs, p)
      line == SubSeq(lexs, s, p - 1)
      type == lexs[p].type
  IN  CASE type = "PROTOCOL_PARSE_ERROR" -> Told(type, <<>>)
        [] type = "EOLN" /\ line = <<>> -> Told("EMPTY", <<>>)
        [] type = "EOLN" /\ line # <<>> /\ Complete(line) ->
             Told(line[1].value,
                  IF line[1].value \in OptionalStr
                  THEN <<IF Len(line) > 1 THEN s + 1 ELSE 0>>
                  ELSE [i \in 1 .. Len(line) - 1 |-> line[i + 1].value])
        [] type = "EOLN" /\ line # <<>> /\ ~Complete(line) /\ Viable(line) ->
             Told("WRONG", <<>>)
        [] type \notin {"EOLN", "PROTOCOL_PARSE_ERROR"}
             /\ Viable(line) /\ ~Viable(Append(line, lexs[p])) -> Told("WRONG", <<>>)
        [] OTHER -> <<>>

CommandsOf(lexs) == FlattenSeq([p \in DOMAIN lexs |-> CommandAt(lexs, p)])

\* A command as execute_cmd() reads it: of value and value2, only what its
\* type has.
AsRead(cmd) ==
  [type |-> cmd.type,
   args |-> CASE cmd.type \in OptionalStr -> <<cmd.value.str>>
              [] cmd.type \in OneNumber   -> <<cmd.value.number>>
              [] cmd.type \in TwoNumbers  -> <<cmd.value.number, cmd.value2.number>>
              [] OTHER                    -> <<>>]

-----------------------------------------------------------------------------
(* Properties *)

Value == [str : 0 .. MaxReceived, number : Number \cup {0}]

\* Every field keeps its type.
TypeOK ==
  /\ state \in {"START", "EXPECT_CMD_NAME", "PROCESS_ARG1", "PROCESS_ARG2", "EXPECT_EOLN",
               "EXPECT_OPTIONAL_STR", "EXPECT_TWO_NUMBERS", "EXPECT_ONE_NUMBER",
               "WRONG", "EMPTY", "SKIP", "PROTOCOL_PARSE_ERROR"}
  /\ received \in Seq(Lexeme) /\ taken \in 0 .. Len(received)
  /\ cur_lex \in {0, taken}
  /\ tmp_cmd \in [type : Name \cup {"WRONG", "EMPTY", "PROTOCOL_PARSE_ERROR"},
                  value : Value, value2 : Value]
  /\ request_for_lex \in BOOLEAN /\ cur_lex_data_used \in BOOLEAN
  /\ allocated \subseteq 1 .. taken

\* However the lexemes come, each line is answered with one command, made of
\* that line alone: a wrong line is told of once, at the first lexeme that
\* is wrong, and no argument is left over from an earlier line.
LinesToCommands ==
  Idle => [i \in DOMAIN executed |-> AsRead(executed[i])] = CommandsOf(received)

\* A string has one owner, the current lexeme or the command being made, and
\* is not freed while it has: neither is used after free(), nor freed twice.
ArgumentsAlive ==
  /\ FreedWithLex \subseteq allocated
  /\ state \in {"PROCESS_ARG2", "EXPECT_EOLN"} /\ tmp_cmd.type \in OptionalStr =>
       tmp_cmd.value.str \in allocated \ FreedWithLex

\* get_cmd() always comes to the end of the lexemes: none of its states, the
\* "not possible" cases included, goes round for ever.
ParserComesToRest == []<>Idle

=============================================================================
