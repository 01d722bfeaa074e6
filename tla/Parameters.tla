----------------------------- MODULE Parameters -----------------------------
(***************************************************************************)
(* The command line of the server (parameters.c), read before anything is  *)
(* opened: one action is one iteration of the loop over argv.  An argument *)
(* is told from the others by the option it names, by whether it is "0",   *)
(* and by what atoi() makes of it.                                         *)
(***************************************************************************)
EXTENDS Integers, SequencesExt

CONSTANTS
  Argument,    \* the arguments there may be
  Atoi,        \* what atoi() makes of each
  MaxArguments \* bound of this model on the length of the command line

Option == {"--port", "--max", "--time"}  \* and "-p", "-m", "-t"

\* A string that is NULL, and the default of server_ip after the loop.
NoAddress == "null"
Localhost == "127.0.0.1"

ASSUME ArgumentAssumption ==
  /\ Atoi \in [Argument -> Int] /\ NoAddress \notin Argument
  /\ \A a \in Argument \cap Option : Atoi[a] = 0
  /\ MaxArguments \in Nat

VARIABLES
  argv,    \* the arguments that are left
  state,   \* the local variable of process_cmd_line_parameters()
  config,  \* the fields of server_info it sets
  given    \* history: the whole command line, until it is processed

parameters == <<argv, state, config, given>>

\* DEFAULT_LISTENING_PORT, and the defaults of process_cmd_line_parameters():
\* a max_clients of -1 is "without limitation".
Defaults ==
  [listening_port |-> 37187, max_clients |-> -1,
   time_between_time_events |-> 10, server_ip |-> NoAddress]

InitParameters ==
  /\ argv \in UNION {[1 .. n -> Argument] : n \in 0 .. MaxArguments}
  /\ given = argv
  /\ state = "START"
  /\ config = Defaults

Parsing == given # <<>> \/ state # "END"

\* The states PARAM_P_ST_PORT, _MAX and _TIME, and the field each sets.
Field == [port |-> "listening_port", max |-> "max_clients",
          time |-> "time_between_time_events"]
StateOf == [o \in Option |-> CASE o = "--port" -> "port"
                               [] o = "--max"  -> "max"
                               [] o = "--time" -> "time"]

\* PARAM_P_ST_START: an option, or the first look at the address.
StartArgument ==
  /\ argv # <<>> /\ state = "START"
  /\ IF Head(argv) \in Option
     THEN state' = StateOf[Head(argv)] /\ argv' = Tail(argv)
     ELSE state' = "IP" /\ UNCHANGED argv
  /\ UNCHANGED <<config, given>>

\* PARAM_P_ST_IP: the address is the last argument, this state is not left
\* but for the error.
IpArgument ==
  /\ argv # <<>> /\ state = "IP"
  /\ IF config.server_ip = NoAddress
     THEN /\ config' = [config EXCEPT !.server_ip = Head(argv)]
          /\ argv' = Tail(argv) /\ UNCHANGED state
     ELSE state' = "ERROR" /\ UNCHANGED <<argv, config>>
  /\ UNCHANGED given

\* A value atoi() makes 0 of is an error, unless it is "0" seconds.
Wrong(st, arg) == Atoi[arg] = 0 /\ ~(st = "time" /\ arg = "0")

\* Mutant of ValueArgument: a wrong value is passed by.
MutErrorAdvances ==
  /\ argv # <<>> /\ state \in DOMAIN Field
  /\ config' = [config EXCEPT ![Field[state]] = Atoi[Head(argv)]]
  /\ state' = IF Wrong(state, Head(argv)) THEN "ERROR" ELSE "START"
  /\ argv' = Tail(argv)
  /\ UNCHANGED given

\* PARAM_P_ST_PORT, PARAM_P_ST_MAX and PARAM_P_ST_TIME
ValueArgument ==
  /\ argv # <<>> /\ state \in DOMAIN Field
  /\ config' = [config EXCEPT ![Field[state]] = Atoi[Head(argv)]]
  /\ IF Wrong(state, Head(argv))
     THEN state' = "ERROR" /\ UNCHANGED argv
     ELSE state' = "START" /\ argv' = Tail(argv)
  /\ UNCHANGED given

\* The loop is over: the address has its default.
EndOfArguments ==
  /\ argv = <<>> /\ Parsing
  /\ config' = IF config.server_ip = NoAddress
               THEN [config EXCEPT !.server_ip = Localhost] ELSE config
  /\ state' = "END" /\ given' = <<>>
  /\ UNCHANGED argv

\* PARAM_P_ST_ERROR: exit(ES_WRONG_PARAM)
ArgumentError == argv # <<>> /\ state = "ERROR"

ProcessArgument ==
  StartArgument \/ IpArgument \/ ValueArgument \/ EndOfArguments

-----------------------------------------------------------------------------
(* What a command line means, without a state: pairs of an option and its  *)
(* value, then at most one more argument, which is the address unless it   *)
(* is an option whose value is missing.                                    *)

PairsOf(line) == Len(line) \div 2

IsPair(line, i) ==
  line[2 * i - 1] \in Option /\ ~Wrong(StateOf[line[2 * i - 1]], line[2 * i])

IsCommandLine(line) == \A i \in 1 .. PairsOf(line) : IsPair(line, i)

\* The last of the values given to a field, or its default.
ValueOf(line, option) ==
  LET places == {i \in 1 .. PairsOf(line) : line[2 * i - 1] = option}
  IN  IF places = {} THEN Defaults[Field[StateOf[option]]]
      ELSE Atoi[line[2 * (CHOOSE i \in places : \A j \in places : j <= i)]]

AddressOf(line) ==
  IF Len(line) % 2 = 1 /\ Last(line) \notin Option THEN Last(line) ELSE NoAddress

\* The command line is accepted exactly when it is of that form, an error in
\* it is never passed by, and each field has the value that was given last.
ParametersAsGiven ==
  /\ ArgumentError => ~IsCommandLine(given)
  /\ argv = <<>> /\ Parsing =>
       /\ IsCommandLine(given)
       /\ config.server_ip = AddressOf(given)
       /\ \A option \in Option :
            config[Field[StateOf[option]]] = ValueOf(given, option)

=============================================================================
