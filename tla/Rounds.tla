------------------------------- MODULE Rounds -------------------------------
(***************************************************************************)
(* The lobby and the life cycle of a game round (main.c, with the part of  *)
(* game.c that decides when a month and a round end).                      *)
(*                                                                         *)
(* Each action is one handler of the single-threaded main loop, run to its *)
(* end.  Which handler runs next is left open: any client may connect,     *)
(* send a command or leave, and the countdown may expire, in any order the *)
(* loop of main() can produce.                                             *)
(*                                                                         *)
(* A company's books are abstracted to one bit, broke[c], "money < 0".     *)
(* Which players are broke at the end of a month is left open: what a      *)
(* month does to the money is computed by the auctions and the expenses.   *)
(***************************************************************************)
EXTENDS Integers, FiniteSets, SequencesExt

CONSTANTS
  Client,       \* identities of connections; a client that left may be back
  MaxClients,   \* sinfo->max_clients: -1 is "without limitation"
  TimeBetween,  \* sinfo->time_between_time_events
  WarningsBeforeRound,  \* WARNINGS_BEFORE_ROUND
  MaxPlayersCount       \* the bound of this model on sinfo->players_count

ASSUME ClientAssumption == IsFiniteSet(Client)
ASSUME ParameterAssumption ==
  /\ MaxClients \in Int \ {0}
  /\ TimeBetween \in Nat
  /\ WarningsBeforeRound \in Nat \ {0}
  /\ MaxPlayersCount \in Nat

VARIABLES
  clients,             \* the list from first_client to last_client
  in_round,            \* client_info.in_round
  want_to_next_round,  \* client_info.want_to_next_round
  step_completed,      \* client_info.step_completed
  broke,               \* client_info.money < 0
  server               \* the scalar fields of server_info, and the output

flags == <<in_round, want_to_next_round, step_completed, broke>>
vars == <<clients, flags, server>>

(***************************************************************************)
(* server.news and server.winners are what the last handler appended to    *)
(* the write buffers of all clients: kinds of "[Rounds]" and "[Month       *)
(* completed]" messages, and the clients named by "[Winner(s)]".           *)
(* server.remain is the last "Time remaining to the next game round".      *)
(***************************************************************************)
News == {"countdown", "cancelled", "refused", "ready", "month", "full"}

NoOne == [c \in Client |-> FALSE]

Players == {c \in Client : in_round[c]}
Requesters == {c \in Client : want_to_next_round[c]}

-----------------------------------------------------------------------------
(* Functions of main.c on server_info, each from the record before the     *)
(* call to the record after it.                                            *)

\* The record a handler starts from: nothing said yet.
Fresh(s) == [s EXCEPT !.news = {}, !.winners = {}]

Say(s, kind) == [s EXCEPT !.news = @ \cup {kind}]

\* Mutant of WarnAll: the counter is decremented before it is announced.
MutWarnAfterDecrement(s) ==
  [Say(s, "countdown") EXCEPT
     !.remain = (s.backward_warnings_counter - 1) * TimeBetween,
     !.backward_warnings_counter = @ - 1]

WarnAll(s) ==
  [Say(s, "countdown") EXCEPT
     !.remain = s.backward_warnings_counter * TimeBetween,
     !.backward_warnings_counter = @ - 1]

StopCountdown(s) ==
  [s EXCEPT !.time_to_next_event = -1, !.backward_warnings_counter = 0]

\* Mutant of TryToDeferredStartRound: a running countdown is started anew.
MutRestartCountdown(s) ==
  IF ~s.in_round /\ s.clients_count > 1
  THEN WarnAll([s EXCEPT !.time_to_next_event = TimeBetween,
                         !.backward_warnings_counter = WarningsBeforeRound])
  ELSE s

TryToDeferredStartRound(s) ==
  IF ~s.in_round /\ s.time_to_next_event < 0 /\ s.clients_count > 1
  THEN WarnAll([s EXCEPT !.time_to_next_event = TimeBetween,
                         !.backward_warnings_counter = WarningsBeforeRound])
  ELSE s

\* Mutant of TryToStopDeferredStartRound: one client is taken for enough.
MutStopForNobody(s) ==
  IF s.clients_count < 1 THEN Say(StopCountdown(s), "cancelled") ELSE s

TryToStopDeferredStartRound(s) ==
  IF s.clients_count <= 1 THEN Say(StopCountdown(s), "cancelled") ELSE s

\* Mutant of ProcessEndRound: players_count is left as it was.
MutEndKeepsCount(s) == [StopCountdown(s) EXCEPT !.in_round = FALSE]

\* process_end_round() without its loop over the clients: the actions that
\* call it also set in_round' to NoOne.
ProcessEndRound(s) ==
  [StopCountdown(s) EXCEPT !.players_count = 0, !.in_round = FALSE]

EndRoundAndWait(s) == TryToDeferredStartRound(ProcessEndRound(s))

-----------------------------------------------------------------------------
(* init_server_info() *)
Init ==
  /\ clients = <<>>
  /\ in_round = NoOne /\ want_to_next_round = NoOne
  /\ step_completed = NoOne /\ broke = NoOne
  /\ server = [in_round |-> FALSE, players_count |-> 0, clients_count |-> 0,
               time_to_next_event |-> -1, backward_warnings_counter |-> 0,
               remain |-> 0, news |-> {}, winners |-> {}]

-----------------------------------------------------------------------------
(* Connections *)

(***************************************************************************)
(* process_new_client(): the new client_info has all its flags clear, as   *)
(* the model keeps them for a client that is not registered.               *)
(***************************************************************************)
Connect(c) ==
  /\ c \notin ToSet(clients)
  /\ server.clients_count # MaxClients
  /\ clients' = Append(clients, c)
  /\ server' = TryToDeferredStartRound(
                 [Fresh(server) EXCEPT !.clients_count = @ + 1])
  /\ UNCHANGED flags

\* process_new_client() when the server is full: the connection is told so
\* and closed; try_to_unregister_client() does not find it in the list.
RejectConnection ==
  /\ server.clients_count = MaxClients
  /\ server' = Say(Fresh(server), "full")
  /\ UNCHANGED <<clients, flags>>

\* Mutant of LosePlayer: a round goes on with one player counted.
MutLoseToLast(s) ==
  LET t == [s EXCEPT !.players_count = @ - 1]
  IN  IF t.players_count < 1 THEN EndRoundAndWait(t) ELSE t

\* What the departure of a player does to the round.
LosePlayer(s) ==
  LET t == [s EXCEPT !.players_count = @ - 1]
  IN  IF t.players_count <= 1 THEN EndRoundAndWait(t) ELSE t

\* Mutant of Unregister: clients_count is not decremented.
MutUnregisterUncounted(s, wasPlayer) ==
  LET after == IF wasPlayer THEN LosePlayer(s) ELSE s
  IN  IF after.in_round THEN after ELSE TryToStopDeferredStartRound(after)

\* try_to_unregister_client(), once the client is out of the list.
Unregister(s, wasPlayer) ==
  LET gone  == [s EXCEPT !.clients_count = @ - 1]
      after == IF wasPlayer THEN LosePlayer(gone) ELSE gone
  IN  IF after.in_round THEN after ELSE TryToStopDeferredStartRound(after)

\* try_to_disconnect(), after EOF, a read error or a protocol parse error.
\* The client_info is freed: its flags go back to clear.
Disconnect(c) ==
  /\ \E i \in DOMAIN clients : clients[i] = c /\ clients' = RemoveAt(clients, i)
  /\ server' = Unregister(Fresh(server), in_round[c])
  /\ in_round' = IF in_round[c] /\ ~server'.in_round
                 THEN NoOne ELSE [in_round EXCEPT ![c] = FALSE]
  /\ want_to_next_round' = [want_to_next_round EXCEPT ![c] = FALSE]
  /\ step_completed' = [step_completed EXCEPT ![c] = FALSE]
  /\ broke' = [broke EXCEPT ![c] = FALSE]

-----------------------------------------------------------------------------
(* Commands *)

(***************************************************************************)
(* do_cmd_join(), as allow_command() lets it through: anyone who is not a  *)
(* player may ask, during a round too.  A repeated request only gets an    *)
(* answer, and so does "join" from a player.                               *)
(***************************************************************************)
Join(c) ==
  /\ c \in ToSet(clients)
  /\ ~in_round[c] /\ ~want_to_next_round[c]
  /\ server.players_count < MaxPlayersCount
  /\ want_to_next_round' = [want_to_next_round EXCEPT ![c] = TRUE]
  /\ server' = [Fresh(server) EXCEPT !.players_count = @ + 1]
  /\ UNCHANGED <<clients, in_round, step_completed, broke>>

\* Mutant of AllCompleted: a client outside the round is waited for.
MutAllClientsCompleted(completed) == \A c \in Client : completed[c]

\* The test do_cmd_turn() makes over the whole list, once c is marked.
AllCompleted(completed) == \A c \in Client : in_round[c] => completed[c]

\* do_cmd_turn() while the month still waits for another player.
TurnAndWait(c) ==
  LET completed == [step_completed EXCEPT ![c] = TRUE]
  IN  /\ in_round[c] /\ ~step_completed[c]
      /\ ~AllCompleted(completed)
      /\ step_completed' = completed
      /\ server' = Fresh(server)
      /\ UNCHANGED <<clients, in_round, want_to_next_round, broke>>

\* write_winner(): the first client of the list with money >= 0.
FirstSolvent(isBroke) ==
  {clients[i] : i \in {j \in DOMAIN clients :
                         /\ ~isBroke[clients[j]]
                         /\ \A k \in 1 .. j - 1 : isBroke[clients[k]]}}

\* try_to_process_win(): the names of the winners, when there is an end.
Winners(s, isBroke) ==
  IF s.players_count = 1 THEN FirstSolvent(isBroke) ELSE Players

TryToProcessWin(s, isBroke) ==
  IF s.players_count > 1 THEN s
  ELSE EndRoundAndWait([s EXCEPT !.winners = Winners(s, isBroke)])

(***************************************************************************)
(* do_cmd_turn() by the last player of the month, game_process_next_step() *)
(* included: bankrupt is the set of the players this month leaves with     *)
(* money < 0.  A bankrupt player stays in the round, and is counted out    *)
(* again at the end of each month that finds it still broke.               *)
(***************************************************************************)
TurnAndStep(c, bankrupt) ==
  /\ in_round[c] /\ ~step_completed[c]
  /\ AllCompleted([step_completed EXCEPT ![c] = TRUE])
  /\ broke' = [d \in Client |-> IF in_round[d] THEN d \in bankrupt
                                               ELSE broke[d]]
  /\ step_completed' = [d \in Client |-> ~in_round[d] /\ step_completed[d]]
  /\ server' = TryToProcessWin(
                 [Say(Fresh(server), "month") EXCEPT
                    !.players_count = @ - Cardinality(bankrupt)], broke')
  /\ in_round' = IF server'.in_round THEN in_round ELSE NoOne
  /\ UNCHANGED <<clients, want_to_next_round>>

-----------------------------------------------------------------------------
(* The clock *)

\* main(): a select() that returned for a file descriptor takes the seconds
\* it lasted off the time to the next event, down to zero.
Elapse ==
  /\ server.time_to_next_event > 0
  /\ \E t \in 0 .. server.time_to_next_event - 1 :
       server' = [Fresh(server) EXCEPT !.time_to_next_event = t]
  /\ UNCHANGED <<clients, flags>>

\* select() can time out only when it was given a timeout.
CountdownRuns == server.time_to_next_event >= 0

\* process_time_events() while there are warnings left.
Warn ==
  /\ CountdownRuns /\ server.backward_warnings_counter > 0
  /\ server' = WarnAll(
                 [Fresh(server) EXCEPT !.time_to_next_event = TimeBetween])
  /\ UNCHANGED <<clients, flags>>

\* Mutant of RefuseRound: the requests are forgotten with the refusal.
MutRefuseForgets ==
  /\ CountdownRuns /\ server.backward_warnings_counter = 0
  /\ server.players_count <= 1
  /\ server' = TryToDeferredStartRound(
                 Say(StopCountdown(Fresh(server)), "refused"))
  /\ want_to_next_round' = NoOne
  /\ UNCHANGED <<clients, in_round, step_completed, broke>>

\* try_to_start_new_round() with too few requests counted.
RefuseRound ==
  /\ CountdownRuns /\ server.backward_warnings_counter = 0
  /\ server.players_count <= 1
  /\ server' = TryToDeferredStartRound(
                 Say(StopCountdown(Fresh(server)), "refused"))
  /\ UNCHANGED <<clients, flags>>

\* Mutant of NewGameData: the flag of the last round stays.
MutOldGameData(flag) == flag

\* new_client_game_data() for every client that asked: step_completed is
\* cleared, and the money is back to START_MONEY.
NewGameData(flag) == [c \in Client |-> flag[c] /\ ~want_to_next_round[c]]

\* Mutant of BeginRound: sinfo->in_round is not set.
MutBeginNothing(s) == Say(StopCountdown(Fresh(s)), "ready")

BeginRound(s) == [Say(StopCountdown(Fresh(s)), "ready") EXCEPT !.in_round = TRUE]

\* try_to_start_new_round(): every client that asked becomes a player.
StartRound ==
  /\ CountdownRuns /\ server.backward_warnings_counter = 0
  /\ server.players_count > 1
  /\ in_round' = [c \in Client |-> in_round[c] \/ want_to_next_round[c]]
  /\ step_completed' = NewGameData(step_completed)
  /\ broke' = NewGameData(broke)
  /\ want_to_next_round' = NoOne
  /\ server' = BeginRound(server)
  /\ UNCHANGED clients

-----------------------------------------------------------------------------
Next ==
  \/ \E c \in Client : Connect(c) \/ Disconnect(c) \/ Join(c) \/ TurnAndWait(c)
  \/ \E c \in Client : \E bankrupt \in SUBSET Players : TurnAndStep(c, bankrupt)
  \/ RejectConnection
  \/ Elapse
  \/ Warn
  \/ RefuseRound
  \/ StartRound

Spec == Init /\ [][Next]_vars

-----------------------------------------------------------------------------
(* What a step leaves true *)

\* Every field keeps its type.  players_count may be below zero inside a
\* step (try_to_process_win() then ends the round), never between two.
TypeOK ==
  /\ clients \in Seq(Client)
  /\ in_round \in [Client -> BOOLEAN]
  /\ want_to_next_round \in [Client -> BOOLEAN]
  /\ step_completed \in [Client -> BOOLEAN]
  /\ broke \in [Client -> BOOLEAN]
  /\ server \in [in_round : BOOLEAN, players_count : Nat, clients_count : Int,
                 time_to_next_event : Nat \cup {-1},
                 backward_warnings_counter : Nat, remain : Nat,
                 news : SUBSET News, winners : SUBSET Client]

\* "sinfo->in_round is 1 if client->in_round is 1": no client is left a
\* player by a round that ended, whichever of its two ends it met.
PlayersOnlyInRound == \A c \in Client : in_round[c] => server.in_round

\* The countdown runs exactly when it can lead to a round: between rounds,
\* while two clients are connected.  Nothing else arms or stops select()'s
\* timeout, so a lobby of two can never be left without a next round.
CountdownIffPossible ==
  CountdownRuns <=> ~server.in_round /\ server.clients_count > 1

\* A round that goes on has more than one player counted: every departure
\* and every month's end re-checks the count.
RoundKeepsPlayers == server.in_round => server.players_count > 1

\* The list, its counter and the flags agree: a connection is in the list
\* once, clients_count is its length and never passes max_clients, and no
\* flag outlives the connection it belongs to.
RegistryExact ==
  /\ server.clients_count = Len(clients)
  /\ IsInjective(clients)
  /\ MaxClients > 0 => server.clients_count <= MaxClients
  /\ \A c \in Client :
       in_round[c] \/ want_to_next_round[c] \/ step_completed[c] \/ broke[c]
         => c \in ToSet(clients)

\* Seconds until try_to_start_new_round(), if no client delays the loop.
TimeLeft ==
  server.time_to_next_event + server.backward_warnings_counter * TimeBetween

\* The last "Time remaining to the next game round" is off by no more than
\* the interval between two announcements.
AnnouncedTimeHonest ==
  CountdownRuns => TimeLeft \in server.remain - TimeBetween .. server.remain

\* When a round or a month begins, every player still has its turn to make,
\* whatever an earlier round, perhaps cut short, left in step_completed.
MonthStartsOpen ==
  server.news \cap {"ready", "month"} # {} =>
    \A c \in Client : in_round[c] => ~step_completed[c]

-----------------------------------------------------------------------------
(* What a step may never do *)

\* A stored request is taken back only by making its client a player, or by
\* the client's leaving: neither a refused start, nor a cancelled countdown,
\* nor the end of the round it was made in loses it.
RequestKept ==
  [][\A c \in Client : want_to_next_round[c] /\ ~want_to_next_round'[c]
       => in_round'[c] \/ c \notin ToSet(clients')]_vars

MonthAwaited == \E c \in Client : in_round[c] /\ ~step_completed[c]

\* As long as nobody leaves, a month that still waits for a turn never gets
\* stuck with all the turns made: the last one ends it.
TurnNeverStalls ==
  [][/\ server.in_round /\ server'.in_round /\ MonthAwaited
     /\ ToSet(clients) \subseteq ToSet(clients')
     => MonthAwaited']_vars

\* A countdown that has begun only gets shorter: no newcomer, departure or
\* request puts the round off (a refused start begins another countdown).
CountdownNeverGrows ==
  [][CountdownRuns /\ CountdownRuns' /\ "refused" \notin server'.news
       => TimeLeft' <= TimeLeft]_vars

-----------------------------------------------------------------------------
(* What the messages and the comments of the code say, and the code does   *)
(* not do: each is checked by a run of its own.                            *)

\* "Round can not be started because count of clients, which send request
\* for participating in game round, less then two" (main.c:254): nobody is
\* refused a round that two have asked for, and no round begins without two.
RefusedIffTooFew ==
  /\ "refused" \in server.news => Cardinality(Requesters) < 2
  /\ "ready" \in server.news => Cardinality(Players) >= 2

\* "This month already completed, wait for other players." (game.c:777):
\* whoever is told so waits for somebody.
MonthAwaitsSomeone ==
  server.in_round /\ Players # {} => MonthAwaited

=============================================================================
