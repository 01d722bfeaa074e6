----------------------------- MODULE Countdown -----------------------------
(***************************************************************************)
(* The clock of the main loop (main.c): how select(), its timeout and      *)
(* time(), which tells whole seconds, measure the time to the next event.  *)
(* Rounds leaves open when the countdown expires; here time passes by      *)
(* ticks, in select() and outside it, and the handlers of Rounds are       *)
(* called where main() calls them.                                         *)
(***************************************************************************)
EXTENDS Rounds

CONSTANTS
  TicksPerSecond,
  ShortTicks       \* the 0.1 seconds of a select() with nothing left to wait

ASSUME TickAssumption ==
  /\ TicksPerSecond \in Nat \ {0}
  /\ ShortTicks \in 1 .. TicksPerSecond

VARIABLES
  pc,          \* "loop", "select", or "handle" what it returned for
  phase,       \* the ticks that time() does not tell
  left,        \* the ticks select() may still take
  delta_time,  \* what time() has advanced since select() was called
  since        \* history: the ticks since the interval began, up to its length

clock == <<pc, phase, left, delta_time, since>>
countdownVars == <<vars, clock>>

\* select() with a NULL timeout
NoTimeout == -1

Interval == TimeBetween * TicksPerSecond

CountdownInit ==
  /\ Init
  /\ pc = "loop" /\ phase \in 0 .. TicksPerSecond - 1
  /\ left = NoTimeout /\ delta_time = 0 /\ since = 0

\* Another tick of the interval that runs.
Later == IF CountdownRuns /\ since < Interval THEN since + 1 ELSE since

(***************************************************************************)
(* A tick goes by.  The process may be late to return from select(), by    *)
(* not more in this model than it takes time() to pass the event.          *)
(***************************************************************************)
Tick ==
  /\ left = 0 => delta_time <= server.time_to_next_event
  /\ phase' = (phase + 1) % TicksPerSecond
  /\ left' = IF left > 0 THEN left - 1 ELSE left
  /\ delta_time' = IF left # NoTimeout /\ phase' = 0 THEN delta_time + 1
                                                     ELSE delta_time
  /\ since' = Later
  /\ UNCHANGED <<vars, pc>>

\* Mutant of Timeout: select() waits for ever when there is nothing to wait.
MutWaitForEver(seconds) ==
  IF seconds <= 0 THEN NoTimeout ELSE seconds * TicksPerSecond

Timeout(seconds) ==
  CASE seconds < 0 -> NoTimeout
    [] seconds = 0 -> ShortTicks
    [] OTHER       -> seconds * TicksPerSecond

\* main(), up to select(): delta_time is the time of now.
CallSelect ==
  /\ pc = "loop"
  /\ pc' = "select"
  /\ left' = Timeout(server.time_to_next_event)
  /\ delta_time' = 0
  /\ UNCHANGED <<vars, phase, since>>

\* Mutant of Remaining: the time that went by is not cut at the event.
MutOverrun == server.time_to_next_event - delta_time

\* Mutant of Remaining: a second begun is a second.
MutRoundUp == IF delta_time < server.time_to_next_event
              THEN server.time_to_next_event - delta_time - 1 ELSE 0

Remaining == IF delta_time < server.time_to_next_event
             THEN server.time_to_next_event - delta_time ELSE 0

\* select() returns for a descriptor, perhaps at the last moment.
SelectReturns ==
  /\ pc = "select"
  /\ server' = IF server.time_to_next_event > 0 /\ delta_time > 0
               THEN [Fresh(server) EXCEPT !.time_to_next_event = Remaining]
               ELSE server
  /\ pc' = "handle" /\ left' = NoTimeout /\ delta_time' = 0
  /\ UNCHANGED <<clients, flags, phase, since>>

\* An interval begins with each event, and with a countdown.
BeginInterval == since' = IF ~CountdownRuns' \/ ~CountdownRuns THEN 0 ELSE since

\* process_time_events(); there is nothing to read.
SelectTimesOut ==
  /\ pc = "select" /\ left = 0
  /\ Warn \/ RefuseRound \/ StartRound
  /\ pc' = "loop" /\ left' = NoTimeout /\ delta_time' = 0 /\ since' = 0
  /\ UNCHANGED phase

\* process_new_client(), or read_ready_data() at one client or one command
Handle ==
  /\ pc = "handle"
  /\ \/ \E c \in Client : Connect(c) \/ Disconnect(c) \/ Join(c) \/ TurnAndWait(c)
     \/ \E c \in Client : \E bankrupt \in SUBSET Players : TurnAndStep(c, bankrupt)
     \/ RejectConnection
  /\ BeginInterval
  /\ UNCHANGED <<pc, phase, left, delta_time>>

EndOfIteration ==
  /\ pc = "handle"
  /\ pc' = "loop"
  /\ UNCHANGED <<vars, phase, left, delta_time, since>>

CountdownNext ==
  Tick \/ CallSelect \/ SelectReturns \/ SelectTimesOut \/ Handle \/ EndOfIteration

(***************************************************************************)
(* Time passes, and the process goes on. That a handler is called, or that *)
(* select() returns for a descriptor, is up to the clients.                *)
(***************************************************************************)
CountdownSpec ==
  /\ CountdownInit /\ [][CountdownNext]_countdownVars
  /\ WF_countdownVars(Tick)
  /\ WF_countdownVars(CallSelect) /\ WF_countdownVars(SelectTimesOut)
  /\ WF_countdownVars(EndOfIteration)

-----------------------------------------------------------------------------
\* The clock keeps its type; a timeout is counted only inside select().
ClockTypeOK ==
  /\ pc \in {"loop", "select", "handle"}
  /\ phase \in 0 .. TicksPerSecond - 1
  /\ left \in Nat \cup {NoTimeout} /\ delta_time \in Nat
  /\ since \in 0 .. Interval
  /\ pc # "select" => left = NoTimeout /\ delta_time = 0

\* No announced interval is cut short: though select() is called again and
\* again and time() tells whole seconds only, an event comes at most a second,
\* less a tick, before the interval since the last one is over.
NeverEarly ==
  pc = "select" /\ left = 0 => since >= Interval - (TicksPerSecond - 1)

\* Every step of the loop is a step of Rounds, or none of its business.
ImplementsRounds == Spec

\* Two counted requests among two clients become a round once the clients
\* let select() wait: a countdown runs, and gets through its warnings.
RequestsBecomeRound ==
  <>[](pc # "handle") =>
    []<>(\/ server.in_round
         \/ server.players_count <= 1 \/ server.clients_count <= 1)

=============================================================================
