---------------------------- MODULE RoundsProofs ----------------------------
(***************************************************************************)
(* Proofs about Rounds, for every set of clients, limit and interval, and  *)
(* about Countdown, for every interval and clock besides.                  *)
(*                                                                         *)
(* The invariants of the round and of the countdown are inductive only     *)
(* together (IInv): a departure leaves players_count non-negative because  *)
(* the departing player was in a round, and the round had two players      *)
(* counted.  They are proved first for the functions on the server record, *)
(* then for the actions that apply them.                                   *)
(*                                                                         *)
(* Of Countdown: what the loop does is a behaviour of Rounds, and no event *)
(* is early.  NeverEarly rests on two bounds.  Between two calls of        *)
(* select() what remains of the event, in whole seconds, and the ticks     *)
(* since the interval began cover the interval but for the ticks time()    *)
(* does not tell (RemainderCovers); inside select() the timeout does       *)
(* (TimeoutCovers).                                                        *)
(***************************************************************************)
EXTENDS Countdown, ListProofs

\* The server record as it may be inside a handler, where players_count may
\* be below zero.
Record ==
  [in_round : BOOLEAN, players_count : Int, clients_count : Int,
   time_to_next_event : Nat \cup {-1}, backward_warnings_counter : Nat,
   remain : Nat, news : SUBSET News, winners : SUBSET Client]

\* The last announcement and the countdown agree exactly.
Announced(s) ==
  s.time_to_next_event >= 0 =>
    /\ s.remain = s.backward_warnings_counter * TimeBetween + TimeBetween
    /\ s.time_to_next_event <= TimeBetween

\* What a handler leaves behind.
Settled(s) ==
  /\ s \in Record
  /\ s.players_count >= 0
  /\ s.in_round => s.players_count > 1
  /\ s.time_to_next_event >= 0 <=> ~s.in_round /\ s.clients_count > 1
  /\ Announced(s)

FlagsOK ==
  /\ clients \in Seq(Client)
  /\ in_round \in [Client -> BOOLEAN]
  /\ want_to_next_round \in [Client -> BOOLEAN]
  /\ step_completed \in [Client -> BOOLEAN]
  /\ broke \in [Client -> BOOLEAN]

\* The inductive invariant.
IInv == FlagsOK /\ PlayersOnlyInRound /\ Settled(server)

-----------------------------------------------------------------------------
(* The functions on the server record *)

LEMMA FreshSettled ==
  ASSUME NEW s, Settled(s)
  PROVE  /\ Settled(Fresh(s))
         /\ Fresh(s).in_round = s.in_round
         /\ Fresh(s).players_count = s.players_count
         /\ Fresh(s).clients_count = s.clients_count
         /\ Fresh(s).time_to_next_event = s.time_to_next_event
         /\ Fresh(s).backward_warnings_counter = s.backward_warnings_counter
         /\ Fresh(s).remain = s.remain
         /\ Fresh(s).news = {}
BY DEF Settled, Record, Announced, Fresh

LEMMA SayFields ==
  ASSUME NEW s \in Record, NEW kind \in News
  PROVE  /\ Say(s, kind) \in Record
         /\ Say(s, kind) = [s EXCEPT !.news = s.news \cup {kind}]
BY DEF Record, Say, News

LEMMA StopCountdownFields ==
  ASSUME NEW s \in Record
  PROVE  LET t == StopCountdown(s)
         IN  /\ t \in Record
             /\ t.time_to_next_event = -1
             /\ t.in_round = s.in_round
             /\ t.players_count = s.players_count
             /\ t.clients_count = s.clients_count
             /\ t.news = s.news
BY DEF Record, StopCountdown

\* One announcement, of a countdown that has warnings left.
LEMMA WarnAllFields ==
  ASSUME NEW s \in Record, s.backward_warnings_counter > 0,
         s.time_to_next_event = TimeBetween
  PROVE  LET t == WarnAll(s)
         IN  /\ t \in Record
             /\ Announced(t)
             /\ t.time_to_next_event = TimeBetween
             /\ t.backward_warnings_counter = s.backward_warnings_counter - 1
             /\ t.in_round = s.in_round
             /\ t.players_count = s.players_count
             /\ t.clients_count = s.clients_count
             /\ t.news = s.news \cup {"countdown"}
<1> DEFINE n == s.backward_warnings_counter
           t == WarnAll(s)
<1>1. n \in Nat /\ n > 0 /\ TimeBetween \in Nat
  BY ParameterAssumption DEF Record
<1>2. n * TimeBetween \in Nat /\ n * TimeBetween = (n - 1) * TimeBetween + TimeBetween
  BY <1>1
<1>3. t = [s EXCEPT !.news = s.news \cup {"countdown"},
                    !.remain = n * TimeBetween,
                    !.backward_warnings_counter = n - 1]
  BY DEF WarnAll, Say, Record
<1>4. n - 1 \in Nat /\ s.news \cup {"countdown"} \in SUBSET News
  BY <1>1 DEF Record, News
<1>5. t \in Record
  BY <1>2, <1>3, <1>4 DEF Record
<1>6. /\ t.remain = n * TimeBetween
      /\ t.backward_warnings_counter = n - 1
      /\ t.time_to_next_event = TimeBetween
  BY <1>3 DEF Record
<1>7. Announced(t)
  BY <1>2, <1>6, <1>1 DEF Announced
<1> QED
  BY <1>3, <1>5, <1>6, <1>7 DEF Record

\* The lobby with two clients and no countdown gets one; any other server is
\* left as it is.
LEMMA TryToDeferredFields ==
  ASSUME NEW s \in Record
  PROVE  LET t == TryToDeferredStartRound(s)
         IN  /\ t \in Record
             /\ t.in_round = s.in_round
             /\ t.players_count = s.players_count
             /\ t.clients_count = s.clients_count
             /\ \/ /\ ~s.in_round /\ s.time_to_next_event = -1
                   /\ s.clients_count > 1
                   /\ t.time_to_next_event >= 0 /\ Announced(t)
                   /\ t.news = s.news \cup {"countdown"}
                \/ /\ s.in_round \/ s.time_to_next_event >= 0
                                 \/ s.clients_count <= 1
                   /\ t = s
<1>1. CASE ~s.in_round /\ s.time_to_next_event < 0 /\ s.clients_count > 1
  <2> DEFINE u == [s EXCEPT !.time_to_next_event = TimeBetween,
                            !.backward_warnings_counter = WarningsBeforeRound]
  <2>1. TryToDeferredStartRound(s) = WarnAll(u)
    BY <1>1 DEF TryToDeferredStartRound
  <2>a. TimeBetween \in Nat /\ WarningsBeforeRound \in Nat /\ WarningsBeforeRound > 0
    BY ParameterAssumption
  <2>b. u \in Record
    BY <2>a DEF Record
  <2>2. /\ u.time_to_next_event = TimeBetween
        /\ u.backward_warnings_counter > 0
        /\ u.in_round = s.in_round /\ u.players_count = s.players_count
        /\ u.clients_count = s.clients_count /\ u.news = s.news
    BY <2>a DEF Record
  <2>3. s.time_to_next_event = -1 /\ TimeBetween >= 0
    BY <1>1, ParameterAssumption DEF Record
  <2> HIDE DEF u
  <2> QED
    BY <1>1, <2>1, <2>b, <2>2, <2>3, WarnAllFields
<1>2. CASE ~(~s.in_round /\ s.time_to_next_event < 0 /\ s.clients_count > 1)
  <2>1. TryToDeferredStartRound(s) = s
    BY <1>2 DEF TryToDeferredStartRound
  <2> QED
    BY <1>2, <2>1 DEF Record
<1> QED
  BY <1>1, <1>2

\* However many players are counted out, the end of a round settles.
LEMMA EndRoundSettles ==
  ASSUME NEW s \in Record
  PROVE  /\ Settled(EndRoundAndWait(s))
         /\ ~EndRoundAndWait(s).in_round
         /\ EndRoundAndWait(s).clients_count = s.clients_count
<1> DEFINE v == StopCountdown(s)
           w == [v EXCEPT !.players_count = 0]
           u == ProcessEndRound(s)
<1>1. v \in Record /\ v.time_to_next_event = -1 /\ v.clients_count = s.clients_count
  BY StopCountdownFields
<1> HIDE DEF v
<1>2. /\ w \in Record /\ w.players_count = 0
      /\ w.time_to_next_event = -1 /\ w.clients_count = s.clients_count
  BY <1>1 DEF Record
<1>3. u = [w EXCEPT !.in_round = FALSE]
  BY <1>1 DEF ProcessEndRound, Record, v
<1> HIDE DEF u, w
<1>4. /\ u \in Record
      /\ u.time_to_next_event = -1 /\ u.clients_count = s.clients_count
      /\ u.players_count = 0 /\ u.in_round = FALSE
  BY <1>2, <1>3 DEF Record
<1>5. EndRoundAndWait(s) = TryToDeferredStartRound(u)
  BY DEF EndRoundAndWait, u
<1> DEFINE t == TryToDeferredStartRound(u)
<1>6. /\ t \in Record /\ t.in_round = FALSE /\ t.players_count = 0
      /\ t.clients_count = s.clients_count
      /\ t.time_to_next_event >= 0 <=> s.clients_count > 1
      /\ Announced(t)
  BY <1>4, TryToDeferredFields DEF Announced, Record
<1> HIDE DEF t
<1> QED
  BY <1>5, <1>6 DEF Settled, t

\* A server without a countdown is settled where none can run.
LEMMA QuietSettled ==
  ASSUME NEW s \in Record, s.players_count >= 0, s.time_to_next_event = -1,
         s.in_round => s.players_count > 1, s.in_round \/ s.clients_count <= 1
  PROVE  Settled(s) /\ ~(s.time_to_next_event >= 0)
<1>1. ~(s.time_to_next_event >= 0)
  OBVIOUS
<1>2. Announced(s)
  BY <1>1 DEF Announced
<1>3. ~s.in_round => ~(s.clients_count > 1)
  BY DEF Record
<1> QED
  BY <1>1, <1>2, <1>3 DEF Settled

\* Whether a lobby has to stop its countdown is decided by the new count of
\* clients alone.
LEMMA TryToStopSettles ==
  ASSUME NEW s \in Record, ~s.in_round, s.players_count >= 0, Announced(s),
         s.clients_count > 1 => s.time_to_next_event >= 0
  PROVE  LET t == TryToStopDeferredStartRound(s)
         IN  /\ Settled(t)
             /\ ~t.in_round
             /\ t.clients_count = s.clients_count
             /\ t.time_to_next_event >= 0 => t = s
<1>1. CASE s.clients_count <= 1
  <2> DEFINE v == StopCountdown(s)
  <2>1. /\ v \in Record /\ v.time_to_next_event = -1 /\ ~v.in_round
        /\ v.players_count = s.players_count
        /\ v.clients_count = s.clients_count
    BY StopCountdownFields
  <2>2. TryToStopDeferredStartRound(s) = Say(v, "cancelled")
    BY <1>1 DEF TryToStopDeferredStartRound
  <2> HIDE DEF v
  <2>3. /\ Say(v, "cancelled") \in Record
        /\ Say(v, "cancelled") = [v EXCEPT !.news = v.news \cup {"cancelled"}]
    BY <2>1, SayFields DEF News
  <2> DEFINE t == Say(v, "cancelled")
  <2>4. /\ t.time_to_next_event = -1 /\ ~t.in_round
        /\ t.players_count = s.players_count
        /\ t.clients_count = s.clients_count
    BY <2>1, <2>3 DEF Record
  <2> HIDE DEF t
  <2>5. t \in Record
    BY <2>3 DEF t
  <2>6. Settled(t) /\ ~(t.time_to_next_event >= 0)
    BY <1>1, <2>4, <2>5, QuietSettled
  <2> QED
    BY <2>2, <2>4, <2>6 DEF t
<1>2. CASE s.clients_count > 1
  <2>1. TryToStopDeferredStartRound(s) = s
    BY <1>2 DEF TryToStopDeferredStartRound, Record
  <2> QED
    BY <1>2, <2>1 DEF Settled
<1> QED
  BY <1>1, <1>2 DEF Record

\* The departure of a client, a player or not, leaves the server settled,
\* and can only take the round away from the others, never start one.
LEMMA UnregisterSettles ==
  ASSUME NEW s, Settled(s), NEW wasPlayer \in BOOLEAN, wasPlayer => s.in_round
  PROVE  LET t == Unregister(s, wasPlayer)
         IN  /\ Settled(t)
             /\ t.clients_count = s.clients_count - 1
             /\ t.in_round => s.in_round
             /\ ~wasPlayer => t.in_round = s.in_round
             /\ s.time_to_next_event >= 0 /\ t.time_to_next_event >= 0
                  => t = [s EXCEPT !.clients_count = s.clients_count - 1]
<1> DEFINE gone == [s EXCEPT !.clients_count = s.clients_count - 1]
           t == Unregister(s, wasPlayer)
<1>1. /\ gone \in Record
      /\ gone.clients_count = s.clients_count - 1
      /\ gone.in_round = s.in_round
      /\ gone.players_count = s.players_count
      /\ gone.time_to_next_event = s.time_to_next_event
      /\ Announced(gone)
  BY DEF Settled, Record, Announced
<1>2. t = LET after == IF wasPlayer THEN LosePlayer(gone) ELSE gone
          IN  IF after.in_round THEN after ELSE TryToStopDeferredStartRound(after)
  BY DEF Unregister, Settled, Record
<1> HIDE DEF gone, t
<1>3. CASE ~wasPlayer /\ s.in_round
  <2>1. t = gone
    BY <1>1, <1>2, <1>3
  <2>2. /\ s.players_count > 1 /\ s.players_count >= 0
        /\ s.time_to_next_event = -1
    BY <1>3 DEF Settled, Record
  <2>3. Settled(gone)
    BY <1>1, <1>3, <2>2, QuietSettled
  <2>4. ~(s.time_to_next_event >= 0)
    BY <2>2
  <2> QED
    BY <1>1, <1>3, <2>1, <2>3, <2>4 DEF t
<1>4. CASE ~wasPlayer /\ ~s.in_round
  <2>1. t = TryToStopDeferredStartRound(gone)
    BY <1>1, <1>2, <1>4
  <2>2. /\ gone.players_count >= 0
        /\ gone.clients_count > 1 => gone.time_to_next_event >= 0
    BY <1>1, <1>4 DEF Settled, Record
  <2>3. /\ Settled(t) /\ ~t.in_round
        /\ t.clients_count = s.clients_count - 1
        /\ t.time_to_next_event >= 0 => t = gone
    BY <1>1, <1>4, <2>1, <2>2, TryToStopSettles
  <2> QED
    BY <1>4, <2>3 DEF t, gone, Settled, Record
<1>5. CASE wasPlayer
  <2> DEFINE u == [gone EXCEPT !.players_count = gone.players_count - 1]
  <2>1. /\ u \in Record
        /\ u.clients_count = s.clients_count - 1
        /\ u.in_round = s.in_round
        /\ u.players_count = s.players_count - 1
        /\ u.time_to_next_event = s.time_to_next_event
        /\ Announced(u)
    BY <1>1 DEF Record, Announced
  <2>2. /\ s.in_round /\ s.time_to_next_event = -1
    BY <1>5 DEF Settled, Record
  <2>3. LosePlayer(gone) = IF u.players_count <= 1 THEN EndRoundAndWait(u) ELSE u
    BY <1>1 DEF LosePlayer, Record
  <2> HIDE DEF u
  <2>4. CASE u.players_count <= 1
    <3> DEFINE after == EndRoundAndWait(u)
    <3>1. /\ Settled(after) /\ ~after.in_round
          /\ after.clients_count = s.clients_count - 1
      BY <2>1, EndRoundSettles
    <3>2. t = TryToStopDeferredStartRound(after)
      BY <1>2, <1>5, <2>3, <2>4, <3>1
    <3> HIDE DEF after
    <3>3. Settled(t) /\ ~t.in_round /\ t.clients_count = s.clients_count - 1
      BY <3>1, <3>2, TryToStopSettles DEF Settled
    <3>4. ~(s.time_to_next_event >= 0)
      BY <2>2
    <3> QED
      BY <1>5, <3>3, <3>4 DEF t
  <2>5. CASE u.players_count > 1
    <3>1. u.players_count \in Int
      BY <2>1 DEF Record
    <3>2. ~(u.players_count <= 1) /\ u.players_count >= 0
      BY <2>5, <3>1
    <3>3. LosePlayer(gone) = u
      BY <2>3, <3>2
    <3>4. t = u
      BY <1>2, <1>5, <2>1, <2>2, <3>3
    <3>5. Settled(u) /\ ~(u.time_to_next_event >= 0)
      BY <2>1, <2>2, <2>5, <3>2, QuietSettled
    <3> QED
      BY <1>5, <2>1, <2>2, <3>4, <3>5 DEF t
  <2> QED
    BY <2>1, <2>4, <2>5 DEF Record
<1> QED
  BY <1>3, <1>4, <1>5

\* A month's end leaves the round going on, or settles its end.
LEMMA ProcessWinSettles ==
  ASSUME NEW s \in Record, s.in_round, s.time_to_next_event = -1,
         NEW isBroke, Winners(s, isBroke) \in SUBSET Client
  PROVE  LET t == TryToProcessWin(s, isBroke)
         IN  Settled(t) /\ t.clients_count = s.clients_count
<1>0. s.players_count \in Int
  BY DEF Record
<1>1. CASE s.players_count > 1
  <2>1. TryToProcessWin(s, isBroke) = s
    BY <1>1 DEF TryToProcessWin
  <2>2. s.players_count >= 0
    BY <1>0, <1>1
  <2> QED
    BY <1>1, <2>1, <2>2, QuietSettled
<1>2. CASE ~(s.players_count > 1)
  <2> DEFINE w == [s EXCEPT !.winners = Winners(s, isBroke)]
  <2>1. w \in Record /\ w.clients_count = s.clients_count
    BY DEF Record
  <2>2. TryToProcessWin(s, isBroke) = EndRoundAndWait(w)
    BY <1>2 DEF TryToProcessWin
  <2> HIDE DEF w
  <2> QED
    BY <2>1, <2>2, EndRoundSettles
<1> QED
  BY <1>1, <1>2

-----------------------------------------------------------------------------
(* The actions *)

LEMMA InitIInv == Init => IInv
<1> SUFFICES ASSUME Init PROVE IInv
  OBVIOUS
<1>1. FlagsOK /\ PlayersOnlyInRound
  BY DEF Init, FlagsOK, PlayersOnlyInRound, NoOne
<1>2. server \in Record /\ server.time_to_next_event = -1
      /\ server.players_count = 0 /\ server.in_round = FALSE
      /\ server.clients_count = 0
  BY DEF Init, Record
<1>3. Settled(server)
  BY <1>2, QuietSettled
<1> QED
  BY <1>1, <1>3 DEF IInv

\* A new client can only complete a lobby of two, and so start a countdown.
LEMMA ConnectIInv == ASSUME IInv, NEW c \in Client, Connect(c) 
  PROVE  /\ IInv'
         /\ server'.clients_count = server.clients_count + 1
         /\ CountdownRuns => TimeLeft' = TimeLeft
<1> DEFINE f == Fresh(server)
           u == [f EXCEPT !.clients_count = @ + 1]
           t == TryToDeferredStartRound(u)
<1>1. /\ Settled(f) /\ f \in Record
      /\ f.in_round = server.in_round
      /\ f.clients_count = server.clients_count
      /\ f.time_to_next_event = server.time_to_next_event
      /\ f.backward_warnings_counter = server.backward_warnings_counter
  BY FreshSettled DEF IInv, Settled
<1> HIDE DEF f
<1>2. /\ u \in Record /\ u.in_round = server.in_round
      /\ u.clients_count = f.clients_count + 1
      /\ u.players_count = f.players_count
      /\ u.time_to_next_event = f.time_to_next_event
      /\ u.backward_warnings_counter = f.backward_warnings_counter
      /\ Announced(u)
  BY <1>1 DEF Record, Announced, Settled
<1>3. /\ f.players_count >= 0 /\ (f.in_round => f.players_count > 1)
      /\ f.time_to_next_event >= 0 <=> ~f.in_round /\ f.clients_count > 1
      /\ f.clients_count \in Int
  BY <1>1 DEF Settled, Record
<1> HIDE DEF u
<1>4. /\ Settled(t) /\ t.in_round = server.in_round
      /\ t.clients_count = server.clients_count + 1
      /\ f.time_to_next_event >= 0 => t = u
  <2>1. CASE t = u
    <3>1. u.time_to_next_event >= 0 <=> ~u.in_round /\ u.clients_count > 1
      BY <1>1, <1>2, <1>3, <2>1, TryToDeferredFields DEF Announced, Record
    <3> QED
      BY <1>1, <1>2, <1>3, <2>1, <3>1 DEF Settled
  <2>2. CASE t # u
    BY <1>1, <1>2, <1>3, <2>2, TryToDeferredFields DEF Settled
  <2> QED
    BY <2>1, <2>2
<1>5. server' = t /\ UNCHANGED flags /\ clients' = Append(clients, c)
  BY DEF Connect, t, u, f
<1>6. Settled(server)' /\ server'.in_round = server.in_round
  BY <1>4, <1>5
<1>7. CountdownRuns => TimeLeft' = TimeLeft
  BY <1>1, <1>2, <1>4, <1>5 DEF CountdownRuns, TimeLeft
<1>8. IInv'
  BY <1>5, <1>6 DEF IInv, FlagsOK, PlayersOnlyInRound, flags
<1> QED
  BY <1>4, <1>5, <1>7, <1>8

LEMMA RejectIInv == ASSUME IInv, RejectConnection 
  PROVE  IInv' /\ server'.clients_count = server.clients_count
<1> DEFINE f == Fresh(server)
           t == Say(f, "full")
<1>1. /\ Settled(f) /\ f \in Record /\ f.in_round = server.in_round
      /\ f.clients_count = server.clients_count
  BY FreshSettled DEF IInv, Settled
<1> HIDE DEF f
<1>2. t \in Record /\ t = [f EXCEPT !.news = f.news \cup {"full"}]
  BY <1>1, SayFields DEF News
<1>3. /\ Settled(t) /\ t.in_round = server.in_round
      /\ t.clients_count = server.clients_count
  BY <1>1, <1>2 DEF Settled, Record, Announced
<1>4. server' = t /\ UNCHANGED <<clients, flags>>
  BY DEF RejectConnection, t, f
<1>5. Settled(server)' /\ server'.in_round = server.in_round
  BY <1>3, <1>4
<1> QED
  BY <1>3, <1>4, <1>5 DEF IInv, FlagsOK, PlayersOnlyInRound, flags

LEMMA DisconnectIInv == ASSUME IInv, NEW c \in Client, Disconnect(c) 
  PROVE  /\ IInv'
         /\ server'.clients_count = server.clients_count - 1
         /\ CountdownRuns /\ CountdownRuns' => TimeLeft' = TimeLeft
<1> DEFINE f == Fresh(server)
<1>1. /\ Settled(f) /\ f \in Record /\ f.in_round = server.in_round
      /\ f.clients_count = server.clients_count
      /\ f.time_to_next_event = server.time_to_next_event
      /\ f.backward_warnings_counter = server.backward_warnings_counter
  BY FreshSettled DEF IInv, Settled
<1>2. in_round[c] \in BOOLEAN /\ (in_round[c] => f.in_round)
  BY <1>1 DEF IInv, FlagsOK, PlayersOnlyInRound
<1>3. server' = Unregister(f, in_round[c])
  BY DEF Disconnect
<1> HIDE DEF f
<1>4. /\ Settled(server')
      /\ ~in_round[c] => server'.in_round = f.in_round
      /\ server'.clients_count = f.clients_count - 1
      /\ f.time_to_next_event >= 0 /\ server'.time_to_next_event >= 0
           => server' = [f EXCEPT !.clients_count = f.clients_count - 1]
  BY <1>1, <1>2, <1>3, UnregisterSettles
<1>5. FlagsOK'
  BY RemoveAtType DEF IInv, FlagsOK, Disconnect, NoOne
<1>6. PlayersOnlyInRound'
  <2> SUFFICES ASSUME NEW d \in Client, in_round'[d] PROVE server'.in_round
    BY DEF PlayersOnlyInRound
  <2>1. CASE in_round[c]
    BY <2>1 DEF Disconnect, NoOne, IInv, FlagsOK
  <2>2. CASE ~in_round[c]
    BY <1>1, <1>4, <2>2 DEF Disconnect, IInv, FlagsOK, PlayersOnlyInRound
  <2> QED
    BY <2>1, <2>2
<1>7. CountdownRuns /\ CountdownRuns' => TimeLeft' = TimeLeft
  BY <1>1, <1>4 DEF CountdownRuns, TimeLeft, Record
<1> QED
  BY <1>1, <1>4, <1>5, <1>6, <1>7 DEF IInv

LEMMA JoinIInv == ASSUME IInv, NEW c \in Client, Join(c) 
  PROVE  IInv' /\ server'.clients_count = server.clients_count
<1> DEFINE f == Fresh(server)
           t == [f EXCEPT !.players_count = @ + 1]
<1>1. /\ Settled(f) /\ f.in_round = server.in_round
      /\ f.clients_count = server.clients_count
  BY FreshSettled DEF IInv
<1> HIDE DEF f
<1>2. /\ t \in Record /\ t.players_count = f.players_count + 1
      /\ t.in_round = f.in_round /\ t.clients_count = f.clients_count
      /\ t.time_to_next_event = f.time_to_next_event
      /\ Announced(t)
  BY <1>1 DEF Settled, Record, Announced
<1>3. f.players_count \in Int
  BY <1>1 DEF Settled, Record
<1> HIDE DEF t
<1>4. Settled(t) /\ t.in_round = server.in_round
  BY <1>1, <1>2, <1>3 DEF Settled
<1>5. server' = t
  BY DEF Join, t, f
<1>6. Settled(server)' /\ server'.in_round = server.in_round
  BY <1>4, <1>5
<1> QED
  BY <1>1, <1>2, <1>5, <1>6 DEF IInv, FlagsOK, PlayersOnlyInRound, Join

LEMMA TurnAndWaitIInv == ASSUME IInv, NEW c \in Client, TurnAndWait(c) 
  PROVE  IInv' /\ server'.clients_count = server.clients_count
<1>1. /\ Settled(Fresh(server)) /\ Fresh(server).in_round = server.in_round
      /\ Fresh(server).clients_count = server.clients_count
  BY FreshSettled DEF IInv
<1>2. server' = Fresh(server)
  BY DEF TurnAndWait
<1>3. Settled(server)' /\ server'.in_round = server.in_round
  BY <1>1, <1>2
<1> QED
  BY <1>1, <1>2, <1>3 DEF IInv, FlagsOK, PlayersOnlyInRound, TurnAndWait

LEMMA TurnAndStepIInv ==
  ASSUME IInv, NEW c \in Client, NEW bankrupt \in SUBSET Players,
         TurnAndStep(c, bankrupt)
  PROVE  IInv' /\ server'.clients_count = server.clients_count
<1> DEFINE f == Fresh(server)
           m == Say(f, "month")
           n == Cardinality(bankrupt)
           u == [m EXCEPT !.players_count = @ - n]
<1>1. /\ f \in Record /\ f.in_round = server.in_round
      /\ f.time_to_next_event = server.time_to_next_event
      /\ f.clients_count = server.clients_count
  BY FreshSettled DEF IInv, Settled
<1>2. server.in_round /\ server.time_to_next_event = -1
  BY DEF TurnAndStep, IInv, PlayersOnlyInRound, Settled, Record
<1>3. n \in Nat
  BY ClientAssumption, FS_Subset, FS_CardinalityType DEF Players
<1> HIDE DEF f
<1>4. m \in Record /\ m = [f EXCEPT !.news = f.news \cup {"month"}]
  BY <1>1, SayFields DEF News
<1>5. /\ m.in_round /\ m.time_to_next_event = -1 /\ m.players_count \in Int
      /\ m.clients_count = server.clients_count
  BY <1>1, <1>2, <1>4 DEF Record
<1> HIDE DEF m, n
<1>6. /\ u \in Record /\ u.in_round /\ u.time_to_next_event = -1
      /\ u.clients_count = server.clients_count
  <2>1. m.players_count - n \in Int
    BY <1>3, <1>5
  <2>2. u = [m EXCEPT !.players_count = m.players_count - n]
    BY <1>4 DEF Record
  <2> HIDE DEF u
  <2> QED
    BY <1>4, <1>5, <2>1, <2>2 DEF Record
<1>7. server' = TryToProcessWin(u, broke')
  BY DEF TurnAndStep, u, m, n, f
<1> HIDE DEF u
<1>8. Winners(u, broke') \in SUBSET Client
  BY LenProperties DEF Winners, Players, FirstSolvent, IInv, FlagsOK
<1>9. Settled(server') /\ server'.clients_count = server.clients_count
  BY <1>6, <1>7, <1>8, ProcessWinSettles
<1>10. FlagsOK'
  BY DEF IInv, FlagsOK, TurnAndStep, NoOne
<1>11. PlayersOnlyInRound'
  BY DEF PlayersOnlyInRound, TurnAndStep, NoOne
<1> QED
  BY <1>9, <1>10, <1>11 DEF IInv

LEMMA ElapseIInv == ASSUME IInv, Elapse 
  PROVE  /\ IInv' /\ server'.clients_count = server.clients_count
         /\ TimeLeft' <= TimeLeft
<1> DEFINE f == Fresh(server)
<1>1. /\ Settled(f) /\ f \in Record /\ f.in_round = server.in_round
      /\ f.time_to_next_event = server.time_to_next_event
      /\ f.clients_count = server.clients_count
      /\ f.backward_warnings_counter = server.backward_warnings_counter
  BY FreshSettled DEF IInv, Settled
<1>2. PICK t \in 0 .. server.time_to_next_event - 1 :
        server' = [f EXCEPT !.time_to_next_event = t]
  BY DEF Elapse
<1>3. f.time_to_next_event \in Int /\ server.time_to_next_event > 0
  BY <1>1 DEF Elapse, Record
<1> HIDE DEF f
<1>4. t \in Nat /\ t < f.time_to_next_event
  BY <1>1, <1>2, <1>3
<1>5. /\ server' \in Record /\ server'.time_to_next_event = t
      /\ server'.in_round = f.in_round
      /\ server'.players_count = f.players_count
      /\ server'.clients_count = f.clients_count
      /\ server'.remain = f.remain
      /\ server'.backward_warnings_counter = f.backward_warnings_counter
  BY <1>1, <1>2, <1>4 DEF Record
<1>6. t <= TimeBetween
  BY <1>1, <1>3, <1>4, ParameterAssumption DEF Settled, Announced
<1>7. Announced(server')
  BY <1>1, <1>3, <1>4, <1>5, <1>6 DEF Settled, Announced
<1>8. Settled(server)'
  BY <1>1, <1>3, <1>4, <1>5, <1>7 DEF Settled
<1>9. TimeLeft' <= TimeLeft
  <2> DEFINE k == server.backward_warnings_counter * TimeBetween
  <2>1. k \in Int /\ server.time_to_next_event \in Int
    BY <1>1, <1>3, ParameterAssumption DEF Record
  <2>2. TimeLeft = server.time_to_next_event + k /\ TimeLeft' = t + k
    BY <1>1, <1>5 DEF TimeLeft
  <2> HIDE DEF k
  <2> QED
    BY <1>1, <1>4, <2>1, <2>2
<1> QED
  BY <1>1, <1>5, <1>8, <1>9 DEF IInv, FlagsOK, PlayersOnlyInRound, Elapse, flags

LEMMA WarnIInv == ASSUME IInv, Warn 
  PROVE  /\ IInv' /\ server'.clients_count = server.clients_count
         /\ TimeLeft' <= TimeLeft
<1> DEFINE f == Fresh(server)
           u == [f EXCEPT !.time_to_next_event = TimeBetween]
<1>1. /\ Settled(f) /\ f \in Record /\ f.in_round = server.in_round
      /\ f.time_to_next_event = server.time_to_next_event
      /\ f.backward_warnings_counter = server.backward_warnings_counter
      /\ f.clients_count = server.clients_count
  BY FreshSettled DEF IInv, Settled
<1>2. f.time_to_next_event >= 0 /\ f.backward_warnings_counter > 0
  BY <1>1 DEF Warn, CountdownRuns
<1> HIDE DEF f
<1>3. /\ u \in Record /\ u.time_to_next_event = TimeBetween
      /\ u.in_round = f.in_round
      /\ u.players_count = f.players_count
      /\ u.clients_count = f.clients_count
      /\ u.backward_warnings_counter > 0
      /\ u.backward_warnings_counter = f.backward_warnings_counter
  BY <1>1, <1>2, ParameterAssumption DEF Record
<1>4. server' = WarnAll(u)
  BY DEF Warn, u, f
<1> HIDE DEF u
<1>5. /\ server' \in Record /\ Announced(server')
      /\ server'.time_to_next_event = TimeBetween
      /\ server'.in_round = f.in_round
      /\ server'.players_count = f.players_count
      /\ server'.clients_count = f.clients_count
      /\ server'.backward_warnings_counter = f.backward_warnings_counter - 1
  BY <1>3, <1>4, WarnAllFields
<1>6. TimeBetween >= 0
  BY ParameterAssumption
<1>7. Settled(server)'
  BY <1>1, <1>2, <1>5, <1>6 DEF Settled
<1>8. TimeLeft' <= TimeLeft
  <2> DEFINE n == server.backward_warnings_counter
             e == server.time_to_next_event
  <2>1. n \in Nat /\ e \in Nat /\ TimeBetween \in Nat
    BY <1>1, <1>2, ParameterAssumption DEF Record
  <2>2. TimeLeft = e + n * TimeBetween
    BY DEF TimeLeft
  <2>3. TimeLeft' = TimeBetween + (n - 1) * TimeBetween
    BY <1>1, <1>5 DEF TimeLeft
  <2> HIDE DEF n, e
  <2>4. TimeBetween + (n - 1) * TimeBetween = n * TimeBetween /\ n * TimeBetween \in Nat
    BY <2>1
  <2> QED
    BY <2>1, <2>2, <2>3, <2>4
<1> QED
  BY <1>1, <1>5, <1>7, <1>8 DEF IInv, FlagsOK, PlayersOnlyInRound, Warn, flags

LEMMA RefuseIInv == ASSUME IInv, RefuseRound 
  PROVE  /\ IInv' /\ server'.clients_count = server.clients_count
         /\ "refused" \in server'.news
<1> DEFINE f == Fresh(server)
           v == StopCountdown(f)
           u == Say(v, "refused")
<1>1. /\ Settled(f) /\ f \in Record /\ f.in_round = server.in_round
      /\ f.time_to_next_event = server.time_to_next_event
      /\ f.clients_count = server.clients_count
  BY FreshSettled DEF IInv, Settled
<1>2. f.time_to_next_event >= 0
  BY <1>1 DEF RefuseRound, CountdownRuns
<1> HIDE DEF f
<1>3. /\ ~f.in_round /\ f.clients_count > 1 /\ f.players_count >= 0
  BY <1>1, <1>2 DEF Settled
<1>4. /\ v \in Record /\ v.time_to_next_event = -1
      /\ v.in_round = f.in_round
      /\ v.players_count = f.players_count
      /\ v.clients_count = f.clients_count
  BY <1>1, StopCountdownFields
<1> HIDE DEF v
<1>5. u \in Record /\ u = [v EXCEPT !.news = v.news \cup {"refused"}]
  BY <1>4, SayFields DEF News
<1>6. /\ "refused" \in u.news
      /\ u.time_to_next_event = -1
      /\ u.in_round = f.in_round
      /\ u.players_count = f.players_count
      /\ u.clients_count = f.clients_count
  BY <1>4, <1>5 DEF Record
<1>7. server' = TryToDeferredStartRound(u)
  BY DEF RefuseRound, u, v, f
<1> HIDE DEF u
<1>8. ~(u.time_to_next_event >= 0) /\ u.clients_count \in Int
  BY <1>5, <1>6 DEF Record
<1>9. ~(u.clients_count <= 1)
  BY <1>3, <1>6, <1>8
<1>10. /\ Settled(server)' /\ server'.in_round = server.in_round
       /\ server'.clients_count = server.clients_count
       /\ "refused" \in server'.news
  BY <1>1, <1>3, <1>5, <1>6, <1>7, <1>8, <1>9, TryToDeferredFields DEF Settled
<1> QED
  BY <1>10 DEF IInv, FlagsOK, PlayersOnlyInRound, RefuseRound, flags

LEMMA StartRoundIInv == ASSUME IInv, StartRound 
  PROVE  /\ IInv' /\ server'.clients_count = server.clients_count
         /\ ~server.in_round /\ server'.in_round
<1> DEFINE f == Fresh(server)
           v == StopCountdown(f)
           u == Say(v, "ready")
<1>1. /\ f \in Record /\ f.players_count = server.players_count
      /\ f.clients_count = server.clients_count
  BY FreshSettled DEF IInv, Settled
<1> HIDE DEF f
<1>2. /\ v \in Record /\ v.time_to_next_event = -1
      /\ v.players_count = f.players_count
      /\ v.clients_count = f.clients_count
  BY <1>1, StopCountdownFields
<1> HIDE DEF v
<1>3. u \in Record /\ u = [v EXCEPT !.news = v.news \cup {"ready"}]
  BY <1>2, SayFields DEF News
<1>4. /\ u.time_to_next_event = -1 /\ u.players_count = server.players_count
      /\ u.clients_count = server.clients_count
  BY <1>1, <1>2, <1>3 DEF Record
<1>5. server' = [u EXCEPT !.in_round = TRUE]
  BY DEF StartRound, BeginRound, u, v, f
<1> HIDE DEF u
<1>6. /\ server' \in Record /\ server'.in_round
      /\ server'.time_to_next_event = -1
      /\ server'.players_count = server.players_count
      /\ server'.clients_count = server.clients_count
  BY <1>3, <1>4, <1>5 DEF Record
<1>7. server'.players_count > 1 /\ server'.players_count >= 0
  BY <1>6 DEF StartRound, IInv, Settled
<1>8. Settled(server)'
  BY <1>6, <1>7, QuietSettled
<1>9. FlagsOK'
  BY DEF IInv, FlagsOK, StartRound, NewGameData, NoOne
<1>10. ~server.in_round
  BY DEF StartRound, CountdownRuns, IInv, Settled
<1> QED
  BY <1>6, <1>8, <1>9, <1>10 DEF IInv, PlayersOnlyInRound

LEMMA StepIInv == IInv /\ [Next]_vars => IInv'
<1> SUFFICES ASSUME IInv, [Next]_vars PROVE IInv'
  OBVIOUS
<1>1. ASSUME NEW c \in Client, Connect(c) PROVE IInv'
  BY <1>1, ConnectIInv
<1>2. ASSUME NEW c \in Client, Disconnect(c) PROVE IInv'
  BY <1>2, DisconnectIInv
<1>3. ASSUME NEW c \in Client, Join(c) PROVE IInv'
  BY <1>3, JoinIInv
<1>4. ASSUME NEW c \in Client, TurnAndWait(c) PROVE IInv'
  BY <1>4, TurnAndWaitIInv
<1>5. ASSUME NEW c \in Client, NEW b \in SUBSET Players, TurnAndStep(c, b)
      PROVE  IInv'
  BY <1>5, TurnAndStepIInv
<1>6. CASE UNCHANGED vars
  BY <1>6 DEF IInv, FlagsOK, PlayersOnlyInRound, vars, flags
<1> QED
  BY <1>1, <1>2, <1>3, <1>4, <1>5, <1>6, RejectIInv, ElapseIInv, WarnIInv,
     RefuseIInv, StartRoundIInv DEF Next

-----------------------------------------------------------------------------
(* The theorems *)

\* The inductive invariant holds in every reachable state.
THEOREM Inductive == Spec => []IInv
BY InitIInv, StepIInv, PTL DEF Spec

\* Type correctness; in particular players_count, which a month's end may
\* take below zero, is a natural number whenever a handler is done.
THEOREM TypeCorrect == Spec => []TypeOK
<1>1. IInv => TypeOK
  BY DEF IInv, FlagsOK, Settled, Record, TypeOK
<1> QED
  BY <1>1, Inductive, PTL

\* The comment of game.c:873, on which allow_command() relies.
THEOREM PlayersAreInRound == Spec => []PlayersOnlyInRound
<1>1. IInv => PlayersOnlyInRound
  BY DEF IInv
<1> QED
  BY <1>1, Inductive, PTL

\* A lobby with two clients always has a countdown, and nothing else does.
THEOREM CountdownTheorem == Spec => []CountdownIffPossible
<1>1. IInv => CountdownIffPossible
  BY DEF IInv, Settled, CountdownIffPossible, CountdownRuns
<1> QED
  BY <1>1, Inductive, PTL

\* A round in progress has more than one player counted.
THEOREM RoundHasPlayers == Spec => []RoundKeepsPlayers
<1>1. IInv => RoundKeepsPlayers
  BY DEF IInv, Settled, RoundKeepsPlayers
<1> QED
  BY <1>1, Inductive, PTL

\* The time announced last is honest, whatever the interval.
THEOREM AnnouncedTime == Spec => []AnnouncedTimeHonest
<1>1. ASSUME IInv PROVE AnnouncedTimeHonest
  <2> SUFFICES ASSUME server.time_to_next_event >= 0
               PROVE  TimeLeft \in server.remain - TimeBetween .. server.remain
    BY DEF AnnouncedTimeHonest, CountdownRuns
  <2> DEFINE k == server.backward_warnings_counter * TimeBetween
  <2>1. /\ server.backward_warnings_counter \in Nat /\ TimeBetween \in Nat
        /\ server.time_to_next_event \in Nat
    BY <1>1, ParameterAssumption DEF IInv, Settled, Record
  <2>2. k \in Nat
    BY <2>1
  <2>3. server.remain = k + TimeBetween /\ server.time_to_next_event <= TimeBetween
    BY <1>1 DEF IInv, Settled, Announced
  <2>4. TimeLeft = server.time_to_next_event + k
    BY DEF TimeLeft
  <2> HIDE DEF k
  <2> QED
    BY <2>1, <2>2, <2>3, <2>4
<1> QED
  BY <1>1, Inductive, PTL

\* A countdown that has begun only gets shorter, whoever comes and goes.
THEOREM CountdownShrinks == Spec => CountdownNeverGrows
<1>1. ASSUME IInv, [Next]_vars
      PROVE  [CountdownRuns /\ CountdownRuns' /\ "refused" \notin server'.news
                => TimeLeft' <= TimeLeft]_vars
  <2> SUFFICES ASSUME Next, CountdownRuns, CountdownRuns',
                      "refused" \notin server'.news
               PROVE  TimeLeft' <= TimeLeft
    BY <1>1
  <2>1. /\ server.backward_warnings_counter \in Nat
        /\ server.time_to_next_event \in Int /\ TimeBetween \in Nat
    BY <1>1, ParameterAssumption DEF IInv, Settled, Record
  <2>2. TimeLeft \in Int
    BY <2>1 DEF TimeLeft
  <2>3. ASSUME NEW c \in Client, Connect(c) PROVE TimeLeft' <= TimeLeft
    BY <1>1, <2>2, <2>3, ConnectIInv
  <2>4. ASSUME NEW c \in Client, Disconnect(c) PROVE TimeLeft' <= TimeLeft
    BY <1>1, <2>2, <2>4, DisconnectIInv
  <2>5. ASSUME NEW c \in Client, Join(c) PROVE TimeLeft' <= TimeLeft
    <3>1. server' = [Fresh(server) EXCEPT !.players_count = @ + 1]
      BY <2>5 DEF Join
    <3>2. /\ server'.time_to_next_event = server.time_to_next_event
          /\ server'.backward_warnings_counter = server.backward_warnings_counter
      BY <1>1, <3>1, FreshSettled DEF IInv, Settled, Record
    <3> QED
      BY <2>2, <3>2 DEF TimeLeft
  <2>6. ASSUME NEW c \in Client, TurnAndWait(c) PROVE TimeLeft' <= TimeLeft
    BY <1>1, <2>2, <2>6, FreshSettled DEF TurnAndWait, IInv, TimeLeft
  <2>7. ASSUME NEW c \in Client, NEW b \in SUBSET Players, TurnAndStep(c, b)
        PROVE  TimeLeft' <= TimeLeft
    <3>1. server.in_round /\ ~(server.time_to_next_event >= 0)
      BY <1>1, <2>7 DEF TurnAndStep, IInv, PlayersOnlyInRound, Settled
    <3> QED
      BY <3>1 DEF CountdownRuns
  <2>8. CASE RejectConnection
    <3>1. server' = [Fresh(server) EXCEPT !.news = @ \cup {"full"}]
      BY <2>8 DEF RejectConnection, Say
    <3>2. /\ server'.time_to_next_event = server.time_to_next_event
          /\ server'.backward_warnings_counter = server.backward_warnings_counter
      BY <1>1, <3>1, FreshSettled DEF IInv, Settled, Record
    <3> QED
      BY <2>2, <3>2 DEF TimeLeft
  <2>9. CASE Elapse
    BY <1>1, <2>9, ElapseIInv
  <2>10. CASE Warn
    BY <1>1, <2>10, WarnIInv
  <2>11. CASE RefuseRound
    BY <1>1, <2>11, RefuseIInv
  <2>12. CASE StartRound
    <3>1. Settled(server') /\ server'.in_round
      BY <1>1, <2>12, StartRoundIInv DEF IInv
    <3> QED
      BY <3>1 DEF Settled, CountdownRuns
  <2> QED
    BY <2>3, <2>4, <2>5, <2>6, <2>7, <2>8, <2>9, <2>10, <2>11, <2>12 DEF Next
<1> QED
  BY <1>1, Inductive, PTL DEF Spec, CountdownNeverGrows

-----------------------------------------------------------------------------
(* The registry of clients *)

\* A handler that neither connects nor disconnects keeps the registry, if it
\* raises the flags of registered clients only.
LEMMA SameClients ==
  ASSUME RegistryExact, clients' = clients,
         server'.clients_count = server.clients_count,
         \A c \in Client :
           in_round'[c] \/ want_to_next_round'[c] \/ step_completed'[c] \/ broke'[c]
             => c \in ToSet(clients)
  PROVE  RegistryExact'
BY DEF RegistryExact, ToSet, IsInjective

LEMMA StepRegistry == IInv /\ RegistryExact /\ [Next]_vars => RegistryExact'
<1> SUFFICES ASSUME IInv, RegistryExact, [Next]_vars PROVE RegistryExact'
  OBVIOUS
<1>0. /\ clients \in Seq(Client) /\ Len(clients) \in Nat
      /\ IsInjective(clients) /\ server.clients_count = Len(clients)
  BY LenProperties DEF IInv, FlagsOK, RegistryExact
<1>1. ASSUME NEW c \in Client, Connect(c) PROVE RegistryExact'
  <2>0. c \notin ToSet(clients) /\ clients' = Append(clients, c)
    BY <1>1 DEF Connect
  <2>1. /\ IsInjective(clients') /\ Len(clients') = Len(clients) + 1
        /\ ToSet(clients') = ToSet(clients) \cup {c}
    <3>1. PICK t : t = Append(clients, c)
      OBVIOUS
    <3>2. IsInjective(t) /\ Len(t) = Len(clients) + 1 /\ ToSet(t) = ToSet(clients) \cup {c}
      BY <1>0, <2>0, <3>1, AppendFresh
    <3>3. clients' = t
      BY <2>0, <3>1
    <3> QED
      BY <3>2, <3>3
  <2>2. server'.clients_count = server.clients_count + 1
    BY <1>1, ConnectIInv
  <2>3. MaxClients > 0 => server'.clients_count <= MaxClients
    BY <1>0, <1>1, <2>2, ParameterAssumption DEF Connect, RegistryExact
  <2>4. UNCHANGED flags
    BY <1>1 DEF Connect
  <2> QED
    BY <1>0, <2>1, <2>2, <2>3, <2>4 DEF RegistryExact, flags
<1>2. ASSUME NEW c \in Client, Disconnect(c) PROVE RegistryExact'
  <2>1. PICK i \in DOMAIN clients : clients[i] = c /\ clients' = RemoveAt(clients, i)
    BY <1>2 DEF Disconnect
  <2>2. /\ IsInjective(clients') /\ Len(clients') = Len(clients) - 1
        /\ \A x : x \in ToSet(clients) /\ x # c => x \in ToSet(clients')
    BY <1>0, <2>1, RemoveAtInjective
  <2>3. server'.clients_count = server.clients_count - 1
    BY <1>2, DisconnectIInv
  <2>4. MaxClients > 0 => server'.clients_count <= MaxClients
    BY <1>0, <2>3, ParameterAssumption DEF RegistryExact
  <2>5. ASSUME NEW d \in Client,
               in_round'[d] \/ want_to_next_round'[d] \/ step_completed'[d] \/ broke'[d]
        PROVE  d \in ToSet(clients) /\ d # c
    <3>1. d # c
      BY <1>2, <2>5 DEF Disconnect, IInv, FlagsOK, NoOne
    <3>2. in_round[d] \/ want_to_next_round[d] \/ step_completed[d] \/ broke[d]
      BY <1>2, <2>5, <3>1 DEF Disconnect, IInv, FlagsOK, NoOne
    <3> QED
      BY <3>1, <3>2 DEF RegistryExact
  <2> QED
    BY <1>0, <2>2, <2>3, <2>4, <2>5 DEF RegistryExact
<1>3. ASSUME NEW c \in Client, Join(c) PROVE RegistryExact'
  BY <1>3, JoinIInv, SameClients DEF Join, RegistryExact, IInv, FlagsOK
<1>4. ASSUME NEW c \in Client, TurnAndWait(c) PROVE RegistryExact'
  BY <1>4, TurnAndWaitIInv, SameClients DEF TurnAndWait, RegistryExact, IInv, FlagsOK
<1>5. ASSUME NEW c \in Client, NEW b \in SUBSET Players, TurnAndStep(c, b)
      PROVE  RegistryExact'
  <2>1. clients' = clients /\ server'.clients_count = server.clients_count
    BY <1>5, TurnAndStepIInv DEF TurnAndStep
  <2>2. ASSUME NEW d \in Client,
               in_round'[d] \/ want_to_next_round'[d] \/ step_completed'[d] \/ broke'[d]
        PROVE  in_round[d] \/ want_to_next_round[d] \/ step_completed[d] \/ broke[d]
    BY <1>5, <2>2 DEF TurnAndStep, NoOne
  <2> QED
    BY <2>1, <2>2, SameClients DEF RegistryExact
<1>6. CASE RejectConnection
  BY <1>6, RejectIInv, SameClients DEF RejectConnection, flags, RegistryExact
<1>7. CASE Elapse
  BY <1>7, ElapseIInv, SameClients DEF Elapse, flags, RegistryExact
<1>8. CASE Warn
  BY <1>8, WarnIInv, SameClients DEF Warn, flags, RegistryExact
<1>9. CASE RefuseRound
  BY <1>9, RefuseIInv, SameClients DEF RefuseRound, flags, RegistryExact
<1>10. CASE StartRound
  <2>1. clients' = clients /\ server'.clients_count = server.clients_count
    BY <1>10, StartRoundIInv DEF StartRound
  <2>2. ASSUME NEW d \in Client,
               in_round'[d] \/ want_to_next_round'[d] \/ step_completed'[d] \/ broke'[d]
        PROVE  in_round[d] \/ want_to_next_round[d] \/ step_completed[d] \/ broke[d]
    BY <1>10, <2>2 DEF StartRound, NewGameData, NoOne
  <2> QED
    BY <2>1, <2>2, SameClients DEF RegistryExact
<1>11. CASE UNCHANGED vars
  BY <1>11 DEF RegistryExact, vars, flags
<1> QED
  BY <1>1, <1>2, <1>3, <1>4, <1>5, <1>6, <1>7, <1>8, <1>9, <1>10, <1>11 DEF Next

\* The list of clients, its counter and the limit agree, and no flag outlives
\* its connection.
THEOREM Registry == Spec => []RegistryExact
<1>1. Init => RegistryExact
  <2> SUFFICES ASSUME Init PROVE RegistryExact
    OBVIOUS
  <2>1. clients = <<>> /\ server.clients_count = 0
    BY DEF Init
  <2>2. Len(clients) = 0 /\ IsInjective(clients)
    BY <2>1 DEF IsInjective
  <2>3. \A c \in Client : ~(in_round[c] \/ want_to_next_round[c]
                              \/ step_completed[c] \/ broke[c])
    BY DEF Init, NoOne
  <2> QED
    BY <2>1, <2>2, <2>3, ParameterAssumption DEF RegistryExact
<1> QED
  BY <1>1, StepRegistry, Inductive, PTL DEF Spec

-----------------------------------------------------------------------------
(* Requests and turns *)

\* No stored request is lost while its client stays.
THEOREM RequestsKept == Spec => RequestKept
<1> DEFINE Kept == \A c \in Client : want_to_next_round[c] /\ ~want_to_next_round'[c]
                     => in_round'[c] \/ c \notin ToSet(clients')
<1>1. ASSUME IInv, RegistryExact, [Next]_vars PROVE [Kept]_vars
  <2> SUFFICES ASSUME NEW d \in Client, Next,
                      want_to_next_round[d], ~want_to_next_round'[d]
               PROVE  in_round'[d] \/ d \notin ToSet(clients')
    BY <1>1
  <2>1. ASSUME NEW c \in Client, Disconnect(c)
        PROVE  d \notin ToSet(clients')
    <3>1. c = d
      BY <1>1, <2>1 DEF Disconnect, IInv, FlagsOK
    <3>2. PICK i \in DOMAIN clients : clients[i] = c /\ clients' = RemoveAt(clients, i)
      BY <2>1 DEF Disconnect
    <3> QED
      BY <1>1, <3>1, <3>2, RemoveAtInjective DEF IInv, FlagsOK, RegistryExact
  <2>2. CASE StartRound
    BY <2>2 DEF StartRound
  <2>3. ASSUME NEW c \in Client, Join(c) PROVE FALSE
    BY <1>1, <2>3 DEF Join, IInv, FlagsOK
  <2> QED
    BY <2>1, <2>2, <2>3 DEF Next, Connect, TurnAndWait, TurnAndStep,
       RejectConnection, Elapse, Warn, RefuseRound, flags
<1> QED
  BY <1>1, Inductive, Registry, PTL DEF Spec, RequestKept

\* A month never gets stuck with all its turns made, while nobody leaves.
THEOREM TurnsNeverStall == Spec => TurnNeverStalls
<1> DEFINE A == server.in_round /\ server'.in_round /\ MonthAwaited
                  /\ ToSet(clients) \subseteq ToSet(clients') => MonthAwaited'
<1>1. ASSUME IInv, RegistryExact, [Next]_vars PROVE [A]_vars
  <2> SUFFICES ASSUME Next, server.in_round, server'.in_round, MonthAwaited,
                      ToSet(clients) \subseteq ToSet(clients')
               PROVE  MonthAwaited'
    BY <1>1
  <2>1. ASSUME NEW c \in Client, Disconnect(c) PROVE FALSE
    <3>1. PICK i \in DOMAIN clients : clients[i] = c /\ clients' = RemoveAt(clients, i)
      BY <2>1 DEF Disconnect
    <3>2. c \notin ToSet(clients')
      BY <1>1, <3>1, RemoveAtInjective DEF IInv, FlagsOK, RegistryExact
    <3>3. c \in ToSet(clients)
      BY <3>1 DEF ToSet
    <3> QED
      BY <3>2, <3>3
  <2>2. ASSUME NEW c \in Client, TurnAndWait(c) PROVE MonthAwaited'
    BY <2>2 DEF TurnAndWait, AllCompleted, MonthAwaited
  <2>3. ASSUME NEW c \in Client, NEW b \in SUBSET Players, TurnAndStep(c, b)
        PROVE  MonthAwaited'
    BY <2>3 DEF TurnAndStep, MonthAwaited
  <2>4. CASE StartRound
    BY <1>1, <2>4, StartRoundIInv
  <2> QED
    BY <2>1, <2>2, <2>3, <2>4 DEF Next, Connect, Join, MonthAwaited,
       RejectConnection, Elapse, Warn, RefuseRound, flags
<1> QED
  BY <1>1, Inductive, Registry, PTL DEF Spec, TurnNeverStalls

-----------------------------------------------------------------------------
(* The beginning of a month *)

\* Nothing was said of a month that begins.
NoBeginning(s) == s.news \cap {"ready", "month"} = {}

LEMMA DeferredNews ==
  ASSUME NEW s \in Record, NoBeginning(s) PROVE NoBeginning(TryToDeferredStartRound(s))
BY TryToDeferredFields DEF NoBeginning

LEMMA EndRoundNews ==
  ASSUME NEW s \in Record, NoBeginning(s)
  PROVE  EndRoundAndWait(s) \in Record /\ NoBeginning(EndRoundAndWait(s))
<1> DEFINE v == StopCountdown(s)
           w == [v EXCEPT !.players_count = 0]
           u == ProcessEndRound(s)
<1>1. v \in Record /\ v.news = s.news
  BY StopCountdownFields
<1> HIDE DEF v
<1>2. w \in Record /\ w.news = s.news
  BY <1>1 DEF Record
<1>3. u = [w EXCEPT !.in_round = FALSE]
  BY <1>1 DEF ProcessEndRound, Record, v
<1> HIDE DEF u, w
<1>4. u \in Record /\ u.news = s.news
  BY <1>2, <1>3 DEF Record
<1>5. EndRoundAndWait(s) = TryToDeferredStartRound(u)
  BY DEF EndRoundAndWait, u
<1> QED
  BY <1>4, <1>5, DeferredNews, EndRoundSettles DEF NoBeginning, Settled

LEMMA UnregisterNews ==
  ASSUME NEW s \in Record, NoBeginning(s), NEW wasPlayer
  PROVE  NoBeginning(Unregister(s, wasPlayer))
<1> DEFINE gone  == [s EXCEPT !.clients_count = @ - 1]
           less  == [gone EXCEPT !.players_count = @ - 1]
           after == IF wasPlayer THEN LosePlayer(gone) ELSE gone
<1>1. gone \in Record /\ gone.news = s.news
  BY DEF Record
<1>2. less \in Record /\ less.news = s.news
  <2> HIDE DEF gone
  <2> QED
    BY <1>1 DEF Record
<1>3. LosePlayer(gone) = IF less.players_count <= 1 THEN EndRoundAndWait(less) ELSE less
  BY DEF LosePlayer
<1>4. Unregister(s, wasPlayer) = IF after.in_round THEN after
                                 ELSE TryToStopDeferredStartRound(after)
  BY DEF Unregister
<1> HIDE DEF gone, less
<1>5. after \in Record /\ NoBeginning(after)
  BY <1>1, <1>2, <1>3, EndRoundNews DEF NoBeginning
<1> DEFINE v == StopCountdown(after)
<1>6. v \in Record /\ v.news = after.news
  BY <1>5, StopCountdownFields
<1>7. TryToStopDeferredStartRound(after) =
        IF after.clients_count <= 1 THEN Say(v, "cancelled") ELSE after
  BY DEF TryToStopDeferredStartRound
<1> HIDE DEF v, after
<1>8. NoBeginning(Say(v, "cancelled"))
  BY <1>5, <1>6 DEF NoBeginning, Say, Record
<1> QED
  BY <1>4, <1>5, <1>7, <1>8

LEMMA StepMonth ==
  ASSUME IInv, Next
  PROVE  NoBeginning(server') \/ \A c \in Client : in_round'[c] => ~step_completed'[c]
<1> DEFINE f == Fresh(server)
<1>1. f \in Record /\ f.news = {} /\ NoBeginning(f)
  BY FreshSettled DEF IInv, Settled, NoBeginning
<1>2. ASSUME NEW c \in Client, Connect(c) PROVE NoBeginning(server')
  <2> DEFINE u == [f EXCEPT !.clients_count = @ + 1]
  <2>1. server' = TryToDeferredStartRound(u)
    BY <1>2 DEF Connect
  <2> HIDE DEF f
  <2>2. u \in Record /\ NoBeginning(u)
    BY <1>1 DEF Record, NoBeginning
  <2> HIDE DEF u
  <2> QED
    BY <2>1, <2>2, DeferredNews
<1>3. ASSUME NEW c \in Client, Disconnect(c) PROVE NoBeginning(server')
  BY <1>1, <1>3, UnregisterNews DEF Disconnect
<1>4. ASSUME NEW c \in Client, Join(c) \/ TurnAndWait(c) PROVE NoBeginning(server')
  <2>1. server'.news = f.news
    BY <1>1, <1>4 DEF Join, TurnAndWait, Record
  <2> QED
    BY <1>1, <2>1 DEF NoBeginning
<1>5. ASSUME NEW c \in Client, NEW b \in SUBSET Players, TurnAndStep(c, b)
      PROVE  \A d \in Client : in_round'[d] => ~step_completed'[d]
  <2>1. in_round' \in {in_round, NoOne}
        /\ step_completed' = [d \in Client |-> ~in_round[d] /\ step_completed[d]]
    BY <1>5 DEF TurnAndStep
  <2> QED
    BY <2>1 DEF NoOne
<1>6. ASSUME RejectConnection \/ Elapse \/ Warn PROVE NoBeginning(server')
  <2> HIDE DEF f
  <2>1. \/ server' = Say(f, "full")
        \/ \E t : server' = [f EXCEPT !.time_to_next_event = t]
        \/ server' = WarnAll([f EXCEPT !.time_to_next_event = TimeBetween])
    BY <1>6 DEF RejectConnection, Elapse, Warn, f
  <2> QED
    BY <1>1, <2>1 DEF Say, WarnAll, NoBeginning, Record
<1>7. ASSUME RefuseRound PROVE NoBeginning(server')
  <2> DEFINE v == StopCountdown(f)
             u == Say(v, "refused")
  <2>1. server' = TryToDeferredStartRound(u)
    BY <1>7 DEF RefuseRound
  <2> HIDE DEF f
  <2>2. v \in Record /\ v.news = {}
    BY <1>1, StopCountdownFields
  <2> HIDE DEF v
  <2>3. u \in Record /\ NoBeginning(u)
    BY <2>2 DEF Say, Record, News, NoBeginning
  <2> HIDE DEF u
  <2> QED
    BY <2>1, <2>3, DeferredNews
<1>8. ASSUME StartRound PROVE \A c \in Client : in_round'[c] => ~step_completed'[c]
  <2>1. \A c \in Client : ~in_round[c]
    BY <1>8, StartRoundIInv DEF IInv, PlayersOnlyInRound
  <2> QED
    BY <1>8, <2>1 DEF StartRound, NewGameData, IInv, FlagsOK
<1> QED
  BY <1>2, <1>3, <1>4, <1>5, <1>6, <1>7, <1>8 DEF Next

\* Whenever a round or a month is announced, every player has its turn to
\* make, whatever an earlier round left behind.
THEOREM MonthsStartOpen == Spec => []MonthStartsOpen
<1>1. Init => MonthStartsOpen
  BY DEF Init, MonthStartsOpen
<1>2. IInv /\ MonthStartsOpen /\ [Next]_vars => MonthStartsOpen'
  <2>1. ASSUME IInv, Next PROVE MonthStartsOpen'
    BY <2>1, StepMonth DEF MonthStartsOpen, NoBeginning
  <2>2. ASSUME MonthStartsOpen, UNCHANGED vars PROVE MonthStartsOpen'
    BY <2>2 DEF MonthStartsOpen, vars, flags
  <2> QED
    BY <2>1, <2>2
<1> QED
  BY <1>1, <1>2, Inductive, PTL DEF Spec

-----------------------------------------------------------------------------
(* Countdown: what the handlers do to time_to_next_event *)

LEMMA IntervalType ==
  Interval \in Nat /\ TicksPerSecond \in Nat /\ TicksPerSecond >= 1
BY ParameterAssumption, TickAssumption DEF Interval

LEMMA DeferredTime ==
  ASSUME NEW s \in Record
  PROVE  LET t == TryToDeferredStartRound(s)
         IN  /\ t.time_to_next_event \in {s.time_to_next_event, TimeBetween}
             /\ s.time_to_next_event >= 0
                  => t.time_to_next_event = s.time_to_next_event
<1>1. CASE ~(~s.in_round /\ s.time_to_next_event < 0 /\ s.clients_count > 1)
  BY <1>1 DEF TryToDeferredStartRound
<1>2. CASE ~s.in_round /\ s.time_to_next_event < 0 /\ s.clients_count > 1
  <2> DEFINE u == [s EXCEPT !.time_to_next_event = TimeBetween,
                            !.backward_warnings_counter = WarningsBeforeRound]
  <2>a. TimeBetween \in Nat /\ WarningsBeforeRound \in Nat
    BY ParameterAssumption
  <2>1. u \in Record /\ u.time_to_next_event = TimeBetween
    BY <2>a DEF Record
  <2>2. TryToDeferredStartRound(s) = WarnAll(u)
    BY <1>2 DEF TryToDeferredStartRound
  <2> HIDE DEF u
  <2>3. WarnAll(u).time_to_next_event = TimeBetween
    BY <2>1 DEF WarnAll, Say, Record
  <2>4. ~(s.time_to_next_event >= 0)
    BY <1>2 DEF Record
  <2> QED
    BY <2>2, <2>3, <2>4
<1> QED
  BY <1>1, <1>2

LEMMA EndRoundTime ==
  ASSUME NEW s \in Record
  PROVE  EndRoundAndWait(s).time_to_next_event \in {-1, TimeBetween}
<1> DEFINE e == ProcessEndRound(s)
<1>1. e \in Record /\ e.time_to_next_event = -1
  <2> DEFINE v == StopCountdown(s)
             w == [v EXCEPT !.players_count = 0]
  <2>1. v \in Record /\ v.time_to_next_event = -1
    BY StopCountdownFields
  <2> HIDE DEF v
  <2>2. w \in Record /\ w.time_to_next_event = -1
    BY <2>1 DEF Record
  <2>3. e = [w EXCEPT !.in_round = FALSE]
    BY <2>1 DEF ProcessEndRound, Record, v
  <2> HIDE DEF e, w
  <2> QED
    BY <2>2, <2>3 DEF Record
<1>2. EndRoundAndWait(s) = TryToDeferredStartRound(e)
  BY DEF EndRoundAndWait
<1> HIDE DEF e
<1> QED
  BY <1>1, <1>2, DeferredTime

LEMMA UnregisterTime ==
  ASSUME NEW s \in Record, NEW wasPlayer
  PROVE  Unregister(s, wasPlayer).time_to_next_event
           \in {s.time_to_next_event, -1, TimeBetween}
<1> DEFINE gone  == [s EXCEPT !.clients_count = @ - 1]
           less  == [gone EXCEPT !.players_count = @ - 1]
           after == IF wasPlayer THEN LosePlayer(gone) ELSE gone
<1>1. /\ gone \in Record /\ less \in Record
      /\ gone.time_to_next_event = s.time_to_next_event
      /\ less.time_to_next_event = s.time_to_next_event
  <2>1. gone \in Record /\ gone.time_to_next_event = s.time_to_next_event
    BY DEF Record
  <2> HIDE DEF gone
  <2>2. less \in Record /\ less.time_to_next_event = gone.time_to_next_event
    BY <2>1 DEF Record
  <2> QED
    BY <2>1, <2>2
<1>2. LosePlayer(gone) = IF less.players_count <= 1 THEN EndRoundAndWait(less) ELSE less
  BY DEF LosePlayer
<1>3. Unregister(s, wasPlayer) = IF after.in_round THEN after
                                 ELSE TryToStopDeferredStartRound(after)
  BY DEF Unregister
<1> HIDE DEF gone, less
<1>4. after \in Record
  BY <1>1, <1>2, EndRoundSettles DEF Settled
<1>5. after.time_to_next_event \in {s.time_to_next_event, -1, TimeBetween}
  BY <1>1, <1>2, EndRoundTime
<1> HIDE DEF after
<1>6. TryToStopDeferredStartRound(after).time_to_next_event
        \in {after.time_to_next_event, -1}
  BY <1>4 DEF TryToStopDeferredStartRound, Say, StopCountdown, Record
<1> QED
  BY <1>3, <1>5, <1>6

\* A handler leaves the countdown alone, stops it, or begins an interval.
LEMMA HandlerTime ==
  ASSUME IInv, Handle
  PROVE  CountdownRuns' =>
           /\ server'.time_to_next_event =
                IF CountdownRuns THEN server.time_to_next_event ELSE TimeBetween
           /\ ~CountdownRuns => since' = 0
           /\ CountdownRuns => since' = since
<1> DEFINE f == Fresh(server)
           Timed == server'.time_to_next_event =
                      IF CountdownRuns THEN server.time_to_next_event ELSE TimeBetween
<1>1. /\ Settled(f) /\ f \in Record
      /\ f.in_round = server.in_round
      /\ f.clients_count = server.clients_count
      /\ f.time_to_next_event = server.time_to_next_event
  BY FreshSettled DEF IInv, Settled
<1>2. server.time_to_next_event \in Nat \cup {-1}
  BY DEF IInv, Settled, Record
<1>3. SUFFICES ASSUME CountdownRuns'
               PROVE  Timed
  BY DEF Handle, BeginInterval
<1>4. ASSUME NEW c \in Client, Connect(c) PROVE Timed
  <2> DEFINE u == [f EXCEPT !.clients_count = @ + 1]
  <2>1. /\ u \in Record /\ u.time_to_next_event = server.time_to_next_event
    BY <1>1 DEF Record
  <2>2. server' = TryToDeferredStartRound(u)
    BY <1>4 DEF Connect
  <2> HIDE DEF u
  <2> QED
    BY <1>2, <1>3, <2>1, <2>2, DeferredTime DEF CountdownRuns
<1>5. ASSUME NEW c \in Client, Disconnect(c) PROVE Timed
  <2>1. server' = Unregister(f, in_round[c])
    BY <1>5 DEF Disconnect
  <2>2. in_round[c] \in BOOLEAN /\ (in_round[c] => f.in_round)
    BY <1>1 DEF IInv, FlagsOK, PlayersOnlyInRound
  <2> HIDE DEF f
  <2>3. server'.time_to_next_event \in {f.time_to_next_event, -1, TimeBetween}
    BY <1>1, <2>1, UnregisterTime
  <2>4. f.time_to_next_event >= 0
          => server' = [f EXCEPT !.clients_count = f.clients_count - 1]
    BY <1>1, <1>3, <2>1, <2>2, UnregisterSettles DEF CountdownRuns
  <2>5. f.time_to_next_event >= 0
          => server'.time_to_next_event = f.time_to_next_event
    BY <1>1, <2>4 DEF Record
  <2> QED
    BY <1>1, <1>2, <1>3, <2>3, <2>5 DEF CountdownRuns
<1>6. ASSUME NEW c \in Client, Join(c) \/ TurnAndWait(c) PROVE Timed
  <2>1. server'.time_to_next_event = server.time_to_next_event
    BY <1>1, <1>6 DEF Join, TurnAndWait, Record
  <2> QED
    BY <1>3, <2>1 DEF CountdownRuns
<1>7. ASSUME NEW c \in Client, NEW bankrupt \in SUBSET Players, TurnAndStep(c, bankrupt)
      PROVE  Timed
  <2> DEFINE n == Cardinality(bankrupt)
             m == [f EXCEPT !.news = @ \cup {"month"}]
             u == [m EXCEPT !.players_count = @ - n]
  <2>1. server.in_round /\ server.time_to_next_event = -1
    BY <1>7 DEF TurnAndStep, IInv, PlayersOnlyInRound, Settled, Record
  <2>2. n \in Nat
    BY ClientAssumption, FS_Subset, FS_CardinalityType DEF Players
  <2>3. server' = TryToProcessWin(u, broke')
    BY <1>7 DEF TurnAndStep, Say
  <2> HIDE DEF f, n
  <2>4. u \in Record /\ u.time_to_next_event = -1
    <3>1. m \in Record /\ m.time_to_next_event = -1
      BY <1>1, <2>1 DEF Record, News
    <3> HIDE DEF m
    <3> QED
      BY <2>2, <3>1 DEF Record
  <2> HIDE DEF u
  <2>5. Winners(u, broke') \in SUBSET Client
    BY LenProperties DEF Winners, Players, FirstSolvent, IInv, FlagsOK
  <2>6. [u EXCEPT !.winners = Winners(u, broke')] \in Record
    BY <2>4, <2>5 DEF Record
  <2>7. server'.time_to_next_event \in {-1, TimeBetween}
    BY <2>3, <2>4, <2>6, EndRoundTime DEF TryToProcessWin
  <2> QED
    BY <1>3, <2>1, <2>7 DEF CountdownRuns
<1>8. ASSUME RejectConnection PROVE Timed
  <2>1. server'.time_to_next_event = server.time_to_next_event
    BY <1>1, <1>8 DEF RejectConnection, Say, Record
  <2> QED
    BY <1>3, <2>1 DEF CountdownRuns
<1> QED
  BY <1>4, <1>5, <1>6, <1>7, <1>8 DEF Handle

\* An event begins the next interval, or ends the countdown.
LEMMA EventTime ==
  ASSUME IInv, Warn \/ RefuseRound \/ StartRound
  PROVE  server'.time_to_next_event \in {-1, TimeBetween}
<1> DEFINE f == Fresh(server)
<1>1. Settled(f) /\ f \in Record
  BY FreshSettled DEF IInv, Settled
<1> HIDE DEF f
<1>2. ASSUME Warn PROVE server'.time_to_next_event = TimeBetween
  BY <1>1, <1>2 DEF Warn, WarnAll, Say, Record, f
<1>3. ASSUME RefuseRound PROVE server'.time_to_next_event \in {-1, TimeBetween}
  <2> DEFINE u == Say(StopCountdown(f), "refused")
  <2>1. u \in Record /\ u.time_to_next_event = -1
    BY <1>1 DEF Say, StopCountdown, Record, News
  <2>2. server' = TryToDeferredStartRound(u)
    BY <1>3 DEF RefuseRound, f
  <2> HIDE DEF u
  <2> QED
    BY <2>1, <2>2, DeferredTime
<1>4. ASSUME StartRound PROVE server'.time_to_next_event = -1
  BY <1>1, <1>4 DEF StartRound, BeginRound, Say, StopCountdown, Record, f
<1> QED
  BY <1>2, <1>3, <1>4

-----------------------------------------------------------------------------
(* Sums of times *)

LEMMA ProductType == \A m, n \in Nat : m * n \in Nat
OBVIOUS

LEMMA TimeoutSum ==
  ASSUME NEW interval \in Int, NEW told \in Nat, NEW gone \in Int, NEW rest \in Int,
         NEW timeout \in Int, NEW ticks \in Int,
         interval + told <= gone + rest + ticks - 1, rest <= timeout
  PROVE  interval <= gone + timeout + ticks - 1
OBVIOUS

LEMMA SecondSum ==
  ASSUME NEW interval \in Int, NEW told \in Int, NEW gone \in Int, NEW rest \in Nat,
         NEW after \in Nat, NEW ticks \in Nat, NEW later \in Int, ticks >= 1,
         interval + told <= gone + rest + ticks - 1, told + 1 = ticks,
         after = rest \/ after = rest - ticks,
         later = gone + 1 \/ (later = gone /\ gone >= interval)
  PROVE  interval <= later + after + ticks - 1
OBVIOUS

-----------------------------------------------------------------------------
(* The two bounds *)

\* What remains of the event and what went by make the interval, but for the
\* ticks that time() does not tell.
RemainderCovers ==
  CountdownRuns =>
    Interval + phase <= since + Remaining * TicksPerSecond + TicksPerSecond - 1

\* What select() may still take and what went by make it too.
TimeoutCovers ==
  pc = "select" /\ left # NoTimeout =>
    /\ CountdownRuns
    /\ Interval <= since + left + TicksPerSecond - 1

\* The inductive invariant.
ClockInv == IInv /\ ClockTypeOK /\ RemainderCovers /\ TimeoutCovers

LEMMA RemainingType ==
  ASSUME IInv, ClockTypeOK, CountdownRuns
  PROVE  Remaining \in Nat /\ server.time_to_next_event \in Nat
BY DEF IInv, Settled, Record, CountdownRuns, ClockTypeOK, Remaining

LEMMA InitClock == CountdownInit => ClockInv
<1> SUFFICES ASSUME CountdownInit PROVE ClockInv
  OBVIOUS
<1>1. IInv /\ ~CountdownRuns
  BY InitIInv DEF CountdownInit, Init, CountdownRuns
<1>2. ClockTypeOK
  BY IntervalType DEF CountdownInit, ClockTypeOK
<1> QED
  BY <1>1, <1>2 DEF ClockInv, RemainderCovers, TimeoutCovers, CountdownInit

LEMMA TickClock == ASSUME ClockInv, Tick PROVE ClockInv'
<1> USE IntervalType
<1>1. /\ UNCHANGED vars /\ pc' = pc
      /\ phase' = (phase + 1) % TicksPerSecond
      /\ left' = IF left > 0 THEN left - 1 ELSE left
      /\ delta_time' = IF left # NoTimeout /\ phase' = 0 THEN delta_time + 1
                                                        ELSE delta_time
      /\ since' = IF CountdownRuns /\ since < Interval THEN since + 1 ELSE since
  BY DEF Tick, Later
<1>2. /\ pc \in {"loop", "select", "handle"}
      /\ phase \in 0 .. TicksPerSecond - 1
      /\ left \in Nat \cup {-1} /\ delta_time \in Nat
      /\ since \in 0 .. Interval
      /\ pc # "select" => left = -1 /\ delta_time = 0
  BY DEF ClockInv, ClockTypeOK, NoTimeout
<1>3. /\ phase + 1 < TicksPerSecond => phase' = phase + 1
      /\ phase + 1 = TicksPerSecond => phase' = 0
      /\ phase' \in 0 .. TicksPerSecond - 1
      /\ phase + 1 < TicksPerSecond \/ phase + 1 = TicksPerSecond
  BY <1>1, <1>2
<1>4. IInv'
  BY <1>1, StepIInv DEF ClockInv
<1>5. ClockTypeOK'
  BY <1>1, <1>2, <1>3 DEF ClockTypeOK, NoTimeout
<1>6. TimeoutCovers'
  BY <1>1, <1>2 DEF ClockInv, TimeoutCovers, NoTimeout, CountdownRuns, vars
<1>7. RemainderCovers'
  <2> SUFFICES ASSUME CountdownRuns
               PROVE  Interval + phase' <= since' + Remaining' * TicksPerSecond + TicksPerSecond - 1
    BY <1>1 DEF RemainderCovers, CountdownRuns, vars
  <2>1. /\ Remaining \in Nat /\ Remaining' \in Nat
        /\ server.time_to_next_event \in Nat
        /\ server'.time_to_next_event = server.time_to_next_event
    <3>1. Remaining \in Nat /\ server.time_to_next_event \in Nat
      BY RemainingType DEF ClockInv
    <3>2. server' = server /\ delta_time' \in Nat
      BY <1>1, <1>5 DEF vars, ClockTypeOK
    <3> QED
      BY <3>1, <3>2 DEF Remaining
  <2>2. Interval + phase <= since + Remaining * TicksPerSecond + TicksPerSecond - 1
    BY DEF ClockInv, RemainderCovers
  <2>3. CASE delta_time' = delta_time
    <3>1. Remaining' = Remaining
      BY <2>1, <2>3 DEF Remaining
    <3>2. Remaining * TicksPerSecond \in Nat
      BY <2>1
    <3> QED
      BY <1>1, <1>2, <1>3, <2>2, <3>1, <3>2
  <2>4. CASE delta_time' = delta_time + 1 /\ phase' = 0
    <3>1. Remaining' = Remaining \/ Remaining' = Remaining - 1
      BY <1>2, <2>1, <2>4 DEF Remaining
    <3>2. (Remaining - 1) * TicksPerSecond = Remaining * TicksPerSecond - TicksPerSecond
      BY <2>1
    <3>3. \/ Remaining' * TicksPerSecond = Remaining * TicksPerSecond
          \/ Remaining' * TicksPerSecond = Remaining * TicksPerSecond - TicksPerSecond
      BY <3>1, <3>2
    <3>4. Remaining * TicksPerSecond \in Nat /\ Remaining' * TicksPerSecond \in Nat
      BY <2>1, ProductType
    <3>5. phase + 1 = TicksPerSecond
      BY <1>2, <1>3, <2>4
    <3> DEFINE before == Remaining * TicksPerSecond
               after  == Remaining' * TicksPerSecond
    <3>6. /\ before \in Nat /\ after \in Nat
          /\ after = before \/ after = before - TicksPerSecond
          /\ Interval + phase <= since + before + TicksPerSecond - 1
      BY <2>2, <3>3, <3>4
    <3> HIDE DEF before, after
    <3>7. since' = since + 1 \/ (since' = since /\ since >= Interval)
      <4>1. CountdownRuns /\ ~(since < Interval) => since >= Interval
        BY <1>2
      <4> QED
        BY <1>1, <4>1
    <3>8. since' \in Int /\ since \in Int /\ phase \in Int
      BY <1>2, <3>7
    <3>9. Interval <= since' + after + TicksPerSecond - 1
      <4>1. Interval \in Int /\ TicksPerSecond \in Nat /\ TicksPerSecond >= 1
        OBVIOUS
      <4>2. before \in Nat /\ after \in Nat /\ (after = before \/ after = before - TicksPerSecond)
        BY <3>6
      <4>3. Interval + phase <= since + before + TicksPerSecond - 1
        BY <3>6
      <4> HIDE IntervalType
      <4> QED
        BY <3>5, <3>7, <3>8, <4>1, <4>2, <4>3, SecondSum
    <3> QED
      BY <2>4, <3>9 DEF after
  <2> QED
    BY <1>1, <1>2, <2>3, <2>4
<1> QED
  BY <1>4, <1>5, <1>6, <1>7 DEF ClockInv

LEMMA CallSelectClock == ASSUME ClockInv, CallSelect PROVE ClockInv'
<1> USE IntervalType
<1>1. /\ pc = "loop" /\ pc' = "select" /\ delta_time' = 0
      /\ left' = Timeout(server.time_to_next_event)
      /\ UNCHANGED <<vars, phase, since>>
  BY DEF CallSelect
<1>2. /\ IInv /\ ClockTypeOK /\ delta_time = 0
      /\ server.time_to_next_event \in Nat \cup {-1}
      /\ phase \in 0 .. TicksPerSecond - 1 /\ since \in 0 .. Interval
      /\ server' = server /\ phase' = phase /\ since' = since
  BY <1>1 DEF ClockInv, ClockTypeOK, IInv, Settled, Record, vars
<1>3. IInv'
  BY <1>1, <1>2, StepIInv
<1>4. left' \in Nat \cup {NoTimeout}
  BY <1>1, <1>2, TickAssumption DEF Timeout, NoTimeout
<1>5. ClockTypeOK'
  BY <1>1, <1>2, <1>4 DEF ClockTypeOK
<1>6. Remaining' = Remaining /\ (CountdownRuns' <=> CountdownRuns)
  BY <1>1, <1>2 DEF Remaining, CountdownRuns
<1>7. RemainderCovers'
  BY <1>2, <1>6 DEF ClockInv, RemainderCovers
<1>8. TimeoutCovers'
  <2> SUFFICES ASSUME left' # NoTimeout
               PROVE  CountdownRuns /\ Interval <= since + left' + TicksPerSecond - 1
    BY <1>2, <1>6 DEF TimeoutCovers
  <2>1. CountdownRuns /\ server.time_to_next_event \in Nat
    BY <1>1, <1>2 DEF Timeout, CountdownRuns, NoTimeout
  <2>2. Remaining = server.time_to_next_event
    BY <1>2, <2>1 DEF Remaining
  <2> DEFINE rest == server.time_to_next_event * TicksPerSecond
  <2>3. rest \in Nat /\ (server.time_to_next_event = 0 => rest = 0)
    BY <2>1
  <2>4. Interval + phase <= since + rest + TicksPerSecond - 1
    BY <2>1, <2>2 DEF ClockInv, RemainderCovers
  <2>5. left' \in Nat /\ rest <= left'
    BY <1>1, <2>1, <2>3, TickAssumption DEF Timeout
  <2> HIDE DEF rest
  <2> QED
    <3>1. phase \in Nat /\ since \in Int /\ Interval \in Int /\ TicksPerSecond \in Int
      BY <1>2
    <3>2. rest \in Int /\ left' \in Int /\ rest <= left'
      BY <2>3, <2>5
    <3>3. Interval <= since + left' + TicksPerSecond - 1
      BY <2>4, <3>1, <3>2, TimeoutSum
    <3> QED
      BY <2>1, <3>3
<1> QED
  BY <1>3, <1>5, <1>7, <1>8 DEF ClockInv

\* When select() returns for a descriptor, what remains of the event is kept.
LEMMA ReturnIsElapse ==
  ASSUME IInv, ClockTypeOK, SelectReturns
  PROVE  /\ [Elapse]_vars
         /\ CountdownRuns' <=> CountdownRuns
         /\ CountdownRuns => Remaining' = Remaining
<1>1. /\ server.time_to_next_event \in Nat \cup {-1} /\ delta_time \in Nat
      /\ server \in Record /\ Fresh(server) \in Record
      /\ UNCHANGED <<clients, flags>> /\ delta_time' = 0
  BY FreshSettled DEF IInv, Settled, Record, ClockTypeOK, SelectReturns
<1>2. CASE server.time_to_next_event > 0 /\ delta_time > 0
  <2>1. Remaining \in 0 .. server.time_to_next_event - 1
    BY <1>1, <1>2 DEF Remaining
  <2>2. server' = [Fresh(server) EXCEPT !.time_to_next_event = Remaining]
    BY <1>2 DEF SelectReturns
  <2>3. Elapse
    BY <1>1, <1>2, <2>1, <2>2 DEF Elapse
  <2>4. server'.time_to_next_event = Remaining
    BY <1>1, <2>2 DEF Record
  <2> QED
    BY <1>1, <1>2, <2>1, <2>3, <2>4 DEF CountdownRuns, Remaining
<1>3. CASE ~(server.time_to_next_event > 0 /\ delta_time > 0)
  <2>1. server' = server
    BY <1>3 DEF SelectReturns
  <2> QED
    BY <1>1, <1>3, <2>1 DEF vars, CountdownRuns, Remaining
<1> QED
  BY <1>2, <1>3

LEMMA SelectReturnsClock == ASSUME ClockInv, SelectReturns PROVE ClockInv'
<1>1. /\ CountdownRuns' <=> CountdownRuns
      /\ CountdownRuns => Remaining' = Remaining
      /\ [Elapse]_vars
  BY ReturnIsElapse DEF ClockInv
<1>2. IInv'
  BY <1>1, StepIInv, ElapseIInv DEF ClockInv
<1>3. ClockTypeOK'
  BY DEF ClockInv, ClockTypeOK, SelectReturns
<1> QED
  BY <1>1, <1>2, <1>3
     DEF ClockInv, RemainderCovers, TimeoutCovers, SelectReturns

\* With the whole interval still to come both bounds hold.
LEMMA NewInterval ==
  ASSUME phase \in 0 .. TicksPerSecond - 1,
         CountdownRuns' => server'.time_to_next_event = TimeBetween /\ since' = 0,
         delta_time' = 0, phase' = phase
  PROVE  RemainderCovers'
<1> SUFFICES ASSUME CountdownRuns'
             PROVE  Interval + phase' <= since' + Remaining' * TicksPerSecond + TicksPerSecond - 1
  BY DEF RemainderCovers
<1>1. Remaining' = TimeBetween
  BY ParameterAssumption DEF Remaining
<1>2. Remaining' * TicksPerSecond = Interval
  BY <1>1 DEF Interval
<1> QED
  BY <1>2, IntervalType

LEMMA TimeOutClock == ASSUME ClockInv, SelectTimesOut PROVE ClockInv'
<1>1. /\ Warn \/ RefuseRound \/ StartRound
      /\ pc' = "loop" /\ left' = NoTimeout /\ delta_time' = 0 /\ since' = 0
      /\ phase' = phase
  BY DEF SelectTimesOut
<1>2. IInv' /\ (CountdownRuns' => server'.time_to_next_event = TimeBetween)
  BY <1>1, StepIInv, EventTime DEF ClockInv, Next, CountdownRuns
<1>3. ClockTypeOK'
  BY <1>1, IntervalType DEF ClockInv, ClockTypeOK
<1>4. RemainderCovers'
  BY <1>1, <1>2, NewInterval DEF ClockInv, ClockTypeOK
<1> QED
  BY <1>1, <1>2, <1>3, <1>4 DEF ClockInv, TimeoutCovers

LEMMA HandleClock == ASSUME ClockInv, Handle PROVE ClockInv'
<1>1. /\ pc = "handle" /\ UNCHANGED <<pc, phase, left, delta_time>>
      /\ [Next]_vars /\ since' \in {0, since}
  BY DEF Handle, Next, BeginInterval
<1>2. IInv'
  BY <1>1, StepIInv DEF ClockInv
<1>3. ClockTypeOK' /\ delta_time = 0
  BY <1>1, IntervalType DEF ClockInv, ClockTypeOK
<1>4. RemainderCovers'
  <2>1. CASE CountdownRuns /\ CountdownRuns'
    <3>1. Remaining' = Remaining /\ since' = since /\ phase' = phase
      BY <1>1, <2>1, HandlerTime DEF Remaining, ClockInv
    <3> QED
      BY <2>1, <3>1 DEF ClockInv, RemainderCovers
  <2>2. CASE ~CountdownRuns
    BY <1>1, <1>3, <2>2, HandlerTime, NewInterval DEF ClockInv, ClockTypeOK
  <2>3. CASE ~CountdownRuns'
    BY <2>3 DEF RemainderCovers
  <2> QED
    BY <2>1, <2>2, <2>3
<1> QED
  BY <1>1, <1>2, <1>3, <1>4 DEF ClockInv, TimeoutCovers

LEMMA QuietClock ==
  ASSUME ClockInv, EndOfIteration \/ UNCHANGED countdownVars PROVE ClockInv'
<1>1. /\ UNCHANGED <<vars, phase, left, delta_time, since>>
      /\ pc' = pc \/ (pc = "handle" /\ pc' = "loop")
  BY DEF EndOfIteration, countdownVars, clock
<1>2. IInv'
  BY <1>1, StepIInv DEF ClockInv
<1>3. ClockTypeOK'
  BY <1>1 DEF ClockInv, ClockTypeOK
<1>4. RemainderCovers' /\ TimeoutCovers'
  BY <1>1 DEF ClockInv, RemainderCovers, TimeoutCovers, Remaining, CountdownRuns, vars
<1> QED
  BY <1>2, <1>3, <1>4 DEF ClockInv

THEOREM ClockInductive == CountdownSpec => []ClockInv
<1>1. ClockInv /\ [CountdownNext]_countdownVars => ClockInv'
  BY TickClock, CallSelectClock, SelectReturnsClock, TimeOutClock, HandleClock, QuietClock
     DEF CountdownNext
<1> QED
  BY <1>1, InitClock, PTL DEF CountdownSpec

-----------------------------------------------------------------------------
(* The theorems *)

\* The clock keeps its type: select() is never given a negative timeout, and
\* what is left of one is counted only inside it.
THEOREM ClockTypes == CountdownSpec => []ClockTypeOK
<1>1. ClockInv => ClockTypeOK
  BY DEF ClockInv
<1> QED
  BY <1>1, ClockInductive, PTL

\* However often clients make select() return, and whatever parts of seconds
\* time() does not tell, no event comes a second before its interval is over.
THEOREM NoEventIsEarly == CountdownSpec => []NeverEarly
<1>1. ASSUME ClockInv PROVE NeverEarly
  <2> SUFFICES ASSUME pc = "select", left = 0
               PROVE  since >= Interval - (TicksPerSecond - 1)
    BY DEF NeverEarly
  <2>1. Interval <= since + left + TicksPerSecond - 1
    BY <1>1 DEF ClockInv, TimeoutCovers, NoTimeout
  <2>2. since \in Int
    BY <1>1, IntervalType DEF ClockInv, ClockTypeOK
  <2> QED
    BY <2>1, <2>2, IntervalType
<1> QED
  BY <1>1, ClockInductive, PTL

\* Every step of the loop is a step of Rounds or none: with the clock as it
\* is, the code does nothing that module Rounds does not allow.
THEOREM LoopImplementsRounds == CountdownSpec => ImplementsRounds
<1>1. ASSUME ClockInv, [CountdownNext]_countdownVars PROVE [Next]_vars
  <2>1. CASE SelectReturns
    <3>1. [Elapse]_vars
      BY <1>1, <2>1, ReturnIsElapse DEF ClockInv
    <3> QED
      BY <3>1 DEF Next
  <2>2. CASE Handle \/ SelectTimesOut
    BY <2>2 DEF Handle, SelectTimesOut, Next
  <2>3. CASE Tick \/ CallSelect \/ EndOfIteration
    BY <2>3 DEF Tick, CallSelect, EndOfIteration
  <2>4. CASE UNCHANGED countdownVars
    BY <2>4 DEF countdownVars
  <2> QED
    BY <1>1, <2>1, <2>2, <2>3, <2>4 DEF CountdownNext
<1>2. CountdownInit => Init
  BY DEF CountdownInit
<1> QED
  BY <1>1, <1>2, ClockInductive, PTL DEF CountdownSpec, ImplementsRounds, Spec

\* What is proved of Rounds holds of the loop with its clock: between rounds
\* the timeout runs exactly while two clients are connected.
THEOREM LoopCountdown == CountdownSpec => []CountdownIffPossible
BY LoopImplementsRounds, CountdownTheorem, PTL DEF ImplementsRounds

=============================================================================
