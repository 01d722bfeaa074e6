------------------------------ MODULE Auction ------------------------------
(***************************************************************************)
(* The requests the players of a round make during a month, and the two    *)
(* auctions at its end (auctions.c, do_cmd_buy(), do_cmd_sell() and        *)
(* game_process_next_step() of game.c).                                    *)
(*                                                                         *)
(* Client is the set of client_info blocks malloc() gives out: a client    *)
(* that connects may get the block of one that left.  The commands are     *)
(* handlers of their own; the last turn of a month is the handler whose    *)
(* loops run in the phases "raw", "prod" and "books", where no other       *)
(* handler can run.  The rest of the lobby is in module Rounds, and the    *)
(* other books of a company in module Company: here production is any      *)
(* number, and any set of players goes bankrupt.                           *)
(***************************************************************************)
EXTENDS RequestBook, FiniteSets

CONSTANTS
  Client,
  Word,             \* unsigned int is arithmetic modulo Word
  RequestCount,     \* the counts players ask for, 0 takes a request back
  BidCost,          \* the costs players name in "buy"
  OfferCost,        \* the costs players name in "sell"
  Production,       \* the productions a company makes in a month
  MaxPlayersCount,  \* bound of this model on sinfo->players_count
  MaxStock          \* bound of this model on the productions of a company

ASSUME AuctionAssumption ==
  /\ IsFiniteSet(Client)
  /\ Word \in Nat \ {0} /\ MaxStock \in 2 .. Word - 1
  /\ MaxPlayersCount \in Nat
  /\ RequestCount \subseteq 0 .. Word - 1
  /\ BidCost \subseteq Nat /\ OfferCost \subseteq Nat
  /\ Production \subseteq Nat

VARIABLES
  status,         \* client_info: in_round, want_to_next_round, or no client
  players_count,  \* sinfo->players_count
  level,          \* sinfo->level
  stock,          \* client_info.prod_count
  asked,          \* buy_raw_count and _cost, sell_prod_count and _cost
  book,           \* sinfo->buy_raw and sinfo->sell_prod
  phase,          \* "lobby", "trade", or the loop of the last turn
  left,           \* market_count, as make_auction() counts it down
  deal            \* what the auctions of this last turn began with and did

vars == <<status, players_count, level, stock, asked, book, phase, left, deal>>
books == <<level, stock, asked, book, left, deal>>

Status == {"free", "spectator", "requester", "player"}

Players == {c \in Client : status[c] = "player"}
Connected == {c \in Client : status[c] # "free"}

NoOffers == [c \in Client |-> NoOffer]
Nothing == [c \in Client |-> 0]

\* No last turn is being processed: its local variables are gone.
NotCounting == [kind \in Kind |-> 0]
NoDeal == [market |-> NotCounting, offered |-> [kind \in Kind |-> NoOffers],
           traded |-> [kind \in Kind |-> Nothing]]

-----------------------------------------------------------------------------
(* The market *)

\* raw_count_per_player and prod_count_per_player, for the levels 0 to 4
PerPlayer == [raw  |-> <<2, 3, 4, 5, 6>>, prod |-> <<6, 5, 4, 3, 2>>]

min_raw_price == <<800, 650, 500, 400, 300>>
max_prod_price == <<6500, 6000, 5500, 5000, 4500>>

level_change_probability ==
  << <<4, 4, 2, 1, 1>>,
     <<3, 4, 3, 1, 1>>,
     <<1, 3, 4, 3, 1>>,
     <<1, 1, 3, 4, 3>>,
     <<1, 1, 2, 4, 4>> >>

\* get_market_raw_count() and get_market_prod_count()
Market(kind) == (PerPlayer[kind][level + 1] * players_count) \div 2

\* The levels change_level() may choose after each level.
NextLevels ==
  [l \in 0 .. 4 |->
     LET row == level_change_probability[l + 1]
         sum == [i \in 0 .. 5 |-> FoldLeft(+, 0, SubSeq(row, 1, i))]
     IN  {i \in 0 .. 4 : \E d \in Draws(11) : 1 + d \in sum[i] + 1 .. sum[i + 1]}]

-----------------------------------------------------------------------------
Init ==
  /\ status = [c \in Client |-> "free"]
  /\ players_count = 0
  /\ level = 2
  /\ stock = [c \in Client |-> 2]
  /\ asked = [kind \in Kind |-> NoOffers]
  /\ book = [kind \in Kind |-> <<>>]
  /\ phase = "lobby"
  /\ left = NotCounting
  /\ deal = NoDeal

\* No handler runs: the next one may.
Idle == phase \in {"lobby", "trade"}

\* new_client_game_data() for the blocks of cs: START_PROD_COUNT is 2.
NewStock(cs) == [c \in Client |-> IF c \in cs THEN 2 ELSE stock[c]]
FlushAsked(cs) ==
  [kind \in Kind |-> [c \in Client |-> IF c \in cs THEN NoOffer ELSE asked[kind][c]]]

-----------------------------------------------------------------------------
(* The lobby, as far as the auctions see it *)

\* new_client_info(): a block is taken, and its game data made new.
Connect(c) ==
  /\ Idle /\ status[c] = "free"
  /\ status' = [status EXCEPT ![c] = "spectator"]
  /\ stock' = NewStock({c})
  /\ asked' = FlushAsked({c})
  /\ UNCHANGED <<players_count, level, book, phase, left, deal>>

\* do_cmd_join()
Join(c) ==
  /\ Idle /\ status[c] = "spectator"
  /\ players_count < MaxPlayersCount
  /\ status' = [status EXCEPT ![c] = "requester"]
  /\ players_count' = players_count + 1
  /\ UNCHANGED <<phase, books>>

\* process_end_round(): who was a player is a client again.
EndRound(s) == [c \in Client |-> IF s[c] = "player" THEN "spectator" ELSE s[c]]

\* try_to_disconnect(): the block is freed, no one reads what was in it.
\* The requests that point to it stay in the lists.
Leave(c) ==
  LET gone == [status EXCEPT ![c] = "free"]
      ends == status[c] = "player" /\ players_count - 1 <= 1
  IN  /\ Idle /\ status[c] # "free"
      /\ status' = IF ends THEN EndRound(gone) ELSE gone
      /\ players_count' = IF ends THEN 0
                          ELSE IF status[c] = "player" THEN players_count - 1
                          ELSE players_count
      /\ phase' = IF ends THEN "lobby" ELSE phase
      /\ stock' = NewStock({c}) /\ asked' = FlushAsked({c})
      /\ UNCHANGED <<level, book, left, deal>>

\* Mutant of BeginRound: the lists of the last round stay.
MutKeepBooks ==
  LET cs == {c \in Client : status[c] = "requester"}
  IN  /\ phase = "lobby" /\ players_count > 1 /\ Cardinality(Connected) > 1
      /\ status' = [c \in Client |-> IF c \in cs THEN "player" ELSE status[c]]
      /\ level' = 2
      /\ stock' = NewStock(cs)
      /\ asked' = FlushAsked(cs)
      /\ phase' = "trade"
      /\ UNCHANGED <<book, players_count, left, deal>>

\* try_to_start_new_round(), new_game_data() and new_client_game_data().  The
\* countdown that leads here runs only while two clients are connected
\* (CountdownIffPossible of module Rounds).
BeginRound ==
  LET cs == {c \in Client : status[c] = "requester"}
  IN  /\ phase = "lobby" /\ players_count > 1 /\ Cardinality(Connected) > 1
      /\ status' = [c \in Client |-> IF c \in cs THEN "player" ELSE status[c]]
      /\ level' = 2
      /\ stock' = NewStock(cs)
      /\ asked' = FlushAsked(cs)
      /\ book' = [kind \in Kind |-> <<>>]
      /\ phase' = "trade"
      /\ UNCHANGED <<players_count, left, deal>>

-----------------------------------------------------------------------------
(* Commands of players *)

\* Mutant of Request: the old request is not taken out of the list.
MutRequestTwice(kind, c, count, cost) ==
  /\ book' = [book EXCEPT ![kind] =
                IF count = 0 THEN @
                ELSE AddRequest(kind, @, cost, [client |-> c, count |-> count])]
  /\ asked' = [asked EXCEPT ![kind][c] =
                 IF count = 0 THEN NoOffer ELSE [count |-> count, cost |-> cost]]
  /\ UNCHANGED <<status, players_count, level, stock, phase, left, deal>>

\* The common end of do_cmd_buy() and do_cmd_sell().
Request(kind, c, count, cost) ==
  LET rest == IF asked[kind][c].count > 0
              THEN FreeRequest(book[kind], c) ELSE book[kind]
  IN  /\ book' = [book EXCEPT ![kind] =
                    IF count = 0 THEN rest
                    ELSE AddRequest(kind, rest, cost, [client |-> c, count |-> count])]
      /\ asked' = [asked EXCEPT ![kind][c] =
                     IF count = 0 THEN NoOffer ELSE [count |-> count, cost |-> cost]]
      /\ UNCHANGED <<status, players_count, level, stock, phase, left, deal>>

\* do_cmd_buy(); a rejected request changes nothing.
Buy(c, count, cost) ==
  /\ phase = "trade" /\ status[c] = "player"
  /\ count <= Market("raw")
  /\ cost >= min_raw_price[level + 1]
  /\ Request("raw", c, count, cost)

\* Mutant of Sell: the productions the player has are not counted.
MutSellUnseen(c, count, cost) ==
  /\ phase = "trade" /\ status[c] = "player"
  /\ count <= Market("prod")
  /\ cost <= max_prod_price[level + 1]
  /\ Request("prod", c, count, cost)

\* do_cmd_sell()
Sell(c, count, cost) ==
  /\ phase = "trade" /\ status[c] = "player"
  /\ count <= Market("prod")
  /\ count <= stock[c]
  /\ cost <= max_prod_price[level + 1]
  /\ Request("prod", c, count, cost)

-----------------------------------------------------------------------------
(* game_process_next_step() *)

\* The last turn: both limits are computed before the first auction.
CloseMonth ==
  /\ phase = "trade" /\ Players # {}
  /\ phase' = "raw"
  /\ left' = [kind \in Kind |-> Market(kind)]
  /\ deal' = [market |-> left',
              offered |-> [kind \in Kind |->
                             [c \in Client |-> OfferOf(book[kind], c)]],
              traded |-> [kind \in Kind |-> Nothing]]
  /\ UNCHANGED <<status, players_count, level, stock, asked, book>>

\* Mutant of Granted: what the market has left is not looked at.
MutGrantedInFull(kind, count) == count

\* make_auction(): the request is cut to what the market has left.
Granted(kind, count) == IF left[kind] < count THEN left[kind] ELSE count

\* Mutant of Serve: neither the list nor market_count is any shorter.
MutServeAgain(kind) ==
  /\ phase = kind /\ left[kind] # 0 /\ book[kind] # <<>>
  /\ \E p \in Servable(book[kind]) :
       LET r == book[kind][1].reqs[p]
       IN  deal' = [deal EXCEPT !.traded[kind][r.client] = Granted(kind, r.count)]
  /\ UNCHANGED <<status, players_count, level, stock, asked, book, phase, left>>

\* One iteration of make_auction(), get_request() and make_auction_request().
Serve(kind) ==
  /\ phase = kind /\ left[kind] # 0 /\ book[kind] # <<>>
  /\ \E p \in Servable(book[kind]) :
       LET r == book[kind][1].reqs[p]
           n == Granted(kind, r.count)
       IN  /\ book' = [book EXCEPT ![kind] = DropRequest(@, 1, p)]
           /\ left' = [left EXCEPT ![kind] = @ - n]
           /\ stock' = IF kind = "prod"
                       THEN [stock EXCEPT ![r.client] = (@ - n) % Word] ELSE stock
           /\ deal' = [deal EXCEPT !.traded[kind][r.client] = @ + n]
  /\ UNCHANGED <<status, players_count, level, asked, phase>>

\* The loops of make_auction() are over, what is left in the list is freed.
EndAuction(kind) ==
  /\ phase = kind /\ (left[kind] = 0 \/ book[kind] = <<>>)
  /\ book' = [book EXCEPT ![kind] = <<>>]
  /\ phase' = IF kind = "raw" THEN "prod" ELSE "books"
  /\ UNCHANGED <<status, players_count, level, stock, asked, left, deal>>

(***************************************************************************)
(* The loop over the players, change_level() and try_to_process_win():     *)
(* made[c] productions come from the factories of c, and the players in    *)
(* bankrupt are counted out of the round, which they stay in.              *)
(***************************************************************************)
EndMonth(made, bankrupt) ==
  LET ends == players_count - Cardinality(bankrupt) <= 1
  IN  /\ phase = "books"
      /\ stock' = [c \in Client |-> stock[c] + (IF c \in Players THEN made[c] ELSE 0)]
      /\ \A c \in Players : stock'[c] <= MaxStock
      /\ asked' = FlushAsked(Players)
      /\ level' \in NextLevels[level]
      /\ players_count' = IF ends THEN 0 ELSE players_count - Cardinality(bankrupt)
      /\ status' = IF ends THEN EndRound(status) ELSE status
      /\ phase' = IF ends THEN "lobby" ELSE "trade"
      /\ left' = NotCounting /\ deal' = NoDeal
      /\ UNCHANGED book

-----------------------------------------------------------------------------
Lobby == BeginRound \/ \E c \in Client : Connect(c) \/ Join(c) \/ Leave(c)

Command ==
  \E c \in Client, count \in RequestCount :
    \/ \E cost \in BidCost : Buy(c, count, cost)
    \/ \E cost \in OfferCost : Sell(c, count, cost)

\* The handler of the last turn goes on.
NextStep ==
  \/ \E kind \in Kind : Serve(kind) \/ EndAuction(kind)
  \/ \E made \in [Players -> Production], bankrupt \in SUBSET Players :
       EndMonth(made, bankrupt)

Next == Lobby \/ Command \/ CloseMonth \/ NextStep

\* A handler that has begun runs to its end: nothing else can run, and the
\* server is not stopped.
Spec == Init /\ [][Next]_vars /\ WF_vars(NextStep)

-----------------------------------------------------------------------------
(* What a step leaves true *)

Offer == [count : 0 .. Word - 1, cost : Nat]

\* Every field keeps its type.
TypeOK ==
  /\ status \in [Client -> Status]
  /\ players_count \in Nat
  /\ level \in 0 .. 4
  /\ stock \in [Client -> 0 .. Word - 1]
  /\ asked \in [Kind -> [Client -> Offer]]
  /\ DOMAIN book = Kind
  /\ phase \in {"lobby", "trade", "raw", "prod", "books"}
  /\ left \in [Kind -> Nat]
  /\ deal \in [market : [Kind -> Nat], offered : [Kind -> [Client -> Offer]],
               traded : [Kind -> [Client -> Nat]]]

\* The insertions keep each list sorted by cost, best first, with one group
\* for a cost, and the removals leave no empty group behind: get_request()
\* reads the first request of the first group without a look.
BooksOrdered == \A kind \in Kind : Ordered(kind, book[kind])

\* What "status" tells a player of its requests is what the lists hold: one
\* request of that count and cost, or none, after any number of replaced,
\* withdrawn and rejected requests, rounds cut short, and blocks taken anew.
BookMatchesAsked ==
  phase = "trade" =>
    \A kind \in Kind, c \in Players :
      /\ Cardinality(PlacesOf(book[kind], c)) <= 1
      /\ OfferOf(book[kind], c) = asked[kind][c]

\* The productions a player offers are there when the auction sells them:
\* prod_count, which is unsigned, cannot wrap below zero.
OffersCovered ==
  /\ phase \in {"trade", "raw"} =>
       \A c \in Players : asked["prod"][c].count <= stock[c]
  /\ phase \in {"prod", "books"} =>
       \A c \in Players :
         OfferOf(book["prod"], c).count <= stock[c] /\ stock[c] <= MaxStock

-----------------------------------------------------------------------------
(* What the auctions promise *)

\* A loop of make_auction() that has not ended has traded nothing yet, as
\* the promise sees it.
Pending(kind) == phase = "raw" \/ (phase = "prod" /\ kind = "prod")

PromisedOffers(kind) ==
  IF Pending(kind) THEN deal.offered[kind]
  ELSE [c \in Client |-> OfferOf(book[kind], c)]
PromisedMarket(kind) == IF Pending(kind) THEN 0 ELSE deal.market[kind]
PromisedTrade(kind) == IF Pending(kind) THEN Nothing ELSE deal.traded[kind]

Raws == INSTANCE FairAuction
          WITH Better <- >, offers <- PromisedOffers("raw"),
               market <- PromisedMarket("raw"), got <- PromisedTrade("raw")
Productions == INSTANCE FairAuction
          WITH Better <- <, offers <- PromisedOffers("prod"),
               market <- PromisedMarket("prod"), got <- PromisedTrade("prod")

\* "In the first place satisfy requests with *maximum* cost" (game.c:125).
RawsFair == Raws!Spec

\* "In the first place satisfy offers with *minimum* cost" (game.c:137).
ProductionsFair == Productions!Spec

\* The last turn of a month always comes to its end, however the requests
\* and the random numbers fall.
MonthCompletes == phase = "raw" ~> Idle

=============================================================================
