# Verification of the management game server

The program is a single-threaded TCP server for the board game "Management":
clients connect, send text commands, ask to take part in the next round, and in
a round run companies that buy raws and sell productions on two auctions a
month. These modules describe its core in TLA+. TLC checks them on small
instances, and TLAPS proves every safety property, and both refinements, for
every instance.

## Parts of the system

`main()` (main.c) waits in `select()`, and then runs handlers one after the
other: accepts a connection, reads each ready descriptor (the bytes go through
the lexer and the parser, each command is executed at once), or, if `select()`
timed out, processes a time event. At the end of an iteration the write buffers
of all clients are written. Nothing is persisted and nothing runs in parallel:
what is hard is the *order of handlers*, and the state that stays from one to
the next.

| Part | State | Operations | What makes it correct |
| --- | --- | --- | --- |
| Rounds: registry, countdown, months, rounds (main.c, parts of game.c) | list of clients, `clients_count`, `players_count`, `in_round`, the time to the next event, the warnings left; of each client `in_round`, `want_to_next_round`, `step_completed` | connect, reject, disconnect, join, turn, time events | the counters agree with the list; the countdown runs exactly when it can lead to a round; a round has players; requests are not lost; months end |
| Auctions (auctions.c, buy/sell in game.c) | two lists of groups of requests, the copies of each request in its client, the market level | buy, sell, the two auctions of a month | lists sorted, one request for a player, agreement with the copies; fair trades; the loops end |
| Company books (game.c) | money, raws, productions, factories, four ages of factories being built, orders | build, make, sell, the end of a month | what was asked for is still possible at the end; factories keep their age and are paid |
| Lexer (lexer.c, buffer.c) | state, text so far in blocks, current character | put_new_data, get_lex | the lexemes depend on the stream, not on the reads; no endless loop |
| Parser (parser.c) | state, current lexeme, command being made, owner of its string | get_cmd, destroy_cmd | each line gives its command; strings have one owner; no endless loop |
| Event loop (main.c) | list, descriptors, `read_fds`, `max_fd`, `ready_fds`, the pointers of a walk, which buffers are not empty | select, accept, read, write, disconnect | no client is overlooked or used after it was freed, no call blocks, no message waits |
| Countdown (main.c) | the timeout of `select()`, `delta_time` | select, time events | the announced intervals are kept, events come |
| Usernames and output buffers (game.c, main.c, msg_buffer.c) | nicks, the strings they are, blocks that point to them | nick, connect, disconnect, all messages | nicks are unique and owned once; blocks are written as they were meant |
| Parameters (parameters.c) | the state of the loop over argv | one for each argument | what was given is set, what is wrong is refused |
| Number formatting (utils.c), help and status texts, set-up, daemon | | | lengths agree with strings |

The interactions: the parser calls the lexer; commands change the registry, the
auction lists and the books; the last `turn` of a month runs both auctions and
all the books, and may end the round; the end of a round, a connection and a
departure arm or stop the countdown, which is only `select()`'s timeout;
`players_count` is shared by the rounds (may one begin, must it end) and the
auctions (how large is the market).

## Modules

| Module | Models | Extends |
| --- | --- | --- |
| `Rounds` | main.c and the round logic of game.c | |
| `RequestBook` | the list operations of auctions.c | |
| `FairAuction` | abstract: what an auction promises | |
| `Auction` | requests, auctions, market, and as much of the lobby as they see | `RequestBook`, instances of `FairAuction` |
| `Company` | one company's orders and month ends | |
| `ByteBuffer` | the buffer of the lexer, as operators | |
| `Lexer` | the state machine that makes lexemes of bytes | `ByteBuffer` |
| `Parser` | the state machine that makes commands of lexemes | |
| `Parameters` | the loop over argv, one argument a step | |
| `EventLoop` | main(): one system call a step, and the peers | `Parameters` |
| `Countdown` | main(): the clock, composed with the handlers of `Rounds` | `Rounds` |
| `Messages` | usernames, and the blocks that name clients | |
| `ListProofs` | lemmas on sequences: without repetition, searched, put together; and on numbers | TLAPS |
| `RoundsProofs` (`Rounds` and `Countdown`), `AuctionProofs`, `CompanyProofs`, `LexerProofs`, `ParserProofs`, `EventLoopProofs`, `MessagesProofs` | theorems and proofs | the module they are named for |
| `MCRounds`, `MCAuction`, `MCCompany`, `MCLexer`, `MCParser`, `MCEventLoop`, `MCCountdown`, `MCMessages` | instances for TLC | |

### Rounds

One action is one handler run to its end: `Connect`, `RejectConnection`
(`process_new_client()`), `Disconnect` (`try_to_disconnect()` with
`try_to_unregister_client()` and the functions it calls), `Join`, `TurnAndWait`
and `TurnAndStep` (`do_cmd_turn()`, without and with
`game_process_next_step()`), `Warn`, `RefuseRound` and `StartRound`
(`process_time_events()`), `Elapse` (the end of a `select()` that did not time
out). Functions on `server_info` are operators from record to record, named
after them. `server.news`, `server.winners` and `server.remain` are what the
last handler appended to the write buffers; only the properties about messages
read them. A client is `"broke"` or not: which players a month leaves broke is
left open, except that a player is never un-counted twice in one month. A
client identity may connect again after it left.

### RequestBook, Auction, FairAuction

`RequestBook` has the list operations as operators on sequences of groups.
`SearchGroup`, `AddRequest`, `DropRequest` and `FreeRequest` are the functions
of the same purpose; `Servable` is the choice `get_request()` makes, with the
range `get_random()` really has. In `Auction` the lobby and the commands are
actions; the handler of the last turn is unfolded: `CloseMonth`, then one
`Serve` for each iteration of `make_auction()`, `EndAuction`, `EndMonth`. No
other action is enabled between them. `Client` is the set of `client_info`
blocks: a block given out again by `malloc()` meets what is left of the
requests of its last owner. A block that is free stays readable in the model;
what a write to freed memory does besides is not modelled.

`FairAuction` is the abstract specification, once for raws (the dearest bid
first) and once for productions (the cheapest offer first): a trade gives out
as much as the market and the requests allow, a better cost is satisfied before
a worse one is looked at, and at most one request is satisfied in part. The
refinement mapping (`PromisedOffers`, `PromisedMarket`, `PromisedTrade`) shows
the trade at the moment the loops have ended; the properties `RawsFair` and
`ProductionsFair` are `Raws!Spec` and `Productions!Spec`.

### Company

`Build`, `Make` and `Sell` are the accepted commands, `EndMonth` the part of
`game_process_next_step()` that concerns one company, with the results of its
auctions left open within its offers. Counts are unsigned and wrap at `Word`;
`Signed` is the conversion that the `VAR_CHANGE` macros make of a change.
`orders` (the factories asked for in each month) and `earned` (all that `money`
gained and lost but for the halves of factories) are history, for the
properties only: what factories were paid is what is missing in `money` itself.

### Lexer, Parser

One action is one iteration of the loop of `get_lex()` or `get_cmd()`: a
character (lexeme) is fetched when `request_for_char` (`request_for_lex`) is
set, or the function of the state is called. Bytes are the five classes the
lexer tells apart, lexemes are typed abstract values. The references
`LexemesOf` and `CommandsOf` say what a whole stream means without any state.
`Parser.allocated` is the set of strings that `malloc()` gave and `free()` did
not take back. The text of a lexeme is kept in a `ByteBuffer`, block by block;
`WellFormed` is what the blocks and the count must agree on.

### Parameters, EventLoop

`EventLoop` begins where the program does: `ReadParameters` takes the steps of
`Parameters` until the command line is done or wrong, and `Listen` opens the
socket or ends the process. From then on `pc` tells where an iteration is:
`select`, `accept`, the walk that reads (`read`, with `disconnect` and
`read error` while `try_to_disconnect()` is at work on the client `cur_c`), and
the walk that writes. A step makes at most one system call on a socket, so the
peers may act between any two of them: connect, send, close (FIN) and reset
(RST), before and after `select()` has looked. Descriptors are numbers, given
out lowest first and used again; `read_fds`, `max_fd` and `ready_fds` are the
variables of the code. A connection that was reset returns its error to one
call and is `"broken"` afterwards, where `write()` raises `SIGPIPE`. What the
commands do is reduced to which buffers they put messages in. The peers' steps,
`select()`'s answer and the choice of a descriptor stand for the operating
system.

### Countdown

`Rounds` leaves open when the countdown expires (`Elapse`, `Warn`). `Countdown`
extends it with a clock: time goes by in ticks, `time()` tells whole seconds,
`select()` counts its timeout down and may return late, and what a `select()`
that did not time out subtracts is the difference of two `time()`s. The
handlers are the actions of `Rounds`, called where `main()` calls them.
`ImplementsRounds` is `Rounds!Spec` itself: the variables of `Rounds` are those
of `Countdown`, so the refinement mapping is the identity on them, and ticks
are stuttering steps.

### Messages

A handler is an action; `WriteBuffers` ends an iteration. A name is a string at
an address that `malloc()` may give again; a block points to it, owns a copy,
or is a number, and remembers in `meant` what it was made of. Of a buffer only
the set of such blocks is kept: their order and the constant text between them
do not matter to what is checked. Numbers are written in base `Base`.

`Client` is the `client_info` blocks that `malloc()` may give, as in `Auction`.
A client that leaves may leave requests in the auction lists; `orphans` holds
them, with the names their clients had. `EndMonth` is the handler of the last
`turn`, from the announcement of the turn to the winner: `auction_notify_all()`
reads the nick of every request served, and of an orphan it reads it in a freed
block. If that block is another client's by then it is that client's nick, else
any address. `NewRound` is `flush_auctions_info()`, which forgets the orphans.
`freed` is the history the properties go by: whose nick was freed in this
iteration, or before a request of theirs was announced in it.

## Runs

| Run | Checks | Instance |
| --- | --- | --- |
| `rounds` | `TypeOK`, `PlayersOnlyInRound`, `CountdownIffPossible`, `RoundKeepsPlayers`, `RegistryExact`, `AnnouncedTimeHonest`, `MonthStartsOpen`, `RequestKept`, `TurnNeverStalls`, `CountdownNeverGrows` | 4 clients, limit 4, two warnings, `players_count` up to 5 |
| `auctions` | `TypeOK`, `BooksOrdered`, `BookMatchesAsked`, `OffersCovered`, `RawsFair`, `ProductionsFair`, `MonthCompletes` | 2 blocks, both auctions, two costs in each |
| `company` | `RequestsCovered`, `OrdersOnTheWay`, `FactoriesPaid` | 6 months, words of 30 bits |
| `lexer` | `TypeOK`, `ChunksDoNotMatter`, `LexerComesToRest` | 8 bytes, reads of 1 or 2, blocks of 2, numbers of 1 digit |
| `parser` | `LinesToCommands`, `ArgumentsAlive`, `ParserComesToRest` | 5 lexemes, one command of each form |
| `event_loop` | `ParametersAsGiven`, `DescriptorsExact`, `WalkAlive`, `ReadsNeverBlock`, `NothingUnsent`, `EveryoneServed` | 2 peers, 1 or 2 descriptors for them, a limit of one client or none, up to 3 arguments |
| `countdown` | `NeverEarly`, `ImplementsRounds`, `RequestsBecomeRound` | 2 clients, two warnings, intervals of 2 seconds of 3 ticks |
| `messages` | `NicksUnique`, `StringsOwned`, `LengthsExact`, `SpoiltOnlyIfFreed`, `OwnMessagesIntact` | 3 clients, 4 addresses, binary numbers, 2 handlers in an iteration, 1 orphan |

Why the bounds are enough: four clients give a round of three, a spectator
among them, and the departures and bankruptcies that leave two, one and none;
`players_count` up to 5 lets requests pile up over the clients there are. Two
warnings tell the first, a middle and the last one apart. Two requests of two
at two costs make groups of one and two, in the order of the list and against
it; together they are more than the market of the scarce levels and no more
than that of the rich ones, so that requests are satisfied, cut and left;
`get_request()` has a choice only among three requests at one cost, which takes
a third client: that is left to the theorems on the lists and the auctions,
which hold for any number of requests. Six months are one more than an order
needs to become a factory. Eight bytes hold two lexemes with their separators
and an end of line, and a text of three blocks; a read of one byte or two puts
a boundary at every place, and a text may end within a block or with it. Five
lexemes hold the longest line and the begin of the next one, or a wrong line
and a whole one. Two peers are enough for one connection to meet the number,
the messages and the walk of another, and they may come and go without end; a
descriptor fewer than that makes `accept()` fail. Three arguments hold an
option, its value and an address, or an error with something after it. Two
clients make a countdown; an interval of two seconds has a remainder of one and
of none, and three ticks put the handlers before, at and after the turn of a
second. Three clients in binary are called p0, p1 and p10, so that a name asked
for may be a default name of one or two digits. Two handlers in an iteration
are a message and what spoils it; what has to come before, a departure that
leaves a request and another client in the freed block, comes in the iterations
before. `MaxPlayersCount`, `MaxStock`, `MaxStep`, `MaxReceived`,
`MaxArguments`, `MaxHandlers` and `MaxOrphans` are bounds of the models, not of
the program; each stands in a guard, or in the choice of the command line. What
is proved holds for every value of them.

`Lexer` and `Parser` may stop (the connection is closed after a protocol error,
and the histories are bounded), so these runs do not look for deadlocks. The
others do. The symmetry of clients is used in the runs without liveness
properties: `auctions` does not use it.

### Fairness

`Rounds`, `Company` and `Messages` have none: no handler has to be called.
`Auction` has weak fairness of the steps of the last turn's handler, `Lexer`
and `Parser` of their loops: the process is single-threaded and is assumed to
go on running, so a loop that can make a step makes it. `EventLoop` has weak
fairness of `Main`, the steps of the process but for the timeout: it is
scheduled, and no `write()` waits for ever. None of the peers' steps is fair.
`EveryoneServed` holds under it although peers may send without end, as each
iteration reads every ready descriptor once.

`Countdown` has weak fairness of the clock (`Tick`), of the process between two
calls of `select()` (`CallSelect`, `EndOfIteration`), and of `select()` once
its timeout is over (`SelectTimesOut`). It has none of a handler, nor of a
`select()` that returns for a descriptor. Clients that send often enough keep
`select()` from ever timing out, and the code then never comes to its event
(main.c:741); `RequestsBecomeRound` therefore assumes `<>[](pc # "handle")`,
that at some time the clients let `select()` wait.

### Where code and words disagree

Each of these runs checks one sentence of the code's comments or messages,
which TLC refutes; PROJECT.json quotes the sentences.

| Run | What happens |
| --- | --- |
| `refused_iff_too_few` | `players_count` counts requests and players. A client joins and leaves before the start and stays counted: a round of one player or none begins. Or two spectators `join` during a round: its end sets the count to 0 but keeps their requests, the next start is refused, and they cannot repeat them. |
| `month_awaits_someone` | The last player that has not made its turn leaves; the month is never ended. |
| `server_survives` | A peer resets its connection while a message for it is in its buffer: `read()` takes the error, `write_msg_buffer()` in `try_to_disconnect()` raises `SIGPIPE`, and the server ends. |
| `second_half_as_help_says` | The second half of a factory's price is taken at the end of the month of step current + 3 (game.c:1034), a month before the one the help names. |

Other disagreements are in the models as the code has them, and have no run:

* A message may be written with what was freed: two `nick` commands in one
  read, or a change of name and any other message in one iteration, leave
  blocks that point to the old name (game.c:395, 400), where the help says
  "simply print your username" (game.c:83). So does the announcement of a
  request whose client has left (auctions.c:299), where the nick was freed in
  any iteration before. `SpoiltOnlyIfFreed` says that it takes one of these.
* The winner is looked for in the list of all clients (game.c:1123): a
  spectator, whose money is the initial one, may be announced.
* A bankrupt player keeps `in_round` and is counted out again at the end of
  every month that finds it with no money (game.c:1205): a round may end with
  two solvent players.
* A client that leaves in a month leaves its requests in the lists, with a
  pointer to its freed block (main.c:282, auctions.c:321).
* The market is computed from `players_count` (game.c:222), which counts
  requests for the next round as players: the limit may exceed the "1-3 per
  client" of the help (game.c:123-124).
* `get_random(n)` never gives n (utils.c:57, "inclusive"): of several requests
  at one cost the oldest is never drawn (auctions.c:251), and the market level
  4 never follows the levels 0, 1 and 2 (game.c:1050, "[1-12]").
* A payment of factories is an unsigned product that becomes an `int` change
  (msg_buffer.h:116): one that is large enough makes `money` grow, with 32 bits
  and the first month that of some 859 thousand factories.
* `status` shows negative money as an unsigned number (game.c:477).
* A negative `--time` is accepted (parameters.c:62), and the countdown then
  never expires; an option whose value is missing is passed by. Nothing
  documents it otherwise: `ParametersAsGiven` has the second as it is, and
  `Rounds` assumes that the interval is not negative.
* A raw costs 300 a month (game.h), not 350 (game.c:152).

## Proofs

All theorems hold for every value of the constants that the named assumptions
(`ClientAssumption`, `ParameterAssumption`, ...) allow: any finite set of
clients, any interval, limit, width of words, block size or clock. Every
invariant and every action property that a run checks is a theorem, and so are
the two refinements; PROJECT.json lists them.

**Rounds.** None of the first invariants is inductive alone. A departure re-arms
the countdown only through the record functions, so the inductive invariant
`IInv` joins them with what these functions need: the record has its type, a
running countdown has no more warnings left than it began with, and `remain` is
what the last warning said. The functions on the record are treated in lemmas
of their own, and the step proof has one case for each action. `RegistryExact`
is proved from its own invariant over the list, `MonthStartsOpen` from what
begins a round and a month, and the action properties follow from the
invariants by cases.

**Countdown** (in `RoundsProofs`): `NeverEarly` and the refinement
`ImplementsRounds`. The inductive invariant `ClockInv` adds two bounds to
`IInv`: between two calls of `select()` the whole seconds that remain and the
ticks that have gone by cover the interval, but for the ticks `time()` does not
tell (`RemainderCovers`); inside `select()` the timeout does (`TimeoutCovers`).
With the refinement, whatever is proved of `Rounds` holds of the loop with its
clock: `LoopCountdown` is that for `CountdownIffPossible`.

**Auctions.** That the search for a group stops where a group of that cost is or
belongs (`SearchStops`) gives that insertion keeps the lists strictly sorted;
removal and a served request keep it with the group that becomes empty taken
out. The lists are then read as the bids they hold (`Bids`, at most one for a
client): each list operation adds, drops or lowers one bid, and with this
`TradeInv` is inductive, which joins the types, what is listed for whom
(`ListsInv`), what a month may have asked for (`MonthInv`) and what the
companies have (`StockInv`). `BookMatchesAsked` and `OffersCovered` are parts
of it.

`RawsAreFair` and `ProductionsAreFair` prove that `Auction` implements
`FairAuction`. `AuctionInv` adds `DealInv` to `TradeInv`: while the loops of
`make_auction()` run, what was given out and what is left of the market make
up the market, a better cost is used up before a worse one is begun, and a
request is cut only by the end of the market. From this the step that ends an
auction is a trade of `FairAuction` (`FairIsPromised`), and every other step is
a step of the abstract market or a stutter, one lemma (`Promise...`) for each
action. The sums over clients, which the modules define by a recursive function
on sets, are taken apart in lemmas (`SumMore`, `SumWithin`).

**Company books.** The commands check what the month's end takes away and
nothing else takes it away (`RequestsCovered`); the pipeline of factories and
its history are shifted by the same step (`OrdersOnTheWay`). `FactoriesPaid`
says that `money` is what was earned less what the orders so far owe, both
halves of each at their months, as a signed word. It holds whatever is ordered
(`FactoriesArePaid`): each payment is an unsigned product taken as a signed
change, and two numbers whose signed words agree differ by whole words
(`SignedShift`, `SignedWords`), so that the sum of such changes is the signed
word of the sum, and a `factory_count` that wrapped around owes as much but for
whole words. That a large order costs anything is thereby *not* said: in that
arithmetic it may be a gain. The types are a lemma.

**Lexer.** `BufferOK` says that the blocks of the buffer, read in order, hold the
characters that were added, whatever the block size, so that the text of a
lexeme is a piece of the stream. The reference `LexemesOf` joins what each
place of the stream says; it is taken apart place by place (`SaidMore`), and a
place says the same whatever is received after it (`SaidStays`). The inductive
invariant `LexerInv` is that the lexemes returned are what the stream says up
to the place the state has come to (`MeaningOK`), and that each state knows the
bytes behind it that decide what comes next (`StateOK`).

**Parser.** `PInv` says for each state that looks at an argument whether the
string of the lexeme is still its own, and which commands the state may have;
this gives `TypeOK` and `ArgumentsAlive`. `LinesBecomeCommands` is proved like
the lexer's theorem. A line is first described by the number and the kind of
its arguments (`Fits`, `LineIs`), which is what the states of `get_cmd()` go
by. `MeaningInv` then says where the current line begins, how much of it a
state has before it (`LengthIn`), and that `tmp_cmd` holds exactly that much of
this line (`Holds`): what an earlier line left in `value` and `value2` is never
read. The commands returned are what the stream says up to `SaidTo`, which is a
lexeme further in `SKIP`, as a wrong line is answered before it ends.

**Event loop.** `LoopInv` joins `DescriptorsExact` and `WalkAlive` with what is
known of connections outside the list (`NetworkOK`: who waits for `accept()`
has no descriptor) and that the server listens (`ListensOK`). `ReadsNeverBlock`
and `NothingUnsent` speak of what is left of a walk: `WaitInv` says that behind
the pointer of the walk the descriptors are ready, and before it the buffers
are written. `ParametersAsGiven` has its own invariant, `ParametersInv`: the
arguments so far are whole options with their values, and each field has what
the last of them said.

**Usernames and buffers.** `StringsOwned`, `SpoiltOnlyIfFreed` and
`OwnMessagesIntact` are proved together with the types: a block points to the
nick its client has now until that is freed, and its client is in `freed` from
then on, or, when the block announces a request that was left behind, from the
first (`BlocksOK`). The digits of a number add
up to it (`NumbersAreExact`), so different numbers have different default
names; more numbers than names in use therefore hold a free one, the search
for a default name ends, and nicks are unique (`NicksStayUnique`).

Induction over data has a form of its own here, as the induction theorems of
the library take an operator that these provers cannot instantiate: a set of
counterexamples among the numbers is formed, its least element is looked at,
and it is empty (`ByStep` in `ListProofs`). Recursive functions get their
defining equation from a lemma that such a function exists (`FlattenExists`,
`PartExists`). No module with a theorem has a `RECURSIVE` operator.

Only checked by TLC is liveness: `MonthCompletes`, `LexerComesToRest`,
`ParserComesToRest`, `EveryoneServed` and `RequestsBecomeRound`. They rest on
fairness and `ENABLED`, which are out of the prover's reach.

## Not modelled

* Partial writes, and a `write()` that waits for a peer that does not read
  (the file TODO lists both). Errors of `select()` and `close()`, which end
  the process, and an `accept()` that fails because the peer has gone.
* A clock that steps back.
* What the handlers do to rounds and companies is not in `EventLoop`, and the
  descriptors are not in `Rounds`: `Rounds` allows the handlers in any order,
  which includes the order of the list.
* What a write to freed memory does: blocks and strings that were freed stay
  readable in the models.
* The layout of `status` and the text of help: they are constant text, and no
  state depends on them. The time in prompts.
* The system calls that set up the listening socket, one by one, and the
  daemon's fork: each succeeds or ends the process before the first client.
* Leaks of memory (request lists of a round cut short, the string of a wrong
  `nick a b`).

## What could follow

* `Lexer` and `Parser` composed with the dispatch of `allow_command()`, and
  `Rounds` and `Auction` on one registry.
* The measures behind the liveness properties (what is left in the lists, in the
  stream, of the interval) as action properties with theorems: each step of a
  loop makes its measure smaller.
