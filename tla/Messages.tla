------------------------------ MODULE Messages ------------------------------
(***************************************************************************)
(* The usernames (game.c, main.c) and the messages that name clients until *)
(* they are written (msg_buffer.c).                                        *)
(*                                                                         *)
(* A name is a string that malloc() gave, and a block of a buffer points   *)
(* to it or to a copy.  The buffers are written at the end of an iteration *)
(* of main(); until then handlers run one after the other.  Of a buffer,   *)
(* the set of its blocks that hold a name or a number is kept.             *)
(*                                                                         *)
(* A request stays in the auction lists when its client leaves, and the    *)
(* month's end announces it with the nick of a client_info that is freed.  *)
(* Client is the blocks malloc() may put a client_info in: one that is     *)
(* freed may become another client.                                        *)
(***************************************************************************)
EXTENDS Integers, FiniteSets, Sequences

CONSTANTS
  Client,       \* where malloc() may put a client_info
  Address,      \* where malloc() may put a string
  NULL,
  Base,         \* 10: numbers are written with the digits 0 .. Base - 1
  AskedName,    \* the names clients ask for
  ShownNumber,  \* the numbers "status" shows
  MaxHandlers,  \* bound of this model on the handlers of an iteration
  MaxOrphans    \* bound of this model on the requests whose clients have left

ASSUME MessagesAssumption ==
  /\ IsFiniteSet(Client) /\ NULL \notin Address
  /\ Base \in Nat \ {0, 1}
  /\ ShownNumber \subseteq Nat /\ MaxHandlers \in Nat /\ MaxOrphans \in Nat

VARIABLES
  nick,       \* client_info.nick, NULL for who is not in the list
  allocated,  \* the strings that are allocated
  string,     \* what is in them, and in those that were freed
  write_buf,  \* the blocks of client_info.write_buf
  orphans,    \* the requests in the auction lists whose clients have left,
              \* with (history) the names they had
  freed,      \* history: the clients whose nick was freed in this iteration,
              \* or before a request of theirs was announced in it
  handlers    \* how many handlers this iteration has run

vars == <<nick, allocated, string, write_buf, orphans, freed, handlers>>

Connected == {c \in Client : nick[c] # NULL}

-----------------------------------------------------------------------------
(* Numbers *)

\* "del" after n turns of the loops of log10i() and number_to_str()
Power[n \in Nat] == IF n = 0 THEN 1 ELSE Base * Power[n - 1]

\* Mutant of Log: one digit too few at the powers of the base.
MutLog(number) ==
  CHOOSE i \in 0 .. number :
    /\ number <= Power[i + 1]
    /\ \A j \in 0 .. i - 1 : number > Power[j + 1]

\* log10i(): the loop stops at the first power number / Base is less than.
Log(number) ==
  CHOOSE i \in 0 .. number :
    /\ number \div Base < Power[i]
    /\ \A j \in 0 .. i - 1 : number \div Base >= Power[j]

\* The power of the base number_to_str() begins to divide by.
Divisor(number) ==
  CHOOSE i \in 0 .. number :
    /\ number \div Base < Power[i]
    /\ \A j \in 0 .. i - 1 : number \div Base >= Power[j]

\* number_to_str()
NumberToStr(number) ==
  [i \in 1 .. Divisor(number) + 1 |->
     (number \div Power[Divisor(number) + 1 - i]) % Base]

-----------------------------------------------------------------------------
(* Names *)

\* What a name may be made of: the letters of AskedName, "p" and digits.
p == "p"
Dash == "-"

NameOf(number) == <<p>> \o NumberToStr(number)

\* Mutant of FirstVacantNick: the number of clients is vacant.
MutCountIsVacant(taken) == NameOf(Cardinality(taken))

\* first_vacant_nick()
FirstVacantNick(taken) ==
  LET number == CHOOSE n \in 0 .. Cardinality(taken) :
                  /\ NameOf(n) \notin taken
                  /\ \A m \in 0 .. n - 1 : NameOf(m) \in taken
  IN  NameOf(number)

\* get_client_by_nick() over the list finds one of these.
Taken == {string[nick[c]] : c \in Connected}

-----------------------------------------------------------------------------
(* Blocks.  "meant" and "of" are history: what the string was to be when   *)
(* the block was added, and whose nick it is.                              *)

\* ADD_S_STRLEN, of a nick
Pointer(c, address, name) ==
  [kind |-> "pointer", str |-> address, length |-> Len(name), meant |-> name, of |-> c]

\* ADD_S_STRLEN_MAKE_COPY: the block owns its string.
Copy(name) ==
  [kind |-> "copy", str |-> name, length |-> Len(name), meant |-> name]

\* new_number_msg_block(): the number becomes a string when it is written.
Number(number) ==
  [kind |-> "number", str |-> NULL, length |-> Log(number) + 1,
   meant |-> number]

\* add_prompt(), or any other mention of a client that is in the list and
\* keeps its name
Mention(c) == Pointer(c, nick[c], string[nick[c]])

\* auction_notify_all(), of a request whose client has left: what its nick
\* points to is that address.
Announcement(r, address) ==
  [kind |-> "pointer", str |-> address, length |-> Len(string[address]),
   meant |-> r.name, of |-> r.client]

\* notify_all_clients_about_disconnect(): the name is freed before the others
\* hear of it.
Farewell(c) == Copy(string[nick[c]])

Handler == handlers < MaxHandlers /\ handlers' = handlers + 1

-----------------------------------------------------------------------------
Init ==
  /\ nick = [c \in Client |-> NULL]
  /\ allocated = {}
  /\ string = [address \in Address |-> <<>>]
  /\ write_buf = [c \in Client |-> {}]
  /\ orphans = {} /\ freed = {} /\ handlers = 0

\* process_new_client(): clients out of the round hear of the new one, with
\* their number. A rejected client never has a name.
Connect(c) ==
  /\ Handler /\ nick[c] = NULL
  /\ LET name == FirstVacantNick(Taken)
     IN  \E address \in Address \ allocated, told \in SUBSET Connected :
           /\ nick' = [nick EXCEPT ![c] = address]
           /\ allocated' = allocated \cup {address}
           /\ string' = [string EXCEPT ![address] = name]
           /\ write_buf' = [d \in Client |->
                CASE d = c       -> {Pointer(c, address, name)}
                  [] d \in told  -> write_buf[d] \cup
                                      {Pointer(c, address, name),
                                       Number(Cardinality(Connected) + 1)}
                  [] OTHER       -> write_buf[d]]
  /\ UNCHANGED <<orphans, freed>>

\* do_cmd_nick() without an argument, and the commands that name no other
\* client: the answer and the prompt.
PrintNick(c) ==
  /\ Handler /\ nick[c] # NULL
  /\ write_buf' = [write_buf EXCEPT ![c] = @ \cup {Mention(c)}]
  /\ UNCHANGED <<nick, allocated, string, orphans, freed>>

\* do_cmd_status(): counts and costs
ShowNumber(c, number) ==
  /\ Handler /\ nick[c] # NULL
  /\ write_buf' = [write_buf EXCEPT ![c] = @ \cup {Number(number), Mention(c)}]
  /\ UNCHANGED <<nick, allocated, string, orphans, freed>>

\* The name is refused: the parser's string is freed again.
RefuseNick(c, name) ==
  /\ Handler /\ nick[c] # NULL
  /\ Head(name) = Dash \/ name \in Taken
  /\ \E address \in Address \ allocated :
       string' = [string EXCEPT ![address] = name]
  /\ write_buf' = [write_buf EXCEPT ![c] = @ \cup {Mention(c)}]
  /\ UNCHANGED <<nick, allocated, orphans, freed>>

\* Mutant of ChangeNick: the old name is not copied.
MutPointToOld(c, name) ==
  /\ Handler /\ nick[c] # NULL
  /\ Head(name) # Dash /\ name \notin Taken
  /\ \E address \in Address \ allocated :
       /\ nick' = [nick EXCEPT ![c] = address]
       /\ allocated' = (allocated \ {nick[c]}) \cup {address}
       /\ string' = [string EXCEPT ![address] = name]
       /\ write_buf' = [d \in Client |->
            CASE d = c                 -> write_buf[d] \cup {Pointer(c, address, name)}
              [] d \in Connected \ {c} -> write_buf[d] \cup
                                            {Mention(c), Pointer(c, address, name)}
              [] OTHER                 -> write_buf[d]]
  /\ freed' = freed \cup {c}
  /\ UNCHANGED orphans

\* do_cmd_nick(): the parser's string becomes the nick, and the old one is
\* freed.
ChangeNick(c, name) ==
  /\ Handler /\ nick[c] # NULL
  /\ Head(name) # Dash /\ name \notin Taken
  /\ \E address \in Address \ allocated :
       /\ nick' = [nick EXCEPT ![c] = address]
       /\ allocated' = (allocated \ {nick[c]}) \cup {address}
       /\ string' = [string EXCEPT ![address] = name]
       /\ write_buf' = [d \in Client |->
            CASE d = c                 -> write_buf[d] \cup {Pointer(c, address, name)}
              [] d \in Connected \ {c} -> write_buf[d] \cup
                                            {Copy(string[nick[c]]), Pointer(c, address, name)}
              [] OTHER                 -> write_buf[d]]
  /\ freed' = freed \cup {c}
  /\ UNCHANGED orphans

\* "status" names any clients to one, "turn" the players to all: c is who
\* sent the command, and gets a prompt.
NameClients(c, named, told) ==
  /\ Handler /\ nick[c] # NULL
  /\ write_buf' = [d \in Client |->
       write_buf[d] \cup (IF d \in told THEN {Mention(e) : e \in named} ELSE {})
                    \cup (IF d = c THEN {Mention(c)} ELSE {})]
  /\ UNCHANGED <<nick, allocated, string, orphans, freed>>

(***************************************************************************)
(* do_cmd_turn() of the last player: the clients are told of the turn, the *)
(* auctions, who is bankrupt and who has won, and c gets its prompt.       *)
(* "named" are those of the list, "served" the requests of others: their   *)
(* nick is read in a freed client_info.  If that has become another        *)
(* client's it is that client's nick, or else whatever the memory holds.   *)
(***************************************************************************)
EndMonth(c, named, served) ==
  /\ Handler /\ nick[c] # NULL
  /\ \E at \in [served -> Address] :
       /\ \A r \in served : nick[r.client] # NULL => at[r] = nick[r.client]
       /\ write_buf' = [d \in Client |->
            IF d \in Connected
              THEN write_buf[d] \cup {Mention(e) : e \in named \cup {c}}
                     \cup {Announcement(r, at[r]) : r \in {q \in served : q.client # d}}
              ELSE write_buf[d]]
  /\ orphans' = {}
  /\ freed' = freed \cup {r.client : r \in served}
  /\ UNCHANGED <<nick, allocated, string>>

\* try_to_start_new_round(), before the clients of an iteration are looked
\* at: flush_auctions_info() forgets the requests.
NewRound ==
  /\ Handler /\ handlers = 0
  /\ orphans' = {}
  /\ UNCHANGED <<nick, allocated, string, write_buf, freed>>

\* The client's requests stay in the lists, if it has any (module Auction).
LeaveRequests(c) ==
  \/ UNCHANGED orphans
  \/ /\ Cardinality(orphans) < MaxOrphans
     /\ orphans' = orphans \cup {[client |-> c, name |-> string[nick[c]]]}

\* Mutant of Disconnect: the nick is not freed.
MutKeepNick(c) ==
  /\ Handler /\ nick[c] # NULL
  /\ nick' = [nick EXCEPT ![c] = NULL]
  /\ write_buf' = [d \in Client |->
       CASE d = c          -> {}
         [] d \in Connected \ {c} -> write_buf[d] \cup {Farewell(c)}
         [] OTHER          -> write_buf[d]]
  /\ LeaveRequests(c)
  /\ freed' = freed \cup {c}
  /\ UNCHANGED <<allocated, string>>

\* try_to_disconnect(): the others are told, the client's own buffer is
\* written, its nick is freed.
Disconnect(c) ==
  /\ Handler /\ nick[c] # NULL
  /\ nick' = [nick EXCEPT ![c] = NULL]
  /\ allocated' = allocated \ {nick[c]}
  /\ write_buf' = [d \in Client |->
       CASE d = c          -> {}
         [] d \in Connected \ {c} -> write_buf[d] \cup {Farewell(c)}
         [] OTHER          -> write_buf[d]]
  /\ LeaveRequests(c)
  /\ freed' = freed \cup {c}
  /\ UNCHANGED string

\* Mutant of WriteBuffers: who has changed its name is passed by.
MutWriteOthers ==
  /\ write_buf' = [c \in Client |-> IF c \in freed THEN write_buf[c] ELSE {}]
  /\ freed' = {} /\ handlers' = 0
  /\ UNCHANGED <<nick, allocated, string, orphans>>

\* write_buffers_all_clients(): msg_buffer_to_string() empties the buffers.
WriteBuffers ==
  /\ write_buf' = [c \in Client |-> {}]
  /\ freed' = {} /\ handlers' = 0
  /\ UNCHANGED <<nick, allocated, string, orphans>>

Next ==
  \/ \E c \in Client : Connect(c) \/ PrintNick(c) \/ Disconnect(c)
  \/ \E c \in Client, name \in AskedName : RefuseNick(c, name) \/ ChangeNick(c, name)
  \/ \E c \in Client, number \in ShownNumber : ShowNumber(c, number)
  \/ \E c \in Client : \E named, told \in SUBSET Connected : NameClients(c, named, told)
  \/ \E c \in Client : \E named \in SUBSET Connected, served \in SUBSET orphans :
       EndMonth(c, named, served)
  \/ NewRound \/ WriteBuffers

Spec == Init /\ [][Next]_vars

-----------------------------------------------------------------------------
Blocks == UNION {write_buf[c] : c \in Client}

\* What msg_buffer_to_string() writes of a block
Written(b) ==
  CASE b.kind = "pointer" -> string[b.str]
    [] b.kind = "copy"    -> b.str
    [] OTHER              -> NumberToStr(b.meant)

\* A name is written as it was meant.
Intact(b) ==
  /\ b.kind # "number" => Written(b) = b.meant
  /\ b.kind = "pointer" => b.str \in allocated

\* Every client has a name or none, every string an address, and what was
\* freed was allocated before.
TypeOK ==
  /\ nick \in [Client -> Address \cup {NULL}]
  /\ allocated \subseteq Address
  /\ string = [address \in Address |-> string[address]]
  /\ write_buf = [c \in Client |-> write_buf[c]]
  /\ \A r \in orphans : r.client \in Client
  /\ freed \subseteq Client /\ handlers \in 0 .. MaxHandlers

\* A username stands for one client: neither the name a new client is given
\* nor one that is asked for is in use, whatever was asked for before.
NicksUnique ==
  \A c, d \in Connected : string[nick[c]] = string[nick[d]] => c = d

\* Each string has one owner: a refused name, an old name and the name of
\* who left are freed once, and nobody's nick is.
StringsOwned ==
  /\ allocated = {nick[c] : c \in Connected}
  /\ \A c, d \in Connected : nick[c] = nick[d] => c = d

\* The length a number block adds to its buffer, computed before there is a
\* string, is the length of the string written in its place, and that is the
\* number: its first digit is not 0 and the digits add up.
LengthsExact ==
  \A b \in Blocks : b.kind = "number" =>
    LET digits == Written(b)
        Value[i \in 0 .. Len(digits)] ==
          IF i = 0 THEN 0 ELSE Value[i - 1] * Base + digits[i]
    IN  /\ b.length = Len(digits)
        /\ Value[Len(digits)] = b.meant
        /\ b.meant > 0 => digits[1] # 0

\* A message is written as it was meant unless it names a client whose nick
\* was freed: by a change of name or a departure in the iteration of main()
\* it was made in, or by one before, when a request that was left behind is
\* announced. What others do spoils no message, nor does a string that malloc()
\* gives to another name.
SpoiltOnlyIfFreed ==
  \A b \in Blocks : Intact(b) \/ b.of \in freed

\* A handler's own messages are intact when it is done: what it frees itself
\* it has copied. Only the announcement of a request whose client has left
\* may be spoilt from the first.
OwnMessagesIntact ==
  [][\A c \in Client : \A b \in write_buf'[c] \ write_buf[c] :
       \/ Intact(b)'
       \/ \E r \in orphans : b.of = r.client /\ b.meant = r.name]_vars

=============================================================================
