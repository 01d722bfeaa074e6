----------------------------- MODULE EventLoop -----------------------------
(***************************************************************************)
(* The main loop (main.c) with its descriptors: one iteration is select(), *)
(* at most one accept(), a walk over the list that reads what was ready,   *)
(* and a walk that writes the buffers of all clients.  A step is at most   *)
(* one read or write of a socket: the peers may send, close or reset their *)
(* connections between any two of them.                                    *)
(*                                                                         *)
(* What the commands do to rounds and companies is in other modules: here  *)
(* a command puts messages to the buffers of any clients.                  *)
(***************************************************************************)
EXTENDS Parameters

CONSTANTS
  Client,         \* peers; each has one connection at a time
  Null,           \* no client: the end of the list
  DescriptorLimits,  \* what the last descriptor of the process may be
  HostAddress,    \* the addresses bind() accepts
  FreePort        \* and the ports

ASSUME DescriptorAssumption ==
  /\ Null \notin Client
  /\ DescriptorLimits \subseteq Nat

VARIABLES
  nofile,     \* the last descriptor the process may open (RLIMIT_NOFILE)
  pc,         \* where main() is
  failure,    \* what the process ended of
  clients,    \* the list from first_client to last_client
  fd,         \* client_info.fd, and the sockets that are open
  read_fds,   \* sinfo->read_fds
  max_fd,     \* sinfo->max_fd
  ready_fds,  \* the set select() left
  cur_c,      \* the client a walk over the list is at
  next_c,     \* and the one it goes to after a disconnect
  unsent,     \* the clients whose write_buf is not empty
  backlog,    \* the connections that wait for accept()
  arrived,    \* whether there are bytes to be read from a peer
  peer        \* what is known of the other end of the connection

loop == <<pc, failure, cur_c, next_c>>
registry == <<clients, fd, read_fds, max_fd>>
network == <<backlog, arrived, peer>>
settings == <<parameters, nofile>>
vars == <<settings, loop, registry, ready_fds, unsent, network>>

\* The sockets of main() are numbered from the first descriptor that is free
\* when the program starts.
listening_socket == 0
Closed == -1

(***************************************************************************)
(* The states of a connection: "closed" after a FIN; "reset" after an RST, *)
(* until a call has returned the error; "broken" once it has, or if the    *)
(* RST came after a FIN: read() then returns 0, and write() raises SIGPIPE.*)
(***************************************************************************)
PeerState == {"away", "open", "closed", "reset", "broken"}

Readable(c) == arrived[c] \/ peer[c] \in {"closed", "reset", "broken"}

\* The error is returned, to a read() or to a write(), once.
ErrorTaken(p) == IF p = "reset" THEN "broken" ELSE p

OpenDescriptors == {listening_socket} \cup ({fd[c] : c \in Client} \ {Closed})

First(list) == IF list = <<>> THEN Null ELSE Head(list)

\* cur_c->next
After(c) ==
  LET i == CHOOSE i \in DOMAIN clients : clients[i] = c
  IN  IF i = Len(clients) THEN Null ELSE clients[i + 1]

\* The largest of some descriptors
Largest(fds) == CHOOSE f \in fds : \A g \in fds : g <= f

-----------------------------------------------------------------------------
Init ==
  /\ InitParameters
  /\ nofile \in DescriptorLimits
  /\ pc = "parameters" /\ failure = "none"
  /\ clients = <<>> /\ fd = [c \in Client |-> Closed]
  /\ read_fds = {} /\ max_fd = Closed /\ ready_fds = {}
  /\ cur_c = Null /\ next_c = Null /\ unsent = {}
  /\ backlog = <<>>
  /\ arrived = [c \in Client |-> FALSE] /\ peer = [c \in Client |-> "away"]

\* process_cmd_line_parameters()
ReadParameters ==
  /\ pc = "parameters"
  /\ ProcessArgument
  /\ UNCHANGED <<nofile, loop, registry, ready_fds, unsent, network>>

\* exit(), or a signal
End(cause) == pc' = "ended" /\ failure' = cause

WrongParameters ==
  /\ pc = "parameters" /\ ArgumentError
  /\ End("parameters")
  /\ UNCHANGED <<settings, cur_c, next_c, registry, ready_fds, unsent, network>>

CanListen ==
  config.server_ip \in HostAddress /\ config.listening_port \in FreePort

\* init_server_info(): max_fd is that of an empty list.
Listen ==
  /\ pc = "parameters" /\ ~Parsing
  /\ IF CanListen
     THEN /\ pc' = "select" /\ read_fds' = {listening_socket}
          /\ max_fd' = listening_socket /\ UNCHANGED failure
     ELSE End("socket") /\ UNCHANGED <<read_fds, max_fd>>
  /\ UNCHANGED <<settings, clients, fd, cur_c, next_c, ready_fds, unsent,
                 network>>

-----------------------------------------------------------------------------
(* select() *)

Ready ==
  {f \in read_fds :
     /\ f <= max_fd
     /\ \/ f = listening_socket /\ backlog # <<>>
        \/ \E c \in Client : fd[c] = f /\ Readable(c)}

SelectReturns ==
  /\ pc = "select" /\ Ready # {}
  /\ ready_fds' = Ready
  /\ pc' = "accept"
  /\ UNCHANGED <<settings, failure, cur_c, next_c, registry, unsent, network>>

\* process_time_events() has something to say to every client.  A countdown
\* runs only while there are two.
SelectTimesOut ==
  /\ pc = "select" /\ Ready = {} /\ Len(clients) > 1
  /\ ready_fds' = {}
  /\ unsent' = ToSet(clients)
  /\ pc' = "accept"
  /\ UNCHANGED <<settings, failure, cur_c, next_c, registry, network>>

-----------------------------------------------------------------------------
(* process_new_client() *)

AcceptNothing ==
  /\ pc = "accept" /\ listening_socket \notin ready_fds
  /\ pc' = "read" /\ cur_c' = First(clients)
  /\ UNCHANGED <<settings, failure, next_c, registry, ready_fds, unsent,
                 network>>

FreeDescriptors == (0 .. nofile) \ OpenDescriptors

\* accept() fails, and takes the server with it.
NoDescriptor ==
  /\ pc = "accept" /\ listening_socket \in ready_fds
  /\ FreeDescriptors = {}
  /\ End("accept")
  /\ UNCHANGED <<settings, cur_c, next_c, registry, ready_fds, unsent, network>>

\* accept() gives the lowest free descriptor.
Accepted(c, f) ==
  /\ pc = "accept" /\ listening_socket \in ready_fds
  /\ c = Head(backlog)
  /\ f \in FreeDescriptors /\ \A g \in FreeDescriptors : f <= g
  /\ backlog' = Tail(backlog)
  /\ fd' = [fd EXCEPT ![c] = f]
  /\ UNCHANGED <<settings, failure, arrived, peer>>

\* The limit of clients is reached: the new one is told so, and is left by
\* try_to_disconnect() before the walk begins.
RejectClient ==
  /\ Len(clients) = config.max_clients
  /\ \E c \in Client, f \in 0 .. nofile :
       /\ Accepted(c, f)
       /\ cur_c' = c
       /\ unsent' = unsent \cup {c}
  /\ next_c' = First(clients)
  /\ pc' = "disconnect"
  /\ UNCHANGED <<clients, read_fds, max_fd, ready_fds>>

\* Mutant of RaisedTo: max_fd is that of the last client.
MutLastFd(f) == IF max_fd < f THEN max_fd ELSE f

RaisedTo(f) == IF max_fd < f THEN f ELSE max_fd

\* Mutant of AddClient: the new descriptor is put to the set select() left.
MutAddReady ==
  /\ Len(clients) # config.max_clients
  /\ \E c \in Client, f \in 0 .. nofile, told \in SUBSET ToSet(clients) :
       /\ Accepted(c, f)
       /\ clients' = Append(clients, c)
       /\ read_fds' = read_fds \cup {f}
       /\ max_fd' = RaisedTo(f)
       /\ ready_fds' = ready_fds \cup {f}
       /\ unsent' = unsent \cup told \cup {c}
       /\ cur_c' = First(clients')
  /\ pc' = "read"
  /\ UNCHANGED next_c

\* The clients out of the round are told of the new one, and all of them of
\* a countdown that begins; the new one gets a prompt.
AddClient ==
  /\ Len(clients) # config.max_clients
  /\ \E c \in Client, f \in 0 .. nofile, told \in SUBSET ToSet(clients) :
       /\ Accepted(c, f)
       /\ clients' = Append(clients, c)
       /\ read_fds' = read_fds \cup {f}
       /\ max_fd' = RaisedTo(f)
       /\ unsent' = unsent \cup told \cup {c}
       /\ cur_c' = First(clients')
  /\ pc' = "read"
  /\ UNCHANGED <<next_c, ready_fds>>

-----------------------------------------------------------------------------
(* read_ready_data() *)

Reading(c) == pc = "read" /\ cur_c = c /\ c # Null

SkipClient(c) ==
  /\ Reading(c) /\ fd[c] \notin ready_fds
  /\ cur_c' = After(c)
  /\ UNCHANGED <<settings, pc, failure, next_c, registry, ready_fds, unsent,
                 network>>

\* One bufferful: if there was more, it arrives after this read.
TakeData(c) ==
  /\ Reading(c) /\ fd[c] \in ready_fds /\ arrived[c]
  /\ arrived' = [arrived EXCEPT ![c] = FALSE]
  /\ UNCHANGED <<settings, failure, registry, ready_fds, backlog, peer>>

\* process_readed_data(): no command, or commands with messages to some
\* clients and a prompt to their own.
ReadCommands(c) ==
  /\ TakeData(c)
  /\ \E told \in SUBSET ToSet(clients) :
       /\ told # {} => c \in told
       /\ unsent' = unsent \cup told
  /\ cur_c' = After(c)
  /\ UNCHANGED <<pc, next_c>>

\* CMD_PROTOCOL_PARSE_ERROR: the client is still connected, and is told why
\* it will not be.
ReadGarbage(c) ==
  /\ TakeData(c)
  /\ unsent' = unsent \cup {c}
  /\ next_c' = After(c)
  /\ pc' = "disconnect" /\ UNCHANGED cur_c

\* read() returned 0, or an error.
ReadEnd(c) ==
  /\ Reading(c) /\ fd[c] \in ready_fds
  /\ ~arrived[c] /\ Readable(c)
  /\ pc' = IF peer[c] = "reset" THEN "read error" ELSE "disconnect"
  /\ peer' = [peer EXCEPT ![c] = ErrorTaken(@)]
  /\ next_c' = After(c)
  /\ UNCHANGED <<settings, failure, cur_c, registry, ready_fds, unsent,
                 backlog, arrived>>

\* Mutant of EndOfRead: the messages of a time event wait for a client.
MutSkipWrite ==
  /\ pc = "read" /\ cur_c = Null
  /\ pc' = IF ready_fds = {} THEN "select" ELSE "write"
  /\ cur_c' = IF ready_fds = {} THEN Null ELSE First(clients)
  /\ ready_fds' = {}
  /\ UNCHANGED <<settings, failure, next_c, registry, unsent, network>>

\* What is left of ready_fds is not looked at again.
EndOfRead ==
  /\ pc = "read" /\ cur_c = Null
  /\ pc' = "write" /\ cur_c' = First(clients)
  /\ ready_fds' = {}
  /\ UNCHANGED <<settings, failure, next_c, registry, unsent, network>>

-----------------------------------------------------------------------------
(* try_to_disconnect(), for a client of the list or a rejected one *)

Disconnecting(c) == pc \in {"disconnect", "read error"} /\ cur_c = c

\* write() to a peer that is gone. The signal is left to its default action.
BrokenPipe(c) ==
  /\ Disconnecting(c) \/ (pc = "write" /\ cur_c = c)
  /\ c \in unsent /\ peer[c] = "broken"
  /\ End("pipe")
  /\ UNCHANGED <<settings, cur_c, next_c, registry, ready_fds, unsent, network>>

CanWrite(c) == c \in unsent => peer[c] # "broken"

\* Mutant of Without: the descriptor stays in read_fds.
MutWithout(c) ==
  /\ \E i \in DOMAIN clients : clients[i] = c /\ clients' = RemoveAt(clients, i)
  /\ UNCHANGED read_fds
  /\ max_fd' = IF max_fd = fd[c]
               THEN Largest({listening_socket} \cup {fd[d] : d \in ToSet(clients)})
               ELSE max_fd

\* try_to_unregister_client(): max_fd is computed with the client still in
\* the list, so it stays.
Without(c) ==
  /\ \E i \in DOMAIN clients : clients[i] = c /\ clients' = RemoveAt(clients, i)
  /\ read_fds' = read_fds \ {fd[c]}
  /\ max_fd' = IF max_fd = fd[c]
               THEN Largest({listening_socket} \cup {fd[d] : d \in ToSet(clients)})
               ELSE max_fd

\* close()
Close(c) ==
  /\ fd' = [fd EXCEPT ![c] = Closed]
  /\ arrived' = [arrived EXCEPT ![c] = FALSE]
  /\ peer' = [peer EXCEPT ![c] = "away"]

\* Mutant of Disconnect: the walk goes on from the client that was freed.
MutWalkFreed(c) ==
  /\ Disconnecting(c) /\ CanWrite(c)
  /\ IF c \in ToSet(clients)
     THEN unsent' = ToSet(clients) \ {c} /\ Without(c)
     ELSE unsent' = unsent \ {c} /\ UNCHANGED <<clients, read_fds, max_fd>>
  /\ Close(c)
  /\ pc' = "read"
  /\ UNCHANGED <<settings, failure, cur_c, next_c, ready_fds, backlog>>

\* Everybody else is told of the end of a client of the list.
Disconnect(c) ==
  /\ Disconnecting(c) /\ CanWrite(c)
  /\ IF c \in ToSet(clients)
     THEN unsent' = ToSet(clients) \ {c} /\ Without(c)
     ELSE unsent' = unsent \ {c} /\ UNCHANGED <<clients, read_fds, max_fd>>
  /\ Close(c)
  /\ pc' = "read" /\ cur_c' = next_c /\ next_c' = Null
  /\ UNCHANGED <<settings, failure, ready_fds, backlog>>

-----------------------------------------------------------------------------
(* write_buffers_all_clients() *)

WriteBuffer(c) ==
  /\ pc = "write" /\ cur_c = c /\ CanWrite(c)
  /\ IF c \in unsent
     THEN /\ peer' = [peer EXCEPT ![c] = ErrorTaken(@)]
          /\ unsent' = unsent \ {c}
     ELSE UNCHANGED <<unsent, peer>>
  /\ cur_c' = After(c)
  /\ UNCHANGED <<settings, pc, failure, next_c, registry, ready_fds, backlog,
                 arrived>>

EndOfIteration ==
  /\ pc = "write" /\ cur_c = Null
  /\ pc' = "select"
  /\ UNCHANGED <<settings, failure, cur_c, next_c, registry, ready_fds, unsent,
                 network>>

-----------------------------------------------------------------------------
(* The peers *)

PeerConnects(c) ==
  /\ pc \notin {"parameters", "ended"} /\ peer[c] = "away"
  /\ backlog' = Append(backlog, c)
  /\ peer' = [peer EXCEPT ![c] = "open"]
  /\ UNCHANGED <<settings, loop, registry, ready_fds, unsent, arrived>>

PeerSends(c) ==
  /\ pc # "ended" /\ peer[c] = "open" /\ ~arrived[c]
  /\ arrived' = [arrived EXCEPT ![c] = TRUE]
  /\ UNCHANGED <<settings, loop, registry, ready_fds, unsent, backlog, peer>>

PeerCloses(c) ==
  /\ pc # "ended" /\ peer[c] = "open"
  /\ peer' = [peer EXCEPT ![c] = "closed"]
  /\ UNCHANGED <<settings, loop, registry, ready_fds, unsent, backlog, arrived>>

PeerResets(c) ==
  /\ pc # "ended" /\ peer[c] \in {"open", "closed"}
  /\ peer' = [peer EXCEPT ![c] = IF @ = "open" THEN "reset" ELSE "broken"]
  /\ UNCHANGED <<settings, loop, registry, ready_fds, unsent, backlog, arrived>>

-----------------------------------------------------------------------------
\* The end of the process is the end of the behaviour.
Ended == pc = "ended" /\ UNCHANGED vars

Startup == ReadParameters \/ WrongParameters \/ Listen
Accepting == AcceptNothing \/ NoDescriptor \/ RejectClient \/ AddClient
Walk(c) ==
  \/ SkipClient(c) \/ ReadCommands(c) \/ ReadGarbage(c) \/ ReadEnd(c)
  \/ BrokenPipe(c) \/ Disconnect(c) \/ WriteBuffer(c)

Main ==
  \/ Startup
  \/ SelectReturns \/ Accepting
  \/ \E c \in Client : Walk(c)
  \/ EndOfRead \/ EndOfIteration

Peers ==
  \E c \in Client :
    PeerConnects(c) \/ PeerSends(c) \/ PeerCloses(c) \/ PeerResets(c)

Next == Main \/ SelectTimesOut \/ Peers \/ Ended

\* The process is scheduled, and no write() blocks for ever.
Spec == Init /\ [][Next]_vars /\ WF_vars(Main)

-----------------------------------------------------------------------------
Registered == ToSet(clients)

\* Every variable of the loop keeps its type.
TypeOK ==
  /\ nofile \in DescriptorLimits
  /\ pc \in {"parameters", "select", "accept", "read", "disconnect", "read error",
            "write", "ended"}
  /\ failure \in {"none", "parameters", "socket", "accept", "pipe"}
  /\ clients \in Seq(Client)
  /\ fd \in [Client -> {Closed} \cup 1 .. nofile]
  /\ read_fds \subseteq 0 .. nofile
  /\ max_fd \in {Closed} \cup 0 .. nofile
  /\ ready_fds \subseteq 0 .. nofile
  /\ cur_c \in Client \cup {Null} /\ next_c \in Client \cup {Null}
  /\ unsent \subseteq Client
  /\ backlog \in Seq(Client)
  /\ arrived \in [Client -> BOOLEAN] /\ peer \in [Client -> PeerState]

\* Once the server listens, select() watches the listening socket and the
\* open connections of the list, each under a descriptor of its own, and
\* nothing that was closed; max_fd hides none of them, though it is not
\* lowered when its client leaves.
DescriptorsExact ==
  /\ \A c, d \in Client : fd[c] # Closed /\ fd[c] = fd[d] => c = d
  /\ IsInjective(clients)
  /\ \A c \in Registered : fd[c] # Closed
  /\ read_fds # {} =>
       read_fds = {listening_socket} \cup {fd[c] : c \in Registered}
  /\ \A f \in read_fds : f <= max_fd

\* The pointers of the walks lead to clients that are in the list, though
\* clients are freed while it is walked (a rejected one never was there).
WalkAlive ==
  /\ next_c \in Registered \cup {Null}
  /\ pc \in {"read", "write"} => cur_c \in Registered \cup {Null}
  /\ pc = "read error" => cur_c \in Registered
  /\ \A c \in Client : Disconnecting(c) => fd[c] # Closed /\ next_c # c

\* The server never waits in read(): what select() found ready is a
\* connection that still has something to read, whatever the handlers before
\* have closed and accept() has opened under a number used before.
ReadsNeverBlock ==
  \A c \in Registered :
    pc = "read" /\ cur_c = c /\ fd[c] \in ready_fds => Readable(c)

\* No message waits in a buffer for a client to speak: select() is called
\* with all the buffers written.
NothingUnsent == pc = "select" => unsent = {}

\* While the process runs, every connection is accepted or rejected, whatever
\* was sent is read, and who has gone is disconnected, however busy others
\* keep the server.
EveryoneServed ==
  \A c \in Client :
    /\ c \in ToSet(backlog) ~> c \notin ToSet(backlog) \/ pc = "ended"
    /\ arrived[c] ~> ~arrived[c] \/ pc = "ended"
    /\ peer[c] \in {"closed", "reset", "broken"} ~> peer[c] = "away" \/ pc = "ended"

\* "Read error is not fatal for server. For example read returns error, if
\* client was unexpectedly terminated (sent a RST packet)." (main.c:576)
ReadErrorNotFatal == [][pc = "read error" => failure' # "pipe"]_vars

=============================================================================
