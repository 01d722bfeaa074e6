-------------------------- MODULE EventLoopProofs --------------------------
(***************************************************************************)
(* Proofs about EventLoop, for every set of peers, limit of descriptors    *)
(* and command line: the descriptors select() watches are those of the     *)
(* list, and no walk over the list reaches a client that was freed.        *)
(*                                                                         *)
(* Both rest on what is known of the connections outside the list: one     *)
(* that waits for accept() has no descriptor, so the client made of it is  *)
(* new to the list, and so is its descriptor (NetworkOK).                  *)
(*                                                                         *)
(* The command line is accepted when it is of the form the usage shows,    *)
(* whatever its length: every field gets the value that was given last.    *)
(***************************************************************************)
EXTENDS EventLoop, ListProofs

USE DEF listening_socket, Closed

\* A connection has a descriptor only after accept(), and is there till
\* close().
NetworkOK ==
  /\ IsInjective(backlog)
  /\ \A c \in ToSet(backlog) : fd[c] = Closed /\ peer[c] # "away"
  /\ \A c \in Client : fd[c] # Closed => peer[c] # "away"

\* Before it listens the server has no clients, after that it listens.
ListensOK ==
  /\ pc = "parameters" => clients = <<>>
  /\ pc \notin {"parameters", "ended"} => read_fds # {}
  /\ pc = "accept" /\ listening_socket \in ready_fds => backlog # <<>>

\* The inductive invariant.
LoopInv == TypeOK /\ NetworkOK /\ ListensOK /\ DescriptorsExact /\ WalkAlive

-----------------------------------------------------------------------------
(* The list *)

LEMMA RegisteredType == ASSUME clients \in Seq(Client) PROVE Registered \subseteq Client
<1> SUFFICES ASSUME NEW c \in Registered PROVE c \in Client
  OBVIOUS
<1>1. PICK i \in DOMAIN clients : c = clients[i]
  BY DEF Registered, ToSet
<1> QED
  BY <1>1, ElementOfSeq, LenProperties

LEMMA FirstIsThere == ASSUME clients \in Seq(Client) PROVE First(clients) \in Registered \cup {Null}
BY HeadTail DEF First, Registered

\* The client after one of the list is another of the list, or none.
LEMMA AfterIsThere ==
  ASSUME clients \in Seq(Client), IsInjective(clients), NEW c \in Registered
  PROVE  After(c) \in Registered \cup {Null} /\ After(c) # c
<1> DEFINE i == CHOOSE i \in DOMAIN clients : clients[i] = c
<1>1. i \in DOMAIN clients /\ clients[i] = c
  BY DEF Registered, ToSet
<1>2. After(c) = IF i = Len(clients) THEN Null ELSE clients[i + 1]
  BY DEF After
<1> HIDE DEF i
<1>3. c \in Client
  BY RegisteredType
<1>4. CASE i = Len(clients)
  BY <1>2, <1>3, <1>4, DescriptorAssumption
<1>5. CASE i # Len(clients)
  <2>1. i + 1 \in DOMAIN clients /\ i + 1 # i
    BY <1>1, <1>5, LenProperties
  <2> QED
    BY <1>1, <1>2, <1>5, <2>1 DEF Registered, ToSet, IsInjective
<1> QED
  BY <1>4, <1>5

LEMMA SameList ==
  ASSUME UNCHANGED clients PROVE Registered' = Registered
BY DEF Registered

LEMMA SameRegistry ==
  ASSUME DescriptorsExact, UNCHANGED registry PROVE DescriptorsExact'
BY DEF DescriptorsExact, registry, Registered

\* The largest of the descriptors of the list, when one is known to be.
LEMMA LargestIs ==
  ASSUME NEW S \in SUBSET Int, NEW f \in S, \A g \in S : g <= f
  PROVE  Largest(S) \in S /\ \A g \in S : g <= Largest(S)
BY DEF Largest

-----------------------------------------------------------------------------
(* Actions that change the list *)

LEMMA AcceptedStep ==
  ASSUME LoopInv, NEW c \in Client, NEW f \in 0 .. nofile, Accepted(c, f)
  PROVE  /\ f \in 1 .. nofile /\ \A d \in Client : fd[d] # f
         /\ c \notin Registered /\ fd[c] = Closed
         /\ fd' = [fd EXCEPT ![c] = f]
         /\ fd' \in [Client -> {Closed} \cup 1 .. nofile]
         /\ backlog' \in Seq(Client) /\ NetworkOK'
         /\ UNCHANGED <<settings, failure, arrived, peer>>
<1>1. /\ fd' = [fd EXCEPT ![c] = f] /\ c = Head(backlog) /\ backlog' = Tail(backlog)
      /\ f \in FreeDescriptors
      /\ UNCHANGED <<settings, failure, arrived, peer>>
      /\ read_fds # {}
  BY DEF Accepted, LoopInv, ListensOK
<1>2. f \in 1 .. nofile /\ \A d \in Client : fd[d] # f
  BY <1>1 DEF FreeDescriptors, OpenDescriptors
<1>3. backlog # <<>> /\ backlog \in Seq(Client)
  BY DEF Accepted, LoopInv, ListensOK, TypeOK
<1>4. /\ c \in ToSet(backlog) /\ backlog' \in Seq(Client)
      /\ ToSet(backlog') \subseteq ToSet(backlog)
      /\ IsInjective(backlog') /\ c \notin ToSet(backlog')
  BY <1>1, <1>3, HeadTail DEF LoopInv, NetworkOK
<1>5. fd[c] = Closed /\ peer[c] # "away"
  BY <1>4 DEF LoopInv, NetworkOK
<1>6. c \notin Registered
  BY <1>5 DEF LoopInv, DescriptorsExact
<1>7. fd \in [Client -> {Closed} \cup 1 .. nofile]
  BY DEF LoopInv, TypeOK
<1>8. fd' \in [Client -> {Closed} \cup 1 .. nofile]
  BY <1>1, <1>2, <1>7
<1>9. NetworkOK'
  <2>1. \A d \in ToSet(backlog') : fd'[d] = Closed /\ peer'[d] # "away"
    <3> SUFFICES ASSUME NEW d \in ToSet(backlog') PROVE fd'[d] = Closed /\ peer'[d] # "away"
      OBVIOUS
    <3>1. fd[d] = Closed /\ peer[d] # "away" /\ d # c
      BY <1>4 DEF LoopInv, NetworkOK
    <3> QED
      BY <1>1, <1>7, <3>1
  <2>2. \A d \in Client : fd'[d] # Closed => peer'[d] # "away"
    BY <1>1, <1>5, <1>7 DEF LoopInv, NetworkOK
  <2> QED
    BY <1>4, <2>1, <2>2 DEF NetworkOK
<1> QED
  BY <1>1, <1>2, <1>4, <1>5, <1>6, <1>8, <1>9

LEMMA AddClientInv == ASSUME LoopInv, AddClient PROVE LoopInv'
<1>1. PICK c \in Client, f \in 0 .. nofile, told \in SUBSET ToSet(clients) :
        /\ Accepted(c, f)
        /\ clients' = Append(clients, c)
        /\ read_fds' = read_fds \cup {f}
        /\ max_fd' = RaisedTo(f)
        /\ unsent' = unsent \cup told \cup {c}
        /\ cur_c' = First(clients')
  BY DEF AddClient
<1>2. pc = "accept" /\ pc' = "read" /\ UNCHANGED <<next_c, ready_fds, nofile, failure, arrived, peer>>
  BY <1>1 DEF AddClient, Accepted, settings
<1>3. /\ f \in 1 .. nofile /\ \A d \in Client : fd[d] # f
      /\ c \notin Registered
      /\ fd' = [fd EXCEPT ![c] = f]
      /\ fd' \in [Client -> {Closed} \cup 1 .. nofile]
      /\ backlog' \in Seq(Client) /\ NetworkOK'
  BY <1>1, AcceptedStep
<1>4. /\ clients' \in Seq(Client) /\ IsInjective(clients')
      /\ Registered' = Registered \cup {c}
  <2>1. clients \in Seq(Client) /\ IsInjective(clients) /\ c \notin ToSet(clients)
    BY <1>3 DEF LoopInv, TypeOK, DescriptorsExact, Registered
  <2>2. clients' \in Seq(Client)
    BY <1>1, <2>1, AppendProperties
  <2>3. IsInjective(clients') /\ ToSet(clients') = ToSet(clients) \cup {c}
    BY <1>1, <2>1, AppendFresh
  <2> QED
    BY <2>2, <2>3 DEF Registered
<1>5. /\ Registered \subseteq Client /\ nofile \in Nat
      /\ fd \in [Client -> {Closed} \cup 1 .. nofile]
      /\ max_fd \in {Closed} \cup 0 .. nofile
      /\ read_fds \subseteq 0 .. nofile
  BY RegisteredType, DescriptorAssumption DEF LoopInv, TypeOK
<1>6. /\ max_fd' \in {Closed} \cup 0 .. nofile
      /\ max_fd <= max_fd' /\ f <= max_fd'
  BY <1>1, <1>3, <1>5 DEF RaisedTo
<1>7. First(clients') \in Registered' \cup {Null}
  <2>1. ASSUME NEW s \in Seq(Client) PROVE First(s) \in ToSet(s) \cup {Null}
    BY HeadTail DEF First
  <2> QED
    BY <1>4, <2>1 DEF Registered
<1>8. TypeOK'
  <2>1. unsent' \subseteq Client /\ cur_c' \in Client \cup {Null}
    BY <1>1, <1>4, <1>5, <1>7 DEF LoopInv, TypeOK, Registered
  <2>2. read_fds' \subseteq 0 .. nofile
    BY <1>1, <1>3, <1>5
  <2> QED
    BY <1>2, <1>3, <1>4, <1>6, <2>1, <2>2 DEF LoopInv, TypeOK
<1>9. DescriptorsExact'
  <2>1. \A d, e \in Client : fd'[d] # Closed /\ fd'[d] = fd'[e] => d = e
    BY <1>3, <1>5 DEF LoopInv, DescriptorsExact
  <2>2. \A d \in Registered' : fd'[d] # Closed
    BY <1>3, <1>4, <1>5 DEF LoopInv, DescriptorsExact
  <2>3. read_fds' = {listening_socket} \cup {fd'[d] : d \in Registered'}
    <3>1. read_fds = {listening_socket} \cup {fd[d] : d \in Registered}
      BY <1>2 DEF LoopInv, ListensOK, DescriptorsExact
    <3>2. fd'[c] = f /\ \A d \in Registered : fd'[d] = fd[d]
      BY <1>3, <1>5
    <3> QED
      BY <1>1, <1>4, <3>1, <3>2
  <2>4. \A g \in read_fds' : g <= max_fd'
    <3> SUFFICES ASSUME NEW g \in read_fds' PROVE g <= max_fd'
      OBVIOUS
    <3>1. CASE g = f
      BY <1>6, <3>1
    <3>2. CASE g \in read_fds
      <4>1. g <= max_fd /\ g \in Int /\ max_fd \in Int /\ max_fd' \in Int
        BY <1>5, <1>6, <3>2 DEF LoopInv, DescriptorsExact
      <4> QED
        BY <1>6, <4>1
    <3> QED
      BY <1>1, <3>1, <3>2
  <2> QED
    BY <1>4, <2>1, <2>2, <2>3, <2>4 DEF DescriptorsExact
<1>10. WalkAlive'
  BY <1>1, <1>2, <1>4, <1>7 DEF LoopInv, WalkAlive, Disconnecting
<1>11. ListensOK'
  BY <1>1, <1>2, <1>3 DEF ListensOK
<1> QED
  BY <1>3, <1>8, <1>9, <1>10, <1>11 DEF LoopInv

LEMMA RejectClientInv == ASSUME LoopInv, RejectClient PROVE LoopInv'
<1>1. PICK c \in Client, f \in 0 .. nofile :
        Accepted(c, f) /\ cur_c' = c /\ unsent' = unsent \cup {c}
  BY DEF RejectClient
<1>2. /\ pc = "accept" /\ pc' = "disconnect" /\ next_c' = First(clients)
      /\ UNCHANGED <<clients, read_fds, max_fd, ready_fds, nofile, failure, arrived, peer>>
  BY <1>1 DEF RejectClient, Accepted, settings
<1>3. /\ f \in 1 .. nofile /\ \A d \in Client : fd[d] # f
      /\ c \notin Registered
      /\ fd' = [fd EXCEPT ![c] = f]
      /\ fd' \in [Client -> {Closed} \cup 1 .. nofile]
      /\ backlog' \in Seq(Client) /\ NetworkOK'
  BY <1>1, AcceptedStep
<1>4. /\ Registered' = Registered /\ Registered \subseteq Client
      /\ First(clients) \in Registered \cup {Null}
      /\ fd \in [Client -> {Closed} \cup 1 .. nofile]
  BY <1>2, SameList, RegisteredType, FirstIsThere DEF LoopInv, TypeOK
<1>5. TypeOK'
  BY <1>1, <1>2, <1>3, <1>4 DEF LoopInv, TypeOK
<1>6. DescriptorsExact'
  <2>1. \A d, e \in Client : fd'[d] # Closed /\ fd'[d] = fd'[e] => d = e
    BY <1>3, <1>4 DEF LoopInv, DescriptorsExact
  <2>2. \A d \in Registered : fd'[d] = fd[d]
    BY <1>3, <1>4
  <2>3. {fd'[d] : d \in Registered} = {fd[d] : d \in Registered}
    BY <2>2
  <2> QED
    BY <1>2, <1>4, <2>1, <2>2, <2>3 DEF LoopInv, DescriptorsExact
<1>7. WalkAlive'
  <2>1. fd'[c] # Closed /\ c # Null
    BY <1>3, <1>4, DescriptorAssumption
  <2> QED
    BY <1>1, <1>2, <1>3, <1>4, <2>1 DEF LoopInv, WalkAlive, Disconnecting
<1>8. ListensOK'
  BY <1>2 DEF LoopInv, ListensOK
<1> QED
  BY <1>3, <1>5, <1>6, <1>7, <1>8 DEF LoopInv

\* What try_to_unregister_client() leaves of the list and its descriptors.
LEMMA WithoutStep ==
  ASSUME LoopInv, pc # "ended", NEW c \in Registered, Without(c),
         fd' = [fd EXCEPT ![c] = Closed]
  PROVE  /\ clients' \in Seq(Client) /\ IsInjective(clients')
         /\ Registered' = Registered \ {c}
         /\ read_fds' \subseteq read_fds
         /\ max_fd' \in {Closed} \cup 0 .. nofile
         /\ read_fds' = {listening_socket} \cup {fd'[d] : d \in Registered'}
         /\ \A f \in read_fds' : f <= max_fd'
<1> DEFINE S == {listening_socket} \cup {fd[d] : d \in Registered}
<1>1. /\ clients \in Seq(Client) /\ IsInjective(clients)
      /\ Registered \subseteq Client
      /\ fd \in [Client -> {Closed} \cup 1 .. nofile]
      /\ nofile \in Nat /\ max_fd \in {Closed} \cup 0 .. nofile
      /\ \A d \in Registered : fd[d] \in 1 .. nofile
      /\ \A d, e \in Client : fd[d] # Closed /\ fd[d] = fd[e] => d = e
  BY RegisteredType, DescriptorAssumption DEF LoopInv, TypeOK, DescriptorsExact
<1>2. read_fds = S /\ \A f \in S : f <= max_fd
  <2>1. pc # "parameters"
    <3>1. clients # <<>>
      BY EmptySeq DEF Registered, ToSet
    <3> QED
      BY <3>1 DEF LoopInv, ListensOK
  <2> QED
    BY <2>1 DEF LoopInv, ListensOK, DescriptorsExact
<1>3. PICK i \in DOMAIN clients : clients[i] = c /\ clients' = RemoveAt(clients, i)
  BY DEF Without
<1>4. clients' \in Seq(Client)
  BY <1>1, <1>3, RemoveAtType
<1>5. /\ IsInjective(clients') /\ c \notin Registered'
      /\ \A d \in Registered : d # c => d \in Registered'
  BY <1>1, <1>3, RemoveAtInjective DEF Registered
<1>6. Registered' \subseteq Registered
  BY <1>1, <1>3, RemoveAtSubset DEF Registered
<1>7. Registered' = Registered \ {c}
  BY <1>5, <1>6
<1>8. /\ read_fds' = read_fds \ {fd[c]}
      /\ max_fd' = IF max_fd = fd[c] THEN Largest(S) ELSE max_fd
  BY DEF Without, Registered
<1>9. read_fds' = {listening_socket} \cup {fd'[d] : d \in Registered'}
  <2>1. \A d \in Registered' : fd'[d] = fd[d] /\ fd[d] # fd[c]
    BY <1>1, <1>7
  <2>2. fd[c] # listening_socket
    BY <1>1
  <2> QED
    BY <1>2, <1>7, <1>8, <2>1, <2>2
<1>10. max_fd' \in S \cup {max_fd} /\ \A f \in S : f <= max_fd'
  <2>1. CASE max_fd = fd[c]
    <3>1. S \in SUBSET Int /\ max_fd \in S
      BY <1>1, <2>1
    <3>2. Largest(S) \in S /\ \A g \in S : g <= Largest(S)
      BY <1>2, <3>1, LargestIs
    <3> QED
      BY <1>8, <2>1, <3>2
  <2>2. CASE max_fd # fd[c]
    BY <1>2, <1>8, <2>2
  <2> QED
    BY <2>1, <2>2
<1>11. S \subseteq 0 .. nofile
  BY <1>1
<1> QED
  BY <1>1, <1>2, <1>4, <1>5, <1>7, <1>8, <1>9, <1>10, <1>11

LEMMA DisconnectInv == ASSUME LoopInv, NEW c \in Client, Disconnect(c) PROVE LoopInv'
<1>1. /\ pc \in {"disconnect", "read error"} /\ cur_c = c
      /\ fd' = [fd EXCEPT ![c] = Closed]
      /\ arrived' = [arrived EXCEPT ![c] = FALSE]
      /\ peer' = [peer EXCEPT ![c] = "away"]
      /\ pc' = "read" /\ cur_c' = next_c /\ next_c' = Null
      /\ UNCHANGED <<nofile, failure, ready_fds, backlog>>
  BY DEF Disconnect, Disconnecting, Close, settings
<1>2. /\ fd[c] # Closed /\ next_c # c /\ next_c \in Registered \cup {Null}
      /\ fd \in [Client -> {Closed} \cup 1 .. nofile]
      /\ peer \in [Client -> PeerState] /\ arrived \in [Client -> BOOLEAN]
      /\ Registered \subseteq Client
      /\ c \notin ToSet(backlog)
  BY <1>1, RegisteredType
     DEF LoopInv, TypeOK, WalkAlive, NetworkOK, Disconnecting
<1>3. /\ clients' \in Seq(Client) /\ IsInjective(clients')
      /\ Registered' = Registered \ {c}
      /\ read_fds' \subseteq 0 .. nofile
      /\ max_fd' \in {Closed} \cup 0 .. nofile
      /\ read_fds' = {listening_socket} \cup {fd'[d] : d \in Registered'}
      /\ \A f \in read_fds' : f <= max_fd'
  <2>1. CASE c \in Registered
    <3>1. Without(c) /\ pc # "ended"
      BY <1>1, <2>1 DEF Disconnect, Registered
    <3> QED
      BY <1>1, <2>1, <3>1, WithoutStep DEF LoopInv, TypeOK
  <2>2. CASE c \notin Registered
    <3>1. UNCHANGED <<clients, read_fds, max_fd>>
      BY <2>2 DEF Disconnect, Registered
    <3>2. Registered' = Registered \ {c}
      BY <2>2, <3>1, SameList
    <3>3. {fd'[d] : d \in Registered} = {fd[d] : d \in Registered}
      BY <1>1, <1>2, <2>2
    <3>4. /\ read_fds = {listening_socket} \cup {fd[d] : d \in Registered}
          /\ IsInjective(clients) /\ \A f \in read_fds : f <= max_fd
      BY <1>1 DEF LoopInv, ListensOK, DescriptorsExact
    <3>5. /\ clients \in Seq(Client) /\ read_fds \subseteq 0 .. nofile
          /\ max_fd \in {Closed} \cup 0 .. nofile
      BY DEF LoopInv, TypeOK
    <3>6. Registered' = Registered
      BY <3>1, SameList
    <3> QED
      BY <3>1, <3>2, <3>3, <3>4, <3>5, <3>6
  <2> QED
    BY <2>1, <2>2
<1>4. unsent' \subseteq Client
  BY <1>2 DEF Disconnect, LoopInv, TypeOK, Registered
<1>5. /\ fd' \in [Client -> {Closed} \cup 1 .. nofile]
      /\ arrived' \in [Client -> BOOLEAN] /\ peer' \in [Client -> PeerState]
  BY <1>1, <1>2 DEF PeerState
<1>6. TypeOK'
  BY <1>1, <1>2, <1>3, <1>4, <1>5 DEF LoopInv, TypeOK
<1>7. NetworkOK'
  <2>1. \A d \in Client : d # c => fd'[d] = fd[d] /\ peer'[d] = peer[d]
    BY <1>1, <1>2
  <2>2. fd'[c] = Closed
    BY <1>1, <1>2
  <2>3. ToSet(backlog) \subseteq Client
    <3> SUFFICES ASSUME NEW d \in ToSet(backlog) PROVE d \in Client
      OBVIOUS
    <3>1. backlog \in Seq(Client)
      BY DEF LoopInv, TypeOK
    <3>2. PICK i \in DOMAIN backlog : d = backlog[i]
      BY DEF ToSet
    <3> QED
      BY <3>1, <3>2, ElementOfSeq, LenProperties
  <2> QED
    BY <1>1, <1>2, <2>1, <2>2, <2>3 DEF LoopInv, NetworkOK
<1>8. ListensOK'
  BY <1>1, <1>3 DEF ListensOK
<1>9. DescriptorsExact'
  <2>1. \A d, e \in Client : fd'[d] # Closed /\ fd'[d] = fd'[e] => d = e
    BY <1>1, <1>2 DEF LoopInv, DescriptorsExact
  <2>2. \A d \in Registered' : fd'[d] # Closed
    BY <1>1, <1>2, <1>3 DEF LoopInv, DescriptorsExact
  <2> QED
    BY <1>3, <2>1, <2>2 DEF DescriptorsExact
<1>10. WalkAlive'
  BY <1>1, <1>2, <1>3 DEF WalkAlive, Disconnecting
<1> QED
  BY <1>6, <1>7, <1>8, <1>9, <1>10 DEF LoopInv

-----------------------------------------------------------------------------
(* Actions that leave the list alone *)

\* A connection that is there stays there.
LEMMA SameNetwork ==
  ASSUME LoopInv, UNCHANGED <<fd, backlog>>,
         \A c \in Client : peer[c] # "away" => peer'[c] # "away"
  PROVE  NetworkOK'
<1>1. \A c \in ToSet(backlog) : c \in Client
  <2> SUFFICES ASSUME NEW c \in ToSet(backlog) PROVE c \in Client
    OBVIOUS
  <2>1. PICK i \in DOMAIN backlog : c = backlog[i]
    BY DEF ToSet
  <2> QED
    BY <2>1, ElementOfSeq, LenProperties DEF LoopInv, TypeOK
<1> QED
  BY <1>1 DEF LoopInv, NetworkOK

LEMMA StartupInv == ASSUME LoopInv, Startup PROVE LoopInv'
<1>1. CASE ReadParameters
  <2>1. UNCHANGED <<nofile, loop, registry, ready_fds, unsent, network>>
    BY <1>1 DEF ReadParameters
  <2> QED
    BY ZenonT(60), <2>1, SameRegistry
       DEF LoopInv, TypeOK, NetworkOK, ListensOK, WalkAlive, Disconnecting,
           Registered, loop, registry, network
<1>2. CASE WrongParameters
  <2>1. /\ pc' = "ended" /\ failure' = "parameters"
        /\ UNCHANGED <<nofile, cur_c, next_c, registry, ready_fds, unsent, network>>
    BY <1>2 DEF WrongParameters, End, settings
  <2> QED
    BY <2>1, SameRegistry
       DEF LoopInv, TypeOK, NetworkOK, ListensOK, WalkAlive, Disconnecting,
           Registered, registry, network
<1>3. CASE Listen
  <2>1. /\ pc = "parameters" /\ clients = <<>>
        /\ UNCHANGED <<nofile, clients, fd, cur_c, next_c, ready_fds, unsent,
                       backlog, arrived, peer>>
    BY <1>3 DEF Listen, LoopInv, ListensOK, settings, network
  <2>2. NetworkOK'
    BY <2>1, SameNetwork
  <2>3. \/ /\ pc' = "select" /\ read_fds' = {listening_socket}
           /\ max_fd' = listening_socket /\ failure' = failure
        \/ /\ pc' = "ended" /\ failure' = "socket"
           /\ read_fds' = read_fds /\ max_fd' = max_fd
    BY <1>3 DEF Listen, End
  <2>4. Registered = {} /\ Registered' = {}
    BY <2>1, EmptySeq DEF Registered, ToSet
  <2>5. nofile \in Nat
    BY DescriptorAssumption DEF LoopInv, TypeOK
  <2>6. TypeOK'
    <3>1. 0 \in 0 .. nofile /\ {0} \subseteq 0 .. nofile
      BY <2>5
    <3>2. /\ read_fds' \subseteq 0 .. nofile
          /\ max_fd' \in {Closed} \cup 0 .. nofile
          /\ pc' \in {"select", "ended"} /\ failure' \in {failure, "socket"}
      BY <2>3, <3>1 DEF LoopInv, TypeOK
    <3> QED
      BY <2>1, <3>2 DEF LoopInv, TypeOK
  <2>7. ListensOK'
    BY <2>1, <2>3 DEF LoopInv, ListensOK
  <2>8. WalkAlive'
    BY <2>1, <2>3, <2>4 DEF LoopInv, WalkAlive, Disconnecting
  <2>9. DescriptorsExact'
    <3>1. {fd[d] : d \in {}} = {}
      OBVIOUS
    <3>2. \A f \in read_fds' : f <= max_fd'
      BY <2>3 DEF LoopInv, DescriptorsExact
    <3>3. read_fds' # {} => read_fds' = {listening_socket} \cup {fd'[d] : d \in Registered'}
      BY <2>1, <2>3, <2>4 DEF LoopInv, DescriptorsExact
    <3> QED
      BY <2>1, <2>4, <3>2, <3>3 DEF LoopInv, DescriptorsExact
  <2> QED
    BY <2>2, <2>6, <2>7, <2>8, <2>9 DEF LoopInv
<1> QED
  BY <1>1, <1>2, <1>3 DEF Startup

LEMMA SelectInv ==
  ASSUME LoopInv, SelectReturns \/ SelectTimesOut \/ EndOfIteration PROVE LoopInv'
<1>1. /\ pc \in {"select", "write"} /\ pc' \in {"select", "accept"}
      /\ UNCHANGED <<nofile, failure, cur_c, next_c, registry, network>>
      /\ ready_fds' \in {Ready, {}, ready_fds} /\ unsent' \in {ToSet(clients), unsent}
      /\ pc' = "accept" => ready_fds' \in {Ready, {}}
  BY DEF SelectReturns, SelectTimesOut, EndOfIteration, settings
<1>2. Registered \subseteq Client /\ Registered' = Registered
  BY <1>1, RegisteredType DEF LoopInv, TypeOK, registry, Registered
<1>3. Ready \subseteq read_fds /\ (listening_socket \in Ready => backlog # <<>>)
  <2>1. Ready \subseteq read_fds
    BY Zenon DEF Ready
  <2>2. \A c \in Client : fd[c] # listening_socket
    <3>1. fd \in [Client -> {Closed} \cup 1 .. nofile] /\ nofile \in Nat
      BY DescriptorAssumption DEF LoopInv, TypeOK
    <3> QED
      BY <3>1
  <2> QED
    BY <2>1, <2>2 DEF Ready
<1>4. TypeOK'
  BY <1>1, <1>2, <1>3 DEF LoopInv, TypeOK, registry, network, Registered
<1>5. NetworkOK'
  BY <1>1, SameNetwork DEF registry, network
<1>6. ListensOK'
  BY <1>1, <1>3 DEF LoopInv, ListensOK, registry, network
<1>7. DescriptorsExact'
  BY <1>1, SameRegistry DEF LoopInv
<1>8. WalkAlive'
  BY <1>1, <1>2 DEF LoopInv, WalkAlive, Disconnecting
<1> QED
  BY <1>4, <1>5, <1>6, <1>7, <1>8 DEF LoopInv

\* The end of the process, and the beginnings of the two walks.
LEMMA PassInv ==
  ASSUME LoopInv, AcceptNothing \/ NoDescriptor \/ EndOfRead \/ \E c \in Client : BrokenPipe(c)
  PROVE  LoopInv'
<1>1. /\ pc \notin {"parameters", "ended", "select"}
      /\ \/ /\ pc' = "ended" /\ failure' \in {"accept", "pipe"}
            /\ UNCHANGED <<cur_c, ready_fds>>
         \/ /\ pc' \in {"read", "write"} /\ failure' = failure
            /\ cur_c' = First(clients) /\ ready_fds' \in {{}, ready_fds}
      /\ UNCHANGED <<nofile, next_c, registry, unsent, network>>
  BY DEF AcceptNothing, NoDescriptor, EndOfRead, BrokenPipe, Disconnecting, End, settings
<1>2. /\ Registered \subseteq Client /\ Registered' = Registered
      /\ First(clients) \in Registered \cup {Null}
  BY <1>1, RegisteredType, FirstIsThere DEF LoopInv, TypeOK, registry, Registered
<1>3. TypeOK'
  BY <1>1, <1>2 DEF LoopInv, TypeOK, registry, network
<1>4. NetworkOK'
  BY <1>1, SameNetwork DEF registry, network
<1>5. ListensOK'
  BY <1>1 DEF LoopInv, ListensOK, registry, network
<1>6. DescriptorsExact'
  BY <1>1, SameRegistry DEF LoopInv
<1>7. WalkAlive'
  BY <1>1, <1>2 DEF LoopInv, WalkAlive, Disconnecting
<1> QED
  BY <1>3, <1>4, <1>5, <1>6, <1>7 DEF LoopInv

\* A step of a walk at a client of the list goes on to the one after it, or
\* remembers that one while the client is disconnected.
LEMMA WalkInv ==
  ASSUME LoopInv, NEW c \in Client,
         SkipClient(c) \/ ReadCommands(c) \/ ReadGarbage(c) \/ ReadEnd(c) \/ WriteBuffer(c)
  PROVE  LoopInv'
<1>1. /\ pc \in {"read", "write"} /\ cur_c = c
      /\ \/ pc' = pc /\ cur_c' = After(c) /\ UNCHANGED next_c
         \/ pc' \in {"disconnect", "read error"} /\ next_c' = After(c) /\ UNCHANGED cur_c
      /\ UNCHANGED <<nofile, failure, registry, ready_fds, backlog>>
  BY DEF SkipClient, ReadCommands, ReadGarbage, ReadEnd, WriteBuffer, Reading, TakeData, settings, network
<1>2. /\ unsent' \subseteq unsent \cup ToSet(clients) \cup {c}
      /\ arrived' \in {arrived, [arrived EXCEPT ![c] = FALSE]}
      /\ peer' \in {peer, [peer EXCEPT ![c] = ErrorTaken(peer[c])]}
  BY DEF SkipClient, ReadCommands, ReadGarbage, ReadEnd, WriteBuffer, TakeData, network
<1>3. /\ c \in Registered
      /\ Registered \subseteq Client /\ Registered' = Registered
      /\ After(c) \in Registered \cup {Null} /\ After(c) # c
  <2>1. c \in Registered
    BY <1>1, DescriptorAssumption DEF LoopInv, WalkAlive
  <2> QED
    BY <1>1, <2>1, RegisteredType, AfterIsThere
       DEF LoopInv, TypeOK, DescriptorsExact, registry, Registered
<1>4. TypeOK'
  <2>1. peer' \in [Client -> PeerState] /\ arrived' \in [Client -> BOOLEAN]
    BY <1>2 DEF LoopInv, TypeOK, PeerState, ErrorTaken
  <2>2. unsent' \subseteq Client
    BY <1>2, <1>3 DEF LoopInv, TypeOK, Registered
  <2> QED
    BY <1>1, <1>3, <2>1, <2>2 DEF LoopInv, TypeOK, registry
<1>5. NetworkOK'
  <2>1. \A d \in Client : peer[d] # "away" => peer'[d] # "away"
    BY <1>2 DEF LoopInv, TypeOK, ErrorTaken
  <2> QED
    BY <1>1, <2>1, SameNetwork DEF registry
<1>6. ListensOK'
  BY <1>1 DEF LoopInv, ListensOK, registry
<1>7. DescriptorsExact'
  BY <1>1, SameRegistry DEF LoopInv
<1>8. WalkAlive'
  <2>1. fd[c] # Closed /\ fd' = fd
    BY <1>1, <1>3 DEF LoopInv, DescriptorsExact, registry
  <2> QED
    BY <1>1, <1>3, <2>1 DEF LoopInv, WalkAlive, Disconnecting
<1> QED
  BY <1>4, <1>5, <1>6, <1>7, <1>8 DEF LoopInv

LEMMA PeersInv == ASSUME LoopInv, Peers PROVE LoopInv'
<1>1. PICK c \in Client : PeerConnects(c) \/ PeerSends(c) \/ PeerCloses(c) \/ PeerResets(c)
  BY DEF Peers
<1>2. UNCHANGED <<settings, loop, registry, ready_fds, unsent>>
  BY <1>1 DEF PeerConnects, PeerSends, PeerCloses, PeerResets
<1>3. /\ peer \in [Client -> PeerState] /\ arrived \in [Client -> BOOLEAN]
      /\ backlog \in Seq(Client)
  BY DEF LoopInv, TypeOK
<1>4. /\ peer' \in [Client -> PeerState] /\ arrived' \in [Client -> BOOLEAN]
      /\ \A d \in Client : peer[d] # "away" => peer'[d] # "away"
  BY <1>1, <1>3 DEF PeerConnects, PeerSends, PeerCloses, PeerResets, PeerState
<1>5. /\ backlog' \in Seq(Client) /\ NetworkOK'
      /\ backlog # <<>> => backlog' # <<>>
  <2>1. CASE PeerConnects(c)
    <3>1. /\ peer[c] = "away" /\ backlog' = Append(backlog, c)
          /\ peer' = [peer EXCEPT ![c] = "open"] /\ fd' = fd
      BY <1>2, <2>1 DEF PeerConnects, registry
    <3>2. fd[c] = Closed /\ c \notin ToSet(backlog) /\ IsInjective(backlog)
      BY <3>1 DEF LoopInv, NetworkOK
    <3>3. backlog' \in Seq(Client) /\ backlog' # <<>>
      BY <1>3, <3>1, AppendProperties
    <3>4. IsInjective(backlog') /\ ToSet(backlog') = ToSet(backlog) \cup {c}
      BY ZenonT(60), <1>3, <3>1, <3>2, AppendFresh
    <3>5. \A d \in ToSet(backlog') : fd'[d] = Closed /\ peer'[d] # "away"
      <4> SUFFICES ASSUME NEW d \in ToSet(backlog') PROVE fd'[d] = Closed /\ peer'[d] # "away"
        OBVIOUS
      <4>1. CASE d = c
        BY <1>3, <3>1, <3>2, <4>1
      <4>2. CASE d # c
        <5>1. fd[d] = Closed /\ peer[d] # "away"
          BY <3>4, <4>2 DEF LoopInv, NetworkOK
        <5> QED
          BY <1>3, <3>1, <4>2, <5>1
      <4> QED
        BY <4>1, <4>2
    <3> QED
      BY <1>4, <3>1, <3>3, <3>4, <3>5 DEF LoopInv, NetworkOK
  <2>2. CASE ~PeerConnects(c)
    <3>1. backlog' = backlog /\ fd' = fd
      BY <1>1, <1>2, <2>2 DEF PeerSends, PeerCloses, PeerResets, registry
    <3> QED
      BY <1>3, <1>4, <3>1, SameNetwork
  <2> QED
    BY <2>1, <2>2
<1>6. TypeOK'
  BY <1>2, <1>4, <1>5 DEF LoopInv, TypeOK, settings, loop, registry
<1>7. ListensOK'
  BY <1>2, <1>5 DEF LoopInv, ListensOK, loop, registry
<1>8. DescriptorsExact'
  BY <1>2, SameRegistry DEF LoopInv
<1>9. WalkAlive'
  BY <1>2 DEF LoopInv, WalkAlive, Disconnecting, loop, registry, Registered
<1> QED
  BY <1>5, <1>6, <1>7, <1>8, <1>9 DEF LoopInv

-----------------------------------------------------------------------------
(* The theorems *)

LEMMA InitLoop == Init => LoopInv
<1> SUFFICES ASSUME Init PROVE LoopInv
  OBVIOUS
<1>1. Registered = {} /\ ToSet(backlog) = {}
  BY EmptySeq DEF Init, Registered, ToSet
<1>2. clients \in Seq(Client) /\ IsInjective(clients) /\ IsInjective(backlog)
  BY EmptySeq DEF Init, IsInjective
<1>3. TypeOK
  BY <1>2 DEF Init, TypeOK, PeerState
<1>4. NetworkOK /\ ListensOK /\ DescriptorsExact /\ WalkAlive
  BY <1>1, <1>2 DEF Init, NetworkOK, ListensOK, DescriptorsExact, WalkAlive, Disconnecting
<1> QED
  BY <1>3, <1>4 DEF LoopInv

THEOREM LoopInductive == Spec => []LoopInv
<1>1. LoopInv /\ [Next]_vars => LoopInv'
  <2> SUFFICES ASSUME LoopInv, [Next]_vars PROVE LoopInv'
    OBVIOUS
  <2>1. CASE Main
    BY <2>1, StartupInv, SelectInv, PassInv, WalkInv, DisconnectInv, AddClientInv, RejectClientInv
       DEF Main, Accepting, Walk
  <2>2. CASE SelectTimesOut
    BY <2>2, SelectInv
  <2>3. CASE Peers
    BY <2>3, PeersInv
  <2>4. CASE UNCHANGED vars
    BY ZenonT(60), <2>4, SameRegistry
       DEF LoopInv, TypeOK, NetworkOK, ListensOK, WalkAlive, Disconnecting, Registered,
           vars, settings, loop, registry, network
  <2> QED
    BY <2>1, <2>2, <2>3, <2>4 DEF Next, Ended
<1> QED
  BY <1>1, InitLoop, PTL DEF Spec

\* Every variable of the loop keeps its type; in particular no descriptor is
\* past the limit of the process.
THEOREM LoopTypes == Spec => []TypeOK
<1>1. LoopInv => TypeOK
  BY DEF LoopInv
<1> QED
  BY <1>1, LoopInductive, PTL

\* select() watches what is open, all of it, and nothing else, whatever
\* connections come and go: a max_fd that is not lowered does no harm.
THEOREM DescriptorsAreExact == Spec => []DescriptorsExact
<1>1. LoopInv => DescriptorsExact
  BY DEF LoopInv
<1> QED
  BY <1>1, LoopInductive, PTL

\* No walk over the list follows a pointer to a client that was freed.
THEOREM WalksStayAlive == Spec => []WalkAlive
<1>1. LoopInv => WalkAlive
  BY DEF LoopInv
<1> QED
  BY <1>1, LoopInductive, PTL

-----------------------------------------------------------------------------
(* What is left of a walk, and what is still to be read and written *)

\* The clients from c to the end of the list.
Rest(c) ==
  {d \in Registered :
     \E i, j \in DOMAIN clients : i <= j /\ clients[i] = c /\ clients[j] = d}

\* Whose buffers the walk that writes will come to.
UnsentOK ==
  /\ pc \in {"parameters", "select"} => unsent = {}
  /\ pc \in {"accept", "read"} => unsent \subseteq Registered
  /\ pc \in {"disconnect", "read error"} => unsent \subseteq Registered \cup {cur_c}
  /\ pc = "write" => unsent \subseteq Rest(cur_c)

\* A client select() found ready, and the walk has not come to.
Pending(c) == fd[c] \in ready_fds => Readable(c)

ReadyOK ==
  /\ pc = "accept" => /\ ready_fds \subseteq read_fds
                      /\ \A c \in Registered : Pending(c)
  /\ pc = "read" => \A c \in Rest(cur_c) : Pending(c)
  /\ pc \in {"disconnect", "read error"} => \A c \in Rest(next_c) : Pending(c)

LEMMA RestOfNull == ASSUME clients \in Seq(Client) PROVE Rest(Null) = {}
<1> SUFFICES ASSUME NEW i \in DOMAIN clients, clients[i] = Null PROVE FALSE
  BY DEF Rest
<1>1. clients[i] \in Client
  BY ElementOfSeq, LenProperties
<1> QED
  BY <1>1, DescriptorAssumption

LEMMA RestOfFirst == ASSUME clients \in Seq(Client) PROVE Rest(First(clients)) = Registered
<1>1. CASE clients = <<>>
  BY <1>1, EmptySeq DEF Rest, Registered, ToSet
<1>2. CASE clients # <<>>
  <2>1. DOMAIN clients = 1 .. Len(clients) /\ Len(clients) \in Nat /\ Len(clients) # 0
    BY <1>2, LenProperties, EmptySeq
  <2>2. 1 \in DOMAIN clients /\ \A j \in DOMAIN clients : 1 <= j
    BY <2>1
  <2>3. First(clients) = clients[1]
    BY <1>2, HeadTailProperties DEF First
  <2>4. ASSUME NEW d \in Registered PROVE d \in Rest(First(clients))
    <3>1. PICK j \in DOMAIN clients : clients[j] = d
      BY DEF Registered, ToSet
    <3> QED
      BY <2>2, <2>3, <3>1 DEF Rest
  <2> QED
    BY <2>4 DEF Rest
<1> QED
  BY <1>1, <1>2

\* The walk leaves one client behind.
LEMMA RestAfter ==
  ASSUME clients \in Seq(Client), IsInjective(clients), NEW c \in Registered
  PROVE  Rest(After(c)) = Rest(c) \ {c} /\ c \in Rest(c)
<1> DEFINE i == CHOOSE i \in DOMAIN clients : clients[i] = c
           n == Len(clients)
<1>1. i \in DOMAIN clients /\ clients[i] = c
  BY DEF Registered, ToSet
<1>2. After(c) = IF i = n THEN Null ELSE clients[i + 1]
  BY DEF After
<1>3. DOMAIN clients = 1 .. n /\ n \in Nat
  BY LenProperties
<1>4. \A j, k \in 1 .. n : clients[j] = clients[k] => j = k
  BY <1>3 DEF IsInjective
<1>5. \A j \in 1 .. n : clients[j] \in Registered
  BY <1>3 DEF Registered, ToSet
<1> HIDE DEF i, n
<1>6. Rest(c) = {clients[j] : j \in i .. n}
  <2>1. ASSUME NEW d \in Rest(c) PROVE d \in {clients[j] : j \in i .. n}
    <3>1. PICK j \in 1 .. n, k \in 1 .. n : j <= k /\ clients[j] = c /\ clients[k] = d
      BY <1>3 DEF Rest
    <3>2. j = i
      BY <1>1, <1>3, <1>4, <3>1
    <3>3. k \in i .. n
      BY <1>1, <1>3, <3>1, <3>2
    <3> QED
      BY <3>1, <3>3
  <2>2. ASSUME NEW j \in i .. n PROVE clients[j] \in Rest(c)
    <3>1. j \in 1 .. n /\ i <= j /\ i \in 1 .. n
      BY <1>1, <1>3
    <3> QED
      BY <1>1, <1>3, <1>5, <3>1 DEF Rest
  <2> QED
    BY <2>1, <2>2
<1>7. c \in Rest(c)
  BY <1>1, <1>3, <1>6
<1>8. CASE i = n
  <2>1. Rest(After(c)) = {}
    BY <1>2, <1>8, RestOfNull
  <2>2. \A j \in i .. n : clients[j] = c
    BY <1>1, <1>3, <1>8
  <2> QED
    BY <1>6, <1>7, <2>1, <2>2
<1>9. CASE i # n
  <2>1. After(c) = clients[i + 1] /\ i + 1 \in 1 .. n
    BY <1>1, <1>2, <1>3, <1>9
  <2>2. Rest(After(c)) = {clients[j] : j \in i + 1 .. n}
    <3>1. ASSUME NEW d \in Rest(After(c)) PROVE d \in {clients[j] : j \in i + 1 .. n}
      <4>1. PICK j \in 1 .. n, k \in 1 .. n :
              j <= k /\ clients[j] = After(c) /\ clients[k] = d
        BY <1>3 DEF Rest
      <4>2. j = i + 1
        BY <1>4, <2>1, <4>1
      <4>3. k \in i + 1 .. n
        BY <1>1, <1>3, <4>1, <4>2
      <4> QED
        BY <4>1, <4>3
    <3>2. ASSUME NEW j \in i + 1 .. n PROVE clients[j] \in Rest(After(c))
      <4>1. j \in 1 .. n /\ i + 1 <= j
        BY <1>1, <1>3
      <4> QED
        BY <1>3, <1>5, <2>1, <4>1 DEF Rest
    <3> QED
      BY <3>1, <3>2
  <2>3. \A j \in i .. n : j = i \/ j \in i + 1 .. n
    BY <1>1, <1>3
  <2>4. \A j \in i + 1 .. n : j \in i .. n /\ clients[j] # c
    <3> SUFFICES ASSUME NEW j \in i + 1 .. n PROVE j \in i .. n /\ clients[j] # c
      OBVIOUS
    <3>1. j \in i .. n /\ j \in 1 .. n /\ j # i
      BY <1>1, <1>3
    <3> QED
      BY <1>1, <1>3, <1>4, <3>1
  <2> QED
    BY <1>1, <1>6, <1>7, <2>2, <2>3, <2>4
<1> QED
  BY <1>7, <1>8, <1>9

\* Who is taken out of the list leaves the order of the others.
LEMMA RestWithout ==
  ASSUME clients \in Seq(Client), NEW k \in DOMAIN clients,
         clients' = RemoveAt(clients, k), NEW c, NEW d \in Registered',
         NEW i \in DOMAIN clients', NEW j \in DOMAIN clients',
         i <= j, clients'[i] = c, clients'[j] = d
  PROVE  d \in Rest(c)
<1> DEFINE n == Len(clients)
<1>1. /\ n \in Nat /\ k \in 1 .. n /\ DOMAIN clients = 1 .. n
      /\ DOMAIN clients' = 1 .. n - 1
      /\ \A p \in 1 .. k - 1 : clients'[p] = clients[p]
      /\ \A p \in k .. n - 1 : clients'[p] = clients[p + 1]
  BY RemoveAtShape
<1> HIDE DEF n
<1>2. PICK p \in 1 .. n : clients[p] = c /\ p = IF i < k THEN i ELSE i + 1
  BY <1>1
<1>3. PICK q \in 1 .. n : clients[q] = d /\ q = IF j < k THEN j ELSE j + 1
  BY <1>1
<1>4. p <= q
  BY <1>1, <1>2, <1>3
<1>5. d \in Registered
  BY <1>1, <1>3 DEF Registered, ToSet
<1> QED
  BY <1>1, <1>2, <1>3, <1>4, <1>5 DEF Rest

LEMMA SameRest ==
  ASSUME UNCHANGED <<clients, fd, ready_fds>>, NEW c
  PROVE  /\ Registered' = Registered
         /\ cur_c' = c => Rest(cur_c)' = Rest(c)
         /\ next_c' = c => Rest(next_c)' = Rest(c)
BY DEF Rest, Registered

\* The inductive invariant of this part.
WaitInv == UnsentOK /\ ReadyOK

LEMMA WaitStartup ==
  ASSUME LoopInv, WaitInv,
         Startup \/ SelectReturns \/ SelectTimesOut \/ EndOfIteration \/ NoDescriptor
           \/ \E c \in Client : BrokenPipe(c)
  PROVE  WaitInv'
<1>1. clients \in Seq(Client)
  BY DEF LoopInv, TypeOK
<1>2. CASE Startup
  <2>1. /\ pc = "parameters" /\ pc' \in {"parameters", "select", "ended"}
        /\ UNCHANGED unsent
    BY <1>2 DEF Startup, ReadParameters, WrongParameters, Listen, End, loop
  <2> QED
    BY <2>1 DEF WaitInv, UnsentOK, ReadyOK
<1>3. CASE EndOfIteration
  <2>1. pc = "write" /\ cur_c = Null /\ pc' = "select" /\ UNCHANGED unsent
    BY <1>3 DEF EndOfIteration
  <2> QED
    BY <1>1, <2>1, RestOfNull DEF WaitInv, UnsentOK, ReadyOK
<1>4. CASE NoDescriptor \/ \E c \in Client : BrokenPipe(c)
  BY <1>4 DEF NoDescriptor, BrokenPipe, End, WaitInv, UnsentOK, ReadyOK
<1>5. CASE SelectReturns \/ SelectTimesOut
  <2>1. /\ pc = "select" /\ pc' = "accept" /\ ready_fds' \in {Ready, {}}
        /\ unsent' \in {unsent, Registered}
        /\ UNCHANGED <<registry, network>>
    BY <1>5 DEF SelectReturns, SelectTimesOut, Registered
  <2>2. Registered' = Registered /\ Registered \subseteq Client
    BY <1>1, <2>1, RegisteredType DEF registry, Registered
  <2>3. unsent' \subseteq Registered'
    BY <2>1, <2>2 DEF WaitInv, UnsentOK
  <2>4. Ready \subseteq read_fds
    BY Zenon DEF Ready
  <2>5. ASSUME NEW c \in Registered, fd[c] \in Ready PROVE Readable(c)
    <3>1. fd[c] # listening_socket /\ fd[c] # Closed
      <4>1. fd \in [Client -> {Closed} \cup 1 .. nofile] /\ c \in Client /\ nofile \in Nat
        BY <2>2, DescriptorAssumption DEF LoopInv, TypeOK
      <4>2. fd[c] # Closed
        BY DEF LoopInv, DescriptorsExact
      <4> QED
        BY <4>1, <4>2
    <3>2. PICK d \in Client : fd[d] = fd[c] /\ Readable(d)
      BY <2>5, <3>1 DEF Ready
    <3>3. d = c
      BY <2>2, <3>1, <3>2 DEF LoopInv, DescriptorsExact
    <3> QED
      BY <3>2, <3>3
  <2>6. \A c \in Registered' : Pending(c)'
    BY <2>1, <2>2, <2>5 DEF Pending, Readable, registry, network
  <2>7. ready_fds' \subseteq read_fds'
    BY <2>1, <2>4 DEF registry
  <2> QED
    BY <2>1, <2>3, <2>6, <2>7 DEF WaitInv, UnsentOK, ReadyOK
<1> QED
  BY <1>2, <1>3, <1>4, <1>5

LEMMA WaitAccept ==
  ASSUME LoopInv, WaitInv, AcceptNothing \/ RejectClient \/ AddClient \/ EndOfRead
  PROVE  WaitInv'
<1>1. /\ clients \in Seq(Client) /\ Registered \subseteq Client
      /\ fd \in [Client -> {Closed} \cup 1 .. nofile]
  BY RegisteredType DEF LoopInv, TypeOK
<1>2. CASE AcceptNothing
  <2>1. /\ pc = "accept" /\ pc' = "read" /\ cur_c' = First(clients)
        /\ UNCHANGED <<registry, ready_fds, unsent, network>>
    BY <1>2 DEF AcceptNothing
  <2>2. Registered' = Registered /\ Rest(cur_c)' = Registered
    BY <1>1, <2>1, SameRest, RestOfFirst DEF registry
  <2> QED
    BY <2>1, <2>2 DEF WaitInv, UnsentOK, ReadyOK, Pending, Readable, registry, network
<1>3. CASE EndOfRead
  <2>1. /\ pc = "read" /\ pc' = "write" /\ cur_c' = First(clients)
        /\ UNCHANGED <<registry, unsent>>
    BY <1>3 DEF EndOfRead
  <2>2. Rest(cur_c)' = Registered
    <3>1. Rest(cur_c)' = Rest(First(clients))
      BY <2>1 DEF Rest, Registered, registry
    <3> QED
      BY <1>1, <3>1, RestOfFirst
  <2> QED
    BY <2>1, <2>2 DEF WaitInv, UnsentOK, ReadyOK
<1>4. CASE RejectClient
  <2>1. PICK c \in Client, f \in 0 .. nofile :
          Accepted(c, f) /\ cur_c' = c /\ unsent' = unsent \cup {c}
    BY <1>4 DEF RejectClient
  <2>2. /\ pc = "accept" /\ pc' = "disconnect" /\ next_c' = First(clients)
        /\ UNCHANGED <<clients, ready_fds, arrived, peer>>
    BY <1>4, <2>1 DEF RejectClient, Accepted
  <2>3. c \notin Registered /\ fd' = [fd EXCEPT ![c] = f]
    BY <2>1, AcceptedStep
  <2>4. Registered' = Registered /\ Rest(next_c)' = Registered
    <3>1. Registered' = Registered /\ Rest(next_c)' = Rest(First(clients))
      BY <2>2 DEF Rest, Registered
    <3> QED
      BY <1>1, <3>1, RestOfFirst
  <2>5. \A d \in Registered : fd'[d] = fd[d]
    BY <1>1, <2>3
  <2>6. \A d \in Registered : Pending(d)'
    BY <2>2, <2>5 DEF WaitInv, ReadyOK, Pending, Readable
  <2> QED
    BY <2>1, <2>2, <2>4, <2>6 DEF WaitInv, UnsentOK, ReadyOK
<1>5. CASE AddClient
  <2>1. PICK c \in Client, f \in 0 .. nofile, told \in SUBSET ToSet(clients) :
          /\ Accepted(c, f) /\ clients' = Append(clients, c)
          /\ unsent' = unsent \cup told \cup {c}
    BY <1>5 DEF AddClient
  <2>2. pc = "accept" /\ pc' = "read" /\ UNCHANGED <<ready_fds, arrived, peer>>
    BY <1>5, <2>1 DEF AddClient, Accepted
  <2>3. /\ c \notin Registered /\ fd' = [fd EXCEPT ![c] = f]
        /\ f # listening_socket /\ \A d \in Client : fd[d] # f
    BY <2>1, AcceptedStep
  <2>4. Registered' = Registered \cup {c}
    <3>1. clients \in Seq(Client) /\ IsInjective(clients) /\ c \notin ToSet(clients)
      BY <1>1, <2>3 DEF LoopInv, DescriptorsExact, Registered
    <3>2. ToSet(clients') = ToSet(clients) \cup {c}
      BY <2>1, <3>1, AppendFresh
    <3> QED
      BY <3>2 DEF Registered
  <2>5. f \notin ready_fds
    <3>1. read_fds = {listening_socket} \cup {fd[d] : d \in Registered}
      BY <2>2 DEF LoopInv, ListensOK, DescriptorsExact
    <3> QED
      BY <1>1, <2>2, <2>3, <3>1 DEF WaitInv, ReadyOK
  <2>6. \A d \in Registered' : Pending(d)'
    <3>1. \A d \in Registered : fd'[d] = fd[d]
      BY <1>1, <2>3
    <3>2. fd'[c] = f
      BY <1>1, <2>3
    <3> QED
      BY <2>2, <2>4, <2>5, <3>1, <3>2 DEF WaitInv, ReadyOK, Pending, Readable
  <2>7. Rest(cur_c)' \subseteq Registered'
    BY DEF Rest
  <2>8. unsent' \subseteq Registered'
    BY <2>1, <2>2, <2>4 DEF WaitInv, UnsentOK, Registered
  <2> QED
    BY <2>2, <2>6, <2>7, <2>8 DEF WaitInv, UnsentOK, ReadyOK
<1> QED
  BY <1>2, <1>3, <1>4, <1>5

LEMMA WaitWalk ==
  ASSUME LoopInv, WaitInv, NEW c \in Client,
         SkipClient(c) \/ ReadCommands(c) \/ ReadGarbage(c) \/ ReadEnd(c) \/ WriteBuffer(c)
  PROVE  WaitInv'
<1>1. /\ cur_c = c /\ UNCHANGED <<registry, ready_fds>>
      /\ \A d \in Client : d # c => arrived'[d] = arrived[d] /\ peer'[d] = peer[d]
  BY DEF SkipClient, ReadCommands, ReadGarbage, ReadEnd, WriteBuffer, Reading, TakeData,
         network, LoopInv, TypeOK
<1>2. /\ c \in Registered /\ Registered \subseteq Client
      /\ Rest(After(c)) = Rest(c) \ {c}
  <2>1. c \in Registered
    BY <1>1, DescriptorAssumption
       DEF LoopInv, WalkAlive, SkipClient, ReadCommands, ReadGarbage, ReadEnd, WriteBuffer,
           Reading, TakeData
  <2> QED
    BY <2>1, RegisteredType, RestAfter DEF LoopInv, TypeOK, DescriptorsExact
<1>3. /\ Registered' = Registered
      /\ cur_c' = After(c) => Rest(cur_c)' = Rest(c) \ {c}
      /\ next_c' = After(c) => Rest(next_c)' = Rest(c) \ {c}
  BY <1>1, <1>2, SameRest DEF registry
<1>4. ASSUME pc = "read", NEW d \in Rest(c) \ {c} PROVE Pending(d)'
  <2>1. Pending(d) /\ d \in Client
    BY <1>1, <1>2, <1>4 DEF WaitInv, ReadyOK, Rest
  <2> QED
    BY <1>1, <1>4, <2>1 DEF Pending, Readable, registry
<1>5. CASE SkipClient(c) \/ ReadCommands(c)
  <2>1. /\ pc = "read" /\ pc' = "read" /\ cur_c' = After(c)
        /\ unsent' \subseteq unsent \cup Registered
    BY <1>5 DEF SkipClient, ReadCommands, Reading, TakeData, Registered
  <2> QED
    BY <1>3, <1>4, <2>1 DEF WaitInv, UnsentOK, ReadyOK
<1>6. CASE ReadGarbage(c) \/ ReadEnd(c)
  <2>1. /\ pc = "read" /\ pc' \in {"disconnect", "read error"}
        /\ next_c' = After(c) /\ unsent' \subseteq unsent \cup {c}
    BY <1>6 DEF ReadGarbage, ReadEnd, Reading, TakeData
  <2> QED
    BY <1>2, <1>3, <1>4, <2>1 DEF WaitInv, UnsentOK, ReadyOK
<1>7. CASE WriteBuffer(c)
  <2>1. /\ pc = "write" /\ pc' = "write" /\ cur_c' = After(c) /\ unsent' = unsent \ {c}
    BY <1>7 DEF WriteBuffer
  <2> QED
    BY <1>1, <1>3, <2>1 DEF WaitInv, UnsentOK, ReadyOK
<1> QED
  BY <1>5, <1>6, <1>7

LEMMA WaitDisconnect ==
  ASSUME LoopInv, WaitInv, NEW c \in Client, Disconnect(c)
  PROVE  WaitInv'
<1>1. /\ pc \in {"disconnect", "read error"} /\ cur_c = c
      /\ pc' = "read" /\ cur_c' = next_c
      /\ fd' = [fd EXCEPT ![c] = Closed]
      /\ arrived' = [arrived EXCEPT ![c] = FALSE]
      /\ peer' = [peer EXCEPT ![c] = "away"]
      /\ UNCHANGED ready_fds
  BY DEF Disconnect, Disconnecting, Close
<1>2. /\ clients \in Seq(Client) /\ Registered \subseteq Client
      /\ \A d \in Client : d # c => fd'[d] = fd[d] /\ arrived'[d] = arrived[d]
                                  /\ peer'[d] = peer[d]
  BY <1>1, RegisteredType DEF LoopInv, TypeOK
<1>3. /\ unsent' \subseteq Registered' /\ c \notin Registered'
      /\ Registered' \subseteq Registered
      /\ \A d \in Rest(cur_c)' : d \in Rest(next_c)
  <2>1. CASE c \in Registered
    <3>1. unsent' = Registered \ {c} /\ Without(c)
      BY <2>1 DEF Disconnect, Registered
    <3>2. Registered' = Registered \ {c}
      BY <1>1, <2>1, <3>1, WithoutStep
    <3>3. PICK k \in DOMAIN clients : clients' = RemoveAt(clients, k)
      BY <3>1 DEF Without
    <3>4. ASSUME NEW d \in Rest(cur_c)' PROVE d \in Rest(next_c)
      <4>1. PICK i \in DOMAIN clients', j \in DOMAIN clients' :
              i <= j /\ clients'[i] = next_c /\ clients'[j] = d
        BY <1>1 DEF Rest
      <4>2. d \in Registered'
        BY DEF Rest
      <4> QED
        BY <1>2, <3>3, <4>1, <4>2, RestWithout
    <3> QED
      BY <3>1, <3>2, <3>4
  <2>2. CASE c \notin Registered
    <3>1. unsent' = unsent \ {c} /\ UNCHANGED clients
      BY <2>2 DEF Disconnect, Registered
    <3>2. Registered' = Registered /\ Rest(cur_c)' = Rest(next_c)
      BY <1>1, <3>1 DEF Rest, Registered
    <3> QED
      BY <1>1, <2>2, <3>1, <3>2 DEF WaitInv, UnsentOK
  <2> QED
    BY <2>1, <2>2
<1>4. ASSUME NEW d \in Rest(cur_c)' PROVE Pending(d)'
  <2>1. d \in Registered' /\ d \in Client /\ d # c
    BY <1>2, <1>3 DEF Rest
  <2>2. Pending(d)
    BY <1>1, <1>3 DEF WaitInv, ReadyOK
  <2>3. /\ fd'[d] = fd[d] /\ arrived'[d] = arrived[d] /\ peer'[d] = peer[d]
        /\ ready_fds' = ready_fds
    BY <1>1, <1>2, <2>1
  <2> QED
    BY <2>2, <2>3 DEF Pending, Readable
<1> QED
  BY <1>1, <1>3, <1>4 DEF WaitInv, UnsentOK, ReadyOK

LEMMA WaitPeers ==
  ASSUME LoopInv, WaitInv, Peers
  PROVE  WaitInv'
<1>1. PICK c \in Client : PeerConnects(c) \/ PeerSends(c) \/ PeerCloses(c) \/ PeerResets(c)
  BY DEF Peers
<1>2. UNCHANGED <<settings, loop, registry, ready_fds, unsent>>
  BY <1>1 DEF PeerConnects, PeerSends, PeerCloses, PeerResets
<1>3. /\ peer \in [Client -> PeerState] /\ arrived \in [Client -> BOOLEAN]
      /\ Registered \subseteq Client
  BY RegisteredType DEF LoopInv, TypeOK
<1>4. /\ Registered' = Registered
      /\ Rest(cur_c)' = Rest(cur_c) /\ Rest(next_c)' = Rest(next_c)
  BY <1>2 DEF Rest, Registered, loop, registry
<1>5. \A d \in Client : Readable(d) => Readable(d)'
  BY <1>1, <1>3 DEF PeerConnects, PeerSends, PeerCloses, PeerResets, Readable
<1>6. \A d \in Client : Pending(d) => Pending(d)'
  BY <1>2, <1>5 DEF Pending, registry
<1>7. UnsentOK'
  BY <1>2, <1>4 DEF WaitInv, UnsentOK, loop
<1>8. ReadyOK'
  BY <1>2, <1>3, <1>4, <1>6 DEF WaitInv, ReadyOK, loop, registry, Rest
<1> QED
  BY <1>7, <1>8 DEF WaitInv

LEMMA WaitInductive == Spec => []WaitInv
<1>1. Init => WaitInv
  BY DEF Init, WaitInv, UnsentOK, ReadyOK
<1>2. LoopInv /\ WaitInv /\ [Next]_vars => WaitInv'
  <2> SUFFICES ASSUME LoopInv, WaitInv, [Next]_vars PROVE WaitInv'
    OBVIOUS
  <2>1. CASE Main \/ SelectTimesOut
    BY <2>1, WaitStartup, WaitAccept, WaitWalk, WaitDisconnect DEF Main, Accepting, Walk
  <2>2. CASE Peers
    BY <2>2, WaitPeers
  <2>3. CASE UNCHANGED vars
    <3>1. /\ Registered' = Registered
          /\ Rest(cur_c)' = Rest(cur_c) /\ Rest(next_c)' = Rest(next_c)
      BY <2>3 DEF Rest, Registered, vars, loop, registry
    <3>2. UnsentOK'
      BY <2>3, <3>1 DEF WaitInv, UnsentOK, vars, loop
    <3>3. \A c : Pending(c) => Pending(c)'
      BY <2>3 DEF Pending, Readable, vars, registry, network
    <3>4. ReadyOK'
      BY <2>3, <3>1, <3>3 DEF WaitInv, ReadyOK, vars, loop, registry
    <3> QED
      BY <3>2, <3>4 DEF WaitInv
  <2> QED
    BY <2>1, <2>2, <2>3 DEF Next, Ended
<1> QED
  BY <1>1, <1>2, LoopInductive, PTL DEF Spec

\* Whatever the handlers before it in the iteration have closed or opened,
\* read() is called for a socket that has something to read.
THEOREM ReadsDoNotBlock == Spec => []ReadsNeverBlock
<1>1. LoopInv /\ WaitInv => ReadsNeverBlock
  <2> SUFFICES ASSUME LoopInv, WaitInv, NEW c \in Registered, pc = "read", cur_c = c,
                      fd[c] \in ready_fds
               PROVE  Readable(c)
    BY DEF ReadsNeverBlock
  <2>1. c \in Rest(c)
    BY RestAfter DEF LoopInv, TypeOK, DescriptorsExact
  <2> QED
    BY <2>1 DEF WaitInv, ReadyOK, Pending
<1> QED
  BY <1>1, LoopInductive, WaitInductive, PTL

\* What the handlers of an iteration have put to the buffers is written in
\* that iteration, to clients that come and go as well.
THEOREM EverythingIsSent == Spec => []NothingUnsent
<1>1. WaitInv => NothingUnsent
  BY DEF WaitInv, UnsentOK, NothingUnsent
<1> QED
  BY <1>1, WaitInductive, PTL

-----------------------------------------------------------------------------
(* The command line                                                        *)

\* All of the line but its first k arguments is left.
Left(k) ==
  /\ k <= Len(given) /\ Len(argv) = Len(given) - k
  /\ \A i \in 1 .. Len(argv) : argv[i] = given[k + i]

\* The value an option has in the first p pairs of a line.
ValueIn(line, p, option) ==
  LET places == {i \in 1 .. p : line[2 * i - 1] = option}
  IN  IF places = {} THEN Defaults[Field[StateOf[option]]]
      ELSE Atoi[line[2 * (CHOOSE i \in places : \A j \in places : j <= i)]]

\* p pairs of an option and its value have been read, and what the state says
\* of the argument after them.
Parsed(p) ==
  /\ \A i \in 1 .. p : IsPair(given, i)
  /\ \A option \in Option : config[Field[StateOf[option]]] = ValueIn(given, p, option)
  /\ \/ /\ state = "START" /\ Left(2 * p) /\ config.server_ip = NoAddress
     \/ /\ state \in DOMAIN Field /\ Left(2 * p + 1) /\ config.server_ip = NoAddress
        /\ given[2 * p + 1] \in Option /\ state = StateOf[given[2 * p + 1]]
     \/ /\ state = "IP" /\ given[2 * p + 1] \notin Option
        /\ \/ Left(2 * p) /\ argv # <<>> /\ config.server_ip = NoAddress
           \/ Left(2 * p + 1) /\ config.server_ip = given[2 * p + 1]

ConfigField == {"listening_port", "max_clients", "time_between_time_events", "server_ip"}

\* The inductive invariant.
ParametersInv ==
  /\ given \in Seq(Argument) /\ argv \in Seq(Argument)
  /\ DOMAIN config = ConfigField
  /\ Parsing => \/ \E p \in Nat : Parsed(p)
                \/ state = "ERROR" /\ argv # <<>> /\ ~IsCommandLine(given)

\* The fields the options set are different ones.
LEMMA FieldOfOption ==
  /\ DOMAIN Field = {"port", "max", "time"}
  /\ \A o \in Option : /\ StateOf[o] \in DOMAIN Field
                       /\ Field[StateOf[o]] \in ConfigField \ {"server_ip"}
  /\ \A o, u \in Option : Field[StateOf[o]] = Field[StateOf[u]] => o = u
<1>1. DOMAIN Field = {"port", "max", "time"}
  BY DEF Field
<1>2. /\ Field["port"] = "listening_port" /\ Field["max"] = "max_clients"
      /\ Field["time"] = "time_between_time_events"
  BY DEF Field
<1>3. StateOf["--port"] = "port" /\ StateOf["--max"] = "max" /\ StateOf["--time"] = "time"
  BY DEF StateOf, Option
<1> QED
  BY <1>1, <1>2, <1>3 DEF Option, ConfigField

\* A pair gives its option a value, and leaves those of the others.
LEMMA ValueStep ==
  ASSUME NEW line, NEW p \in Nat, NEW option
  PROVE  ValueIn(line, p + 1, option) =
           IF line[2 * p + 1] = option THEN Atoi[line[2 * p + 2]]
           ELSE ValueIn(line, p, option)
<1> DEFINE places(n) == {i \in 1 .. n : line[2 * i - 1] = option}
<1>1. 2 * (p + 1) - 1 = 2 * p + 1 /\ 2 * (p + 1) = 2 * p + 2
  OBVIOUS
<1>2. CASE line[2 * p + 1] = option
  <2>1. p + 1 \in places(p + 1) /\ \A j \in places(p + 1) : j \in Nat /\ j <= p + 1
    BY <1>1, <1>2
  <2> DEFINE last == CHOOSE i \in places(p + 1) : \A j \in places(p + 1) : j <= i
  <2>2. last \in places(p + 1) /\ \A j \in places(p + 1) : j <= last
    BY <2>1
  <2> HIDE DEF last
  <2>3. last = p + 1
    BY <2>1, <2>2
  <2> QED
    BY <1>1, <1>2, <2>1, <2>3 DEF ValueIn, last
<1>3. CASE line[2 * p + 1] # option
  <2> DEFINE Of(S) == IF S = {} THEN Defaults[Field[StateOf[option]]]
                      ELSE Atoi[line[2 * (CHOOSE i \in S : \A j \in S : j <= i)]]
  <2>1. places(p + 1) = places(p)
    BY <1>1, <1>3
  <2>2. /\ ValueIn(line, p, option) = Of(places(p))
        /\ ValueIn(line, p + 1, option) = Of(places(p + 1))
    BY DEF ValueIn
  <2> HIDE DEF Of, places
  <2> QED
    BY <1>3, <2>1, <2>2
<1> QED
  BY <1>2, <1>3

\* An argument is read.
LEMMA LeftStep ==
  ASSUME NEW k \in Nat, Left(k), ParametersInv, argv # <<>>
  PROVE  /\ Head(argv) = given[k + 1] /\ Head(argv) \in Argument /\ k + 1 <= Len(given)
         /\ argv' = Tail(argv) /\ given' = given =>
              Left(k + 1)' /\ argv' \in Seq(Argument)
<1>1. argv \in Seq(Argument) /\ given \in Seq(Argument)
  BY DEF ParametersInv
<1>2. Len(argv) \in Nat /\ Len(argv) > 0 /\ Len(given) \in Nat
  BY <1>1, LenProperties, EmptySeq
<1>3. Head(argv) = argv[1] /\ argv[1] \in Argument /\ 1 \in 1 .. Len(argv)
  BY <1>1, <1>2, HeadTailProperties, ElementOfSeq
<1>4. /\ Tail(argv) \in Seq(Argument) /\ Len(Tail(argv)) = Len(argv) - 1
      /\ \A i \in 1 .. Len(Tail(argv)) : Tail(argv)[i] = argv[i + 1]
  BY <1>1, <1>2, HeadTailProperties
<1>5. ASSUME argv' = Tail(argv), given' = given PROVE Left(k + 1)'
  <2>1. k + 1 <= Len(given) /\ Len(argv') = Len(given) - (k + 1)
    BY <1>2, <1>4, <1>5 DEF Left
  <2>2. ASSUME NEW i \in 1 .. Len(argv') PROVE argv'[i] = given[k + 1 + i]
    <3>1. i \in 1 .. Len(Tail(argv)) /\ i + 1 \in 1 .. Len(argv)
      BY <1>2, <1>4, <1>5
    <3>2. k + (i + 1) = k + 1 + i
      BY <3>1
    <3> QED
      BY <1>4, <1>5, <3>1, <3>2 DEF Left
  <2> QED
    BY <1>5, <2>1, <2>2 DEF Left
<1>6. Head(argv) = given[k + 1] /\ k + 1 <= Len(given)
  BY <1>2, <1>3 DEF Left
<1> QED
  BY <1>3, <1>4, <1>5, <1>6

LEMMA LeftStays ==
  ASSUME NEW k, Left(k), UNCHANGED <<argv, given>>
  PROVE  Left(k)'
BY DEF Left

\* As many pairs are on a line as were read when nothing is left of it.
LEMMA AllRead ==
  ASSUME ParametersInv, NEW p \in Nat,
         NEW k \in Nat, k = 2 * p \/ k = 2 * p + 1, Left(k), argv = <<>>
  PROVE  PairsOf(given) = p /\ Len(given) = k /\ Len(given) % 2 = k - 2 * p
<1>1. Len(argv) = 0 /\ Len(given) \in Nat
  BY LenProperties, EmptySeq DEF ParametersInv
<1>2. Len(given) = k
  BY <1>1 DEF Left
<1> QED
  BY <1>2 DEF PairsOf

LEMMA StartStep ==
  ASSUME ParametersInv, NEW p \in Nat, Parsed(p), StartArgument
  PROVE  ParametersInv'
<1>1. /\ argv # <<>> /\ state = "START" /\ UNCHANGED <<config, given>>
      /\ Left(2 * p) /\ config.server_ip = NoAddress
  BY FieldOfOption DEF StartArgument, Parsed
<1>2. Head(argv) = given[2 * p + 1]
  BY <1>1, LeftStep
<1>3. /\ \A i \in 1 .. p : IsPair(given', i)
      /\ \A option \in Option : config'[Field[StateOf[option]]] = ValueIn(given', p, option)
  BY <1>1 DEF Parsed
<1>4. CASE Head(argv) \in Option
  <2>1. state' = StateOf[given[2 * p + 1]] /\ argv' = Tail(argv)
    BY <1>2, <1>4 DEF StartArgument
  <2>2. Left(2 * p + 1)' /\ argv' \in Seq(Argument)
    BY <1>1, <2>1, LeftStep
  <2>3. state' \in DOMAIN Field
    BY <1>2, <1>4, <2>1, FieldOfOption
  <2>4. Parsed(p)'
    BY <1>1, <1>2, <1>3, <1>4, <2>1, <2>2, <2>3 DEF Parsed
  <2> QED
    BY <1>1, <2>2, <2>4 DEF ParametersInv
<1>5. CASE Head(argv) \notin Option
  <2>1. state' = "IP" /\ argv' = argv
    BY <1>5 DEF StartArgument
  <2>2. Left(2 * p)'
    BY <1>1, <2>1, LeftStays
  <2>3. Parsed(p)'
    BY <1>1, <1>2, <1>3, <1>5, <2>1, <2>2 DEF Parsed
  <2> QED
    BY <1>1, <2>1, <2>3 DEF ParametersInv
<1> QED
  BY <1>4, <1>5

\* A line with this pair is not accepted.
LEMMA WrongPair ==
  ASSUME ParametersInv, NEW p \in Nat, 2 * p + 2 <= Len(given), ~IsPair(given, p + 1)
  PROVE  ~IsCommandLine(given)
<1>1. Len(given) \in Nat
  BY LenProperties DEF ParametersInv
<1>2. p + 1 \in 1 .. PairsOf(given)
  BY <1>1 DEF PairsOf
<1> QED
  BY <1>2 DEF IsCommandLine

LEMMA IpStep ==
  ASSUME ParametersInv, NEW p \in Nat, Parsed(p), IpArgument
  PROVE  ParametersInv'
<1>1. /\ argv # <<>> /\ state = "IP" /\ UNCHANGED given
      /\ given[2 * p + 1] \notin Option
      /\ \/ Left(2 * p) /\ argv # <<>> /\ config.server_ip = NoAddress
         \/ Left(2 * p + 1) /\ config.server_ip = given[2 * p + 1]
  BY FieldOfOption DEF IpArgument, Parsed
<1>2. CASE Left(2 * p) /\ config.server_ip = NoAddress
  <2>1. /\ argv' = Tail(argv) /\ state' = "IP"
        /\ config' = [config EXCEPT !.server_ip = Head(argv)]
    BY <1>1, <1>2 DEF IpArgument
  <2>2. Head(argv) = given[2 * p + 1] /\ Left(2 * p + 1)' /\ argv' \in Seq(Argument)
    BY <1>1, <1>2, <2>1, LeftStep
  <2>3. DOMAIN config' = ConfigField /\ config'.server_ip = given[2 * p + 1]
    BY <2>1, <2>2 DEF ParametersInv, ConfigField
  <2>4. \A f \in ConfigField \ {"server_ip"} : config'[f] = config[f]
    BY <2>1 DEF ParametersInv
  <2>5. \A option \in Option : config'[Field[StateOf[option]]] = ValueIn(given', p, option)
    BY <1>1, <2>4, FieldOfOption DEF Parsed
  <2>6. Parsed(p)'
    BY <1>1, <2>1, <2>2, <2>3, <2>5 DEF Parsed
  <2> QED
    BY <1>1, <2>2, <2>3, <2>6 DEF ParametersInv
<1>3. CASE Left(2 * p + 1) /\ config.server_ip = given[2 * p + 1]
  <2>1. 2 * p + 2 <= Len(given) /\ 2 * p + 1 \in 1 .. Len(given)
    <3>1. (2 * p + 1) + 1 <= Len(given) /\ Len(given) \in Nat
      BY <1>1, <1>3, LeftStep, LenProperties DEF ParametersInv
    <3> QED
      BY <3>1
  <2>2. config.server_ip # NoAddress
    BY <1>3, <2>1, ElementOfSeq, ArgumentAssumption DEF ParametersInv
  <2>3. state' = "ERROR" /\ UNCHANGED <<argv, config>>
    BY <1>1, <2>2 DEF IpArgument
  <2>4. 2 * (p + 1) - 1 = 2 * p + 1
    OBVIOUS
  <2>5. ~IsPair(given, p + 1)
    BY <1>1, <2>4 DEF IsPair
  <2>6. ~IsCommandLine(given)
    BY <2>1, <2>5, WrongPair
  <2> QED
    BY <1>1, <2>3, <2>6 DEF ParametersInv
<1> QED
  BY <1>1, <1>2, <1>3

LEMMA ValueArgumentStep ==
  ASSUME ParametersInv, NEW p \in Nat, Parsed(p), ValueArgument
  PROVE  ParametersInv'
<1>1. /\ argv # <<>> /\ state \in DOMAIN Field /\ UNCHANGED given
      /\ Left(2 * p + 1) /\ config.server_ip = NoAddress
      /\ given[2 * p + 1] \in Option /\ state = StateOf[given[2 * p + 1]]
  BY FieldOfOption DEF ValueArgument, Parsed
<1>2. PICK name, arg : name = given[2 * p + 1] /\ arg = given[2 * p + 2]
  OBVIOUS
<1>3. /\ Head(argv) = arg /\ 2 * p + 2 <= Len(given)
      /\ argv' = Tail(argv) => Left(2 * p + 2)' /\ argv' \in Seq(Argument)
  <2>1. (2 * p + 1) + 1 = 2 * p + 2
    OBVIOUS
  <2>2. 2 * p + 1 \in Nat
    OBVIOUS
  <2> QED
    BY <1>1, <1>2, <2>1, <2>2, LeftStep
<1>4. config' = [config EXCEPT ![Field[state]] = Atoi[arg]]
  BY <1>3 DEF ValueArgument
<1>5. name \in Option /\ state = StateOf[name] /\ Field[state] \in ConfigField \ {"server_ip"}
  BY <1>1, <1>2, FieldOfOption
<1>6. /\ DOMAIN config' = ConfigField /\ config'.server_ip = NoAddress
      /\ config'[Field[state]] = Atoi[arg]
      /\ \A f \in ConfigField : f # Field[state] => config'[f] = config[f]
  BY <1>1, <1>4, <1>5 DEF ParametersInv, ConfigField
<1>7. 2 * (p + 1) - 1 = 2 * p + 1 /\ 2 * (p + 1) = 2 * p + 2
  OBVIOUS
<1>8. IsPair(given, p + 1) <=> ~Wrong(state, arg)
  BY <1>2, <1>5, <1>7 DEF IsPair
<1>9. CASE Wrong(state, arg)
  <2>1. state' = "ERROR" /\ UNCHANGED argv
    BY <1>3, <1>9 DEF ValueArgument
  <2>2. ~IsCommandLine(given)
    BY <1>3, <1>8, <1>9, WrongPair
  <2> QED
    BY <1>1, <1>6, <2>1, <2>2 DEF ParametersInv
<1>10. CASE ~Wrong(state, arg)
  <2>1. state' = "START" /\ argv' = Tail(argv)
    BY <1>3, <1>10 DEF ValueArgument
  <2>2. Left(2 * (p + 1))'
    BY <1>3, <1>7, <2>1
  <2>3. \A i \in 1 .. p + 1 : IsPair(given, i)
    <3>1. \A i \in 1 .. p + 1 : i \in 1 .. p \/ i = p + 1
      OBVIOUS
    <3> QED
      BY <1>8, <1>10, <3>1 DEF Parsed
  <2>4. ASSUME NEW option \in Option
        PROVE  config'[Field[StateOf[option]]] = ValueIn(given, p + 1, option)
    <3>1. CASE option = name
      BY <1>2, <1>5, <1>6, <3>1, ValueStep
    <3>2. CASE option # name
      <4>1. Field[StateOf[option]] # Field[state] /\ Field[StateOf[option]] \in ConfigField
        BY <1>5, <3>2, FieldOfOption
      <4>2. config'[Field[StateOf[option]]] = config[Field[StateOf[option]]]
        BY <1>6, <4>1
      <4>3. ValueIn(given, p + 1, option) = ValueIn(given, p, option)
        BY <1>2, <3>2, ValueStep
      <4> QED
        BY <4>2, <4>3 DEF Parsed
    <3> QED
      BY <3>1, <3>2
  <2>5. Parsed(p + 1)'
    BY <1>1, <1>6, <2>1, <2>2, <2>3, <2>4 DEF Parsed
  <2> QED
    BY <1>1, <1>3, <1>6, <2>1, <2>5 DEF ParametersInv
<1> QED
  BY <1>9, <1>10

LEMMA ParametersInitially == InitParameters => ParametersInv
<1> SUFFICES ASSUME InitParameters PROVE ParametersInv
  OBVIOUS
<1>1. PICK n \in 0 .. MaxArguments : argv \in [1 .. n -> Argument]
  BY DEF InitParameters
<1>2. argv \in Seq(Argument)
  BY <1>1, ArgumentAssumption
<1>3. /\ given = argv /\ state = "START" /\ config = Defaults
  BY DEF InitParameters
<1>4. DOMAIN config = ConfigField /\ config.server_ip = NoAddress
  BY <1>3 DEF Defaults, ConfigField
<1>5. Left(2 * 0)
  BY <1>2, <1>3, LenProperties DEF Left
<1>6. ASSUME NEW option \in Option
      PROVE  config[Field[StateOf[option]]] = ValueIn(given, 0, option)
  <2>1. {i \in 1 .. 0 : given[2 * i - 1] = option} = {}
    OBVIOUS
  <2> QED
    BY <1>3, <2>1 DEF ValueIn
<1>7. Parsed(0)
  BY <1>3, <1>4, <1>5, <1>6 DEF Parsed
<1> QED
  BY <1>2, <1>3, <1>4, <1>7 DEF ParametersInv

LEMMA ProcessArgumentStep == ParametersInv /\ ProcessArgument => ParametersInv'
<1> SUFFICES ASSUME ParametersInv, ProcessArgument PROVE ParametersInv'
  OBVIOUS
<1>1. CASE EndOfArguments
  <2>1. given' = <<>> /\ state' = "END" /\ argv' = argv /\ ~Parsing'
    BY <1>1 DEF EndOfArguments, Parsing
  <2>2. DOMAIN config' = ConfigField
    BY <1>1 DEF EndOfArguments, ParametersInv
  <2>3. <<>> \in Seq(Argument)
    BY EmptySeq
  <2> QED
    BY <2>1, <2>2, <2>3 DEF ParametersInv
<1>2. CASE StartArgument \/ IpArgument \/ ValueArgument
  <2>1. argv # <<>> /\ state # "ERROR" /\ state # "END"
    BY <1>2, FieldOfOption DEF StartArgument, IpArgument, ValueArgument
  <2>2. PICK p \in Nat : Parsed(p)
    BY <2>1 DEF ParametersInv, Parsing
  <2> QED
    BY <1>2, <2>2, StartStep, IpStep, ValueArgumentStep
<1> QED
  BY <1>1, <1>2 DEF ProcessArgument

\* Nothing but the loop over argv changes what it has read.
LEMMA ParametersStep == ParametersInv /\ [Next]_vars => ParametersInv'
<1> SUFFICES ASSUME ParametersInv, [Next]_vars PROVE ParametersInv'
  OBVIOUS
<1>1. CASE ReadParameters
  BY <1>1, ProcessArgumentStep DEF ReadParameters
<1>2. CASE UNCHANGED parameters
  BY <1>2 DEF parameters, ParametersInv, Parsing, Parsed, Left
<1>3. WrongParameters \/ Listen => UNCHANGED parameters
  BY DEF WrongParameters, Listen, settings
<1>4. SelectReturns \/ EndOfRead \/ EndOfIteration \/ SelectTimesOut => UNCHANGED parameters
  BY DEF SelectReturns, EndOfRead, EndOfIteration, SelectTimesOut, settings
<1>5. Accepting => UNCHANGED parameters
  BY DEF Accepting, AcceptNothing, NoDescriptor, RejectClient, AddClient, Accepted, settings
<1>6. ASSUME NEW c \in Client, Walk(c) PROVE UNCHANGED parameters
  BY <1>6 DEF Walk, SkipClient, ReadCommands, ReadGarbage, TakeData, ReadEnd, BrokenPipe,
              Disconnect, WriteBuffer, settings
<1>7. Peers => UNCHANGED parameters
  BY DEF Peers, PeerConnects, PeerSends, PeerCloses, PeerResets, settings
<1>8. Ended \/ UNCHANGED vars => UNCHANGED parameters
  BY DEF Ended, vars, settings
<1> QED
  BY <1>1, <1>2, <1>3, <1>4, <1>5, <1>6, <1>7, <1>8 DEF Next, Main, Startup

\* Every command line of pairs and an address is accepted, and no other, and
\* each field has the value that was given last.
THEOREM ParametersAreAsGiven == Spec => []ParametersAsGiven
<1>1. Init => ParametersInv
  BY ParametersInitially DEF Init
<1>2. ParametersInv => ParametersAsGiven
  <2> SUFFICES ASSUME ParametersInv PROVE ParametersAsGiven
    OBVIOUS
  <2>1. ASSUME ArgumentError PROVE ~IsCommandLine(given)
    BY <2>1, FieldOfOption DEF ArgumentError, ParametersInv, Parsing, Parsed
  <2>2. ASSUME argv = <<>>, Parsing
        PROVE  /\ IsCommandLine(given)
               /\ config.server_ip = AddressOf(given)
               /\ \A option \in Option :
                    config[Field[StateOf[option]]] = ValueOf(given, option)
    <3>1. PICK p \in Nat : Parsed(p)
      BY <2>2 DEF ParametersInv
    <3>2. PICK k \in Nat :
            /\ k = 2 * p \/ k = 2 * p + 1
            /\ Left(k)
            /\ k = 2 * p => config.server_ip = NoAddress
            /\ k = 2 * p + 1 /\ given[k] \in Option => config.server_ip = NoAddress
            /\ k = 2 * p + 1 /\ given[k] \notin Option => config.server_ip = given[k]
      <4>1. CASE Left(2 * p) /\ config.server_ip = NoAddress
        BY <4>1
      <4>2. CASE /\ Left(2 * p + 1) /\ config.server_ip = NoAddress
                 /\ given[2 * p + 1] \in Option
        BY <4>2
      <4>3. CASE /\ Left(2 * p + 1) /\ given[2 * p + 1] \notin Option
                 /\ config.server_ip = given[2 * p + 1]
        BY <4>3
      <4> QED
        BY <3>1, <4>1, <4>2, <4>3 DEF Parsed
    <3>3. PairsOf(given) = p /\ Len(given) = k /\ Len(given) % 2 = k - 2 * p
      BY <2>2, <3>2, AllRead
    <3>4. IsCommandLine(given)
      BY <3>1, <3>3 DEF IsCommandLine, Parsed
    <3>5. Last(given) = given[k]
      BY <3>3 DEF Last
    <3>6. config.server_ip = AddressOf(given)
      BY <3>2, <3>3, <3>5 DEF AddressOf
    <3>7. \A option \in Option : ValueOf(given, option) = ValueIn(given, p, option)
      BY <3>3 DEF ValueOf, ValueIn
    <3> QED
      BY <3>1, <3>4, <3>6, <3>7 DEF Parsed
  <2> QED
    BY <2>1, <2>2 DEF ParametersAsGiven
<1> QED
  BY <1>1, <1>2, ParametersStep, PTL DEF Spec

=============================================================================
